--------------------------- MODULE PersonnelProofs ---------------------------
(***************************************************************************)
(* LINE login, binding and the employee's life cycle, for any number of    *)
(* browsers, accounts, states, employees and requests.                     *)
(***************************************************************************)
EXTENDS Personnel, TLAPS

-----------------------------------------------------------------------------
(* The inductive invariant: logins.                                         *)

\* LINE vouched, in browser b, for the account that the session x of b carries.
Vouched(b, x) ==
  x.line # Nobody =>
    \/ <<b, x.line>> \in liff
    \/ \E s \in States : login[s].by = b /\ login[s].account = x.line
\* ... and the state it names was given to b.
Given(b, x) == x.state # Nobody => login[x.state].by = b

SessionsOwned == \A b \in Browsers : Vouched(b, session[b]) /\ Given(b, session[b])

\* A callback under way works for the browser that began its login.
CallsOwned ==
  \A c \in Calls : call[c].at # "none" =>
    /\ call[c].browser \in Browsers /\ call[c].state \in States
    /\ login[call[c].state].by = call[c].browser
    /\ Vouched(call[c].browser, call[c].copy) /\ Given(call[c].browser, call[c].copy)

\* A state that was consumed is with one callback, or has logged in once.
ConsumedOnce ==
  /\ \A s \in States : /\ oauth[s] = "unused" => login[s].by = Nobody /\ login[s].account = Nobody
                       /\ oauth[s] # "gone" => login[s].times = 0
                       /\ login[s].times <= 1
  /\ \A c \in Calls : call[c].at = "consumed" =>
       /\ oauth[call[c].state] = "gone" /\ login[call[c].state].times = 0
       /\ \A d \in Calls : call[d].at = "consumed" /\ call[d].state = call[c].state => d = c

LoginInv == LoginTypeOK /\ SessionsOwned /\ CallsOwned /\ ConsumedOnce

-----------------------------------------------------------------------------
(* The inductive invariant: employees and what hangs on them.               *)

RequestType ==
  [op : {"idle", "bind1", "bind2", "bind3", "approve", "purge", "cycle", "scan", "payroll", "update"},
   e : Employees \cup {Nobody}, a : Accounts \cup {Nobody},
   b : BindingIds \cup {Nobody}, todo : SUBSET Employees]

\* A handler names the rows it works on.
NamesRows(x) ==
  /\ x.op \notin {"idle", "cycle"} => x.e \in Employees
  /\ x.op = "approve" => x.b \in BindingIds
  /\ x.op \in {"bind1", "bind2", "bind3", "approve"} => x.a \in Accounts
RequestsSound == \A r \in Requests : NamesRows(req[r])

\* A binding request that was made names an employee; a blank one does not.
BindingsNamed ==
  \A b \in BindingIds : IF binding[b].status = "unused" THEN binding[b].e = Nobody
                                                        ELSE binding[b].e \in Employees

EmployeeType == [state : {"current", "trashed", "purged"}, active : BOOLEAN,
                 line : Accounts \cup {Nobody}, due : BOOLEAN]
BindingType == [e : Employees \cup {Nobody}, a : Accounts \cup {Nobody},
                status : {"unused", "pending", "approved", "rejected", "gone"}]

PersonnelTyped ==
  /\ emp \in [Employees -> EmployeeType]
  /\ binding \in [BindingIds -> BindingType]
  /\ \A b \in BindingIds : binding[b].status # "unused" => binding[b].a \in Accounts
  /\ attendance \subseteq Employees
  /\ salary \in [Employees -> {"none", "named", "anonymous"}]
  /\ req \in [Requests -> RequestType]
  /\ paused \in BOOLEAN /\ served \in 0 .. MaxRequests
  /\ granted \subseteq Employees \X Accounts /\ late \subseteq Employees

LifeInv == PersonnelTyped /\ RequestsSound /\ BindingsNamed /\ BoundByReview /\ PurgeErases

\* A review is of a request that was made.
ReviewsSound == \A r \in Requests : req[r].op = "approve" => binding[req[r].b].status # "unused"

Inv == LoginInv /\ LifeInv /\ ReviewsSound

-----------------------------------------------------------------------------
(* Logins.                                                                  *)

LEMMA LoginInitInv ==
  ASSUME LoginInit
  PROVE  LoginInv
BY LoginAssumption
   DEF LoginInit, LoginInv, LoginTypeOK, Session, NoSession, NoCall, SessionsOwned, CallsOwned,
       ConsumedOnce, Vouched, Given

\* Who began a login and who signed in is settled once.
Settled ==
  /\ liff \subseteq liff'
  /\ \A s \in States : /\ login[s].by # Nobody => login'[s].by = login[s].by
                       /\ login[s].account # Nobody => login'[s].account = login[s].account

LEMMA VouchersStay ==
  ASSUME Settled
  PROVE  \A b \in Browsers, x \in Session :
            Vouched(b, x) /\ Given(b, x) => Vouched(b, x)' /\ Given(b, x)'
<1> SUFFICES ASSUME NEW b \in Browsers, NEW x \in Session, Vouched(b, x), Given(b, x)
             PROVE  Vouched(b, x)' /\ Given(b, x)'
  OBVIOUS
<1>1. b # Nobody /\ (x.state # Nobody => x.state \in States)
  BY LoginAssumption DEF Session
<1>2. Given(b, x)'
  BY <1>1 DEF Given, Settled
<1>3. Vouched(b, x)'
  BY <1>1 DEF Vouched, Settled
<1> QED BY <1>2, <1>3

\* No session and no callback names a state that was never given out.
LEMMA UnusedUnknown ==
  ASSUME LoginInv, NEW s \in States, oauth[s] = "unused"
  PROVE  /\ login[s].by = Nobody /\ login[s].account = Nobody
         /\ \A c \in Calls : call[c].at # "none" => call[c].state # s
BY LoginAssumption DEF LoginInv, ConsumedOnce, CallsOwned

LEMMA LoginTypes ==
  ASSUME LoginTypeOK
  PROVE  /\ \A b \in Browsers : session[b] \in Session
         /\ \A c \in Calls : call[c].copy \in Session
         /\ NoSession \in Session /\ NoCall.at = "none"
BY DEF LoginTypeOK, Session, NoSession, NoCall

SessionOwned(b) == Vouched(b, session[b]) /\ Given(b, session[b])
CallOwned(c) ==
  call[c].at # "none" =>
    /\ call[c].browser \in Browsers /\ call[c].state \in States
    /\ login[call[c].state].by = call[c].browser
    /\ Vouched(call[c].browser, call[c].copy) /\ Given(call[c].browser, call[c].copy)

\* A session or a callback that a step leaves alone stays owned.
LEMMA OwnedStay ==
  ASSUME LoginInv, Settled
  PROVE  /\ \A b \in Browsers : session'[b] = session[b] => SessionOwned(b)'
         /\ \A c \in Calls : call'[c] = call[c] => CallOwned(c)'
<1> USE LoginTypes
<1>0. LoginTypeOK /\ SessionsOwned /\ CallsOwned
  BY DEF LoginInv
<1>1. ASSUME NEW b \in Browsers, session'[b] = session[b]
      PROVE  SessionOwned(b)'
  <2>1. Vouched(b, session[b]) /\ Given(b, session[b]) /\ session[b] \in Session
    BY <1>0 DEF SessionsOwned
  <2> QED BY <1>1, <2>1, VouchersStay DEF SessionOwned, Vouched, Given
<1>2. ASSUME NEW c \in Calls, call'[c] = call[c], call[c].at # "none"
      PROVE  CallOwned(c)'
  <2>1. /\ call[c].browser \in Browsers /\ call[c].state \in States /\ call[c].copy \in Session
        /\ login[call[c].state].by = call[c].browser
        /\ Vouched(call[c].browser, call[c].copy) /\ Given(call[c].browser, call[c].copy)
    BY <1>0, <1>2 DEF CallsOwned
  <2>2. login'[call[c].state].by = call[c].browser
    BY <2>1, LoginAssumption DEF Settled
  <2> QED BY <1>2, <2>1, <2>2, VouchersStay DEF CallOwned, Vouched, Given
<1>3. ASSUME NEW c \in Calls, call'[c] = call[c], call[c].at = "none"
      PROVE  CallOwned(c)'
  BY <1>3 DEF CallOwned
<1> QED BY <1>1, <1>2, <1>3

LEMMA OwnedSuffices ==
  ASSUME LoginTypeOK', ConsumedOnce',
         \A b \in Browsers : SessionOwned(b)',
         \A c \in Calls : CallOwned(c)'
  PROVE  LoginInv'
BY DEF LoginInv, SessionsOwned, CallsOwned, SessionOwned, CallOwned

\* The steps that change sessions and tables, but no callback.
LEMMA BrowserStepsKeepLogins ==
  ASSUME LoginInv,
         \/ \E b \in Browsers, s \in States : LineLogin(b, s)
         \/ \E s \in States, a \in Accounts : SignIn(s, a)
         \/ \E b \in LiffBrowsers, a \in Accounts : LiffAuth(b, a)
         \/ \E s \in States : StateExpires(s)
         \/ CleanupExpiredOAuthStates
  PROVE  LoginInv'
<1> USE LoginTypes, LoginAssumption
<1>0. LoginTypeOK /\ ConsumedOnce /\ \A b \in Browsers : SessionOwned(b) /\ session[b] \in Session
  BY DEF LoginInv, SessionsOwned, SessionOwned
<1>1. ASSUME NEW b \in Browsers, NEW s \in States, LineLogin(b, s) PROVE LoginInv'
  <2>1. /\ oauth[s] = "unused" /\ oauth' = [oauth EXCEPT ![s] = "live"]
        /\ session' = [session EXCEPT ![b].state = s]
        /\ login' = [login EXCEPT ![s].by = b] /\ UNCHANGED <<call, liff>>
    BY <1>1 DEF LineLogin
  <2>2. /\ login'[s].by = b /\ login'[s].account = login[s].account /\ login'[s].times = login[s].times
        /\ \A t \in States : t # s => login'[t] = login[t]
    BY <1>0, <2>1 DEF LoginTypeOK
  <2>3. LoginTypeOK'
    <3>1. session' \in [Browsers -> Session]
      <4>1. PICK x \in Session : session' = [session EXCEPT ![b] = x]
        <5>1. [session[b] EXCEPT !.state = s] \in Session
          BY <1>0 DEF Session
        <5> QED BY <2>1, <5>1
      <4> QED BY <1>0, <4>1 DEF LoginTypeOK
    <3>2. login' \in [States -> [by : Browsers \cup {Nobody}, account : Accounts \cup {Nobody}, times : 0 .. 2]]
      BY <1>0, <2>1 DEF LoginTypeOK
    <3>3. oauth' \in [States -> {"unused", "live", "expired", "gone"}]
      BY <1>0, <2>1 DEF LoginTypeOK
    <3> QED BY <1>0, <2>1, <3>1, <3>2, <3>3 DEF LoginTypeOK
  <2>4. login[s].by = Nobody /\ \A c \in Calls : call[c].at # "none" => call[c].state # s
    BY <2>1, UnusedUnknown
  <2>5. Settled
    BY <2>1, <2>2, <2>4 DEF Settled
  <2>6. /\ session'[b].state = s /\ session'[b].line = session[b].line
        /\ \A d \in Browsers : d # b => session'[d] = session[d]
    BY <1>0, <2>1 DEF LoginTypeOK, Session
  <2>7. SessionOwned(b)'
    <3>1. Vouched(b, session[b]) /\ session'[b].line # Nobody =>
             <<b, session[b].line>> \in liff
             \/ \E t \in States : t # s /\ login[t].by = b /\ login[t].account = session[b].line
      BY <1>0, <2>4, <2>6 DEF Vouched
    <3>2. Vouched(b, session[b])'
      BY <1>0, <2>1, <2>2, <2>6, <3>1 DEF Vouched, SessionOwned
    <3> QED BY <2>2, <2>6, <3>2 DEF SessionOwned, Given
  <2>8. ConsumedOnce'
    BY <1>0, <2>1, <2>2, <2>4 DEF ConsumedOnce, LoginTypeOK, CallsOwned
  <2> QED BY <2>1, <2>3, <2>5, <2>6, <2>7, <2>8, OwnedStay, OwnedSuffices
<1>2. ASSUME NEW s \in States, NEW a \in Accounts, SignIn(s, a) PROVE LoginInv'
  <2>1. /\ oauth[s] # "unused" /\ login[s].account = Nobody
        /\ login' = [login EXCEPT ![s].account = a] /\ UNCHANGED <<session, oauth, call, liff>>
    BY <1>2 DEF SignIn
  <2>2. /\ login'[s].by = login[s].by /\ login'[s].account = a /\ login'[s].times = login[s].times
        /\ \A t \in States : t # s => login'[t] = login[t]
    BY <1>0, <2>1 DEF LoginTypeOK
  <2>3. LoginTypeOK'
    <3> DEFINE new == [login[s] EXCEPT !.account = a]
    <3>1. login[s] \in [by : Browsers \cup {Nobody}, account : Accounts \cup {Nobody}, times : 0 .. 2]
      BY <1>0 DEF LoginTypeOK
    <3>2. new \in [by : Browsers \cup {Nobody}, account : Accounts \cup {Nobody}, times : 0 .. 2]
      BY <3>1
    <3>3. login' = [login EXCEPT ![s] = new]
      BY <2>1
    <3> HIDE DEF new
    <3>4. login' \in [States -> [by : Browsers \cup {Nobody}, account : Accounts \cup {Nobody}, times : 0 .. 2]]
      BY <1>0, <3>2, <3>3 DEF LoginTypeOK
    <3> QED BY <1>0, <2>1, <3>4 DEF LoginTypeOK
  <2>4. Settled
    BY <2>1, <2>2 DEF Settled
  <2>5. \A c \in Calls : call[c].at = "consumed" => call[c].state \in States
    BY DEF LoginInv, CallsOwned
  <2>6. ConsumedOnce'
    BY <1>0, <2>1, <2>2, <2>5 DEF ConsumedOnce, LoginTypeOK
  <2> QED BY <2>1, <2>3, <2>4, <2>6, OwnedStay, OwnedSuffices
<1>3. ASSUME NEW b \in LiffBrowsers, NEW a \in Accounts, LiffAuth(b, a) PROVE LoginInv'
  <2>1. /\ session' = [session EXCEPT ![b] = [state |-> Nobody, line |-> a]]
        /\ liff' = liff \cup {<<b, a>>} /\ UNCHANGED <<oauth, login, call>> /\ b \in Browsers
    BY <1>3 DEF LiffAuth
  <2>2. LoginTypeOK'
    BY <1>0, <2>1 DEF LoginTypeOK, Session
  <2>3. Settled
    BY <2>1 DEF Settled
  <2>4. \A d \in Browsers : d # b => session'[d] = session[d]
    BY <1>0, <2>1 DEF LoginTypeOK
  <2>5. SessionOwned(b)'
    BY <1>0, <2>1 DEF SessionOwned, Vouched, Given, LoginTypeOK
  <2>6. ConsumedOnce'
    BY <1>0, <2>1 DEF ConsumedOnce
  <2> QED BY <2>1, <2>2, <2>3, <2>4, <2>5, <2>6, OwnedStay, OwnedSuffices
<1>4. ASSUME \/ \E s \in States : StateExpires(s)
             \/ CleanupExpiredOAuthStates
      PROVE  LoginInv'
  <2>1. /\ UNCHANGED <<session, login, call, liff>> /\ LoginTypeOK'
        /\ \A s \in States : /\ oauth'[s] = "unused" => oauth[s] = "unused"
                             /\ oauth[s] = "gone" => oauth'[s] = "gone"
                             /\ oauth'[s] # "gone" => oauth[s] # "gone"
    BY <1>0, <1>4 DEF StateExpires, CleanupExpiredOAuthStates, LoginTypeOK
  <2>2. \A c \in Calls : call[c].at = "consumed" => call[c].state \in States
    BY DEF LoginInv, CallsOwned
  <2>3. ConsumedOnce'
    BY <1>0, <2>1, <2>2 DEF ConsumedOnce
  <2>4. Settled
    BY <2>1 DEF Settled
  <2> QED BY <2>1, <2>3, <2>4, OwnedStay, OwnedSuffices
<1> QED BY <1>1, <1>2, <1>3, <1>4

\* The steps of a callback.
LEMMA CallbackStepsKeepLogins ==
  ASSUME LoginInv,
         \/ \E c \in Calls, b \in Browsers, s \in States : CallbackLoad(c, b, s)
         \/ \E c \in Calls : \/ CallbackSave(c) \/ ConsumeOAuthState(c)
                             \/ EstablishLineSession(c) \/ LineApiFails(c)
  PROVE  LoginInv'
<1> USE LoginTypes, LoginAssumption
<1>0. /\ LoginTypeOK /\ ConsumedOnce /\ \A b \in Browsers : SessionOwned(b) /\ session[b] \in Session
      /\ \A c \in Calls : CallOwned(c)
  BY DEF LoginInv, SessionsOwned, SessionOwned, CallsOwned, CallOwned
<1>1. ASSUME NEW c \in Calls, NEW b \in Browsers, NEW s \in States, CallbackLoad(c, b, s) PROVE LoginInv'
  <2> DEFINE loaded == [at |-> "loaded", browser |-> b, state |-> s, copy |-> session[b]]
  <2>1. /\ session[b].state = s /\ call' = [call EXCEPT ![c] = loaded]
        /\ UNCHANGED <<session, oauth, login, liff>>
    BY <1>1 DEF CallbackLoad
  <2>2. LoginTypeOK'
    BY <1>0, <2>1 DEF LoginTypeOK
  <2>3. call'[c] = loaded /\ \A d \in Calls : d # c => call'[d] = call[d]
    BY <1>0, <2>1 DEF LoginTypeOK
  <2>4. Settled
    BY <2>1 DEF Settled
  <2>5. CallOwned(c)'
    BY <1>0, <2>1, <2>3 DEF CallOwned, SessionOwned, Vouched, Given
  <2>6. ConsumedOnce'
    BY <1>0, <2>1, <2>3 DEF ConsumedOnce
  <2> QED BY <2>1, <2>2, <2>3, <2>4, <2>5, <2>6, OwnedStay, OwnedSuffices
<1>2. ASSUME NEW c \in Calls, CallbackSave(c) PROVE LoginInv'
  <2>1. call[c].at = "loaded" /\ UNCHANGED <<oauth, login, liff>>
    BY <1>2 DEF CallbackSave
  <2>2. PICK b \in Browsers : b = call[c].browser
    BY <1>0, <2>1 DEF CallOwned
  <2>3. PICK saved \in Session : saved = [call[c].copy EXCEPT !.state = Nobody]
    BY <1>0 DEF Session
  <2>4. saved.state = Nobody /\ saved.line = call[c].copy.line
    BY <1>0, <2>3 DEF Session
  <2>5. /\ session' = [session EXCEPT ![b] = saved]
        /\ call' = [call EXCEPT ![c].at = "saved", ![c].copy = saved]
    BY <1>2, <2>2, <2>3 DEF CallbackSave
  <2>6. /\ call'[c].at = "saved" /\ call'[c].copy = saved /\ call'[c].browser = b
        /\ call'[c].state = call[c].state /\ \A d \in Calls : d # c => call'[d] = call[d]
    BY <1>0, <2>2, <2>5 DEF LoginTypeOK
  <2>7. session'[b] = saved /\ \A d \in Browsers : d # b => session'[d] = session[d]
    BY <1>0, <2>5 DEF LoginTypeOK
  <2>8. LoginTypeOK'
    <3>1. session' \in [Browsers -> Session]
      BY <1>0, <2>5 DEF LoginTypeOK
    <3>2. call' \in [Calls -> [at : {"none", "loaded", "saved", "consumed"},
                               browser : Browsers \cup {Nobody},
                               state : States \cup {Nobody}, copy : Session]]
      <4>1. call[c] \in [at : {"none", "loaded", "saved", "consumed"}, browser : Browsers \cup {Nobody},
                         state : States \cup {Nobody}, copy : Session]
        BY <1>0 DEF LoginTypeOK
      <4> DEFINE new == [call[c] EXCEPT !.at = "saved", !.copy = saved]
      <4>2. new \in [at : {"none", "loaded", "saved", "consumed"}, browser : Browsers \cup {Nobody},
                     state : States \cup {Nobody}, copy : Session]
        BY <4>1
      <4>3. call' = [call EXCEPT ![c] = new]
        BY <2>5
      <4> HIDE DEF new
      <4> QED BY <1>0, <4>2, <4>3 DEF LoginTypeOK
    <3> QED BY <1>0, <2>1, <3>1, <3>2 DEF LoginTypeOK
  <2>9. Settled
    BY <2>1 DEF Settled
  <2>10. Vouched(b, saved) /\ Given(b, saved) /\ call[c].state \in States /\ login[call[c].state].by = b
    BY <1>0, <2>1, <2>2, <2>4 DEF CallOwned, Vouched, Given
  <2>11. CallOwned(c)' /\ SessionOwned(b)'
    BY <2>1, <2>6, <2>7, <2>10 DEF CallOwned, SessionOwned, Vouched, Given
  <2>12. \A d \in Browsers : SessionOwned(d)'
    BY <2>7, <2>9, <2>11, OwnedStay
  <2>13. ConsumedOnce'
    <3>1. \A d \in Calls : call'[d].at = "consumed" => call[d].at = "consumed" /\ call'[d] = call[d]
      BY <2>6
    <3> QED BY <1>0, <2>1, <3>1 DEF ConsumedOnce
  <2> QED BY <2>6, <2>8, <2>9, <2>11, <2>12, <2>13, OwnedStay, OwnedSuffices
<1>3. ASSUME NEW c \in Calls, ConsumeOAuthState(c) PROVE LoginInv'
  <2>1. /\ call[c].at = "saved" /\ UNCHANGED <<session, login, liff>>
    BY <1>3 DEF ConsumeOAuthState
  <2>2. Settled
    BY <2>1 DEF Settled
  <2>3. call[c].state \in States
    BY <1>0, <2>1 DEF CallOwned
  <2>4. CASE oauth[call[c].state] = "live"
    <3>1. /\ oauth' = [oauth EXCEPT ![call[c].state] = "gone"]
          /\ call' = [call EXCEPT ![c].at = "consumed"]
      BY <1>3, <2>4 DEF ConsumeOAuthState
    <3>2. /\ call'[c].at = "consumed" /\ call'[c].copy = call[c].copy
          /\ call'[c].browser = call[c].browser /\ call'[c].state = call[c].state
          /\ \A d \in Calls : d # c => call'[d] = call[d]
      BY <1>0, <3>1 DEF LoginTypeOK
    <3>3. LoginTypeOK'
      BY <1>0, <3>1, <2>1 DEF LoginTypeOK
    <3>4. CallOwned(c)'
      BY <1>0, <2>1, <3>2 DEF CallOwned, Vouched, Given
    <3>5. oauth'[call[c].state] = "gone" /\ \A s \in States : s # call[c].state => oauth'[s] = oauth[s]
      BY <1>0, <2>3, <3>1 DEF LoginTypeOK
    <3>6. \A d \in Calls : call[d].at = "consumed" => call[d].state # call[c].state
      BY <1>0, <2>4 DEF ConsumedOnce
    <3>7. \A d \in Calls : call[d].at = "consumed" => call[d].state \in States
      BY <1>0 DEF CallOwned
    <3>8. ConsumedOnce'
      BY <1>0, <2>1, <2>3, <2>4, <3>2, <3>5, <3>6, <3>7 DEF ConsumedOnce
    <3> QED BY <2>1, <2>2, <3>2, <3>3, <3>4, <3>8, OwnedStay, OwnedSuffices
  <2>5. CASE oauth[call[c].state] # "live"
    <3>1. call' = [call EXCEPT ![c] = NoCall] /\ oauth' = oauth
      BY <1>3, <2>5 DEF ConsumeOAuthState
    <3>2. call'[c].at = "none" /\ \A d \in Calls : d # c => call'[d] = call[d]
      BY <1>0, <3>1 DEF LoginTypeOK
    <3>3. LoginTypeOK'
      BY <1>0, <3>1, <2>1 DEF LoginTypeOK, NoCall
    <3>4. CallOwned(c)'
      BY <3>2 DEF CallOwned
    <3>5. ConsumedOnce'
      BY <1>0, <2>1, <3>1, <3>2 DEF ConsumedOnce
    <3> QED BY <2>1, <2>2, <3>2, <3>3, <3>4, <3>5, OwnedStay, OwnedSuffices
  <2> QED BY <2>4, <2>5
<1>4. ASSUME NEW c \in Calls, EstablishLineSession(c) PROVE LoginInv'
  <2>1. /\ call[c].at = "consumed" /\ call' = [call EXCEPT ![c] = NoCall]
        /\ UNCHANGED <<oauth, liff>>
    BY <1>4 DEF EstablishLineSession
  <2>2. PICK b \in Browsers, s \in States : b = call[c].browser /\ s = call[c].state
    BY <1>0, <2>1 DEF CallOwned
  <2>3. login[s].by = b /\ login[s].times = 0 /\ oauth[s] = "gone"
    BY <1>0, <2>1, <2>2 DEF CallOwned, ConsumedOnce
  <2>4. PICK x \in Session : x = [state |-> Nobody, line |-> login[s].account]
    BY <1>0 DEF LoginTypeOK, Session
  <2>5. /\ session' = [session EXCEPT ![b] = x] /\ login' = [login EXCEPT ![s].times = @ + 1]
    BY <1>4, <2>2, <2>4 DEF EstablishLineSession
  <2>6. /\ login'[s].by = b /\ login'[s].account = login[s].account /\ login'[s].times = 1
        /\ \A t \in States : t # s => login'[t] = login[t]
    BY <1>0, <2>3, <2>5 DEF LoginTypeOK
  <2>7. call'[c].at = "none" /\ \A d \in Calls : d # c => call'[d] = call[d]
    BY <1>0, <2>1 DEF LoginTypeOK
  <2>8. session'[b] = x /\ \A d \in Browsers : d # b => session'[d] = session[d]
    BY <1>0, <2>5 DEF LoginTypeOK
  <2>9. LoginTypeOK'
    <3>1. login' \in [States -> [by : Browsers \cup {Nobody},
                                 account : Accounts \cup {Nobody}, times : 0 .. 2]]
      BY <1>0, <2>3, <2>5 DEF LoginTypeOK
    <3>2. session' \in [Browsers -> Session]
      BY <1>0, <2>5 DEF LoginTypeOK
    <3> QED BY <1>0, <2>1, <3>1, <3>2 DEF LoginTypeOK, NoCall
  <2>10. Settled
    BY <2>1, <2>3, <2>6 DEF Settled
  <2>11. CallOwned(c)'
    BY <2>7 DEF CallOwned
  <2>12. SessionOwned(b)'
    <3>1. x.state = Nobody /\ x.line = login[s].account
      BY <2>4
    <3> QED BY <2>6, <2>8, <3>1 DEF SessionOwned, Vouched, Given
  <2>13. \A d \in Calls : d # c /\ call[d].at = "consumed" => call[d].state # s /\ call[d].state \in States
    BY <1>0, <2>1, <2>2 DEF CallOwned, ConsumedOnce
  <2>14. ConsumedOnce'
    BY <1>0, <2>1, <2>3, <2>6, <2>7, <2>13 DEF ConsumedOnce
  <2>15. \A d \in Browsers : SessionOwned(d)'
    BY <2>8, <2>10, <2>12, OwnedStay
  <2> QED BY <2>7, <2>9, <2>10, <2>11, <2>14, <2>15, OwnedStay, OwnedSuffices
<1>5. ASSUME NEW c \in Calls, LineApiFails(c) PROVE LoginInv'
  <2>1. call' = [call EXCEPT ![c] = NoCall] /\ UNCHANGED <<session, oauth, login, liff>>
    BY <1>5 DEF LineApiFails
  <2>2. call'[c].at = "none" /\ \A d \in Calls : d # c => call'[d] = call[d]
    BY <1>0, <2>1 DEF LoginTypeOK
  <2>3. LoginTypeOK'
    BY <1>0, <2>1 DEF LoginTypeOK, NoCall
  <2>4. CallOwned(c)' /\ Settled
    BY <2>1, <2>2 DEF CallOwned, Settled
  <2>5. ConsumedOnce'
    BY <1>0, <2>1, <2>2 DEF ConsumedOnce
  <2> QED BY <2>1, <2>2, <2>3, <2>4, <2>5, OwnedStay, OwnedSuffices
<1> QED BY <1>1, <1>2, <1>3, <1>4, <1>5

-----------------------------------------------------------------------------
(* Employees: the handler being run.                                        *)

LEMMA IdleSound == Idle \in RequestType /\ NamesRows(Idle) /\ Idle.op = "idle"
BY DEF Idle, RequestType, NamesRows

LEMMA RequestMoves ==
  ASSUME PersonnelTyped, RequestsSound, NEW r \in Requests, NEW x \in RequestType, NamesRows(x),
         req' = [req EXCEPT ![r] = x]
  PROVE  req' \in [Requests -> RequestType] /\ RequestsSound'
<1>1. req' \in [Requests -> RequestType]
  BY DEF PersonnelTyped
<1>2. req'[r] = x /\ \A q \in Requests : q # r => req'[q] = req[q]
  BY DEF PersonnelTyped
<1> QED BY <1>1, <1>2 DEF RequestsSound, NamesRows

LEMMA ServedStays ==
  ASSUME PersonnelTyped,
         UNCHANGED served \/ (served < MaxRequests /\ served' = served + 1)
  PROVE  served' \in 0 .. MaxRequests
BY PersonnelAssumption DEF PersonnelTyped

LEMMA EndSound ==
  ASSUME PersonnelTyped, RequestsSound, NEW r \in Requests, End(r)
  PROVE  req' \in [Requests -> RequestType] /\ RequestsSound' /\ served' \in 0 .. MaxRequests
BY IdleSound, RequestMoves, ServedStays DEF End

LEMMA OnceSound ==
  ASSUME PersonnelTyped, RequestsSound, Once
  PROVE  req' \in [Requests -> RequestType] /\ RequestsSound' /\ served' \in 0 .. MaxRequests
BY ServedStays DEF Once, PersonnelTyped, RequestsSound, NamesRows

LEMMA BeginSound ==
  ASSUME PersonnelTyped, RequestsSound, NEW r \in Requests, NEW x \in RequestType, NamesRows(x),
         Begin(r, x)
  PROVE  req' \in [Requests -> RequestType] /\ RequestsSound' /\ served' \in 0 .. MaxRequests
BY RequestMoves, ServedStays DEF Begin

LEMMA GoSound ==
  ASSUME PersonnelTyped, RequestsSound, NEW r \in Requests, NEW op \in {"bind2", "bind3"}, Go(r, op),
         req[r].op \in {"bind1", "bind2"}
  PROVE  req' \in [Requests -> RequestType] /\ RequestsSound' /\ served' \in 0 .. MaxRequests
<1> DEFINE x == [req[r] EXCEPT !.op = op]
<1>1. req[r] \in RequestType /\ NamesRows(req[r])
  BY DEF PersonnelTyped, RequestsSound
<1>2. x \in RequestType /\ x.op = op /\ x.e = req[r].e /\ x.a = req[r].a
  BY <1>1 DEF RequestType
<1>3. req' = [req EXCEPT ![r] = x] /\ UNCHANGED served
  BY DEF Go
<1> HIDE DEF x
<1>4. NamesRows(x)
  BY <1>1, <1>2 DEF NamesRows
<1> QED BY <1>2, <1>3, <1>4, RequestMoves, ServedStays

\* A step that writes no table.
LEMMA TablesUntouched ==
  ASSUME LifeInv, req' \in [Requests -> RequestType], RequestsSound', served' \in 0 .. MaxRequests,
         paused' \in BOOLEAN, UNCHANGED <<tables, granted, late>>
  PROVE  LifeInv'
BY DEF LifeInv, PersonnelTyped, BindingsNamed, BoundByReview, PurgeErases, tables

-----------------------------------------------------------------------------
(* Employees: what each step does to the tables.                            *)

LEMMA ReadsKeepLife ==
  ASSUME LifeInv, LoginTypeOK,
         \/ \E r \in Requests, br \in Browsers, e \in Employees : BindRequest(r, br, e)
         \/ \E r \in Requests, b \in BindingIds : ApproveRead(r, b)
         \/ \E r \in Requests : BindEmployee(r) \/ BindExisting(r)
         \/ \E r \in Requests, e \in Employees : \/ UpdateRead(r, e) \/ PurgeSelect(r, e)
                                                 \/ \E op \in {"scan", "payroll"} : EmployeeRead(r, e, op)
         \/ PauseWrites \/ ResumeWrites
  PROVE  LifeInv'
<1>0. PersonnelTyped /\ RequestsSound
  BY DEF LifeInv
<1>1. ASSUME NEW r \in Requests, NEW br \in Browsers, NEW e \in Employees, BindRequest(r, br, e)
      PROVE  LifeInv'
  <2> DEFINE x == [Idle EXCEPT !.op = "bind1", !.e = e, !.a = session[br].line]
  <2>1. session[br].line \in Accounts
    BY <1>1 DEF LoginTypeOK, Session, BindRequest
  <2>2. x \in RequestType /\ NamesRows(x)
    BY <2>1 DEF Idle, RequestType, NamesRows
  <2>3. Begin(r, x) /\ NoTable
    BY <1>1 DEF BindRequest
  <2> HIDE DEF x
  <2> QED BY <1>0, <2>2, <2>3, BeginSound, TablesUntouched DEF NoTable, PersonnelTyped
<1>2. ASSUME NEW r \in Requests, NEW b \in BindingIds, ApproveRead(r, b) PROVE LifeInv'
  <2> DEFINE x == [Idle EXCEPT !.op = "approve", !.e = binding[b].e, !.a = binding[b].a, !.b = b]
  <2>1. binding[b].e \in Employees /\ binding[b].a \in Accounts
    BY <1>0, <1>2 DEF LifeInv, ApproveRead, PersonnelTyped, BindingsNamed
  <2>2. x \in RequestType /\ NamesRows(x)
    BY <2>1 DEF Idle, RequestType, NamesRows
  <2>3. Begin(r, x) /\ NoTable
    BY <1>2 DEF ApproveRead
  <2> HIDE DEF x
  <2> QED BY <1>0, <2>2, <2>3, BeginSound, TablesUntouched DEF NoTable, PersonnelTyped
<1>3. ASSUME NEW r \in Requests, BindEmployee(r) \/ BindExisting(r) PROVE LifeInv'
  <2>1. /\ req[r].op \in {"bind1", "bind2"} /\ NoTable
        /\ End(r) \/ \E op \in {"bind2", "bind3"} : Go(r, op)
    BY <1>3 DEF BindEmployee, BindExisting
  <2> QED BY <1>0, <2>1, EndSound, GoSound, TablesUntouched DEF NoTable, PersonnelTyped
<1>4. ASSUME NEW r \in Requests, NEW e \in Employees, NEW op \in {"update", "purge", "scan", "payroll"},
             Begin(r, [Idle EXCEPT !.op = op, !.e = e]), NoTable
      PROVE  LifeInv'
  <2> DEFINE x == [Idle EXCEPT !.op = op, !.e = e]
  <2>1. x \in RequestType /\ NamesRows(x)
    BY DEF Idle, RequestType, NamesRows
  <2>2. Begin(r, x)
    BY <1>4
  <2> HIDE DEF x
  <2> QED BY <1>0, <1>4, <2>1, <2>2, BeginSound, TablesUntouched DEF NoTable, PersonnelTyped
<1>5. CASE PauseWrites \/ ResumeWrites
  <2>1. /\ UNCHANGED <<tables, granted, late>> /\ paused' \in BOOLEAN
        /\ Once \/ UNCHANGED <<req, served>>
    BY <1>5 DEF PauseWrites, ResumeWrites
  <2>2. req' \in [Requests -> RequestType] /\ RequestsSound' /\ served' \in 0 .. MaxRequests
    BY <1>0, <2>1, OnceSound DEF PersonnelTyped, RequestsSound, NamesRows
  <2> QED BY <2>1, <2>2, TablesUntouched
<1> QED BY <1>1, <1>2, <1>3, <1>4, <1>5 DEF UpdateRead, PurgeSelect, EmployeeRead

LEMMA CyclesKeepLife ==
  ASSUME LifeInv, NEW r \in Requests,
         RetentionCycle(r) \/ \E e \in Employees : CyclePurge(r, e)
  PROVE  LifeInv'
<1>0. PersonnelTyped /\ RequestsSound /\ req[r] \in RequestType
  BY DEF LifeInv, PersonnelTyped
<1>1. UNCHANGED served /\ NoTable
  BY DEF RetentionCycle, CyclePurge
<1>2. \E x \in RequestType : NamesRows(x) /\ req' = [req EXCEPT ![r] = x]
  <2>1. CASE RetentionCycle(r)
    <3> DEFINE x == [Idle EXCEPT !.op = "cycle",
                                 !.todo = {e \in Employees : emp[e].state = "trashed" /\ emp[e].due}]
    <3>1. x \in RequestType /\ NamesRows(x)
      BY DEF Idle, RequestType, NamesRows
    <3>2. req' = [req EXCEPT ![r] = x]
      BY <2>1 DEF RetentionCycle
    <3> HIDE DEF x
    <3> QED BY <3>1, <3>2
  <2>2. ASSUME NEW e \in Employees, CyclePurge(r, e)
        PROVE  \E x \in RequestType : NamesRows(x) /\ req' = [req EXCEPT ![r] = x]
    <3> DEFINE y == [req[r] EXCEPT !.todo = @ \ {e}]
               z == [req[r] EXCEPT !.op = "purge", !.e = e, !.todo = @ \ {e}]
    <3>1. req[r].op = "cycle"
      BY <2>2 DEF CyclePurge
    <3>2. y \in RequestType /\ NamesRows(y)
      BY <1>0, <3>1 DEF RequestType, NamesRows
    <3>3. z \in RequestType /\ NamesRows(z)
      BY <1>0, <3>1 DEF RequestType, NamesRows
    <3>4. \/ req' = [req EXCEPT ![r] = Idle]
          \/ req' = [req EXCEPT ![r] = y]
          \/ req' = [req EXCEPT ![r] = z]
      <4>1. CASE paused \/ emp[e].state # "trashed"
        <5>1. CASE paused
          BY <2>2, <5>1 DEF CyclePurge
        <5>2. CASE ~paused
          <6>1. req' = [req EXCEPT ![r] = IF req[r].todo = {e} THEN Idle
                                          ELSE [req[r] EXCEPT !.todo = @ \ {e}]]
            BY <2>2, <4>1, <5>2 DEF CyclePurge
          <6>2. CASE req[r].todo = {e}
            BY <6>1, <6>2
          <6>3. CASE req[r].todo # {e}
            BY <6>1, <6>3
          <6> QED BY <6>2, <6>3
        <5> QED BY <5>1, <5>2
      <4>2. CASE ~(paused \/ emp[e].state # "trashed")
        <5>1. req' = [req EXCEPT ![r].op = "purge", ![r].e = e, ![r].todo = @ \ {e}]
          BY <2>2, <4>2 DEF CyclePurge
        <5> QED BY <1>0, <5>1 DEF PersonnelTyped
      <4> QED BY <4>1, <4>2
    <3> HIDE DEF y, z
    <3> QED BY <3>2, <3>3, <3>4, IdleSound
  <2> QED BY <2>1, <2>2
<1> QED BY <1>0, <1>1, <1>2, RequestMoves, ServedStays, TablesUntouched DEF NoTable, PersonnelTyped

\* The step of a review of binding b, or of a new request: its employee stays as it is.
LEMMA BindingStep ==
  ASSUME LifeInv, NEW b \in BindingIds, NEW x \in BindingType,
         binding' = [binding EXCEPT ![b] = x], x.status # "unused", x.e \in Employees, x.a \in Accounts,
         emp[x.e].state = "purged" => x.status = "gone",
         req' \in [Requests -> RequestType], RequestsSound', served' \in 0 .. MaxRequests,
         UNCHANGED <<emp, attendance, salary, paused, granted, late>>
  PROVE  LifeInv'
<1>1. binding'[b] = x /\ \A d \in BindingIds : d # b => binding'[d] = binding[d]
  BY DEF LifeInv, PersonnelTyped
<1>2. PersonnelTyped'
  BY <1>1 DEF LifeInv, PersonnelTyped
<1>3. BindingsNamed'
  BY <1>1 DEF LifeInv, BindingsNamed
<1>4. BoundByReview' /\ PurgeErases'
  BY <1>1 DEF LifeInv, BoundByReview, PurgeErases
<1> QED BY <1>2, <1>3, <1>4 DEF LifeInv

LEMMA BindingTypes ==
  ASSUME LifeInv, NEW b \in BindingIds
  PROVE  /\ binding[b] \in BindingType
         /\ binding[b].status # "unused" => binding[b].e \in Employees /\ binding[b].a \in Accounts
         /\ \A e \in Employees : emp[e].state = "purged" /\ binding[b].e = e => binding[b].status = "gone"
BY DEF LifeInv, PersonnelTyped, BindingsNamed, PurgeErases

LEMMA ReviewsKeepLife ==
  ASSUME LifeInv,
         \/ \E b \in BindingIds : RejectBinding(b) \/ DeletePendingBinding(b)
         \/ \E r \in Requests : CreatePendingBinding(r)
  PROVE  LifeInv'
<1>0. PersonnelTyped /\ RequestsSound
  BY DEF LifeInv
<1>1. ASSUME NEW b \in BindingIds, RejectBinding(b) \/ DeletePendingBinding(b) PROVE LifeInv'
  <2>1. PICK st \in {"rejected", "gone"} : binding' = [binding EXCEPT ![b].status = st]
    BY <1>1 DEF RejectBinding, DeletePendingBinding
  <2> DEFINE x == [binding[b] EXCEPT !.status = st]
  <2>2. /\ binding[b].status \in {"pending", "approved", "rejected"} /\ Once
        /\ UNCHANGED <<emp, attendance, salary, paused, granted, late>>
    BY <1>1 DEF RejectBinding, DeletePendingBinding
  <2>3. /\ x \in BindingType /\ x.e = binding[b].e /\ x.a = binding[b].a /\ x.status = st
        /\ binding' = [binding EXCEPT ![b] = x]
    BY <2>1, BindingTypes DEF BindingType
  <2> HIDE DEF x
  <2>4. emp[x.e].state # "purged" /\ x.e \in Employees /\ x.a \in Accounts
    BY <2>2, <2>3, BindingTypes
  <2> QED BY <1>0, <2>2, <2>3, <2>4, OnceSound, BindingStep
<1>2. ASSUME NEW r \in Requests, CreatePendingBinding(r) PROVE LifeInv'
  <2>1. /\ req[r].op = "bind3" /\ End(r) /\ UNCHANGED <<emp, attendance, salary, paused, granted, late>>
    BY <1>2 DEF CreatePendingBinding
  <2>2. req[r].e \in Employees /\ req[r].a \in Accounts
    BY <1>0, <2>1 DEF RequestsSound, NamesRows
  <2>3. req' \in [Requests -> RequestType] /\ RequestsSound' /\ served' \in 0 .. MaxRequests
    BY <1>0, <2>1, EndSound
  <2>4. CASE emp[req[r].e].state = "purged"
    <3>1. UNCHANGED binding
      BY <1>2, <2>4 DEF CreatePendingBinding
    <3> QED BY <1>0, <2>1, <2>3, <3>1, TablesUntouched DEF tables, PersonnelTyped
  <2>5. CASE emp[req[r].e].state # "purged"
    <3> DEFINE x == [e |-> req[r].e, a |-> req[r].a, status |-> "pending"]
    <3>1. PICK b \in BindingIds : binding' = [binding EXCEPT ![b] = x]
      BY <1>2, <2>5 DEF CreatePendingBinding
    <3>2. /\ x \in BindingType /\ x.e \in Employees /\ x.a \in Accounts /\ x.status # "unused"
          /\ emp[x.e].state # "purged"
      BY <2>2, <2>5 DEF BindingType
    <3> HIDE DEF x
    <3> QED BY <2>1, <2>3, <3>1, <3>2, BindingStep
  <2> QED BY <2>4, <2>5
<1> QED BY <1>1, <1>2

\* A step that changes the row of employee e alone, and deletes e's bindings or none.
LEMMA EmployeeStep ==
  ASSUME LifeInv, NEW e \in Employees, NEW x \in EmployeeType, emp' = [emp EXCEPT ![e] = x],
         \/ binding' = binding /\ (x.state = "purged" => emp[e].state = "purged")
         \/ binding' = WithoutBindings(e),
         \/ granted \subseteq granted' /\ (x.line # Nobody => <<e, x.line>> \in granted')
         \/ granted' = {g \in granted : g[1] # e} /\ x.line = Nobody,
         granted' \subseteq Employees \X Accounts,
         attendance' \subseteq attendance, salary' \in [Employees -> {"none", "named", "anonymous"}],
         \A d \in Employees : d # e => salary'[d] = salary[d],
         x.state = "purged" /\ e \notin late =>
            \/ emp[e].state = "purged" /\ salary' = salary
            \/ e \notin attendance' /\ salary'[e] # "named",
         req' \in [Requests -> RequestType], RequestsSound', served' \in 0 .. MaxRequests,
         UNCHANGED <<paused, late>>
  PROVE  LifeInv'
<1>0. PersonnelTyped /\ BindingsNamed /\ BoundByReview /\ PurgeErases
  BY DEF LifeInv
<1>1. emp'[e] = x /\ \A d \in Employees : d # e => emp'[d] = emp[d]
  BY <1>0 DEF PersonnelTyped
<1>2. /\ binding' \in [BindingIds -> BindingType]
      /\ \A b \in BindingIds : /\ binding'[b].e = binding[b].e /\ binding'[b].a = binding[b].a
                               /\ binding'[b].status \in {binding[b].status, "gone"}
                               /\ binding'[b].status = "unused" <=> binding[b].status = "unused"
                               /\ binding' = WithoutBindings(e) /\ binding[b].e = e
                                     => binding'[b].status = "gone"
  <2>1. \A b \in BindingIds : binding[b] \in BindingType
    BY <1>0 DEF PersonnelTyped
  <2>2. CASE binding' = binding /\ binding' # WithoutBindings(e)
    BY <1>0, <2>2 DEF PersonnelTyped
  <2>3. CASE binding' = WithoutBindings(e)
    <3>1. e # Nobody
      BY PersonnelAssumption
    <3>2. \A b \in BindingIds : binding[b].e = e => binding[b].status # "unused"
      BY <1>0, <3>1 DEF BindingsNamed
    <3>3. \A b \in BindingIds : binding'[b] = IF binding[b].e = e THEN [binding[b] EXCEPT !.status = "gone"]
                                                                 ELSE binding[b]
      BY <2>3, <3>2 DEF WithoutBindings
    <3>4. \A b \in BindingIds : LET y == [binding[b] EXCEPT !.status = "gone"]
                                IN  /\ y \in BindingType /\ y.e = binding[b].e /\ y.a = binding[b].a
                                    /\ y.status = "gone"
      BY <2>1 DEF BindingType
    <3>5. binding' = [b \in BindingIds |-> binding'[b]]
      BY <2>3 DEF WithoutBindings
    <3>6. \A b \in BindingIds : /\ binding'[b] \in BindingType
                                /\ binding'[b].e = binding[b].e /\ binding'[b].a = binding[b].a
                                /\ binding'[b].status = IF binding[b].e = e THEN "gone" ELSE binding[b].status
      BY <2>1, <3>3, <3>4
    <3>7. binding' \in [BindingIds -> BindingType]
      BY <3>5, <3>6
    <3> QED BY <2>3, <3>2, <3>6, <3>7
  <2> QED BY <2>2, <2>3
<1>3. PersonnelTyped'
  BY <1>0, <1>2 DEF PersonnelTyped
<1>4. BindingsNamed'
  BY <1>0, <1>2 DEF BindingsNamed
<1>5. BoundByReview'
  <2> SUFFICES ASSUME NEW d \in Employees, emp'[d].line # Nobody PROVE <<d, emp'[d].line>> \in granted'
    BY DEF BoundByReview
  <2>1. CASE d = e
    BY <1>1, <2>1
  <2>2. CASE d # e
    BY <1>0, <1>1, <2>2 DEF BoundByReview
  <2> QED BY <2>1, <2>2
<1>6. PurgeErases'
  <2> SUFFICES ASSUME NEW d \in Employees, emp'[d].state = "purged"
               PROVE  /\ \A b \in BindingIds : binding'[b].e = d => binding'[b].status = "gone"
                      /\ d \notin late => d \notin attendance' /\ salary'[d] # "named"
    BY DEF PurgeErases
  <2>1. CASE d = e
    BY <1>0, <1>1, <1>2, <2>1 DEF PurgeErases
  <2>2. CASE d # e
    BY <1>0, <1>1, <1>2, <2>2 DEF PurgeErases
  <2> QED BY <2>1, <2>2
<1> QED BY <1>3, <1>4, <1>5, <1>6 DEF LifeInv

LEMMA EmployeeTypes ==
  ASSUME LifeInv, NEW e \in Employees
  PROVE  /\ emp[e] \in EmployeeType /\ e # Nobody
         /\ emp[e].line # Nobody => <<e, emp[e].line>> \in granted
         /\ granted \subseteq Employees \X Accounts
         /\ salary \in [Employees -> {"none", "named", "anonymous"}]
         /\ req \in [Requests -> RequestType] /\ RequestsSound /\ served \in 0 .. MaxRequests
BY PersonnelAssumption DEF LifeInv, PersonnelTyped, BoundByReview

LEMMA EmployeeStepsKeepLife ==
  ASSUME LifeInv,
         \/ \E e \in Employees : TrashEmployee(e) \/ RestoreEmployee(e) \/ RetentionOver(e)
         \/ \E r \in Requests : UpdateWrite(r)
  PROVE  LifeInv'
<1>0. PersonnelTyped /\ RequestsSound
  BY DEF LifeInv
<1>1. ASSUME NEW e \in Employees, TrashEmployee(e) PROVE LifeInv'
  <2> DEFINE x == [emp[e] EXCEPT !.state = "trashed", !.line = Nobody, !.due = FALSE]
  <2>1. x \in EmployeeType /\ x.state = "trashed" /\ x.line = Nobody
    BY EmployeeTypes DEF EmployeeType
  <2>2. /\ emp' = [emp EXCEPT ![e] = x] /\ binding' = WithoutBindings(e)
        /\ granted' = {g \in granted : g[1] # e} /\ Once
        /\ UNCHANGED <<attendance, salary, paused, late>>
    BY <1>1 DEF TrashEmployee
  <2> HIDE DEF x
  <2> QED BY <1>0, <2>1, <2>2, OnceSound, EmployeeTypes, EmployeeStep
<1>2. ASSUME NEW e \in Employees, RestoreEmployee(e) PROVE LifeInv'
  <2> DEFINE x == [emp[e] EXCEPT !.state = "current", !.due = FALSE]
  <2>1. x \in EmployeeType /\ x.state = "current" /\ x.line = emp[e].line
    BY EmployeeTypes DEF EmployeeType
  <2>2. /\ emp' = [emp EXCEPT ![e] = x] /\ Once
        /\ UNCHANGED <<binding, attendance, salary, paused, granted, late>>
    BY <1>2 DEF RestoreEmployee
  <2> HIDE DEF x
  <2> QED BY <1>0, <2>1, <2>2, OnceSound, EmployeeTypes, EmployeeStep
<1>3. ASSUME NEW e \in Employees, RetentionOver(e) PROVE LifeInv'
  <2> DEFINE x == [emp[e] EXCEPT !.due = TRUE]
  <2>1. x \in EmployeeType /\ x.state = emp[e].state /\ x.line = emp[e].line
    BY EmployeeTypes DEF EmployeeType
  <2>2. /\ emp' = [emp EXCEPT ![e] = x] /\ emp[e].state = "trashed"
        /\ UNCHANGED <<binding, attendance, salary, req, paused, served, granted, late>>
    BY <1>3 DEF RetentionOver
  <2>3. RequestsSound'
    BY <1>0, <2>2 DEF RequestsSound, NamesRows
  <2> HIDE DEF x
  <2> QED BY <1>0, <2>1, <2>2, <2>3, EmployeeTypes, EmployeeStep
<1>4. ASSUME NEW r \in Requests, UpdateWrite(r) PROVE LifeInv'
  <2>1. /\ req[r].op = "update" /\ End(r) /\ UNCHANGED <<binding, attendance, salary, paused, granted, late>>
    BY <1>4 DEF UpdateWrite
  <2>2. PICK e \in Employees : e = req[r].e
    BY <1>0, <2>1 DEF RequestsSound, NamesRows
  <2>3. CASE emp[e].state = "purged"
    <3>1. emp' = emp
      BY <1>4, <2>2, <2>3 DEF UpdateWrite
    <3> QED BY <1>0, <2>1, <3>1, EndSound, TablesUntouched DEF tables, PersonnelTyped
  <2>4. CASE emp[e].state # "purged"
    <3> DEFINE x == [emp[e] EXCEPT !.active = ~@]
    <3>1. emp' = [emp EXCEPT ![e] = x]
      BY <1>4, <2>2, <2>4 DEF UpdateWrite
    <3>2. x \in EmployeeType /\ x.state = emp[e].state /\ x.line = emp[e].line
      BY EmployeeTypes DEF EmployeeType
    <3> HIDE DEF x
    <3> QED BY <1>0, <2>1, <2>4, <3>1, <3>2, EndSound, EmployeeTypes, EmployeeStep
  <2> QED BY <2>3, <2>4
<1> QED BY <1>1, <1>2, <1>3, <1>4

LEMMA PurgeKeepsLife ==
  ASSUME LifeInv, NEW r \in Requests, PurgeWrite(r)
  PROVE  LifeInv'
<1>0. PersonnelTyped /\ RequestsSound /\ req[r] \in RequestType
  BY DEF LifeInv, PersonnelTyped
<1>1. req[r].op = "purge" /\ UNCHANGED <<served, paused, late>>
  BY DEF PurgeWrite
<1>2. PICK e \in Employees : e = req[r].e
  BY <1>0, <1>1 DEF RequestsSound, NamesRows
<1> DEFINE x == [emp[e] EXCEPT !.state = "purged", !.line = Nobody]
           y == [Idle EXCEPT !.op = "cycle", !.todo = req[r].todo]
<1>3. /\ emp' = [emp EXCEPT ![e] = x] /\ binding' = WithoutBindings(e)
      /\ attendance' = attendance \ {e} /\ granted' = {g \in granted : g[1] # e}
      /\ salary' = [salary EXCEPT ![e] = IF @ = "named" THEN "anonymous" ELSE @]
      /\ req' = [req EXCEPT ![r] = Idle] \/ req' = [req EXCEPT ![r] = y]
  <2>1. req' = [req EXCEPT ![r] = IF req[r].todo = {} THEN Idle ELSE y]
    BY DEF PurgeWrite
  <2>2. req' = [req EXCEPT ![r] = Idle] \/ req' = [req EXCEPT ![r] = y]
    BY <2>1
  <2> QED BY <1>2, <2>2 DEF PurgeWrite
<1>4. x \in EmployeeType /\ x.state = "purged" /\ x.line = Nobody
  BY EmployeeTypes DEF EmployeeType
<1>5. y \in RequestType /\ NamesRows(y)
  BY <1>0 DEF Idle, RequestType, NamesRows
<1> HIDE DEF x, y
<1>6. req' \in [Requests -> RequestType] /\ RequestsSound'
  BY <1>0, <1>3, <1>5, IdleSound, RequestMoves
<1>7. /\ salary' \in [Employees -> {"none", "named", "anonymous"}] /\ salary'[e] # "named"
      /\ \A d \in Employees : d # e => salary'[d] = salary[d]
  BY <1>3, EmployeeTypes
<1> QED BY <1>0, <1>1, <1>3, <1>4, <1>6, <1>7, EmployeeTypes, EmployeeStep DEF PersonnelTyped

LEMMA InsertKeepsLife ==
  ASSUME LifeInv, NEW r \in Requests, RowInsert(r)
  PROVE  LifeInv'
<1>0. PersonnelTyped /\ RequestsSound /\ BindingsNamed
  BY DEF LifeInv
<1>1. /\ req[r].op \in {"scan", "payroll"} /\ End(r) /\ UNCHANGED <<emp, binding, paused, granted>>
  BY DEF RowInsert
<1>2. PICK e \in Employees : e = req[r].e
  BY <1>0, <1>1 DEF RequestsSound, NamesRows
<1>3. /\ attendance' \in {attendance, attendance \cup {e}}
      /\ salary' = salary \/ salary' = [salary EXCEPT ![e] = "named"]
      /\ late' = IF emp[e].state = "purged" THEN late \cup {e} ELSE late
  BY <1>1, <1>2 DEF RowInsert
<1>4. req' \in [Requests -> RequestType] /\ RequestsSound' /\ served' \in 0 .. MaxRequests
  BY <1>0, <1>1, EndSound
<1>5. /\ salary' \in [Employees -> {"none", "named", "anonymous"}]
      /\ \A d \in Employees : d # e => salary'[d] = salary[d]
  BY <1>3, EmployeeTypes
<1>6. PersonnelTyped'
  BY <1>0, <1>1, <1>3, <1>4, <1>5 DEF PersonnelTyped
<1>7. BindingsNamed' /\ BoundByReview'
  BY <1>1 DEF LifeInv, BindingsNamed, BoundByReview
<1>8. PurgeErases'
  BY <1>1, <1>3, <1>5 DEF LifeInv, PurgeErases
<1> QED BY <1>4, <1>6, <1>7, <1>8 DEF LifeInv

LEMMA ApprovalKeepsLife ==
  ASSUME LifeInv, ReviewsSound, NEW r \in Requests, ApproveWrite(r)
  PROVE  LifeInv'
<1>0. PersonnelTyped /\ RequestsSound /\ BindingsNamed /\ BoundByReview /\ PurgeErases
  BY DEF LifeInv
<1>1. req[r].op = "approve" /\ End(r) /\ UNCHANGED <<attendance, salary, paused, late>>
  BY DEF ApproveWrite
<1>2. PICK e \in Employees, a \in Accounts, b \in BindingIds : e = req[r].e /\ a = req[r].a /\ b = req[r].b
  BY <1>0, <1>1 DEF RequestsSound, NamesRows
<1>3. req' \in [Requests -> RequestType] /\ RequestsSound' /\ served' \in 0 .. MaxRequests
  BY <1>0, <1>1, EndSound
<1> DEFINE st == IF binding[b].status = "gone" THEN "gone" ELSE "approved"
           x == [binding[b] EXCEPT !.status = st]
           y == [emp[e] EXCEPT !.line = a]
<1>4. binding' = [binding EXCEPT ![b] = x]
  <2>1. binding' = [binding EXCEPT ![b].status = IF @ = "gone" THEN "gone" ELSE "approved"]
    BY <1>2 DEF ApproveWrite
  <2> QED BY <2>1
<1>5. \/ UNCHANGED <<emp, granted>>
      \/ /\ emp[e].state # "purged" /\ emp' = [emp EXCEPT ![e] = y]
         /\ granted' = granted \cup {<<e, a>>}
  BY <1>2 DEF ApproveWrite
<1>6. /\ x \in BindingType /\ x.e = binding[b].e /\ x.a = binding[b].a
      /\ x.status \in {"gone", "approved"}
      /\ binding[b].status = "gone" => x.status = "gone"
  BY BindingTypes DEF BindingType
<1>7. y \in EmployeeType /\ y.state = emp[e].state /\ y.line = a
  <2>1. emp[e] \in EmployeeType
    BY EmployeeTypes
  <2> QED BY <2>1 DEF EmployeeType
<1>8. binding[b].status # "unused"
  BY <1>1, <1>2 DEF ReviewsSound
<1> HIDE DEF st, x, y
<1>9. binding'[b] = x /\ \A d \in BindingIds : d # b => binding'[d] = binding[d]
  BY <1>0, <1>4 DEF PersonnelTyped
<1>10. /\ emp' \in [Employees -> EmployeeType]
       /\ \A d \in Employees : emp'[d].state = emp[d].state /\ emp'[d].line \in {emp[d].line, a}
       /\ granted' \subseteq Employees \X Accounts /\ granted \subseteq granted'
       /\ \A d \in Employees : emp'[d].line # emp[d].line => <<d, emp'[d].line>> \in granted'
  BY <1>0, <1>5, <1>7 DEF PersonnelTyped
<1>11. PersonnelTyped'
  <2>1. binding' \in [BindingIds -> BindingType]
    BY <1>0, <1>4, <1>6 DEF PersonnelTyped
  <2>2. \A d \in BindingIds : binding'[d].status # "unused" => binding'[d].a \in Accounts
    BY <1>0, <1>6, <1>8, <1>9 DEF PersonnelTyped
  <2> QED BY <1>0, <1>1, <1>3, <1>10, <2>1, <2>2 DEF PersonnelTyped
<1>12. BindingsNamed'
  BY <1>0, <1>6, <1>8, <1>9 DEF BindingsNamed
<1>13. BoundByReview'
  BY <1>0, <1>10 DEF BoundByReview
<1>14. PurgeErases'
  BY <1>0, <1>1, <1>6, <1>9, <1>10 DEF PurgeErases
<1> QED BY <1>3, <1>11, <1>12, <1>13, <1>14 DEF LifeInv

-----------------------------------------------------------------------------
(* The specification.                                                       *)

LEMMA LifeStepsKeepLife ==
  ASSUME LifeInv, LoginTypeOK, ReviewsSound, BindNext \/ LifeNext
  PROVE  LifeInv'
BY ReadsKeepLife, CyclesKeepLife, ReviewsKeepLife, EmployeeStepsKeepLife, PurgeKeepsLife,
   InsertKeepsLife, ApprovalKeepsLife
   DEF BindNext, LifeNext, CycleStep, FinishPurge

\* A binding request that was made stays made.
LEMMA BindingsStayMade ==
  ASSUME LifeInv, BindNext \/ LifeNext, NEW b \in BindingIds, binding[b].status # "unused"
  PROVE  binding'[b].status # "unused"
<1>1. \/ binding' = binding
      \/ \E d, st : binding' = [binding EXCEPT ![d].status = st] /\ st # "unused"
      \/ \E d, x : binding' = [binding EXCEPT ![d] = x] /\ x.status # "unused"
      \/ \E e \in Employees : binding' = WithoutBindings(e)
  <2>1. CASE \E d \in BindingIds : RejectBinding(d) \/ DeletePendingBinding(d)
    BY <2>1 DEF RejectBinding, DeletePendingBinding
  <2>2. ASSUME NEW r \in Requests, ApproveWrite(r)
        PROVE  \E d, st : binding' = [binding EXCEPT ![d].status = st] /\ st # "unused"
    <3> DEFINE d == req[r].b
               st == IF binding[d].status = "gone" THEN "gone" ELSE "approved"
    <3>1. binding' = [binding EXCEPT ![d].status = IF @ = "gone" THEN "gone" ELSE "approved"]
      BY <2>2 DEF ApproveWrite
    <3>2. binding' = [binding EXCEPT ![d].status = st] /\ st # "unused"
      BY <3>1
    <3> HIDE DEF d, st
    <3> QED BY <3>2
  <2>3. ASSUME NEW r \in Requests, CreatePendingBinding(r)
        PROVE  \/ binding' = binding
               \/ \E d, x : binding' = [binding EXCEPT ![d] = x] /\ x.status # "unused"
    <3> DEFINE x == [e |-> req[r].e, a |-> req[r].a, status |-> "pending"]
    <3>1. x.status # "unused" /\ (binding' = binding \/ \E d \in BindingIds : binding' = [binding EXCEPT ![d] = x])
      BY <2>3 DEF CreatePendingBinding
    <3> HIDE DEF x
    <3> QED BY <3>1
  <2>4. CASE \/ \E r \in Requests, br \in Browsers, e \in Employees : BindRequest(r, br, e)
             \/ \E r \in Requests, d \in BindingIds : ApproveRead(r, d)
             \/ \E r \in Requests : BindEmployee(r) \/ BindExisting(r)
    BY <2>4 DEF BindRequest, ApproveRead, BindEmployee, BindExisting, NoTable, tables
  <2>5. CASE \/ \E r \in Requests, e \in Employees : \/ UpdateRead(r, e) \/ PurgeSelect(r, e)
                                                     \/ \E op \in {"scan", "payroll"} : EmployeeRead(r, e, op)
             \/ \E r \in Requests : RetentionCycle(r) \/ \E e \in Employees : CyclePurge(r, e)
             \/ PauseWrites \/ ResumeWrites
    BY <2>5 DEF UpdateRead, PurgeSelect, EmployeeRead, RetentionCycle, CyclePurge, PauseWrites,
                ResumeWrites, NoTable, tables
  <2>6. CASE \/ \E e \in Employees : TrashEmployee(e) \/ RestoreEmployee(e) \/ RetentionOver(e)
             \/ \E r \in Requests : UpdateWrite(r) \/ RowInsert(r)
    BY <2>6 DEF TrashEmployee, RestoreEmployee, RetentionOver, UpdateWrite, RowInsert
  <2>7. ASSUME NEW r \in Requests, PurgeWrite(r) PROVE \E e \in Employees : binding' = WithoutBindings(e)
    <3>1. req[r].e \in Employees
      BY <2>7 DEF LifeInv, RequestsSound, NamesRows, PurgeWrite
    <3> QED BY <2>7, <3>1 DEF PurgeWrite
  <2> QED BY <2>1, <2>2, <2>3, <2>4, <2>5, <2>6, <2>7 DEF BindNext, LifeNext, CycleStep, FinishPurge
<1>2. binding \in [BindingIds -> BindingType] /\ binding[b] \in BindingType
  BY DEF LifeInv, PersonnelTyped
<1> QED BY <1>1, <1>2 DEF WithoutBindings, BindingType

LEMMA ReviewsStaySound ==
  ASSUME LifeInv, ReviewsSound, BindNext \/ LifeNext
  PROVE  ReviewsSound'
<1>0. /\ req \in [Requests -> RequestType] /\ RequestsSound
      /\ \A r \in Requests : req[r] \in RequestType /\ NamesRows(req[r])
      /\ Idle.op = "idle"
  BY IdleSound DEF LifeInv, PersonnelTyped, RequestsSound
<1>1. \/ req' = req
      \/ \E r \in Requests : \E x : req' = [req EXCEPT ![r] = x] /\ x.op # "approve"
      \/ \E r \in Requests, b \in BindingIds : ApproveRead(r, b)
  <2>1. ASSUME NEW r \in Requests, End(r)
        PROVE  \E x : req' = [req EXCEPT ![r] = x] /\ x.op # "approve"
    BY <1>0, <2>1 DEF End
  <2>2. ASSUME NEW r \in Requests, NEW op \in {"bind2", "bind3"}, Go(r, op)
        PROVE  \E x : req' = [req EXCEPT ![r] = x] /\ x.op # "approve"
    <3> DEFINE x == [req[r] EXCEPT !.op = op]
    <3>1. req' = [req EXCEPT ![r] = x] /\ x.op = op
      BY <1>0, <2>2 DEF Go, RequestType
    <3> HIDE DEF x
    <3> QED BY <3>1
  <2>3. ASSUME NEW r \in Requests, NEW op, op \in {"update", "purge", "scan", "payroll"}, NEW e,
               Begin(r, [Idle EXCEPT !.op = op, !.e = e])
        PROVE  \E x : req' = [req EXCEPT ![r] = x] /\ x.op # "approve"
    <3> DEFINE x == [Idle EXCEPT !.op = op, !.e = e]
    <3>1. req' = [req EXCEPT ![r] = x] /\ x.op = op
      BY <2>3 DEF Begin, Idle
    <3> HIDE DEF x
    <3> QED BY <2>3, <3>1
  <2>4. ASSUME NEW r \in Requests, NEW br \in Browsers, NEW e \in Employees, BindRequest(r, br, e)
        PROVE  \E x : req' = [req EXCEPT ![r] = x] /\ x.op # "approve"
    <3> DEFINE x == [Idle EXCEPT !.op = "bind1", !.e = e, !.a = session[br].line]
    <3>1. req' = [req EXCEPT ![r] = x] /\ x.op = "bind1"
      BY <2>4 DEF BindRequest, Begin, Idle
    <3> HIDE DEF x
    <3> QED BY <3>1
  <2>5. ASSUME NEW r \in Requests, RetentionCycle(r)
        PROVE  \E x : req' = [req EXCEPT ![r] = x] /\ x.op # "approve"
    <3> DEFINE x == [Idle EXCEPT !.op = "cycle",
                                 !.todo = {e \in Employees : emp[e].state = "trashed" /\ emp[e].due}]
    <3>1. req' = [req EXCEPT ![r] = x] /\ x.op = "cycle"
      BY <2>5 DEF RetentionCycle, Idle
    <3> HIDE DEF x
    <3> QED BY <3>1
  <2>6. ASSUME NEW r \in Requests, NEW e \in Employees, CyclePurge(r, e)
        PROVE  \E x : req' = [req EXCEPT ![r] = x] /\ x.op # "approve"
    <3> DEFINE y == [req[r] EXCEPT !.todo = @ \ {e}]
               z == [req[r] EXCEPT !.op = "purge", !.e = e, !.todo = @ \ {e}]
    <3>1. y.op = "cycle" /\ z.op = "purge"
      BY <1>0, <2>6 DEF CyclePurge, RequestType
    <3>2. \/ req' = [req EXCEPT ![r] = Idle]
          \/ req' = [req EXCEPT ![r] = y]
          \/ req' = [req EXCEPT ![r] = z]
      <4>1. CASE paused
        BY <2>6, <4>1 DEF CyclePurge
      <4>2. CASE ~paused /\ emp[e].state # "trashed"
        <5>1. req' = [req EXCEPT ![r] = IF req[r].todo = {e} THEN Idle
                                        ELSE [req[r] EXCEPT !.todo = @ \ {e}]]
          BY <2>6, <4>2 DEF CyclePurge
        <5> QED BY <5>1
      <4>3. CASE ~paused /\ emp[e].state = "trashed"
        <5>1. req' = [req EXCEPT ![r].op = "purge", ![r].e = e, ![r].todo = @ \ {e}]
          BY <2>6, <4>3 DEF CyclePurge
        <5> QED BY <1>0, <5>1
      <4> QED BY <4>1, <4>2, <4>3
    <3> HIDE DEF y, z
    <3> QED BY <1>0, <3>1, <3>2
  <2>7. ASSUME NEW r \in Requests, PurgeWrite(r)
        PROVE  \E x : req' = [req EXCEPT ![r] = x] /\ x.op # "approve"
    <3> DEFINE y == [Idle EXCEPT !.op = "cycle", !.todo = req[r].todo]
    <3>1. y.op = "cycle"
      BY DEF Idle
    <3>2. req' = [req EXCEPT ![r] = IF req[r].todo = {} THEN Idle ELSE y]
      BY <2>7 DEF PurgeWrite
    <3>3. req' = [req EXCEPT ![r] = Idle] \/ req' = [req EXCEPT ![r] = y]
      BY <3>2
    <3> HIDE DEF y
    <3> QED BY <1>0, <3>1, <3>3
  <2>8. CASE BindNext
    BY <2>1, <2>2, <2>4, <2>8
       DEF BindNext, RejectBinding, DeletePendingBinding, Once, BindEmployee, BindExisting,
           CreatePendingBinding, ApproveWrite
  <2>9. CASE LifeNext
    <3>1. CASE \/ \E r \in Requests, e \in Employees : \/ UpdateRead(r, e) \/ PurgeSelect(r, e)
                                                       \/ \E op \in {"scan", "payroll"} : EmployeeRead(r, e, op)
      BY <2>3, <3>1 DEF UpdateRead, PurgeSelect, EmployeeRead
    <3>2. CASE \/ \E e \in Employees : TrashEmployee(e) \/ RestoreEmployee(e) \/ RetentionOver(e)
               \/ PauseWrites \/ ResumeWrites
      BY <3>2 DEF TrashEmployee, RestoreEmployee, RetentionOver, PauseWrites, ResumeWrites, Once
    <3>3. CASE \E r \in Requests : UpdateWrite(r) \/ RowInsert(r)
      BY <2>1, <3>3 DEF UpdateWrite, RowInsert
    <3>4. CASE CycleStep \/ FinishPurge
      BY <2>5, <2>6, <2>7, <3>4 DEF CycleStep, FinishPurge
    <3> QED BY <2>9, <3>1, <3>2, <3>3, <3>4 DEF LifeNext
  <2> QED BY <2>8, <2>9
<1>2. ASSUME NEW r \in Requests, req'[r].op = "approve"
      PROVE  req'[r].b \in BindingIds /\ binding[req'[r].b].status # "unused"
  <2>1. CASE req' = req
    BY <1>0, <1>2, <2>1 DEF ReviewsSound, NamesRows
  <2>2. CASE \E q \in Requests : \E x : req' = [req EXCEPT ![q] = x] /\ x.op # "approve"
    <3>1. req'[r] = req[r]
      BY <1>0, <1>2, <2>2
    <3> QED BY <1>0, <1>2, <3>1 DEF ReviewsSound, NamesRows
  <2>3. CASE \E q \in Requests, b \in BindingIds : ApproveRead(q, b)
    <3>1. PICK q \in Requests, b \in BindingIds : ApproveRead(q, b)
      BY <2>3
    <3> DEFINE x == [Idle EXCEPT !.op = "approve", !.e = binding[b].e, !.a = binding[b].a, !.b = b]
    <3>2. x.b = b /\ req' = [req EXCEPT ![q] = x] /\ binding[b].status = "pending"
      BY <3>1 DEF ApproveRead, Begin, Idle
    <3> HIDE DEF x
    <3>3. CASE r = q
      <4>1. req'[r] = x
        BY <1>0, <3>2, <3>3
      <4> QED BY <3>2, <4>1
    <3>4. CASE r # q
      <4>1. req'[r] = req[r]
        BY <1>0, <3>2, <3>4
      <4> QED BY <1>0, <1>2, <4>1 DEF ReviewsSound, NamesRows
    <3> QED BY <3>3, <3>4
  <2> QED BY <1>1, <2>1, <2>2, <2>3
<1> QED BY <1>2, BindingsStayMade DEF ReviewsSound

LEMMA InitInv ==
  ASSUME Init
  PROVE  Inv
<1>1. LoginInv
  BY LoginInitInv DEF Init
<1>2. /\ emp = [e \in Employees |-> Hired] /\ binding = [b \in BindingIds |-> NoBinding]
      /\ attendance = {} /\ salary = [e \in Employees |-> "none"]
      /\ req = [r \in Requests |-> Idle] /\ paused = FALSE /\ served = 0 /\ granted = {} /\ late = {}
  BY DEF Init
<1>3. /\ Hired \in EmployeeType /\ Hired.line = Nobody /\ Hired.state = "current"
      /\ NoBinding \in BindingType /\ NoBinding.status = "unused" /\ NoBinding.e = Nobody
  BY DEF Hired, EmployeeType, NoBinding, BindingType
<1>4. 0 \in 0 .. MaxRequests
  BY PersonnelAssumption
<1>5. PersonnelTyped
  BY <1>2, <1>3, <1>4, IdleSound DEF PersonnelTyped
<1>6. RequestsSound /\ ReviewsSound
  BY <1>2, IdleSound DEF RequestsSound, ReviewsSound
<1>7. BindingsNamed /\ BoundByReview /\ PurgeErases
  BY <1>2, <1>3 DEF BindingsNamed, BoundByReview, PurgeErases
<1> QED BY <1>1, <1>5, <1>6, <1>7 DEF Inv, LifeInv

LEMMA NextKeepsInv ==
  ASSUME Inv, [Next]_vars
  PROVE  Inv'
<1>1. CASE LoginNext /\ UNCHANGED personnelVars
  <2>1. LoginInv'
    BY <1>1, BrowserStepsKeepLogins, CallbackStepsKeepLogins DEF Inv, LoginNext
  <2> QED
    BY <1>1, <2>1 DEF Inv, LifeInv, PersonnelTyped, RequestsSound, NamesRows, BindingsNamed,
                      BoundByReview, PurgeErases, ReviewsSound, personnelVars
<1>2. CASE (BindNext \/ LifeNext) /\ UNCHANGED loginVars
  <2>1. LoginInv'
    BY <1>2 DEF Inv, LoginInv, LoginTypeOK, SessionsOwned, CallsOwned, ConsumedOnce, Vouched, Given,
                loginVars
  <2>2. LifeInv' /\ ReviewsSound'
    BY <1>2, LifeStepsKeepLife, ReviewsStaySound DEF Inv, LoginInv
  <2> QED BY <2>1, <2>2 DEF Inv
<1>3. CASE UNCHANGED vars
  BY <1>3 DEF Inv, LoginInv, LoginTypeOK, SessionsOwned, CallsOwned, ConsumedOnce, Vouched, Given,
              loginVars, LifeInv, PersonnelTyped, RequestsSound, NamesRows, BindingsNamed,
              BoundByReview, PurgeErases, ReviewsSound, personnelVars, vars
<1> QED BY <1>1, <1>2, <1>3 DEF Next

\* Whatever callbacks, reviews, purges and inserts interleave, every login belongs to
\* the browser that began it and every row to the employee it names.
THEOREM LifecycleInvariance == Spec => []Inv
BY InitInv, NextKeepsInv, PTL DEF Spec

\* A session carries an account only if LINE vouched for it in that browser, and a state
\* of oauth_states logs in at most once, for any number of browsers, states and callbacks.
THEOREM LoginIsSound == Spec => []LoginSound
<1>1. ASSUME Inv PROVE LoginSound
  <2>1. TypeOK
    BY <1>1 DEF Inv, LoginInv, LifeInv, PersonnelTyped, TypeOK, EmployeeType, BindingType, RequestType
  <2>2. SessionOwnLogin
    BY <1>1 DEF Inv, LoginInv, SessionsOwned, Vouched, SessionOwnLogin
  <2>3. LoginOnce
    BY <1>1 DEF Inv, LoginInv, ConsumedOnce, LoginOnce
  <2> QED BY <2>1, <2>2, <2>3 DEF LoginSound
<1> QED BY <1>1, LifecycleInvariance, PTL

\* An employee carries only an account that was approved for them since they were last
\* moved to the recycle bin.
THEOREM BindingIsReviewed == Spec => []BoundByReview
<1>1. Inv => BoundByReview
  BY DEF Inv, LifeInv
<1> QED BY <1>1, LifecycleInvariance, PTL

\* A purge leaves no binding, no attendance and no salary record in the employee's name,
\* except what a handler that had read the employee inserts afterwards.
THEOREM PurgeIsErasure == Spec => []PurgeErases
<1>1. Inv => PurgeErases
  BY DEF Inv, LifeInv
<1> QED BY <1>1, LifecycleInvariance, PTL
=============================================================================
