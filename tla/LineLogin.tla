------------------------------ MODULE LineLogin ------------------------------
(***************************************************************************)
(* LINE login of a browser: /api/line/login, the OAuth callback, the LIFF  *)
(* login, the oauth_states table and its expiry and clean-up.              *)
(*                                                                         *)
(* A request works on its own copy of the express session, loaded when it  *)
(* arrives, and saves the whole copy; two requests of one browser can      *)
(* therefore overwrite each other.  A callback is the address LINE sends   *)
(* the browser back to; nothing stops it from being opened twice, or in    *)
(* another browser.                                                        *)
(***************************************************************************)
EXTENDS Naturals, FiniteSets

CONSTANTS Browsers,     \* browsers of employees
          LiffBrowsers, \* those that run inside the LINE app
          Accounts,     \* LINE accounts
          States,       \* values of the random OAuth state
          Calls,        \* slots for callback requests being served
          Nobody        \* no account, no state, no browser

ASSUME LoginAssumption ==
  LiffBrowsers \subseteq Browsers /\ Nobody \notin Browsers \cup Accounts \cup States

VARIABLES session,      \* browser -> what its server-side session holds
          oauth,        \* state -> "unused", "live", "expired", "gone"
          login,        \* state -> the browser that began it, the account that signed in
          call,         \* slot -> the callback request being served
          liff          \* history: accounts LINE vouched for, per browser

loginVars == <<session, oauth, login, call, liff>>

Session == [state : States \cup {Nobody}, line : Accounts \cup {Nobody}]
NoSession == [state |-> Nobody, line |-> Nobody]
NoCall == [at |-> "none", browser |-> Nobody, state |-> Nobody, copy |-> NoSession]

LoginTypeOK ==
  /\ session \in [Browsers -> Session]
  /\ oauth \in [States -> {"unused", "live", "expired", "gone"}]
  /\ login \in [States -> [by : Browsers \cup {Nobody},
                           account : Accounts \cup {Nobody}, times : 0 .. 2]]
  /\ call \in [Calls -> [at : {"none", "loaded", "saved", "consumed"},
                         browser : Browsers \cup {Nobody},
                         state : States \cup {Nobody}, copy : Session]]
  /\ liff \subseteq Browsers \X Accounts

LoginInit ==
  /\ session = [b \in Browsers |-> NoSession]
  /\ oauth = [s \in States |-> "unused"]
  /\ login = [s \in States |-> [by |-> Nobody, account |-> Nobody, times |-> 0]]
  /\ call = [c \in Calls |-> NoCall]
  /\ liff = {}

\* GET /api/line/login: a fresh state is stored and put into the session.
LineLogin(b, s) ==
  /\ oauth[s] = "unused"
  /\ oauth' = [oauth EXCEPT ![s] = "live"]
  /\ session' = [session EXCEPT ![b].state = s]
  /\ login' = [login EXCEPT ![s].by = b]
  /\ UNCHANGED <<call, liff>>

\* The employee signs in at LINE, which builds the callback address (external).
SignIn(s, a) ==
  /\ oauth[s] # "unused" /\ login[s].account = Nobody
  /\ login' = [login EXCEPT ![s].account = a]
  /\ UNCHANGED <<session, oauth, call, liff>>

\* Mutant: the state is looked up in the table only, not in the session.
CallbackLoadAnySession(c, b, s) ==
  /\ call[c].at = "none" /\ login[s].account # Nobody
  /\ call' = [call EXCEPT ![c] = [at |-> "loaded", browser |-> b, state |-> s,
                                  copy |-> session[b]]]
  /\ UNCHANGED <<session, oauth, login, liff>>

\* GET /api/line/callback arrives: refused unless the session names the state.
CallbackLoad(c, b, s) ==
  /\ call[c].at = "none" /\ login[s].account # Nobody
  /\ session[b].state = s
  /\ call' = [call EXCEPT ![c] = [at |-> "loaded", browser |-> b, state |-> s,
                                  copy |-> session[b]]]
  /\ UNCHANGED <<session, oauth, login, liff>>

\* The state leaves the session, which is saved before anything else is done.
CallbackSave(c) ==
  /\ call[c].at = "loaded"
  /\ LET saved == [call[c].copy EXCEPT !.state = Nobody]
     IN /\ session' = [session EXCEPT ![call[c].browser] = saved]
        /\ call' = [call EXCEPT ![c].at = "saved", ![c].copy = saved]
  /\ UNCHANGED <<oauth, login, liff>>

\* consumeOAuthState: DELETE ... WHERE state = ? AND expires_at > now() RETURNING.
ConsumeOAuthState(c) ==
  /\ call[c].at = "saved"
  /\ LET s == call[c].state
     IN IF oauth[s] = "live"
          THEN /\ oauth' = [oauth EXCEPT ![s] = "gone"]
               /\ call' = [call EXCEPT ![c].at = "consumed"]
          ELSE /\ call' = [call EXCEPT ![c] = NoCall]
               /\ UNCHANGED oauth
  /\ UNCHANGED <<session, login, liff>>

\* Token exchange and profile at LINE succeed, the session is regenerated.
EstablishLineSession(c) ==
  /\ call[c].at = "consumed"
  /\ LET s == call[c].state
     IN /\ session' = [session EXCEPT ![call[c].browser] =
                         [state |-> Nobody, line |-> login[s].account]]
        /\ login' = [login EXCEPT ![s].times = @ + 1]
  /\ call' = [call EXCEPT ![c] = NoCall]
  /\ UNCHANGED <<oauth, liff>>

\* fetchLineApi fails or times out after 8 s: the browser is sent to an error.
LineApiFails(c) ==
  /\ call[c].at = "consumed"
  /\ call' = [call EXCEPT ![c] = NoCall]
  /\ UNCHANGED <<session, oauth, login, liff>>

\* POST /api/line/liff-auth with a token LINE has verified for account a.
LiffAuth(b, a) ==
  /\ session' = [session EXCEPT ![b] = [state |-> Nobody, line |-> a]]
  /\ liff' = liff \cup {<<b, a>>}
  /\ UNCHANGED <<oauth, login, call>>

\* Ten minutes pass.
StateExpires(s) ==
  /\ oauth[s] = "live"
  /\ oauth' = [oauth EXCEPT ![s] = "expired"]
  /\ UNCHANGED <<session, login, call, liff>>

\* The hourly clean-up deletes what has expired.
CleanupExpiredOAuthStates ==
  /\ \E s \in States : oauth[s] = "expired"
  /\ oauth' = [s \in States |-> IF oauth[s] = "expired" THEN "gone" ELSE oauth[s]]
  /\ UNCHANGED <<session, login, call, liff>>

LoginNext ==
  \/ \E b \in Browsers, s \in States : LineLogin(b, s)
  \/ \E s \in States, a \in Accounts : SignIn(s, a)
  \/ \E c \in Calls, b \in Browsers, s \in States : CallbackLoad(c, b, s)
  \/ \E c \in Calls : \/ CallbackSave(c) \/ ConsumeOAuthState(c)
                      \/ EstablishLineSession(c) \/ LineApiFails(c)
  \/ \E b \in LiffBrowsers, a \in Accounts : LiffAuth(b, a)
  \/ \E s \in States : StateExpires(s)
  \/ CleanupExpiredOAuthStates
=============================================================================
