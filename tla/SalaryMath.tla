---------------------------- MODULE SalaryMath -----------------------------
(***************************************************************************)
(* The amounts of the payroll: shared/utils/salaryMath.ts, the leave and   *)
(* holiday adjustments of server/utils/salaryCalculator.ts and the page's  *)
(* own preview of them in client/src/hooks/useAttendanceData.ts.           *)
(*                                                                         *)
(* Clock times are minutes of the day, hours are counted in half hours,    *)
(* multipliers in hundredths, and every quotient the code rounds is a      *)
(* rounded integer division (the code divides floating point numbers).     *)
(***************************************************************************)
EXTENDS Integers, FiniteSets, FiniteSetsExt

CONSTANT Weekend,   \* the days that fall on a Saturday or Sunday
         Calendar   \* [day -> type of its holiday record, or "none"]

NoTime == -1               \* "--:--", an empty or a missing clock time

RoundDiv(a, b) == (2 * a + b) \div (2 * b)
CeilDiv(a, b) == (a + b - 1) \div b

Ot1Multiplier == 134
Ot2Multiplier == 167

WorkStart == 8 * 60
StandardEnd == 16 * 60

(* A row of temporary_attendance within one month.  The flag is isHoliday.  *)
HolidayTypes == {"worked", "sick_leave", "personal_leave", "national_holiday",
                 "typhoon_leave", "temporary_stop_work_and_classes"}
Timed(r) == r.in # NoTime /\ r.out # NoTime

---------------------------------------------------------------------------
(* Overtime.                                                                *)

(* calculateOvertime: half hours at the first and at the second rate,       *)
(* from the minutes worked after 16:00.                                     *)
Ot1(r) == IF Timed(r)
          THEN Cardinality({t \in {9, 35, 70, 95} : r.out - StandardEnd > t}) ELSE 0
Ot2(r) == IF Timed(r) /\ r.out - StandardEnd > 130
          THEN CeilDiv(r.out - StandardEnd - 130, 30) ELSE 0

(* calculateOvertimePay: each rate is rounded once.                         *)
OvertimePay(h1, h2, rate) ==
    RoundDiv(h1 * rate * Ot1Multiplier, 200) + RoundDiv(h2 * rate * Ot2Multiplier, 200)

(* The ids of the rows whose overtime counts.                               *)
Normal(rows) == {i \in DOMAIN rows : ~rows[i].flag}
Hours1(rows) == MapThenSumSet(LAMBDA i : Ot1(rows[i]), Normal(rows))
Hours2(rows) == MapThenSumSet(LAMBDA i : Ot2(rows[i]), Normal(rows))

GrossSalary(base, overtimePay, holidayPay, welfare) ==
    base + overtimePay + holidayPay + welfare

---------------------------------------------------------------------------
(* calculateHolidayPayAdjustments: what the server derives from the types.  *)

WorkedMinutes(r) ==
    IF Timed(r) THEN Max({0, r.out - Max({r.in, WorkStart})}) ELSE 0
Missed(r) == Max({0, 480 - WorkedMinutes(r)})
FullDay(r) == WorkedMinutes(r) = 0

LeaveAmount(r, base) ==
    CASE r.type = "sick_leave" ->
           IF FullDay(r) THEN RoundDiv(base, 60) ELSE RoundDiv(Missed(r) * base, 28800)
      [] r.type = "personal_leave" ->
           IF FullDay(r) THEN RoundDiv(base, 30) ELSE RoundDiv(Missed(r) * base, 14400)
      [] r.type \in {"typhoon_leave", "temporary_stop_work_and_classes"} ->
           RoundDiv(base, 30)
      [] OTHER -> 0

(* The name of a deduction item tells the type, the day and, for part of a  *)
(* day of sick or personal leave, the hours.                                *)
ItemName(r) ==
    <<"server", r.type, r.day,
      IF r.type \in {"sick_leave", "personal_leave"} /\ ~FullDay(r) THEN Missed(r) ELSE 0>>

(* deductionItems, each with the row it comes from (two rows may give two   *)
(* items of one name).                                                      *)
LeaveItems(rows, base) ==
    {[row |-> i, name |-> ItemName(rows[i]), amount |-> LeaveAmount(rows[i], base)] :
        i \in {j \in DOMAIN rows : LeaveAmount(rows[j], base) > 0}}

WorkedDays(rows) == Cardinality({i \in DOMAIN rows : rows[i].type = "worked"})
WorkedHolidayPay(rows, base) == WorkedDays(rows) * RoundDiv(base, 30)

Total(items) == MapThenSumSet(LAMBDA x : x.amount, items)

---------------------------------------------------------------------------
(* The page's own calculation (calculateSalary of useAttendanceData).       *)

(* actualHolidayWork: a holiday record decides; without one, a clocked      *)
(* weekend day counts unless it is some other leave.                        *)
HolidayWork(rows) ==
    {i \in DOMAIN rows :
        /\ Timed(rows[i])
        /\ IF Calendar[rows[i].day] # "none"
           THEN Calendar[rows[i].day] = "worked"
           ELSE rows[i].type \in {"none", "worked"} /\ rows[i].day \in Weekend}

PageLeaveAmount(r, base) ==
    LET daily == RoundDiv(base, 30)
    IN  CASE r.type = "sick_leave" -> IF Timed(r) THEN 0 ELSE RoundDiv(daily, 2)
          [] r.type = "personal_leave" -> IF Timed(r) THEN 0 ELSE daily
          [] r.type \in {"typhoon_leave", "temporary_stop_work_and_classes"} -> daily
          [] OTHER -> 0

PageLeaveItems(rows, base) ==
    {[row |-> i, name |-> <<"page", rows[i].type, rows[i].day, 0>>,
      amount |-> PageLeaveAmount(rows[i], base)] :
        i \in {j \in DOMAIN rows : PageLeaveAmount(rows[j], base) > 0}}

(* Overtime is rounded day by day here, and once for the month on the       *)
(* server.                                                                  *)
PageOvertimePay(rows, rate) ==
    MapThenSumSet(LAMBDA i : OvertimePay(Ot1(rows[i]), Ot2(rows[i]), rate), Normal(rows))
============================================================================
