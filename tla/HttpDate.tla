------------------------------ MODULE HttpDate ------------------------------
(***************************************************************************)
(* The days of tm_to_time_t_utc, by which http_date_parse turns the date   *)
(* of an If-Modified-Since into a time_t.  (tm_mon counts from 0 and       *)
(* tm_year from 1900; here months are 1 .. 12 and years are whole.)        *)
(***************************************************************************)
EXTENDS Integers

(* Mutant: February belongs to the year that has begun. *)
MonthShiftedLate(m) == IF m > 1 THEN m - 2 ELSE m + 10

(* Months are counted from March, so that a leap day is the last of a year.  *)
MonthShifted(m) == IF m > 2 THEN m - 3 ELSE m + 9

DayOfYear(m, d) == (153 * MonthShifted(m) + 2) \div 5 + d - 1

DayOfEra(yoe, doy) == yoe * 365 + yoe \div 4 - yoe \div 100 + doy

(* tm_to_time_t_utc, without the time of day. *)
Days(year, m, d) ==
    LET y == IF m <= 2 THEN year - 1 ELSE year
        era == y \div 400
        yoe == y - era * 400
    IN era * 146097 + DayOfEra(yoe, DayOfYear(m, d)) - 719468
=============================================================================
