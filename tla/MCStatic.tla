------------------------------ MODULE MCStatic ------------------------------
(* What answers for a static file is made of: a date, day after day against  *)
(* a calendar; targets, and texts to be escaped, put together from parts;    *)
(* and the file itself with its validators.                                  *)
EXTENDS Cache

CONSTANTS
    BufSize,                        \* BUFSIZ
    LastYear, MaxParts, MaxChars    \* bounds

ASSUME StaticAssumption == BufSize \in Nat /\ MaxChars \in Nat

VARIABLES
    what,                       \* "date", "target", "text" or "file"
    year, month, day, count,    \* a date, and the days that have gone by
    text, parts

date == <<year, month, day, count>>
string == <<text, parts>>

D == INSTANCE HttpDate
U == INSTANCE Url

(* "/", ".", "%2e", "%25", "2E", "2f", "%2f", "?", "+", "%3". *)
TargetParts == {<<47>>, <<46>>, <<37, 50, 101>>, <<37, 50, 53>>, <<50, 69>>, <<50, 102>>,
                <<37, 50, 102>>, <<63>>, <<43>>, <<37, 51>>}

(* Characters that are escaped by one or by both, or stay. *)
TextParts == {<<c>> : c \in {97, 50, 37, 43, 32, 34, 92, 10, 1, 233}}

NoFile ==
    /\ now = [sec |-> 0, nsec |-> 0]
    /\ disk = <<>> /\ path = 0 /\ past = {} /\ sends = "tags" /\ copies = {}
    /\ pc = "idle" /\ stat_buf = {} /\ want_fd = {} /\ body = <<>>
    /\ answered = [status |-> 0]

NoDate == year = 1970 /\ month = 1 /\ day = 1 /\ count = 0
NoString == text = <<>> /\ parts = 0

MCInit ==
    \/ what = "file" /\ Init /\ NoDate /\ NoString
    \/ what \in {"date", "target", "text"} /\ NoFile /\ NoDate /\ NoString

LeapYear == year % 4 = 0 /\ (year % 100 # 0 \/ year % 400 = 0)
MonthLength == IF month = 2 THEN (IF LeapYear THEN 29 ELSE 28)
               ELSE (IF month \in {4, 6, 9, 11} THEN 30 ELSE 31)

Tomorrow ==
    /\ what = "date" /\ year <= LastYear
    /\ count' = count + 1
    /\ \/ day < MonthLength /\ day' = day + 1 /\ UNCHANGED <<year, month>>
       \/ day = MonthLength /\ day' = 1
          /\ month < 12 /\ month' = month + 1 /\ UNCHANGED year
       \/ day = MonthLength /\ day' = 1 /\ month = 12 /\ month' = 1 /\ year' = year + 1
    /\ UNCHANGED <<what, string, vars>>

Longer ==
    /\ what \in {"target", "text"}
    /\ parts < (IF what = "target" THEN MaxParts ELSE MaxChars)
    /\ \E p \in IF what = "target" THEN TargetParts ELSE TextParts : text' = text \o p
    /\ parts' = parts + 1
    /\ UNCHANGED <<what, date, vars>>

MCNext ==
    \/ Tomorrow
    \/ Longer
    \/ what = "file" /\ Next /\ UNCHANGED <<what, date, string>>

MCSpec == MCInit /\ [][MCNext]_<<what, date, string, vars>>

(* tm_to_time_t_utc counts the days as a calendar does. *)
DaysCounted == what = "date" => D!Days(year, month, day) = count

(* An accepted target stays under the root, however often it is decoded.     *)
StaysInside == what = "target" => U!StaysInside(text)

(* What axil_url_encode and axil_json_escape make comes back from decoders.  *)
ComesBack ==
    what = "text" => \A outlen \in 1 .. 6 * MaxChars + 2 : U!ComesBack(text, outlen)
=============================================================================
