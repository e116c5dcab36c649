---------------------------- MODULE StaticProofs ----------------------------
(***************************************************************************)
(* Proofs about what MCStatic is made of.                                  *)
(*                                                                         *)
(* Cache, for any inodes, sizes, dates and numbers of changes and copies:  *)
(* a file that has been changed never looks again like it did (Unique); so *)
(* what was read under the validators of a file that is still there was    *)
(* read from that file, and has not changed since (Steady and Sound).      *)
(*                                                                         *)
(* HttpDate, beside a calendar: the days that tm_to_time_t_utc counts are  *)
(* those of the Gregorian calendar, for every year from 1970 on.  Only the *)
(* step from February to March is more than addition: it goes from one     *)
(* year of the function to the next, and every 400 years from one era to   *)
(* the next.                                                               *)
(*                                                                         *)
(* Url, for strings of any length and buffers of any size.  A decoder is a *)
(* walk through the string (IsWalk).  Of the check: a pass that finds no   *)
(* fault leaves no % that begins no escape, so each pass that decodes is   *)
(* two characters shorter, and there are enough of them (SafePass); what   *)
(* request_handle decodes is alike the first pass, and decoded again, the  *)
(* second (DecodedAlike).  Of escapes: what was written is made of blocks, *)
(* one for each character (MadeOf), and a reader walks from block to block *)
(* (BlockWalk).                                                            *)
(***************************************************************************)
EXTENDS MCStatic, FiniteSetTheorems, SequenceTheorems, WellFoundedInduction, TLAPS

VersionType == [mtime : Times, size : Sizes, content : Nat]
SeenType == [ino : Inodes, st : VersionType]

Typed ==
    /\ now \in Times
    /\ path \in Inodes
    /\ disk \in [Inodes -> VersionType]
    /\ past \subseteq SeenType /\ IsFiniteSet(past)
    /\ Seen(path) \in past
    /\ pc \in {"idle", "open", "read"}

(* Each change is a content of its own, the present one is the newest, and *)
(* no two look the same to stat.                                           *)
Newest ==
    /\ \A v \in past : v.st.content < Cardinality(past)
    /\ Seen(path).st.content = Cardinality(past) - 1

Unique ==
    \A u, v \in past :
      /\ u.st.content = v.st.content => u = v
      /\ StaticEtag(u) = StaticEtag(v) => u = v

(* A request in hand: if the file is still what it was seen to be, it is   *)
(* what is open, and what has been read of it is as it should be.          *)
Steady ==
    /\ pc = "idle" => body = <<>>
    /\ pc = "open" => body = <<>> /\ \E s \in past : stat_buf = {s}
    /\ pc = "read" =>
         \E s \in past, ino \in Inodes :
           /\ stat_buf = {s} /\ want_fd = {ino}
           /\ body \in Seq(Nat)
           /\ Seen(path) = s => /\ ino = path
                                /\ \A b \in 1 .. Len(body) : body[b] = s.st.content

(* A copy of the client: the same of what it was made from. *)
Good(c) ==
    \E s \in past :
      /\ c.tag = StaticEtag(s) /\ c.date = LastMod(s)
      /\ Seen(path) = s => c.body = Whole(s.st.content)

Sound == \A c \in copies : Good(c)

CacheInv == Typed /\ Newest /\ Unique /\ Steady /\ Sound /\ NotModifiedIsTrue

LEMMA InitInv == Init => CacheInv
<1> SUFFICES ASSUME Init PROVE CacheInv
  OBVIOUS
<1>1. PICK s \in Sizes : disk = [i \in Inodes |-> Version(now, s, 0)]
  BY DEF Init
<1>2. now = [sec |-> 0, nsec |-> 0] /\ now \in Times
  BY CacheAssumption DEF Init, CacheAssumption, Times
<1>3. Version(now, s, 0) \in VersionType
  BY <1>2 DEF Version, VersionType
<1>4. path \in Inodes /\ disk \in [Inodes -> VersionType]
  BY <1>1, <1>3 DEF Init
<1>5. past = {Seen(path)} /\ Seen(path) \in SeenType
  BY <1>4 DEF Init, Seen, SeenType
<1>6. IsFiniteSet(past) /\ Cardinality(past) = 1
  BY <1>5, FS_Singleton
<1>7. Seen(path).st.content = 0
  BY <1>1, <1>4 DEF Seen, Version
<1>8. Typed
  BY <1>2, <1>4, <1>5, <1>6 DEF Typed, Init
<1>9. Newest /\ Unique
  BY <1>5, <1>6, <1>7 DEF Newest, Unique
<1>10. Steady /\ Sound /\ NotModifiedIsTrue
  BY DEF Init, Steady, Sound, NotModifiedIsTrue
<1> QED
  BY <1>8, <1>9, <1>10 DEF CacheInv

(* A file of its own content and looks joins those of the past. *)
LEMMA ChangeKeeps == ASSUME CacheInv, Change PROVE CacheInv'
<1>1. PICK ino \in Inodes, size \in Sizes, mtime \in Times :
        /\ ino = path => mtime = now
        /\ ino \in want_fd => ino = path
        /\ \A v \in past : ~(v.ino = ino /\ v.st.mtime = mtime /\ v.st.size = size)
        /\ path' = ino
        /\ disk' = [disk EXCEPT ![ino] = Version(mtime, size, Cardinality(past))]
        /\ past' = past \cup {Seen(ino)'}
  BY Zenon DEF Change
<1>2. UNCHANGED <<now, sends, copies, pc, stat_buf, want_fd, body, answered>>
  BY DEF Change
<1> USE CacheInv DEF CacheInv
<1> DEFINE n == Cardinality(past)
           new == [ino |-> ino, st |-> Version(mtime, size, n)]
<1>3. n \in Nat
  BY FS_CardinalityType DEF Typed
<1>4. Seen(path)' = new /\ past' = past \cup {new}
  BY <1>1 DEF Typed, Seen
<1>5. /\ new.ino = ino /\ new.st.mtime = mtime /\ new.st.size = size
      /\ new.st.content = n /\ new.st \in VersionType
  BY <1>1, <1>3 DEF Version, VersionType
<1>6. new \in SeenType /\ new \notin past
  BY <1>1, <1>5 DEF SeenType
<1> HIDE DEF new
<1>7. IsFiniteSet(past') /\ Cardinality(past') = n + 1
  BY <1>4, <1>6, FS_AddElement DEF Typed
<1>8. Typed'
  <2>1. disk' \in [Inodes -> VersionType]
    BY <1>1, <1>5 DEF Typed, new
  <2> QED
    BY <1>1, <1>2, <1>4, <1>6, <1>7, <2>1 DEF Typed
<1>9. \A v \in past : v \in SeenType /\ v.st.content \in Nat /\ v.st.content < n
  BY DEF Typed, Newest, SeenType, VersionType
<1>10. Newest'
  BY <1>3, <1>4, <1>5, <1>7, <1>9 DEF Newest
<1>11. Unique'
  <2>1. \A v \in past : v.st.content # n
    BY <1>3, <1>9
  <2>2. \A v \in past : StaticEtag(v) # StaticEtag(new)
    <3> SUFFICES ASSUME NEW v \in past, StaticEtag(v) = StaticEtag(new) PROVE FALSE
      OBVIOUS
    <3>1. /\ v.ino = ino /\ v.st.size = size
          /\ v.st.mtime.sec = mtime.sec /\ v.st.mtime.nsec = mtime.nsec
      BY <1>5 DEF StaticEtag
    <3>2. v.st.mtime \in Times
      BY <1>9 DEF SeenType, VersionType
    <3>3. v.st.mtime = mtime
      BY <3>1, <3>2 DEF Times
    <3> QED
      BY <1>1, <3>1, <3>3
  <2> QED
    BY <1>4, <1>5, <2>1, <2>2 DEF Unique
<1>12. Steady'
  BY <1>1, <1>2, <1>4, <1>6 DEF Steady
<1>13. Sound'
  BY <1>2, <1>4, <1>6 DEF Sound, Good
<1>14. NotModifiedIsTrue'
  <2>1. Dated' => Dated
    BY <1>4 DEF Dated
  <2> QED
    BY <1>2, <2>1 DEF NotModifiedIsTrue
<1> QED
  BY <1>8, <1>10, <1>11, <1>12, <1>13, <1>14

(* Of two files of the past, dated in order, the one that is there is not  *)
(* the one dated earlier.                                                  *)
LEMMA DateTells ==
    ASSUME CacheInv, Dated, NEW s \in past, LastMod(Seen(path)) <= LastMod(s)
    PROVE  Seen(path) = s
<1> DEFINE u == Seen(path)
<1>1. u \in past /\ past \subseteq SeenType
  BY DEF CacheInv, Typed
<1>2. /\ s.st.content \in Nat /\ u.st.content \in Nat
      /\ LastMod(s) \in Nat /\ LastMod(u) \in Nat
  BY <1>1 DEF SeenType, VersionType, Times, LastMod
<1>3. s.st.content <= u.st.content
  <2>1. Cardinality(past) \in Nat
    BY FS_CardinalityType DEF CacheInv, Typed
  <2> QED
    BY <1>2, <2>1 DEF CacheInv, Newest
<1> HIDE DEF u
<1>4. ~(s.st.content < u.st.content)
  <2>1. s.st.content < u.st.content => LastMod(s) < LastMod(u)
    BY <1>1 DEF Dated
  <2> QED
    BY <1>2, <2>1 DEF u
<1>5. s.st.content = u.st.content
  BY <1>2, <1>3, <1>4
<1> QED
  BY <1>1, <1>5 DEF CacheInv, Unique, u

(* A 304, whichever validator it is for.                                     *)
LEMMA NotModifiedKeeps ==
    ASSUME CacheInv, NEW c \in copies, NEW by \in {"tag", "date"}, NotModified(by, c),
           by = "tag" => c.tag = StaticEtag(Seen(path)),
           by = "date" => NotModifiedSince(Seen(path), c.date),
           UNCHANGED <<now, disk, path, past, sends, copies>>
    PROVE  CacheInv'
<1> USE CacheInv DEF CacheInv
<1>1. PICK s \in past : /\ c.tag = StaticEtag(s) /\ c.date = LastMod(s)
                        /\ Seen(path) = s => c.body = Whole(s.st.content)
  BY DEF Sound, Good
<1>2. Seen(path) \in past
  BY DEF Typed
<1>3. by = "tag" => Seen(path) = s
  BY <1>1, <1>2 DEF Unique
<1>4. by = "date" /\ Dated => Seen(path) = s
  BY <1>1, DateTells DEF NotModifiedSince
<1>5. (by = "date" /\ Dated) \/ by = "tag" => c.body = Whole(disk[path].content)
  BY <1>1, <1>3, <1>4 DEF Seen
<1>6. answered' = [status |-> 304, by |-> by, copy |-> c, current |-> disk[path].content]
  BY DEF NotModified
<1>7. NotModifiedIsTrue'
  BY <1>5, <1>6 DEF NotModifiedIsTrue, Dated
<1>8. Typed' /\ Newest' /\ Unique' /\ Sound'
  BY DEF NotModified, Idle, Typed, Newest, Unique, Sound, Good, Seen
<1>9. Steady'
  BY DEF NotModified, Idle, Steady
<1> QED
  BY <1>7, <1>8, <1>9

LEMMA OpensKeeps ==
    ASSUME CacheInv, Opens, pc = "idle", UNCHANGED <<now, disk, path, past, sends, copies>>
    PROVE  CacheInv'
<1> USE CacheInv DEF CacheInv
<1>1. Typed' /\ Newest' /\ Unique' /\ Sound'
  BY DEF Opens, Typed, Newest, Unique, Sound, Good, Seen
<1>2. Steady'
  BY DEF Opens, Steady, Typed, Seen
<1>3. NotModifiedIsTrue'
  BY DEF Opens, NotModifiedIsTrue
<1> QED
  BY <1>1, <1>2, <1>3

(* What was read under the validators of a file that is still there is that *)
(* file.                                                                    *)
LEMMA SentKeeps == ASSUME CacheInv, Sent PROVE CacheInv'
<1> USE CacheInv DEF CacheInv
<1>1. /\ UNCHANGED <<now, disk, path, past, sends, answered>> /\ Idle
      /\ pc = "read" /\ Len(body) = Blocks
  BY DEF Sent
<1>2. PICK s \in past, ino \in Inodes :
        /\ stat_buf = {s} /\ want_fd = {ino} /\ body \in Seq(Nat)
        /\ Seen(path) = s => /\ ino = path
                             /\ \A b \in 1 .. Len(body) : body[b] = s.st.content
  BY <1>1 DEF Steady
<1> DEFINE size == disk[ino].size
           kept == [tag |-> StaticEtag(s), date |-> LastMod(s),
                    body |-> Cut(body, size, s.st.size)]
<1>3. \/ UNCHANGED copies
      \/ copies' = {c \in copies : c.tag # kept.tag} \cup {kept}
  BY <1>2 DEF Sent
<1>4. Seen(path) = s => kept.body = Whole(s.st.content)
  <2> SUFFICES ASSUME Seen(path) = s PROVE kept.body = Whole(s.st.content)
    OBVIOUS
  <2>1. size = s.st.size
    BY <1>2 DEF Seen
  <2>2. body = Whole(s.st.content)
    BY <1>1, <1>2 DEF Whole, Blocks
  <2> QED
    BY <2>1, <2>2 DEF Cut
<1>5. Good(kept)
  BY <1>4 DEF Good
<1> HIDE DEF kept
<1>6. Sound'
  <2>1. \A c : Good(c) => Good(c)'
    BY <1>1 DEF Good, Seen
  <2> QED
    BY <1>1, <1>3, <1>5, <2>1 DEF Sound
<1>7. Typed' /\ Newest' /\ Unique' /\ Steady' /\ NotModifiedIsTrue'
  <2>1. Typed' /\ Newest' /\ Unique'
    BY <1>1 DEF Idle, Typed, Newest, Unique, Seen
  <2>2. Steady' /\ NotModifiedIsTrue'
    BY <1>1 DEF Idle, Steady, NotModifiedIsTrue, Dated
  <2> QED
    BY <2>1, <2>2
<1> QED
  BY <1>6, <1>7

LEMMA ReadKeeps == ASSUME CacheInv, Read PROVE CacheInv'
<1> USE CacheInv DEF CacheInv
<1>1. /\ UNCHANGED <<now, disk, path, past, sends, copies, pc, stat_buf, want_fd, answered>>
      /\ pc = "read"
  BY DEF Read
<1>2. PICK s \in past, ino \in Inodes :
        /\ stat_buf = {s} /\ want_fd = {ino} /\ body \in Seq(Nat)
        /\ Seen(path) = s => /\ ino = path
                             /\ \A b \in 1 .. Len(body) : body[b] = s.st.content
  BY <1>1 DEF Steady
<1>3. body' = Append(body, disk[ino].content)
  BY <1>2 DEF Read
<1>4. disk[ino].content \in Nat
  BY DEF Typed, VersionType
<1>5. body' \in Seq(Nat) /\ Len(body') = Len(body) + 1
  BY <1>2, <1>3, <1>4
<1>6. Seen(path) = s => \A b \in 1 .. Len(body') : body'[b] = s.st.content
  <2> SUFFICES ASSUME Seen(path) = s, NEW b \in 1 .. Len(body')
               PROVE  body'[b] = s.st.content
    OBVIOUS
  <2>1. ino = path /\ disk[ino].content = s.st.content
    BY <1>2 DEF Seen
  <2>2. CASE b = Len(body) + 1
    BY <1>2, <1>3, <1>4, <2>1, <2>2
  <2>3. CASE b \in 1 .. Len(body)
    BY <1>2, <1>3, <1>4, <2>3
  <2> QED
    BY <1>2, <1>5, <2>2, <2>3
<1>7. Steady'
  <2>1. Seen(path)' = Seen(path)
    BY <1>1 DEF Seen
  <2> QED
    BY <1>1, <1>2, <1>5, <1>6, <2>1 DEF Steady
<1>8. Typed' /\ Newest' /\ Unique'
  BY <1>1 DEF Typed, Newest, Unique, Seen
<1>9. Sound' /\ NotModifiedIsTrue'
  BY <1>1 DEF Sound, Good, Seen, NotModifiedIsTrue, Dated
<1> QED
  BY <1>7, <1>8, <1>9

LEMMA NextKeeps == ASSUME CacheInv, Next PROVE CacheInv'
<1> USE CacheInv DEF CacheInv
<1>1. CASE Tick
  <2>1. UNCHANGED <<disk, path, past, sends, copies, pc, stat_buf, want_fd, body, answered>>
    BY <1>1 DEF Tick
  <2>2. now' \in Times
    BY <1>1, CacheAssumption DEF Tick, Typed, Times, CacheAssumption
  <2>3. Typed' /\ Newest' /\ Unique' /\ Steady'
    BY <2>1, <2>2 DEF Typed, Newest, Unique, Steady, Seen
  <2>4. Sound' /\ NotModifiedIsTrue'
    BY <2>1 DEF Sound, Good, Seen, NotModifiedIsTrue, Dated
  <2> QED
    BY <2>3, <2>4
<1>2. CASE Change
  BY <1>2, ChangeKeeps
<1>3. CASE ServeTags
  <2>1. PICK asked \in SUBSET copies :
          IF StaticEtagMatches({c.tag : c \in asked}, StaticEtag(Seen(path)))
          THEN \E c \in asked : c.tag = StaticEtag(Seen(path)) /\ NotModified("tag", c)
          ELSE Opens
    BY <1>3 DEF ServeTags
  <2>2. pc = "idle" /\ UNCHANGED <<now, disk, path, past, sends, copies>>
    BY <1>3 DEF ServeTags
  <2>3. CASE Opens
    BY <2>2, <2>3, OpensKeeps
  <2>4. CASE \E c \in asked : c.tag = StaticEtag(Seen(path)) /\ NotModified("tag", c)
    BY <2>2, <2>4, NotModifiedKeeps
  <2> QED
    BY <2>1, <2>3, <2>4
<1>4. CASE ServeDate
  <2>1. pc = "idle" /\ UNCHANGED <<now, disk, path, past, sends, copies>>
    BY <1>4 DEF ServeDate
  <2>2. \/ Opens
        \/ \E c \in copies : NotModifiedSince(Seen(path), c.date) /\ NotModified("date", c)
    BY <1>4 DEF ServeDate
  <2> QED
    BY <2>1, <2>2, OpensKeeps, NotModifiedKeeps
<1>5. CASE Open
  <2>1. UNCHANGED <<now, disk, path, past, sends, copies, answered>>
    BY <1>5 DEF Open
  <2>2. Steady'
    <3>1. CASE pc' = "read" /\ want_fd' = {path} /\ UNCHANGED <<stat_buf, body>>
      BY <1>5, <2>1, <3>1 DEF Open, Steady, Typed, Seen
    <3>2. CASE Idle
      BY <3>2 DEF Idle, Steady
    <3> QED
      BY <1>5, <3>1, <3>2 DEF Open
  <2>3. Typed' /\ Newest' /\ Unique'
    BY <1>5, <2>1 DEF Open, Idle, Typed, Newest, Unique, Seen
  <2>4. Sound' /\ NotModifiedIsTrue'
    BY <2>1 DEF Sound, Good, Seen, NotModifiedIsTrue, Dated
  <2> QED
    BY <2>2, <2>3, <2>4
<1>6. CASE Read
  BY <1>6, ReadKeeps
<1>7. CASE Sent
  BY <1>7, SentKeeps
<1>8. CASE Forget
  <2>1. copies' \subseteq copies
        /\ UNCHANGED <<now, disk, path, past, sends, pc, stat_buf, want_fd, body, answered>>
    BY <1>8 DEF Forget
  <2>2. Typed' /\ Newest' /\ Unique' /\ Steady'
    BY <2>1 DEF Typed, Newest, Unique, Steady, Seen
  <2>3. Sound' /\ NotModifiedIsTrue'
    BY <2>1 DEF Sound, Good, Seen, NotModifiedIsTrue, Dated
  <2> QED
    BY <2>2, <2>3
<1> QED
  BY <1>1, <1>2, <1>3, <1>4, <1>5, <1>6, <1>7, <1>8 DEF Next

(* A 304 of request_handle_static is only for a client whose copy is the   *)
(* file as it is, whole, for any number of changes and requests; a date as *)
(* validator needs changes that are seconds apart.                         *)
THEOREM NotModifiedHolds == Spec => []NotModifiedIsTrue
<1>1. CacheInv /\ [Next]_vars => CacheInv'
  <2> SUFFICES ASSUME CacheInv, UNCHANGED vars PROVE CacheInv'
    BY NextKeeps
  <2>1. Typed' /\ Newest' /\ Unique' /\ Steady'
    BY DEF vars, CacheInv, Typed, Newest, Unique, Steady, Seen
  <2>2. Sound' /\ NotModifiedIsTrue'
    BY DEF vars, CacheInv, Sound, Good, Seen, NotModifiedIsTrue, Dated
  <2> QED
    BY <2>1, <2>2 DEF CacheInv
<1>2. CacheInv => NotModifiedIsTrue
  BY DEF CacheInv
<1> QED
  BY InitInv, <1>1, <1>2, PTL DEF Spec
-----------------------------------------------------------------------------
Leap(y) == y % 4 = 0 /\ (y % 100 # 0 \/ y % 400 = 0)

(* The days before March 1 of a year of the function, which begins in March. *)
Elapsed(era, yoe) == era * 146097 + yoe * 365 + yoe \div 4 - yoe \div 100
Before(y) == Elapsed(y \div 400, y - (y \div 400) * 400)

LEMMA DaysIs ==
    ASSUME NEW y \in Int, NEW m \in 1 .. 12, NEW d \in Int
    PROVE  D!Days(y, m, d)
             = Before(IF m <= 2 THEN y - 1 ELSE y) + D!DayOfYear(m, d) - 719468
<1> DEFINE z == IF m <= 2 THEN y - 1 ELSE y
           era == z \div 400
           yoe == z - era * 400
           doy == D!DayOfYear(m, d)
<1>1. D!Days(y, m, d)
        = era * 146097 + (yoe * 365 + yoe \div 4 - yoe \div 100 + doy) - 719468
  BY SMT DEF D!Days, D!DayOfEra
<1>2. Before(z) = era * 146097 + yoe * 365 + yoe \div 4 - yoe \div 100
  BY SMT DEF Before, Elapsed
<1>3. doy \in Int
  BY DEF D!DayOfYear, D!MonthShifted
<1>4. era \in Int /\ yoe \in Int /\ yoe \div 4 \in Int /\ yoe \div 100 \in Int
  OBVIOUS
<1> HIDE DEF era, yoe, doy
<1> QED
  BY <1>1, <1>2, <1>3, <1>4, SMT DEF doy

(* A year of the function has a day more if the one it ends in is a leap year. *)
LEMMA YearLength ==
    ASSUME NEW z \in Nat
    PROVE  Before(z + 1) = Before(z) + (IF Leap(z + 1) THEN 366 ELSE 365)
<1> DEFINE e == z \div 400
           r == z - e * 400
<1>1. e \in Nat /\ r \in 0 .. 399 /\ z = e * 400 + r
  OBVIOUS
<1>2. Before(z) = e * 146097 + r * 365 + r \div 4 - r \div 100
  BY DEF Before, Elapsed
<1> HIDE DEF e, r
<1>3. CASE r = 399
  <2>1. (z + 1) \div 400 = e + 1
    BY <1>1, <1>3
  <2>2. Before(z + 1) = Elapsed(e + 1, 0)
    BY <1>1, <1>3, <2>1 DEF Before
  <2>3. Leap(z + 1)
    BY <1>1, <1>3 DEF Leap
  <2> QED
    BY <1>1, <1>2, <1>3, <2>2, <2>3 DEF Elapsed
<1>4. CASE r < 399
  <2>1. (z + 1) \div 400 = e /\ z + 1 - e * 400 = r + 1
    BY <1>1, <1>4
  <2>2. Before(z + 1) = Elapsed(e, r + 1)
    BY <1>1, <2>1 DEF Before
  <2>3. Leap(z + 1) <=> ((r + 1) % 4 = 0 /\ (r + 1) % 100 # 0)
    BY <1>1, <1>4 DEF Leap
  <2>4. (r + 1) \div 4 = r \div 4 + (IF (r + 1) % 4 = 0 THEN 1 ELSE 0)
    BY <1>1
  <2>5. (r + 1) \div 100 = r \div 100 + (IF (r + 1) % 100 = 0 THEN 1 ELSE 0)
    BY <1>1
  <2>6. (r + 1) % 100 = 0 => (r + 1) % 4 = 0
    BY <1>1
  <2>7. r \div 4 \in Int /\ r \div 100 \in Int
    BY <1>1
  <2> DEFINE q == r \div 4
             h == r \div 100
  <2>8. Before(z) = e * 146097 + r * 365 + q - h
    BY <1>2
  <2>9. Before(z + 1) = e * 146097 + (r + 1) * 365
                          + (q + (IF (r + 1) % 4 = 0 THEN 1 ELSE 0))
                          - (h + (IF (r + 1) % 100 = 0 THEN 1 ELSE 0))
    BY <2>2, <2>4, <2>5 DEF Elapsed
  <2> HIDE DEF q, h
  <2>10. q \in Int /\ h \in Int
    BY <2>7 DEF q, h
  <2>11. CASE (r + 1) % 4 # 0
    BY <1>1, <2>3, <2>6, <2>8, <2>9, <2>10, <2>11
  <2>12. CASE (r + 1) % 4 = 0 /\ (r + 1) % 100 # 0
    BY <1>1, <2>3, <2>8, <2>9, <2>10, <2>12
  <2>13. CASE (r + 1) % 4 = 0 /\ (r + 1) % 100 = 0
    BY <1>1, <2>3, <2>8, <2>9, <2>10, <2>13
  <2> QED
    BY <2>6, <2>11, <2>12, <2>13
<1> QED
  BY <1>1, <1>3, <1>4

(* Only February depends on the year. *)
LEMMA DayOfYearIs ==
    ASSUME NEW m \in 1 .. 12, NEW d \in Int
    PROVE  D!DayOfYear(m, d)
             = d - 1 + <<306, 337, 0, 31, 61, 92, 122, 153, 184, 214, 245, 275>>[m]
  BY SMT DEF D!DayOfYear, D!MonthShifted

DateInv ==
    what = "date" =>
      /\ year \in Nat \ {0} /\ month \in 1 .. 12 /\ day \in Nat /\ day <= MonthLength
      /\ D!Days(year, month, day) = count

LEMMA DateInit == MCInit => DateInv
<1> SUFFICES ASSUME MCInit, what = "date" PROVE DateInv
  BY DEF DateInv
<1>1. year = 1970 /\ month = 1 /\ day = 1 /\ count = 0
  BY DEF MCInit, NoDate
<1>2. Before(1969) = Elapsed(4, 369)
  BY SMT DEF Before
<1>3. Elapsed(4, 369) = 719162
  BY SMT DEF Elapsed
<1>4. D!DayOfYear(1, 1) = 306
  BY DayOfYearIs, SMT
<1>5. D!Days(1970, 1, 1) = Before(1969) + D!DayOfYear(1, 1) - 719468
  BY DaysIs, SMT
<1>6. D!Days(1970, 1, 1) = 0
  BY <1>2, <1>3, <1>4, <1>5, SMT
<1> QED
  BY <1>1, <1>6, SMT DEF DateInv, MonthLength

LEMMA Tomorrows == ASSUME DateInv, Tomorrow PROVE DateInv'
<1>1. /\ what = "date" /\ what' = "date"
      /\ year \in Nat \ {0} /\ month \in 1 .. 12 /\ day \in Nat /\ day <= MonthLength
      /\ D!Days(year, month, day) = count /\ count' = count + 1
  BY DEF DateInv, Tomorrow
<1> DEFINE Start(y, m) == Before(IF m <= 2 THEN y - 1 ELSE y)
<1>2. count = Start(year, month) + D!DayOfYear(month, day) - 719468
  BY <1>1, DaysIs, SMT
<1>3. \A y \in Int, m \in 1 .. 12 : Start(y, m) \in Int
  BY SMT DEF Before, Elapsed
<1>4. CASE day < MonthLength /\ day' = day + 1 /\ UNCHANGED <<year, month>>
  <2>1. D!Days(year, month, day + 1)
          = Start(year, month) + D!DayOfYear(month, day + 1) - 719468
    BY <1>1, DaysIs, SMT
  <2>2. D!DayOfYear(month, day + 1) = D!DayOfYear(month, day) + 1
        /\ D!DayOfYear(month, day) \in Int
    BY <1>1 DEF D!DayOfYear, D!MonthShifted
  <2>3. D!Days(year, month, day + 1) = count + 1
    BY <1>1, <1>2, <1>3, <2>1, <2>2, SMT
  <2>4. MonthLength' = MonthLength /\ MonthLength \in Nat
    BY <1>4 DEF MonthLength, LeapYear
  <2> QED
    BY <1>1, <1>4, <2>3, <2>4 DEF DateInv
<1>5. CASE /\ day = MonthLength /\ day' = 1
           /\ month < 12 /\ month' = month + 1 /\ UNCHANGED year
  <2>1. D!Days(year, month + 1, 1)
          = Start(year, month + 1) + D!DayOfYear(month + 1, 1) - 719468
    BY <1>1, <1>5, DaysIs, SMT
  <2>2. D!Days(year, month + 1, 1) = count + 1
    <3>1. CASE month = 2
      <4>1. Start(year, 3) = Start(year, 2) + (IF Leap(year) THEN 366 ELSE 365)
        BY <1>1, YearLength
      <4>2. day = IF Leap(year) THEN 29 ELSE 28
        BY <1>5, <3>1 DEF MonthLength, LeapYear, Leap
      <4>3. D!DayOfYear(2, day) = day - 1 + 337 /\ D!DayOfYear(3, 1) = 0
        BY <1>1, DayOfYearIs
      <4>4. Start(year, 2) \in Int /\ Start(year, 3) \in Int
        BY <1>1, <1>3
      <4> HIDE DEF Start
      <4> QED
        BY <1>1, <1>2, <2>1, <3>1, <4>1, <4>2, <4>3, <4>4, SMT
    <3>2. CASE month # 2
      <4>1. Start(year, month + 1) = Start(year, month) /\ Start(year, month) \in Int
        BY <1>1, <1>3, <1>5, <3>2
      <4>2. D!DayOfYear(month + 1, 1) = D!DayOfYear(month, day) + 1
            /\ D!DayOfYear(month, day) \in Int
        <5>1. day = IF month \in {4, 6, 9, 11} THEN 30 ELSE 31
          BY <1>5, <3>2 DEF MonthLength
        <5> QED
          BY <1>1, <1>5, <3>2, <5>1 DEF D!DayOfYear, D!MonthShifted
      <4> HIDE DEF Start
      <4> QED
        BY <1>1, <1>2, <2>1, <4>1, <4>2, SMT
    <3> QED
      BY <3>1, <3>2
  <2>3. 1 <= MonthLength'
    BY DEF MonthLength
  <2> QED
    BY <1>1, <1>5, <2>2, <2>3 DEF DateInv
<1>6. CASE /\ day = MonthLength /\ day' = 1
           /\ month = 12 /\ month' = 1 /\ year' = year + 1
  <2>1. day = 31
    BY <1>6 DEF MonthLength
  <2>2. D!DayOfYear(12, 31) = 305 /\ D!DayOfYear(1, 1) = 306
    BY DayOfYearIs
  <2>3. D!Days(year + 1, 1, 1) = Before(year) + 306 - 719468
    BY <1>1, <2>2, DaysIs, SMT
  <2>4. count = Before(year) + 305 - 719468
    BY <1>1, <1>2, <1>6, <2>1, <2>2, SMT
  <2>5. Before(year) \in Int
    BY <1>1, SMT DEF Before, Elapsed
  <2>6. 1 <= MonthLength'
    BY DEF MonthLength
  <2> QED
    BY <1>1, <1>6, <2>3, <2>4, <2>5, <2>6, SMT DEF DateInv
<1> QED
  BY <1>4, <1>5, <1>6 DEF Tomorrow

(* tm_to_time_t_utc gives every day from 1970-01-01 on the number that a   *)
(* calendar gives it, which goes on by one from each day to the next.      *)
THEOREM DatesCounted == MCSpec => []DaysCounted
<1>1. DateInv /\ [MCNext]_<<what, date, string, vars>> => DateInv'
  <2> SUFFICES ASSUME DateInv, MCNext \/ UNCHANGED <<what, date, string, vars>>
               PROVE  DateInv'
    OBVIOUS
  <2>1. CASE Tomorrow
    BY <2>1, Tomorrows
  <2>2. CASE UNCHANGED <<what, date>>
    BY <2>2 DEF DateInv, date, MonthLength, LeapYear
  <2> QED
    BY <2>1, <2>2 DEF MCNext, Longer
<1>2. DateInv => DaysCounted
  BY DEF DateInv, DaysCounted
<1> QED
  BY DateInit, <1>1, <1>2, PTL DEF MCSpec

-----------------------------------------------------------------------------
(* A set of numbers has a smallest one; and so what holds of 0, and of n + *)
(* 1 where it holds of n, holds of all.                                    *)
LEMMA Smallest ==
    ASSUME NEW T, T \subseteq Nat, T # {}
    PROVE  \E n \in T : \A m \in T : n <= m
<1> DEFINE less == {ss \in Nat \X Nat : ss[1] < ss[2]}
<1>1. OpToRel(<, Nat) = less
  BY DEF OpToRel
<1>2. IsWellFoundedOn(less, Nat)
  BY <1>1, NatLessThanWellFounded
<1> HIDE DEF less
<1>3. PICK x \in T : \A y \in T : ~(<<y, x>> \in less)
  BY <1>2, WFMin
<1>4. ASSUME NEW y \in T PROVE x <= y
  <2>1. <<y, x>> \notin less
    BY <1>3
  <2>2. y \in Nat /\ x \in Nat
    OBVIOUS
  <2>3. ~(y < x)
    BY <2>1, <2>2 DEF less
  <2> QED
    BY <2>2, <2>3
<1> QED
  BY <1>4

LEMMA Induction ==
    ASSUME NEW S, 0 \in S, \A n \in Nat : n \in S => n + 1 \in S
    PROVE  Nat \subseteq S
<1> SUFFICES ASSUME Nat \ S # {} PROVE FALSE
  OBVIOUS
<1>1. PICK n \in Nat \ S : \A m \in Nat \ S : n <= m
  BY Smallest
<1>2. n - 1 \in Nat
  OBVIOUS
<1>3. n - 1 \in S
  BY <1>1, <1>2
<1> QED
  BY <1>1, <1>2, <1>3

(* From a position on, back to the first.                                  *)
LEMMA Backwards ==
    ASSUME NEW n \in Nat, NEW S,
           \A i \in Nat \ {0} : i > n => i \in S,
           \A i \in 1 .. n : (\A j \in Nat \ {0} : j > i => j \in S) => i \in S
    PROVE  \A i \in Nat \ {0} : i \in S
<1> DEFINE W == {m \in Nat : \A i \in Nat \ {0} : i + m > n => i \in S}
<1>1. 0 \in W
  OBVIOUS
<1>2. ASSUME NEW m \in Nat, m \in W PROVE m + 1 \in W
  <2> SUFFICES ASSUME NEW i \in Nat \ {0}, i + (m + 1) > n PROVE i \in S
    OBVIOUS
  <2>1. \A j \in Nat \ {0} : j > i => j \in S
    BY <1>2
  <2>2. CASE i > n
    BY <2>2
  <2>3. CASE i <= n
    BY <2>1, <2>3
  <2> QED
    BY <2>2, <2>3
<1> HIDE DEF W
<1>3. Nat \subseteq W
  BY <1>1, <1>2, Induction
<1>4. n \in W
  BY <1>3
<1> QED
  BY <1>4 DEF W

(* A walk through the positions of a string of n characters goes on.       *)
Onward(n, next) == \A i \in 1 .. n : next[i] \in Nat /\ next[i] > i

(* Walk is defined by recursion from the end of the string back: each      *)
(* position needs only positions behind it.                                *)
LEMMA WalkIs ==
    ASSUME NEW n \in Nat, NEW put, NEW next, Onward(n, next)
    PROVE  \A i \in Nat \ {0} :
             U!Walk(n, put, next)[i] =
               IF i > n THEN <<>> ELSE <<put[i]>> \o U!Walk(n, put, next)[next[i]]
<1> DEFINE P == Nat \ {0}
           is(f, i) == f[i] = IF i > n THEN <<>> ELSE <<put[i]>> \o f[next[i]]
           W == {m \in Nat : \E f : f = [i \in P |-> f[i]] /\ \A i \in P : i + m > n => is(f, i)}
<1>1. 0 \in W
  <2> DEFINE f == [i \in P |-> <<>>]
  <2>1. f = [i \in P |-> f[i]]
    OBVIOUS
  <2>2. \A i \in P : i + 0 > n => is(f, i)
    OBVIOUS
  <2> HIDE DEF f
  <2> QED
    BY <2>1, <2>2
<1>2. ASSUME NEW m \in Nat, m \in W PROVE m + 1 \in W
  <2>1. PICK f : f = [i \in P |-> f[i]] /\ \A i \in P : i + m > n => is(f, i)
    BY <1>2
  <2> DEFINE g == [i \in P |-> IF i + m = n THEN <<put[i]>> \o f[next[i]] ELSE f[i]]
  <2>2. g = [i \in P |-> g[i]]
    OBVIOUS
  <2>3. ASSUME NEW i \in P, i + (m + 1) > n PROVE is(g, i)
    <3>1. CASE i > n
      <4>1. i + m # n /\ i + m > n
        BY <3>1
      <4>2. g[i] = f[i]
        BY <4>1
      <4>3. is(f, i)
        BY <2>1, <4>1
      <4> QED
        BY <3>1, <4>2, <4>3
    <3>2. CASE i <= n
      <4>1. next[i] \in P /\ next[i] > i
        BY <3>2 DEF Onward
      <4>2. g[next[i]] = f[next[i]]
        BY <4>1, <2>3
      <4>3. g[i] = <<put[i]>> \o f[next[i]]
        <5>1. CASE i + m = n
          BY <5>1
        <5>2. CASE i + m # n
          <6>1. i + m > n /\ ~(i > n)
            BY <2>3, <5>2, <3>2
          <6>2. g[i] = f[i]
            BY <5>2
          <6>3. is(f, i)
            BY <2>1, <6>1
          <6> QED
            BY <6>1, <6>2, <6>3
        <5> QED
          BY <5>1, <5>2
      <4>4. ~(i > n)
        BY <3>2
      <4> HIDE DEF g
      <4> QED
        BY <4>2, <4>3, <4>4
    <3> QED
      BY <3>1, <3>2
  <2> HIDE DEF g
  <2>4. \A i \in P : i + (m + 1) > n => is(g, i)
    BY <2>3
  <2>5. \E h : h = [i \in P |-> h[i]] /\ \A i \in P : i + (m + 1) > n => is(h, i)
    BY <2>2, <2>4
  <2>6. m + 1 \in Nat
    OBVIOUS
  <2> HIDE DEF P, is
  <2> QED
    BY <2>5, <2>6
<1>3. n \in W
  <2> HIDE DEF W
  <2> QED
    BY <1>1, <1>2, Induction
<1>4. PICK f : f = [i \in P |-> f[i]] /\ \A i \in P : is(f, i)
  <2>1. PICK f : f = [i \in P |-> f[i]] /\ \A i \in P : i + n > n => is(f, i)
    BY <1>3
  <2>2. \A i \in P : i + n > n
    OBVIOUS
  <2>3. \A i \in P : is(f, i)
    BY <2>1, <2>2
  <2> HIDE DEF is
  <2> QED
    BY <2>1, <2>3
<1> DEFINE rule(h) == [i \in P |-> IF i > n THEN <<>> ELSE <<put[i]>> \o h[next[i]]]
<1>5. f = rule(f)
  BY <1>4
<1>6. U!Walk(n, put, next) = CHOOSE h : h = rule(h)
  BY DEF U!Walk
<1>7. U!Walk(n, put, next) = rule(U!Walk(n, put, next))
  <2> HIDE DEF rule
  <2> QED
    BY <1>5, <1>6
<1> QED
  BY <1>7

(* What Walk puts together from each position on.                          *)
Positions == Nat \ {0}

IsWalk(F, n, put, next) ==
    \A i \in Positions : F[i] = IF i > n THEN <<>> ELSE <<put[i]>> \o F[next[i]]

(* Walk is such a function, and puts together a string.                    *)
LEMMA WalkExists ==
    ASSUME NEW n \in Nat, NEW put, NEW next, Onward(n, next)
    PROVE  IsWalk(U!Walk(n, put, next), n, put, next)
BY WalkIs DEF IsWalk, Positions

LEMMA WalkType ==
    ASSUME NEW C, NEW n \in Nat, NEW put, NEW next, Onward(n, next), NEW F, IsWalk(F, n, put, next),
           \A i \in 1 .. n : put[i] \in C
    PROVE  \A i \in Positions : F[i] \in Seq(C)
<1> DEFINE S == {i \in Positions : F[i] \in Seq(C)}
<1>1. ASSUME NEW i \in Nat \ {0}, i > n PROVE i \in S
  <2>1. i \in Positions /\ F[i] = <<>>
    BY <1>1 DEF IsWalk, Positions
  <2> QED
    BY <2>1, EmptySeq
<1>2. ASSUME NEW i \in 1 .. n, \A j \in Nat \ {0} : j > i => j \in S PROVE i \in S
  <2>1. i \in Positions /\ ~(i > n) /\ next[i] \in Nat \ {0} /\ next[i] > i
    BY DEF Positions, Onward
  <2>2. F[next[i]] \in Seq(C)
    BY <1>2, <2>1
  <2>3. F[i] = <<put[i]>> \o F[next[i]]
    BY <2>1 DEF IsWalk
  <2>4. <<put[i]>> \in Seq(C)
    OBVIOUS
  <2> QED
    BY <2>1, <2>2, <2>3, <2>4, ConcatProperties
<1> HIDE DEF S
<1>3. \A i \in Nat \ {0} : i \in S
  BY <1>1, <1>2, Backwards
<1> QED
  BY <1>3 DEF S, Positions

(* One more character in front.                                            *)
LEMMA InFront ==
    ASSUME NEW C, NEW c \in C, NEW s \in Seq(C)
    PROVE  /\ <<c>> \o s \in Seq(C)
           /\ Len(<<c>> \o s) = Len(s) + 1
           /\ (<<c>> \o s)[1] = c
           /\ \A k \in Nat : k + 1 \in 1 .. Len(s) + 1 /\ k # 0 => (<<c>> \o s)[k + 1] = s[k]
<1>1. <<c>> \in Seq(C) /\ Len(<<c>>) = 1 /\ <<c>>[1] = c
  OBVIOUS
<1>2. Len(s) \in Nat
  BY LenProperties
<1>3. /\ <<c>> \o s \in Seq(C)
      /\ Len(<<c>> \o s) = 1 + Len(s)
      /\ \A i \in 1 .. Len(<<c>>) + Len(s) :
           (<<c>> \o s)[i] = IF i <= Len(<<c>>) THEN <<c>>[i] ELSE s[i - Len(<<c>>)]
  BY <1>1, ConcatProperties
<1>4. ASSUME NEW k \in Nat, k + 1 \in 1 .. Len(s) + 1, k # 0 PROVE (<<c>> \o s)[k + 1] = s[k]
  <2>1. k + 1 \in 1 .. 1 + Len(s) /\ ~(k + 1 <= 1) /\ (k + 1) - 1 = k
    BY <1>2, <1>4
  <2> QED
    BY ONLY <1>1, <1>3, <2>1
<1>5. 1 \in 1 .. 1 + Len(s)
  BY <1>2
<1> QED
  BY <1>1, <1>2, <1>3, <1>4, <1>5

(* Two walks that go the same way.                                         *)
LEMMA WalkTogether ==
    ASSUME NEW C, NEW n \in Nat, NEW next, Onward(n, next),
           NEW put1, NEW F, IsWalk(F, n, put1, next), \A i \in 1 .. n : put1[i] \in C,
           NEW put2, NEW G, IsWalk(G, n, put2, next), \A i \in 1 .. n : put2[i] \in C
    PROVE  \A i \in Positions :
             /\ F[i] \in Seq(C) /\ G[i] \in Seq(C) /\ Len(F[i]) = Len(G[i])
             /\ \A k \in 1 .. Len(F[i]) : \E j \in 1 .. n : F[i][k] = put1[j] /\ G[i][k] = put2[j]
<1> DEFINE good(i) == /\ Len(F[i]) = Len(G[i])
                      /\ \A k \in 1 .. Len(F[i]) :
                           \E j \in 1 .. n : F[i][k] = put1[j] /\ G[i][k] = put2[j]
           S == {i \in Positions : good(i)}
<1>t. \A i \in Positions : F[i] \in Seq(C) /\ G[i] \in Seq(C)
  BY WalkType
<1>1. ASSUME NEW i \in Nat \ {0}, i > n PROVE i \in S
  <2>1. i \in Positions /\ F[i] = <<>> /\ G[i] = <<>>
    BY <1>1 DEF IsWalk, Positions
  <2> QED
    BY <2>1
<1>2. ASSUME NEW i \in 1 .. n, \A j \in Nat \ {0} : j > i => j \in S PROVE i \in S
  <2>1. i \in Positions /\ ~(i > n) /\ next[i] \in Nat \ {0} /\ next[i] \in Positions /\ next[i] > i
    BY DEF Positions, Onward
  <2>2. good(next[i])
    BY <1>2, <2>1
  <2> DEFINE f == F[next[i]]
             g == G[next[i]]
  <2>3. F[i] = <<put1[i]>> \o f /\ G[i] = <<put2[i]>> \o g
    BY <2>1 DEF IsWalk
  <2>4. f \in Seq(C) /\ g \in Seq(C) /\ Len(f) = Len(g) /\ Len(f) \in Nat
    BY <1>t, <2>1, <2>2, LenProperties
  <2>5. /\ \A k \in 1 .. Len(f) : \E j \in 1 .. n : f[k] = put1[j] /\ g[k] = put2[j]
        /\ put1[i] \in C /\ put2[i] \in C
    BY <2>2
  <2> HIDE DEF f, g, good
  <2>6. /\ Len(F[i]) = Len(f) + 1 /\ F[i][1] = put1[i]
        /\ \A k \in Nat : k + 1 \in 1 .. Len(f) + 1 /\ k # 0 => F[i][k + 1] = f[k]
    BY <2>3, <2>4, <2>5, InFront
  <2>7. /\ Len(G[i]) = Len(g) + 1 /\ G[i][1] = put2[i]
        /\ \A k \in Nat : k + 1 \in 1 .. Len(g) + 1 /\ k # 0 => G[i][k + 1] = g[k]
    BY <2>3, <2>4, <2>5, InFront
  <2>8. ASSUME NEW k \in 1 .. Len(F[i])
        PROVE  \E j \in 1 .. n : F[i][k] = put1[j] /\ G[i][k] = put2[j]
    <3>1. CASE k = 1
      BY <2>6, <2>7, <3>1
    <3>2. CASE k # 1
      <4>1. /\ k - 1 \in Nat /\ (k - 1) + 1 \in 1 .. Len(f) + 1 /\ k - 1 # 0
            /\ k - 1 \in 1 .. Len(f) /\ (k - 1) + 1 = k
        BY <2>4, <2>6, <3>2
      <4>2. F[i][k] = f[k - 1] /\ G[i][k] = g[k - 1]
        BY ONLY <2>4, <2>6, <2>7, <4>1
      <4> QED
        BY <2>5, <4>1, <4>2
    <3> QED
      BY <3>1, <3>2
  <2>9. good(i)
    BY <2>4, <2>6, <2>7, <2>8 DEF good
  <2> QED
    BY <2>1, <2>9
<1> HIDE DEF S
<1>3. \A i \in Nat \ {0} : i \in S
  BY <1>1, <1>2, Backwards
<1> QED
  BY <1>t, <1>3 DEF S, Positions

(* A walk whose way leads over the end of another is that one, continued.  *)
GoesOver(F, n, G, m, put, next) ==
    /\ n \in Nat /\ m \in 0 .. n
    /\ Onward(n, next) /\ \A i \in 1 .. n : put[i] \in Int
    /\ IsWalk(F, n, put, next) /\ IsWalk(G, m, put, next)
    /\ \A i \in 1 .. m : next[i] <= m + 1

LEMMA WalkOver ==
    ASSUME NEW F, NEW n, NEW G, NEW m, NEW put, NEW next, GoesOver(F, n, G, m, put, next)
    PROVE  F[1] = G[1] \o F[m + 1]
<1> USE DEF GoesOver
<1> DEFINE S == {i \in Positions : i <= m + 1 => F[i] = G[i] \o F[m + 1]}
<1>t. \A i \in Positions : F[i] \in Seq(Int)
  BY WalkType
<1>m. m \in Nat /\ m + 1 \in Positions
  BY DEF Positions
<1>g. Onward(m, next)
  BY DEF Onward
<1>s. \A i \in Positions : G[i] \in Seq(Int)
  BY <1>g, <1>m, WalkType
<1>1. ASSUME NEW i \in Nat \ {0}, i > m PROVE i \in S
  <2>1. i \in Positions
    BY DEF Positions
  <2>2. i <= m + 1 => i = m + 1
    BY <1>1, <1>m
  <2>3. G[i] = <<>>
    BY <1>1, <2>1 DEF IsWalk
  <2>4. F[m + 1] = <<>> \o F[m + 1]
    BY <1>t, <1>m, ConcatEmptySeq
  <2> QED
    BY <2>1, <2>2, <2>3, <2>4
<1>2. ASSUME NEW i \in 1 .. m, \A j \in Nat \ {0} : j > i => j \in S PROVE i \in S
  <2>1. /\ i \in Positions /\ ~(i > n) /\ ~(i > m) /\ i \in 1 .. n
        /\ next[i] \in Nat \ {0} /\ next[i] > i /\ next[i] <= m + 1
    BY <1>m DEF Positions, Onward
  <2>2. F[next[i]] = G[next[i]] \o F[m + 1]
    BY <1>2, <2>1
  <2>3. F[i] = <<put[i]>> \o F[next[i]] /\ G[i] = <<put[i]>> \o G[next[i]]
    BY <2>1 DEF IsWalk
  <2>4. /\ <<put[i]>> \in Seq(Int)
        /\ G[next[i]] \in Seq(Int) /\ F[m + 1] \in Seq(Int)
    BY <1>s, <1>t, <1>m, <2>1 DEF Positions
  <2> DEFINE a == <<put[i]>>
             b == G[next[i]]
             c == F[m + 1]
  <2>5. (a \o b) \o c = a \o (b \o c)
    <3>1. a \in Seq(Int) /\ b \in Seq(Int) /\ c \in Seq(Int)
      BY <2>4
    <3> HIDE DEF a, b, c
    <3> QED
      BY <3>1, ConcatAssociative
  <2> QED
    BY <2>1, <2>2, <2>3, <2>5
<1> HIDE DEF S
<1>3. \A i \in Nat \ {0} : i \in S
  BY <1>1, <1>2, <1>m, Backwards
<1>4. 1 \in Nat \ {0} /\ 1 <= m + 1
  BY <1>m
<1> QED
  BY <1>3, <1>4 DEF S

-----------------------------------------------------------------------------
(* The loop of axil_url_decode and of request_path_is_safe as a walk: what *)
(* it puts, and where it goes on.                                          *)
Put(s, plus, percent) ==
    [i \in DOMAIN s |-> CASE U!IsEscape(s, i) -> U!Unescape(s, i)
                          [] s[i] = U!PLUS -> plus
                          [] s[i] = U!PERCENT /\ ~U!IsEscape(s, i) -> percent
                          [] OTHER -> s[i]]

After(s) == [i \in DOMAIN s |-> IF U!IsEscape(s, i) THEN i + 3 ELSE i + 1]

Scan(s, plus, percent) == U!Walk(Len(s), Put(s, plus, percent), After(s))

LEMMA DecodedIs ==
    ASSUME NEW s, NEW plus, NEW percent
    PROVE  U!Decoded(s, plus, percent) = Scan(s, plus, percent)[1]
BY DEF U!Decoded, Scan, Put, After

(* No special character is a hex digit.                                    *)
LEMMA HexIs ==
    ASSUME NEW c \in Int
    PROVE  /\ U!Hex(c) \in Int
           /\ c \in {U!PERCENT, U!PLUS, U!SPACE, U!QUERY} => U!Hex(c) = -1
BY DEF U!Hex, U!Digits, U!PERCENT, U!PLUS, U!SPACE, U!QUERY

(* An escape: no other begins in it.                                       *)
LEMMA EscapeIs ==
    ASSUME NEW s \in Seq(Int), NEW i \in 1 .. Len(s), U!IsEscape(s, i)
    PROVE  /\ i + 2 <= Len(s) /\ s[i] = U!PERCENT
           /\ U!Unescape(s, i) \in Int
           /\ \A j \in {i + 1, i + 2} : s[j] \notin {U!PERCENT, U!PLUS, U!SPACE, U!QUERY}
<1>1. i + 2 <= Len(s) /\ s[i] = U!PERCENT /\ U!Hex(s[i + 1]) >= 0 /\ U!Hex(s[i + 2]) >= 0
  BY DEF U!IsEscape
<1>2. i \in Nat /\ Len(s) \in Nat
  OBVIOUS
<1>3. i + 1 \in 1 .. Len(s) /\ i + 2 \in 1 .. Len(s)
  BY <1>1, <1>2
<1>4. s[i + 1] \in Int /\ s[i + 2] \in Int
  BY <1>3, ElementOfSeq
<1>5. U!Hex(s[i + 1]) \in Int /\ U!Hex(s[i + 2]) \in Int
  BY <1>4, HexIs
<1>6. U!Unescape(s, i) \in Int
  BY <1>5 DEF U!Unescape
<1>7. ASSUME NEW j \in {i + 1, i + 2} PROVE s[j] \notin {U!PERCENT, U!PLUS, U!SPACE, U!QUERY}
  <2>1. s[j] \in Int /\ U!Hex(s[j]) >= 0
    BY <1>1, <1>4, <1>7
  <2>2. U!Hex(s[j]) # -1
    BY <2>1
  <2>3. s[j] \in {U!PERCENT, U!PLUS, U!SPACE, U!QUERY} => U!Hex(s[j]) = -1
    BY <2>1, HexIs
  <2> QED
    BY <2>2, <2>3
<1> QED
  BY <1>1, <1>6, <1>7

(* What is put for a character, and where the walk goes on: never behind   *)
(* the end.                                                                *)
LEMMA PutIs ==
    ASSUME NEW s \in Seq(Int), NEW plus \in Int, NEW percent \in Int, NEW i \in 1 .. Len(s)
    PROVE  /\ Put(s, plus, percent)[i] \in Int
           /\ U!IsEscape(s, i) => Put(s, plus, percent)[i] = U!Unescape(s, i)
           /\ ~U!IsEscape(s, i) =>
                Put(s, plus, percent)[i] =
                  IF s[i] = U!PLUS THEN plus ELSE IF s[i] = U!PERCENT THEN percent ELSE s[i]
<1>1. i \in DOMAIN s /\ s[i] \in Int
  BY ElementOfSeq
<1>2. U!PERCENT # U!PLUS
  BY DEF U!PERCENT, U!PLUS
<1>3. CASE U!IsEscape(s, i)
  <2>1. s[i] = U!PERCENT /\ U!Unescape(s, i) \in Int
    BY <1>3, EscapeIs
  <2>2. Put(s, plus, percent)[i] = U!Unescape(s, i)
    BY <1>1, <1>2, <1>3, <2>1 DEF Put
  <2> QED
    BY <1>3, <2>1, <2>2
<1>4. CASE ~U!IsEscape(s, i)
  BY <1>1, <1>2, <1>4 DEF Put
<1> QED
  BY <1>3, <1>4

LEMMA AfterIs ==
    ASSUME NEW s \in Seq(Int)
    PROVE  /\ Onward(Len(s), After(s))
           /\ \A i \in 1 .. Len(s) : /\ After(s)[i] <= Len(s) + 1
                                     /\ After(s)[i] = IF U!IsEscape(s, i) THEN i + 3 ELSE i + 1
<1>1. ASSUME NEW i \in 1 .. Len(s)
      PROVE  /\ After(s)[i] \in Nat /\ After(s)[i] > i /\ After(s)[i] <= Len(s) + 1
             /\ After(s)[i] = IF U!IsEscape(s, i) THEN i + 3 ELSE i + 1
  <2>1. i \in Nat /\ Len(s) \in Nat /\ i <= Len(s) /\ i \in DOMAIN s
    OBVIOUS
  <2>2. After(s)[i] = IF U!IsEscape(s, i) THEN i + 3 ELSE i + 1
    BY <2>1 DEF After
  <2>3. U!IsEscape(s, i) => i + 2 <= Len(s)
    BY EscapeIs
  <2> QED
    BY <2>1, <2>2, <2>3
<1> QED
  BY <1>1 DEF Onward

(* The decoding is a walk, and yields a string.                            *)
LEMMA ScanIs ==
    ASSUME NEW s \in Seq(Int), NEW plus \in Int, NEW percent \in Int
    PROVE  /\ IsWalk(Scan(s, plus, percent), Len(s), Put(s, plus, percent), After(s))
           /\ \A i \in Positions : Scan(s, plus, percent)[i] \in Seq(Int)
<1>1. Len(s) \in Nat /\ Onward(Len(s), After(s))
  BY AfterIs
<1>2. IsWalk(Scan(s, plus, percent), Len(s), Put(s, plus, percent), After(s))
  BY <1>1, WalkExists DEF Scan
<1>3. \A i \in 1 .. Len(s) : Put(s, plus, percent)[i] \in Int
  BY PutIs
<1> QED
  BY <1>1, <1>2, <1>3, WalkType

(* A pass, or a decoding, is no longer than what it was made of; where every *)
(* % began an escape, it is shorter.                                         *)
LEMMA Shrinks ==
    ASSUME NEW s \in Seq(Int), NEW plus \in Int, NEW percent \in Int
    PROVE  LET d == U!Decoded(s, plus, percent)
           IN  /\ d \in Seq(Int) /\ Len(d) <= Len(s)
               /\ (\A j \in 1 .. Len(s) : s[j] = U!PERCENT => U!IsEscape(s, j))
                  /\ (\E j \in 1 .. Len(s) : s[j] = U!PERCENT)
                  => Len(d) <= Len(s) - 2
<1> DEFINE F == Scan(s, plus, percent)
           n == Len(s)
           full == \A j \in 1 .. n : s[j] = U!PERCENT => U!IsEscape(s, j)
           good(i) == /\ Len(F[i]) <= n + 1 - i
                      /\ full /\ (\E j \in i .. n : s[j] = U!PERCENT) => Len(F[i]) <= n - 1 - i
           S == {i \in Positions : i <= n + 1 => good(i)}
<1>n. n \in Nat
  OBVIOUS
<1>w. /\ IsWalk(F, n, Put(s, plus, percent), After(s))
      /\ \A i \in Positions : F[i] \in Seq(Int)
  BY ScanIs
<1>1. ASSUME NEW i \in Nat \ {0}, i > n PROVE i \in S
  <2> HIDE DEF F, n
  <2>1. i \in Positions /\ F[i] = <<>> /\ Len(F[i]) = 0
    <3>1. i \in Positions
      BY DEF Positions
    <3>2. F[i] = <<>>
      BY <1>1, <1>w, <3>1 DEF IsWalk
    <3> QED
      BY <3>1, <3>2
  <2>2. i .. n = {} /\ (i <= n + 1 => i = n + 1)
    BY <1>1, <1>n
  <2> QED
    BY <2>1, <2>2, <1>n
<1>2. ASSUME NEW i \in 1 .. n, \A j \in Nat \ {0} : j > i => j \in S PROVE i \in S
  <2> DEFINE l == After(s)[i]
  <2>1. /\ i \in Positions /\ ~(i > n) /\ l \in Nat \ {0} /\ l \in Positions /\ l > i /\ l <= n + 1
        /\ l = IF U!IsEscape(s, i) THEN i + 3 ELSE i + 1
    BY AfterIs DEF Positions, Onward
  <2>2. good(l)
    BY <1>2, <2>1
  <2>3. F[i] = <<Put(s, plus, percent)[i]>> \o F[l]
    BY <1>w, <2>1 DEF IsWalk
  <2>4. F[l] \in Seq(Int) /\ Put(s, plus, percent)[i] \in Int /\ Len(F[l]) \in Nat
    BY <1>w, <2>1, PutIs
  <2> HIDE DEF F, l
  <2>5. Len(F[i]) = Len(F[l]) + 1 /\ Len(F[l]) <= n + 1 - l
    BY <2>2, <2>3, <2>4, InFront
  <2>6. ASSUME full, NEW j \in i .. n, s[j] = U!PERCENT PROVE Len(F[i]) <= n - 1 - i
    <3>1. CASE U!IsEscape(s, i)
      <4>1. l = i + 3 /\ i \in Int
        BY <2>1, <3>1
      <4> QED
        BY ONLY <1>n, <2>4, <2>5, <4>1
    <3>2. CASE ~U!IsEscape(s, i)
      <4>1. j # i
        BY <2>6, <3>2
      <4>2. l = i + 1 /\ j \in l .. n
        BY <2>1, <3>2, <4>1
      <4>3. Len(F[l]) <= n - 1 - l
        BY <2>2, <2>6, <4>2
      <4> QED
        BY <1>n, <2>4, <2>5, <4>2, <4>3
    <3> QED
      BY <3>1, <3>2
  <2>7. Len(F[i]) <= n + 1 - i
    <3>1. l >= i + 1 /\ i \in Int /\ l \in Int
      BY <2>1
    <3> QED
      BY ONLY <1>n, <2>4, <2>5, <3>1
  <2> HIDE DEF n, full
  <2> QED
    BY <2>1, <2>6, <2>7
<1> HIDE DEF S
<1>3. \A i \in Nat \ {0} : i \in S
  BY <1>1, <1>2, <1>n, Backwards
<1>4. good(1) /\ F[1] \in Seq(Int)
  <2>1. 1 \in S /\ 1 \in Positions
    BY <1>3 DEF Positions
  <2>2. 1 <= n + 1
    BY <1>n
  <2> HIDE DEF good, F
  <2> QED
    BY <1>w, <2>1, <2>2 DEF S
<1>5. Len(F[1]) \in Nat
  BY <1>4
<1> HIDE DEF F
<1>6. U!Decoded(s, plus, percent) = F[1]
  BY DecodedIs DEF F
<1> QED
  BY <1>4, <1>5, <1>6, <1>n

(* What the checks of a pass say of it.                                    *)
LEMMA PassIs ==
    ASSUME NEW s \in Seq(Int), \A k \in 1 .. Len(U!Pass(s)) : U!Allowed(U!Pass(s)[k])
    PROVE  \A j \in 1 .. Len(s) : s[j] = U!PERCENT => U!IsEscape(s, j)
<1> DEFINE F == Scan(s, U!PLUS, -1)
           n == Len(s)
           clean(i) == \A k \in 1 .. Len(F[i]) : F[i][k] # -1
           full(i) == \A j \in i .. n : s[j] = U!PERCENT => U!IsEscape(s, j)
           S == {i \in Positions : clean(i) => full(i)}
<1>n. n \in Nat
  OBVIOUS
<1>p. U!PLUS \in Int /\ -1 \in Int
  BY DEF U!PLUS
<1>w. /\ IsWalk(F, n, Put(s, U!PLUS, -1), After(s))
      /\ \A i \in Positions : F[i] \in Seq(Int)
  BY <1>p, ScanIs
<1>1. ASSUME NEW i \in Nat \ {0}, i > n PROVE i \in S
  <2>1. i .. n = {} /\ i \in Positions
    BY <1>1, <1>n DEF Positions
  <2> HIDE DEF F, n
  <2> QED
    BY <2>1
<1>2. ASSUME NEW i \in 1 .. n, \A j \in Nat \ {0} : j > i => j \in S PROVE i \in S
  <2> DEFINE l == After(s)[i]
             c == Put(s, U!PLUS, -1)[i]
  <2>1. /\ i \in Positions /\ ~(i > n) /\ l \in Nat \ {0} /\ l \in Positions /\ l > i /\ l <= n + 1
        /\ l = IF U!IsEscape(s, i) THEN i + 3 ELSE i + 1
    BY AfterIs DEF Positions, Onward
  <2>2. clean(l) => full(l)
    BY <1>2, <2>1
  <2>3. F[i] = <<c>> \o F[l]
    BY <1>w, <2>1 DEF IsWalk
  <2>4. F[l] \in Seq(Int) /\ c \in Int /\ Len(F[l]) \in Nat
    BY <1>w, <1>p, <2>1, PutIs
  <2>c. ~U!IsEscape(s, i) /\ s[i] = U!PERCENT => c = -1
    <3>1. U!PERCENT # U!PLUS
      BY DEF U!PERCENT, U!PLUS
    <3> QED
      BY <1>p, <3>1, PutIs
  <2> HIDE DEF F, l, c
  <2>5. /\ Len(F[i]) = Len(F[l]) + 1 /\ F[i][1] = c
        /\ \A k \in Nat : k + 1 \in 1 .. Len(F[l]) + 1 /\ k # 0 => F[i][k + 1] = F[l][k]
    BY <2>3, <2>4, InFront
  <2>6. ASSUME clean(i) PROVE clean(l) /\ c # -1
    <3>1. ASSUME NEW k \in 1 .. Len(F[l]) PROVE F[l][k] # -1
      <4>1. k \in Nat /\ k + 1 \in 1 .. Len(F[l]) + 1 /\ k # 0 /\ k + 1 \in 1 .. Len(F[i])
        BY <2>4, <2>5
      <4>2. F[i][k + 1] # -1
        BY <2>6, <4>1
      <4> QED
        BY <2>5, <4>1, <4>2
    <3>2. 1 \in 1 .. Len(F[i])
      BY <2>4, <2>5
    <3> QED
      BY <2>5, <2>6, <3>1, <3>2
  <2>7. ASSUME clean(i), NEW j \in i .. n, s[j] = U!PERCENT PROVE U!IsEscape(s, j)
    <3>1. CASE j = i
      BY <2>6, <2>7, <2>c, <3>1
    <3>2. CASE j # i /\ U!IsEscape(s, i)
      <4>1. j # i + 1 /\ j # i + 2
        <5>1. i \in 1 .. Len(s)
          OBVIOUS
        <5> QED
          BY <2>7, <3>2, <5>1, EscapeIs
      <4>2. j \in l .. n
        BY <2>1, <3>2, <4>1
      <4> QED
        BY <2>2, <2>6, <2>7, <4>2
    <3>3. CASE j # i /\ ~U!IsEscape(s, i)
      <4>1. j \in l .. n
        BY <2>1, <3>3
      <4> QED
        BY <2>2, <2>6, <2>7, <4>1
    <3> QED
      BY <3>1, <3>2, <3>3
  <2>8. clean(i) => full(i)
    BY <2>7
  <2> HIDE DEF clean, full
  <2> QED
    BY <2>1, <2>8
<1> HIDE DEF S
<1>3. \A i \in Nat \ {0} : i \in S
  BY <1>1, <1>2, <1>n, Backwards
<1>4. U!Pass(s) = F[1]
  BY DecodedIs DEF U!Pass
<1> HIDE DEF F
<1>5. clean(1)
  BY <1>4 DEF U!Allowed
<1>6. clean(1) => full(1)
  BY <1>3 DEF S
<1> QED
  BY <1>5, <1>6

(* A pass does not change a character at the front that begins no escape.  *)
LEMMA FrontStays ==
    ASSUME NEW s \in Seq(Int), s # <<>>, NEW plus \in Int, NEW percent \in Int
    PROVE  LET d == U!Decoded(s, plus, percent)
           IN  /\ d # <<>> /\ 1 \in 1 .. Len(s) /\ 1 \in 1 .. Len(d)
               /\ d[1] = Put(s, plus, percent)[1]
<1> DEFINE F == Scan(s, plus, percent)
           l == After(s)[1]
           c == Put(s, plus, percent)[1]
<1>1. 1 \in 1 .. Len(s) /\ ~(1 > Len(s)) /\ 1 \in Positions
  BY EmptySeq DEF Positions
<1>2. l \in Positions
  BY <1>1, AfterIs DEF Onward, Positions
<1>3. F[1] = <<c>> \o F[l]
  BY <1>1, ScanIs DEF IsWalk
<1>4. F[l] \in Seq(Int) /\ c \in Int /\ Len(F[l]) \in Nat
  BY <1>1, <1>2, ScanIs, PutIs
<1>5. U!Decoded(s, plus, percent) = F[1]
  BY DecodedIs
<1> HIDE DEF F, l, c
<1>6. Len(F[1]) = Len(F[l]) + 1 /\ F[1][1] = c /\ F[1] \in Seq(Int)
  BY <1>3, <1>4, InFront
<1>7. 1 \in 1 .. Len(F[1]) /\ F[1] # <<>>
  BY <1>4, <1>6
<1> QED
  BY <1>1, <1>5, <1>6, <1>7 DEF c

-----------------------------------------------------------------------------
(* A plus sign is a blank to request_handle and none to the check.         *)
Same(a, b) == a = b \/ (a = U!SPACE /\ b = U!PLUS)

Alike(s, t) ==
    /\ s \in Seq(Int) /\ t \in Seq(Int) /\ Len(s) = Len(t)
    /\ \A k \in 1 .. Len(s) : Same(s[k], t[k])

(* Characters that are the same are so to every test; strings that are     *)
(* alike have the same escapes, and the same '..'.                         *)
LEMMA SameHex ==
    ASSUME NEW a, NEW b, Same(a, b)
    PROVE  /\ U!Hex(a) = U!Hex(b)
           /\ U!Hex(a) >= 0 => a = b
           /\ \A c \in {U!PERCENT, U!DOT, U!SLASH} : a = c <=> b = c
<1>1. U!Hex(U!SPACE) = -1 /\ U!Hex(U!PLUS) = -1
  BY HexIs DEF U!SPACE, U!PLUS
<1>2. \A c \in {U!PERCENT, U!DOT, U!SLASH} : c # U!SPACE /\ c # U!PLUS
  BY DEF U!SPACE, U!PLUS, U!PERCENT, U!DOT, U!SLASH
<1>3. CASE a = b
  BY <1>3
<1>4. CASE a = U!SPACE /\ b = U!PLUS
  BY <1>1, <1>2, <1>4
<1> QED
  BY <1>3, <1>4 DEF Same

LEMMA AlikeEscapes ==
    ASSUME NEW s, NEW t, Alike(s, t), NEW i \in 1 .. Len(s)
    PROVE  /\ U!IsEscape(s, i) <=> U!IsEscape(t, i)
           /\ U!IsEscape(s, i) => U!Unescape(s, i) = U!Unescape(t, i)
<1>1. i \in Nat /\ Len(s) \in Nat /\ Len(t) = Len(s)
  BY DEF Alike
<1>2. CASE i + 2 <= Len(s)
  <2>1. i + 1 \in 1 .. Len(s) /\ i + 2 \in 1 .. Len(s)
    BY <1>1, <1>2
  <2>2. Same(s[i], t[i]) /\ Same(s[i + 1], t[i + 1]) /\ Same(s[i + 2], t[i + 2])
    BY <2>1 DEF Alike
  <2>3. /\ s[i] = U!PERCENT <=> t[i] = U!PERCENT
        /\ U!Hex(s[i + 1]) = U!Hex(t[i + 1]) /\ U!Hex(s[i + 2]) = U!Hex(t[i + 2])
    BY <2>2, SameHex
  <2> QED
    BY <1>1, <2>3 DEF U!IsEscape, U!Unescape
<1>3. CASE ~(i + 2 <= Len(s))
  BY <1>1, <1>3 DEF U!IsEscape
<1> QED
  BY <1>2, <1>3

LEMMA AlikeDots ==
    ASSUME NEW s, NEW t, Alike(s, t), U!HasDotDot(s)
    PROVE  U!HasDotDot(t)
<1>1. PICK i \in 1 .. Len(s) - 1 :
        /\ s[i] = U!DOT /\ s[i + 1] = U!DOT
        /\ i = 1 \/ s[i - 1] = U!SLASH
        /\ i + 1 = Len(s) \/ s[i + 2] = U!SLASH
  BY DEF U!HasDotDot
<1>2. Len(s) \in Nat /\ Len(t) = Len(s)
  BY DEF Alike
<1>3. \A k \in 1 .. Len(s) : (s[k] = U!DOT => t[k] = U!DOT) /\ (s[k] = U!SLASH => t[k] = U!SLASH)
  BY SameHex DEF Alike
<1>4. /\ i \in 1 .. Len(s) /\ i + 1 \in 1 .. Len(s)
      /\ i # 1 => i - 1 \in 1 .. Len(s)
      /\ i + 1 # Len(s) => i + 2 \in 1 .. Len(s)
  BY <1>2
<1>5. /\ t[i] = U!DOT /\ t[i + 1] = U!DOT
      /\ i = 1 \/ t[i - 1] = U!SLASH
      /\ i + 1 = Len(t) \/ t[i + 2] = U!SLASH
  BY <1>1, <1>2, <1>3, <1>4
<1> QED
  BY <1>2, <1>5 DEF U!HasDotDot

(* The check's pass and request_handle's decoding of strings that are alike: *)
(* they take out the same escapes.                                           *)
LEMMA DecodedAlike ==
    ASSUME NEW s, NEW t, Alike(s, t),
           \A j \in 1 .. Len(t) : t[j] = U!PERCENT => U!IsEscape(t, j)
    PROVE  Alike(U!Decoded(s, U!SPACE, U!PERCENT), U!Pass(t))
<1> DEFINE n == Len(s)
           p == Put(s, U!SPACE, U!PERCENT)
           q == Put(t, U!PLUS, -1)
           F == Scan(s, U!SPACE, U!PERCENT)
           G == Scan(t, U!PLUS, -1)
<1>c. U!SPACE \in Int /\ U!PLUS \in Int /\ U!PERCENT \in Int /\ -1 \in Int
  BY DEF U!SPACE, U!PLUS, U!PERCENT
<1>1. s \in Seq(Int) /\ t \in Seq(Int) /\ Len(t) = n /\ n \in Nat
  BY DEF Alike
<1>2. After(s) = After(t)
  <2>1. DOMAIN s = DOMAIN t /\ DOMAIN s = 1 .. Len(s)
    BY <1>1
  <2>2. \A i \in 1 .. Len(s) : U!IsEscape(s, i) <=> U!IsEscape(t, i)
    BY AlikeEscapes
  <2> QED
    BY <2>1, <2>2 DEF After
<1>3. /\ Onward(n, After(s))
      /\ IsWalk(F, n, p, After(s)) /\ \A i \in 1 .. n : p[i] \in Int
      /\ IsWalk(G, n, q, After(s)) /\ \A i \in 1 .. n : q[i] \in Int
  BY <1>c, <1>1, <1>2, AfterIs, ScanIs, PutIs
<1>4. ASSUME NEW i \in 1 .. n PROVE Same(p[i], q[i])
  <2>1. Same(s[i], t[i])
    BY DEF Alike
  <2>2. CASE U!IsEscape(s, i)
    <3>1. U!IsEscape(t, i) /\ U!Unescape(s, i) = U!Unescape(t, i)
      BY <2>2, AlikeEscapes
    <3>2. p[i] = q[i]
      BY <1>c, <1>1, <2>2, <3>1, PutIs
    <3> QED
      BY <3>2 DEF Same
  <2>3. CASE ~U!IsEscape(s, i)
    <3>1. ~U!IsEscape(t, i)
      BY <2>3, AlikeEscapes
    <3>2. t[i] # U!PERCENT
      BY <1>1, <3>1
    <3>3. p[i] = IF s[i] = U!PLUS THEN U!SPACE ELSE IF s[i] = U!PERCENT THEN U!PERCENT ELSE s[i]
      BY <1>c, <1>1, <2>3, PutIs
    <3>4. q[i] = IF t[i] = U!PLUS THEN U!PLUS ELSE IF t[i] = U!PERCENT THEN -1 ELSE t[i]
      BY <1>c, <1>1, <3>1, PutIs
    <3>5. U!SPACE # U!PLUS
      BY DEF U!SPACE, U!PLUS
    <3> HIDE DEF p, q
    <3> QED
      BY <2>1, <3>2, <3>3, <3>4, <3>5 DEF Same
  <2> QED
    BY <2>2, <2>3
<1>5. 1 \in Positions
  BY DEF Positions
<1> DEFINE next == After(s)
<1>n. n \in Nat /\ Onward(n, next) /\ IsWalk(F, n, p, next) /\ IsWalk(G, n, q, next)
  BY <1>1, <1>3
<1>i. \A i \in 1 .. n : p[i] \in Int /\ q[i] \in Int
  BY <1>3
<1> HIDE DEF p, q, F, G, n, next
<1>6. /\ F[1] \in Seq(Int) /\ G[1] \in Seq(Int) /\ Len(F[1]) = Len(G[1])
      /\ \A k \in 1 .. Len(F[1]) : \E j \in 1 .. n : F[1][k] = p[j] /\ G[1][k] = q[j]
  BY <1>n, <1>i, <1>5, WalkTogether
<1>7. Alike(F[1], G[1])
  BY <1>4, <1>6 DEF Alike
<1>8. U!Decoded(s, U!SPACE, U!PERCENT) = F[1] /\ U!Pass(t) = G[1]
  BY DecodedIs DEF U!Pass, F, G
<1> QED
  BY <1>7, <1>8

(* A function defined by going from one number to the next.                *)
Goes(f, N, X, first, step) ==
    f \in [0 .. N -> X] /\ f[0] = first /\ \A k \in 1 .. N : f[k] = step[k][f[k - 1]]

(* There is one.                                                           *)
LEMMA Upwards ==
    ASSUME NEW N \in Nat, NEW X, NEW first \in X, NEW step \in [1 .. N -> [X -> X]]
    PROVE  \E f : Goes(f, N, X, first, step)
<1> DEFINE is(f, k) == f[k] = IF k = 0 THEN first ELSE step[k][f[k - 1]]
           up(m) == \E f \in [0 .. N -> X] : \A k \in 0 .. N : k <= m => is(f, k)
           W == {m \in Nat : up(m)}
<1>1. 0 \in W
  <2> DEFINE f == [k \in 0 .. N |-> first]
  <2>1. f \in [0 .. N -> X] /\ \A k \in 0 .. N : k <= 0 => is(f, k)
    OBVIOUS
  <2> HIDE DEF f
  <2> QED
    BY <2>1
<1>2. ASSUME NEW m \in Nat, m \in W PROVE m + 1 \in W
  <2>1. PICK f \in [0 .. N -> X] : \A k \in 0 .. N : k <= m => is(f, k)
    BY <1>2
  <2> DEFINE g == [k \in 0 .. N |-> IF k = m + 1 THEN step[k][f[k - 1]] ELSE f[k]]
  <2>2. g \in [0 .. N -> X]
    <3> SUFFICES ASSUME NEW k \in 0 .. N, k = m + 1 PROVE step[k][f[k - 1]] \in X
      OBVIOUS
    <3>1. k \in 1 .. N /\ k - 1 \in 0 .. N
      OBVIOUS
    <3>2. f[k - 1] \in X /\ step[k] \in [X -> X]
      BY <3>1
    <3> QED
      BY <3>2
  <2>3. ASSUME NEW k \in 0 .. N, k <= m + 1 PROVE is(g, k)
    <3>1. CASE k = m + 1
      <4>1. k # 0 /\ k - 1 \in 0 .. N /\ k - 1 # m + 1
        BY <3>1
      <4>2. g[k] = step[k][f[k - 1]] /\ g[k - 1] = f[k - 1]
        BY <3>1, <4>1
      <4> HIDE DEF g
      <4> QED
        BY <4>1, <4>2
    <3>2. CASE k # m + 1
      <4>1. k <= m /\ (k # 0 => k - 1 \in 0 .. N /\ k - 1 # m + 1)
        BY <2>3, <3>2
      <4>2. is(f, k)
        BY <2>1, <4>1
      <4>3. g[k] = f[k] /\ (k # 0 => g[k - 1] = f[k - 1])
        BY <3>2, <4>1
      <4> HIDE DEF g
      <4> QED
        BY <4>2, <4>3
    <3> QED
      BY <3>1, <3>2
  <2> HIDE DEF g, is
  <2>4. m + 1 \in Nat /\ up(m + 1)
    BY <2>2, <2>3
  <2> QED
    BY <2>4
<1> HIDE DEF W
<1>3. Nat \subseteq W
  BY <1>1, <1>2, Induction
<1>4. up(N)
  BY <1>3 DEF W
<1>5. PICK f \in [0 .. N -> X] : \A k \in 0 .. N : k <= N => is(f, k)
  BY <1>4
<1>6. \A k \in 0 .. N : is(f, k)
  <2> HIDE DEF is
  <2> QED
    BY <1>5
<1>7. f[0] = first /\ \A k \in 1 .. N : f[k] = step[k][f[k - 1]]
  <2>1. 0 \in 0 .. N /\ \A k \in 1 .. N : k \in 0 .. N /\ k # 0
    OBVIOUS
  <2> QED
    BY <1>6, <2>1
<1> QED
  BY <1>7 DEF Goes

(* The passes of request_path_is_safe, one after another.                  *)
LEMMA PassesAre ==
    ASSUME NEW asked \in Seq(Int)
    PROVE  \E pass : /\ pass[0] = asked
                     /\ \A k \in 1 .. Len(asked) : pass[k] = U!Pass(pass[k - 1])
                     /\ U!Passes(asked) = {pass[k] : k \in 1 .. Len(asked)}
<1> DEFINE N == Len(asked)
           rule(h) == [k \in 0 .. N |-> IF k = 0 THEN asked ELSE U!Pass(h[k - 1])]
           pass == CHOOSE h : h = rule(h)
           step == [k \in 1 .. N |-> [s \in Seq(Int) |-> U!Pass(s)]]
<1>n. N \in Nat
  OBVIOUS
<1>1. step \in [1 .. N -> [Seq(Int) -> Seq(Int)]]
  <2>1. \A s \in Seq(Int) : U!Pass(s) \in Seq(Int)
    BY Shrinks DEF U!Pass, U!PLUS
  <2> QED
    BY <2>1
<1>2. \E f : Goes(f, N, Seq(Int), asked, step)
  <2> HIDE DEF N, step
  <2> QED
    BY <1>n, <1>1, Upwards
<1>3. PICK f \in [0 .. N -> Seq(Int)] : f[0] = asked /\ \A k \in 1 .. N : f[k] = step[k][f[k - 1]]
  BY <1>2 DEF Goes
<1>4. f = rule(f)
  <2>1. ASSUME NEW k \in 0 .. N, k # 0 PROVE f[k] = U!Pass(f[k - 1])
    <3>1. k \in 1 .. N /\ k - 1 \in 0 .. N
      BY <1>n, <2>1
    <3>2. f[k - 1] \in Seq(Int) /\ f[k] = step[k][f[k - 1]]
      BY <1>3, <3>1
    <3> QED
      BY <3>1, <3>2
  <2> HIDE DEF step, N
  <2> QED
    BY <1>3, <2>1
<1>5. pass = rule(pass)
  <2> HIDE DEF rule
  <2> QED
    BY <1>4
<1>6. U!Passes(asked) = {pass[k] : k \in 1 .. N}
  BY DEF U!Passes
<1> HIDE DEF pass
<1>7. pass[0] = asked
  BY <1>5, <1>n
<1>8. ASSUME NEW k \in 1 .. N PROVE pass[k] = U!Pass(pass[k - 1])
  <2>1. k \in 0 .. N /\ k # 0
    BY <1>n
  <2> QED
    BY <1>5, <2>1
<1> QED
  BY <1>6, <1>7, <1>8
-----------------------------------------------------------------------------
(* What comes before the first '?'.                                        *)
LEMMA CutIs ==
    ASSUME NEW s \in Seq(Int)
    PROVE  /\ U!Cut(s) \in Seq(Int) /\ Len(U!Cut(s)) <= Len(s)
           /\ \A i \in 1 .. Len(U!Cut(s)) : U!Cut(s)[i] = s[i] /\ s[i] # U!QUERY
           /\ Len(U!Cut(s)) < Len(s) => s[Len(U!Cut(s)) + 1] = U!QUERY
<1> DEFINE K == {i \in 1 .. Len(s) + 1 : i \in DOMAIN s => s[i] = U!QUERY}
           k == U!First(K)
<1>1. Len(s) \in Nat /\ DOMAIN s = 1 .. Len(s)
  OBVIOUS
<1>2. Len(s) + 1 \in K /\ K \subseteq Nat
  BY <1>1
<1>3. k \in K /\ \A l \in K : k <= l
  <2> HIDE DEF K
  <2> QED
    BY <1>2, Smallest DEF U!First
<1>4. k \in Nat /\ 1 <= k /\ k <= Len(s) + 1
  BY <1>1, <1>3
<1>5. U!Cut(s) = SubSeq(s, 1, k - 1)
  BY DEF U!Cut
<1>6. ASSUME NEW i \in 1 .. k - 1 PROVE i \in DOMAIN s /\ s[i] # U!QUERY
  <2>1. i \in DOMAIN s /\ i \in 1 .. Len(s) + 1 /\ ~(k <= i)
    BY <1>1, <1>4
  <2>2. i \notin K
    BY <1>3, <2>1
  <2> QED
    BY <2>1, <2>2
<1>7. k < Len(s) + 1 => s[k] = U!QUERY
  BY <1>1, <1>3, <1>4
<1> HIDE DEF k, K
<1>8. /\ U!Cut(s) \in Seq(Int) /\ Len(U!Cut(s)) = k - 1
      /\ \A i \in 1 .. k - 1 : U!Cut(s)[i] = s[i]
  <2>1. 1 \in 1 .. Len(s) + 1 /\ k - 1 \in 0 .. Len(s)
    BY <1>1, <1>4
  <2> QED
    BY <1>4, <1>5, <2>1, SubSeqProperties
<1> QED
  BY <1>1, <1>4, <1>6, <1>7, <1>8

(* Where the string is cut when what comes before has no '?'.              *)
LEMMA CutAt ==
    ASSUME NEW a \in Seq(Int), NEW r \in Seq(Int), \A i \in 1 .. Len(a) : a[i] # U!QUERY,
           r # <<>> => r[1] = U!QUERY
    PROVE  U!Cut(a \o r) = a
<1> DEFINE s == a \o r
           c == U!Cut(s)
<1>1. /\ s \in Seq(Int) /\ Len(s) = Len(a) + Len(r) /\ Len(a) \in Nat /\ Len(r) \in Nat
      /\ \A i \in 1 .. Len(a) + Len(r) : s[i] = IF i <= Len(a) THEN a[i] ELSE r[i - Len(a)]
  BY ConcatProperties
<1> HIDE DEF s
<1>2. /\ c \in Seq(Int) /\ Len(c) <= Len(s) /\ Len(c) \in Nat
      /\ \A i \in 1 .. Len(c) : c[i] = s[i] /\ s[i] # U!QUERY
      /\ Len(c) < Len(s) => s[Len(c) + 1] = U!QUERY
  <2>1. s \in Seq(Int)
    BY <1>1
  <2>2. /\ c \in Seq(Int) /\ Len(c) <= Len(s)
        /\ \A i \in 1 .. Len(c) : c[i] = s[i] /\ s[i] # U!QUERY
        /\ Len(c) < Len(s) => s[Len(c) + 1] = U!QUERY
    BY ONLY <2>1, CutIs
  <2> HIDE DEF c
  <2> QED
    BY <2>2
<1> HIDE DEF c
<1>3. ~(Len(c) < Len(a))
  <2> SUFFICES ASSUME Len(c) < Len(a) PROVE FALSE
    OBVIOUS
  <2>1. Len(c) + 1 \in 1 .. Len(a) /\ Len(c) + 1 \in 1 .. Len(a) + Len(r) /\ Len(c) + 1 <= Len(a)
    BY <1>1, <1>2
  <2>2. Len(c) < Len(s)
    BY <1>1, <1>2
  <2> QED
    BY <1>1, <1>2, <2>1, <2>2
<1>4. ~(Len(c) > Len(a))
  <2> SUFFICES ASSUME Len(c) > Len(a) PROVE FALSE
    OBVIOUS
  <2>1. /\ Len(a) + 1 \in 1 .. Len(c) /\ Len(a) + 1 \in 1 .. Len(a) + Len(r)
        /\ ~(Len(a) + 1 <= Len(a)) /\ (Len(a) + 1) - Len(a) = 1 /\ Len(r) # 0
    <3> DEFINE k == Len(a)
               l == Len(r)
               m == Len(c)
    <3>1. k \in Nat /\ l \in Nat /\ m \in Nat /\ m <= k + l /\ m > k
      BY <1>1, <1>2
    <3> HIDE DEF k, l, m
    <3>2. /\ k + 1 \in 1 .. m /\ k + 1 \in 1 .. k + l
          /\ ~(k + 1 <= k) /\ (k + 1) - k = 1 /\ l # 0
      BY ONLY <3>1
    <3> QED
      BY <3>2 DEF k, l, m
  <2>2. s[Len(a) + 1] = r[1] /\ r # <<>>
    BY <1>1, <2>1
  <2> QED
    BY <1>2, <2>1, <2>2
<1>5. Len(c) = Len(a)
  BY <1>1, <1>2, <1>3, <1>4
<1>6. \A i \in 1 .. Len(a) : c[i] = a[i]
  BY <1>1, <1>2, <1>5
<1>7. c = a
  BY <1>2, <1>5, <1>6, SeqEqual
<1> QED
  BY <1>7 DEF c, s

(* Nothing is cut off where there is place for what is decoded.            *)
LEMMA UrlDecodeIs ==
    ASSUME NEW s \in Seq(Int), NEW out_len \in Nat, Len(s) < out_len
    PROVE  U!UrlDecode(s, out_len) = U!Decoded(s, U!SPACE, U!PERCENT)
<1> DEFINE d == U!Decoded(s, U!SPACE, U!PERCENT)
<1>1. d \in Seq(Int) /\ Len(d) <= Len(s)
  BY Shrinks DEF U!SPACE, U!PERCENT
<1> HIDE DEF d
<1>2. Len(d) < out_len
  BY <1>1
<1>3. SubSeq(d, 1, Len(d)) = d
  BY <1>1, SubSeqFull
<1> QED
  BY <1>2, <1>3 DEF U!UrlDecode, d

(* What request_handle decodes is the path, and what comes behind the '?'. *)
LEMMA UriIs ==
    ASSUME NEW target \in Seq(Int), Len(target) < BufSize,
           U!QUERY \notin U!ToSet(U!UrlDecode(U!Cut(target), BufSize))
    PROVE  U!DocumentUri(target) = U!Decoded(U!Cut(target), U!SPACE, U!PERCENT)
<1> DEFINE asked == U!Cut(target)
           n == Len(target)
           m == Len(asked)
           p == Put(target, U!SPACE, U!PERCENT)
           q == Put(asked, U!SPACE, U!PERCENT)
           F == Scan(target, U!SPACE, U!PERCENT)
           G == Scan(asked, U!SPACE, U!PERCENT)
<1>c. U!SPACE \in Int /\ U!PERCENT \in Int /\ U!QUERY \notin {U!PLUS, U!PERCENT} /\ BufSize \in Nat
  BY StaticAssumption DEF U!SPACE, U!PERCENT, U!QUERY, U!PLUS
<1>1. /\ asked \in Seq(Int) /\ m <= n /\ n \in Nat /\ m \in Nat
      /\ \A i \in 1 .. m : asked[i] = target[i] /\ target[i] # U!QUERY
      /\ m < n => target[m + 1] = U!QUERY
  BY CutIs
<1> HIDE DEF asked
<1>2. ASSUME NEW i \in 1 .. m PROVE U!IsEscape(target, i) <=> U!IsEscape(asked, i)
  <2>1. i \in 1 .. n /\ i \in Nat
    BY <1>1
  <2>2. CASE i + 2 <= m
    <3>1. i + 1 \in 1 .. m /\ i + 2 \in 1 .. m /\ i + 2 <= n
      BY <1>1, <2>1, <2>2
    <3> QED
      BY <1>1, <2>2, <3>1 DEF U!IsEscape
  <2>3. CASE ~(i + 2 <= m)
    <3>1. ~U!IsEscape(asked, i)
      BY <2>3 DEF U!IsEscape
    <3>2. ~U!IsEscape(target, i)
      <4> SUFFICES ASSUME U!IsEscape(target, i) PROVE FALSE
        OBVIOUS
      <4>1. i + 2 <= n
        BY <2>1, EscapeIs
      <4>2. m < n /\ m + 1 \in {i + 1, i + 2}
        BY <1>1, <2>1, <2>3, <4>1
      <4>3. target[m + 1] # U!QUERY
        BY <2>1, <4>2, EscapeIs
      <4> QED
        BY <1>1, <4>2, <4>3
    <3> QED
      BY <3>1, <3>2
  <2> QED
    BY <2>2, <2>3
<1>3. ASSUME NEW i \in 1 .. m
      PROVE  p[i] = q[i] /\ After(target)[i] = After(asked)[i] /\ After(target)[i] <= m + 1
  <2>1. i \in 1 .. n /\ asked[i] = target[i] /\ (U!IsEscape(target, i) <=> U!IsEscape(asked, i))
    BY <1>1, <1>2
  <2>2. After(target)[i] = After(asked)[i] /\ After(target)[i] <= m + 1
    BY <1>1, <2>1, AfterIs
  <2>3. U!IsEscape(target, i) => U!Unescape(target, i) = U!Unescape(asked, i)
    <3> SUFFICES ASSUME U!IsEscape(target, i) PROVE U!Unescape(target, i) = U!Unescape(asked, i)
      OBVIOUS
    <3>1. i + 2 <= m
      BY <1>1, <2>1, EscapeIs
    <3>2. i + 1 \in 1 .. m /\ i + 2 \in 1 .. m
      BY <1>1, <3>1
    <3> QED
      BY <1>1, <3>2 DEF U!Unescape
  <2>4. p[i] = q[i]
    <3>1. CASE U!IsEscape(target, i)
      <4>1. p[i] = U!Unescape(target, i)
        BY <1>c, <2>1, <3>1, PutIs
      <4>2. q[i] = U!Unescape(asked, i)
        BY <1>c, <1>1, <2>1, <3>1, PutIs
      <4> QED
        BY <2>3, <3>1, <4>1, <4>2
    <3>2. CASE ~U!IsEscape(target, i)
      <4> DEFINE c(x) == IF x = U!PLUS THEN U!SPACE ELSE IF x = U!PERCENT THEN U!PERCENT ELSE x
      <4>1. p[i] = c(target[i])
        BY <1>c, <2>1, <3>2, PutIs
      <4>2. q[i] = c(asked[i])
        BY <1>c, <1>1, <2>1, <3>2, PutIs
      <4> HIDE DEF c, p, q
      <4> QED
        BY <2>1, <4>1, <4>2
    <3> QED
      BY <3>1, <3>2
  <2> QED
    BY <2>2, <2>4
<1>4. /\ Onward(n, After(target)) /\ IsWalk(F, n, p, After(target))
      /\ \A i \in 1 .. n : p[i] \in Int
      /\ IsWalk(G, m, q, After(asked))
      /\ \A i \in Positions : F[i] \in Seq(Int) /\ G[i] \in Seq(Int)
  BY <1>c, <1>1, AfterIs, ScanIs, PutIs
<1>5. 1 \in 1 .. m + 1 /\ m \in 0 .. n /\ m + 1 \in Positions /\ 1 \in Positions
  BY <1>1 DEF Positions
<1>6. m < n => p[m + 1] = U!QUERY /\ After(target)[m + 1] \in Positions
  <2> SUFFICES ASSUME m < n PROVE p[m + 1] = U!QUERY /\ After(target)[m + 1] \in Positions
    OBVIOUS
  <2>1. m + 1 \in 1 .. n /\ target[m + 1] = U!QUERY
    BY <1>1
  <2>2. ~U!IsEscape(target, m + 1)
    BY <1>c, <2>1 DEF U!IsEscape
  <2>3. p[m + 1] = U!QUERY
    BY <1>c, <2>1, <2>2, PutIs
  <2> QED
    BY <1>4, <2>1, <2>3 DEF Onward, Positions
<1> DEFINE next1 == After(target)
           next2 == After(asked)
<1>7. F[1] = G[1] \o F[m + 1]
  <2>1. IsWalk(G, m, p, next1)
    <3> SUFFICES ASSUME NEW i \in Positions
                 PROVE  G[i] = IF i > m THEN <<>> ELSE <<p[i]>> \o G[next1[i]]
      BY DEF IsWalk
    <3>1. G[i] = IF i > m THEN <<>> ELSE <<q[i]>> \o G[next2[i]]
      BY <1>4 DEF IsWalk
    <3>2. ~(i > m) => p[i] = q[i] /\ next1[i] = next2[i]
      BY <1>1, <1>3 DEF Positions
    <3> HIDE DEF n, m, p, q, F, G, next1, next2
    <3> QED
      BY <3>1, <3>2
  <2>2. /\ n \in Nat /\ m \in 0 .. n /\ Onward(n, next1) /\ IsWalk(F, n, p, next1)
        /\ \A i \in 1 .. n : p[i] \in Int
        /\ \A i \in 1 .. m : next1[i] <= m + 1
    BY <1>1, <1>3, <1>4, <1>5
  <2>3. GoesOver(F, n, G, m, p, next1)
    BY <2>1, <2>2 DEF GoesOver
  <2> HIDE DEF n, m, p, F, G, next1
  <2> QED
    BY ONLY <2>3, WalkOver
<1>8. F[m + 1] # <<>> => F[m + 1][1] = U!QUERY
  <2>1. m = n => F[m + 1] = <<>>
    <3>1. m = n => m + 1 > n
      BY <1>1
    <3> QED
      BY <1>4, <1>5, <3>1 DEF IsWalk
  <2>2. ASSUME m < n PROVE F[m + 1][1] = U!QUERY
    <3> DEFINE f == F[next1[m + 1]]
               c == p[m + 1]
    <3>1. ~(m + 1 > n) /\ m + 1 \in 1 .. n
      BY <1>1, <2>2
    <3>2. F[m + 1] = <<c>> \o f
      BY <1>4, <1>5, <3>1 DEF IsWalk
    <3>3. f \in Seq(Int) /\ c \in Int /\ c = U!QUERY
      BY <1>4, <1>6, <2>2, <3>1
    <3> HIDE DEF f, c, F
    <3>4. F[m + 1][1] = c
      BY <3>2, <3>3, InFront
    <3> QED
      BY <3>3, <3>4
  <2> QED
    BY <1>1, <2>1, <2>2
<1>9. U!Decoded(target, U!SPACE, U!PERCENT) = F[1] /\ U!Decoded(asked, U!SPACE, U!PERCENT) = G[1]
  BY DecodedIs
<1>10. Len(asked) < BufSize
  BY <1>c, <1>1
<1> HIDE DEF F, G
<1>11. U!UrlDecode(target, BufSize) = F[1] /\ U!UrlDecode(asked, BufSize) = G[1]
  BY <1>c, <1>1, <1>9, <1>10, UrlDecodeIs
<1>12. \A i \in 1 .. Len(G[1]) : G[1][i] # U!QUERY
  BY <1>4, <1>5, <1>11 DEF U!ToSet, asked
<1>13. U!Cut(G[1] \o F[m + 1]) = G[1]
  BY <1>4, <1>5, <1>8, <1>12, CutAt
<1> QED
  BY <1>7, <1>9, <1>11, <1>13 DEF U!DocumentUri, asked

(* The passes over a path that is safe.                                    *)
SafePasses(asked, pass) ==
    /\ asked \in Seq(Int) /\ asked # <<>>
    /\ pass[0] = asked
    /\ \A k \in 1 .. Len(asked) :
         /\ pass[k] = U!Pass(pass[k - 1])
         /\ \A i \in 1 .. Len(pass[k]) : U!Allowed(pass[k][i])
         /\ ~U!HasDotDot(pass[k])
         /\ U!PERCENT \notin U!ToSet(pass[k]) => pass[k][1] = U!SLASH

(* A path that is found safe has such passes.                              *)
LEMMA SafePassesExist ==
    ASSUME NEW target \in Seq(Int), U!PathIsSafe(target)
    PROVE  /\ \E pass : SafePasses(U!Cut(target), pass)
           /\ Len(U!Cut(target)) < BufSize
<1> DEFINE asked == U!Cut(target)
<1>1. asked \in Seq(Int)
  BY CutIs
<1>2. /\ asked # <<>> /\ Len(asked) < BufSize
      /\ \A s \in U!Passes(asked) :
            /\ \A i \in 1 .. Len(s) : U!Allowed(s[i])
            /\ ~U!HasDotDot(s)
            /\ U!PERCENT \notin U!ToSet(s) => s[1] = U!SLASH
  BY DEF U!PathIsSafe
<1> HIDE DEF asked
<1>3. PICK pass : /\ pass[0] = asked
                  /\ \A k \in 1 .. Len(asked) : pass[k] = U!Pass(pass[k - 1])
                  /\ U!Passes(asked) = {pass[k] : k \in 1 .. Len(asked)}
  BY <1>1, PassesAre
<1>4. \A k \in 1 .. Len(asked) : pass[k] \in U!Passes(asked)
  BY <1>3
<1>5. SafePasses(asked, pass)
  BY <1>1, <1>2, <1>3, <1>4 DEF SafePasses
<1> QED
  BY <1>2, <1>5 DEF asked

(* In a path that is safe, every % begins an escape, pass after pass: so each *)
(* pass that finds one shortens the path by two characters.                   *)
LEMMA SafePass ==
    ASSUME NEW asked, NEW pass, SafePasses(asked, pass)
    PROVE  /\ Len(asked) \in Nat \ {0}
           /\ \A k \in 0 .. Len(asked) :
                pass[k] \in Seq(Int) /\ 1 \in 1 .. Len(pass[k]) /\ Len(pass[k]) <= Len(asked)
           /\ \A k \in 0 .. Len(asked) - 1 :
                /\ \A j \in 1 .. Len(pass[k]) : pass[k][j] = U!PERCENT => U!IsEscape(pass[k], j)
                /\ U!PERCENT \in U!ToSet(pass[k]) => Len(pass[k + 1]) <= Len(pass[k]) - 2
                /\ pass[k][1] # U!PERCENT => pass[k + 1][1] = pass[k][1]
<1> DEFINE N == Len(asked)
           good(k) == pass[k] \in Seq(Int) /\ pass[k] # <<>> /\ Len(pass[k]) <= N
           W == {m \in Nat : m <= N => good(m)}
<1>c. U!PLUS \in Int /\ -1 \in Int
  BY DEF U!PLUS
<1>n. N \in Nat \ {0} /\ asked \in Seq(Int)
  BY EmptySeq DEF SafePasses
<1>0. 0 \in W
  BY <1>n DEF SafePasses
<1>1. ASSUME NEW m \in Nat, m \in W PROVE m + 1 \in W
  <2> SUFFICES ASSUME m + 1 <= N PROVE good(m + 1)
    OBVIOUS
  <2>1. good(m)
    BY <1>n, <1>1
  <2>2. m + 1 \in 1 .. N /\ (m + 1) - 1 = m
    BY <1>n
  <2>3. pass[m + 1] = U!Decoded(pass[m], U!PLUS, -1)
    BY <2>2 DEF SafePasses, U!Pass
  <2>4. pass[m + 1] \in Seq(Int) /\ Len(pass[m + 1]) <= Len(pass[m])
    BY <1>c, <2>1, <2>3, Shrinks
  <2>5. pass[m + 1] # <<>>
    BY <1>c, <2>1, <2>3, FrontStays
  <2>6. Len(pass[m + 1]) \in Nat /\ Len(pass[m]) \in Nat
    BY <2>1, <2>4, LenProperties
  <2> QED
    BY <1>n, <2>1, <2>4, <2>5, <2>6
<1> HIDE DEF W
<1>2. Nat \subseteq W
  BY <1>0, <1>1, Induction
<1>3. ASSUME NEW k \in 0 .. N
      PROVE  pass[k] \in Seq(Int) /\ pass[k] # <<>> /\ 1 \in 1 .. Len(pass[k]) /\ Len(pass[k]) <= N
  <2>1. good(k)
    BY <1>n, <1>2 DEF W
  <2>2. Len(pass[k]) \in Nat \ {0}
    BY <2>1, EmptySeq
  <2> QED
    BY <2>1, <2>2
<1>4. ASSUME NEW k \in 0 .. N - 1
      PROVE  /\ \A j \in 1 .. Len(pass[k]) : pass[k][j] = U!PERCENT => U!IsEscape(pass[k], j)
             /\ U!PERCENT \in U!ToSet(pass[k]) => Len(pass[k + 1]) <= Len(pass[k]) - 2
             /\ pass[k][1] # U!PERCENT => pass[k + 1][1] = pass[k][1]
  <2>1. k + 1 \in 1 .. N /\ (k + 1) - 1 = k /\ k \in 0 .. N
    BY <1>n
  <2>2. pass[k] \in Seq(Int) /\ pass[k] # <<>> /\ 1 \in 1 .. Len(pass[k])
    BY <1>3, <2>1
  <2>3. pass[k + 1] = U!Pass(pass[k]) /\ \A i \in 1 .. Len(pass[k + 1]) : U!Allowed(pass[k + 1][i])
    BY <2>1 DEF SafePasses
  <2>4. \A j \in 1 .. Len(pass[k]) : pass[k][j] = U!PERCENT => U!IsEscape(pass[k], j)
    BY <2>2, <2>3, PassIs
  <2>5. pass[k + 1] = U!Decoded(pass[k], U!PLUS, -1)
    BY <2>3 DEF U!Pass
  <2>6. ASSUME U!PERCENT \in U!ToSet(pass[k]) PROVE Len(pass[k + 1]) <= Len(pass[k]) - 2
    <3>1. \E j \in 1 .. Len(pass[k]) : pass[k][j] = U!PERCENT
      BY <2>2, <2>6 DEF U!ToSet
    <3> QED
      BY <1>c, <2>2, <2>4, <2>5, <3>1, Shrinks
  <2>7. ASSUME pass[k][1] # U!PERCENT PROVE pass[k + 1][1] = pass[k][1]
    <3>1. ~U!IsEscape(pass[k], 1)
      BY <2>7 DEF U!IsEscape
    <3>2. pass[k + 1][1] = Put(pass[k], U!PLUS, -1)[1]
      BY <1>c, <2>2, <2>5, FrontStays
    <3>3. Put(pass[k], U!PLUS, -1)[1] =
            IF pass[k][1] = U!PLUS THEN U!PLUS ELSE IF pass[k][1] = U!PERCENT THEN -1 ELSE pass[k][1]
      BY <1>c, <2>2, <3>1, PutIs
    <3> QED
      BY <2>7, <3>2, <3>3
  <2> QED
    BY <2>4, <2>6, <2>7
<1> QED
  BY <1>n, <1>3, <1>4

(* The character at the front of the first pass: where it begins no escape, no *)
(* pass changes it, and the last one must find a slash there.                  *)
LEMMA FrontOfPasses ==
    ASSUME NEW asked, NEW pass, SafePasses(asked, pass)
    PROVE  pass[1][1] = U!PERCENT \/ pass[1][1] = U!SLASH
<1> DEFINE N == Len(asked)
<1> SUFFICES ASSUME pass[1][1] # U!PERCENT PROVE pass[1][1] = U!SLASH
  OBVIOUS
<1>n. N \in Nat \ {0}
  BY SafePass
<1> DEFINE W == {m \in Nat : m + 1 <= N => pass[m + 1][1] = pass[1][1]}
<1>1. 0 \in W
  OBVIOUS
<1>2. ASSUME NEW m \in Nat, m \in W PROVE m + 1 \in W
  <2> SUFFICES ASSUME (m + 1) + 1 <= N PROVE pass[(m + 1) + 1][1] = pass[1][1]
    OBVIOUS
  <2>1. m + 1 \in 0 .. N - 1 /\ m + 1 <= N
    BY <1>n
  <2>2. pass[m + 1][1] = pass[1][1]
    BY <1>2, <2>1
  <2> QED
    BY <2>1, <2>2, SafePass
<1> HIDE DEF W
<1>3. Nat \subseteq W
  BY <1>1, <1>2, Induction
<1>4. ASSUME NEW k \in 1 .. N PROVE pass[k][1] = pass[1][1]
  <2>1. k - 1 \in Nat /\ (k - 1) + 1 = k /\ k <= N
    BY <1>n
  <2> QED
    BY <1>3, <2>1 DEF W
<1>5. \E k \in 1 .. N : U!PERCENT \notin U!ToSet(pass[k])
  <2> SUFFICES ASSUME \A k \in 1 .. N : U!PERCENT \in U!ToSet(pass[k]) PROVE FALSE
    OBVIOUS
  <2> DEFINE e(m) == m + 1 <= N => Len(pass[m + 1]) + m + m <= N
             E == {m \in Nat : e(m)}
  <2>t. \A k \in 1 .. N : Len(pass[k]) \in Nat /\ Len(pass[k]) <= N /\ 1 \in 1 .. Len(pass[k])
    <3> SUFFICES ASSUME NEW k \in 1 .. N PROVE Len(pass[k]) \in Nat /\ Len(pass[k]) <= N /\ 1 \in 1 .. Len(pass[k])
      OBVIOUS
    <3>1. k \in 0 .. N
      BY <1>n
    <3>2. pass[k] \in Seq(Int) /\ Len(pass[k]) <= N /\ 1 \in 1 .. Len(pass[k])
      BY <3>1, SafePass
    <3> QED
      BY <3>2, LenProperties
  <2>1. 0 \in E
    BY <1>n, <2>t
  <2>2. ASSUME NEW m \in Nat, m \in E PROVE m + 1 \in E
    <3> SUFFICES ASSUME (m + 1) + 1 <= N PROVE Len(pass[(m + 1) + 1]) + (m + 1) + (m + 1) <= N
      <4>1. m + 1 \in Nat
        OBVIOUS
      <4>2. e(m + 1) => m + 1 \in E
        <5> HIDE DEF e
        <5> QED
          BY <4>1
      <4> QED
        BY <4>2
    <3>1. m + 1 \in 0 .. N - 1 /\ m + 1 <= N /\ m + 1 \in 1 .. N /\ (m + 1) + 1 \in 1 .. N
      BY <1>n
    <3>2. Len(pass[m + 1]) + m + m <= N
      BY <2>2, <3>1
    <3>3. Len(pass[(m + 1) + 1]) <= Len(pass[m + 1]) - 2
      BY <3>1, SafePass
    <3>4. Len(pass[m + 1]) \in Nat /\ Len(pass[(m + 1) + 1]) \in Nat
      BY <2>t, <3>1
    <3> DEFINE a == Len(pass[m + 1])
               b == Len(pass[(m + 1) + 1])
    <3>5. N \in Nat /\ a \in Nat /\ b \in Nat /\ a + m + m <= N /\ b <= a - 2
      BY <1>n, <3>2, <3>3, <3>4
    <3>6. b + (m + 1) + (m + 1) <= N
      <4> HIDE DEF a, b, N
      <4> QED
        BY ONLY <3>5, m \in Nat
    <3> QED
      BY <3>6
  <2> HIDE DEF E
  <2>3. Nat \subseteq E
    BY <2>1, <2>2, Induction
  <2>4. Len(pass[N]) + (N - 1) + (N - 1) <= N
    <3>1. N - 1 \in Nat /\ (N - 1) + 1 = N /\ (N - 1) + 1 <= N
      BY <1>n
    <3> QED
      BY <2>3, <3>1 DEF E
  <2>5. N = 1
    <3>1. Len(pass[N]) \in Nat /\ 1 <= Len(pass[N])
      BY <1>n, <2>t
    <3> DEFINE a == Len(pass[N])
    <3>2. N \in Nat \ {0} /\ a \in Nat /\ 1 <= a /\ a + (N - 1) + (N - 1) <= N
      BY <1>n, <2>4, <3>1
    <3> HIDE DEF a, N
    <3> QED
      BY ONLY <3>2
  <2>6. Len(pass[1]) = 1 /\ pass[1][1] = U!PERCENT
    <3>0. 1 \in 1 .. N /\ 1 \in 0 .. N
      BY <2>5
    <3>1. U!PERCENT \in U!ToSet(pass[1]) /\ pass[1] \in Seq(Int)
      BY <3>0, SafePass
    <3>2. Len(pass[1]) = 1
      <4>1. Len(pass[1]) \in Nat /\ Len(pass[1]) <= 1 /\ 1 <= Len(pass[1])
        BY <2>5, <2>t, <3>0
      <4> DEFINE a == Len(pass[1])
      <4>2. a \in Nat /\ a <= 1 /\ 1 <= a
        BY <4>1
      <4>3. a = 1
        <5> HIDE DEF a
        <5> QED
          BY ONLY <4>2
      <4> QED
        BY <4>3
    <3> QED
      BY <3>1, <3>2 DEF U!ToSet
  <2> QED
    BY <2>6
<1>6. PICK k \in 1 .. N : U!PERCENT \notin U!ToSet(pass[k])
  BY <1>5
<1>7. pass[k][1] = U!SLASH
  BY <1>6 DEF SafePasses
<1> QED
  BY <1>4, <1>7

(* A path of one character holds no escape.                                *)
LEMMA FrontOfOne ==
    ASSUME NEW asked, NEW pass, SafePasses(asked, pass), Len(asked) = 1
    PROVE  pass[1][1] # U!PERCENT
<1>1. /\ asked \in Seq(Int) /\ pass[0] = asked /\ 1 \in 1 .. Len(asked)
      /\ asked[1] = U!PERCENT => U!IsEscape(asked, 1)
      /\ asked[1] # U!PERCENT => pass[1][1] = asked[1]
  <2>1. 0 \in 0 .. Len(asked) - 1 /\ 0 + 1 = 1 /\ 1 \in 1 .. Len(asked)
    OBVIOUS
  <2>2. pass[0] = asked /\ asked \in Seq(Int)
    BY DEF SafePasses
  <2> QED
    BY <2>1, <2>2, SafePass
<1>2. ~U!IsEscape(asked, 1)
  BY DEF U!IsEscape
<1> QED
  BY <1>1, <1>2

(* A target that is accepted stays under the root (StaysInside of Url): the  *)
(* check in request_askedis_safe and the decoding in request_handle take the *)
(* same escapes out of the path, twice over.                                 *)
THEOREM AnyTargetStaysInside ==
    \A target \in Seq(Int) : U!StaysInside(target)
<1> SUFFICES ASSUME NEW target \in Seq(Int), U!Accepted(target),
                    U!QUERY \notin U!ToSet(U!UrlDecode(U!Cut(target), BufSize)),
                    NEW uri, uri = U!DocumentUri(target)
             PROVE  /\ uri # <<>> /\ (uri[1] = U!SLASH \/ U!IsEscape(uri, 1))
                    /\ ~U!HasDotDot(uri) /\ ~U!HasDotDot(U!UrlDecode(uri, BufSize))
  BY DEF U!StaysInside
<1> DEFINE asked == U!Cut(target)
           N == Len(asked)
<1>1. PICK pass : SafePasses(asked, pass)
  BY SafePassesExist DEF U!Accepted
<1>2. N < BufSize /\ Len(target) < BufSize /\ asked \in Seq(Int)
  BY SafePassesExist, CutIs DEF U!Accepted
<1>3. uri = U!Decoded(asked, U!SPACE, U!PERCENT)
  BY <1>2, UriIs
<1> HIDE DEF asked
<1>n. N \in Nat \ {0} /\ pass[0] = asked /\ BufSize \in Nat
  BY <1>1, SafePass, StaticAssumption DEF SafePasses
<1>4. /\ \A j \in 1 .. Len(asked) : asked[j] = U!PERCENT => U!IsEscape(asked, j)
      /\ pass[1] = U!Pass(asked) /\ ~U!HasDotDot(pass[1])
      /\ Len(pass[1]) <= N /\ 1 \in 1 .. Len(pass[1]) /\ pass[1] \in Seq(Int)
  <2>1. 0 \in 0 .. N - 1 /\ 1 \in 1 .. N /\ 1 - 1 = 0 /\ 1 \in 0 .. N
    BY <1>n
  <2>2. pass[1] = U!Pass(pass[0]) /\ ~U!HasDotDot(pass[1])
    BY <1>1, <2>1 DEF SafePasses
  <2>3. \A j \in 1 .. Len(pass[0]) : pass[0][j] = U!PERCENT => U!IsEscape(pass[0], j)
    BY <1>1, <2>1, SafePass
  <2>4. Len(pass[1]) <= N /\ 1 \in 1 .. Len(pass[1]) /\ pass[1] \in Seq(Int)
    BY <1>1, <2>1, SafePass
  <2> QED
    BY <1>n, <2>2, <2>3, <2>4
<1>5. Alike(uri, pass[1])
  <2>1. Alike(asked, asked)
    BY <1>2 DEF Alike, Same
  <2> QED
    BY <1>3, <1>4, <2>1, DecodedAlike
<1>6. /\ uri \in Seq(Int) /\ Len(uri) = Len(pass[1]) /\ Len(uri) \in Nat /\ Len(uri) <= N
      /\ 1 \in 1 .. Len(uri) /\ Same(uri[1], pass[1][1]) /\ uri # <<>>
  <2>1. uri \in Seq(Int) /\ Len(uri) = Len(pass[1]) /\ \A k \in 1 .. Len(uri) : Same(uri[k], pass[1][k])
    BY <1>5 DEF Alike
  <2> QED
    BY <1>4, <2>1
<1>7. U!UrlDecode(uri, BufSize) = U!Decoded(uri, U!SPACE, U!PERCENT)
  <2>1. Len(uri) < BufSize
    BY <1>2, <1>n, <1>6
  <2> QED
    BY <1>n, <1>6, <2>1, UrlDecodeIs
<1>8. ~U!HasDotDot(uri)
  BY <1>4, <1>5, AlikeDots
<1>9. ASSUME N # 1 PROVE \A j \in 1 .. Len(pass[1]) : pass[1][j] = U!PERCENT => U!IsEscape(pass[1], j)
  <2>1. 1 \in 0 .. N - 1
    <3> HIDE DEF N
    <3> QED
      BY <1>n, <1>9
  <2>2. \A k \in 0 .. N - 1 : \A j \in 1 .. Len(pass[k]) : pass[k][j] = U!PERCENT => U!IsEscape(pass[k], j)
    BY <1>1, SafePass
  <2> HIDE DEF N
  <2> QED
    BY <2>1, <2>2
<1>10. ~U!HasDotDot(U!UrlDecode(uri, BufSize))
  <2>1. CASE N = 1
    <3> DEFINE d == U!Decoded(uri, U!SPACE, U!PERCENT)
    <3>1. d \in Seq(Int) /\ Len(d) <= Len(uri)
      BY <1>6, Shrinks DEF U!SPACE, U!PERCENT
    <3> HIDE DEF d
    <3>2. Len(d) \in Nat /\ 1 .. Len(d) - 1 = {}
      BY <1>6, <2>1, <3>1
    <3> QED
      BY <1>7, <3>2 DEF U!HasDotDot, d
  <2>2. CASE N # 1
    <3>1. Alike(U!Decoded(uri, U!SPACE, U!PERCENT), U!Pass(pass[1]))
      BY <1>5, <1>9, <2>2, DecodedAlike
    <3>2. pass[2] = U!Pass(pass[1]) /\ ~U!HasDotDot(pass[2])
      <4>1. 2 \in 1 .. N /\ 2 - 1 = 1
        <5> HIDE DEF N
        <5> QED
          BY <1>n, <2>2
      <4> QED
        BY <1>1, <4>1 DEF SafePasses
    <3> QED
      BY <1>7, <3>1, <3>2, AlikeDots
  <2> QED
    BY <2>1, <2>2
<1>11. uri[1] = U!SLASH \/ U!IsEscape(uri, 1)
  <2>1. CASE pass[1][1] = U!SLASH
    BY <1>6, <2>1, SameHex
  <2>2. CASE pass[1][1] = U!PERCENT
    <3>1. N # 1
      BY <1>1, <2>2, FrontOfOne
    <3>2. U!IsEscape(pass[1], 1)
      BY <1>4, <1>9, <2>2, <3>1
    <3> QED
      BY <1>5, <1>6, <3>2, AlikeEscapes
  <2> QED
    BY <1>1, <2>1, <2>2, FrontOfPasses
<1> QED
  BY <1>6, <1>8, <1>10, <1>11

-----------------------------------------------------------------------------
(* What the loop of both that escape has put together, escape by escape, and *)
(* the number K of those for which there was place.                          *)
PutTogether(out, K, n, escapes, room, outlen) ==
    /\ out \in [0 .. n -> Seq(Int)] /\ out[0] = <<>>
    /\ \A k \in 1 .. n : out[k] = out[k - 1] \o escapes[k]
    /\ K \in 0 .. n
    /\ \A i \in 1 .. K : Len(out[i - 1]) + room[i] < outlen
    /\ K = n \/ ~(Len(out[K]) + room[K + 1] < outlen)

(* Escaped, which is defined by recursion and by a choice, is just that.   *)
LEMMA EscapedIs ==
    ASSUME NEW n \in Nat, NEW escapes \in [1 .. n -> Seq(Int)], NEW room \in [1 .. n -> Nat],
           NEW outlen \in Nat
    PROVE  \E out, K : /\ PutTogether(out, K, n, escapes, room, outlen)
                       /\ U!Escaped(escapes, room, outlen) = out[K]
<1> DEFINE rule(h) == [k \in 0 .. n |-> IF k = 0 THEN <<>> ELSE h[k - 1] \o escapes[k]]
           out == CHOOSE h : h = rule(h)
           step == [k \in 1 .. n |-> [s \in Seq(Int) |-> s \o escapes[k]]]
           fits(k) == \A i \in 1 .. k : Len(out[i - 1]) + room[i] < outlen
           last(k) == fits(k) /\ (k = n \/ ~fits(k + 1))
           K == CHOOSE k \in 0 .. n : last(k)
<1>l. Len(escapes) = n
  OBVIOUS
<1>1. step \in [1 .. n -> [Seq(Int) -> Seq(Int)]]
  <2>1. \A k \in 1 .. n : \A s \in Seq(Int) : s \o escapes[k] \in Seq(Int)
    BY ConcatProperties
  <2> QED
    BY <2>1
<1>2. \E f : Goes(f, n, Seq(Int), <<>>, step)
  <2>1. <<>> \in Seq(Int)
    BY EmptySeq
  <2> HIDE DEF step
  <2> QED
    BY <2>1, <1>1, Upwards
<1>3. PICK f \in [0 .. n -> Seq(Int)] : f[0] = <<>> /\ \A k \in 1 .. n : f[k] = step[k][f[k - 1]]
  BY <1>2 DEF Goes
<1>4. f = rule(f)
  <2>1. ASSUME NEW k \in 0 .. n, k # 0 PROVE f[k] = f[k - 1] \o escapes[k]
    <3>1. k \in 1 .. n /\ k - 1 \in 0 .. n
      BY <2>1
    <3>2. f[k - 1] \in Seq(Int) /\ f[k] = step[k][f[k - 1]]
      BY <1>3, <3>1
    <3> QED
      BY <3>1, <3>2
  <2> HIDE DEF step
  <2> QED
    BY <1>3, <2>1
<1>5. out = rule(out)
  <2> HIDE DEF rule
  <2> QED
    BY <1>4
<1>6. U!Escaped(escapes, room, outlen) = out[K]
  BY <1>l DEF U!Escaped
<1> HIDE DEF out
<1>7. out[0] = <<>>
  BY <1>5
<1>8. \A k \in 1 .. n : out[k] = out[k - 1] \o escapes[k]
  <2> SUFFICES ASSUME NEW k \in 1 .. n PROVE out[k] = out[k - 1] \o escapes[k]
    OBVIOUS
  <2>1. k \in 0 .. n /\ k # 0
    OBVIOUS
  <2> QED
    BY <1>5, <2>1
<1>9. out \in [0 .. n -> Seq(Int)]
  <2> DEFINE W == {m \in Nat : m <= n => out[m] \in Seq(Int)}
  <2>1. 0 \in W
    BY <1>7, EmptySeq
  <2>2. ASSUME NEW m \in Nat, m \in W PROVE m + 1 \in W
    <3> SUFFICES ASSUME m + 1 <= n PROVE out[m + 1] \in Seq(Int)
      OBVIOUS
    <3>1. m + 1 \in 1 .. n /\ (m + 1) - 1 = m /\ out[m] \in Seq(Int) /\ escapes[m + 1] \in Seq(Int)
      BY <2>2
    <3>2. out[m + 1] = out[m] \o escapes[m + 1]
      BY <1>8, <3>1
    <3> QED
      BY <3>1, <3>2, ConcatProperties
  <2> HIDE DEF W
  <2>3. Nat \subseteq W
    BY <2>1, <2>2, Induction
  <2>4. \A k \in 0 .. n : out[k] \in Seq(Int)
    BY <2>3 DEF W
  <2>5. out = [k \in 0 .. n |-> out[k]]
    BY <1>5
  <2> QED
    BY <2>4, <2>5
<1>10. \E k \in 0 .. n : last(k)
  <2> SUFFICES ASSUME \A k \in 0 .. n : ~last(k) PROVE FALSE
    OBVIOUS
  <2> DEFINE W == {m \in Nat : m <= n => fits(m)}
  <2>1. 0 \in W
    OBVIOUS
  <2>2. ASSUME NEW m \in Nat, m \in W PROVE m + 1 \in W
    <3>1. m + 1 <= n => m \in 0 .. n /\ m # n /\ fits(m)
      BY <2>2
    <3>2. m + 1 <= n => fits(m + 1)
      <4> HIDE DEF fits
      <4> QED
        BY <3>1
    <3> HIDE DEF fits
    <3> QED
      BY <3>2
  <2> HIDE DEF W
  <2>3. Nat \subseteq W
    BY <2>1, <2>2, Induction
  <2>4. n \in 0 .. n /\ fits(n)
    <3> HIDE DEF fits
    <3> QED
      BY <2>3 DEF W
  <2> HIDE DEF fits
  <2> QED
    BY <2>4
<1>11. K \in 0 .. n /\ last(K)
  <2> HIDE DEF last
  <2> QED
    BY <1>10
<1> HIDE DEF K
<1>12. K = n \/ ~(Len(out[K]) + room[K + 1] < outlen)
  <2> SUFFICES ASSUME K # n, Len(out[K]) + room[K + 1] < outlen PROVE FALSE
    OBVIOUS
  <2>1. ~fits(K + 1) /\ fits(K)
    BY <1>11
  <2>2. PICK i \in 1 .. K + 1 : ~(Len(out[i - 1]) + room[i] < outlen)
    BY <2>1
  <2>3. i \in 1 .. K \/ (i = K + 1 /\ i - 1 = K)
    BY <1>11, <2>2
  <2> QED
    BY <2>1, <2>2, <2>3
<1>13. PutTogether(out, K, n, escapes, room, outlen)
  BY <1>7, <1>8, <1>9, <1>11, <1>12 DEF PutTogether
<1> QED
  BY <1>6, <1>13

(* It stays in the buffer; and where there is place for all of them, all are *)
(* there.                                                                    *)
LEMMA EscapedFits ==
    ASSUME NEW n \in Nat, NEW escapes \in [1 .. n -> Seq(Int)], NEW room \in [1 .. n -> Nat],
           NEW outlen \in Nat \ {0}, \A i \in 1 .. n : Len(escapes[i]) <= room[i],
           NEW out, NEW K, PutTogether(out, K, n, escapes, room, outlen)
    PROVE  /\ out[K] \in Seq(Int) /\ Len(out[K]) < outlen /\ K \in Nat /\ K <= n
           /\ \A k \in 0 .. n : Len(out[k]) \in Nat
           /\ \A k \in 1 .. n : Len(out[k]) = Len(out[k - 1]) + Len(escapes[k])
<1>1. \A k \in 0 .. n : out[k] \in Seq(Int) /\ Len(out[k]) \in Nat
  BY LenProperties DEF PutTogether
<1>2. ASSUME NEW k \in 1 .. n PROVE Len(out[k]) = Len(out[k - 1]) + Len(escapes[k])
  <2>1. k - 1 \in 0 .. n /\ out[k - 1] \in Seq(Int) /\ escapes[k] \in Seq(Int)
    BY <1>1
  <2>2. out[k] = out[k - 1] \o escapes[k]
    BY DEF PutTogether
  <2> QED
    BY <2>1, <2>2, ConcatProperties
<1>3. K \in 0 .. n
  BY DEF PutTogether
<1>4. CASE K = 0
  <2>1. out[K] = <<>>
    BY <1>4 DEF PutTogether
  <2>2. Len(out[K]) = 0
    BY <2>1
  <2> QED
    BY <1>1, <1>2, <1>3, <2>2
<1>5. CASE K # 0
  <2>1. K \in 1 .. K /\ K \in 1 .. n /\ K - 1 \in 0 .. n
    BY <1>3, <1>5
  <2>2. Len(out[K - 1]) + room[K] < outlen /\ Len(out[K]) = Len(out[K - 1]) + Len(escapes[K])
    BY <1>2, <2>1 DEF PutTogether
  <2>3. /\ Len(escapes[K]) <= room[K] /\ room[K] \in Nat /\ Len(escapes[K]) \in Nat
        /\ Len(out[K - 1]) \in Nat
    BY <1>1, <2>1, LenProperties
  <2>4. Len(out[K]) < outlen
    <3> DEFINE a == Len(out[K - 1])
               b == Len(escapes[K])
               c == Len(out[K])
               r == room[K]
    <3>1. /\ a \in Nat /\ b \in Nat /\ r \in Nat /\ outlen \in Nat
          /\ a + r < outlen /\ c = a + b /\ b <= r
      BY <2>2, <2>3
    <3> HIDE DEF a, b, c, r
    <3>2. c < outlen
      BY ONLY <3>1
    <3> QED
      BY <3>2 DEF c
  <2> QED
    BY <1>1, <1>2, <1>3, <2>4
<1> QED
  BY <1>4, <1>5

(* A string made of blocks: the i-th begins at b[i].                       *)
MadeOf(t, e, K, b) ==
    /\ K \in Nat /\ t \in Seq(Int) /\ b[1] = 1 /\ b[K + 1] = Len(t) + 1
    /\ \A i \in 1 .. K :
         /\ b[i] \in Nat \ {0} /\ e[i] \in Seq(Int)
         /\ b[i + 1] = b[i] + Len(e[i]) /\ b[i + 1] <= Len(t) + 1
         /\ \A j \in 1 .. Len(e[i]) : t[b[i] + j - 1] = e[i][j]

Begins(out, K) == [i \in 1 .. K + 1 |-> Len(out[i - 1]) + 1]

(* What Escaped puts together is made of the first K escapes.              *)
LEMMA BlocksAre ==
    ASSUME NEW n \in Nat, NEW escapes \in [1 .. n -> Seq(Int)], NEW room, NEW outlen,
           NEW out, NEW K, PutTogether(out, K, n, escapes, room, outlen)
    PROVE  MadeOf(out[K], escapes, K, Begins(out, K))
<1> DEFINE b == Begins(out, K)
<1>1. K \in 0 .. n /\ K \in Nat /\ out[0] = <<>>
  BY DEF PutTogether
<1>2. \A k \in 0 .. n : out[k] \in Seq(Int) /\ Len(out[k]) \in Nat
  BY LenProperties DEF PutTogether
<1>3. ASSUME NEW k \in 1 .. n
      PROVE  /\ k - 1 \in 0 .. n /\ k \in 0 .. n /\ escapes[k] \in Seq(Int) /\ Len(escapes[k]) \in Nat
             /\ Len(out[k]) = Len(out[k - 1]) + Len(escapes[k])
             /\ \A j \in 1 .. Len(out[k - 1]) + Len(escapes[k]) :
                  out[k][j] = IF j <= Len(out[k - 1]) THEN out[k - 1][j]
                              ELSE escapes[k][j - Len(out[k - 1])]
  <2>1. k - 1 \in 0 .. n /\ k \in 0 .. n /\ escapes[k] \in Seq(Int) /\ Len(escapes[k]) \in Nat
    BY LenProperties
  <2>2. out[k] = out[k - 1] \o escapes[k] /\ out[k - 1] \in Seq(Int)
    BY <1>2, <2>1 DEF PutTogether
  <2> QED
    BY <2>1, <2>2, ConcatProperties
<1>4. ASSUME NEW i \in 1 .. K
      PROVE  /\ Len(out[i]) <= Len(out[K])
             /\ \A j \in 1 .. Len(out[i]) : out[K][j] = out[i][j]
  <2> DEFINE good(k) == /\ Len(out[i]) <= Len(out[k])
                        /\ \A j \in 1 .. Len(out[i]) : out[k][j] = out[i][j]
             W == {m \in Nat : i + m <= K => good(i + m)}
  <2>i. i \in 1 .. n /\ i \in Nat /\ i \in 0 .. n
    BY <1>1
  <2>1. 0 \in W
    <3>1. i + 0 = i
      BY <2>i
    <3>2. Len(out[i]) <= Len(out[i])
      BY <1>2, <2>i
    <3>3. good(i)
      BY <3>2
    <3> HIDE DEF good
    <3> QED
      BY <3>1, <3>3
  <2>2. ASSUME NEW m \in Nat, m \in W PROVE m + 1 \in W
    <3> SUFFICES ASSUME i + (m + 1) <= K PROVE good(i + (m + 1))
      <4> HIDE DEF good
      <4> QED
        OBVIOUS
    <3> DEFINE l == i + m
               k == i + (m + 1)
    <3>1. l <= K /\ k \in 1 .. n /\ k - 1 = l /\ l \in 0 .. n /\ k \in 0 .. n
      BY <1>1, <2>i
    <3>2. good(l)
      BY <2>2, <3>1
    <3>3. /\ Len(out[k]) = Len(out[l]) + Len(escapes[k]) /\ Len(escapes[k]) \in Nat
          /\ Len(out[l]) \in Nat /\ Len(out[i]) \in Nat
          /\ \A j \in 1 .. Len(out[l]) + Len(escapes[k]) :
                out[k][j] = IF j <= Len(out[l]) THEN out[l][j] ELSE escapes[k][j - Len(out[l])]
      BY <1>2, <1>3, <2>i, <3>1
    <3> HIDE DEF l, k
    <3> DEFINE a == Len(out[i])
               c == Len(out[l])
               e == Len(escapes[k])
    <3>p. a \in Nat /\ c \in Nat /\ e \in Nat /\ Len(out[k]) = c + e /\ a <= c
      BY <3>2, <3>3
    <3>q. a <= c + e /\ \A j \in 1 .. a : j \in 1 .. c + e /\ j <= c
      <4> HIDE DEF a, c, e
      <4> QED
        BY ONLY <3>p
    <3>4. Len(out[i]) <= Len(out[k])
      BY <3>p, <3>q
    <3>5. ASSUME NEW j \in 1 .. Len(out[i]) PROVE out[k][j] = out[i][j]
      <4>1. j \in 1 .. Len(out[l]) + Len(escapes[k]) /\ j <= Len(out[l])
        BY <3>q
      <4> QED
        BY <3>2, <3>3, <4>1
    <3>6. good(k)
      BY <3>4, <3>5
    <3> QED
      BY <3>6 DEF k
  <2> HIDE DEF W
  <2>3. Nat \subseteq W
    BY <2>1, <2>2, Induction
  <2>4. K - i \in Nat /\ i + (K - i) = K
    BY <1>1, <2>i
  <2>5. good(K)
    <3> HIDE DEF good
    <3>1. K - i \in W
      BY <2>3, <2>4
    <3>2. i + (K - i) <= K
      BY <1>1, <2>4
    <3> QED
      BY <2>4, <3>1, <3>2 DEF W
  <2> QED
    BY <2>5
<1>5. \A i \in 1 .. K + 1 : b[i] = Len(out[i - 1]) + 1
  BY DEF Begins
<1> HIDE DEF b
<1>6. b[1] = 1
  <2>1. 1 \in 1 .. K + 1 /\ 1 - 1 = 0 /\ Len(out[0]) = 0
    BY <1>1
  <2> QED
    BY <1>5, <2>1
<1>7. b[K + 1] = Len(out[K]) + 1
  <2>1. K + 1 \in 1 .. K + 1 /\ (K + 1) - 1 = K
    BY <1>1
  <2> QED
    BY <1>5, <2>1
<1>8. ASSUME NEW i \in 1 .. K
      PROVE  /\ b[i] \in Nat \ {0} /\ escapes[i] \in Seq(Int)
             /\ b[i + 1] = b[i] + Len(escapes[i]) /\ b[i + 1] <= Len(out[K]) + 1
             /\ \A j \in 1 .. Len(escapes[i]) : out[K][b[i] + j - 1] = escapes[i][j]
  <2>1. /\ i \in 1 .. n /\ i \in 1 .. K + 1 /\ i + 1 \in 1 .. K + 1 /\ (i + 1) - 1 = i
        /\ i - 1 \in 0 .. n /\ i \in 0 .. n
    BY <1>1
  <2> DEFINE a == Len(out[i - 1])
             e == Len(escapes[i])
  <2>2. b[i] = a + 1 /\ b[i + 1] = Len(out[i]) + 1
    BY <1>5, <2>1
  <2>3. /\ a \in Nat /\ e \in Nat /\ Len(out[i]) = a + e /\ Len(out[i]) <= Len(out[K])
        /\ escapes[i] \in Seq(Int) /\ Len(out[K]) \in Nat
    BY <1>1, <1>2, <1>3, <1>4, <2>1
  <2>4. \A j \in 1 .. a + e : out[i][j] = IF j <= a THEN out[i - 1][j] ELSE escapes[i][j - a]
    BY <1>3, <2>1
  <2>5. \A j \in 1 .. a + e : out[K][j] = out[i][j]
    BY <1>4, <2>3
  <2> HIDE DEF a, e
  <2>6. ASSUME NEW j \in 1 .. e PROVE out[K][b[i] + j - 1] = escapes[i][j]
    <3>1. b[i] + j - 1 = a + j /\ a + j \in 1 .. a + e /\ ~(a + j <= a) /\ (a + j) - a = j
      BY <2>2, <2>3
    <3> QED
      BY <2>4, <2>5, <3>1
  <2>7. b[i] \in Nat \ {0} /\ b[i + 1] = b[i] + e /\ b[i + 1] <= Len(out[K]) + 1
    BY <2>2, <2>3
  <2> QED
    BY <2>3, <2>6, <2>7 DEF e
<1>9. out[K] \in Seq(Int)
  BY <1>1, <1>2
<1> QED
  BY <1>1, <1>6, <1>7, <1>8, <1>9 DEF MadeOf, b

(* A buffer with the first K escapes, and no place for another.            *)
Written(t, K, b, n, e, room, outlen) ==
    /\ n \in Nat /\ outlen \in Nat /\ room \in [1 .. n -> Nat]
    /\ K \in Nat /\ K <= n /\ Len(t) < outlen /\ MadeOf(t, e, K, b)
    /\ K = n \/ ~(Len(t) + room[K + 1] < outlen)

(* Escaped writes to the buffer so.                                        *)
LEMMA EscapedIsWritten ==
    ASSUME NEW n \in Nat, NEW e \in [1 .. n -> Seq(Int)], NEW room \in [1 .. n -> Nat],
           NEW outlen \in Nat \ {0}, \A i \in 1 .. n : Len(e[i]) <= room[i]
    PROVE  \E K, b : Written(U!Escaped(e, room, outlen), K, b, n, e, room, outlen)
<1>1. PICK out, K : /\ PutTogether(out, K, n, e, room, outlen)
                    /\ U!Escaped(e, room, outlen) = out[K]
  BY EscapedIs
<1>2. Len(out[K]) < outlen /\ K \in Nat /\ K <= n
  BY <1>1, EscapedFits
<1>3. MadeOf(out[K], e, K, Begins(out, K))
  BY <1>1, BlocksAre
<1>4. Written(out[K], K, Begins(out, K), n, e, room, outlen)
  BY <1>1, <1>2, <1>3 DEF Written, PutTogether
<1> QED
  BY <1>1, <1>4

(* In a buffer that is large enough are all.                               *)
LEMMA AllWritten ==
    ASSUME NEW t, NEW K, NEW b, NEW n, NEW e, NEW room, NEW outlen,
           Written(t, K, b, n, e, room, outlen), NEW w \in {3, 6},
           \A i \in 1 .. n : Len(e[i]) <= w /\ room[i] <= w + 1,
           outlen >= w * n + 2
    PROVE  K = n
<1> SUFFICES ASSUME K # n PROVE FALSE
  OBVIOUS
<1>1. n \in Nat /\ outlen \in Nat /\ K \in Nat /\ K <= n
  BY DEF Written
<1>2. K + 1 \in 1 .. n
  BY <1>1
<1>3. /\ MadeOf(t, e, K, b) /\ ~(Len(t) + room[K + 1] < outlen)
      /\ t \in Seq(Int) /\ Len(t) \in Nat /\ room[K + 1] \in Nat /\ room[K + 1] <= w + 1
  BY <1>2, LenProperties DEF Written, MadeOf
<1> DEFINE W == {m \in Nat : m <= K => b[m + 1] <= w * m + 1}
<1>4. 0 \in W
  BY <1>3 DEF MadeOf
<1>5. ASSUME NEW m \in Nat, m \in W PROVE m + 1 \in W
  <2>1. ASSUME m + 1 <= K PROVE b[(m + 1) + 1] <= w * (m + 1) + 1
    <3>1. m + 1 \in 1 .. K /\ m + 1 \in 1 .. n /\ m <= K
      BY <1>1, <2>1
    <3> DEFINE x == b[m + 1]
               y == b[(m + 1) + 1]
               z == Len(e[m + 1])
    <3>2. x \in Nat /\ y = x + z /\ e[m + 1] \in Seq(Int)
      BY <1>3, <3>1 DEF MadeOf
    <3>3. z \in Nat /\ z <= w /\ x <= w * m + 1
      BY <1>5, <3>1, <3>2, LenProperties
    <3>4. y <= w * (m + 1) + 1
      <4> HIDE DEF x, y, z
      <4>1. CASE w = 3
        BY ONLY <3>2, <3>3, <4>1, m \in Nat
      <4>2. CASE w = 6
        BY ONLY <3>2, <3>3, <4>2, m \in Nat
      <4> QED
        BY <4>1, <4>2
    <3> QED
      BY <3>4
  <2>2. m + 1 \in Nat
    OBVIOUS
  <2> QED
    BY <2>1, <2>2
<1> HIDE DEF W
<1>6. Nat \subseteq W
  BY <1>4, <1>5, Induction
<1>7. b[K + 1] <= w * K + 1
  BY <1>1, <1>6 DEF W
<1> DEFINE x == Len(t)
           r == room[K + 1]
<1>8. x \in Nat /\ r \in Nat /\ r <= w + 1 /\ x + 1 <= w * K + 1 /\ ~(x + r < outlen)
  BY <1>3, <1>7 DEF MadeOf
<1> HIDE DEF x, r
<1>9. K + 1 <= n
  BY <1>1
<1>10. CASE w = 3
  BY ONLY <1>1, <1>8, <1>9, <1>10, outlen >= w * n + 2
<1>11. CASE w = 6
  BY ONLY <1>1, <1>8, <1>9, <1>11, outlen >= w * n + 2
<1> QED
  BY <1>10, <1>11

(* A walk that goes from block to block, and puts s[i] at the i-th of them.   *)
Reads(F, put, next, s, t, K, b) ==
    /\ IsWalk(F, Len(t), put, next) /\ s \in Seq(Int) /\ K <= Len(s)
    /\ \A i \in 1 .. K : put[b[i]] = s[i] /\ next[b[i]] = b[i + 1]

(* It reads the first K characters of s.                                   *)
LEMMA BlockWalk ==
    ASSUME NEW F, NEW put, NEW next, NEW s, NEW t, NEW K, NEW b, NEW e,
           MadeOf(t, e, K, b), \A i \in 1 .. K : Len(e[i]) # 0,
           Reads(F, put, next, s, t, K, b)
    PROVE  F[1] = SubSeq(s, 1, K)
<1> DEFINE n == Len(t)
           S == {i \in Positions : i <= K + 1 => F[b[i]] = SubSeq(s, i, K)}
<1>1. /\ K \in Nat /\ n \in Nat /\ b[1] = 1 /\ b[K + 1] = n + 1
      /\ s \in Seq(Int) /\ K <= Len(s) /\ Len(s) \in Nat
  BY LenProperties DEF MadeOf, Reads
<1>2. ASSUME NEW i \in 1 .. K
      PROVE  b[i] \in Positions /\ ~(b[i] > n) /\ put[b[i]] = s[i] /\ next[b[i]] = b[i + 1]
  <2>1. /\ b[i] \in Nat \ {0} /\ b[i + 1] = b[i] + Len(e[i]) /\ b[i + 1] <= n + 1
        /\ Len(e[i]) \in Nat /\ Len(e[i]) # 0
        /\ put[b[i]] = s[i] /\ next[b[i]] = b[i + 1]
    BY LenProperties DEF MadeOf, Reads
  <2> DEFINE x == b[i]
             y == b[i + 1]
             z == Len(e[i])
  <2>2. x \in Nat \ {0} /\ y = x + z /\ y <= n + 1 /\ z \in Nat /\ z # 0
    BY <2>1
  <2>3. ~(x > n)
    <3> HIDE DEF x, y, z, n
    <3> QED
      BY ONLY <2>2, <1>1
  <2> QED
    BY <2>1, <2>3 DEF Positions
<1>3. ASSUME NEW i \in Nat \ {0}, i > K PROVE i \in S
  <2>1. i \in Positions
    BY DEF Positions
  <2>2. i <= K + 1 => i = K + 1
    BY <1>1, <1>3
  <2>3. F[b[K + 1]] = <<>>
    <3>1. n + 1 \in Positions /\ n + 1 > n
      BY <1>1 DEF Positions
    <3> QED
      BY <1>1, <3>1 DEF Reads, IsWalk
  <2>4. SubSeq(s, K + 1, K) = <<>>
    BY <1>1, SubSeqEmpty
  <2> QED
    BY <2>1, <2>2, <2>3, <2>4
<1>4. ASSUME NEW i \in 1 .. K, \A j \in Nat \ {0} : j > i => j \in S PROVE i \in S
  <2>1. i + 1 \in Nat \ {0} /\ i + 1 > i /\ i + 1 <= K + 1 /\ i \in Positions
    BY <1>1 DEF Positions
  <2>2. F[b[i + 1]] = SubSeq(s, i + 1, K)
    BY <1>4, <2>1
  <2>3. F[b[i]] = <<s[i]>> \o SubSeq(s, i + 1, K)
    <3> DEFINE x == b[i]
    <3>1. x \in Positions /\ ~(x > n) /\ put[x] = s[i] /\ next[x] = b[i + 1]
      BY <1>2
    <3>2. IsWalk(F, n, put, next)
      BY DEF Reads
    <3> HIDE DEF x, n
    <3>3. F[x] = <<put[x]>> \o F[next[x]]
      BY <3>1, <3>2 DEF IsWalk
    <3> QED
      BY <2>2, <3>1, <3>3 DEF x
  <2>4. SubSeq(s, i, K) = <<s[i]>> \o SubSeq(s, i + 1, K)
    <3>1. i \in 1 .. Len(s) /\ K \in i .. Len(s)
      BY <1>1
    <3> QED
      BY <1>1, <3>1, SubSeqRecursiveFirst
  <2> QED
    BY <2>1, <2>3, <2>4
<1> HIDE DEF S
<1>5. \A i \in Nat \ {0} : i \in S
  BY <1>1, <1>3, <1>4, Backwards
<1>6. 1 \in S /\ 1 <= K + 1
  BY <1>1, <1>5
<1> QED
  BY <1>1, <1>6 DEF S

-----------------------------------------------------------------------------
(* The characters of a C string.                                           *)
Byte == 0 .. 255

LEMMA BytesAreInts ==
    ASSUME NEW s \in Seq(Byte)
    PROVE  s \in Seq(Int) /\ Len(s) \in Nat /\ \A i \in 1 .. Len(s) : s[i] \in Byte
<1>1. Byte \subseteq Int
  BY DEF Byte
<1>2. Len(s) \in Nat /\ \A i \in 1 .. Len(s) : s[i] \in Byte /\ s[i] \in Int
  BY <1>1, LenProperties, ElementOfSeq
<1>3. SubSeq(s, 1, Len(s)) \in Seq(Int)
  BY <1>2, SubSeqProperties
<1>4. SubSeq(s, 1, Len(s)) = s
  BY SubSeqFull
<1> QED
  BY <1>2, <1>3, <1>4

(* Two digits of a byte, written and read.                                 *)
LEMMA DigitsOf ==
    ASSUME NEW c \in Byte
    PROVE  /\ c \div 16 \in 0 .. 15 /\ c % 16 \in 0 .. 15 /\ 16 * (c \div 16) + (c % 16) = c
           /\ \A d \in 0 .. 15 : /\ U!UpperHex(d) \in Int /\ U!Hex(U!UpperHex(d)) = d
                                 /\ U!LowerHex(d) \in Int /\ U!Hex(U!LowerHex(d)) = d
<1>1. c \in Int /\ 0 <= c /\ c <= 255
  BY DEF Byte
<1>2. c \div 16 \in 0 .. 15 /\ c % 16 \in 0 .. 15 /\ 16 * (c \div 16) + (c % 16) = c
  BY <1>1
<1>3. ASSUME NEW d \in 0 .. 15
      PROVE  /\ U!UpperHex(d) \in Int /\ U!Hex(U!UpperHex(d)) = d
             /\ U!LowerHex(d) \in Int /\ U!Hex(U!LowerHex(d)) = d
  <2>1. CASE d < 10
    BY <2>1 DEF U!UpperHex, U!LowerHex, U!Hex, U!Digits
  <2>2. CASE ~(d < 10)
    BY <2>2 DEF U!UpperHex, U!LowerHex, U!Hex, U!Digits
  <2> QED
    BY <2>1, <2>2
<1> QED
  BY <1>2, <1>3

(* What axil_url_encode makes of a character.                              *)
LEMMA UrlEscapeIs ==
    ASSUME NEW c \in Byte
    PROVE  \/ /\ U!UrlEscape(c) = <<c>>
              /\ c \notin {U!PERCENT, U!PLUS}
           \/ \E x, y \in Int :
                /\ U!UrlEscape(c) = <<U!PERCENT, x, y>>
                /\ U!Hex(x) \in 0 .. 15 /\ U!Hex(y) \in 0 .. 15 /\ 16 * U!Hex(x) + U!Hex(y) = c
<1>1. CASE U!Unreserved(c)
  BY <1>1 DEF U!UrlEscape, U!Unreserved, U!Digits, U!Uppers, U!Lowers, U!DASH, U!UNDERSCORE, U!DOT,
              U!PERCENT, U!PLUS
<1>2. CASE ~U!Unreserved(c)
  <2> DEFINE h == c \div 16
             l == c % 16
             x == U!UpperHex(h)
             y == U!UpperHex(l)
  <2>1. U!UrlEscape(c) = <<U!PERCENT, x, y>>
    BY <1>2 DEF U!UrlEscape
  <2>2. /\ x \in Int /\ y \in Int
        /\ U!Hex(x) \in 0 .. 15 /\ U!Hex(y) \in 0 .. 15
        /\ 16 * U!Hex(x) + U!Hex(y) = c
    <3>1. h \in 0 .. 15 /\ l \in 0 .. 15 /\ 16 * h + l = c
      BY DigitsOf
    <3> HIDE DEF h, l
    <3>2. x \in Int /\ y \in Int /\ U!Hex(x) = h /\ U!Hex(y) = l
      BY <3>1, DigitsOf
    <3> HIDE DEF x, y
    <3> QED
      BY <3>1, <3>2
  <2> HIDE DEF x, y
  <2> QED
    BY <2>1, <2>2
<1> QED
  BY <1>1, <1>2

(* The decoding of query_parse.                                            *)
Taken(s) == {i \in DOMAIN s : s[i] = U!PERCENT /\ i + 2 <= Len(s)}

PutValue(s) ==
    [i \in DOMAIN s |-> CASE i \in Taken(s) -> U!Scanned(s[i + 1], s[i + 2])
                          [] s[i] = U!PLUS -> U!SPACE
                          [] OTHER -> s[i]]

AfterValue(s) == [i \in DOMAIN s |-> IF i \in Taken(s) THEN i + 3 ELSE i + 1]

ScanValue(s) == U!Walk(Len(s), PutValue(s), AfterValue(s))

(* query_parse walks, too.                                                 *)
LEMMA QueryValueIs ==
    ASSUME NEW s \in Seq(Int)
    PROVE  /\ U!QueryValue(s) = ScanValue(s)[1]
           /\ IsWalk(ScanValue(s), Len(s), PutValue(s), AfterValue(s))
<1>1. U!QueryValue(s) = ScanValue(s)[1]
  BY DEF U!QueryValue, ScanValue, PutValue, AfterValue, Taken
<1>2. Onward(Len(s), AfterValue(s))
  BY DEF Onward, AfterValue
<1> QED
  BY <1>1, <1>2, WalkExists DEF ScanValue

(* A block that holds the escape of c, to both decoders.                   *)
LEMMA UrlBlock ==
    ASSUME NEW t \in Seq(Int), NEW p \in Nat \ {0}, NEW c \in Byte,
           p + Len(U!UrlEscape(c)) <= Len(t) + 1,
           \A j \in 1 .. Len(U!UrlEscape(c)) : t[p + j - 1] = U!UrlEscape(c)[j]
    PROVE  /\ Put(t, U!SPACE, U!PERCENT)[p] = c /\ PutValue(t)[p] = c
           /\ After(t)[p] = p + Len(U!UrlEscape(c)) /\ AfterValue(t)[p] = p + Len(U!UrlEscape(c))
<1>c. U!SPACE \in Int /\ U!PERCENT \in Int /\ U!PERCENT # U!PLUS /\ Len(t) \in Nat
  BY DEF U!SPACE, U!PERCENT, U!PLUS
<1>1. CASE U!UrlEscape(c) = <<c>> /\ c \notin {U!PERCENT, U!PLUS}
  <2>1. Len(U!UrlEscape(c)) = 1 /\ U!UrlEscape(c)[1] = c /\ 1 \in 1 .. 1 /\ p + 1 - 1 = p
    BY <1>1
  <2>2. p \in 1 .. Len(t) /\ p \in DOMAIN t /\ t[p] = c
    BY <1>c, <2>1
  <2>3. ~U!IsEscape(t, p) /\ p \notin Taken(t)
    BY <1>1, <2>2 DEF U!IsEscape, Taken
  <2>4. Put(t, U!SPACE, U!PERCENT)[p] = c /\ After(t)[p] = p + 1
    BY <1>1, <1>c, <2>2, <2>3, PutIs, AfterIs
  <2>5. PutValue(t)[p] = c /\ AfterValue(t)[p] = p + 1
    BY <1>1, <2>2, <2>3 DEF PutValue, AfterValue
  <2> QED
    BY <2>1, <2>4, <2>5
<1>2. ASSUME NEW x \in Int, NEW y \in Int, U!UrlEscape(c) = <<U!PERCENT, x, y>>,
             U!Hex(x) \in 0 .. 15, U!Hex(y) \in 0 .. 15, 16 * U!Hex(x) + U!Hex(y) = c
      PROVE  /\ Put(t, U!SPACE, U!PERCENT)[p] = c /\ PutValue(t)[p] = c
             /\ After(t)[p] = p + 3 /\ AfterValue(t)[p] = p + 3
             /\ Len(U!UrlEscape(c)) = 3
  <2>1. /\ Len(U!UrlEscape(c)) = 3
        /\ U!UrlEscape(c)[1] = U!PERCENT /\ U!UrlEscape(c)[2] = x /\ U!UrlEscape(c)[3] = y
    BY <1>2
  <2>2. /\ 1 \in 1 .. 3 /\ 2 \in 1 .. 3 /\ 3 \in 1 .. 3
        /\ p + 1 - 1 = p /\ p + 2 - 1 = p + 1 /\ p + 3 - 1 = p + 2
    OBVIOUS
  <2>3. t[p] = U!PERCENT /\ t[p + 1] = x /\ t[p + 2] = y
    BY <2>1, <2>2
  <2>4. p + 2 <= Len(t) /\ p \in 1 .. Len(t) /\ p \in DOMAIN t
    <3> DEFINE n == Len(t)
    <3>1. p + 3 <= n + 1 /\ n \in Nat /\ p \in Nat \ {0}
      BY <1>c, <2>1
    <3> HIDE DEF n
    <3>2. p + 2 <= n /\ p \in 1 .. n
      BY ONLY <3>1
    <3> QED
      BY <3>2 DEF n
  <2>5. U!Hex(x) >= 0 /\ U!Hex(y) >= 0 /\ ~(U!Hex(x) < 0) /\ ~(U!Hex(y) < 0)
    <3>1. \A d \in 0 .. 15 : d >= 0 /\ ~(d < 0)
      BY ONLY TRUE
    <3>2. U!Hex(x) \in 0 .. 15 /\ U!Hex(y) \in 0 .. 15
      BY <1>2
    <3> QED
      BY <3>1, <3>2
  <2>6. U!IsEscape(t, p) /\ p \in Taken(t) /\ U!Unescape(t, p) = c
    BY <1>2, <2>3, <2>4, <2>5 DEF U!IsEscape, U!Unescape, Taken
  <2>7. U!Scanned(t[p + 1], t[p + 2]) = c
    <3>1. t[p + 1] = x /\ t[p + 2] = y /\ 16 * U!Hex(x) + U!Hex(y) = c
      BY <1>2, <2>3
    <3> QED
      BY <2>5, <3>1 DEF U!Scanned
  <2>8. Put(t, U!SPACE, U!PERCENT)[p] = c /\ After(t)[p] = p + 3
    BY <1>c, <2>4, <2>6, PutIs, AfterIs
  <2>9. PutValue(t)[p] = c /\ AfterValue(t)[p] = p + 3
    BY <1>c, <2>3, <2>4, <2>6, <2>7 DEF PutValue, AfterValue
  <2> QED
    BY <2>1, <2>8, <2>9
<1>3. CASE \E x, y \in Int :
             /\ U!UrlEscape(c) = <<U!PERCENT, x, y>>
             /\ U!Hex(x) \in 0 .. 15 /\ U!Hex(y) \in 0 .. 15 /\ 16 * U!Hex(x) + U!Hex(y) = c
  BY <1>2, <1>3
<1> QED
  BY <1>1, <1>3, UrlEscapeIs

(* What two walks over the escapes of s read, when there is place for K.   *)
LEMMA UrlRead ==
    ASSUME NEW s \in Seq(Byte), NEW K, K <= Len(s), NEW t, NEW b, NEW e,
           MadeOf(t, e, K, b), \A i \in 1 .. K : e[i] = U!UrlEscape(s[i])
    PROVE  /\ U!Decoded(t, U!SPACE, U!PERCENT) = SubSeq(s, 1, K)
           /\ U!QueryValue(t) = SubSeq(s, 1, K)
<1>c. U!SPACE \in Int /\ U!PERCENT \in Int
  BY DEF U!SPACE, U!PERCENT
<1>1. K \in Nat /\ Len(s) \in Nat /\ t \in Seq(Int) /\ s \in Seq(Int)
  BY BytesAreInts, LenProperties DEF MadeOf
<1>2. ASSUME NEW i \in 1 .. K
      PROVE  /\ Put(t, U!SPACE, U!PERCENT)[b[i]] = s[i] /\ PutValue(t)[b[i]] = s[i]
             /\ After(t)[b[i]] = b[i + 1] /\ AfterValue(t)[b[i]] = b[i + 1]
  <2>1. i \in 1 .. Len(s) /\ s[i] \in Byte
    BY <1>1, ElementOfSeq
  <2>2. /\ b[i] \in Nat \ {0} /\ b[i + 1] = b[i] + Len(e[i]) /\ b[i + 1] <= Len(t) + 1
        /\ e[i] = U!UrlEscape(s[i])
        /\ \A j \in 1 .. Len(e[i]) : t[b[i] + j - 1] = e[i][j]
    BY DEF MadeOf
  <2> DEFINE p == b[i]
             c == s[i]
  <2>3. /\ p \in Nat \ {0} /\ c \in Byte /\ p + Len(U!UrlEscape(c)) <= Len(t) + 1
        /\ b[i + 1] = p + Len(U!UrlEscape(c))
        /\ \A j \in 1 .. Len(U!UrlEscape(c)) : t[p + j - 1] = U!UrlEscape(c)[j]
    BY <2>1, <2>2
  <2> HIDE DEF p, c
  <2>4. /\ Put(t, U!SPACE, U!PERCENT)[p] = c /\ PutValue(t)[p] = c
        /\ After(t)[p] = b[i + 1] /\ AfterValue(t)[p] = b[i + 1]
    BY <1>1, <2>3, UrlBlock
  <2> QED
    BY <2>4 DEF p, c
<1>3. ASSUME NEW i \in 1 .. K PROVE Len(e[i]) # 0
  <2>1. i \in 1 .. Len(s) /\ s[i] \in Byte
    BY <1>1, ElementOfSeq
  <2>2. Len(U!UrlEscape(s[i])) # 0
    <3> DEFINE c == s[i]
    <3>1. c \in Byte
      BY <2>1
    <3> HIDE DEF c
    <3>2. Len(U!UrlEscape(c)) # 0
      BY DEF U!UrlEscape
    <3> QED
      BY <3>2 DEF c
  <2> QED
    BY <2>2
<1>4. Reads(Scan(t, U!SPACE, U!PERCENT), Put(t, U!SPACE, U!PERCENT), After(t), s, t, K, b)
  BY <1>c, <1>1, <1>2, ScanIs DEF Reads
<1>5. Reads(ScanValue(t), PutValue(t), AfterValue(t), s, t, K, b)
  BY <1>1, <1>2, QueryValueIs DEF Reads
<1>6. Scan(t, U!SPACE, U!PERCENT)[1] = SubSeq(s, 1, K)
  BY <1>3, <1>4, BlockWalk
<1>7. ScanValue(t)[1] = SubSeq(s, 1, K)
  BY <1>3, <1>5, BlockWalk
<1> QED
  BY <1>1, <1>6, <1>7, DecodedIs, QueryValueIs

(* axil_url_encode into a buffer of outlen bytes, read by both decoders.   *)
LEMMA UrlComesBack ==
    ASSUME NEW s \in Seq(Byte), NEW outlen \in Nat \ {0}
    PROVE  \E K \in 0 .. Len(s) :
             /\ U!UrlEncode(s, outlen) \in Seq(Int)
             /\ Len(U!UrlEncode(s, outlen)) < outlen
             /\ U!UrlDecode(U!UrlEncode(s, outlen), outlen) = SubSeq(s, 1, K)
             /\ U!QueryValue(U!UrlEncode(s, outlen)) = SubSeq(s, 1, K)
             /\ outlen >= 3 * Len(s) + 2 => K = Len(s)
<1> DEFINE n == Len(s)
           e == [i \in DOMAIN s |-> U!UrlEscape(s[i])]
           room == [i \in DOMAIN s |-> 4]
<1>1. n \in Nat /\ DOMAIN s = 1 .. n
  BY LenProperties
<1>2. ASSUME NEW i \in 1 .. n PROVE e[i] \in Seq(Int) /\ Len(e[i]) <= 3 /\ e[i] = U!UrlEscape(s[i])
  <2>1. s[i] \in Byte /\ e[i] = U!UrlEscape(s[i])
    BY <1>1, ElementOfSeq
  <2> DEFINE c == s[i]
  <2>2. c \in Byte /\ c \in Int
    BY <2>1 DEF Byte
  <2> HIDE DEF c
  <2>3. U!UrlEscape(c) \in Seq(Int) /\ Len(U!UrlEscape(c)) <= 3
    <3>1. CASE U!UrlEscape(c) = <<c>>
      BY <2>2, <3>1
    <3>2. ASSUME NEW x \in Int, NEW y \in Int, U!UrlEscape(c) = <<U!PERCENT, x, y>>
          PROVE  U!UrlEscape(c) \in Seq(Int) /\ Len(U!UrlEscape(c)) <= 3
      BY <3>2 DEF U!PERCENT
    <3> QED
      BY <2>2, <3>1, <3>2, UrlEscapeIs
  <2> QED
    BY <2>1, <2>3 DEF c
<1>3. e \in [1 .. n -> Seq(Int)] /\ room \in [1 .. n -> Nat] /\ \A i \in 1 .. n : room[i] = 4
  BY <1>1, <1>2
<1> DEFINE t == U!UrlEncode(s, outlen)
<1>4. t = U!Escaped(e, room, outlen)
  BY DEF U!UrlEncode
<1> HIDE DEF e, room, t
<1>6. \A i \in 1 .. n : Len(e[i]) <= room[i] /\ Len(e[i]) <= 3 /\ room[i] <= 3 + 1
  <2> SUFFICES ASSUME NEW i \in 1 .. n PROVE Len(e[i]) <= room[i] /\ Len(e[i]) <= 3 /\ room[i] <= 3 + 1
    OBVIOUS
  <2>1. Len(e[i]) \in Nat /\ Len(e[i]) <= 3 /\ room[i] = 4
    BY <1>2, <1>3, LenProperties
  <2> QED
    BY <2>1
<1>5. PICK K, b : Written(t, K, b, n, e, room, outlen)
  <2> HIDE DEF n
  <2> QED
    BY <1>1, <1>3, <1>4, <1>6, EscapedIsWritten
<1>7. /\ Len(t) < outlen /\ t \in Seq(Int) /\ K \in 0 .. n /\ K <= n /\ MadeOf(t, e, K, b)
  <2>1. Len(t) < outlen /\ K \in Nat /\ K <= n /\ MadeOf(t, e, K, b)
    BY <1>5, Zenon DEF Written
  <2>2. t \in Seq(Int)
    BY <2>1, Zenon DEF MadeOf
  <2>3. K \in 0 .. n
    <3> HIDE DEF n
    <3> QED
      BY <1>1, <2>1
  <2> QED
    BY <2>1, <2>2, <2>3
<1>9. /\ U!Decoded(t, U!SPACE, U!PERCENT) = SubSeq(s, 1, K)
      /\ U!QueryValue(t) = SubSeq(s, 1, K)
  <2>1. \A i \in 1 .. K : e[i] = U!UrlEscape(s[i])
    BY <1>1, <1>2, <1>7
  <2> QED
    BY <1>7, <2>1, UrlRead
<1>10. U!UrlDecode(t, outlen) = SubSeq(s, 1, K)
  BY <1>7, <1>9, UrlDecodeIs
<1>11. outlen >= 3 * n + 2 => K = n
  BY <1>5, <1>6, AllWritten
<1> QED
  BY <1>7, <1>9, <1>10, <1>11 DEF t

(* A JSON reader's way with a string.                                      *)
Escapes(s) == {i \in DOMAIN s : i < Len(s) /\ s[i] = U!BACKSLASH}
Codes(s) == {i \in Escapes(s) : s[i + 1] = 117 /\ i + 5 <= Len(s)}
Names(s) == {i \in Escapes(s) : \E c \in DOMAIN U!Named : U!Named[c] = s[i + 1]}

PutRead(s) ==
    [i \in DOMAIN s |->
       CASE i \in Codes(s) -> 16 * U!Hex(s[i + 4]) + U!Hex(s[i + 5])
         [] i \in Names(s) -> CHOOSE c \in DOMAIN U!Named : U!Named[c] = s[i + 1]
         [] i \in Escapes(s) /\ i \notin Codes(s) \cup Names(s) -> s[i + 1]
         [] OTHER -> s[i]]

AfterRead(s) ==
    [i \in DOMAIN s |->
       CASE i \in Codes(s) -> i + 6 [] i \in Escapes(s) \ Codes(s) -> i + 2 [] OTHER -> i + 1]

ScanRead(s) == U!Walk(Len(s), PutRead(s), AfterRead(s))

(* Where the reader goes on, and that it is a walk as well.                *)
LEMMA AfterReadIs ==
    ASSUME NEW s \in Seq(Int), NEW i \in 1 .. Len(s)
    PROVE  /\ i \in Codes(s) => AfterRead(s)[i] = i + 6
           /\ i \in Escapes(s) \ Codes(s) => AfterRead(s)[i] = i + 2
           /\ i \notin Escapes(s) => AfterRead(s)[i] = i + 1
<1>1. i \in DOMAIN s /\ Codes(s) \subseteq Escapes(s)
  BY DEF Codes
<1> QED
  BY <1>1 DEF AfterRead

LEMMA JsonReadIs ==
    ASSUME NEW s \in Seq(Int)
    PROVE  /\ U!JsonRead(s) = ScanRead(s)[1]
           /\ IsWalk(ScanRead(s), Len(s), PutRead(s), AfterRead(s))
<1>1. U!JsonRead(s) = ScanRead(s)[1]
  BY DEF U!JsonRead, ScanRead, PutRead, AfterRead, Escapes, Codes, Names
<1>2. ASSUME NEW i \in 1 .. Len(s) PROVE AfterRead(s)[i] \in {i + 1, i + 2, i + 6}
  BY AfterReadIs DEF Codes
<1>3. Onward(Len(s), AfterRead(s))
  <2> SUFFICES ASSUME NEW i \in 1 .. Len(s) PROVE AfterRead(s)[i] \in Nat /\ AfterRead(s)[i] > i
    BY DEF Onward
  <2> QED
    BY <1>2
<1> QED
  BY <1>1, <1>3, WalkExists DEF ScanRead

(* The letters of the named escapes.                                       *)
LEMMA NamedIs ==
    /\ DOMAIN U!Named = {10, 13, 9}
    /\ U!Named[10] = 110 /\ U!Named[13] = 114 /\ U!Named[9] = 116
<1>1. DOMAIN U!Named = {10, 13, 9}
  BY DEF U!Named
<1>2. U!Named[10] = 110
  BY DEF U!Named
<1>3. U!Named[13] = 114
  BY DEF U!Named
<1>4. U!Named[9] = 116
  BY DEF U!Named
<1> QED
  BY <1>1, <1>2, <1>3, <1>4

(* What axil_json_escape makes of a character.                             *)
LEMMA JsonEscapeIs ==
    ASSUME NEW c \in Byte
    PROVE  \/ U!JsonEscapeOf(c) = <<c>> /\ c # U!BACKSLASH /\ ~U!IsControl(c)
           \/ /\ U!JsonEscapeOf(c) = <<U!BACKSLASH, c>>
              /\ c \in {U!QUOTE, U!BACKSLASH} /\ ~U!IsControl(c)
           \/ /\ U!JsonEscapeOf(c) = <<U!BACKSLASH, U!Named[c]>>
              /\ c \in DOMAIN U!Named /\ ~U!IsControl(c)
           \/ /\ \E x, y \in Int :
                   /\ U!JsonEscapeOf(c) = <<U!BACKSLASH, 117, 48, 48, x, y>>
                   /\ U!Hex(x) \in 0 .. 15 /\ U!Hex(y) \in 0 .. 15 /\ 16 * U!Hex(x) + U!Hex(y) = c
              /\ U!IsControl(c)
<1> DEFINE h == c \div 16
           l == c % 16
           x == U!LowerHex(h)
           y == U!LowerHex(l)
<1>1. CASE c \in {U!QUOTE, U!BACKSLASH}
  <2>1. c \notin DOMAIN U!Named /\ ~U!IsControl(c)
    BY <1>1, NamedIs DEF U!QUOTE, U!BACKSLASH, U!IsControl
  <2> QED
    BY <1>1, <2>1 DEF U!JsonEscapeOf
<1>2. CASE c \in DOMAIN U!Named
  <2>1. c \notin {U!QUOTE, U!BACKSLASH} /\ ~U!IsControl(c)
    BY <1>2, NamedIs DEF U!QUOTE, U!BACKSLASH, U!IsControl
  <2> QED
    BY <1>2, <2>1 DEF U!JsonEscapeOf
<1>3. CASE U!IsControl(c)
  <2>1. c \notin {U!QUOTE, U!BACKSLASH} /\ c \notin DOMAIN U!Named
    BY <1>3 DEF U!QUOTE, U!BACKSLASH, U!IsControl
  <2>2. U!JsonEscapeOf(c) = <<U!BACKSLASH, 117, 48, 48, x, y>>
    BY <1>3, <2>1 DEF U!JsonEscapeOf
  <2>3. h \in 0 .. 15 /\ l \in 0 .. 15 /\ 16 * h + l = c
    BY DigitsOf
  <2> HIDE DEF h, l
  <2>4. x \in Int /\ y \in Int /\ U!Hex(x) = h /\ U!Hex(y) = l
    BY <2>3, DigitsOf
  <2> HIDE DEF x, y
  <2> QED
    BY <1>3, <2>2, <2>3, <2>4
<1>4. CASE c \notin {U!QUOTE, U!BACKSLASH} /\ c \notin DOMAIN U!Named /\ ~U!IsControl(c)
  BY <1>4 DEF U!JsonEscapeOf
<1> QED
  BY <1>1, <1>2, <1>3, <1>4

(* A block that holds the escape of c, to the reader.                      *)
LEMMA JsonBlock ==
    ASSUME NEW t \in Seq(Int), NEW p \in Nat \ {0}, NEW c \in Byte,
           p + Len(U!JsonEscapeOf(c)) <= Len(t) + 1,
           \A j \in 1 .. Len(U!JsonEscapeOf(c)) : t[p + j - 1] = U!JsonEscapeOf(c)[j]
    PROVE  PutRead(t)[p] = c /\ AfterRead(t)[p] = p + Len(U!JsonEscapeOf(c))
<1> DEFINE e == U!JsonEscapeOf(c)
<1>c. Len(t) \in Nat /\ p \in Nat
  BY LenProperties
<1>1. CASE e = <<c>> /\ c # U!BACKSLASH
  <2>1. Len(e) = 1 /\ e[1] = c /\ 1 \in 1 .. 1 /\ p + 1 - 1 = p
    BY <1>1
  <2>2. p \in 1 .. Len(t) /\ p \in DOMAIN t /\ t[p] = c
    BY <1>c, <2>1
  <2>3. p \notin Escapes(t) /\ p \notin Codes(t) /\ p \notin Names(t)
    BY <1>1, <2>2 DEF Escapes, Codes, Names
  <2>4. PutRead(t)[p] = c
    BY <2>2, <2>3 DEF PutRead
  <2> QED
    BY <2>1, <2>2, <2>3, <2>4, AfterReadIs
<1>2. ASSUME NEW d, e = <<U!BACKSLASH, d>>
      PROVE  /\ Len(e) = 2 /\ t[p + 1] = d /\ p \in 1 .. Len(t) /\ p \in DOMAIN t /\ p \in Escapes(t)
             /\ d # 117 => p \notin Codes(t) /\ AfterRead(t)[p] = p + 2
  <2>1. Len(e) = 2 /\ e[1] = U!BACKSLASH /\ e[2] = d
    BY <1>2
  <2>2. 1 \in 1 .. 2 /\ 2 \in 1 .. 2 /\ p + 1 - 1 = p /\ p + 2 - 1 = p + 1
    BY <1>c
  <2>3. t[p] = U!BACKSLASH /\ t[p + 1] = d
    BY <2>1, <2>2
  <2>4. p < Len(t) /\ p \in 1 .. Len(t) /\ p \in DOMAIN t
    BY <1>c, <2>1
  <2>5. p \in Escapes(t) /\ (d # 117 => p \notin Codes(t))
    BY <2>3, <2>4 DEF Escapes, Codes
  <2> QED
    BY <2>1, <2>3, <2>4, <2>5, AfterReadIs
<1>3. CASE e = <<U!BACKSLASH, c>> /\ c \in {U!QUOTE, U!BACKSLASH}
  <2>1. c # 117 /\ \A d \in DOMAIN U!Named : U!Named[d] # c
    BY <1>3, NamedIs DEF U!QUOTE, U!BACKSLASH
  <2>2. /\ Len(e) = 2 /\ t[p + 1] = c /\ p \in DOMAIN t /\ p \in Escapes(t)
        /\ p \notin Codes(t) /\ AfterRead(t)[p] = p + 2
    BY <1>2, <1>3, <2>1
  <2>3. p \notin Names(t)
    BY <2>1, <2>2 DEF Names
  <2>4. PutRead(t)[p] = c
    BY <2>2, <2>3 DEF PutRead
  <2> QED
    BY <2>2, <2>4
<1>4. CASE e = <<U!BACKSLASH, U!Named[c]>> /\ c \in DOMAIN U!Named
  <2>1. U!Named[c] # 117 /\ \A d \in DOMAIN U!Named : U!Named[d] = U!Named[c] => d = c
    BY <1>4, NamedIs
  <2>2. /\ Len(e) = 2 /\ t[p + 1] = U!Named[c] /\ p \in DOMAIN t /\ p \in Escapes(t)
        /\ p \notin Codes(t) /\ AfterRead(t)[p] = p + 2
    BY <1>2, <1>4, <2>1
  <2>3. p \in Names(t)
    BY <1>4, <2>2 DEF Names
  <2>4. (CHOOSE d \in DOMAIN U!Named : U!Named[d] = t[p + 1]) = c
    BY <1>4, <2>1, <2>2
  <2>5. PutRead(t)[p] = c
    BY <2>2, <2>3, <2>4 DEF PutRead
  <2> QED
    BY <2>2, <2>5
<1>5. ASSUME NEW x \in Int, NEW y \in Int, e = <<U!BACKSLASH, 117, 48, 48, x, y>>,
             U!Hex(x) \in 0 .. 15, U!Hex(y) \in 0 .. 15, 16 * U!Hex(x) + U!Hex(y) = c
      PROVE  PutRead(t)[p] = c /\ AfterRead(t)[p] = p + Len(e)
  <2>1. Len(e) = 6 /\ e[1] = U!BACKSLASH /\ e[2] = 117 /\ e[5] = x /\ e[6] = y
    BY <1>5
  <2>2. /\ 1 \in 1 .. 6 /\ 2 \in 1 .. 6 /\ 5 \in 1 .. 6 /\ 6 \in 1 .. 6
        /\ p + 1 - 1 = p /\ p + 2 - 1 = p + 1 /\ p + 5 - 1 = p + 4 /\ p + 6 - 1 = p + 5
    BY <1>c
  <2>3. t[p] = U!BACKSLASH /\ t[p + 1] = 117 /\ t[p + 4] = x /\ t[p + 5] = y
    BY <2>1, <2>2
  <2>4. p < Len(t) /\ p + 5 <= Len(t) /\ p \in 1 .. Len(t) /\ p \in DOMAIN t
    <3> DEFINE n == Len(t)
    <3>1. p + 6 <= n + 1 /\ n \in Nat /\ p \in Nat \ {0}
      BY <1>c, <2>1
    <3> HIDE DEF n
    <3>2. p < n /\ p + 5 <= n /\ p \in 1 .. n
      BY ONLY <3>1
    <3> QED
      BY <3>2 DEF n
  <2>5. p \in Codes(t) /\ p \notin Names(t)
    <3>1. p \in Escapes(t)
      BY <2>3, <2>4 DEF Escapes
    <3>2. p \in Codes(t)
      BY <2>3, <2>4, <3>1 DEF Codes
    <3>3. \A d \in DOMAIN U!Named : U!Named[d] # 117
      BY NamedIs
    <3>4. p \notin Names(t)
      BY <2>3, <3>3 DEF Names
    <3> QED
      BY <3>2, <3>4
  <2>6. PutRead(t)[p] = 16 * U!Hex(t[p + 4]) + U!Hex(t[p + 5])
    BY <2>4, <2>5 DEF PutRead
  <2>7. PutRead(t)[p] = c
    BY <1>5, <2>3, <2>6
  <2> QED
    BY <2>1, <2>4, <2>5, <2>7, AfterReadIs
<1> QED
  BY <1>1, <1>3, <1>4, <1>5, JsonEscapeIs

(* What the reader reads, when there was place for K.                      *)
LEMMA ReadBack ==
    ASSUME NEW s \in Seq(Byte), NEW K, K <= Len(s), NEW t, NEW b, NEW e,
           MadeOf(t, e, K, b), \A i \in 1 .. K : e[i] = U!JsonEscapeOf(s[i])
    PROVE  U!JsonRead(t) = SubSeq(s, 1, K)
<1>1. K \in Nat /\ Len(s) \in Nat /\ t \in Seq(Int) /\ s \in Seq(Int)
  BY BytesAreInts, LenProperties DEF MadeOf
<1>2. ASSUME NEW i \in 1 .. K
      PROVE  PutRead(t)[b[i]] = s[i] /\ AfterRead(t)[b[i]] = b[i + 1]
  <2>1. i \in 1 .. Len(s) /\ s[i] \in Byte
    BY <1>1, ElementOfSeq
  <2>2. /\ b[i] \in Nat \ {0} /\ b[i + 1] = b[i] + Len(e[i]) /\ b[i + 1] <= Len(t) + 1
        /\ e[i] = U!JsonEscapeOf(s[i])
        /\ \A j \in 1 .. Len(e[i]) : t[b[i] + j - 1] = e[i][j]
    BY DEF MadeOf
  <2> DEFINE p == b[i]
             c == s[i]
  <2>3. /\ p \in Nat \ {0} /\ c \in Byte /\ p + Len(U!JsonEscapeOf(c)) <= Len(t) + 1
        /\ b[i + 1] = p + Len(U!JsonEscapeOf(c))
        /\ \A j \in 1 .. Len(U!JsonEscapeOf(c)) : t[p + j - 1] = U!JsonEscapeOf(c)[j]
    BY <2>1, <2>2
  <2> HIDE DEF p, c
  <2>4. PutRead(t)[p] = c /\ AfterRead(t)[p] = b[i + 1]
    BY <1>1, <2>3, JsonBlock
  <2> QED
    BY <2>4 DEF p, c
<1>3. ASSUME NEW i \in 1 .. K PROVE Len(e[i]) # 0
  <2>1. i \in 1 .. Len(s) /\ s[i] \in Byte
    BY <1>1, ElementOfSeq
  <2> DEFINE c == s[i]
  <2>2. c \in Byte
    BY <2>1
  <2> HIDE DEF c
  <2>3. Len(U!JsonEscapeOf(c)) # 0
    <3>1. CASE U!JsonEscapeOf(c) = <<c>>
      BY <3>1
    <3>2. ASSUME NEW d, U!JsonEscapeOf(c) = <<U!BACKSLASH, d>>
          PROVE  Len(U!JsonEscapeOf(c)) # 0
      BY <3>2
    <3>3. ASSUME NEW x, NEW y, U!JsonEscapeOf(c) = <<U!BACKSLASH, 117, 48, 48, x, y>>
          PROVE  Len(U!JsonEscapeOf(c)) # 0
      BY <3>3
    <3> QED
      BY <2>2, <3>1, <3>2, <3>3, JsonEscapeIs
  <2> QED
    BY <2>3 DEF c
<1>4. Reads(ScanRead(t), PutRead(t), AfterRead(t), s, t, K, b)
  BY <1>1, <1>2, JsonReadIs DEF Reads
<1>5. ScanRead(t)[1] = SubSeq(s, 1, K)
  BY <1>3, <1>4, BlockWalk
<1> QED
  BY <1>1, <1>5, JsonReadIs

(* axil_json_escape into a buffer of outlen bytes, read by a reader of     *)
(* JSON.                                                                   *)
LEMMA JsonComesBack ==
    ASSUME NEW s \in Seq(Byte), NEW outlen \in Nat \ {0}
    PROVE  \E K \in 0 .. Len(s) :
             /\ Len(U!JsonEscape(s, outlen)) < outlen
             /\ U!JsonRead(U!JsonEscape(s, outlen)) = SubSeq(s, 1, K)
             /\ outlen >= 6 * Len(s) + 2 => K = Len(s)
<1> DEFINE n == Len(s)
           e == [i \in DOMAIN s |-> U!JsonEscapeOf(s[i])]
           room == [i \in DOMAIN s |-> IF U!IsControl(s[i]) THEN 6 ELSE 2]
<1>1. n \in Nat /\ DOMAIN s = 1 .. n
  BY LenProperties
<1>2. ASSUME NEW i \in 1 .. n
      PROVE  /\ e[i] \in Seq(Int) /\ room[i] \in {2, 6} /\ Len(e[i]) <= room[i]
             /\ e[i] = U!JsonEscapeOf(s[i])
  <2>1. s[i] \in Byte /\ e[i] = U!JsonEscapeOf(s[i]) /\ room[i] = IF U!IsControl(s[i]) THEN 6 ELSE 2
    BY <1>1, ElementOfSeq
  <2> DEFINE c == s[i]
  <2>2. c \in Byte /\ c \in Int
    BY <2>1 DEF Byte
  <2> HIDE DEF c
  <2>3. U!JsonEscapeOf(c) \in Seq(Int) /\ Len(U!JsonEscapeOf(c)) <= IF U!IsControl(c) THEN 6 ELSE 2
    <3>1. CASE U!JsonEscapeOf(c) = <<c>> /\ ~U!IsControl(c)
      BY <2>2, <3>1
    <3>2. ASSUME NEW d \in Int, U!JsonEscapeOf(c) = <<U!BACKSLASH, d>>, ~U!IsControl(c)
          PROVE  U!JsonEscapeOf(c) \in Seq(Int) /\ Len(U!JsonEscapeOf(c)) <= IF U!IsControl(c) THEN 6 ELSE 2
      BY <3>2 DEF U!BACKSLASH
    <3>3. ASSUME NEW x \in Int, NEW y \in Int,
                 U!JsonEscapeOf(c) = <<U!BACKSLASH, 117, 48, 48, x, y>>, U!IsControl(c)
          PROVE  U!JsonEscapeOf(c) \in Seq(Int) /\ Len(U!JsonEscapeOf(c)) <= IF U!IsControl(c) THEN 6 ELSE 2
      BY <3>3 DEF U!BACKSLASH
    <3>4. c \in DOMAIN U!Named => U!Named[c] \in Int
      BY NamedIs
    <3> QED
      BY <2>2, <3>1, <3>2, <3>3, <3>4, JsonEscapeIs
  <2> QED
    BY <2>1, <2>3 DEF c
<1>3. e \in [1 .. n -> Seq(Int)] /\ room \in [1 .. n -> Nat]
  BY <1>1, <1>2
<1> DEFINE t == U!JsonEscape(s, outlen)
<1>4. t = U!Escaped(e, room, outlen)
  BY DEF U!JsonEscape
<1> HIDE DEF e, room, t
<1>6. \A i \in 1 .. n : Len(e[i]) <= room[i] /\ Len(e[i]) <= 6 /\ room[i] <= 6 + 1
  <2> SUFFICES ASSUME NEW i \in 1 .. n PROVE Len(e[i]) <= room[i] /\ Len(e[i]) <= 6 /\ room[i] <= 6 + 1
    OBVIOUS
  <2>1. Len(e[i]) \in Nat /\ Len(e[i]) <= room[i] /\ room[i] \in {2, 6}
    BY <1>2, LenProperties
  <2> QED
    BY <2>1
<1>5. PICK K, b : Written(t, K, b, n, e, room, outlen)
  <2> HIDE DEF n
  <2> QED
    BY <1>1, <1>3, <1>4, <1>6, EscapedIsWritten
<1>7. /\ Len(t) < outlen /\ t \in Seq(Int) /\ K \in 0 .. n /\ K <= n /\ MadeOf(t, e, K, b)
  <2>1. Len(t) < outlen /\ K \in Nat /\ K <= n /\ MadeOf(t, e, K, b)
    BY <1>5, Zenon DEF Written
  <2>2. t \in Seq(Int)
    BY <2>1, Zenon DEF MadeOf
  <2>3. K \in 0 .. n
    <3> HIDE DEF n
    <3> QED
      BY <1>1, <2>1
  <2> QED
    BY <2>1, <2>2, <2>3
<1>9. U!JsonRead(t) = SubSeq(s, 1, K)
  <2>1. \A i \in 1 .. K : e[i] = U!JsonEscapeOf(s[i])
    BY <1>1, <1>2, <1>7
  <2> QED
    BY <1>7, <2>1, ReadBack
<1>11. outlen >= 6 * n + 2 => K = n
  BY <1>5, <1>6, AllWritten
<1> QED
  BY <1>7, <1>9, <1>11 DEF t

(* The first K characters are a beginning of s, and all of it if K is its  *)
(* length.                                                                 *)
LEMMA Beginning ==
    ASSUME NEW s \in Seq(Byte), NEW K \in 0 .. Len(s)
    PROVE  U!IsPrefix(SubSeq(s, 1, K), s) /\ (K = Len(s) => SubSeq(s, 1, K) = s)
<1>1. Len(s) \in Nat
  BY LenProperties
<1>2. Len(SubSeq(s, 1, K)) = K
  BY <1>1, SubSeqProperties
<1>3. U!IsPrefix(SubSeq(s, 1, K), s)
  BY <1>1, <1>2 DEF U!IsPrefix
<1>4. SubSeq(s, 1, Len(s)) = s
  BY SubSeqFull
<1> QED
  BY <1>3, <1>4

(* For texts of any bytes and buffers of any size, what axil_url_encode and *)
(* axil_json_escape make fits, and what is read back of it is the text or a *)
(* beginning of it.                                                         *)
THEOREM AnyTextComesBack ==
    \A s \in Seq(Byte) : \A outlen \in Nat \ {0} : U!ComesBack(s, outlen)
<1> SUFFICES ASSUME NEW s \in Seq(Byte), NEW outlen \in Nat \ {0} PROVE U!ComesBack(s, outlen)
  OBVIOUS
<1> DEFINE url == U!UrlEncode(s, outlen)
           json == U!JsonEscape(s, outlen)
<1>1. PICK K \in 0 .. Len(s) :
        /\ Len(url) < outlen
        /\ U!UrlDecode(url, outlen) = SubSeq(s, 1, K) /\ U!QueryValue(url) = SubSeq(s, 1, K)
        /\ outlen >= 3 * Len(s) + 2 => K = Len(s)
  BY UrlComesBack
<1>2. PICK J \in 0 .. Len(s) :
        /\ Len(json) < outlen /\ U!JsonRead(json) = SubSeq(s, 1, J)
        /\ outlen >= 6 * Len(s) + 2 => J = Len(s)
  BY JsonComesBack
<1>3. /\ U!IsPrefix(SubSeq(s, 1, K), s) /\ (K = Len(s) => SubSeq(s, 1, K) = s)
      /\ U!IsPrefix(SubSeq(s, 1, J), s) /\ (J = Len(s) => SubSeq(s, 1, J) = s)
  BY Beginning
<1> HIDE DEF url, json
<1>4. /\ Len(url) < outlen /\ Len(json) < outlen
      /\ U!IsPrefix(U!UrlDecode(url, outlen), s) /\ U!IsPrefix(U!QueryValue(url), s)
      /\ U!IsPrefix(U!JsonRead(json), s)
      /\ outlen >= 3 * Len(s) + 2 => U!UrlDecode(url, outlen) = s
      /\ outlen >= 6 * Len(s) + 2 => U!JsonRead(json) = s
  BY <1>1, <1>2, <1>3
<1> QED
  BY <1>4 DEF U!ComesBack, url, json

-----------------------------------------------------------------------------
(* The texts of the model are strings of bytes.                            *)
LEMMA TextsAreBytes == MCSpec => [](text \in Seq(Byte))
<1>1. MCInit => text \in Seq(Byte)
  BY EmptySeq DEF MCInit, NoString, Init
<1>2. text \in Seq(Byte) /\ [MCNext]_<<what, date, string, vars>> => (text \in Seq(Byte))'
  <2> SUFFICES ASSUME text \in Seq(Byte), [MCNext]_<<what, date, string, vars>>
               PROVE  text' \in Seq(Byte)
    OBVIOUS
  <2>1. CASE Longer
    <3>1. PICK p \in TargetParts \cup TextParts : text' = text \o p
      BY <2>1 DEF Longer
    <3>2. p \in Seq(Byte)
      <4>1. ASSUME NEW a \in Byte, NEW b \in Byte, NEW c \in Byte
            PROVE  <<a>> \in Seq(Byte) /\ <<a, b>> \in Seq(Byte) /\ <<a, b, c>> \in Seq(Byte)
        OBVIOUS
      <4>2. /\ {46, 47, 63, 43, 37, 50, 101, 53, 69, 102, 51} \subseteq Byte
            /\ {97, 50, 37, 43, 32, 34, 92, 10, 1, 233} \subseteq Byte
        BY DEF Byte
      <4>3. CASE p \in TargetParts
        <5>1. /\ <<47>> \in Seq(Byte) /\ <<46>> \in Seq(Byte) /\ <<63>> \in Seq(Byte)
              /\ <<43>> \in Seq(Byte)
          BY <4>1, <4>2
        <5>2. /\ <<50, 69>> \in Seq(Byte) /\ <<50, 102>> \in Seq(Byte)
              /\ <<37, 51>> \in Seq(Byte)
          BY <4>1, <4>2
        <5>3. /\ <<37, 50, 101>> \in Seq(Byte) /\ <<37, 50, 53>> \in Seq(Byte)
              /\ <<37, 50, 102>> \in Seq(Byte)
          BY <4>1, <4>2
        <5>4. \/ p \in {<<47>>, <<46>>, <<63>>, <<43>>}
              \/ p \in {<<50, 69>>, <<50, 102>>, <<37, 51>>}
              \/ p \in {<<37, 50, 101>>, <<37, 50, 53>>, <<37, 50, 102>>}
          BY <4>3, Zenon DEF TargetParts
        <5>5. CASE p \in {<<47>>, <<46>>, <<63>>, <<43>>}
          BY <5>1, <5>5
        <5>6. CASE p \in {<<50, 69>>, <<50, 102>>, <<37, 51>>}
          BY <5>2, <5>6
        <5>7. CASE p \in {<<37, 50, 101>>, <<37, 50, 53>>, <<37, 50, 102>>}
          BY <5>3, <5>7
        <5> QED
          BY <5>4, <5>5, <5>6, <5>7, Zenon
      <4>4. CASE p \in TextParts
        <5>1. PICK c \in {97, 50, 37, 43, 32, 34, 92, 10, 1, 233} : p = <<c>>
          BY <4>4, Zenon DEF TextParts
        <5>2. c \in Byte
          BY <4>2
        <5> QED
          BY <4>1, <5>1, <5>2
      <4> QED
        BY <4>3, <4>4
    <3> QED
      BY <3>1, <3>2, ConcatProperties
  <2>2. CASE UNCHANGED string
    BY <2>2 DEF string
  <2> QED
    BY <2>1, <2>2 DEF MCNext, Tomorrow
<1> QED
  BY <1>1, <1>2, PTL DEF MCSpec

(* An accepted target stays under the root (request_askedis_safe,          *)
(* axil_url_decode and request_handle), in every state of the model.       *)
THEOREM TargetsStayInside == MCSpec => []StaysInside
<1>1. text \in Seq(Byte) => StaysInside
  BY BytesAreInts, AnyTargetStaysInside DEF StaysInside
<1> QED
  BY <1>1, TextsAreBytes, PTL

(* What was escaped comes back (axil_url_encode and axil_json_escape), in  *)
(* every state of the model.                                               *)
THEOREM TextsComeBack == MCSpec => []ComesBack
<1>1. text \in Seq(Byte) => ComesBack
  <2>1. \A outlen \in 1 .. 6 * MaxChars + 2 : outlen \in Nat \ {0}
    BY StaticAssumption
  <2> QED
    BY <2>1, AnyTextComesBack DEF ComesBack
<1> QED
  BY <1>1, TextsAreBytes, PTL
=============================================================================
