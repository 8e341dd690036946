----------------------------- MODULE BaseProofs -----------------------------
(***************************************************************************)
(* Proofs about the parts of the base library that compute: LogFile, for   *)
(* every day length, roll size and number of lines between two looks at    *)
(* the clock, and for a clock that is set to any time; Date, for every day *)
(* from year -4712 on; TimeZone, for every well formed zone file; and      *)
(* LogStream, for every buffer size and every int.                         *)
(*                                                                         *)
(* What a loop computes is proved by contradiction: a set of natural       *)
(* numbers, here of counterexamples, has a least element (LeastNat).       *)
(***************************************************************************)
EXTENDS LogFile, Date, TimeZone, LogStream,
        SequenceTheorems, WellFoundedInduction, TLAPS

-----------------------------------------------------------------------------
(* LogFile.                                                                *)

LogRecord == [count_ : Nat, startOfPeriod_ : Int, lastRoll_ : Nat, lastFlush_ : Nat,
              name : Nat, writtenBytes_ : Nat, buffered : BOOLEAN, inOrder : BOOLEAN]

LogTypes ==
    /\ log \in LogRecord
    /\ wall \in Nat
    /\ lastAppend \in Nat
    /\ late \in Nat

\* The file is named after the second of the last roll, and its day is that
\* second's; of the lines since the last look at the clock at most count_ can
\* have come too late for it.
LogMembers ==
    /\ log.name = log.lastRoll_
    /\ log.startOfPeriod_ = startOfPeriod(log.lastRoll_)
    /\ log.count_ < checkEveryN_
    /\ late <= log.count_

LogInv == LogTypes /\ LogMembers /\ RollsBySize /\ log.inOrder = TRUE

\* The constants are natural numbers.
LEMMA LogConstants ==
    /\ kRollPerSeconds_ \in Nat \ {0}
    /\ checkEveryN_ \in Nat \ {0}
    /\ rollSize_ \in Nat
    /\ MaxClock \in Nat
    /\ LineLengths \subseteq Nat
  BY LogFileAssumption

\* Only a later second can belong to a later day.
LEMMA DaysAreOrdered ==
    ASSUME NEW a \in Nat, NEW b \in Nat
    PROVE  /\ startOfPeriod(a) \in Int
           /\ startOfPeriod(a) > startOfPeriod(b) => a > b
  <1> DEFINE k == kRollPerSeconds_
             p == a \div k
             q == b \div k
  <1>1. k \in Nat /\ k > 0
    BY LogConstants
  <1>2. /\ p \in Int /\ q \in Int
        /\ p * k <= a /\ b < q * k + k
    BY <1>1
  <1> HIDE DEF p, q, k
  <1>3. p * k \in Int /\ q * k \in Int
    BY <1>1, <1>2
  <1>4. ASSUME p * k > q * k PROVE p * k >= q * k + k
    <2>1. p > q
      BY <1>1, <1>2, <1>4
    <2>2. (p - (q + 1)) * k >= 0
      BY <1>1, <1>2, <2>1
    <2>3. (p - (q + 1)) * k = p * k - (q * k + k)
      BY <1>1, <1>2
    <2> QED
      BY <1>1, <1>3, <2>2, <2>3
  <1>5. startOfPeriod(a) = p * k /\ startOfPeriod(b) = q * k
    BY DEF startOfPeriod, p, q, k
  <1> QED
    BY <1>1, <1>2, <1>3, <1>4, <1>5

\* rollFile() opens a file when the clock is past the last roll, which a later
\* day always is, and does nothing otherwise.
LEMMA RollFileRolls ==
    ASSUME LogInv, NEW l \in LogRecord, NEW now \in Nat,
           l.lastRoll_ = log.lastRoll_, l.name = log.name, l.inOrder = TRUE
    PROVE  LET r == rollFile(l, now)
           IN  /\ now > log.lastRoll_ =>
                    r = [l EXCEPT !.name = now, !.lastRoll_ = now, !.lastFlush_ = now,
                                  !.startOfPeriod_ = startOfPeriod(now),
                                  !.writtenBytes_ = 0, !.buffered = FALSE]
               /\ ~(now > log.lastRoll_) => r = l
  <1>2. CASE now > log.lastRoll_
    <2>1. (l.inOrder /\ now > l.name) = l.inOrder
      BY <1>2 DEF LogInv, LogMembers
    <2> QED
      BY <1>2, <2>1 DEF rollFile, AppendFile, LogRecord
  <1>3. CASE ~(now > log.lastRoll_)
    BY <1>3 DEF rollFile
  <1> QED
    BY <1>2, <1>3

\* The constructor opens the first file.
LEMMA LogInvInit == LogInit => LogInv
  <1> SUFFICES ASSUME LogInit PROVE LogInv
    OBVIOUS
  <1> DEFINE l == [count_ |-> 0, startOfPeriod_ |-> 0, lastRoll_ |-> 0,
                   lastFlush_ |-> 0, name |-> 0, writtenBytes_ |-> 0,
                   buffered |-> FALSE, inOrder |-> TRUE]
  <1>1. /\ wall = 1 /\ lastAppend = 0 /\ late = 0
        /\ log = rollFile(l, wall)
    BY DEF LogInit
  <1>2. /\ l \in LogRecord /\ l.count_ = 0 /\ l.inOrder = TRUE /\ l.name = 0 /\ l.lastRoll_ = 0
    BY DEF LogRecord
  <1> HIDE DEF l
  <1>3. log = [l EXCEPT !.name = 1, !.lastRoll_ = 1, !.lastFlush_ = 1,
                        !.startOfPeriod_ = startOfPeriod(1),
                        !.writtenBytes_ = 0, !.buffered = FALSE]
    <2>1. 1 > l.lastRoll_ /\ 1 > l.name
      BY <1>2
    <2>2. (l.inOrder /\ 1 > l.name) = l.inOrder
      BY <1>2, <2>1, Zenon
    <2> QED
      BY <1>1, <1>2, <2>1, <2>2 DEF rollFile, AppendFile, LogRecord
  <1>4. startOfPeriod(1) \in Int
    BY DaysAreOrdered
  <1>5. /\ log \in LogRecord /\ log.count_ = 0 /\ log.inOrder = TRUE
        /\ log.name = 1 /\ log.lastRoll_ = 1
        /\ log.startOfPeriod_ = startOfPeriod(1)
        /\ log.writtenBytes_ = 0
    <2> DEFINE z == startOfPeriod(1)
    <2>1. z \in Int /\ log = [l EXCEPT !.name = 1, !.lastRoll_ = 1, !.lastFlush_ = 1,
                               !.startOfPeriod_ = z, !.writtenBytes_ = 0, !.buffered = FALSE]
      BY <1>3, <1>4
    <2> HIDE DEF z
    <2>2. /\ log \in LogRecord /\ log.name = 1 /\ log.lastRoll_ = 1 /\ log.startOfPeriod_ = z
          /\ log.writtenBytes_ = 0 /\ log.count_ = l.count_ /\ log.inOrder = l.inOrder
      BY ONLY <1>2, <2>1 DEF LogRecord
    <2> QED
      BY <1>2, <2>2 DEF z
  <1> QED
    BY <1>1, <1>5, LogConstants DEF LogInv, LogTypes, LogMembers, RollsBySize

\* append() keeps the invariant, whichever of its tests succeeds.
LEMMA LogAppendStep ==
    ASSUME LogInv, LogAppend
    PROVE  LogInv'
  <1>1. PICK len \in LineLengths, again \in wall..MaxClock :
          /\ log' = append_unlocked(log, len, again)
          /\ late' = IF IsLate /\ log'.name = log.name THEN late + 1 ELSE 0
          /\ lastAppend' = again
          /\ wall' = again
    BY DEF LogAppend
  <1>2. /\ len \in Nat /\ wall \in Nat /\ late \in Nat
        /\ log \in LogRecord /\ log.inOrder = TRUE
        /\ log.name = log.lastRoll_
        /\ log.startOfPeriod_ = startOfPeriod(log.lastRoll_)
        /\ log.count_ < checkEveryN_ /\ late <= log.count_
        /\ checkEveryN_ \in Nat \ {0} /\ rollSize_ \in Nat
    BY LogConstants DEF LogInv, LogTypes, LogMembers
  <1>2a. again \in Nat /\ again >= wall
    BY <1>2, LogConstants
  <1> DEFINE m == [log EXCEPT !.writtenBytes_ = @ + len, !.buffered = TRUE]
  <1>3. /\ startOfPeriod(wall) \in Int
        /\ startOfPeriod(log.lastRoll_) \in Int
        /\ IsLate => wall > log.lastRoll_
        /\ IsLate => startOfPeriod(wall) # log.startOfPeriod_
    <2>1. log.lastRoll_ \in Nat
      BY <1>2 DEF LogRecord
    <2>2. /\ startOfPeriod(wall) \in Int /\ startOfPeriod(log.lastRoll_) \in Int
          /\ startOfPeriod(wall) > startOfPeriod(log.lastRoll_) => wall > log.lastRoll_
      BY <1>2, <2>1, DaysAreOrdered
    <2> QED
      BY <1>2, <2>2 DEF IsLate
  <1>4. /\ m \in LogRecord
        /\ m.lastRoll_ = log.lastRoll_ /\ m.name = log.name /\ m.inOrder = TRUE
        /\ m.startOfPeriod_ = log.startOfPeriod_
        /\ m.count_ = log.count_
    <2>1. log.writtenBytes_ + len \in Nat
      BY <1>2 DEF LogRecord
    <2> QED
      BY <1>2, <2>1 DEF LogRecord
  <1>5. log' = CASE m.writtenBytes_ > rollSize_ -> rollFile(m, again)
                 [] m.writtenBytes_ <= rollSize_ /\ m.count_ + 1 >= checkEveryN_ ->
                       periodicCheck([m EXCEPT !.count_ = 0], again)
                 [] OTHER -> [m EXCEPT !.count_ = @ + 1]
    BY <1>1 DEF append_unlocked, fileAppend
  <1> HIDE DEF m
  <1>6. ASSUME NEW l \in LogRecord, l.inOrder = TRUE, l.count_ < checkEveryN_,
               l.lastRoll_ = log.lastRoll_, l.name = log.name,
               l.startOfPeriod_ = log.startOfPeriod_,
               log' = rollFile(l, again)
        PROVE  LogInv'
    <2>1. CASE again > log.lastRoll_
      <3>1. log' = [l EXCEPT !.name = again, !.lastRoll_ = again, !.lastFlush_ = again,
                             !.startOfPeriod_ = startOfPeriod(again),
                             !.writtenBytes_ = 0, !.buffered = FALSE]
        BY <1>2a, <1>6, <2>1, RollFileRolls
      <3>2. /\ log' \in LogRecord /\ log'.inOrder = TRUE /\ log'.name = again
            /\ log'.lastRoll_ = again /\ log'.startOfPeriod_ = startOfPeriod(again)
            /\ log'.count_ = l.count_ /\ log'.writtenBytes_ = 0
        <4> DEFINE z == startOfPeriod(again)
        <4>1. /\ z \in Int /\ again \in Nat /\ l \in LogRecord
              /\ log' = [l EXCEPT !.name = again, !.lastRoll_ = again, !.lastFlush_ = again,
                                  !.startOfPeriod_ = z, !.writtenBytes_ = 0,
                                  !.buffered = FALSE]
          BY <1>2, <1>2a, <3>1, DaysAreOrdered
        <4> HIDE DEF z
        <4>2. /\ log' \in LogRecord /\ log'.name = again /\ log'.lastRoll_ = again
              /\ log'.startOfPeriod_ = z /\ log'.writtenBytes_ = 0
              /\ log'.count_ = l.count_ /\ log'.inOrder = l.inOrder
          BY ONLY <4>1 DEF LogRecord
        <4> QED
          BY <1>6, <4>2 DEF z
      <3>3. late' = 0
        BY <1>1, <1>2, <2>1, <3>2 DEF LogRecord
      <3> QED
        BY <1>1, <1>2, <1>2a, <1>6, <3>2, <3>3
           DEF LogInv, LogTypes, LogMembers, RollsBySize, LogRecord
    <2>2. CASE ~(again > log.lastRoll_)
      <3>1. log' = l
        BY <1>2a, <1>6, <2>2, RollFileRolls
      <3>2. late' = 0 /\ again <= log.lastRoll_
        BY <1>1, <1>2, <1>2a, <1>3, <2>2 DEF LogRecord
      <3> QED
        BY <1>1, <1>2, <1>2a, <1>6, <3>1, <3>2
           DEF LogInv, LogTypes, LogMembers, RollsBySize, LogRecord
    <2> QED
      BY <2>1, <2>2
  <1>7. CASE m.writtenBytes_ > rollSize_
    <2>1. m.writtenBytes_ \in Nat
      BY <1>4 DEF LogRecord
    <2>2. ~(m.writtenBytes_ <= rollSize_ /\ m.count_ + 1 >= checkEveryN_)
      BY <1>2, <1>7, <2>1
    <2>3. log' = rollFile(m, again)
      BY <1>5, <1>7, <2>2
    <2> QED
      BY <1>2, <1>4, <1>6, <2>3, Zenon
  <1>8. CASE m.writtenBytes_ <= rollSize_ /\ m.count_ + 1 >= checkEveryN_
    <2> DEFINE n == [m EXCEPT !.count_ = 0]
    <2>1. /\ n \in LogRecord /\ n.inOrder = TRUE /\ n.count_ = 0
          /\ n.lastRoll_ = log.lastRoll_ /\ n.name = log.name
          /\ n.startOfPeriod_ = log.startOfPeriod_
          /\ n.writtenBytes_ <= rollSize_
      BY <1>4, <1>8 DEF LogRecord
    <2>2. log' = periodicCheck(n, again)
      BY <1>2, <1>4, <1>5, <1>8 DEF LogRecord
    <2> HIDE DEF n
    <2>3. CASE startOfPeriod(wall) # n.startOfPeriod_
      <3>1. log' = rollFile(n, again)
        BY <2>2, <2>3 DEF periodicCheck
      <3>2. n.count_ < checkEveryN_
        BY <1>2, <2>1
      <3> QED
        BY <1>6, <2>1, <3>1, <3>2, Zenon
    <2>4. CASE startOfPeriod(wall) = n.startOfPeriod_
      <3>1. late' = 0
        BY <1>1, <1>3, <2>1, <2>4
      <3>2. /\ log' \in LogRecord /\ log'.inOrder = TRUE /\ log'.count_ = 0
            /\ log'.lastRoll_ = log.lastRoll_ /\ log'.name = log.name
            /\ log'.startOfPeriod_ = log.startOfPeriod_
            /\ log'.writtenBytes_ <= rollSize_
        <4>1. log' = n \/ log' = [n EXCEPT !.lastFlush_ = wall, !.buffered = FALSE]
          BY <2>1, <2>2, <2>4 DEF periodicCheck, fileFlush, LogRecord
        <4> QED
          BY <1>2, <2>1, <4>1 DEF LogRecord
      <3> QED
        BY <1>1, <1>2, <1>2a, <3>1, <3>2 DEF LogInv, LogTypes, LogMembers, RollsBySize, LogRecord
    <2> QED
      BY <2>3, <2>4
  <1>9. CASE m.writtenBytes_ <= rollSize_ /\ ~(m.count_ + 1 >= checkEveryN_)
    <2>1. log' = [m EXCEPT !.count_ = m.count_ + 1]
      BY <1>2, <1>4, <1>5, <1>9 DEF LogRecord
    <2>2. /\ log' \in LogRecord /\ log'.inOrder = TRUE /\ log'.count_ = log.count_ + 1
          /\ log'.lastRoll_ = log.lastRoll_ /\ log'.name = log.name
          /\ log'.startOfPeriod_ = log.startOfPeriod_
          /\ log'.writtenBytes_ <= rollSize_
          /\ log'.count_ < checkEveryN_
      BY <1>2, <1>4, <1>9, <2>1 DEF LogRecord
    <2>3. late' \in Nat /\ late' <= log.count_ + 1
      BY <1>1, <1>2 DEF LogRecord
    <2> QED
      BY <1>1, <1>2, <1>2a, <2>2, <2>3 DEF LogInv, LogTypes, LogMembers, RollsBySize, LogRecord
  <1> QED
    BY <1>2, <1>4, <1>7, <1>8, <1>9 DEF LogRecord

\* So do the other steps, of the clock too.
LEMMA LogInvStep == LogInv /\ [LogNext]_logVars => LogInv'
  <1> SUFFICES ASSUME LogInv, [LogNext]_logVars PROVE LogInv'
    OBVIOUS
  <1>1. CASE LogAppend
    BY <1>1, LogAppendStep
  <1>2. CASE LogFlush
    BY <1>2 DEF LogFlush, fileFlush, LogInv, LogTypes, LogRecord, LogMembers, RollsBySize
  <1>3. CASE RollFile
    <2>1. /\ log \in LogRecord /\ log.inOrder = TRUE /\ wall \in Nat
          /\ wall' = wall /\ lastAppend' = lastAppend /\ log' = rollFile(log, wall)
          /\ late' = IF log'.name = log.name THEN late ELSE 0
      BY <1>3 DEF RollFile, LogInv, LogTypes
    <2>2. CASE wall > log.lastRoll_
      <3>1. log' = [log EXCEPT !.name = wall, !.lastRoll_ = wall, !.lastFlush_ = wall,
                               !.startOfPeriod_ = startOfPeriod(wall),
                               !.writtenBytes_ = 0, !.buffered = FALSE]
        BY <2>1, <2>2, RollFileRolls
      <3>2. startOfPeriod(wall) \in Int
        BY <2>1, DaysAreOrdered
      <3>3. /\ log' \in LogRecord /\ log'.inOrder = TRUE /\ log'.name = wall
            /\ log'.lastRoll_ = wall /\ log'.startOfPeriod_ = startOfPeriod(wall)
            /\ log'.count_ = log.count_ /\ log'.writtenBytes_ = 0
        <4> DEFINE z == startOfPeriod(wall)
        <4>1. /\ z \in Int /\ wall \in Nat /\ log \in LogRecord
              /\ log' = [log EXCEPT !.name = wall, !.lastRoll_ = wall, !.lastFlush_ = wall,
                                    !.startOfPeriod_ = z, !.writtenBytes_ = 0,
                                    !.buffered = FALSE]
          BY <2>1, <3>1, <3>2
        <4> HIDE DEF z
        <4>2. /\ log' \in LogRecord /\ log'.name = wall /\ log'.lastRoll_ = wall
              /\ log'.startOfPeriod_ = z /\ log'.writtenBytes_ = 0
              /\ log'.count_ = log.count_ /\ log'.inOrder = log.inOrder
          BY ONLY <4>1 DEF LogRecord
        <4> QED
          BY <2>1, <4>2 DEF z
      <3>4. late' = 0
        BY <2>1, <2>2, <3>3 DEF LogInv, LogMembers, LogRecord
      <3> QED
        BY <2>1, <3>3, <3>4, LogConstants
           DEF LogInv, LogTypes, LogRecord, LogMembers, RollsBySize
    <2>3. CASE ~(wall > log.lastRoll_)
      <3>1. log' = log
        BY <2>1, <2>3, RollFileRolls
      <3> QED
        BY <2>1, <3>1 DEF LogInv, LogTypes, LogMembers, RollsBySize
    <2> QED
      BY <2>2, <2>3
  <1>4. CASE SetClock
    BY <1>4, LogConstants DEF SetClock, LogInv, LogTypes, LogMembers, RollsBySize
  <1>5. CASE UNCHANGED logVars
    BY <1>5 DEF logVars, LogInv, LogTypes, LogMembers, RollsBySize
  <1> QED
    BY <1>1, <1>2, <1>3, <1>4, <1>5 DEF LogNext

\* A log rolls in time whatever the clock does between the calls and whatever the
\* sizes are: by size as soon as the clock has moved on, by day after fewer than
\* checkEveryN_ lines, and always to a file that is newer than all before.
THEOREM LogRollsInTime == LogSpec => []RollsInTime
  <1>1. LogInv => RollsInTime
    BY LogConstants DEF LogInv, LogTypes, LogRecord, LogMembers, RollsInTime, RollsByDay
  <1> QED
    BY <1>1, LogInvInit, LogInvStep, PTL DEF LogSpec

-----------------------------------------------------------------------------
(* Date.                                                                   *)

\* The year and the month counted from March 4801 BC, as both formulas do, the
\* days of a year before its month m, the days before year y, and the years the
\* model has.
MarchYear(year, month) == IF month <= 2 THEN year + 4799 ELSE year + 4800
MarchMonth(month) == IF month <= 2 THEN month + 9 ELSE month - 3
DaysBefore(m) == (153 * m + 2) \div 5
YearStart(y) == 365 * y + y \div 4 - y \div 100 + y \div 400
Years == {y \in Int : y >= -4712}

\* C++'s division and the integer division agree where nothing is negative.
LEMMA QuotientNat ==
    ASSUME NEW a \in Nat, NEW b \in Nat \ {0}
    PROVE  Quotient(a, b) = a \div b
  BY DEF Quotient

\* A year from -4712 on is counted from zero, so no division truncates.
LEMMA Shifted ==
    ASSUME NEW year \in Years, NEW month \in 1..12
    PROVE  MarchYear(year, month) \in Nat /\ MarchMonth(month) \in 0..11
  BY DEF Years, MarchYear, MarchMonth

\* getJulianDayNumber() adds the days of the years, of the months and the day.
LEMMA DayNumber ==
    ASSUME NEW year \in Years, NEW month \in 1..12, NEW day \in Int
    PROVE  getJulianDayNumber(year, month, day) =
             day + DaysBefore(MarchMonth(month)) + YearStart(MarchYear(year, month)) - 32045
  <1> DEFINE a == Quotient(14 - month, 12)
             y == year + 4800 - a
             m == month + 12 * a - 3
  <1>1. a = IF month <= 2 THEN 1 ELSE 0
    <2>1. Quotient(14 - month, 12) = (14 - month) \div 12
      BY QuotientNat
    <2> QED
      BY <2>1
  <1>2. y = MarchYear(year, month) /\ m = MarchMonth(month)
    BY <1>1 DEF MarchYear, MarchMonth, Years
  <1>3. y \in Nat /\ m \in 0..11
    BY <1>2, Shifted
  <1>4. getJulianDayNumber(year, month, day) =
          day + Quotient(153 * m + 2, 5) + y * 365 + Quotient(y, 4) - Quotient(y, 100)
              + Quotient(y, 400) - 32045
    BY DEF getJulianDayNumber
  <1> HIDE DEF a, y, m
  <1>5. /\ Quotient(153 * m + 2, 5) = (153 * m + 2) \div 5
        /\ Quotient(y, 4) = y \div 4
        /\ Quotient(y, 100) = y \div 100
        /\ Quotient(y, 400) = y \div 400
    <2>1. 153 * m + 2 \in Nat
      BY <1>3
    <2>2. Quotient(153 * m + 2, 5) = (153 * m + 2) \div 5
      BY <2>1, QuotientNat
    <2>3. Quotient(y, 4) = y \div 4
      BY <1>3, QuotientNat
    <2>4. Quotient(y, 100) = y \div 100
      BY <1>3, QuotientNat
    <2>5. Quotient(y, 400) = y \div 400
      BY <1>3, QuotientNat
    <2> QED
      BY <2>2, <2>3, <2>4, <2>5
  <1>6. y * 365 = 365 * y
    BY <1>3
  <1>7. /\ DaysBefore(m) \in Int /\ (153 * m + 2) \div 5 = DaysBefore(m)
        /\ YearStart(y) = 365 * y + y \div 4 - y \div 100 + y \div 400
    BY <1>3 DEF DaysBefore, YearStart
  <1>8. 365 * y \in Int /\ y \div 4 \in Int /\ y \div 100 \in Int /\ y \div 400 \in Int
    BY <1>3
  <1>9. getJulianDayNumber(year, month, day) = day + DaysBefore(m) + YearStart(y) - 32045
    BY <1>4, <1>5, <1>6, <1>7, <1>8
  <1> QED
    BY <1>2, <1>9

\* The days of a year that begins in March.
LEMMA YearLength ==
    ASSUME NEW year \in Years
    PROVE  YearStart(year + 4800) - YearStart(year + 4799) = YearDays(year)
  <1> DEFINE y == year + 4799
  <1>1. y \in Nat /\ year = y - 4799
    BY DEF Years
  <1> HIDE DEF y
  <1>2. /\ (y + 1) \div 4 = y \div 4 + IF (y + 1) % 4 = 0 THEN 1 ELSE 0
        /\ (y + 1) \div 100 = y \div 100 + IF (y + 1) % 100 = 0 THEN 1 ELSE 0
        /\ (y + 1) \div 400 = y \div 400 + IF (y + 1) % 400 = 0 THEN 1 ELSE 0
    BY <1>1
  <1>3. /\ year % 4 = 0 <=> (y + 1) % 4 = 0
        /\ year % 100 = 0 <=> (y + 1) % 100 = 0
        /\ year % 400 = 0 <=> (y + 1) % 400 = 0
    BY <1>1
  <1>4. (y + 1) % 100 = 0 => (y + 1) % 4 = 0
    BY <1>1
  <1>5. (y + 1) % 400 = 0 => (y + 1) % 100 = 0
    BY <1>1
  <1>6. YearStart(y + 1) - YearStart(y) = YearDays(year)
    BY <1>1, <1>2, <1>3, <1>4, <1>5 DEF YearStart, YearDays, IsLeap
  <1>7. y + 1 = year + 4800 /\ y = year + 4799
    BY <1>1
  <1> QED
    BY <1>6, <1>7

\* The months from March to January are as long as the formula says.
LEMMA MonthLength ==
    ASSUME NEW year \in Years, NEW month \in 1..12, month # 2
    PROVE  DaysBefore(MarchMonth(month) + 1) - DaysBefore(MarchMonth(month)) = MonthDays(year, month)
  <1>1. month \in {1, 3, 4, 5, 6, 7, 8, 9, 10, 11, 12}
    OBVIOUS
  <1> QED
    BY <1>1 DEF DaysBefore, MarchMonth, MonthDays

\* The number of the next day of a month is the next number.
LEMMA DayAfter ==
    ASSUME NEW year \in Years, NEW month \in 1..12, NEW day \in Int
    PROVE  getJulianDayNumber(year, month, day + 1) = getJulianDayNumber(year, month, day) + 1
  <1>1. DaysBefore(MarchMonth(month)) + YearStart(MarchYear(year, month)) \in Int
    BY Shifted DEF DaysBefore, YearStart
  <1>2. /\ DaysBefore(MarchMonth(month)) \in Int
        /\ YearStart(MarchYear(year, month)) \in Int
    BY Shifted DEF DaysBefore, YearStart
  <1> QED
    BY <1>2, DayNumber

\* The first of a month has the number after that of the last day before it,
\* February of a leap year included.
LEMMA MonthAfter ==
    ASSUME NEW year \in Years, NEW month \in 1..11
    PROVE  getJulianDayNumber(year, month + 1, 1) =
             getJulianDayNumber(year, month, MonthDays(year, month)) + 1
  <1>0. MonthDays(year, month) \in Int /\ month \in 1..12 /\ month + 1 \in 1..12
    BY DEF MonthDays
  <1>1. CASE month = 2
    <2>1. /\ getJulianDayNumber(year, 3, 1) = 1 + DaysBefore(0) + YearStart(year + 4800) - 32045
          /\ getJulianDayNumber(year, 2, MonthDays(year, 2)) =
               MonthDays(year, 2) + DaysBefore(11) + YearStart(year + 4799) - 32045
      BY <1>0, <1>1, DayNumber DEF MarchMonth, MarchYear
    <2>2. /\ DaysBefore(0) = 0 /\ DaysBefore(11) = 337
          /\ YearDays(year) = 337 + MonthDays(year, 2)
      BY DEF DaysBefore, YearDays, MonthDays
    <2>3. YearStart(year + 4800) \in Int /\ YearStart(year + 4799) \in Int
      BY DEF YearStart, Years
    <2> QED
      BY <1>0, <1>1, <2>1, <2>2, <2>3, YearLength
  <1>2. CASE month # 2
    <2>1. /\ MarchMonth(month + 1) = MarchMonth(month) + 1
          /\ MarchYear(year, month + 1) = MarchYear(year, month)
      BY <1>2 DEF MarchMonth, MarchYear
    <2>2. /\ YearStart(MarchYear(year, month)) \in Int
          /\ DaysBefore(MarchMonth(month)) \in Int /\ DaysBefore(MarchMonth(month) + 1) \in Int
      BY <1>0, Shifted DEF YearStart, DaysBefore
    <2>3. DaysBefore(MarchMonth(month) + 1) - DaysBefore(MarchMonth(month)) = MonthDays(year, month)
      BY <1>0, <1>2, MonthLength
    <2>4. /\ getJulianDayNumber(year, month + 1, 1) =
               1 + DaysBefore(MarchMonth(month) + 1) + YearStart(MarchYear(year, month)) - 32045
          /\ getJulianDayNumber(year, month, MonthDays(year, month)) =
               MonthDays(year, month) + DaysBefore(MarchMonth(month))
                 + YearStart(MarchYear(year, month)) - 32045
      BY <1>0, <2>1, DayNumber
    <2> QED
      BY <1>0, <2>2, <2>3, <2>4
  <1> QED
    BY <1>1, <1>2

\* New year has the number after that of the 31st of December, and a year has as
\* many numbers as days.
LEMMA YearAfter ==
    ASSUME NEW year \in Years
    PROVE  /\ getJulianDayNumber(year + 1, 1, 1) = getJulianDayNumber(year, 12, 31) + 1
           /\ getJulianDayNumber(year, 12, 31) - getJulianDayNumber(year, 1, 1) = YearDays(year) - 1
  <1>1. year + 1 \in Years /\ YearStart(year + 4800) \in Int /\ YearStart(year + 4799) \in Int
    BY DEF Years, YearStart
  <1>2. (year + 1) + 4799 = year + 4800
    BY DEF Years
  <1>3. /\ getJulianDayNumber(year + 1, 1, 1) = 1 + DaysBefore(10) + YearStart(year + 4800) - 32045
        /\ getJulianDayNumber(year, 12, 31) = 31 + DaysBefore(9) + YearStart(year + 4800) - 32045
        /\ getJulianDayNumber(year, 1, 1) = 1 + DaysBefore(10) + YearStart(year + 4799) - 32045
    BY <1>1, <1>2, DayNumber DEF MarchMonth, MarchYear
  <1>4. DaysBefore(10) = 306 /\ DaysBefore(9) = 275 /\ YearDays(year) \in Int
    BY DEF DaysBefore, YearDays
  <1> QED
    BY <1>1, <1>3, <1>4, YearLength

\* getYearMonthDay() takes the centuries off a count of days,
kDays == 146097
\* The day of a century from its first, and of all centuries.
YearsDay(D, e) == 365 * D + D \div 4 + e
CenturyDay(C, D, e) == e + YearStart(100 * C + D)

\* the day e of year D of century C is found in C, the last day of a century
\* that begins in a leap year included,
LEMMA Centuries ==
    ASSUME NEW C \in Nat, NEW D \in 0..99, NEW e \in 0..365,
           e = 365 => (D + 1) % 4 = 0 /\ (D = 99 => (C + 1) % 4 = 0)
    PROVE  /\ CenturyDay(C, D, e) \in Nat
           /\ (4 * CenturyDay(C, D, e) + 3) \div kDays = C
           /\ CenturyDay(C, D, e) - (C * kDays) \div 4 = YearsDay(D, e)
  <1> DEFINE y == 100 * C + D
             a == CenturyDay(C, D, e)
  <1>1. y \div 4 = 25 * C + D \div 4 /\ y \div 100 = C /\ y \div 400 = C \div 4
    BY SMT
  <1>2. a = 36524 * C + C \div 4 + 365 * D + D \div 4 + e
    BY <1>1, SMT DEF YearStart, CenturyDay
  <1> HIDE DEF a
  <1>3. a \in Nat
    BY <1>2, SMT
  <1>4. (C * 146097) \div 4 = 36524 * C + C \div 4
    BY SMT
  <1>5. PICK q \in Nat, r \in 0..3 : C = 4 * q + r /\ C \div 4 = q
    <2> WITNESS C \div 4 \in Nat, C % 4 \in 0..3
    <2> QED
      BY SMT
  <1> DEFINE x == 365 * D + D \div 4
  <1>6. x \in Nat /\ x <= 36159 /\ (D # 99 => x <= 35794)
    BY SMT
  <1>7. a = 36524 * C + q + x + e
    BY <1>2, <1>5, SMT
  <1> HIDE DEF x
  <1> DEFINE z == 4 * (x + e) + 3 - r
  <1>8. e = 365 /\ D = 99 => r = 3
    BY <1>5, SMT
  <1>9. z \in Nat /\ z <= 146096
    BY <1>6, <1>8, SMT
  <1>10. 4 * a + 3 = 146097 * C + z
    BY <1>5, <1>6, <1>7, SMT
  <1> HIDE DEF z
  <1>11. (4 * a + 3) \div 146097 = C
    BY <1>3, <1>9, <1>10, SMT
  <1>12. a - (C * 146097) \div 4 = 365 * D + D \div 4 + e
    BY <1>2, <1>4, SMT
  <1> QED
    BY <1>3, <1>11, <1>12, SMT DEF a, kDays, YearsDay

\* then the years,
LEMMA YearsOfCentury ==
    ASSUME NEW D \in 0..99, NEW e \in 0..365, e = 365 => (D + 1) % 4 = 0
    PROVE  LET c == 365 * D + D \div 4 + e
           IN  /\ (4 * c + 3) \div 1461 = D
               /\ c - (1461 * D) \div 4 = e
  BY SMT

\* then the months.
LEMMA MonthsOfYear ==
    ASSUME NEW m \in 0..11, NEW day \in 1..31,
           DaysBefore(m) + day <= DaysBefore(m + 1)
    PROVE  LET e == DaysBefore(m) + day - 1
           IN  (5 * e + 2) \div 153 = m
  BY SMT DEF DaysBefore

\* The day of a year that begins in March, from 0.
LEMMA DayOfYear ==
    ASSUME NEW year \in Years, NEW month \in 1..12, NEW day \in 1..MonthDays(year, month)
    PROVE  LET y == MarchYear(year, month)
               m == MarchMonth(month)
               e == DaysBefore(m) + day - 1
           IN  /\ e \in 0..365
               /\ e = 365 => (y + 1) % 4 = 0 /\ ((y + 1) % 100 = 0 => (y + 1) % 400 = 0)
               /\ (5 * e + 2) \div 153 = m
  <1> DEFINE y == MarchYear(year, month)
             m == MarchMonth(month)
             e == DaysBefore(m) + day - 1
  <1>0. day \in 1..31 /\ day <= MonthDays(year, month) /\ m \in 0..11
    BY Shifted DEF MonthDays
  <1>1. CASE month = 2
    <2>1. m = 11 /\ e = 336 + day /\ y = year + 4799
      BY <1>0, <1>1 DEF DaysBefore, MarchMonth, MarchYear
    <2>2. day <= 28 \/ (day = 29 /\ IsLeap(year))
      BY <1>0, <1>1 DEF MonthDays
    <2> HIDE DEF y, m, e
    <2>3. /\ year % 4 = 0 <=> (y + 1) % 4 = 0
          /\ year % 100 = 0 <=> (y + 1) % 100 = 0
          /\ year % 400 = 0 <=> (y + 1) % 400 = 0
      BY <2>1 DEF Years
    <2>4. e \in 0..365 /\ (5 * e + 2) \div 153 = m
      BY <1>0, <2>1, <2>2
    <2>5. e = 365 => (y + 1) % 4 = 0 /\ ((y + 1) % 100 = 0 => (y + 1) % 400 = 0)
      BY <1>0, <2>1, <2>2, <2>3 DEF IsLeap
    <2> QED
      BY <2>4, <2>5 DEF y, m, e
  <1>2. CASE month # 2
    <2>1. m \in 0..10
      BY <1>2 DEF MarchMonth
    <2>2. DaysBefore(m + 1) - DaysBefore(m) = MonthDays(year, month)
      BY <1>2, MonthLength
    <2> HIDE DEF m
    <2>3. DaysBefore(m) \in Nat /\ DaysBefore(m + 1) \in Nat /\ DaysBefore(m + 1) <= 337
      BY <2>1 DEF DaysBefore
    <2>4. DaysBefore(m) + day <= DaysBefore(m + 1)
      BY <1>0, <2>2, <2>3
    <2>5. e \in 0..364
      BY <1>0, <2>3, <2>4, SMTT(40)
    <2>6. (5 * e + 2) \div 153 = m
      BY <1>0, <2>4, MonthsOfYear
    <2> QED
      BY <2>5, <2>6 DEF m
  <1> QED
    BY <1>1, <1>2

\* Julian day numbers are integers.
LEMMA JdnInt ==
    ASSUME NEW year \in Years, NEW month \in 1..12, NEW day \in Int
    PROVE  getJulianDayNumber(year, month, day) \in Int
  <1>1. /\ DaysBefore(MarchMonth(month)) \in Int
        /\ YearStart(MarchYear(year, month)) \in Int
    BY Shifted DEF DaysBefore, YearStart
  <1> QED
    BY <1>1, DayNumber, SMT

\* Of a date getYearMonthDay() and getJulianDayNumber() are inverse.
LEMMA YearMonthDayInverse ==
    ASSUME NEW year \in Years, NEW month \in 1..12, NEW day \in 1..MonthDays(year, month)
    PROVE  getYearMonthDay(getJulianDayNumber(year, month, day)) =
             [year |-> year, month |-> month, day |-> day]
  <1> DEFINE y == MarchYear(year, month)
             m == MarchMonth(month)
             e == DaysBefore(m) + day - 1
             a == e + YearStart(y)
  <1>0. day \in Nat
    BY DEF MonthDays
  <1>1. y \in Nat /\ m \in 0..11
    BY Shifted
  <1>2. /\ e \in 0..365
        /\ e = 365 => (y + 1) % 4 = 0 /\ ((y + 1) % 100 = 0 => (y + 1) % 400 = 0)
        /\ (5 * e + 2) \div 153 = m
    BY DayOfYear
  <1>3. getJulianDayNumber(year, month, day) + 32044 = a
    <2>1. getJulianDayNumber(year, month, day) = day + DaysBefore(m) + YearStart(y) - 32045
      BY <1>0, DayNumber
    <2>2. DaysBefore(m) \in Int /\ YearStart(y) \in Int
      BY <1>1 DEF DaysBefore, YearStart
    <2> HIDE DEF y, m
    <2> QED
      BY <1>0, <2>1, <2>2, SMT
  <1>4. e = DaysBefore(m) + day - 1
    OBVIOUS
  <1>5. a = e + YearStart(y)
    OBVIOUS
  <1> HIDE DEF e, a
  <1> DEFINE C == y \div 100
             D == y % 100
  <1>6. C \in Nat /\ D \in 0..99 /\ y = 100 * C + D
    BY <1>1, SMT
  <1> HIDE DEF C, D
  <1>7. e = 365 => (D + 1) % 4 = 0 /\ (D = 99 => (C + 1) % 4 = 0)
    <2> SUFFICES ASSUME e = 365 PROVE (D + 1) % 4 = 0 /\ (D = 99 => (C + 1) % 4 = 0)
      OBVIOUS
    <2>1. (y + 1) % 4 = 0 /\ ((y + 1) % 100 = 0 => (y + 1) % 400 = 0)
      BY <1>2
    <2> HIDE DEF y
    <2>2. (D + 1) % 4 = 0
      BY <1>6, <2>1, SMT
    <2>3. D = 99 => (y + 1) % 400 = 0 /\ y + 1 = 100 * (C + 1)
      BY <1>6, <2>1, SMT
    <2> QED
      BY <1>6, <2>2, <2>3, SMT
  <1> DEFINE c == 365 * D + D \div 4 + e
  <1>8. /\ a \in Nat
        /\ (4 * a + 3) \div 146097 = C
        /\ a - (C * 146097) \div 4 = c
    <2> HIDE DEF y
    <2> QED
      <3>1. a = CenturyDay(C, D, e)
        BY <1>5, <1>6, SMT DEF CenturyDay
      <3>2. /\ CenturyDay(C, D, e) \in Nat
            /\ (4 * CenturyDay(C, D, e) + 3) \div kDays = C
            /\ CenturyDay(C, D, e) - (C * kDays) \div 4 = YearsDay(D, e)
        <4>1. C \in Nat /\ D \in 0..99 /\ e \in 0..365
          BY <1>2, <1>6
        <4> QED
          BY <1>7, <4>1, Centuries
      <3> QED
        BY <3>1, <3>2, SMT DEF kDays, YearsDay
  <1>9. c \in Nat /\ (4 * c + 3) \div 1461 = D /\ c - (1461 * D) \div 4 = e
    BY <1>2, <1>6, <1>7, YearsOfCentury, SMT
  <1> HIDE DEF c
  <1>10. /\ Quotient(4 * a + 3, 146097) = C
         /\ a - Quotient(C * 146097, 4) = c
         /\ Quotient(4 * c + 3, 1461) = D
         /\ c - Quotient(1461 * D, 4) = e
         /\ Quotient(5 * e + 2, 153) = m
         /\ Quotient(153 * m + 2, 5) = DaysBefore(m)
         /\ Quotient(m, 10) = m \div 10
    <2> HIDE DEF m
    <2>0. /\ 4 * a + 3 \in Nat /\ C * 146097 \in Nat /\ 4 * c + 3 \in Nat /\ 1461 * D \in Nat
          /\ 5 * e + 2 \in Nat /\ 153 * m + 2 \in Nat /\ m \in Nat
      BY <1>1, <1>2, <1>6, <1>8, <1>9, SMT
    <2>1. Quotient(4 * a + 3, 146097) = (4 * a + 3) \div 146097
      BY <2>0, SMT DEF Quotient
    <2>2. Quotient(C * 146097, 4) = (C * 146097) \div 4
      BY <2>0, SMT DEF Quotient
    <2>3. Quotient(4 * c + 3, 1461) = (4 * c + 3) \div 1461
      BY <2>0, SMT DEF Quotient
    <2>4. Quotient(1461 * D, 4) = (1461 * D) \div 4
      BY <2>0, SMT DEF Quotient
    <2>5. Quotient(5 * e + 2, 153) = (5 * e + 2) \div 153
      BY <2>0, SMT DEF Quotient
    <2>6. Quotient(153 * m + 2, 5) = (153 * m + 2) \div 5
      BY <2>0, SMT DEF Quotient
    <2>7. Quotient(m, 10) = m \div 10
      BY <2>0, SMT DEF Quotient
    <2> QED
      BY <1>2, <1>8, <1>9, <2>1, <2>2, <2>3, <2>4, <2>5, <2>6, <2>7, SMT DEF DaysBefore
  <1>11. getYearMonthDay(getJulianDayNumber(year, month, day)) =
           [day |-> e - DaysBefore(m) + 1, month |-> m + 3 - 12 * (m \div 10),
            year |-> C * 100 + D - 4800 + m \div 10]
    <2> DEFINE jdn == getJulianDayNumber(year, month, day)
    <2>1. jdn + 32044 = a
      BY <1>3
    <2> HIDE DEF jdn, y, m
    <2>2. Quotient(4 * (jdn + 32044) + 3, 146097) = C
      BY <1>10, <2>1, SMT
    <2>3. (jdn + 32044) - Quotient(C * 146097, 4) = c
      BY <1>10, <2>1, SMT
    <2> DEFINE Named(b, d, ee, mm) ==
                 [day |-> ee - Quotient(153 * mm + 2, 5) + 1,
                  month |-> mm + 3 - 12 * Quotient(mm, 10),
                  year |-> b * 100 + d - 4800 + Quotient(mm, 10)]
               Days(b, d, ee) == Named(b, d, ee, Quotient(5 * ee + 2, 153))
               Year(b, cc, d) == Days(b, d, cc - Quotient(1461 * d, 4))
               Century(b, cc) == Year(b, cc, Quotient(4 * cc + 3, 1461))
    <2>4. getYearMonthDay(jdn) =
            Century(Quotient(4 * (jdn + 32044) + 3, 146097),
                    (jdn + 32044) - Quotient(Quotient(4 * (jdn + 32044) + 3, 146097) * 146097, 4))
      BY SMT DEF getYearMonthDay
    <2> HIDE DEF Century
    <2>5. getYearMonthDay(jdn) = Century(C, c)
      BY <2>2, <2>3, <2>4, SMT
    <2> HIDE DEF Year
    <2>6. Century(C, c) = Year(C, c, D)
      BY <1>10, SMT DEF Century
    <2> HIDE DEF Days
    <2>7. Year(C, c, D) = Days(C, D, e)
      BY <1>10, SMT DEF Year
    <2> HIDE DEF Named
    <2>8. Days(C, D, e) = Named(C, D, e, m)
      BY <1>10, SMT DEF Days
    <2>9. Named(C, D, e, m) = [day |-> e - DaysBefore(m) + 1, month |-> m + 3 - 12 * (m \div 10),
                                year |-> C * 100 + D - 4800 + m \div 10]
      <3>1. Quotient(153 * m + 2, 5) = DaysBefore(m) /\ Quotient(m, 10) = m \div 10
        BY <1>10, SMT
      <3> QED
        BY <3>1, SMT DEF Named
    <2> QED
      BY <2>5, <2>6, <2>7, <2>8, <2>9, SMT DEF jdn
  <1>12. e - DaysBefore(m) + 1 = day
    <2>1. DaysBefore(m) \in Int
      BY <1>1 DEF DaysBefore
    <2> HIDE DEF m
    <2> QED
      BY <1>0, <1>4, <2>1
  <1>13. m + 3 - 12 * (m \div 10) = month
    BY SMT DEF MarchMonth
  <1>14. C * 100 + D - 4800 + m \div 10 = year
    <2>1. C * 100 + D = y
      BY <1>1, <1>6, SMT
    <2>2. y - 4800 + m \div 10 = year
      BY SMT DEF MarchYear, MarchMonth, Years
    <2>3. m \div 10 \in Int
      BY <1>1
    <2> HIDE DEF y, m
    <2> QED
      BY <1>1, <1>6, <2>1, <2>2, <2>3, SMT
  <1> QED
    BY <1>11, <1>12, <1>13, <1>14

\* From -4712 on they are natural numbers.
LEMMA DayNumberNat ==
    ASSUME NEW year \in Years, NEW month \in 1..12, NEW day \in Nat \ {0}
    PROVE  getJulianDayNumber(year, month, day) \in Nat
  <1> DEFINE y == MarchYear(year, month)
             m == MarchMonth(month)
  <1>1. y \in Nat /\ m \in 0..11
    BY Shifted
  <1>2. y >= 88 \/ (y = 87 /\ m >= 10)
    BY DEF MarchYear, MarchMonth, Years
  <1> HIDE DEF y, m
  <1>3. y \div 4 \in Int /\ y \div 100 \in Int /\ y \div 400 \in Nat /\ y \div 4 - y \div 100 >= 21
    BY <1>1, <1>2
  <1>4. YearStart(y) \in Int /\ YearStart(y) >= 365 * y + 21
    BY <1>1, <1>3, SMT DEF YearStart
  <1>5. DaysBefore(m) \in Nat /\ (m >= 10 => DaysBefore(m) >= 306)
    BY <1>1, SMT DEF DaysBefore
  <1>6. getJulianDayNumber(year, month, day) = day + DaysBefore(m) + YearStart(y) - 32045
    BY DayNumber DEF y, m
  <1> QED
    BY <1>1, <1>2, <1>4, <1>5, <1>6, SMT

\* The number of the 1st of January 1970.
LEMMA EpochDay == kJulianDayOf1970_01_01 = 2440588
  <1>1. 1970 \in Years /\ 1 \in 1..12 /\ 1 \in Int
    BY SMT DEF Years
  <1>2. kJulianDayOf1970_01_01 = 1 + DaysBefore(10) + YearStart(6769) - 32045
    BY <1>1, DayNumber, SMT DEF kJulianDayOf1970_01_01, MarchMonth, MarchYear
  <1>3. DaysBefore(10) = 306
    BY SMT DEF DaysBefore
  <1>4. YearStart(6769) = 2472326
    BY SMT DEF YearStart
  <1> QED
    BY <1>2, <1>3, <1>4, SMT

\* The date that is advanced day by day has the number of its days since 1970,
\* its weekday and its day of the year. The years bound nothing but the walk.
DateInv ==
    /\ date \in [days : Int, wday : 0..6, year : Years, month : 1..12, day : Int, yday : Int]
    /\ date.day \in 1..MonthDays(date.year, date.month)
    /\ getJulianDayNumber(date.year, date.month, date.day) = kJulianDayOf1970_01_01 + date.days
    /\ date.yday = getJulianDayNumber(date.year, date.month, date.day)
                     - getJulianDayNumber(date.year, 1, 1)
    /\ date.wday = (date.days + 4) % 7

\* It holds on the 1st of January 1970,
LEMMA DateInvInit == DateInit => DateInv
  <1> SUFFICES ASSUME DateInit PROVE DateInv
    OBVIOUS
  <1>1. 1970 \in Years
    BY SMT DEF Years
  <1>2. MonthDays(1970, 1) = 31
    BY DEF MonthDays
  <1>3. getJulianDayNumber(1970, 1, 1) = kJulianDayOf1970_01_01
    BY DEF kJulianDayOf1970_01_01
  <1>4. date = [days |-> 0, wday |-> 4, year |-> 1970, month |-> 1, day |-> 1, yday |-> 0]
    BY SMT DEF DateInit
  <1> QED
    BY <1>1, <1>2, <1>3, <1>4, EpochDay, SMT DEF DateInv

\* a step to the next day keeps it, over the end of a month and of a year,
LEMMA NextDayStep == DateInv /\ NextDay => DateInv'
  <1> SUFFICES ASSUME DateInv, NextDay PROVE DateInv'
    OBVIOUS
  <1> DEFINE y == date.year
             m == date.month
             d == date.day
             last == MonthDays(y, m)
  <1>1. /\ date = [days |-> date.days, wday |-> date.wday, year |-> y, month |-> m, day |-> d,
                   yday |-> date.yday]
        /\ date.days \in Int /\ date.wday \in 0..6 /\ y \in Years /\ y \in Int /\ m \in 1..12
        /\ d \in Int /\ d >= 1 /\ d <= last /\ date.yday \in Int /\ last \in 28..31
    BY DEF DateInv, Years, MonthDays
  <1>2. /\ getJulianDayNumber(y, m, d) = kJulianDayOf1970_01_01 + date.days
        /\ date.yday = getJulianDayNumber(y, m, d) - getJulianDayNumber(y, 1, 1)
        /\ date.wday = (date.days + 4) % 7
    BY DEF DateInv
  <1>3. /\ getJulianDayNumber(y, m, d) \in Int /\ getJulianDayNumber(y, 1, 1) \in Int
        /\ kJulianDayOf1970_01_01 \in Int
    BY <1>1, JdnInt, EpochDay, SMT
  <1>4. (date.days + 1 + 4) % 7 = (date.wday + 1) % 7 /\ (date.wday + 1) % 7 \in 0..6
    BY <1>1, <1>2
  <1>5. CASE /\ d < last
             /\ date' = [[date EXCEPT !.days = @ + 1, !.wday = (@ + 1) % 7]
                           EXCEPT !.day = @ + 1, !.yday = @ + 1]
    <2>1. date' = [days |-> date.days + 1, wday |-> (date.wday + 1) % 7, year |-> y, month |-> m,
                   day |-> d + 1, yday |-> date.yday + 1]
      BY <1>1, <1>5
    <2>2. getJulianDayNumber(y, m, d + 1) = getJulianDayNumber(y, m, d) + 1
      BY <1>1, DayAfter
    <2> HIDE DEF y, m, d
    <2> QED
      BY <1>1, <1>2, <1>3, <1>4, <1>5, <2>1, <2>2 DEF DateInv
  <1>6. CASE /\ d = last /\ m < 12
             /\ date' = [[date EXCEPT !.days = @ + 1, !.wday = (@ + 1) % 7]
                           EXCEPT !.month = @ + 1, !.day = 1, !.yday = @ + 1]
    <2>1. date' = [days |-> date.days + 1, wday |-> (date.wday + 1) % 7, year |-> y,
                   month |-> m + 1, day |-> 1, yday |-> date.yday + 1]
      BY <1>1, <1>6
    <2>2. getJulianDayNumber(y, m + 1, 1) = getJulianDayNumber(y, m, d) + 1
      BY <1>1, <1>6, MonthAfter
    <2>3. MonthDays(y, m + 1) \in 28..31
      BY DEF MonthDays
    <2> HIDE DEF y, m, d
    <2> QED
      BY <1>1, <1>2, <1>3, <1>4, <1>6, <2>1, <2>2, <2>3 DEF DateInv
  <1>7. CASE /\ d = last /\ m = 12
             /\ date' = [[date EXCEPT !.days = @ + 1, !.wday = (@ + 1) % 7]
                           EXCEPT !.year = @ + 1, !.month = 1, !.day = 1, !.yday = 0]
    <2>1. date' = [days |-> date.days + 1, wday |-> (date.wday + 1) % 7, year |-> y + 1,
                   month |-> 1, day |-> 1, yday |-> 0]
      BY <1>1, <1>7
    <2>2. d = 31 /\ MonthDays(y + 1, 1) = 31
      BY <1>7 DEF MonthDays
    <2>3. getJulianDayNumber(y + 1, 1, 1) = getJulianDayNumber(y, m, d) + 1
      BY <1>1, <1>7, <2>2, YearAfter
    <2>4. y + 1 \in Years
      BY <1>1 DEF Years
    <2> HIDE DEF y, m, d
    <2> QED
      BY <1>1, <1>2, <1>3, <1>4, <1>7, <2>1, <2>2, <2>3, <2>4, SMTT(40) DEF DateInv
  <1> QED
    BY <1>5, <1>6, <1>7 DEF NextDay

\* and a step to the day before, over the beginning of one.
LEMMA PreviousDayStep == DateInv /\ PreviousDay => DateInv'
  <1> SUFFICES ASSUME DateInv, PreviousDay PROVE DateInv'
    OBVIOUS
  <1> DEFINE y == date.year
             m == date.month
             d == date.day
  <1>1. /\ date = [days |-> date.days, wday |-> date.wday, year |-> y, month |-> m, day |-> d,
                   yday |-> date.yday]
        /\ date.days \in Int /\ date.wday \in 0..6 /\ y \in Years /\ y \in Int /\ m \in 1..12
        /\ d \in Int /\ d >= 1 /\ d <= MonthDays(y, m) /\ date.yday \in Int
        /\ MonthDays(y, m) \in 28..31
    BY DEF DateInv, Years, MonthDays
  <1>2. /\ getJulianDayNumber(y, m, d) = kJulianDayOf1970_01_01 + date.days
        /\ date.yday = getJulianDayNumber(y, m, d) - getJulianDayNumber(y, 1, 1)
        /\ date.wday = (date.days + 4) % 7
    BY DEF DateInv
  <1>3. /\ getJulianDayNumber(y, m, d) \in Int /\ getJulianDayNumber(y, 1, 1) \in Int
        /\ kJulianDayOf1970_01_01 \in Int
    BY <1>1, JdnInt, EpochDay, SMT
  <1>4. (date.days - 1 + 4) % 7 = (date.wday + 6) % 7 /\ (date.wday + 6) % 7 \in 0..6
    BY <1>1, <1>2
  <1>5. CASE /\ d > 1
             /\ date' = [[date EXCEPT !.days = @ - 1, !.wday = (@ + 6) % 7]
                           EXCEPT !.day = @ - 1, !.yday = @ - 1]
    <2>1. date' = [days |-> date.days - 1, wday |-> (date.wday + 6) % 7, year |-> y, month |-> m,
                   day |-> d - 1, yday |-> date.yday - 1]
      BY <1>1, <1>5
    <2>2. d - 1 \in Int /\ (d - 1) + 1 = d
      BY <1>1
    <2>3. getJulianDayNumber(y, m, d) = getJulianDayNumber(y, m, d - 1) + 1
      BY <1>1, <2>2, DayAfter
    <2>4. getJulianDayNumber(y, m, d - 1) \in Int
      BY <1>1, <2>2, JdnInt
    <2> HIDE DEF y, m, d
    <2> QED
      BY <1>1, <1>2, <1>3, <1>4, <1>5, <2>1, <2>3, <2>4 DEF DateInv
  <1>6. CASE /\ d = 1 /\ m > 1
             /\ date' = [[date EXCEPT !.days = @ - 1, !.wday = (@ + 6) % 7]
                           EXCEPT !.month = @ - 1, !.day = MonthDays(y, m - 1), !.yday = @ - 1]
    <2> DEFINE last == MonthDays(y, m - 1)
    <2>1. date' = [days |-> date.days - 1, wday |-> (date.wday + 6) % 7, year |-> y,
                   month |-> m - 1, day |-> last, yday |-> date.yday - 1]
      BY <1>1, <1>6
    <2>2. m - 1 \in 1..11 /\ (m - 1) + 1 = m
      BY <1>1, <1>6
    <2>3. getJulianDayNumber(y, m, 1) = getJulianDayNumber(y, m - 1, last) + 1
      BY <1>1, <2>2, MonthAfter
    <2>4. last \in 28..31
      BY DEF MonthDays
    <2>5. getJulianDayNumber(y, m - 1, last) \in Int
      BY <1>1, <2>2, <2>4, JdnInt
    <2> HIDE DEF y, m, d
    <2> QED
      BY <1>1, <1>2, <1>3, <1>4, <1>6, <2>1, <2>2, <2>3, <2>4, <2>5 DEF DateInv
  <1>7. CASE /\ d = 1 /\ m = 1 /\ y > FirstYear
             /\ date' = [[date EXCEPT !.days = @ - 1, !.wday = (@ + 6) % 7]
                           EXCEPT !.year = @ - 1, !.month = 12, !.day = 31,
                                  !.yday = YearDays(y - 1) - 1]
    <2>1. date' = [days |-> date.days - 1, wday |-> (date.wday + 6) % 7, year |-> y - 1,
                   month |-> 12, day |-> 31, yday |-> YearDays(y - 1) - 1]
      BY <1>1, <1>7
    <2>2. y - 1 \in Years /\ (y - 1) + 1 = y
      BY <1>1, <1>7, YearAssumption, SMT DEF Years
    <2>3. /\ getJulianDayNumber(y, 1, 1) = getJulianDayNumber(y - 1, 12, 31) + 1
          /\ getJulianDayNumber(y - 1, 12, 31) - getJulianDayNumber(y - 1, 1, 1)
               = YearDays(y - 1) - 1
      BY <2>2, YearAfter
    <2>4. YearDays(y - 1) - 1 \in Int /\ MonthDays(y - 1, 12) = 31
      BY DEF YearDays, MonthDays
    <2>5. getJulianDayNumber(y - 1, 12, 31) \in Int
      BY <2>2, JdnInt
    <2>6. getJulianDayNumber(y, 1, 1) = kJulianDayOf1970_01_01 + date.days
      BY <1>2, <1>7
    <2> HIDE DEF y, m, d
    <2>7. getJulianDayNumber(y - 1, 12, 31) = kJulianDayOf1970_01_01 + (date.days - 1)
      BY <1>1, <1>3, <2>3, <2>5, <2>6, SMT
    <2> QED
      BY <1>1, <1>4, <2>1, <2>2, <2>3, <2>4, <2>7, SMT DEF DateInv
  <1> QED
    BY <1>5, <1>6, <1>7 DEF PreviousDay

\* weekDay() of a Julian day number, 1970 having begun on a Thursday.
LEMMA WeekDays ==
    ASSUME NEW n \in Int, 2440588 + n >= 0
    PROVE  weekDay(2440588 + n) = (n + 4) % 7
  <1>1. Quotient(2440588 + n + 1, 7) = (2440588 + n + 1) \div 7
    BY SMT DEF Quotient
  <1>2. weekDay(2440588 + n) = (2440588 + n + 1) % 7
    BY <1>1, SMT DEF weekDay, Remainder
  <1> QED
    BY <1>2, SMT

\* A day has 86400 seconds.
LEMMA SecondsPerDay == kSecondsPerDay = 86400
  BY SMT DEF kSecondsPerDay

\* BreakTime() finds the day and the second of it, before 1970 too.
LEMMA DaysSplit ==
    ASSUME NEW n \in Int, NEW s \in Nat, s < kSecondsPerDay
    PROVE  splitDays(n * kSecondsPerDay + s) = [seconds |-> s, days |-> n]
  <1> DEFINE t == n * 86400 + s
  <1>1. kSecondsPerDay = 86400
    BY SecondsPerDay
  <1>2. s \in Int /\ s >= 0 /\ s < 86400
    BY <1>1, SMT
  <1>3. t \in Int /\ t = n * 86400 + s
    BY <1>2, SMT
  <1> HIDE DEF t
  <1>4. t \div 86400 = n
    BY <1>2, <1>3, SMT
  <1>5. t % 86400 = s
    BY <1>2, <1>3, SMT
  <1>6. t < 0 <=> n < 0
    BY <1>2, <1>3, SMT
  <1>7. Quotient(t, 86400) = IF n < 0 /\ s # 0 THEN n + 1 ELSE n
    BY <1>3, <1>4, <1>5, <1>6, SMT DEF Quotient
  <1>8. Remainder(t, 86400) = IF n < 0 /\ s # 0 THEN s - 86400 ELSE s
    BY <1>2, <1>3, <1>7, SMT DEF Remainder
  <1>10. splitDays(t) = [seconds |-> s, days |-> n]
    <2>1. CASE n < 0 /\ s # 0
      <3>1. Remainder(t, 86400) = s - 86400 /\ Quotient(t, 86400) = n + 1
        BY <1>7, <1>8, <2>1, SMT
      <3>2. Remainder(t, 86400) < 0 /\ Remainder(t, 86400) + 86400 = s /\ Quotient(t, 86400) - 1 = n
        BY <1>2, <3>1, SMT
      <3> QED
        BY <1>1, <3>2, SMT DEF splitDays
    <2>2. CASE ~(n < 0 /\ s # 0)
      <3>1. Remainder(t, 86400) = s /\ Quotient(t, 86400) = n
        BY <1>7, <1>8, <2>2, SMT
      <3>2. ~(Remainder(t, 86400) < 0)
        BY <1>2, <3>1, SMT
      <3> QED
        BY <1>1, <3>1, <3>2, SMT DEF splitDays
    <2> QED
      BY <2>1, <2>2
  <1>11. n * kSecondsPerDay + s = t
    BY <1>1, <1>3, SMT
  <1> QED
    BY <1>10, <1>11

\* FillHMS() takes a second of the day apart into hour, minute and second.
LEMMA ClockFields ==
    ASSUME NEW s \in Nat, s < kSecondsPerDay
    PROVE  LET c == fillHMS(s)
           IN  /\ c.hour \in 0..23 /\ c.min \in 0..59 /\ c.sec \in 0..59
               /\ c.hour * 3600 + c.min * 60 + c.sec = s
  <1>1. s \in Int /\ s >= 0 /\ s <= 86399
    BY SecondsPerDay, SMT
  <1>2. PICK q, sec : q = s \div 60 /\ sec = s % 60
    OBVIOUS
  <1>3. PICK h, min : h = q \div 60 /\ min = q % 60
    OBVIOUS
  <1>4. q \in Int /\ q >= 0 /\ q <= 1439 /\ sec \in 0..59 /\ s = 60 * q + sec
    BY <1>1, <1>2, SMT
  <1>5. h \in 0..23 /\ min \in 0..59 /\ q = 60 * h + min
    BY <1>3, <1>4, SMT
  <1>6. fillHMS(s) = [hour |-> h, min |-> min, sec |-> sec]
    BY <1>2, <1>3 DEF fillHMS
  <1>7. h * 3600 + min * 60 + sec = s
    BY <1>1, <1>4, <1>5, SMT
  <1> QED
    BY <1>4, <1>5, <1>6, <1>7, SMT

\* What the code computes from the days alone is the date that was walked to.
LEMMA DateInvAgrees == DateInv => CalendarAgrees
  <1> SUFFICES ASSUME DateInv PROVE CalendarAgrees
    OBVIOUS
  <1> DEFINE jdn == getJulianDayNumber(date.year, date.month, date.day)
  <1>1. /\ date.year \in Years /\ date.month \in 1..12 /\ date.days \in Int
        /\ date.day \in 1..MonthDays(date.year, date.month) /\ date.day \in Nat \ {0}
    BY DEF DateInv, MonthDays
  <1>2. jdn = kJulianDayOf1970_01_01 + date.days
    BY DEF DateInv
  <1>3. jdn = 2440588 + date.days /\ jdn \in Nat
    BY <1>1, <1>2, EpochDay, DayNumberNat, SMT
  <1>4. getYearMonthDay(jdn) = YearMonthDay
    BY <1>1, YearMonthDayInverse DEF YearMonthDay
  <1>5. date.yday = jdn - getJulianDayNumber(date.year, 1, 1)
    BY DEF DateInv
  <1>6. weekDay(jdn) = date.wday
    <2> HIDE DEF jdn
    <2> QED
      BY <1>1, <1>3, WeekDays, SMT DEF DateInv
  <1>7. FormulasAgree
    BY <1>2, <1>4, <1>6 DEF FormulasAgree
  <1>8. TimesAgree
    <2> SUFFICES ASSUME NEW s \in SecondsOfDay
                 PROVE  LET t == date.days * kSecondsPerDay + s
                            tm == toUtcTime(t)
                        IN  /\ tm.date = YearMonthDay
                            /\ tm.wday = date.wday
                            /\ tm.yday = date.yday
                            /\ tm.clock.hour \in 0..23 /\ tm.clock.min \in 0..59
                            /\ fromUtcTime(tm.date, tm.clock) = t
      BY DEF TimesAgree
    <2>1. s \in Nat /\ s < kSecondsPerDay
      <3>1. kSecondsPerDay \in Nat
        BY SecondsPerDay, SMT
      <3> QED
        BY <3>1, TimeOfDayAssumption
    <2> DEFINE t == date.days * kSecondsPerDay + s
               tm == toUtcTime(t)
               clock == fillHMS(s)
    <2>2. splitDays(t) = [seconds |-> s, days |-> date.days]
      BY <1>1, <2>1, DaysSplit
    <2>3. date.days + kJulianDayOf1970_01_01 = jdn
      BY <1>1, <1>3, EpochDay, SMT
    <2>4. /\ YearMonthDay.year = date.year /\ YearMonthDay.month = date.month
          /\ YearMonthDay.day = date.day
      BY DEF YearMonthDay
    <2> HIDE DEF t, jdn
    <2>5. tm = [date |-> YearMonthDay, clock |-> clock, wday |-> date.wday, yday |-> date.yday]
      BY <1>4, <1>5, <1>6, <2>2, <2>3, <2>4 DEF toUtcTime
    <2>6. /\ clock.hour \in 0..23 /\ clock.min \in 0..59 /\ clock.sec \in 0..59
          /\ clock.hour * 3600 + clock.min * 60 + clock.sec = s
      BY <2>1, ClockFields
    <2> HIDE DEF clock, tm
    <2>7. fromUtcTime(YearMonthDay, clock) = t
      <3>1. fromUtcTime(YearMonthDay, clock) =
              (jdn - kJulianDayOf1970_01_01) * kSecondsPerDay
                + clock.hour * 3600 + clock.min * 60 + clock.sec
        BY <2>4, SMT DEF fromUtcTime, jdn
      <3>2. jdn - kJulianDayOf1970_01_01 = date.days
        BY <1>1, <1>3, EpochDay, SMT
      <3>3. date.days * kSecondsPerDay \in Int /\ clock.hour * 3600 \in Int /\ clock.min * 60 \in Int
        BY <1>1, <2>6, SecondsPerDay, SMT
      <3> QED
        BY <2>6, <3>1, <3>2, <3>3, SMT DEF t
    <2> QED
      BY <2>5, <2>6, <2>7, SMT DEF t, tm
  <1> QED
    BY <1>7, <1>8 DEF CalendarAgrees

\* For every day from year -4712 on and every second of it Date and BreakTime()
\* agree with the calendar in both directions.
THEOREM CalendarCorrect == DateSpec => []CalendarAgrees
  <1>1. DateInv /\ UNCHANGED date => DateInv'
    BY DEF DateInv
  <1>2. DateInv /\ [DateNext]_date => DateInv'
    BY <1>1, NextDayStep, PreviousDayStep DEF DateNext
  <1> QED
    BY <1>2, DateInvInit, DateInvAgrees, PTL DEF DateSpec

-----------------------------------------------------------------------------
(* TimeZone.                                                               *)

\* A set of natural numbers has a least one: the induction of what follows is
\* done on a least counterexample.
LEMMA LeastNat ==
    ASSUME NEW S \in SUBSET Nat, S # {}
    PROVE  \E x \in S : \A y \in S : x <= y
  <1>1. PICK x \in S : \A y \in S : ~(<<y, x>> \in OpToRel(<, Nat))
    BY NatLessThanWellFounded, WFMin, Zenon
  <1>2. \A y \in S : ~(y < x)
    BY <1>1 DEF OpToRel
  <1> QED
    BY <1>2

\* Min() is the least element, where there is one,
LEMMA MinIs ==
    ASSUME NEW S \in SUBSET Int, NEW x \in S, \A y \in S : x <= y
    PROVE  Min(S) = x
  <1>1. Min(S) \in S /\ \A y \in S : Min(S) <= y
    <2>1. \E z \in S : \A y \in S : z <= y
      OBVIOUS
    <2> QED
      BY <2>1, Zenon DEF Min
  <1>2. Min(S) <= x /\ x <= Min(S) /\ Min(S) \in Int
    BY <1>1
  <1> QED
    BY <1>2

\* and Max() the greatest.
LEMMA MaxIs ==
    ASSUME NEW S \in SUBSET Int, NEW x \in S, \A y \in S : y <= x
    PROVE  Max(S) = x
  <1>1. /\ Max(S) \in S /\ \A y \in S : Max(S) >= y
    <2>1. \E z \in S : \A y \in S : z >= y
      OBVIOUS
    <2> QED
      BY <2>1, Zenon DEF Max
  <1>2. Max(S) >= x /\ Max(S) <= x /\ Max(S) \in Int
    BY <1>1
  <1> QED
    BY <1>2

\* The kind of time after i transitions of a file.
Kind(f, i) == IF i = 0 THEN Head(f.types) ELSE f.types[f.indices[i] + 1]

\* i transitions of the file have a key up to k.
Passed(f, i, K, k) ==
    /\ i \in 0..Len(f.gmttimes)
    /\ \A j \in 1..(i - 1) : K[j] < k
    /\ i > 0 => K[i] <= k
    /\ \A j \in (i + 1)..Len(f.gmttimes) : k < K[j]

\* The instants of the transitions in GMT, or in the local time after them.
Keys(f, gmt) ==
    [j \in 1..Len(f.gmttimes) |->
        IF gmt THEN f.gmttimes[j] ELSE f.gmttimes[j] + f.types[f.indices[j] + 1].gmtOffset]

\* readTimeZoneFile() of a whole file: the transitions have the keys and the
\* kinds of time of the file.
LEMMA ZoneOf ==
    ASSUME NEW f, WellFormed(f)
    PROVE  LET trs == readTimeZoneFile(f, "end").transitions
           IN  /\ readTimeZoneFile(f, "end").localtimes = f.types
               /\ trs \in Seq([gmttime : Int, localtime : Int, localtimeIdx : Int])
               /\ Len(trs) = Len(f.gmttimes)
               /\ \A j \in 1..Len(f.gmttimes) :
                    /\ trs[j].localtimeIdx = f.indices[j] + 1
                    /\ \A gmt \in BOOLEAN : key(trs[j], gmt) = Keys(f, gmt)[j]
               /\ \A gmt \in BOOLEAN : Keys(f, gmt) \in [1..Len(f.gmttimes) -> Int]
  <1> DEFINE n == Len(f.gmttimes)
             trs == readTimeZoneFile(f, "end").transitions
  <1>0. /\ f.gmttimes \in Seq(Int) /\ f.indices \in Seq(Nat)
        /\ f.types \in Seq([gmtOffset : Int, isDst : BOOLEAN])
        /\ Len(f.indices) = Len(f.gmttimes)
        /\ \A j \in DOMAIN f.indices : f.indices[j] < Len(f.types)
    BY DEF WellFormed
  <1>1. n \in Nat /\ DOMAIN f.gmttimes = 1..n /\ DOMAIN f.indices = 1..n
    BY <1>0
  <1>2. \A j \in 1..n : /\ f.gmttimes[j] \in Int /\ f.indices[j] \in Nat
                        /\ f.indices[j] + 1 \in 1..Len(f.types)
    <2> HIDE DEF n
    <2> TAKE j \in 1..n
    <2>0. j \in DOMAIN f.gmttimes /\ j \in DOMAIN f.indices
      BY <1>1
    <2>1. f.gmttimes[j] \in Int /\ f.indices[j] \in Nat /\ f.indices[j] < Len(f.types)
      BY <1>0, <2>0
    <2>2. Len(f.types) \in Nat
      BY <1>0, LenProperties
    <2> QED
      BY <2>1, <2>2
  <1>3. \A j \in 1..n : f.types[f.indices[j] + 1].gmtOffset \in Int
    <2> HIDE DEF n
    <2> TAKE j \in 1..n
    <2>1. f.types[f.indices[j] + 1] \in [gmtOffset : Int, isDst : BOOLEAN]
      BY <1>0, <1>2, LenProperties
    <2> QED
      BY <2>1
  <1>4. /\ readTimeZoneFile(f, "end").localtimes = f.types
        /\ trs = [j \in 1..n |-> Transition(f.gmttimes[j],
                                            f.gmttimes[j] + f.types[f.indices[j] + 1].gmtOffset,
                                            f.indices[j] + 1)]
    BY <1>1 DEF readTimeZoneFile
  <1> HIDE DEF trs, n
  <1>5. trs \in [1..n -> [gmttime : Int, localtime : Int, localtimeIdx : Int]]
    BY <1>2, <1>3, <1>4 DEF Transition
  <1>6. trs \in Seq([gmttime : Int, localtime : Int, localtimeIdx : Int]) /\ Len(trs) = n
    <2> DEFINE T == [gmttime : Int, localtime : Int, localtimeIdx : Int]
    <2>1. trs \in [1..n -> T]
      BY <1>5
    <2> HIDE DEF T
    <2>2. trs \in Seq(T)
      BY <1>1, <2>1, SeqDef
    <2>3. Len(trs) = n
      BY <1>1, <2>1, <2>2, LenProperties
    <2> QED
      BY <2>2, <2>3 DEF T
  <1>7. \A gmt \in BOOLEAN : Keys(f, gmt) \in [1..n -> Int]
    BY <1>2, <1>3 DEF Keys, n
  <1>8. \A j \in 1..n : /\ trs[j].localtimeIdx = f.indices[j] + 1
                        /\ \A gmt \in BOOLEAN : key(trs[j], gmt) = Keys(f, gmt)[j]
    BY <1>4 DEF Transition, key, Keys, n
  <1> QED
    BY <1>4, <1>6, <1>7, <1>8 DEF trs, n

\* findLocaltime() of a time that i transitions have passed returns the kind of
\* time after i transitions, by GMT and by local time.
LEMMA LocaltimeFound ==
    ASSUME NEW f, WellFormed(f), zone = readTimeZoneFile(f, "end"), NEW gmt \in BOOLEAN,
           NEW k \in Int, NEW i, Passed(f, i, Keys(f, gmt), k)
    PROVE  findLocaltime(k, gmt) = Kind(f, i)
  <1> DEFINE n == Len(f.gmttimes)
             trs == zone.transitions
             K == Keys(f, gmt)
  <1>1. /\ zone.localtimes = f.types /\ n \in Nat
        /\ trs \in Seq([gmttime : Int, localtime : Int, localtimeIdx : Int]) /\ Len(trs) = n
        /\ DOMAIN trs = 1..n
        /\ \A j \in 1..n : trs[j].localtimeIdx = f.indices[j] + 1 /\ key(trs[j], gmt) = K[j]
        /\ K \in [1..n -> Int]
    BY ZoneOf
  <1>2. /\ i \in 0..n /\ i \in Int
        /\ \A j \in 1..(i - 1) : K[j] < k
        /\ i > 0 => K[i] <= k
        /\ \A j \in (i + 1)..n : k < K[j]
    BY <1>1 DEF Passed
  <1> HIDE DEF n, trs, K
  <1>3. CASE i = 0
    <2>1. trs = <<>> \/ k < key(trs[1], gmt)
      <3>1. CASE n = 0
        BY <1>1, <3>1
      <3>2. CASE n > 0
        <4>1. 1 \in (i + 1)..n /\ 1 \in 1..n
          BY <1>1, <1>3, <3>2
        <4> QED
          BY <1>1, <1>2, <4>1
      <3> QED
        BY <1>1, <3>1, <3>2
    <2> QED
      BY <1>1, <1>3, <2>1 DEF findLocaltime, Kind, trs
  <1>4. CASE i > 0
    <2>1. i \in 1..n /\ 1 \in 1..n /\ trs # <<>>
      BY <1>1, <1>2, <1>4
    <2>2. ~(k < key(trs[1], gmt))
      <3>1. K[1] <= k /\ K[1] \in Int
        <4>1. CASE i = 1
          BY <1>1, <1>2, <4>1
        <4>2. CASE i > 1
          <5>1. 1 \in 1..(i - 1) /\ K[1] \in Int
            BY <1>1, <1>2, <2>1, <4>2
          <5> QED
            BY <1>2, <5>1
        <4> QED
          BY <1>2, <1>4, <4>1, <4>2
      <3> QED
        BY <1>1, <2>1, <3>1
    <2> DEFINE S == {j \in DOMAIN trs : key(trs[j], gmt) >= k} \cup {Len(trs) + 1}
    <2>3. S = {j \in 1..n : K[j] >= k} \cup {n + 1}
      BY <1>1
    <2>4. lower_bound(trs, k, gmt) = Min(S)
      BY DEF lower_bound
    <2> HIDE DEF S
    <2>5. S \in SUBSET Int
      BY <1>1, <2>3
    <2>6. transitionAt(trs, k, gmt) = i
      <3>1. CASE K[i] = k
        <4>1. i \in S
          BY <1>1, <2>1, <2>3, <3>1
        <4>2. \A j \in S : i <= j
          <5> SUFFICES ASSUME NEW j \in S, j < i PROVE FALSE
            BY <1>2, <2>5
          <5>1. j \in 1..(i - 1) /\ K[j] >= k /\ K[j] \in Int
            BY <1>1, <1>2, <2>3
          <5> QED
            BY <1>2, <5>1
        <4>3. lower_bound(trs, k, gmt) = i
          BY <2>4, <2>5, <4>1, <4>2, MinIs
        <4> QED
          BY <1>1, <2>1, <3>1, <4>3 DEF transitionAt
      <3>2. CASE K[i] # k
        <4>0. K[i] < k /\ K[i] \in Int
          BY <1>1, <1>2, <1>4, <2>1, <3>2
        <4>1. i + 1 \in S
          <5>1. CASE i = n
            BY <2>3, <5>1
          <5>2. CASE i # n
            <6>1. i + 1 \in 1..n /\ i + 1 \in (i + 1)..n
              BY <1>1, <1>2, <5>2
            <6>2. k < K[i + 1] /\ K[i + 1] \in Int
              BY <1>1, <1>2, <6>1
            <6> QED
              BY <2>3, <6>1, <6>2
          <5> QED
            BY <5>1, <5>2
        <4>2. \A j \in S : i + 1 <= j
          <5> SUFFICES ASSUME NEW j \in S, j < i + 1 PROVE FALSE
            BY <1>2, <2>5
          <5>1. j \in 1..n /\ K[j] >= k /\ K[j] \in Int /\ j <= i
            BY <1>1, <1>2, <2>3
          <5>2. j = i \/ j \in 1..(i - 1)
            BY <1>2, <5>1
          <5> QED
            BY <1>2, <4>0, <5>1, <5>2
        <4>3. lower_bound(trs, k, gmt) = i + 1
          BY <1>2, <2>4, <2>5, <4>1, <4>2, MinIs
        <4>4. ~(i + 1 \in DOMAIN trs /\ key(trs[i + 1], gmt) = k)
          <5> SUFFICES ASSUME i + 1 \in 1..n PROVE key(trs[i + 1], gmt) # k
            BY <1>1
          <5>1. i + 1 \in (i + 1)..n
            BY <1>1, <1>2
          <5> QED
            BY <1>1, <1>2, <5>1
        <4> QED
          BY <1>2, <4>3, <4>4 DEF transitionAt
      <3> QED
        BY <3>1, <3>2
    <2>7. zone.localtimes[trs[i].localtimeIdx] = Kind(f, i)
      BY <1>1, <1>4, <2>1 DEF Kind
    <2> QED
      BY <2>1, <2>2, <2>6, <2>7 DEF findLocaltime, trs
  <1> QED
    BY <1>2, <1>3, <1>4

\* Every transition leads to a kind of time of the file.
LEMMA TypeOf ==
    ASSUME NEW f, WellFormed(f), NEW i \in 0..Len(f.gmttimes)
    PROVE  \E a \in DOMAIN f.types :
             /\ Kind(f, i) = f.types[a]
             /\ Kind(f, i).gmtOffset \in Int /\ Kind(f, i).isDst \in BOOLEAN
  <1>0. /\ f.gmttimes \in Seq(Int) /\ f.indices \in Seq(Nat) /\ f.types # <<>>
        /\ f.types \in Seq([gmtOffset : Int, isDst : BOOLEAN])
        /\ Len(f.indices) = Len(f.gmttimes)
        /\ \A j \in DOMAIN f.indices : f.indices[j] < Len(f.types)
    BY DEF WellFormed
  <1>1. /\ DOMAIN f.types = 1..Len(f.types) /\ Len(f.types) \in Nat /\ Len(f.types) > 0
        /\ Len(f.gmttimes) \in Nat /\ DOMAIN f.indices = 1..Len(f.gmttimes)
    BY <1>0
  <1> DEFINE a == IF i = 0 THEN 1 ELSE f.indices[i] + 1
  <1>2. a \in 1..Len(f.types)
    <2>1. CASE i = 0
      BY <1>1, <2>1
    <2>2. CASE i # 0
      <3>1. i \in DOMAIN f.indices
        BY <1>1, <2>2
      <3>2. f.indices[i] \in Nat /\ f.indices[i] < Len(f.types)
        BY <1>0, <3>1
      <3> QED
        BY <1>1, <2>2, <3>2
    <2> QED
      BY <2>1, <2>2
  <1>3. Kind(f, i) = f.types[a]
    BY <1>0, <1>1 DEF Kind
  <1> HIDE DEF a
  <1>4. f.types[a] \in [gmtOffset : Int, isDst : BOOLEAN]
    BY <1>0, <1>2, LenProperties
  <1> QED
    BY <1>1, <1>2, <1>3, <1>4

\* At every instant some number of transitions has passed.
LEMMA Counted ==
    ASSUME NEW f, WellFormed(f), NEW t \in Int
    PROVE  \E i \in 0..Len(f.gmttimes) :
             /\ Passed(f, i, Keys(f, TRUE), t)
             /\ \A j \in 1..Len(f.gmttimes) : f.gmttimes[j] <= t <=> j <= i
  <1> DEFINE n == Len(f.gmttimes)
             g == f.gmttimes
  <1>1. /\ n \in Nat /\ DOMAIN g = 1..n /\ \A j \in 1..n : g[j] \in Int
        /\ \A i, j \in 1..n : i < j => g[i] < g[j]
    <2>1. g \in Seq(Int) /\ \A i, j \in DOMAIN g : i < j => g[i] < g[j]
      BY DEF WellFormed
    <2> HIDE DEF g
    <2> QED
      BY <2>1, LenProperties DEF g
  <1>2. \A j \in 1..n : Keys(f, TRUE)[j] = g[j]
    BY DEF Keys
  <1> DEFINE S == {j \in 1..n : t < g[j]} \cup {n + 1}
  <1> HIDE DEF n, g
  <1>3. S \in SUBSET Nat /\ S # {}
    BY <1>1
  <1>4. PICK x \in S : \A y \in S : x <= y
    BY <1>3, LeastNat
  <1>5. x \in 1..(n + 1) /\ (x = n + 1 \/ (x \in 1..n /\ t < g[x]))
    BY <1>1
  <1> DEFINE i == x - 1
  <1>6. i \in 0..n
    BY <1>1, <1>5
  <1>7. \A j \in 1..i : g[j] <= t
    <2> SUFFICES ASSUME NEW j \in 1..i PROVE g[j] <= t
      OBVIOUS
    <2>1. j \in 1..n /\ j < x
      BY <1>1, <1>5
    <2>2. j \notin S
      BY <1>3, <1>4, <2>1
    <2>3. ~(t < g[j])
      BY <2>1, <2>2
    <2> QED
      BY <1>1, <2>1, <2>3
  <1>8. \A j \in (i + 1)..n : t < g[j]
    <2> SUFFICES ASSUME NEW j \in (i + 1)..n PROVE t < g[j]
      OBVIOUS
    <2>1. j \in 1..n /\ x \in 1..n /\ t < g[x] /\ (x = j \/ x < j)
      BY <1>1, <1>5
    <2> HIDE DEF S
    <2>2. g[x] \in Int /\ g[j] \in Int /\ (x = j \/ g[x] < g[j])
      BY <1>1, <2>1
    <2> QED
      BY <2>1, <2>2
  <1> HIDE DEF i, S
  <1>9. \A j \in 1..n : g[j] <= t <=> j <= i
    <2> TAKE j \in 1..n
    <2>1. CASE j <= i
      <3>1. j \in 1..i
        BY <1>6, <2>1
      <3> QED
        BY <1>7, <2>1, <3>1
    <2>2. CASE ~(j <= i)
      <3>1. j \in (i + 1)..n
        BY <1>1, <1>6, <2>2
      <3> QED
        BY <1>1, <1>8, <2>2, <3>1
    <2> QED
      BY <2>1, <2>2
  <1>10. \A j \in 1..(i - 1) : g[j] < t
    <2> SUFFICES ASSUME NEW j \in 1..(i - 1) PROVE g[j] < t
      OBVIOUS
    <2>1. j \in 1..n /\ i \in 1..n /\ j < i /\ i \in 1..i
      BY <1>1, <1>6
    <2>2. g[j] < g[i] /\ g[i] <= t /\ g[i] \in Int /\ g[j] \in Int
      BY <1>1, <1>7, <2>1
    <2> QED
      BY <2>2
  <1>11. Passed(f, i, Keys(f, TRUE), t)
    <2>1. i > 0 => g[i] <= t
      BY <1>6, <1>7
    <2>2. /\ \A j \in 1..(i - 1) : j \in 1..n
          /\ \A j \in (i + 1)..n : j \in 1..n
          /\ i > 0 => i \in 1..n
      BY <1>1, <1>6
    <2> QED
      BY <1>2, <1>6, <1>8, <1>10, <2>1, <2>2 DEF Passed, n
  <1> QED
    BY <1>6, <1>9, <1>11 DEF n, g

\* The kind of time before the i-th transition.
LEMMA KindBefore ==
    ASSUME NEW f, WellFormed(f), NEW i \in 0..(Len(f.gmttimes) - 1)
    PROVE  Before(f, i + 1) = Kind(f, i)
  <1>1. (i + 1) - 1 = i /\ (i + 1 = 1 <=> i = 0)
    OBVIOUS
  <1> QED
    BY <1>1 DEF Before, Kind

\* A first kind that is not daylight saving is the first of that sort.
LEMMA FirstStandardIs ==
    ASSUME NEW types \in Seq([gmtOffset : Int, isDst : BOOLEAN]), types # <<>>,
           ~Head(types).isDst
    PROVE  FirstStandard(types) = Head(types)
  <1> DEFINE standard == {i \in DOMAIN types : ~types[i].isDst}
  <1>1. Head(types) = types[1] /\ 1 \in DOMAIN types /\ DOMAIN types \subseteq Nat \ {0}
    OBVIOUS
  <1>2. standard \in SUBSET Int /\ 1 \in standard /\ \A i \in standard : 1 <= i
    BY <1>1
  <1>3. FirstStandard(types) = IF standard = {} THEN Head(types) ELSE types[Min(standard)]
    BY DEF FirstStandard
  <1> HIDE DEF standard
  <1>4. Min(standard) = 1
    BY <1>2, MinIs
  <1> QED
    BY <1>1, <1>2, <1>3, <1>4

\* The kind of time in force is the one after the transitions passed.
LEMMA InForceIs ==
    ASSUME WellFormed(file), StandardFirst(file), instant \in Int, NEW i \in 0..Len(file.gmttimes),
           \A j \in 1..Len(file.gmttimes) : file.gmttimes[j] <= instant <=> j <= i
    PROVE  InForce = Kind(file, i)
  <1> DEFINE n == Len(file.gmttimes)
             past == {j \in DOMAIN file.gmttimes : file.gmttimes[j] <= instant}
  <1>1. n \in Nat /\ DOMAIN file.gmttimes = 1..n
    <2>1. file.gmttimes \in Seq(Int)
      BY DEF WellFormed
    <2> QED
      BY <2>1
  <1>2. past = 1..i
    BY <1>1
  <1>3. InForce = IF past = {} THEN FirstStandard(file.types)
                  ELSE file.types[file.indices[Max(past)] + 1]
    BY DEF InForce
  <1> HIDE DEF past, n
  <1>4. CASE i = 0
    <2>1. FirstStandard(file.types) = Head(file.types)
      <3>1. file.types # <<>> /\ file.types \in Seq([gmtOffset : Int, isDst : BOOLEAN])
        BY DEF WellFormed
      <3> QED
        BY <3>1, FirstStandardIs DEF StandardFirst
    <2> QED
      BY <1>2, <1>3, <1>4, <2>1 DEF Kind
  <1>5. CASE i > 0
    <2>1. past \in SUBSET Int /\ i \in past /\ \A j \in past : j <= i
      BY <1>2, <1>5
    <2>2. Max(past) = i
      BY <2>1, MaxIs
    <2> QED
      BY <1>3, <1>5, <2>1, <2>2 DEF Kind
  <1> QED
    BY <1>4, <1>5

\* What RepeatsOneHour says of the kinds of time around the transitions.
LEMMA Apart ==
    ASSUME NEW f, WellFormed(f), RepeatsOneHour(f)
    PROVE  /\ \A x, y \in 1..Len(f.gmttimes), a, b \in 0..Len(f.gmttimes) :
                x < y => Kind(f, a).gmtOffset - Kind(f, b).gmtOffset
                           < f.gmttimes[y] - f.gmttimes[x]
           /\ \A i \in 0..(Len(f.gmttimes) - 1) :
                Kind(f, i + 1).gmtOffset < Kind(f, i).gmtOffset =>
                    /\ Kind(f, i).isDst /\ ~Kind(f, i + 1).isDst
                    /\ Kind(f, i).gmtOffset = Kind(f, i + 1).gmtOffset + 3600
  <1> DEFINE n == Len(f.gmttimes)
  <1>1. n \in Nat /\ DOMAIN f.gmttimes = 1..n
    <2>1. f.gmttimes \in Seq(Int)
      BY DEF WellFormed
    <2> QED
      BY <2>1
  <1>2. ASSUME NEW x \in 1..n, NEW y \in 1..n, NEW a \in 0..n, NEW b \in 0..n, x < y
        PROVE  Kind(f, a).gmtOffset - Kind(f, b).gmtOffset < f.gmttimes[y] - f.gmttimes[x]
    <2>1. PICK c \in DOMAIN f.types : Kind(f, a) = f.types[c]
      BY TypeOf
    <2>2. PICK d \in DOMAIN f.types : Kind(f, b) = f.types[d]
      BY TypeOf
    <2> QED
      BY <1>1, <1>2, <2>1, <2>2 DEF RepeatsOneHour
  <1>3. ASSUME NEW i \in 0..(n - 1), Kind(f, i + 1).gmtOffset < Kind(f, i).gmtOffset
        PROVE  /\ Kind(f, i).isDst /\ ~Kind(f, i + 1).isDst
               /\ Kind(f, i).gmtOffset = Kind(f, i + 1).gmtOffset + 3600
    <2>1. i + 1 \in DOMAIN f.gmttimes /\ i + 1 # 0
      BY <1>1
    <2>2. Before(f, i + 1) = Kind(f, i)
      BY KindBefore
    <2>3. f.types[f.indices[i + 1] + 1] = Kind(f, i + 1)
      BY <2>1 DEF Kind
    <2> HIDE DEF n
    <2> QED
      BY <1>3, <2>1, <2>2, <2>3 DEF RepeatsOneHour
  <1> QED
    BY <1>2, <1>3

\* By local time the same transition is found, or, in a repeated hour, the one
\* after it.
LEMMA FoundByLocalTime ==
    ASSUME NEW f, WellFormed(f), RepeatsOneHour(f), NEW t \in Int, NEW i \in 0..Len(f.gmttimes),
           \A j \in 1..Len(f.gmttimes) : f.gmttimes[j] <= t <=> j <= i
    PROVE  LET s == t + Kind(f, i).gmtOffset
           IN  \/ Passed(f, i, Keys(f, FALSE), s)
               \/ /\ i < Len(f.gmttimes)
                  /\ Passed(f, i + 1, Keys(f, FALSE), s)
                  /\ f.gmttimes[i + 1] + Kind(f, i + 1).gmtOffset <= s
  <1> DEFINE n == Len(f.gmttimes)
             g == f.gmttimes
             o == [j \in 0..n |-> Kind(f, j).gmtOffset]
             K == Keys(f, FALSE)
             s == t + o[i]
  <1>1. n \in Nat /\ DOMAIN g = 1..n /\ \A j \in 1..n : g[j] \in Int
    <2>1. g \in Seq(Int)
      BY DEF WellFormed
    <2> HIDE DEF g
    <2> QED
      BY <2>1, LenProperties DEF g
  <1>2. \A j \in 0..n : o[j] \in Int
    <2> TAKE j \in 0..n
    <2> QED
      BY TypeOf
  <1>3. \A x, y \in 1..n, a, b \in 0..n : x < y => o[a] - o[b] < g[y] - g[x]
    BY Apart
  <1>4. \A j \in 1..n : K[j] = g[j] + o[j]
    BY DEF Keys, Kind
  <1>5. \A j \in 1..n : g[j] <= t <=> j <= i
    OBVIOUS
  <1>6. s = t + Kind(f, i).gmtOffset
    OBVIOUS
  <1>7. i \in 0..n
    OBVIOUS
  <1>8. i < n => o[i + 1] = Kind(f, i + 1).gmtOffset
    BY <1>1
  <1> SUFFICES \/ Passed(f, i, K, s)
               \/ i < n /\ Passed(f, i + 1, K, s) /\ g[i + 1] + o[i + 1] <= s
    BY <1>6, <1>8
  <1> HIDE DEF n, g, o, K
  <1>9. s \in Int
    BY <1>2, <1>7
  <1>10. \A j \in 1..n : K[j] \in Int
    <2> TAKE j \in 1..n
    <2>1. g[j] \in Int /\ o[j] \in Int
      BY <1>1, <1>2
    <2> QED
      BY <1>4, <2>1
  <1>11. \A j \in 1..(i - 1) : K[j] < s
    <2> TAKE j \in 1..(i - 1)
    <2>1. j \in 1..n /\ i \in 1..n /\ j < i /\ j \in 0..n
      BY <1>1, <1>7
    <2>2. o[j] - o[i] < g[i] - g[j] /\ g[i] <= t /\ K[j] = g[j] + o[j]
      BY <1>3, <1>4, <1>5, <1>7, <2>1
    <2>3. o[j] \in Int /\ o[i] \in Int /\ g[i] \in Int /\ g[j] \in Int
      BY <1>1, <1>2, <1>7, <2>1
    <2> QED
      BY <2>2, <2>3
  <1>12. i > 0 => K[i] <= s
    <2> SUFFICES ASSUME i > 0 PROVE K[i] <= s
      OBVIOUS
    <2>1. i \in 1..n
      BY <1>1, <1>7
    <2>2. K[i] = g[i] + o[i] /\ g[i] <= t /\ g[i] \in Int /\ o[i] \in Int
      BY <1>1, <1>2, <1>4, <1>5, <1>7, <2>1
    <2> QED
      BY <2>2
  <1>13. \A j \in (i + 2)..n : s < K[j]
    <2> TAKE j \in (i + 2)..n
    <2>1. j \in 1..n /\ i + 1 \in 1..n /\ i + 1 < j /\ j \in 0..n
      BY <1>1, <1>7
    <2>2. o[i] - o[j] < g[j] - g[i + 1] /\ ~(g[i + 1] <= t) /\ K[j] = g[j] + o[j]
      BY <1>3, <1>4, <1>5, <1>7, <2>1
    <2>3. o[j] \in Int /\ o[i] \in Int /\ g[i + 1] \in Int /\ g[j] \in Int
      BY <1>1, <1>2, <1>7, <2>1
    <2>4. s = t + o[i]
      BY <1>3, <1>7
    <2> HIDE DEF s
    <2> QED
      BY <2>2, <2>3, <2>4, SMTT(30)
  <1>14. CASE i = n
    <2>1. \A j \in (i + 1)..n : s < K[j]
      BY <1>1, <1>14
    <2> QED
      BY <1>7, <1>11, <1>12, <2>1 DEF Passed, n
  <1>15. CASE i < n
    <2>0. i + 1 \in 1..n /\ K[i + 1] \in Int /\ K[i + 1] = g[i + 1] + o[i + 1]
      BY <1>1, <1>4, <1>7, <1>10, <1>15
    <2> HIDE DEF s
    <2>1. CASE s < K[i + 1]
      <3>1. \A j \in (i + 1)..n : s < K[j]
        <4> TAKE j \in (i + 1)..n
        <4>1. j = i + 1 \/ j \in (i + 2)..n
          BY <1>1, <1>7
        <4> QED
          BY <1>13, <2>1, <4>1
      <3> QED
        BY <1>7, <1>11, <1>12, <3>1 DEF Passed, n
    <2>2. CASE K[i + 1] <= s
      <3>1. \A j \in 1..((i + 1) - 1) : K[j] < s
        <4> TAKE j \in 1..((i + 1) - 1)
        <4>1. j \in 1..n /\ j < i + 1 /\ j \in 0..n /\ i + 1 \in 0..n
          BY <1>1, <1>7, <2>0
        <4>2. o[j] - o[i + 1] < g[i + 1] - g[j] /\ K[j] = g[j] + o[j]
          BY <1>3, <1>4, <2>0, <4>1
        <4>3. o[j] \in Int /\ o[i + 1] \in Int /\ g[i + 1] \in Int /\ g[j] \in Int
          BY <1>1, <1>2, <2>0, <4>1
        <4> QED
          BY <1>9, <2>0, <2>2, <4>2, <4>3
      <3>2. \A j \in ((i + 1) + 1)..n : s < K[j]
        BY <1>7, <1>13
      <3>3. i + 1 \in 0..n
        BY <1>1, <2>0
      <3>4. Passed(f, i + 1, K, s)
        BY <2>2, <3>1, <3>2, <3>3 DEF Passed, n
      <3> QED
        BY <1>15, <2>0, <2>2, <3>4
    <2> QED
      BY <1>9, <2>0, <2>1, <2>2
  <1> QED
    BY <1>1, <1>7, <1>14, <1>15

\* What toLocalTime() returns after i transitions.
LEMMA LocalTimeIs ==
    ASSUME NEW f, WellFormed(f), zone = readTimeZoneFile(f, "end"), NEW t \in Int, NEW i,
           Passed(f, i, Keys(f, TRUE), t)
    PROVE  toLocalTime(t) = [seconds |-> t + Kind(f, i).gmtOffset, isdst |-> Kind(f, i).isDst]
  <1>1. findLocaltime(t, TRUE) = Kind(f, i)
    BY LocaltimeFound
  <1> QED
    BY <1>1 DEF toLocalTime

\* The hour fromLocalTime() takes off for a second chance.
RepeatedHour == 3600

\* What fromLocalTime() returns for a time it has found the transition of.
LEMMA FromLocalTimeIs ==
    ASSUME NEW tm, NEW s \in Int, tm.seconds = s, NEW local, local.gmtOffset \in Int,
           findLocaltime(s, FALSE) = local
    PROVE  /\ secondChance(tm, local) => fromLocalTime(tm) = s - RepeatedHour - local.gmtOffset
           /\ ~secondChance(tm, local) => fromLocalTime(tm) = s - local.gmtOffset
  <1> DEFINE found == findLocaltime(tm.seconds, FALSE)
  <1>1. found = local
    OBVIOUS
  <1>2. fromLocalTime(tm) = (IF secondChance(tm, found) THEN tm.seconds - 3600 ELSE tm.seconds)
                              - found.gmtOffset
    BY SMT DEF fromLocalTime
  <1> HIDE DEF found
  <1>3. CASE secondChance(tm, local)
    <2>1. fromLocalTime(tm) = tm.seconds - 3600 - found.gmtOffset
      BY <1>1, <1>2, <1>3, SMT
    <2> QED
      BY <1>1, <1>3, <2>1, SMT DEF RepeatedHour
  <1>4. CASE ~secondChance(tm, local)
    <2>1. fromLocalTime(tm) = tm.seconds - found.gmtOffset
      BY <1>1, <1>2, <1>4, SMT
    <2> QED
      BY <1>1, <1>4, <2>1, SMT
  <1> QED
    BY <1>3, <1>4, SMT

\* fromLocalTime() returns the instant toLocalTime() was given, in the hour that
\* a transition repeats, too.
LEMMA RoundTrip ==
    ASSUME NEW f, WellFormed(f), RepeatsOneHour(f), zone = readTimeZoneFile(f, "end"),
           NEW t \in Int
    PROVE  fromLocalTime(toLocalTime(t)) = t
  <1> DEFINE n == Len(f.gmttimes)
             g == f.gmttimes
  <1>0. n \in Nat /\ \A j \in 1..n : g[j] \in Int
    <2>1. g \in Seq(Int)
      BY DEF WellFormed
    <2> HIDE DEF g
    <2> QED
      BY <2>1, LenProperties DEF g
  <1>1. PICK i \in 0..n : /\ Passed(f, i, Keys(f, TRUE), t)
                          /\ \A j \in 1..n : g[j] <= t <=> j <= i
    BY Counted
  <1> DEFINE s == t + Kind(f, i).gmtOffset
             tm == [seconds |-> s, isdst |-> Kind(f, i).isDst]
  <1>2. toLocalTime(t) = tm
    BY <1>1, LocalTimeIs
  <1>3. Kind(f, i).gmtOffset \in Int /\ Kind(f, i).isDst \in BOOLEAN /\ s \in Int
    BY TypeOf
  <1>4. CASE Passed(f, i, Keys(f, FALSE), s)
    <2>1. findLocaltime(s, FALSE) = Kind(f, i)
      BY <1>3, <1>4, LocaltimeFound
    <2>2. s - Kind(f, i).gmtOffset = t
      BY <1>3
    <2>3. ~secondChance(tm, Kind(f, i))
      BY <1>2, <2>2 DEF secondChance
    <2>4. tm.seconds = s
      OBVIOUS
    <2> HIDE DEF s, tm
    <2>5. fromLocalTime(tm) = s - Kind(f, i).gmtOffset
      BY <1>3, <2>1, <2>3, <2>4, FromLocalTimeIs
    <2> QED
      BY <1>2, <2>2, <2>5
  <1>5. CASE /\ i < n
             /\ Passed(f, i + 1, Keys(f, FALSE), s)
             /\ g[i + 1] + Kind(f, i + 1).gmtOffset <= s
    <2> DEFINE before == Kind(f, i)
               after == Kind(f, i + 1)
    <2>0. i + 1 \in 1..n /\ i + 1 \in 0..n /\ i \in 0..(n - 1)
      BY <1>0, <1>5
    <2>1. after.gmtOffset \in Int /\ after.isDst \in BOOLEAN /\ g[i + 1] \in Int
      BY <1>0, <2>0, TypeOf
    <2>2. t < g[i + 1]
      BY <1>0, <1>1, <2>0, <2>1
    <2>3. after.gmtOffset < before.gmtOffset
      BY <1>3, <1>5, <2>1, <2>2
    <2>4. before.isDst /\ ~after.isDst /\ before.gmtOffset = after.gmtOffset + 3600
      BY <2>0, <2>3, Apart
    <2>5. findLocaltime(s, FALSE) = after
      BY <1>3, <1>5, LocaltimeFound
    <2> DEFINE u == s - after.gmtOffset
    <2>6. u \in Int /\ u = t + 3600 /\ u + after.gmtOffset = s
      <3> HIDE DEF before, after
      <3>1. s = t + before.gmtOffset
        BY DEF before
      <3>2. PICK o \in Int : o = after.gmtOffset
        BY <2>1
      <3>3. before.gmtOffset = o + 3600
        BY <2>4, <3>2
      <3> HIDE DEF s
      <3>4. s = t + (o + 3600)
        BY <3>1, <3>3, SMT
      <3>5. s \in Int /\ s - o = t + 3600 /\ (t + 3600) + o = s
        BY <3>4, SMT
      <3> QED
        BY <3>2, <3>5, SMT
    <2>6a. u \in Int
      BY <2>6, SMT
    <2>6b. u + after.gmtOffset = s
      BY <2>6, SMT
    <2> HIDE DEF u
    <2>7. \A j \in 1..n : g[j] <= u <=> j <= i + 1
      <3> TAKE j \in 1..n
      <3>1. CASE j <= i
        <4>1. g[j] <= t /\ g[j] \in Int
          BY <1>0, <1>1, <3>1
        <4> QED
          BY <2>6, <3>1, <4>1, SMT
      <3>2. CASE j = i + 1
        <4>1. g[i + 1] <= u
          BY <1>5, <2>1, <2>6, SMT
        <4> QED
          BY <3>2, <4>1
      <3>3. CASE j > i + 1
        <4>1. before.gmtOffset - after.gmtOffset < g[j] - g[i + 1]
          BY <2>0, <3>3, Apart
        <4>2. g[j] \in Int
          BY <1>0
        <4>3. before.gmtOffset \in Int
          BY <1>3
        <4>4. before.gmtOffset - after.gmtOffset = 3600
          <5> HIDE DEF before, after
          <5> QED
            BY <2>1, <2>4, <4>3, SMT
        <4>5. 3600 < g[j] - g[i + 1]
          <5> HIDE DEF before, after, g
          <5> QED
            BY <4>1, <4>4, SMT
        <4> HIDE DEF g
        <4>6. u < g[j]
          BY <2>1, <2>2, <2>6, <4>2, <4>5, SMT
        <4> QED
          BY <2>6a, <3>3, <4>2, <4>6, SMT
      <3> QED
        BY <3>1, <3>2, <3>3
    <2>8. toLocalTime(u) = [seconds |-> s, isdst |-> FALSE]
      <3>1. PICK k \in 0..n : /\ Passed(f, k, Keys(f, TRUE), u)
                              /\ \A j \in 1..n : g[j] <= u <=> j <= k
        BY <2>6a, Counted
      <3>2. k = i + 1
        <4>1. i + 1 <= k
          BY <2>0, <2>7, <3>1
        <4>2. k \in 1..n => k <= i + 1
          BY <2>7, <3>1
        <4> QED
          BY <1>0, <4>1, <4>2
      <3>3. toLocalTime(u) = [seconds |-> u + after.gmtOffset, isdst |-> after.isDst]
        BY <2>6a, <3>1, <3>2, LocalTimeIs
      <3>4. after.isDst = FALSE
        BY <2>1, <2>4
      <3> QED
        BY <2>6b, <3>3, <3>4
    <2>9. secondChance(tm, after)
      BY <2>4, <2>8 DEF secondChance, u
    <2>10. fromLocalTime(tm) = s - 3600 - after.gmtOffset
      <3>1. tm.seconds = s
        OBVIOUS
      <3> HIDE DEF tm, s, after
      <3> QED
        <4>1. fromLocalTime(tm) = s - RepeatedHour - after.gmtOffset
          BY <1>3, <2>1, <2>5, <2>9, <3>1, FromLocalTimeIs
        <4> QED
          BY <4>1, SMT DEF RepeatedHour
    <2>11. s - 3600 - after.gmtOffset = t
      <3> HIDE DEF s, after
      <3> QED
        BY <1>3, <2>1, <2>6, SMT
    <2> QED
      BY <1>2, <2>10, <2>11
  <1> QED
    BY <1>1, <1>4, <1>5, FoundByLocalTime

\* No file has been read.
NoFile == [gmttimes |-> <<>>, indices |-> <<>>, types |-> <<>>]

\* The zone is the one of the file that was read.
ZoneInv ==
    /\ instant \in Int
    /\ \/ zone = NoZone /\ file = NoFile
       \/ /\ WellFormed(file)
          /\ zone = readTimeZoneFile(file, "end")
          /\ \/ file \in ZoneFiles
             \/ file.gmttimes = <<>> /\ StandardFirst(file)

\* A TimeZone begins invalid,
LEMMA ZoneInvInit == ZoneInit => ZoneInv
  BY ZoneAssumption DEF ZoneInit, ZoneInv, NoFile

\* reads a whole file or gets a fixed offset, and the clock moves on.
LEMMA ZoneInvStep ==
    ASSUME Cuts = {"end"}, ZoneInv, [ZoneNext]_zoneVars
    PROVE  ZoneInv'
  <1>1. CASE FileZone
    <2>1. PICK f \in ZoneFiles : file' = f /\ zone' = readTimeZoneFile(f, "end")
      BY <1>1 DEF FileZone
    <2>2. WellFormed(f)
      BY ZoneAssumption
    <2>3. WellFormed(file)'
      BY <2>1, <2>2 DEF WellFormed
    <2>4. zone' = readTimeZoneFile(file, "end")'
      BY <2>1 DEF readTimeZoneFile, Transition
    <2> QED
      BY <1>1, <2>1, <2>3, <2>4 DEF ZoneInv, FileZone
  <1>2. CASE FixedZone
    <2>1. PICK east \in FixedOffsets :
            /\ zone' = [NoZone EXCEPT !.localtimes = <<Localtime(east, FALSE)>>]
            /\ file' = [file EXCEPT !.types = zone'.localtimes]
      BY <1>2 DEF FixedZone
    <2>2. file = NoFile
      <3>1. zone = NoZone
        BY <1>2 DEF FixedZone
      <3>2. WellFormed(file) => zone # readTimeZoneFile(file, "end")
        BY <3>1 DEF WellFormed, readTimeZoneFile, NoZone
      <3> QED
        BY <3>2 DEF ZoneInv
    <2> DEFINE types == <<Localtime(east, FALSE)>>
    <2>3. /\ zone' = [localtimes |-> types, transitions |-> <<>>]
          /\ file' = [gmttimes |-> <<>>, indices |-> <<>>, types |-> types]
      BY <2>1, <2>2 DEF NoZone, NoFile
    <2>4. types \in Seq([gmtOffset : Int, isDst : BOOLEAN]) /\ types # <<>>
      BY ZoneAssumption DEF Localtime
    <2>4a. ~Head(types).isDst
      BY DEF Localtime
    <2> HIDE DEF types
    <2>5. WellFormed(file)'
      BY <2>3, <2>4 DEF WellFormed
    <2>6. zone' = readTimeZoneFile(file, "end")'
      BY <2>3 DEF readTimeZoneFile, Transition
    <2>7. StandardFirst(file)'
      BY <2>3, <2>4a DEF StandardFirst
    <2> QED
      BY <1>2, <2>3, <2>5, <2>6, <2>7 DEF ZoneInv, FixedZone
  <1>3. CASE NextInstant
    BY <1>3, ZoneAssumption DEF NextInstant, ZoneInv, WellFormed, readTimeZoneFile, Transition,
       StandardFirst
  <1>4. CASE UNCHANGED zoneVars
    BY <1>4 DEF zoneVars, ZoneInv, WellFormed, readTimeZoneFile, Transition,
       StandardFirst
  <1> QED
    BY <1>1, <1>2, <1>3, <1>4 DEF ZoneNext

\* Such a zone tells the local time in force.
LEMMA ZoneInvInForce ==
    ASSUME \A f \in ZoneFiles : StandardFirst(f)
    PROVE  ZoneInv => LocalTimeInForce
  <1> SUFFICES ASSUME ZoneInv, zone # NoZone
               PROVE  toLocalTime(instant) = [seconds |-> instant + InForce.gmtOffset,
                                              isdst |-> InForce.isDst]
    BY DEF LocalTimeInForce
  <1>1. /\ WellFormed(file) /\ zone = readTimeZoneFile(file, "end") /\ instant \in Int
        /\ StandardFirst(file)
    BY DEF ZoneInv
  <1>2. PICK i \in 0..Len(file.gmttimes) :
          /\ Passed(file, i, Keys(file, TRUE), instant)
          /\ \A j \in 1..Len(file.gmttimes) : file.gmttimes[j] <= instant <=> j <= i
    BY <1>1, Counted
  <1>3. InForce = Kind(file, i)
    BY <1>1, <1>2, InForceIs
  <1> QED
    BY <1>1, <1>2, <1>3, LocalTimeIs

\* For every well formed zone file that is read to its end and whose first kind
\* of time is not daylight saving toLocalTime() applies the kind of time in force
\* at every instant.
THEOREM ZoneInForce ==
    ASSUME Cuts = {"end"}, \A f \in ZoneFiles : StandardFirst(f)
    PROVE  ZoneSpec => []LocalTimeInForce
  <1>1. ZoneInv /\ [ZoneNext]_zoneVars => ZoneInv'
    BY ZoneInvStep
  <1> QED
    BY <1>1, ZoneInvInit, ZoneInvInForce, PTL DEF ZoneSpec

\* Where, besides, clocks that are put back go from daylight saving to standard time by an
\* hour, and transitions are further apart than any two offsets,
\* fromLocalTime() takes every local time back to its instant.
THEOREM ZoneRoundTrips ==
    ASSUME Cuts = {"end"}, \A f \in ZoneFiles : StandardFirst(f) /\ RepeatsOneHour(f)
    PROVE  ZoneSpec => []LocalTimeRoundTrips
  <1>1. ZoneInv /\ [ZoneNext]_zoneVars => ZoneInv'
    BY ZoneInvStep
  <1>2. ZoneInv => LocalTimeRoundTrips
    <2> SUFFICES ASSUME ZoneInv, zone # NoZone PROVE fromLocalTime(toLocalTime(instant)) = instant
      BY ZoneInvInForce DEF LocalTimeRoundTrips
    <2>1. /\ WellFormed(file) /\ zone = readTimeZoneFile(file, "end") /\ instant \in Int
          /\ file \in ZoneFiles \/ file.gmttimes = <<>>
      BY DEF ZoneInv
    <2>2. RepeatsOneHour(file)
      <3>1. CASE file \in ZoneFiles
        BY <3>1
      <3>2. CASE file.gmttimes = <<>>
        BY <3>2 DEF RepeatsOneHour
      <3> QED
        BY <2>1, <3>1, <3>2
    <2> QED
      BY <2>1, <2>2, RoundTrip
  <1> QED
    BY <1>1, <1>2, ZoneInvInit, PTL DEF ZoneSpec

-----------------------------------------------------------------------------
(* LogStream.                                                              *)

\* The bases of convert() and convertHex().
Bases == {10, 16}

\* What C++'s division leaves of a number.
LEMMA Divided ==
    ASSUME NEW b \in Bases, NEW i \in Int
    PROVE  /\ Quotient(i, b) \in Int /\ Remainder(i, b) \in Int
           /\ i = b * Quotient(i, b) + Remainder(i, b)
           /\ i >= 0 => Quotient(i, b) >= 0 /\ Remainder(i, b) \in 0..(b - 1)
           /\ i <= 0 => Quotient(i, b) <= 0 /\ -Remainder(i, b) \in 0..(b - 1)
           /\ i > 0 => Quotient(i, b) < i
           /\ i < 0 => Quotient(i, b) > i
  <1>1. CASE b = 10
    <2>1. PICK q, r : q = i \div 10 /\ r = i % 10
      OBVIOUS
    <2>2. q \in Int /\ r \in 0..9 /\ i = 10 * q + r
      BY <2>1, SMT
    <2>3. Quotient(i, b) = IF i < 0 /\ r # 0 THEN q + 1 ELSE q
      BY <1>1, <2>1, <2>2, SMT DEF Quotient
    <2>4. Remainder(i, b) = IF i < 0 /\ r # 0 THEN r - 10 ELSE r
      BY <1>1, <2>2, <2>3, SMT DEF Remainder
    <2> QED
      BY <1>1, <2>2, <2>3, <2>4, SMT
  <1>2. CASE b = 16
    <2>1. PICK q, r : q = i \div 16 /\ r = i % 16
      OBVIOUS
    <2>2. q \in Int /\ r \in 0..15 /\ i = 16 * q + r
      BY <2>1, SMT
    <2>3. Quotient(i, b) = IF i < 0 /\ r # 0 THEN q + 1 ELSE q
      BY <1>2, <2>1, <2>2, SMT DEF Quotient
    <2>4. Remainder(i, b) = IF i < 0 /\ r # 0 THEN r - 16 ELSE r
      BY <1>2, <2>2, <2>3, SMT DEF Remainder
    <2> QED
      BY <1>2, <2>2, <2>3, <2>4, SMT
  <1> QED
    BY <1>1, <1>2 DEF Bases

\* One round of the loops, d being the table of the digits.
Round(f, i, b, d) ==
    <<d[Remainder(i, b)]>> \o IF Quotient(i, b) = 0 THEN <<>> ELSE f[Quotient(i, b)]

\* The loops end: on -n..n there is a function that does the rounds. A least n
\* without one would be obtained from the one before it.
LEMMA LoopExists ==
    ASSUME NEW b \in Bases, NEW d, NEW n \in Nat
    PROVE  \E f : f = [i \in -n..n |-> Round(f, i, b, d)]
  <1> DEFINE P(m) == \E f : f = [i \in -m..m |-> Round(f, i, b, d)]
             S == {m \in Nat : ~P(m)}
  <1> SUFFICES ASSUME S # {} PROVE FALSE
    BY Zenon
  <1>1. PICK m \in S : \A k \in S : m <= k
    BY LeastNat, Zenon
  <1>2. m \in Nat /\ ~P(m)
    OBVIOUS
  <1>3. CASE m = 0
    <2> DEFINE f == [i \in -m..m |-> <<d[Remainder(i, b)]>> \o <<>>]
    <2>1. \A i \in -m..m : Quotient(i, b) = 0
      <3> TAKE i \in -m..m
      <3>1. i = 0
        BY <1>3
      <3>2. i \in Int /\ i >= 0 /\ i <= 0
        BY <3>1
      <3> QED
        BY <3>2, Divided
    <2>2. \A i \in -m..m : Round(f, i, b, d) = <<d[Remainder(i, b)]>> \o <<>>
      BY <2>1, Zenon DEF Round
    <2>3. f = [i \in -m..m |-> Round(f, i, b, d)]
      BY <2>2, Zenon
    <2> QED
      BY <1>2, <2>3, Zenon
  <1>4. CASE m # 0
    <2> DEFINE k == m - 1
    <2>1. k \in Nat /\ k < m
      BY <1>2, <1>4
    <2>2. k \notin S
      BY <1>1, <1>2, <2>1
    <2>3. P(k)
      BY <2>1, <2>2
    <2>4. PICK g : g = [i \in -k..k |-> Round(g, i, b, d)]
      BY <2>3
    <2> DEFINE f == [i \in -m..m |-> IF i \in -k..k THEN g[i] ELSE Round(g, i, b, d)]
    <2>5. \A i \in -m..m : f[i] = Round(g, i, b, d)
      BY <2>4
    <2>6. \A i \in -m..m : Quotient(i, b) # 0 => Quotient(i, b) \in -k..k
      <3> TAKE i \in -m..m
      <3>1. i \in Int /\ m \in Int /\ -m <= i /\ i <= m
        BY <1>2
      <3>2. /\ Quotient(i, b) \in Int
            /\ i >= 0 => Quotient(i, b) >= 0
            /\ i <= 0 => Quotient(i, b) <= 0
            /\ i > 0 => Quotient(i, b) < i
            /\ i < 0 => Quotient(i, b) > i
        BY <3>1, Divided
      <3> QED
        BY <1>2, <3>1, <3>2
    <2>7. \A i \in -k..k : f[i] = g[i]
      <3>1. \A i \in -k..k : i \in -m..m
        BY <1>2
      <3> QED
        BY <3>1
    <2> HIDE DEF f, k
    <2>8. \A i \in -m..m : Round(g, i, b, d) = Round(f, i, b, d)
      <3> TAKE i \in -m..m
      <3>1. Quotient(i, b) # 0 => f[Quotient(i, b)] = g[Quotient(i, b)]
        BY <2>6, <2>7
      <3> QED
        BY <3>1, Zenon DEF Round
    <2>9. f = [i \in -m..m |-> f[i]]
      BY DEF f
    <2>10. f = [i \in -m..m |-> Round(f, i, b, d)]
      BY <2>5, <2>8, <2>9, Zenon
    <2> QED
      BY <1>2, <2>10
  <1> QED
    BY <1>3, <1>4

\* The only facts needed of the largest int.
LEMMA IntMax == INT_MAX \in Nat /\ INT_MAX < 2147483648
  BY SMT DEF INT_MAX

\* The quotient of an int is an int.
LEMMA IntRange ==
    /\ int32 \subseteq Int
    /\ \A i \in int32, b \in Bases : Quotient(i, b) \in int32
  <1>0. INT_MAX \in Nat
    BY IntMax, SMT
  <1>1. int32 \subseteq Int
    BY <1>0, SMT DEF int32
  <1>2. ASSUME NEW i \in int32, NEW b \in Bases
        PROVE  Quotient(i, b) \in int32
    <2>1. i \in Int
      BY <1>1
    <2>2. /\ Quotient(i, b) \in Int
          /\ i >= 0 => Quotient(i, b) >= 0
          /\ i <= 0 => Quotient(i, b) <= 0
          /\ i > 0 => Quotient(i, b) < i
          /\ i < 0 => Quotient(i, b) > i
      BY <2>1, Divided
    <2> QED
      BY <1>0, <2>1, <2>2, SMT DEF int32
  <1> QED
    BY <1>1, <1>2

\* f does the rounds for every int.
IsLoop(f, b, d) ==
    /\ d \in [-(b - 1)..(b - 1) -> Int]
    /\ \A i \in int32 : f[i] = Round(f, i, b, d)

\* Such a function exists for the ints, of which there is one more below zero,
LEMMA IntLoopExists ==
    ASSUME NEW b \in Bases, NEW d
    PROVE  \E f : f = [i \in int32 |-> Round(f, i, b, d)]
  <1> DEFINE n == INT_MAX + 1
  <1>0. INT_MAX \in Nat
    BY IntMax, SMT
  <1>1. n \in Nat /\ int32 \subseteq -n..n
    BY <1>0, SMT DEF int32
  <1> HIDE DEF n
  <1>2. PICK g : g = [i \in -n..n |-> Round(g, i, b, d)]
    BY <1>1, LoopExists
  <1> DEFINE f == [i \in int32 |-> g[i]]
  <1>3. \A i \in int32 : f[i] = Round(g, i, b, d)
    BY <1>1, <1>2
  <1>4. \A i \in int32 : Round(g, i, b, d) = Round(f, i, b, d)
    <2> TAKE i \in int32
    <2>1. f[Quotient(i, b)] = g[Quotient(i, b)]
      BY IntRange
    <2> HIDE DEF f
    <2> QED
      BY <2>1, Zenon DEF Round
  <1>5. f = [i \in int32 |-> f[i]]
    OBVIOUS
  <1> HIDE DEF f
  <1>6. f = [i \in int32 |-> Round(f, i, b, d)]
    BY <1>3, <1>4, <1>5, Zenon
  <1> QED
    BY <1>6

\* The digits by remainder.
Table10 == [r \in -9..9 |-> zero(r)]
Table16 == [r \in -15..15 |-> r]

\* The table is symmetric: a negative remainder has the digit of its magnitude.
LEMMA Table10Is == \A r \in -9..9 : zero(r) = IF r < 0 THEN -r ELSE r
  <1> TAKE r \in -9..9
  <1>1. r \in {-9, -8, -7, -6, -5, -4, -3, -2, -1, 0, 1, 2, 3, 4, 5, 6, 7, 8, 9}
    OBVIOUS
  <1> QED
    BY <1>1, SMT DEF zero

\* Both tables have an entry for every remainder.
LEMMA Tables ==
    /\ 10 \in Bases /\ Table10 \in [-(10 - 1)..(10 - 1) -> Int]
    /\ 16 \in Bases /\ Table16 \in [-(16 - 1)..(16 - 1) -> Int]
  BY Table10Is DEF Bases, Table10, Table16

\* so the recursive definitions are what they say: convert(),
LEMMA DecimalLoop == IsLoop(decimal, 10, Table10)
  <1>0. 10 \in Bases
    BY DEF Bases
  <1>1. \A f, i : i \in int32 =>
          Round(f, i, 10, Table10)
            = <<zero(Remainder(i, 10))>>
                \o IF Quotient(i, 10) = 0 THEN <<>> ELSE f[Quotient(i, 10)]
    <2> TAKE f, i
    <2> SUFFICES ASSUME i \in int32
                 PROVE  Table10[Remainder(i, 10)] = zero(Remainder(i, 10))
      BY Zenon DEF Round
    <2>1. i \in Int
      BY IntRange
    <2>2. Remainder(i, 10) \in -9..9
      <3>1. /\ Remainder(i, 10) \in Int
            /\ i >= 0 => Remainder(i, 10) \in 0..(10 - 1)
            /\ i <= 0 => -Remainder(i, 10) \in 0..(10 - 1)
        BY <1>0, <2>1, Divided
      <3> QED
        BY <2>1, <3>1
    <2> QED
      BY <2>2 DEF Table10
  <1>2. \E f : f = [i \in int32 |-> <<zero(Remainder(i, 10))>>
                      \o IF Quotient(i, 10) = 0 THEN <<>> ELSE f[Quotient(i, 10)]]
    <2>1. PICK f : f = [i \in int32 |-> Round(f, i, 10, Table10)]
      BY <1>0, IntLoopExists
    <2>2. [i \in int32 |-> Round(f, i, 10, Table10)]
            = [i \in int32 |-> <<zero(Remainder(i, 10))>>
                 \o IF Quotient(i, 10) = 0 THEN <<>> ELSE f[Quotient(i, 10)]]
      BY <1>1, Zenon
    <2> QED
      BY <2>1, <2>2, Zenon
  <1>3. decimal = [i \in int32 |-> <<zero(Remainder(i, 10))>>
                     \o IF Quotient(i, 10) = 0 THEN <<>> ELSE decimal[Quotient(i, 10)]]
    BY <1>2, Zenon DEF decimal
  <1> QED
    <2>1. \A i \in int32 : decimal[i] = Round(decimal, i, 10, Table10)
      BY <1>1, <1>3, Zenon
    <2> QED
      BY <2>1, Tables DEF IsLoop

\* and convertHex().
LEMMA HexLoop == IsLoop(hexadecimal, 16, Table16)
  <1>0. 16 \in Bases
    BY DEF Bases
  <1>1. \A f, i : i \in int32 =>
          Round(f, i, 16, Table16)
            = <<Remainder(i, 16)>>
                \o IF Quotient(i, 16) = 0 THEN <<>> ELSE f[Quotient(i, 16)]
    <2> TAKE f, i
    <2> SUFFICES ASSUME i \in int32
                 PROVE  Table16[Remainder(i, 16)] = Remainder(i, 16)
      BY Zenon DEF Round
    <2>1. i \in Int
      BY IntRange
    <2>2. Remainder(i, 16) \in -15..15
      <3>1. /\ Remainder(i, 16) \in Int
            /\ i >= 0 => Remainder(i, 16) \in 0..(16 - 1)
            /\ i <= 0 => -Remainder(i, 16) \in 0..(16 - 1)
        BY <1>0, <2>1, Divided
      <3> QED
        BY <2>1, <3>1
    <2> QED
      BY <2>2 DEF Table16
  <1>2. \E f : f = [i \in int32 |-> <<Remainder(i, 16)>>
                      \o IF Quotient(i, 16) = 0 THEN <<>> ELSE f[Quotient(i, 16)]]
    <2>1. PICK f : f = [i \in int32 |-> Round(f, i, 16, Table16)]
      BY <1>0, IntLoopExists
    <2>2. [i \in int32 |-> Round(f, i, 16, Table16)]
            = [i \in int32 |-> <<Remainder(i, 16)>>
                 \o IF Quotient(i, 16) = 0 THEN <<>> ELSE f[Quotient(i, 16)]]
      BY <1>1, Zenon
    <2> QED
      BY <2>1, <2>2, Zenon
  <1>3. hexadecimal = [i \in int32 |-> <<Remainder(i, 16)>>
                         \o IF Quotient(i, 16) = 0 THEN <<>> ELSE hexadecimal[Quotient(i, 16)]]
    BY <1>2, Zenon DEF hexadecimal
  <1> QED
    <2>1. \A i \in int32 : hexadecimal[i] = Round(hexadecimal, i, 16, Table16)
      BY <1>1, <1>3, Zenon
    <2> QED
      BY <2>1, Tables DEF IsLoop

\* The distance from zero, on which the loops are founded.
Abs(i) == IF i < 0 THEN -i ELSE i

\* A round comes nearer to zero.
LEMMA Shrinks ==
    ASSUME NEW b \in Bases, NEW i \in int32
    PROVE  /\ i \in Int /\ Abs(i) \in Nat
           /\ Quotient(i, b) \in int32
           /\ Quotient(i, b) # 0 => Abs(Quotient(i, b)) < Abs(i)
           /\ Remainder(i, b) \in -(b - 1)..(b - 1)
  <1>1. i \in Int /\ Quotient(i, b) \in int32
    BY IntRange
  <1>2. /\ Quotient(i, b) \in Int /\ Remainder(i, b) \in Int
        /\ i >= 0 => Quotient(i, b) >= 0 /\ Remainder(i, b) \in 0..(b - 1)
        /\ i <= 0 => Quotient(i, b) <= 0 /\ -Remainder(i, b) \in 0..(b - 1)
        /\ i > 0 => Quotient(i, b) < i
        /\ i < 0 => Quotient(i, b) > i
    BY <1>1, Divided
  <1>3. b \in Int
    BY DEF Bases
  <1>4. Quotient(i, b) # 0 => Abs(Quotient(i, b)) < Abs(i)
    BY <1>1, <1>2 DEF Abs
  <1>5. Remainder(i, b) \in -(b - 1)..(b - 1)
    BY <1>1, <1>2, <1>3
  <1> QED
    BY <1>1, <1>4, <1>5 DEF Abs

\* The digits are a sequence of at least one.
LEMMA LoopIsSequence ==
    ASSUME NEW b \in Bases, NEW d, NEW f, IsLoop(f, b, d)
    PROVE  \A i \in int32 : f[i] \in Seq(Int)
  <1> DEFINE S == {n \in Nat : \E i \in int32 : Abs(i) = n /\ f[i] \notin Seq(Int)}
  <1> SUFFICES ASSUME NEW i0 \in int32, f[i0] \notin Seq(Int) PROVE FALSE
    OBVIOUS
  <1>1. Abs(i0) \in S
    BY Shrinks
  <1>2. S \in SUBSET Nat /\ S # {}
    BY <1>1
  <1>3. PICK n \in S : \A k \in S : n <= k
    BY <1>2, LeastNat
  <1>4. PICK i \in int32 : Abs(i) = n /\ f[i] \notin Seq(Int)
    OBVIOUS
  <1> DEFINE q == Quotient(i, b)
             r == Remainder(i, b)
  <1>5. /\ Abs(i) \in Nat /\ q \in int32 /\ (q # 0 => Abs(q) < Abs(i)) /\ Abs(q) \in Nat
        /\ r \in -(b - 1)..(b - 1)
    BY Shrinks
  <1>6. q # 0 => f[q] \in Seq(Int)
    <2> SUFFICES ASSUME q # 0, f[q] \notin Seq(Int) PROVE FALSE
      OBVIOUS
    <2>1. Abs(q) \in S
      BY <1>5
    <2>2. n <= Abs(q)
      BY <1>3, <2>1
    <2> QED
      BY <1>4, <1>5, <2>2
  <1>7. f[i] = <<d[r]>> \o IF q = 0 THEN <<>> ELSE f[q]
    BY Zenon DEF IsLoop, Round
  <1> HIDE DEF q, r, S
  <1>8. <<d[r]>> \in Seq(Int)
    BY <1>5 DEF IsLoop
  <1>9. (IF q = 0 THEN <<>> ELSE f[q]) \in Seq(Int)
    BY <1>6
  <1>10. f[i] \in Seq(Int)
    BY <1>7, <1>8, <1>9
  <1> QED
    BY <1>4, <1>10

\* A round of the loop writes one digit more than those of the quotient.
LEMMA RoundLength ==
    ASSUME NEW b \in Bases, NEW d, NEW f, IsLoop(f, b, d),
           NEW i \in int32
    PROVE  /\ f[i][1] = d[Remainder(i, b)]
           /\ Quotient(i, b) = 0 => Len(f[i]) = 1
           /\ Quotient(i, b) # 0 =>
                /\ Len(f[i]) = Len(f[Quotient(i, b)]) + 1
                /\ \A k \in 1..Len(f[Quotient(i, b)]) : f[i][k + 1] = f[Quotient(i, b)][k]
  <1> DEFINE q == Quotient(i, b)
             r == Remainder(i, b)
  <1>1. q \in int32 /\ r \in -(b - 1)..(b - 1)
    BY Shrinks
  <1>2. f[q] \in Seq(Int)
    BY <1>1, LoopIsSequence
  <1>3. f[i] = <<d[r]>> \o IF q = 0 THEN <<>> ELSE f[q]
    BY Zenon DEF IsLoop, Round
  <1> HIDE DEF q, r
  <1>4. d[r] \in Int
    BY <1>1 DEF IsLoop
  <1>5. CASE q = 0
    <2>1. f[i] = <<d[r]>> \o <<>>
      BY <1>3, <1>5
    <2>2. Len(f[i]) = 1 /\ f[i][1] = d[r]
      BY <1>4, <2>1
    <2> QED
      BY <1>5, <2>2 DEF q, r
  <1>6. CASE q # 0
    <2>1. f[i] = <<d[r]>> \o f[q]
      BY <1>3, <1>6
    <2>2. /\ Len(f[i]) = Len(f[q]) + 1
          /\ f[i][1] = d[r]
          /\ \A k \in 1..Len(f[q]) : f[i][k + 1] = f[q][k]
      BY <1>2, <1>4, <2>1
    <2> QED
      BY <1>6, <2>2 DEF q, r
  <1> QED
    BY <1>5, <1>6

\* k digits reach up to m.
Digits(f, m, k) == \A i \in int32 : -m <= i /\ i <= m => Len(f[i]) <= k

\* Below the base one digit is enough,
LEMMA OneDigit ==
    ASSUME NEW b \in Bases, NEW d, NEW f, IsLoop(f, b, d)
    PROVE  Digits(f, b - 1, 1)
  <1> SUFFICES ASSUME NEW i \in int32, -(b - 1) <= i, i <= b - 1 PROVE Len(f[i]) <= 1
    BY DEF Digits
  <1>1. i \in Int
    BY IntRange
  <1>2. Quotient(i, b) = 0
    <2>1. /\ Quotient(i, b) \in Int /\ Remainder(i, b) \in Int
          /\ i = b * Quotient(i, b) + Remainder(i, b)
          /\ i >= 0 => Quotient(i, b) >= 0 /\ Remainder(i, b) \in 0..(b - 1)
          /\ i <= 0 => Quotient(i, b) <= 0 /\ -Remainder(i, b) \in 0..(b - 1)
      BY <1>1, Divided
    <2> HIDE DEF Bases
    <2>2. b = 10 \/ b = 16
      BY DEF Bases
    <2> QED
      BY <1>1, <2>1, <2>2, SMT
  <1>3. Len(f[i]) = 1
    BY <1>2, RoundLength
  <1> QED
    BY <1>3

\* and one more reaches the base times as far.
LEMMA OneDigitMore ==
    ASSUME NEW b \in Bases, NEW d, NEW f, IsLoop(f, b, d),
           NEW m \in Nat, NEW k \in Nat \ {0}, Digits(f, m, k)
    PROVE  Digits(f, b * m + b - 1, k + 1)
  <1> SUFFICES ASSUME NEW i \in int32, -(b * m + b - 1) <= i, i <= b * m + b - 1
               PROVE  Len(f[i]) <= k + 1
    BY DEF Digits
  <1> DEFINE q == Quotient(i, b)
             r == Remainder(i, b)
  <1>1. i \in Int /\ q \in int32 /\ q \in Int
    BY Shrinks, IntRange
  <1>2. -m <= q /\ q <= m
    <2>1. /\ r \in Int /\ i = b * q + r
          /\ i >= 0 => q >= 0 /\ r \in 0..(b - 1)
          /\ i <= 0 => q <= 0 /\ -r \in 0..(b - 1)
      BY <1>1, Divided
    <2>2. b = 10 \/ b = 16
      BY DEF Bases
    <2> HIDE DEF q, r
    <2> QED
      BY <1>1, <2>1, <2>2, SMT
  <1>3. Len(f[q]) <= k /\ Len(f[q]) \in Nat
    BY <1>1, <1>2, LoopIsSequence DEF Digits
  <1>4. CASE q = 0
    <2>1. Len(f[i]) = 1
      BY <1>4, RoundLength
    <2> QED
      BY <2>1
  <1>5. CASE q # 0
    <2>1. Len(f[i]) = Len(f[q]) + 1
      BY <1>5, RoundLength
    <2> HIDE DEF q
    <2> QED
      BY <1>3, <2>1
  <1> QED
    BY <1>4, <1>5

\* An int has at most ten decimal and eight hexadecimal digits.
LEMMA DecimalDigits ==
    /\ Digits(decimal, 999, 3)
    /\ Digits(decimal, 9999, 4)
    /\ \A i \in int32 : Len(decimal[i]) <= 10 /\ decimal[i] \in Seq(Int)
  <1>1. \A m \in Nat, k \in Nat \ {0} :
          Digits(decimal, m, k) => Digits(decimal, 10 * m + 10 - 1, k + 1)
    BY Tables, DecimalLoop, OneDigitMore
  <1>2. Digits(decimal, 9, 1)
    <2>1. Digits(decimal, 10 - 1, 1)
      BY Tables, DecimalLoop, OneDigit
    <2> QED
      BY <2>1
  <1>3. Digits(decimal, 99, 2)
    <2>1. 9 \in Nat /\ 1 \in Nat \ {0} /\ 10 * 9 + 10 - 1 = 99 /\ 1 + 1 = 2
      BY SMT
    <2> QED
      BY <1>1, <1>2, <2>1, SMT
  <1>4. Digits(decimal, 999, 3)
    BY <1>1, <1>3, SMT
  <1>5. Digits(decimal, 9999, 4)
    BY <1>1, <1>4, SMT
  <1>6. Digits(decimal, 99999, 5)
    BY <1>1, <1>5, SMT
  <1>7. Digits(decimal, 999999, 6)
    BY <1>1, <1>6, SMT
  <1>8. Digits(decimal, 9999999, 7)
    BY <1>1, <1>7, SMT
  <1>9. Digits(decimal, 99999999, 8)
    BY <1>1, <1>8, SMT
  <1>10. Digits(decimal, 999999999, 9)
    BY <1>1, <1>9, SMT
  <1>11. Digits(decimal, 9999999999, 10)
    BY <1>1, <1>10, SMT
  <1>12. ASSUME NEW i \in int32 PROVE Len(decimal[i]) <= 10
    <2>1. i \in Int /\ -INT_MAX - 1 <= i /\ i <= INT_MAX
      BY IntMax, SMT DEF int32
    <2>2. -9999999999 <= i /\ i <= 9999999999
      BY <2>1, IntMax, SMT
    <2> QED
      BY <1>11, <2>2, SMT DEF Digits
  <1>13. ASSUME NEW i \in int32 PROVE decimal[i] \in Seq(Int)
    BY Tables, DecimalLoop, LoopIsSequence
  <1> QED
    BY <1>4, <1>5, <1>12, <1>13

\* See DecimalDigits.
LEMMA HexDigits ==
    \A i \in int32 : Len(hexadecimal[i]) <= 8 /\ hexadecimal[i] \in Seq(Int)
  <1>1. \A m \in Nat, k \in Nat \ {0} :
          Digits(hexadecimal, m, k) => Digits(hexadecimal, 16 * m + 16 - 1, k + 1)
    BY Tables, HexLoop, OneDigitMore
  <1>2. Digits(hexadecimal, 15, 1)
    <2>1. Digits(hexadecimal, 16 - 1, 1)
      BY Tables, HexLoop, OneDigit
    <2> QED
      BY <2>1
  <1>3. Digits(hexadecimal, 255, 2)
    BY <1>1, <1>2, SMT
  <1>4. Digits(hexadecimal, 4095, 3)
    BY <1>1, <1>3, SMT
  <1>5. Digits(hexadecimal, 65535, 4)
    BY <1>1, <1>4, SMT
  <1>6. Digits(hexadecimal, 1048575, 5)
    BY <1>1, <1>5, SMT
  <1>7. Digits(hexadecimal, 16777215, 6)
    BY <1>1, <1>6, SMT
  <1>8. Digits(hexadecimal, 268435455, 7)
    BY <1>1, <1>7, SMT
  <1>9. Digits(hexadecimal, 4294967295, 8)
    BY <1>1, <1>8, SMT
  <1>10. ASSUME NEW i \in int32 PROVE Len(hexadecimal[i]) <= 8
    <2>1. i \in Int /\ -INT_MAX - 1 <= i /\ i <= INT_MAX
      BY IntMax, SMT DEF int32
    <2>2. -4294967295 <= i /\ i <= 4294967295
      BY <2>1, IntMax, SMT
    <2> QED
      BY <1>9, <2>2, SMT DEF Digits
  <1>11. ASSUME NEW i \in int32 PROVE hexadecimal[i] \in Seq(Int)
    BY Tables, HexLoop, LoopIsSequence
  <1> QED
    BY <1>10, <1>11

\* v is what has been read after each of the digits.
Signed(x, neg) == IF neg THEN -x ELSE x

\* v is the number read after each of the digits.
Number(v, digits, neg, b) ==
    /\ v \in [0..Len(digits) -> Int]
    /\ v[0] = 0
    /\ \A k \in 1..Len(digits) : v[k] = b * v[k - 1] + Signed(digits[k], neg)

\* Reverse() of a sequence, element by element.
LEMMA ReverseIs ==
    ASSUME NEW s \in Seq(Int)
    PROVE  /\ Reverse(s) \in Seq(Int) /\ Len(Reverse(s)) = Len(s)
           /\ \A k \in 1..Len(s) : Reverse(s)[k] = s[Len(s) - k + 1]
  <1>1. Len(s) \in Nat /\ \A k \in 1..Len(s) : Len(s) - k + 1 \in 1..Len(s) /\ s[Len(s) - k + 1] \in Int
    BY LenProperties
  <1>2. Reverse(s) = [k \in 1..Len(s) |-> s[Len(s) - k + 1]]
    BY DEF Reverse
  <1>3. Reverse(s) \in [1..Len(s) -> Int]
    BY <1>1, <1>2
  <1>4. Reverse(s) \in Seq(Int)
    BY <1>1, <1>3, SeqDef
  <1>5. Len(Reverse(s)) = Len(s)
    BY <1>1, <1>3, <1>4, LenProperties
  <1> QED
    BY <1>2, <1>4, <1>5

\* The table has the digit of every remainder with that sign.
SignedTable(d, b, neg) ==
    \A r \in 0..(b - 1) : (neg => d[-r] = r) /\ (~neg => d[r] = r)

\* Whatever is read from the digits of i, most significant first, ends with i.
LEMMA LoopReads ==
    ASSUME NEW b \in Bases, NEW d, NEW f, IsLoop(f, b, d),
           NEW neg \in BOOLEAN, SignedTable(d, b, neg)
    PROVE  \A i \in int32 : \A v :
             /\ IF neg THEN i <= 0 ELSE i >= 0
             /\ Number(v, Reverse(f[i]), neg, b)
             => v[Len(f[i])] = i
  <1> DEFINE Bad(i, v) == /\ IF neg THEN i <= 0 ELSE i >= 0
                          /\ Number(v, Reverse(f[i]), neg, b)
                          /\ v[Len(f[i])] # i
             S == {n \in Nat : \E i \in int32 : Abs(i) = n /\ \E v : Bad(i, v)}
  <1> SUFFICES ASSUME NEW i0 \in int32, NEW v0, Bad(i0, v0) PROVE FALSE
    BY Zenon
  <1>1. Abs(i0) \in S
    BY Shrinks, Zenon
  <1>2. S \in SUBSET Nat /\ S # {}
    BY <1>1
  <1>3. PICK n \in S : \A k \in S : n <= k
    BY <1>2, LeastNat
  <1>3a. PICK i \in int32 : Abs(i) = n /\ \E v : Bad(i, v)
    OBVIOUS
  <1>4. PICK v : Abs(i) = n /\ Bad(i, v)
    BY <1>3a
  <1> DEFINE q == Quotient(i, b)
             r == Remainder(i, b)
             L == Len(f[i])
  <1> HIDE DEF S, Bad
  <1>5. /\ i \in Int /\ Abs(i) \in Nat /\ q \in int32 /\ q \in Int
        /\ (q # 0 => Abs(q) < Abs(i)) /\ Abs(q) \in Nat
        /\ r \in -(b - 1)..(b - 1) /\ b \in Nat
    <2>1. /\ i \in Int /\ Abs(i) \in Nat /\ q \in int32
          /\ (q # 0 => Abs(q) < Abs(i)) /\ r \in -(b - 1)..(b - 1)
      BY Shrinks
    <2>2. q \in Int /\ Abs(q) \in Nat
      BY <2>1, Shrinks
    <2>3. b \in Nat
      BY DEF Bases
    <2> QED
      BY <2>1, <2>2, <2>3
  <1>6. /\ r \in Int /\ i = b * q + r
        /\ i >= 0 => q >= 0 /\ r \in 0..(b - 1)
        /\ i <= 0 => q <= 0 /\ -r \in 0..(b - 1)
    BY <1>5, Divided
  <1>7. f[i] \in Seq(Int) /\ f[q] \in Seq(Int)
    BY <1>5, LoopIsSequence
  <1>8. Signed(d[r], neg) = r /\ (IF neg THEN q <= 0 ELSE q >= 0)
    <2>1. CASE neg
      <3>1. -r \in 0..(b - 1) /\ -(-r) = r /\ q <= 0
        BY <1>4, <1>5, <1>6, <2>1 DEF Bad
      <3>2. d[-(-r)] = -r
        BY <2>1, <3>1 DEF SignedTable
      <3> QED
        BY <1>5, <1>6, <2>1, <3>1, <3>2 DEF Signed
    <2>2. CASE ~neg
      <3>1. r \in 0..(b - 1) /\ q >= 0
        BY <1>4, <1>5, <1>6, <2>2 DEF Bad
      <3> QED
        BY <2>2, <3>1 DEF Signed, SignedTable
    <2> QED
      BY <2>1, <2>2
  <1>9. /\ L \in Nat /\ Len(Reverse(f[i])) = L
        /\ \A k \in 1..L : Reverse(f[i])[k] = f[i][L - k + 1]
    <2>1. L \in Nat
      BY <1>7, LenProperties
    <2> QED
      BY <1>7, <2>1, ReverseIs
  <1>10. /\ v \in [0..L -> Int] /\ v[0] = 0 /\ v[L] # i
         /\ \A k \in 1..L : v[k] = b * v[k - 1] + Signed(f[i][L - k + 1], neg)
    BY <1>4, <1>9 DEF Number, Bad
  <1>11. CASE q = 0
    <2>1. L = 1 /\ f[i][1] = d[r]
      <3>1. Len(f[i]) = 1
        BY <1>11, RoundLength
      <3>2. f[i][1] = d[Remainder(i, b)]
        BY RoundLength
      <3> QED
        BY <3>1, <3>2
    <2> HIDE DEF q, r, L
    <2>2. v[1] = b * v[1 - 1] + Signed(f[i][1 - 1 + 1], neg)
      BY <1>10, <2>1
    <2>3. v[1] = b * 0 + r
      BY <1>8, <1>10, <2>1, <2>2
    <2>4. i = r
      BY <1>5, <1>6, <1>11
    <2> QED
      BY <1>5, <1>6, <1>10, <2>1, <2>3, <2>4
  <1>12. CASE q # 0
    <2> DEFINE M == Len(f[q])
               w == [k \in 0..M |-> v[k]]
    <2>1. /\ L = M + 1 /\ f[i][1] = d[r]
          /\ \A k \in 1..M : f[i][k + 1] = f[q][k]
      <3>1. Len(f[i]) = Len(f[Quotient(i, b)]) + 1
        BY <1>12, RoundLength
      <3>2. f[i][1] = d[Remainder(i, b)]
        BY RoundLength
      <3>3. \A k \in 1..Len(f[Quotient(i, b)]) : f[i][k + 1] = f[Quotient(i, b)][k]
        BY <1>12, RoundLength
      <3> QED
        BY <3>1, <3>2, <3>3
    <2>2. /\ M \in Nat /\ Len(Reverse(f[q])) = M
          /\ \A k \in 1..M : Reverse(f[q])[k] = f[q][M - k + 1]
      <3>1. M \in Nat
        BY <1>7, LenProperties
      <3> QED
        BY <1>7, <3>1, ReverseIs
    <2> HIDE DEF q, r, L, M
    <2>3. \A k \in 1..M : f[i][L - k + 1] = Reverse(f[q])[k]
      <3> TAKE k \in 1..M
      <3>1. M - k + 1 \in 1..M /\ (M - k + 1) + 1 = L - k + 1
        BY <2>1, <2>2
      <3> QED
        BY <2>1, <2>2, <3>1
    <2>4. w \in [0..M -> Int] /\ w[0] = 0
      BY <1>10, <2>1, <2>2
    <2>5. \A k \in 1..M : w[k] = b * w[k - 1] + Signed(Reverse(f[q])[k], neg)
      <3> TAKE k \in 1..M
      <3>1. k \in 1..L /\ k \in 0..M /\ k - 1 \in 0..M
        BY <2>1, <2>2
      <3>2. v[k] = b * v[k - 1] + Signed(f[i][L - k + 1], neg)
        BY <1>10, <3>1
      <3>3. w[k] = v[k] /\ w[k - 1] = v[k - 1]
        BY <3>1
      <3> HIDE DEF w
      <3> QED
        BY <2>3, <3>2, <3>3
    <2>6. Number(w, Reverse(f[q]), neg, b)
      <3> HIDE DEF w
      <3> QED
        BY <2>2, <2>4, <2>5 DEF Number
    <2>7. w[M] = q
      <3> SUFFICES ASSUME w[M] # q PROVE FALSE
        OBVIOUS
      <3>1. Bad(q, w)
        BY <1>8, <2>6 DEF M, Bad
      <3>2. Abs(q) \in S
        BY <1>5, <3>1 DEF S
      <3>3. n <= Abs(q) /\ Abs(i) = n /\ Abs(q) < Abs(i)
        BY <1>3, <1>4, <1>5, <1>12, <3>2
      <3> QED
        BY <1>5, <3>3
    <2>8. v[M] = q
      BY <2>2, <2>7
    <2> HIDE DEF w
    <2>9. v[L] = b * v[L - 1] + Signed(f[i][L - L + 1], neg)
      BY <1>9, <1>10, <2>1, <2>2
    <2>10. L - 1 = M /\ L - L + 1 = 1
      BY <2>1, <2>2
    <2>11. v[L] = b * q + r
      BY <1>8, <2>1, <2>8, <2>9, <2>10
    <2> QED
      BY <1>6, <1>10, <2>11
  <1> QED
    BY <1>11, <1>12

\* The number read of m digits.
Reading(v, m, digits, neg, b) ==
    v = [k \in 0..m |-> IF k = 0 THEN 0
                        ELSE b * v[k - 1] + IF neg THEN -digits[k] ELSE digits[k]]

\* Every sequence of digits can be read.
LEMMA ReadingExists ==
    ASSUME NEW digits, NEW neg, NEW b, NEW m \in Nat
    PROVE  \E v : Reading(v, m, digits, neg, b)
  <1> DEFINE P(n) == \E v : Reading(v, n, digits, neg, b)
             S == {n \in Nat : ~P(n)}
             Next1(v, k) == b * v[k - 1] + IF neg THEN -digits[k] ELSE digits[k]
  <1> SUFFICES ASSUME S # {} PROVE FALSE
    BY Zenon
  <1>1. PICK n \in S : \A k \in S : n <= k
    BY LeastNat, Zenon
  <1>2. n \in Nat /\ ~P(n)
    OBVIOUS
  <1> HIDE DEF Next1
  <1>3. CASE n = 0
    <2> DEFINE v == [k \in 0..n |-> 0]
    <2>1. \A k \in 0..n : k = 0
      BY <1>3
    <2>2. v = [k \in 0..n |-> IF k = 0 THEN 0 ELSE Next1(v, k)]
      BY <2>1, Zenon
    <2>3. Reading(v, n, digits, neg, b)
      BY <2>2, Zenon DEF Reading, Next1
    <2> QED
      BY <1>2, <2>3
  <1>4. CASE n # 0
    <2> DEFINE m1 == n - 1
    <2>1. m1 \in Nat /\ m1 < n
      BY <1>2, <1>4
    <2>2. m1 \notin S
      BY <1>1, <1>2, <2>1
    <2>3. PICK u : Reading(u, m1, digits, neg, b)
      BY <2>1, <2>2
    <2>4. u = [k \in 0..m1 |-> IF k = 0 THEN 0 ELSE Next1(u, k)]
      BY <2>3, Zenon DEF Reading, Next1
    <2> DEFINE v == [k \in 0..n |-> IF k = 0 THEN 0 ELSE Next1(u, k)]
    <2>5. \A k \in 0..n : k # 0 => k - 1 \in 0..m1 /\ k - 1 \in 0..n
      BY <1>2
    <2>6. \A k \in 0..m1 : v[k] = u[k]
      <3>1. \A k \in 0..m1 : k \in 0..n
        BY <1>2
      <3> QED
        BY <2>4, <3>1, Zenon
    <2> HIDE DEF v, m1
    <2>7. \A k \in 0..n : k # 0 => Next1(u, k) = Next1(v, k)
      <3> TAKE k \in 0..n
      <3> SUFFICES ASSUME k # 0 PROVE Next1(u, k) = Next1(v, k)
        OBVIOUS
      <3>1. u[k - 1] = v[k - 1]
        BY <2>5, <2>6
      <3> QED
        BY <3>1, Zenon DEF Next1
    <2>8. v = [k \in 0..n |-> IF k = 0 THEN 0 ELSE Next1(v, k)]
      BY <2>7, Zenon DEF v
    <2>9. Reading(v, n, digits, neg, b)
      BY <2>8, Zenon DEF Reading, Next1
    <2> QED
      BY <1>2, <2>9
  <1> QED
    BY <1>3, <1>4

\* What is read is an integer after every digit.
LEMMA ReadingIsNumber ==
    ASSUME NEW digits \in Seq(Int), NEW neg \in BOOLEAN, NEW b \in Bases, NEW v,
           Reading(v, Len(digits), digits, neg, b)
    PROVE  Number(v, digits, neg, b)
  <1> DEFINE n == Len(digits)
  <1>1. n \in Nat /\ b \in Int /\ \A k \in 1..n : digits[k] \in Int
    BY LenProperties DEF Bases
  <1>2. /\ DOMAIN v = 0..n /\ v = [k \in 0..n |-> v[k]]
        /\ \A k \in 0..n : v[k] = IF k = 0 THEN 0
                                  ELSE b * v[k - 1] + IF neg THEN -digits[k] ELSE digits[k]
    BY DEF Reading
  <1> HIDE DEF n
  <1>3. v[0] = 0
    <2>1. 0 \in 0..n
      BY <1>1
    <2> QED
      BY <1>2, <2>1, Zenon
  <1>4. \A k \in 1..n : v[k] = b * v[k - 1] + Signed(digits[k], neg)
    <2> TAKE k \in 1..n
    <2>1. k \in 0..n /\ k # 0
      BY <1>1
    <2> QED
      BY <1>2, <2>1, Zenon DEF Signed
  <1>5. \A k \in 0..n : v[k] \in Int
    <2> DEFINE S == {k \in 0..n : v[k] \notin Int}
    <2> SUFFICES ASSUME S # {} PROVE FALSE
      BY Zenon
    <2>1. S \in SUBSET Nat
      BY <1>1
    <2>2. PICK k \in S : \A j \in S : k <= j
      BY <2>1, LeastNat
    <2>3. k \in 1..n /\ k - 1 \in 0..n /\ v[k] \notin Int
      BY <1>1, <1>3
    <2>4. k - 1 \notin S
      BY <1>1, <2>2, <2>3
    <2>5. v[k - 1] \in Int
      BY <2>3, <2>4
    <2>6. Signed(digits[k], neg) \in Int
      BY <1>1, <2>3 DEF Signed
    <2>7. v[k] = b * v[k - 1] + Signed(digits[k], neg)
      BY <1>4, <2>3
    <2> QED
      BY <1>1, <2>3, <2>5, <2>6, <2>7
  <1>6. v \in [0..n -> Int]
    BY <1>2, <1>5
  <1> QED
    BY <1>3, <1>4, <1>6 DEF Number, n

\* Denotes() is the last of the numbers read.
LEMMA Denoted ==
    ASSUME NEW text, text.digits \in Seq(Int), NEW neg \in BOOLEAN, text.negative = neg, NEW b \in Bases
    PROVE  \E v : Number(v, text.digits, neg, b) /\ Denotes(text, b) = v[Len(text.digits)]
  <1> DEFINE digits == text.digits
             n == Len(digits)
             F(v) == [k \in 0..n |-> IF k = 0 THEN 0
                                     ELSE b * v[k - 1] + IF text.negative THEN -digits[k] ELSE digits[k]]
             v == CHOOSE v : v = F(v)
  <1>1. n \in Nat
    BY LenProperties
  <1>2. \E u : u = F(u)
    <2>1. PICK u : Reading(u, n, digits, text.negative, b)
      BY <1>1, ReadingExists
    <2>2. u = F(u)
      BY <2>1, Zenon DEF Reading
    <2> QED
      BY <2>2
  <1>3. v = F(v)
    BY <1>2, Zenon
  <1>4. Reading(v, n, digits, neg, b)
    BY <1>3, Zenon DEF Reading
  <1>5. Denotes(text, b) = v[n]
    BY Zenon DEF Denotes
  <1> HIDE DEF v
  <1>6. Number(v, digits, neg, b)
    BY <1>4, ReadingIsNumber
  <1> QED
    BY <1>5, <1>6

\* What convert() writes reads as the int it was given, the smallest included.
LEMMA DecimalReads ==
    ASSUME NEW i \in int32
    PROVE  Denotes(convert(i), 10) = i
  <1> DEFINE text == convert(i)
  <1>1. text.digits = Reverse(decimal[i]) /\ text.negative = (i < 0)
    BY DEF convert
  <1>2. decimal[i] \in Seq(Int) /\ i \in Int
    BY DecimalDigits, IntRange
  <1>3. text.digits \in Seq(Int) /\ Len(text.digits) = Len(decimal[i])
    BY <1>1, <1>2, ReverseIs
  <1>4. SignedTable(Table10, 10, TRUE) /\ SignedTable(Table10, 10, FALSE)
    <2>1. \A r \in 0..(10 - 1) : /\ r \in -9..9 /\ -r \in -9..9
                                 /\ zero(r) = r /\ zero(-r) = r
      BY Table10Is
    <2> QED
      BY <2>1 DEF SignedTable, Table10
  <1> HIDE DEF text
  <1>5. CASE i < 0
    <2>1. text.negative = TRUE
      BY <1>1, <1>2, <1>5
    <2>2. PICK v : Number(v, text.digits, TRUE, 10) /\ Denotes(text, 10) = v[Len(text.digits)]
      BY <1>3, <2>1, Tables, Denoted
    <2>3. \A j \in int32 : \A u :
            /\ IF TRUE THEN j <= 0 ELSE j >= 0
            /\ Number(u, Reverse(decimal[j]), TRUE, 10)
            => u[Len(decimal[j])] = j
      BY <1>4, DecimalLoop, Tables, LoopReads
    <2>4. Number(v, Reverse(decimal[i]), TRUE, 10)
      BY <1>1, <2>2, Zenon
    <2>4a. i <= 0
      BY <1>2, <1>5
    <2>5. v[Len(decimal[i])] = i
      BY <2>3, <2>4, <2>4a, Zenon
    <2> QED
      BY <1>3, <2>2, <2>5 DEF text
  <1>6. CASE i >= 0
    <2>1. text.negative = FALSE
      <3>1. (i < 0) = FALSE
        BY <1>2, <1>6, SMT
      <3> QED
        BY <1>1, <3>1, Zenon
    <2>2. PICK v : Number(v, text.digits, FALSE, 10) /\ Denotes(text, 10) = v[Len(text.digits)]
      BY <1>3, <2>1, Tables, Denoted
    <2>3. \A j \in int32 : \A u :
            /\ IF FALSE THEN j <= 0 ELSE j >= 0
            /\ Number(u, Reverse(decimal[j]), FALSE, 10)
            => u[Len(decimal[j])] = j
      BY <1>4, DecimalLoop, Tables, LoopReads
    <2>4. Number(v, Reverse(decimal[i]), FALSE, 10)
      BY <1>1, <2>2, Zenon
    <2>4a. i >= 0
      BY <1>2, <1>6
    <2>5. v[Len(decimal[i])] = i
      BY <2>3, <2>4, <2>4a, Zenon
    <2> QED
      BY <1>3, <2>2, <2>5 DEF text
  <1> QED
    BY <1>2, <1>5, <1>6

\* What convertHex() writes reads as the address it was given.
LEMMA HexReads ==
    ASSUME NEW i \in int32, i >= 0
    PROVE  Denotes(convertHex(i), 16) = i
  <1> DEFINE text == convertHex(i)
  <1>1. text.digits = Reverse(hexadecimal[i]) /\ text.negative = FALSE
    BY DEF convertHex
  <1>2. hexadecimal[i] \in Seq(Int)
    BY HexDigits
  <1>3. text.digits \in Seq(Int) /\ Len(text.digits) = Len(hexadecimal[i])
    BY <1>1, <1>2, ReverseIs
  <1>4. SignedTable(Table16, 16, FALSE)
    <2>1. \A r \in 0..(16 - 1) : r \in -15..15
      OBVIOUS
    <2> QED
      BY <2>1 DEF SignedTable, Table16
  <1> HIDE DEF text
  <1>5. PICK v : Number(v, text.digits, FALSE, 16) /\ Denotes(text, 16) = v[Len(text.digits)]
    BY <1>1, <1>3, Tables, Denoted
  <1>6. v[Len(hexadecimal[i])] = i
    <2>1. \A j \in int32 : \A u :
            /\ IF FALSE THEN j <= 0 ELSE j >= 0
            /\ Number(u, Reverse(hexadecimal[j]), FALSE, 16)
            => u[Len(hexadecimal[j])] = j
      BY <1>4, HexLoop, Tables, LoopReads
    <2>2. Number(v, Reverse(hexadecimal[i]), FALSE, 16)
      BY <1>1, <1>5
    <2> QED
      BY <2>1, <2>2, Zenon
  <1> QED
    BY <1>3, <1>5, <1>6 DEF text

\* How many bytes a number takes.
LEMMA NumberLengths ==
    ASSUME NEW i \in int32
    PROVE  /\ Len(convert(i).digits) + (IF convert(i).negative THEN 1 ELSE 0) \in 0..11
           /\ Len(convertHex(i).digits) + 2 \in 0..10
  <1>1. decimal[i] \in Seq(Int) /\ Len(decimal[i]) <= 10
    BY DecimalDigits
  <1>2. hexadecimal[i] \in Seq(Int) /\ Len(hexadecimal[i]) <= 8
    BY HexDigits
  <1>3. PICK m : m = Len(decimal[i]) /\ m = Len(convert(i).digits)
    <2>1. Len(Reverse(decimal[i])) = Len(decimal[i])
      BY <1>1, ReverseIs
    <2> QED
      BY <2>1, Zenon DEF convert
  <1>4. PICK h : h = Len(hexadecimal[i]) /\ h = Len(convertHex(i).digits)
    <2>1. Len(Reverse(hexadecimal[i])) = Len(hexadecimal[i])
      BY <1>2, ReverseIs
    <2> QED
      BY <2>1, Zenon DEF convertHex
  <1>5. m \in Nat /\ m <= 10
    BY <1>1, <1>3, LenProperties, Zenon
  <1>6. h \in Nat /\ h <= 8
    BY <1>2, <1>4, LenProperties, Zenon
  <1>7. m + (IF convert(i).negative THEN 1 ELSE 0) \in 0..11 /\ h + 2 \in 0..10
    BY <1>5, <1>6, SMT
  <1> QED
    BY <1>3, <1>4, <1>7

\* The numbers printed of a decimal and of a binary unit have three and four
\* digits.
LEMMA AmountWidth ==
    ASSUME NEW n, UpTo1023(n)
    PROVE  /\ Len(decimal[n]) \in Nat /\ Len(decimal[n]) <= 4
           /\ ThreeDigits(n) => Len(decimal[n]) <= 3
  <1>1. n \in int32
    <2>1. INT_MAX \in Nat /\ INT_MAX >= 1023
      BY SMT DEF INT_MAX
    <2> QED
      BY <2>1, SMT DEF int32, UpTo1023
  <1>2. Len(decimal[n]) \in Nat
    BY <1>1, DecimalDigits, LenProperties
  <1>3. /\ Digits(decimal, 999, 3) => (ThreeDigits(n) => Len(decimal[n]) <= 3)
        /\ Digits(decimal, 9999, 4) => Len(decimal[n]) <= 4
    BY <1>1, SMT DEF Digits, UpTo1023, ThreeDigits
  <1>4. (ThreeDigits(n) => Len(decimal[n]) <= 3) /\ Len(decimal[n]) <= 4
    BY <1>3, DecimalDigits, SMT
  <1> QED
    BY <1>2, <1>4

\* And so have the counts printed as they are.
LEMMA PlainWidth ==
    ASSUME NEW n \in Nat, n < 1024
    PROVE  /\ Plain(n).number = n
           /\ Plain(n).width \in Nat /\ Plain(n).width <= 4
           /\ n < 1000 => Plain(n).width <= 3
  <1>1. n \in int32
    <2>1. INT_MAX \in Nat /\ INT_MAX >= 1023
      BY SMT DEF INT_MAX
    <2> QED
      BY <2>1, SMT DEF int32
  <1>2. Len(decimal[n]) \in Nat
    BY <1>1, DecimalDigits, LenProperties
  <1>3. /\ Digits(decimal, 999, 3) => (n < 1000 => Len(decimal[n]) <= 3)
        /\ Digits(decimal, 9999, 4) => Len(decimal[n]) <= 4
    BY <1>1, SMT DEF Digits
  <1>4. (n < 1000 => Len(decimal[n]) <= 3) /\ Len(decimal[n]) <= 4
    BY <1>3, DecimalDigits, SMT
  <1>5. Plain(n).number = n /\ Plain(n).width = Len(decimal[n])
    BY Zenon DEF Plain
  <1> QED
    BY <1>2, <1>4, <1>5

\* What NumbersRead and AmountsFit say of an amount.
SISound(amount, text) ==
    /\ IF amount.unit = "one" THEN text.number = amount.value ELSE ThreeDigits(text.number)
    /\ text.width \in Nat /\ text.width <= 5
IECSound(amount, text) ==
    /\ IF amount.unit = "one" THEN text.number = amount.value ELSE UpTo1023(text.number)
    /\ text.width \in Nat /\ text.width <= 6

\* An amount is printed rounded, in either direction on a tie.
LEMMA PrintedIs ==
    ASSUME NEW amount, NEW dec, NEW suffix, NEW text \in Printed(amount, dec, suffix)
    PROVE  /\ \/ text.number = (amount + ulp(dec) \div 2) \div ulp(dec)
              \/ text.number = (amount + ulp(dec) \div 2 - 1) \div ulp(dec)
           /\ text.width = Len(decimal[text.number]) + (IF dec > 0 THEN 1 ELSE 0) + suffix
  <1>1. PICK n \in {(amount + ulp(dec) \div 2) \div ulp(dec),
                    (amount + ulp(dec) \div 2 - 1) \div ulp(dec)} :
          text = [number |-> n, width |-> Len(decimal[n]) + (IF dec > 0 THEN 1 ELSE 0) + suffix]
    BY Zenon DEF Printed
  <1> QED
    BY <1>1, Zenon

\* The amounts that are printed with two, one and no decimals.
Printable(amount) ==
    amount.value \in Nat /\ (amount.unit # "one" => amount.value >= 9995)
Small(amount) == 9995 <= amount /\ amount < 99950
Medium(amount) == 99950 <= amount /\ amount <= 999499
Large(amount) == 999500 <= amount /\ amount <= 9994999
LargeIEC(amount) == 999500 <= amount /\ amount <= 10234999

\* Of an exact amount printf makes no fourth digit: with two decimals,
LEMMA TwoDecimals ==
    ASSUME NEW amount \in Nat, Small(amount), NEW suffix \in Nat,
           NEW text \in Printed(amount, 2, suffix)
    PROVE  ThreeDigits(text.number) /\ text.width \in Nat /\ text.width <= 4 + suffix
  <1>1. /\ \/ text.number = (amount + ulp(2) \div 2) \div ulp(2)
           \/ text.number = (amount + ulp(2) \div 2 - 1) \div ulp(2)
        /\ text.width = Len(decimal[text.number]) + (IF 2 > 0 THEN 1 ELSE 0) + suffix
    BY PrintedIs, ZenonT(40)
  <1>2. PICK n, len : n = text.number /\ len = Len(decimal[n])
    OBVIOUS
  <1>3. ulp(2) = 100 /\ ulp(2) \div 2 = 50
    BY SMT DEF ulp
  <1>4. n = (amount + 50) \div 100 \/ n = (amount + 50 - 1) \div 100
    BY <1>1, <1>2, <1>3, SMT
  <1>5. n \in 100..999
    BY <1>4, SMT DEF Small
  <1>6. UpTo1023(n) /\ ThreeDigits(n)
    BY <1>5, SMT DEF UpTo1023, ThreeDigits
  <1>7. len \in Nat /\ len <= 3
    <2>1. Len(decimal[n]) \in Nat /\ Len(decimal[n]) <= 3
      BY <1>6, AmountWidth, Zenon
    <2> QED
      BY <1>2, <2>1, Zenon
  <1>8. text.width = len + 1 + suffix
    BY <1>1, <1>2
  <1> QED
    BY <1>2, <1>6, <1>7, <1>8

\* with one,
LEMMA OneDecimal ==
    ASSUME NEW amount \in Nat, Medium(amount), NEW suffix \in Nat,
           NEW text \in Printed(amount, 1, suffix)
    PROVE  ThreeDigits(text.number) /\ text.width \in Nat /\ text.width <= 4 + suffix
  <1>1. /\ \/ text.number = (amount + ulp(1) \div 2) \div ulp(1)
           \/ text.number = (amount + ulp(1) \div 2 - 1) \div ulp(1)
        /\ text.width = Len(decimal[text.number]) + (IF 1 > 0 THEN 1 ELSE 0) + suffix
    BY PrintedIs, ZenonT(40)
  <1>2. PICK n, len : n = text.number /\ len = Len(decimal[n])
    OBVIOUS
  <1>3. ulp(1) = 1000 /\ ulp(1) \div 2 = 500
    BY SMT DEF ulp
  <1>4. n = (amount + 500) \div 1000 \/ n = (amount + 500 - 1) \div 1000
    BY <1>1, <1>2, <1>3, SMT
  <1>5. n \in 100..999
    BY <1>4, SMT DEF Medium
  <1>6. UpTo1023(n) /\ ThreeDigits(n)
    BY <1>5, SMT DEF UpTo1023, ThreeDigits
  <1>7. len \in Nat /\ len <= 3
    <2>1. Len(decimal[n]) \in Nat /\ Len(decimal[n]) <= 3
      BY <1>6, AmountWidth, Zenon
    <2> QED
      BY <1>2, <2>1, Zenon
  <1>8. text.width = len + 1 + suffix
    BY <1>1, <1>2
  <1> QED
    BY <1>2, <1>6, <1>7, <1>8

\* with none,
LEMMA NoDecimals ==
    ASSUME NEW amount \in Nat, Large(amount), NEW suffix \in Nat,
           NEW text \in Printed(amount, 0, suffix)
    PROVE  ThreeDigits(text.number) /\ text.width \in Nat /\ text.width <= 3 + suffix
  <1>1. /\ \/ text.number = (amount + ulp(0) \div 2) \div ulp(0)
           \/ text.number = (amount + ulp(0) \div 2 - 1) \div ulp(0)
        /\ text.width = Len(decimal[text.number]) + (IF 0 > 0 THEN 1 ELSE 0) + suffix
    BY PrintedIs, ZenonT(40)
  <1>2. PICK n, len : n = text.number /\ len = Len(decimal[n])
    OBVIOUS
  <1>3. ulp(0) = 10000 /\ ulp(0) \div 2 = 5000
    BY SMT DEF ulp
  <1>4. n = (amount + 5000) \div 10000 \/ n = (amount + 5000 - 1) \div 10000
    BY <1>1, <1>2, <1>3, SMT
  <1>5. n \in 100..999
    BY <1>4, SMT DEF Large
  <1>6. UpTo1023(n) /\ ThreeDigits(n)
    BY <1>5, SMT DEF UpTo1023, ThreeDigits
  <1>7. len \in Nat /\ len <= 3
    <2>1. Len(decimal[n]) \in Nat /\ Len(decimal[n]) <= 3
      BY <1>6, AmountWidth, Zenon
    <2> QED
      BY <1>2, <2>1, Zenon
  <1>8. text.width = len + 0 + suffix
    BY <1>1, <1>2
  <1> QED
    BY <1>2, <1>6, <1>7, <1>8

\* and with none up to 1023 of a binary unit.
LEMMA NoDecimalsIEC ==
    ASSUME NEW amount \in Nat, LargeIEC(amount), NEW suffix \in Nat,
           NEW text \in Printed(amount, 0, suffix)
    PROVE  UpTo1023(text.number) /\ text.width \in Nat /\ text.width <= 4 + suffix
  <1>1. /\ \/ text.number = (amount + ulp(0) \div 2) \div ulp(0)
           \/ text.number = (amount + ulp(0) \div 2 - 1) \div ulp(0)
        /\ text.width = Len(decimal[text.number]) + (IF 0 > 0 THEN 1 ELSE 0) + suffix
    BY PrintedIs, ZenonT(40)
  <1>2. PICK n, len : n = text.number /\ len = Len(decimal[n])
    OBVIOUS
  <1>3. ulp(0) = 10000 /\ ulp(0) \div 2 = 5000
    BY SMT DEF ulp
  <1>4. n = (amount + 5000) \div 10000 \/ n = (amount + 5000 - 1) \div 10000
    BY <1>1, <1>2, <1>3, SMT
  <1>5. n \in 100..1023
    BY <1>4, SMT DEF LargeIEC
  <1>6. UpTo1023(n)
    BY <1>5, SMT DEF UpTo1023
  <1>7. len \in Nat /\ len <= 4
    <2>1. Len(decimal[n]) \in Nat /\ Len(decimal[n]) <= 4
      BY <1>6, AmountWidth, Zenon
    <2> QED
      BY <1>2, <2>1, Zenon
  <1>8. text.width = len + 0 + suffix
    BY <1>1, <1>2
  <1> QED
    BY <1>2, <1>6, <1>7, <1>8

\* So formatSI() needs five characters at most where the double is exact,
LEMMA SIAmounts ==
    ASSUME NEW amount, Printable(amount), amount.unit # "wide",
           NEW text \in formatSI(amount)
    PROVE  SISound(amount, text)
  <1>0. PICK s \in Nat : s = amount.value
    BY DEF Printable
  <1>1. CASE amount.unit = "one"
    <2>1. text \in IF s < 1000 THEN {Plain(s)} ELSE {}
      BY <1>0, <1>1, SMT DEF formatSI
    <2>2. s < 1000 /\ text = Plain(s)
      BY <2>1
    <2>3. s < 1024
      BY <2>2, SMT
    <2> QED
      BY <1>0, <1>1, <2>2, <2>3, PlainWidth DEF SISound
  <1>2. CASE amount.unit # "one"
    <2>0. s >= 9995
      BY <1>0, <1>2 DEF Printable
    <2> DEFINE print(dec) == UNION {Printed(n, dec, 1) : n \in double(amount)}
    <2>a. print(2) = Printed(s, 2, 1) /\ print(1) = Printed(s, 1, 1) /\ print(0) = Printed(s, 0, 1)
      <3>1. double(amount) = {s}
        BY <1>0 DEF double
      <3> QED
        BY <3>1, Zenon
    <2>1. \/ Small(s) /\ formatSI(amount) = Printed(s, 2, 1)
          \/ Medium(s) /\ formatSI(amount) = Printed(s, 1, 1)
          \/ Large(s) /\ formatSI(amount) = Printed(s, 0, 1)
          \/ formatSI(amount) = {}
      <3>1. CASE s < 99950
        <4>1. formatSI(amount) = print(2)
          BY <1>0, <1>2, <3>1, SMT DEF formatSI
        <4>2. Small(s)
          BY <3>1, <2>0, SMT DEF Small
        <4> QED
          BY <2>a, <4>1, <4>2
      <3>2. CASE 99950 <= s /\ s < 999500
        <4>1. formatSI(amount) = print(1)
          BY <1>0, <1>2, <3>2, SMT DEF formatSI
        <4>2. Medium(s)
          BY <3>2, SMT DEF Medium
        <4> QED
          BY <2>a, <4>1, <4>2
      <3>3. CASE 999500 <= s /\ s < 9995000
        <4>1. formatSI(amount) = print(0)
          BY <1>0, <1>2, <3>3, SMT DEF formatSI
        <4>2. Large(s)
          BY <3>3, SMT DEF Large
        <4> QED
          BY <2>a, <4>1, <4>2
      <3>4. CASE 9995000 <= s
        <4>1. formatSI(amount) = {}
          BY <1>0, <1>2, <3>4, SMT DEF formatSI
        <4> QED
          BY <4>1
      <3> QED
        BY <3>1, <3>2, <3>3, <3>4, SMT
    <2>2. \/ /\ ThreeDigits(text.number) /\ text.width \in Nat /\ text.width <= 4 + 1
          \/ /\ ThreeDigits(text.number) /\ text.width \in Nat /\ text.width <= 3 + 1
      BY <2>1, TwoDecimals, OneDecimal, NoDecimals
    <2> QED
      BY <1>2, <2>2 DEF SISound
  <1> QED
    BY <1>1, <1>2

\* Three digits are fewer than 1023 needs.
LEMMA DecimalFitsBinary == ASSUME NEW n, ThreeDigits(n) PROVE UpTo1023(n)
  BY SMT DEF ThreeDigits, UpTo1023

\* and formatIEC() six.
LEMMA IECAmounts ==
    ASSUME NEW amount, Printable(amount),
           NEW text \in formatIEC(amount)
    PROVE  IECSound(amount, text)
  <1>0. PICK s \in Nat : s = amount.value
    BY DEF Printable
  <1>1. CASE amount.unit = "one"
    <2>1. text \in IF s < 1024 THEN {Plain(s)} ELSE {}
      BY <1>0, <1>1, SMT DEF formatIEC
    <2>2. s < 1024 /\ text = Plain(s)
      BY <2>1
    <2>3. s < 1024
      BY <2>2, SMT
    <2> QED
      BY <1>0, <1>1, <2>2, <2>3, PlainWidth DEF IECSound
  <1>2. CASE amount.unit # "one"
    <2>0. s >= 9995
      BY <1>0, <1>2 DEF Printable
    <2>1. \/ Small(s) /\ formatIEC(amount) = Printed(s, 2, 2)
          \/ Medium(s) /\ formatIEC(amount) = Printed(s, 1, 2)
          \/ LargeIEC(s) /\ formatIEC(amount) = Printed(s, 0, 2)
          \/ formatIEC(amount) = {}
      <3>1. CASE s < 99950
        <4>1. formatIEC(amount) = Printed(s, 2, 2)
          BY <1>0, <1>2, <3>1, SMT DEF formatIEC
        <4>2. Small(s)
          BY <3>1, <2>0, SMT DEF Small
        <4> QED
          BY <4>1, <4>2
      <3>2. CASE 99950 <= s /\ s < 999500
        <4>1. formatIEC(amount) = Printed(s, 1, 2)
          BY <1>0, <1>2, <3>2, SMT DEF formatIEC
        <4>2. Medium(s)
          BY <3>2, SMT DEF Medium
        <4> QED
          BY <4>1, <4>2
      <3>3. CASE 999500 <= s /\ s < 10235000
        <4>1. formatIEC(amount) = Printed(s, 0, 2)
          BY <1>0, <1>2, <3>3, SMT DEF formatIEC
        <4>2. LargeIEC(s)
          BY <3>3, SMT DEF LargeIEC
        <4> QED
          BY <4>1, <4>2
      <3>4. CASE 10235000 <= s
        <4>1. formatIEC(amount) = {}
          BY <1>0, <1>2, <3>4, SMT DEF formatIEC
        <4> QED
          BY <4>1
      <3> QED
        BY <3>1, <3>2, <3>3, <3>4, SMT
    <2>2. \/ /\ ThreeDigits(text.number) /\ text.width \in Nat /\ text.width <= 4 + 2
          \/ /\ UpTo1023(text.number) /\ text.width \in Nat /\ text.width <= 4 + 2
      BY <2>1, TwoDecimals, OneDecimal, NoDecimalsIEC
    <2> QED
      BY <1>2, <2>2, DecimalFitsBinary DEF IECSound
  <1> QED
    BY <1>1, <1>2

-----------------------------------------------------------------------------
\* A stream that has written no byte past its buffer and has one left.
Inside(s) ==
    /\ s \in [cur_ : Nat, end : Nat, open : BOOLEAN]
    /\ s.end <= BufferSize /\ s.cur_ < BufferSize

\* A buffer has a size, and a number must leave more than it can take.
LEMMA BufferSizes ==
    BufferSize \in Nat /\ kMaxNumericSize \in Nat /\ kMaxNumericSize > 28
  BY LogStreamAssumption, SMT

\* Text is put into the buffer only where it leaves a byte.
LEMMA PutInside ==
    ASSUME NEW s, Inside(s), NEW len \in Nat
    PROVE  Inside(put(s, len))
  <1>1. CASE avail(s) > len
    <2>1. put(s, len) = [s EXCEPT !.cur_ = @ + len, !.end = s.cur_ + len]
      BY <1>1 DEF put
    <2>2. s.cur_ + len < BufferSize
      BY <1>1, BufferSizes DEF avail, Inside
    <2>3. s \in [cur_ : Nat, end : Nat, open : BOOLEAN]
      BY DEF Inside
    <2>4. s.cur_ + len \in Nat /\ s.cur_ + len \in Nat
      BY <2>3
    <2>5. /\ put(s, len) \in [cur_ : Nat, end : Nat, open : BOOLEAN]
          /\ put(s, len).cur_ = s.cur_ + len /\ put(s, len).end = s.cur_ + len
      BY <2>1, <2>3, <2>4
    <2>6. s.cur_ + len <= BufferSize /\ s.cur_ + len < BufferSize
      BY <2>2, <2>4, BufferSizes
    <2> QED
      BY <2>5, <2>6 DEF Inside
  <1>2. CASE ~(avail(s) > len)
    BY <1>2 DEF put
  <1> QED
    BY <1>1, <1>2

\* A number and its zero take less than what must be left.
LEMMA NumberInside ==
    ASSUME NEW s, Inside(s), NEW len \in 0..20
    PROVE  Inside(formatNumber(s, len))
  <1>1. CASE avail(s) >= kMaxNumericSize
    <2>1. formatNumber(s, len) = [s EXCEPT !.cur_ = @ + len, !.end = s.cur_ + len + 1]
      BY <1>1 DEF formatNumber
    <2>2. s.cur_ + len + 1 < BufferSize
      BY <1>1, BufferSizes DEF avail, Inside
    <2>3. s \in [cur_ : Nat, end : Nat, open : BOOLEAN]
      BY DEF Inside
    <2>4. s.cur_ + len \in Nat /\ s.cur_ + len + 1 \in Nat
      BY <2>3
    <2>5. /\ formatNumber(s, len) \in [cur_ : Nat, end : Nat, open : BOOLEAN]
          /\ formatNumber(s, len).cur_ = s.cur_ + len /\ formatNumber(s, len).end = s.cur_ + len + 1
      BY <2>1, <2>3, <2>4
    <2>6. s.cur_ + len + 1 <= BufferSize /\ s.cur_ + len < BufferSize
      BY <2>2, <2>4, BufferSizes
    <2> QED
      BY <2>5, <2>6 DEF Inside
  <1>2. CASE ~(avail(s) >= kMaxNumericSize)
    BY <1>2 DEF formatNumber
  <1> QED
    BY <1>1, <1>2

\* The fields before the message stay inside the buffer,
LEMMA HeaderInside ==
    ASSUME NEW local \in BOOLEAN, NEW error \in BOOLEAN
    PROVE  Inside(header(local, error))
  <1> DEFINE s0 == [cur_ |-> 0, end |-> 0, open |-> TRUE]
             s1 == put(s0, 17)
             s2 == put(s1, IF local THEN 8 ELSE 9)
             s3 == put(s2, TidLength)
             s4 == put(s3, 6)
             e1 == put(s4, ErrnoLength)
             e2 == put(e1, 8)
             e3 == formatNumber(e2, 2)
             e4 == put(e3, 2)
  <1>1. Inside(s0)
    BY LogStreamAssumption DEF Inside
  <1>2. header(local, error) = IF error THEN e4 ELSE s4
    BY Zenon DEF header
  <1>3. TidLength \in Nat /\ ErrnoLength \in Nat
    BY LogStreamAssumption
  <1>4. Inside(s4)
    <2>1. Inside(s1)
      BY <1>1, PutInside
    <2>2. (IF local THEN 8 ELSE 9) \in Nat
      OBVIOUS
    <2> HIDE DEF s1
    <2>3. Inside(s2)
      BY <2>1, <2>2, PutInside
    <2> HIDE DEF s2
    <2>4. Inside(s3)
      BY <2>3, <1>3, PutInside
    <2> HIDE DEF s3
    <2> QED
      BY <2>4, PutInside
  <1> HIDE DEF s4
  <1>5. Inside(e4)
    <2>1. Inside(e1)
      BY <1>3, <1>4, PutInside
    <2> HIDE DEF e1
    <2>2. Inside(e2)
      BY <2>1, PutInside
    <2> HIDE DEF e2
    <2>3. Inside(e3)
      BY <2>2, NumberInside
    <2> HIDE DEF e3
    <2> QED
      BY <2>3, PutInside
  <1> HIDE DEF e4
  <1> QED
    BY <1>2, <1>4, <1>5

\* and those after it.
LEMMA FinishInside ==
    ASSUME NEW s, Inside(s)
    PROVE  Inside([finish(s) EXCEPT !.open = FALSE])
  <1> DEFINE f1 == put(s, 3)
             f2 == put(f1, NameLength)
             f3 == put(f2, 1)
             f4 == formatNumber(f3, LineNumberLength)
             f5 == put(f4, 1)
  <1>1. finish(s) = f5
    BY Zenon DEF finish
  <1>2. NameLength \in Nat /\ LineNumberLength \in 0..20
    BY LogStreamAssumption
  <1>3. Inside(f1)
    BY PutInside
  <1> HIDE DEF f1
  <1>4. Inside(f2)
    BY <1>2, <1>3, PutInside
  <1> HIDE DEF f2
  <1>5. Inside(f3)
    BY <1>4, PutInside
  <1> HIDE DEF f3
  <1>6. Inside(f4)
    BY <1>2, <1>5, NumberInside
  <1> HIDE DEF f4
  <1>7. Inside(f5)
    BY <1>6, PutInside
  <1> HIDE DEF f5
  <1> QED
    BY <1>1, <1>7 DEF Inside

\* The time stamp kept by formatTime() is that of the second it was made in and
\* of the zone, as long as the zone is set before the first record.
StampKept ==
    /\ second \in Nat /\ second >= 1 /\ logZone \in BOOLEAN
    /\ stamp.t_time.second = stamp.t_lastSecond
    /\ stamp.t_lastSecond # 0 => stamp.t_time.local = logZone

\* The number streamed last is printed as it should be.
NumbersSound == NumbersRead /\ AmountsFit

\* The inductive invariant of a log stream.
RecordsInv == Inside(out) /\ NumbersSound /\ StampCurrent /\ StampKept

\* For every buffer size and whatever is streamed a record stays inside its
\* buffer, every int and amount reads as the value streamed in the width promised,
\* and the record carries the time of its own second and zone, if setTimeZone() is
\* called before the first record and formatSI() gets no amount that a double
\* rounds.
THEOREM RecordsStaySound ==
    ASSUME LateZone = FALSE, \A amount \in Amounts : amount.unit # "wide"
    PROVE  LogStreamSpec => []RecordsSound
  <1>1. LogStreamInit => RecordsInv
    <2> SUFFICES ASSUME LogStreamInit PROVE RecordsInv
      OBVIOUS
    <2>1. Inside(out)
      BY LogStreamAssumption DEF LogStreamInit, Inside
    <2>2. NumbersSound
      BY DEF LogStreamInit, NumbersSound, NumbersRead, AmountsFit, NoField
    <2>3. StampCurrent
      BY DEF LogStreamInit, StampCurrent
    <2>4. StampKept
      <3>1. stamp.t_time.second = stamp.t_lastSecond /\ stamp.t_lastSecond = 0
        BY DEF LogStreamInit
      <3>2. second = 1 /\ logZone \in BOOLEAN
        BY DEF LogStreamInit
      <3>3. second \in Nat /\ second >= 1
        BY <3>2
      <3> QED
        BY <3>1, <3>2, <3>3 DEF StampKept
    <2> QED
      BY <2>1, <2>2, <2>3, <2>4 DEF RecordsInv
  <1>2. RecordsInv /\ [LogStreamNext]_logStreamVars => RecordsInv'
    <2> SUFFICES ASSUME RecordsInv, [LogStreamNext]_logStreamVars PROVE RecordsInv'
      OBVIOUS
    <2> USE DEF RecordsInv
    <2>0. field' = field => NumbersSound'
      BY DEF NumbersSound, NumbersRead, AmountsFit
    <2>1. CASE setTimeZone
      <3>1. Inside(out)'
        BY <2>1 DEF setTimeZone, Inside
      <3>2. NumbersSound'
        BY <2>0, <2>1, Zenon DEF setTimeZone
      <3>3. StampCurrent'
        BY <2>1 DEF setTimeZone, StampCurrent
      <3>4. StampKept'
        BY <2>1 DEF setTimeZone, StampKept
      <3> QED
        BY <3>1, <3>2, <3>3, <3>4
    <2>2. CASE NextSecond
      <3>1. Inside(out)'
        BY <2>2 DEF NextSecond, Inside
      <3>2. NumbersSound'
        BY <2>0, <2>2, Zenon DEF NextSecond
      <3>3. StampCurrent'
        BY <2>2 DEF NextSecond, StampCurrent
      <3>4. StampKept'
        BY <2>2 DEF NextSecond, StampKept
      <3> QED
        BY <3>1, <3>2, <3>3, <3>4
    <2>3. CASE BeginRecord
      <3>1. Inside(out)'
        <4>1. PICK error \in BOOLEAN : out' = header(logZone, error)
          BY <2>3 DEF BeginRecord
        <4>2. Inside(header(logZone, error))
          BY HeaderInside DEF StampKept
        <4> QED
          BY <4>1, <4>2 DEF Inside
      <3>2. NumbersSound'
        BY <2>3 DEF BeginRecord, NumbersSound, NumbersRead, AmountsFit, NoField
      <3>3. /\ stamp'.t_time.second = second /\ stamp'.t_lastSecond = second
            /\ stamp'.t_time.local = logZone
        <4>1. CASE second # stamp.t_lastSecond
          BY <2>3, <4>1 DEF BeginRecord, formatTime
        <4>2. CASE second = stamp.t_lastSecond
          <5>1. stamp' = stamp
            BY <2>3, <4>2 DEF BeginRecord, formatTime
          <5>2. stamp.t_lastSecond # 0
            BY <4>2 DEF StampKept
          <5> QED
            BY <4>2, <5>1, <5>2 DEF StampKept
        <4> QED
          BY <4>1, <4>2
      <3>4. StampCurrent'
        BY <2>3, <3>3 DEF BeginRecord, StampCurrent
      <3>5. StampKept'
        BY <2>3, <3>3 DEF BeginRecord, StampKept
      <3> QED
        BY <3>1, <3>2, <3>4, <3>5
    <2>4. CASE EndRecord
      <3>1. Inside(out)'
        <4>1. Inside([finish(out) EXCEPT !.open = FALSE])
          BY FinishInside
        <4> QED
          BY <2>4, <4>1 DEF EndRecord, Inside
      <3>2. NumbersSound'
        BY <2>0, <2>4, Zenon DEF EndRecord
      <3>3. StampCurrent'
        BY <2>4 DEF EndRecord, StampCurrent
      <3>4. StampKept'
        BY <2>4 DEF EndRecord, StampKept
      <3> QED
        BY <3>1, <3>2, <3>3, <3>4
    <2>5. CASE StreamText
      <3>1. Inside(out)'
        <4>1. PICK len \in TextLengths : out' = put(out, len)
          BY <2>5 DEF StreamText
        <4>2. len \in Nat
          BY LogStreamAssumption
        <4> QED
          BY <4>1, <4>2, PutInside
      <3>2. NumbersSound'
        BY <2>0, <2>5, Zenon DEF StreamText
      <3>3. StampCurrent'
        BY <2>5 DEF StreamText, StampCurrent
      <3>4. StampKept'
        BY <2>5 DEF StreamText, StampKept
      <3> QED
        BY <3>1, <3>2, <3>3, <3>4
    <2>6. CASE StreamInteger
      <3>1. PICK v \in Integers32 :
              /\ out' = formatNumber(out, Len(convert(v).digits)
                                          + IF convert(v).negative THEN 1 ELSE 0)
              /\ field' = [kind |-> "int", value |-> v, text |-> convert(v)]
        BY <2>6, Zenon DEF StreamInteger
      <3>2. v \in int32
        BY IntegersAssumption
      <3>3. Inside(out)'
        <4>1. Len(convert(v).digits) + (IF convert(v).negative THEN 1 ELSE 0) \in 0..11
          BY <3>2, NumberLengths, Zenon
        <4>2. 0..11 \subseteq 0..20
          OBVIOUS
        <4>3. Len(convert(v).digits) + (IF convert(v).negative THEN 1 ELSE 0) \in 0..20
          BY <4>1, <4>2, Zenon
        <4> QED
          BY <3>1, <4>3, NumberInside
      <3>4. NumbersSound'
        <4>1. Denotes(convert(v), 10) = v
          BY <3>2, DecimalReads
        <4>2. field'.kind = "int" /\ field'.text = convert(v) /\ field'.value = v
          BY <3>1
        <4>3. Denotes(field'.text, 10) = field'.value
          BY <4>1, <4>2
        <4> QED
          BY <4>2, <4>3 DEF NumbersSound, NumbersRead, AmountsFit
      <3>5. StampCurrent'
        BY <2>6 DEF StreamInteger, StampCurrent
      <3>6. StampKept'
        BY <2>6 DEF StreamInteger, StampKept
      <3> QED
        BY <3>3, <3>4, <3>5, <3>6
    <2>7. CASE StreamPointer
      <3>1. PICK v \in Integers32 :
              /\ v >= 0
              /\ out' = formatNumber(out, Len(convertHex(v).digits) + 2)
              /\ field' = [kind |-> "hex", value |-> v, text |-> convertHex(v)]
        BY <2>7, Zenon DEF StreamPointer
      <3>2. v \in int32
        BY IntegersAssumption
      <3>3. Inside(out)'
        <4>1. Len(convertHex(v).digits) + 2 \in 0..10
          BY <3>2, NumberLengths, Zenon
        <4>2. 0..10 \subseteq 0..20
          OBVIOUS
        <4>3. Len(convertHex(v).digits) + 2 \in 0..20
          BY <4>1, <4>2, Zenon
        <4> QED
          BY <3>1, <4>3, NumberInside
      <3>4. NumbersSound'
        <4>1. Denotes(convertHex(v), 16) = v
          BY <3>1, <3>2, HexReads
        <4>2. field'.kind = "hex" /\ field'.text = convertHex(v) /\ field'.value = v
          BY <3>1
        <4>3. Denotes(field'.text, 16) = field'.value
          BY <4>1, <4>2
        <4> QED
          BY <4>2, <4>3 DEF NumbersSound, NumbersRead, AmountsFit
      <3>5. StampCurrent'
        BY <2>7 DEF StreamPointer, StampCurrent
      <3>6. StampKept'
        BY <2>7 DEF StreamPointer, StampKept
      <3> QED
        BY <3>3, <3>4, <3>5, <3>6
    <2>8. CASE StreamWide
      <3>1. Inside(out)'
        <4>1. PICK len \in WideLengths : out' = formatNumber(out, len)
          BY <2>8 DEF StreamWide
        <4>2. len \in 0..20
          BY LogStreamAssumption
        <4> QED
          BY <4>1, <4>2, NumberInside
      <3>2. NumbersSound'
        BY <2>0, <2>8, Zenon DEF StreamWide
      <3>3. StampCurrent'
        BY <2>8 DEF StreamWide, StampCurrent
      <3>4. StampKept'
        BY <2>8 DEF StreamWide, StampKept
      <3> QED
        BY <3>1, <3>2, <3>3, <3>4
    <2>9. CASE StreamAmount
      <3>1. PICK amount \in Amounts :
              \/ \E text \in formatSI(amount) :
                  /\ field' = [kind |-> "SI", value |-> amount, text |-> text]
                  /\ out' = put(out, text.width)
              \/ \E text \in formatIEC(amount) :
                  /\ field' = [kind |-> "IEC", value |-> amount, text |-> text]
                  /\ out' = put(out, text.width)
        BY <2>9, Zenon DEF StreamAmount
      <3>2. Printable(amount) /\ amount.unit # "wide"
        BY LogStreamAssumption DEF Printable
      <3>3. StampCurrent'
        BY <2>9 DEF StreamAmount, StampCurrent
      <3>4. StampKept'
        BY <2>9 DEF StreamAmount, StampKept
      <3>5. CASE \E text \in formatSI(amount) :
                  /\ field' = [kind |-> "SI", value |-> amount, text |-> text]
                  /\ out' = put(out, text.width)
        <4>1. PICK text \in formatSI(amount) :
                  /\ field' = [kind |-> "SI", value |-> amount, text |-> text]
                  /\ out' = put(out, text.width)
          BY <3>5
        <4>2. SISound(amount, text)
          BY <3>2, SIAmounts, Zenon
        <4>3. Inside(out)'
          BY <4>1, <4>2, PutInside DEF SISound
        <4>4. NumbersSound'
          BY <4>1, <4>2 DEF NumbersSound, NumbersRead, AmountsFit, SISound
        <4> QED
          BY <3>3, <3>4, <4>3, <4>4
      <3>6. CASE \E text \in formatIEC(amount) :
                  /\ field' = [kind |-> "IEC", value |-> amount, text |-> text]
                  /\ out' = put(out, text.width)
        <4>1. PICK text \in formatIEC(amount) :
                  /\ field' = [kind |-> "IEC", value |-> amount, text |-> text]
                  /\ out' = put(out, text.width)
          BY <3>6
        <4>2. IECSound(amount, text)
          BY <3>2, IECAmounts, Zenon
        <4>3. Inside(out)'
          BY <4>1, <4>2, PutInside DEF IECSound
        <4>4. NumbersSound'
          BY <4>1, <4>2 DEF NumbersSound, NumbersRead, AmountsFit, IECSound
        <4> QED
          BY <3>3, <3>4, <4>3, <4>4
      <3> QED
        BY <3>1, <3>5, <3>6
    <2>10. CASE UNCHANGED logStreamVars
      <3>1. Inside(out)'
        BY <2>10 DEF logStreamVars, Inside
      <3>2. NumbersSound'
        BY <2>0, <2>10, Zenon DEF logStreamVars
      <3>3. StampCurrent'
        BY <2>10 DEF logStreamVars, StampCurrent
      <3>4. StampKept'
        BY <2>10 DEF logStreamVars, StampKept
      <3> QED
        BY <3>1, <3>2, <3>3, <3>4
    <2> QED
      BY <2>1, <2>2, <2>3, <2>4, <2>5, <2>6, <2>7, <2>8, <2>9, <2>10 DEF LogStreamNext
  <1>3. RecordsInv => RecordsSound
    BY DEF RecordsInv, RecordsSound, NumbersSound, InsideBuffer, Inside
  <1> QED
    BY <1>1, <1>2, <1>3, PTL DEF LogStreamSpec
=============================================================================
