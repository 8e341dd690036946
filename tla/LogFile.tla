------------------------------ MODULE LogFile -------------------------------
(***************************************************************************)
(* base/LogFile on FileUtil::AppendFile: a log that starts a new file when *)
(* the current one is longer than rollSize_ or when a new day is noticed,  *)
(* which is looked for once in checkEveryN_ calls.  A file is named after  *)
(* the second it was opened in.  time() is the wall clock and may be put   *)
(* back.                                                                   *)
(*                                                                         *)
(* append() and flush() are whole under mutex_; a file is its name and the *)
(* bytes written to it.                                                    *)
(***************************************************************************)
EXTENDS Integers

CONSTANTS
    kRollPerSeconds_,  \* a day
    rollSize_, flushInterval_, checkEveryN_,
    LineLengths,       \* lengths of the lines logged
    MaxClock,          \* the clock runs from 1 to here
    MaxWritten         \* bound on the length of a file

ASSUME LogFileAssumption ==
    /\ {kRollPerSeconds_, checkEveryN_} \subseteq Nat \ {0}
    /\ {rollSize_, MaxClock} \cup LineLengths \subseteq Nat

VARIABLES
    log,         \* the members of LogFile and of its AppendFile
    wall,        \* time(NULL)
    lastAppend,  \* the clock when append() last returned
    late         \* lines at the end of the file, logged on a later day than its

logVars == <<log, wall, lastAppend, late>>

startOfPeriod(now) == (now \div kRollPerSeconds_) * kRollPerSeconds_

\* AppendFile counts the line as written whatever fwrite_unlocked() took.
fileAppend(l, len) == [l EXCEPT !.writtenBytes_ = @ + len, !.buffered = TRUE]

fileFlush(l) == [l EXCEPT !.buffered = FALSE]

\* A file named after the second is opened, the old one is closed and so
\* flushed; inOrder records whether its name is newer than all before.
AppendFile(l, now) ==
    [l EXCEPT !.name = now, !.inOrder = @ /\ now > l.name,
              !.writtenBytes_ = 0, !.buffered = FALSE]

\* Mutant: a new file however soon after the last one.
rollFileAlways(l, now) ==
    AppendFile([l EXCEPT !.lastRoll_ = now, !.lastFlush_ = now,
                         !.startOfPeriod_ = startOfPeriod(now)], now)

\* In the second of the last roll, or before it, nothing happens.  now is what
\* getLogFileName() reads of the clock.
rollFile(l, now) ==
    IF now > l.lastRoll_
    THEN AppendFile([l EXCEPT !.lastRoll_ = now, !.lastFlush_ = now,
                              !.startOfPeriod_ = startOfPeriod(now)], now)
    ELSE l

\* What append_unlocked() does once in checkEveryN_ calls.  When it rolls, the
\* clock is read again.
periodicCheck(l, again) ==
    CASE startOfPeriod(wall) # l.startOfPeriod_ -> rollFile(l, again)
      [] startOfPeriod(wall) = l.startOfPeriod_
            /\ wall - l.lastFlush_ > flushInterval_ ->
            fileFlush([l EXCEPT !.lastFlush_ = wall])
      [] OTHER -> l

append_unlocked(l, len, again) ==
    LET m == fileAppend(l, len)
    IN  CASE m.writtenBytes_ > rollSize_ -> rollFile(m, again)
          [] m.writtenBytes_ <= rollSize_ /\ m.count_ + 1 >= checkEveryN_ ->
                periodicCheck([m EXCEPT !.count_ = 0], again)
          [] OTHER -> [m EXCEPT !.count_ = @ + 1]

-----------------------------------------------------------------------------
\* The constructor calls rollFile() on members that are zero.
LogInit ==
    /\ wall = 1
    /\ log = rollFile([count_ |-> 0, startOfPeriod_ |-> 0, lastRoll_ |-> 0,
                       lastFlush_ |-> 0, name |-> 0, writtenBytes_ |-> 0,
                       buffered |-> FALSE, inOrder |-> TRUE], wall)
    /\ lastAppend = 0
    /\ late = 0

IsLate == startOfPeriod(wall) > log.startOfPeriod_

\* The clock may go on during the call; that it is set back between the two
\* readings of it is left out.
LogAppend ==
    \E len \in LineLengths, again \in wall..MaxClock :
        /\ log.writtenBytes_ + len <= MaxWritten
        /\ log' = append_unlocked(log, len, again)
        /\ late' = IF IsLate /\ log'.name = log.name THEN late + 1 ELSE 0
        /\ lastAppend' = again
        /\ wall' = again

LogFlush ==
    /\ log' = fileFlush(log)
    /\ UNCHANGED <<wall, lastAppend, late>>

RollFile ==
    /\ log' = rollFile(log, wall)
    /\ late' = IF log'.name = log.name THEN late ELSE 0
    /\ UNCHANGED <<wall, lastAppend>>

\* The clock goes on, or is set to any other time.
SetClock ==
    /\ wall' \in (1..MaxClock) \ {wall}
    /\ UNCHANGED <<log, lastAppend, late>>

LogNext == LogAppend \/ LogFlush \/ RollFile \/ SetClock

LogSpec == LogInit /\ [][LogNext]_logVars

-----------------------------------------------------------------------------
\* A file grows past rollSize_ only within the second it was opened in, or
\* while the clock is behind that second.
RollsBySize == log.writtenBytes_ > rollSize_ => lastAppend <= log.lastRoll_

\* Fewer than checkEveryN_ lines in a row of a later day go to one file.
RollsByDay == late < checkEveryN_

\* Whatever the clock does between the calls, a log rolls in time: by size, by day, and always to
\* a file with a name newer than all before, so that the "ae" of fopen() never
\* continues an old file whose length writtenBytes_ would not know.
RollsInTime == RollsBySize /\ RollsByDay /\ log.inOrder
=============================================================================
