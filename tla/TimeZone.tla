------------------------------ MODULE TimeZone ------------------------------
(***************************************************************************)
(* base/TimeZone: a zone read from a TZif file is a list of kinds of local *)
(* time (offset, daylight saving or not) and a list of transitions between *)
(* them, each with its instant in UTC and the local time it leads to.  A   *)
(* conversion looks for the transition in force, by UTC in toLocalTime()   *)
(* and by local time in fromLocalTime(), where an hour may exist twice.    *)
(*                                                                         *)
(* Times are seconds.  struct tm is the local time in seconds with         *)
(* tm_isdst; names of zones are left out.                                  *)
(***************************************************************************)
EXTENDS Integers, Sequences, FiniteSetsExt

CONSTANTS
    ZoneFiles,     \* contents: [gmttimes, indices, types], one per file
    FixedOffsets,  \* arguments of the fixed zone's constructor
    Cuts,          \* how far a file can be read: "head", "types" or "end"
    FirstTime, LastTime, TimeStep   \* the instants tried

VARIABLES
    file,     \* what the file in use holds in full
    zone,     \* TimeZone::Data: [transitions, localtimes]
    instant   \* the time_t converted in this state

zoneVars == <<file, zone, instant>>

\* A file as RFC 8536 has it: every transition leads to a type of the file, and
\* they are in ascending order.  readTimeZoneFile() checks neither.
WellFormed(f) ==
    /\ f \in [gmttimes : Seq(Int), indices : Seq(Nat),
              types : Seq([gmtOffset : Int, isDst : BOOLEAN])]
    /\ f.types # <<>>
    /\ Len(f.indices) = Len(f.gmttimes)
    /\ \A i \in DOMAIN f.indices : f.indices[i] < Len(f.types)
    /\ \A i, j \in DOMAIN f.gmttimes : i < j => f.gmttimes[i] < f.gmttimes[j]

ASSUME ZoneAssumption ==
    /\ \A f \in ZoneFiles : WellFormed(f)
    /\ FixedOffsets \subseteq Int
    /\ FirstTime \in Int /\ LastTime \in Int /\ TimeStep \in Int

Localtime(gmtOffset, isDst) == [gmtOffset |-> gmtOffset, isDst |-> isDst]

Transition(gmttime, localtime, localtimeIdx) ==
    [gmttime |-> gmttime, localtime |-> localtime,
     localtimeIdx |-> localtimeIdx]

\* Comp: the key by which transitions are compared.
key(tr, compareGmt) == IF compareGmt THEN tr.gmttime ELSE tr.localtime

\* A short read throws, is reported and leaves what was read so far; the
\* result is TRUE all the same.  Indices in the file count from 0.
readTimeZoneFile(f, cut) ==
    [localtimes |-> IF cut = "head" THEN <<>> ELSE f.types,
     transitions |->
        IF cut # "end" THEN <<>>
        ELSE [i \in DOMAIN f.gmttimes |->
                LET localIdx == f.indices[i] + 1
                IN  Transition(f.gmttimes[i],
                               f.gmttimes[i] + f.types[localIdx].gmtOffset,
                               localIdx)]]

\* std::lower_bound: the first transition not before the one sought, or one
\* past the end.
lower_bound(transitions, k, compareGmt) ==
    Min({i \in DOMAIN transitions : key(transitions[i], compareGmt) >= k}
            \cup {Len(transitions) + 1})

\* The position of the transition in force: a match counts, otherwise it is
\* the one before.
transitionAt(transitions, k, compareGmt) ==
    LET i == lower_bound(transitions, k, compareGmt)
    IN  IF i \in DOMAIN transitions /\ key(transitions[i], compareGmt) = k
        THEN i ELSE i - 1

findLocaltime(k, compareGmt) ==
    LET transitions == zone.transitions
    IN  IF transitions = <<>> \/ k < key(transitions[1], compareGmt)
        THEN Head(zone.localtimes)
        ELSE zone.localtimes[
                transitions[transitionAt(transitions, k, compareGmt)]
                    .localtimeIdx]

Hour(seconds) == (seconds \div 3600) % 24
Minute(seconds) == (seconds \div 60) % 60

toLocalTime(t) ==
    LET local == findLocaltime(t, TRUE)
    IN  [seconds |-> t + local.gmtOffset, isdst |-> local.isDst]

\* Mutant: every daylight saving time counts as the earlier of two.
secondChanceAnyDst(tm, local) ==
    LET try == toLocalTime(tm.seconds - local.gmtOffset)
    IN  /\ tm.isdst
        /\ Hour(try.seconds) = Hour(tm.seconds)
        /\ Minute(try.seconds) = Minute(tm.seconds)

\* The local time exists twice and tm_isdst asks for the earlier one: the
\* transition found is the later, and leads to the same clock time without it.
secondChance(tm, local) ==
    LET try == toLocalTime(tm.seconds - local.gmtOffset)
    IN  /\ tm.isdst
        /\ ~try.isdst
        /\ Hour(try.seconds) = Hour(tm.seconds)
        /\ Minute(try.seconds) = Minute(tm.seconds)

fromLocalTime(tm) ==
    LET local == findLocaltime(tm.seconds, FALSE)
        seconds == IF secondChance(tm, local) THEN tm.seconds - 3600 ELSE tm.seconds
    IN  seconds - local.gmtOffset

-----------------------------------------------------------------------------
\* The constructors; no zone exists before one of them.
NoZone == [localtimes |-> <<>>, transitions |-> <<>>]

ZoneInit ==
    /\ file = [gmttimes |-> <<>>, indices |-> <<>>, types |-> <<>>]
    /\ zone = NoZone
    /\ instant = FirstTime

FileZone ==
    /\ zone = NoZone
    /\ \E f \in ZoneFiles, cut \in Cuts :
        file' = f /\ zone' = readTimeZoneFile(f, cut)
    /\ UNCHANGED instant

FixedZone ==
    /\ zone = NoZone
    /\ \E eastOfUtc \in FixedOffsets :
        /\ zone' = [NoZone EXCEPT !.localtimes = <<Localtime(eastOfUtc, FALSE)>>]
        /\ file' = [file EXCEPT !.types = zone'.localtimes]
    /\ UNCHANGED instant

\* Another instant is converted.
NextInstant ==
    /\ zone # NoZone
    /\ instant < LastTime
    /\ instant' = instant + TimeStep
    /\ UNCHANGED <<file, zone>>

ZoneNext == FileZone \/ FixedZone \/ NextInstant

ZoneSpec == ZoneInit /\ [][ZoneNext]_zoneVars

-----------------------------------------------------------------------------
\* Of the transitions in the file, the last one that has happened decides.
\* Before the first one it is the first kind of time that is not daylight
\* saving, as the comment in findLocaltime() demands, where there is one.
FirstStandard(types) ==
    LET standard == {i \in DOMAIN types : ~types[i].isDst}
    IN  IF standard = {} THEN Head(types) ELSE types[Min(standard)]

InForce ==
    LET past == {i \in DOMAIN file.gmttimes : file.gmttimes[i] <= instant}
    IN  IF past = {} THEN FirstStandard(file.types)
        ELSE file.types[file.indices[Max(past)] + 1]

\* toLocalTime() uses the offset of the last transition that has happened, its
\* own instant included, and before all of them that of the first standard time.
LocalTimeInForce ==
    zone # NoZone => toLocalTime(instant) = [seconds |-> instant + InForce.gmtOffset,
                                             isdst |-> InForce.isDst]

\* Of that local time fromLocalTime() makes the same instant again: in the
\* hour that daylight saving repeats it must tell the two apart although the
\* transitions are then searched by local time.
LocalTimeRoundTrips ==
    /\ LocalTimeInForce
    /\ zone # NoZone => fromLocalTime(toLocalTime(instant)) = instant

\* The files for which the first is so: findLocaltime() takes the first kind of
\* time of all.
StandardFirst(f) == ~Head(f.types).isDst

\* And for which the second is so, too: no transition falls into the time that
\* another one skips or repeats, and a clock is only ever put back at the end
\* of daylight saving, and then by the hour that fromLocalTime() assumes.
Before(f, i) == IF i = 1 THEN Head(f.types) ELSE f.types[f.indices[i - 1] + 1]

RepeatsOneHour(f) ==
    /\ \A i, j \in DOMAIN f.gmttimes, a, b \in DOMAIN f.types :
        i < j => f.types[a].gmtOffset - f.types[b].gmtOffset < f.gmttimes[j] - f.gmttimes[i]
    /\ \A i \in DOMAIN f.gmttimes :
        LET before == Before(f, i)
            after == f.types[f.indices[i] + 1]
        IN  after.gmtOffset < before.gmtOffset =>
                /\ before.isDst /\ ~after.isDst
                /\ before.gmtOffset = after.gmtOffset + 3600
=============================================================================
