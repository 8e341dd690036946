------------------------------- MODULE MCBase -------------------------------
(***************************************************************************)
(* The parts of the library that run in one thread and share no state, in  *)
(* one model: a behaviour is one of a buffer, of the calendar, of a time   *)
(* zone, of a log file or of a log stream, while the others rest.          *)
(***************************************************************************)
EXTENDS Buffer, Date, TimeZone, LogFile, LogStream

VARIABLE part

DayTypes(west) == <<Localtime(-west, FALSE), Localtime(3600 - west, TRUE)>>

\* West of Greenwich with daylight saving that begins, ends and begins; east
\* with a first transition that changes nothing; and with a local mean time
\* before the first transition.
MCZoneFiles ==
    {[gmttimes |-> <<36000, 122400, 208800>>, indices |-> <<1, 0, 1>>,
      types |-> DayTypes(18000)],
     [gmttimes |-> <<36000, 122400, 208800>>, indices |-> <<0, 1, 0>>,
      types |-> DayTypes(-36000)],
     [gmttimes |-> <<36000, 122400, 208800>>, indices |-> <<1, 2, 1>>,
      types |-> <<Localtime(1800, FALSE), Localtime(3600, FALSE),
                  Localtime(7200, TRUE)>>]}

\* They meet the hypotheses of BaseProofs.
ASSUME \A f \in MCZoneFiles : StandardFirst(f) /\ RepeatsOneHour(f)

\* A file whose first kind of time is daylight saving: as ZoneFiles it violates
\* LocalTimeRoundTrips before its first transition.
MCDaylightFirst ==
    {[gmttimes |-> <<36000, 122400>>, indices |-> <<1, 0>>,
      types |-> <<Localtime(3600, TRUE), Localtime(0, FALSE)>>]}

MCFirstTime == -7200

\* Both ends of int, and the remainders' signs.
MCIntegers == {0, 7, -10, 2147483647, -2147483647 - 1}

\* Both sides of every bound of formatSI() and formatIEC().
Amount(unit, values) == [unit : {unit}, value : values]

MCAmounts ==
    Amount("one", {0, 999, 1000, 1023, 1024})
        \cup Amount("scaled", {9995, 10000, 99949, 99950, 999499, 999500,
                               9994999, 9995000, 10234999})

\* 99949999999999999 and its neighbours: as Amounts they violate RecordsSound.
MCWideAmounts == Amount("wide", {999499})

MCInit ==
    /\ part \in {"buffer", "date", "zone", "file", "stream"}
    /\ BufferInit
    /\ DateInit
    /\ ZoneInit
    /\ LogInit
    /\ LogStreamInit

MCNext ==
    /\ UNCHANGED part
    /\ \/ part = "buffer" /\ BufferNext
            /\ UNCHANGED <<date, zoneVars, logVars, logStreamVars>>
       \/ part = "date" /\ DateNext
            /\ UNCHANGED <<bufferVars, zoneVars, logVars, logStreamVars>>
       \/ part = "zone" /\ ZoneNext
            /\ UNCHANGED <<bufferVars, date, logVars, logStreamVars>>
       \/ part = "file" /\ LogNext
            /\ UNCHANGED <<bufferVars, date, zoneVars, logStreamVars>>
       \/ part = "stream" /\ LogStreamNext
            /\ UNCHANGED <<bufferVars, date, zoneVars, logVars>>

MCSpec ==
    MCInit /\ [][MCNext]_<<part, bufferVars, date, zoneVars, logVars,
                           logStreamVars>>
=============================================================================
