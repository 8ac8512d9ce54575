------------------------- MODULE TimeAndPacketProofs -------------------------
(***************************************************************************)
(* The time of a record, from the tick of its capture to the text that     *)
(* carries it.                                                             *)
(*                                                                         *)
(* TimeAnchor: dating a record adds no error but the rounding to a second  *)
(* to that of the reading it goes by, for every tick rate, every staleness *)
(* limit and every interleaving of the two tasks; and GNSS is never        *)
(* displaced while it is fresh, whatever the other sources say.            *)
(*                                                                         *)
(* Packet: the dates written are those of the calendar for every day that  *)
(* 32 bits of seconds reach; and a packet is whole and sealed once for     *)
(* every kind of element and every size of block whose text has room.      *)
(***************************************************************************)
EXTENDS TimeAnchor, Packet, SequenceTheorems, TLAPS

\* Quotient and remainder: the only facts about division the rest needs.
LEMMA Quotient ==
  ASSUME NEW a \in Int
  PROVE  /\ a \div Second \in Int
         /\ Second * (a \div Second) <= a
         /\ a < Second * (a \div Second) + Second
BY AnchorAssumption

\* timeAnchorResolve() corrects C's quotient to the floor.
LEMMA DeltaIsFloor ==
  ASSUME NEW delta \in Int
  PROVE  DeltaSeconds(delta) = delta \div Second
BY AnchorAssumption DEF DeltaSeconds, CDiv, CMod

\* Two floors add up to the floor of the sum, or to one less: the error of a stamp.
LEMMA FloorsAdd ==
  ASSUME NEW a \in Int, NEW b \in Int
  PROVE  a \div Second + b \div Second \in {(a + b) \div Second - 1, (a + b) \div Second}
BY AnchorAssumption
-----------------------------------------------------------------------------
\* The lock: who is inside, and what the fields hold while somebody is.
Section ==
  /\ \A t \in Task : pc[t] \in {"decide", "replace"} => mux = t
  /\ pc["telemetry"] \in {"copy", "copytick"} => mux = "telemetry"
  /\ pc["loop"] \notin {"copy", "copytick", "resolve"}
  /\ \A t \in Task : pc[t] = "replace" =>
       src = arg[t].src /\ utc = arg[t].utc /\ late = arg[t].late
  /\ pc["telemetry"] = "copytick" => reading.src = src /\ reading.utc = utc /\ reading.late = late

\* A reading that may be trusted: plausible, and, unless it is the modem's, the true second of
\* the instant it was taken.
Good(r) ==
  \/ r.src = NONE
  \/ Plausible(r.utc) /\ (r.src \in {SERVER, GPS} => r.utc = TrueSecond(r.tick - r.late))

\* Outside a replacement the anchor may be trusted, and so may every copy of it.
Trusted ==
  /\ \A t \in Task : arg[t].src \in {SERVER, GPS} =>
       arg[t].utc = TrueSecond(arg[t].tick - arg[t].late)
  /\ \A t \in Task : pc[t] \in {"offer", "decide", "replace", "accepted"} => arg[t].src # NONE
  /\ \A t \in Task : pc[t] \in {"decide", "replace"} => Plausible(arg[t].utc)
  /\ (\A t \in Task : pc[t] # "replace") =>
       Good([src |-> src, utc |-> utc, tick |-> tick, late |-> late])
  /\ pc["telemetry"] = "resolve" => Good(reading)

\* GNSS readings come from the loop alone, in order.
Gnss ==
  /\ arg["loop"].src \in {NONE, GPS} /\ arg["telemetry"].src # GPS
  /\ \A t \in Task : arg[t].tick <= now
  /\ tick <= now /\ gpsAt <= now /\ held <= now
  /\ (\A t \in Task : pc[t] # "replace") /\ src = GPS => gpsAt = tick

\* Whoever saw no source before it is the one to set the system clock.
Setter(t) == pc[t] \in {"replace", "accepted"} /\ prev[t] = NONE
SystemClock ==
  /\ \A t \in Task : pc[t] = "decide" => prev[t] = src
  /\ src = NONE => clockSets = 0 /\ \A t \in Task : ~Setter(t)
  /\ clockSets <= 1
  /\ clockSets = 1 => \A t \in Task : ~Setter(t)
  /\ ~(Setter("loop") /\ Setter("telemetry"))

IInv ==
  TypeOK /\ Section /\ Trusted /\ Gnss /\ SystemClock /\ StampsAccurate /\ GpsHoldsTheAnchor

-----------------------------------------------------------------------------
\* A second of true time is a natural number.
LEMMA TrueSecondType == \A t \in Tick : TrueSecond(t) \in Nat
BY AnchorAssumption, Quotient DEF TrueSecond, Tick

\* Dating a record moves the anchor's second by the floor of the distance in time ...
LEMMA ResolvedInRange ==
  ASSUME NEW r \in [src : Rank, utc : Nat, tick : Tick, late : Tick, asked : Tick],
         Good(r), r.src # NONE, Resolved(r) >= MinEpoch
  PROVE  Resolved(r) \in Stampable
<1>1. r.asked - r.tick \in Int /\ r.asked - r.tick <= MaxTick
  BY AnchorAssumption DEF Tick
<1>2. DeltaSeconds(r.asked - r.tick) \in Int /\ DeltaSeconds(r.asked - r.tick) <= MaxTick
  BY <1>1, DeltaIsFloor, Quotient, AnchorAssumption
<1> QED
  BY <1>2, AnchorAssumption DEF Resolved, Stampable, Good, Plausible

\* ... and so stays within the second the source itself rounded off.
LEMMA ResolvedAccurate ==
  ASSUME NEW r \in [src : Rank, utc : Nat, tick : Tick, late : Tick, asked : Tick],
         Good(r), r.src \in {SERVER, GPS}
  PROVE  Resolved(r) \in {TrueSecond(r.asked - r.late) - 1, TrueSecond(r.asked - r.late)}
<1>1. r.utc = (Base + (r.tick - r.late)) \div Second
  BY DEF Good, TrueSecond, NONE, SERVER, GPS
<1>2. Base + (r.tick - r.late) \in Int /\ r.asked - r.tick \in Int
  BY AnchorAssumption DEF Tick
<1>3. (Base + (r.tick - r.late)) + (r.asked - r.tick) = Base + (r.asked - r.late)
  BY AnchorAssumption DEF Tick
<1> QED
  BY <1>1, <1>2, <1>3, DeltaIsFloor, FloorsAdd DEF Resolved, TrueSecond

\* At boot there is no anchor and nobody is in the section.
LEMMA InitEstablishes == Init => IInv
<1> SUFFICES ASSUME Init PROVE IInv
  OBVIOUS
<1> USE AnchorAssumption DEF Init, anchor, Tick, Never, Rank, NONE, MODEM, SERVER, GPS, Task,
        Offers, NoOffer, NoReading, NoStamp
<1>1. TypeOK
  <2>1. stamp \in StampType
    BY DEF StampType, Stampable
  <2>2. pc \in [Task -> Label] /\ arg \in [Task -> Offers] /\ prev \in [Task -> Rank]
    BY DEF Label
  <2> QED
    BY <2>1, <2>2 DEF TypeOK
<1>2. Section /\ Trusted /\ Gnss
  BY DEF Section, Trusted, Good, Gnss
<1>3. SystemClock /\ StampsAccurate /\ GpsHoldsTheAnchor
  BY DEF SystemClock, Setter, StampsAccurate, GpsHoldsTheAnchor
<1> QED
  BY <1>1, <1>2, <1>3 DEF IInv

\* Every step of either task preserves the invariant, one case per action.
LEMMA StepPreserves ==
  ASSUME IInv, [Next]_vars
  PROVE  IInv'
<1> USE AnchorAssumption, TrueSecondType
    DEF IInv, TypeOK, anchor, gnss, Tick, Never, Rank, NONE, MODEM, SERVER, GPS, Task, Offers, NoOffer,
        NoReading, NoStamp, Label, StampType, Stampable
<1>1. CASE GpsReading
  BY <1>1 DEF GpsReading, Offer, Goto, Section, Trusted, Gnss, SystemClock, StampsAccurate,
     GpsHoldsTheAnchor, Good, Plausible, Setter
<1>18. CASE GpsWithheld
  <2>1. TypeOK'
    BY <1>18 DEF GpsWithheld, gnss
  <2>2. Section' /\ Trusted' /\ Gnss'
    BY <1>18 DEF GpsWithheld, Section, Trusted, Good, Gnss
  <2>3. SystemClock' /\ StampsAccurate' /\ GpsHoldsTheAnchor'
    BY <1>18 DEF GpsWithheld, SystemClock, Setter, StampsAccurate, GpsHoldsTheAnchor
  <2> QED
    BY <2>1, <2>2, <2>3
<1>19. CASE GpsAgain
  BY <1>19 DEF GpsAgain, Offer, Goto, Section, Trusted, Gnss, SystemClock, StampsAccurate,
     GpsHoldsTheAnchor, Good, Plausible, Setter
<1>20. CASE WriteStamp
  BY <1>20 DEF WriteStamp, Goto, Section, Trusted, Gnss, SystemClock, StampsAccurate,
     GpsHoldsTheAnchor, Good, Plausible, Setter
<1>2. CASE ModemReading
  BY <1>2 DEF ModemReading, Offer, Goto, Section, Trusted, Gnss, SystemClock, StampsAccurate,
     GpsHoldsTheAnchor, Good, Plausible, Setter
<1>3. CASE ServerReading
  BY <1>3 DEF ServerReading, Offer, Goto, Section, Trusted, Gnss, SystemClock, StampsAccurate,
     GpsHoldsTheAnchor, Good, Plausible, Setter
<1>4. ASSUME NEW t \in Task, RejectImplausible(t) PROVE IInv'
  BY <1>4 DEF RejectImplausible, Return, Goto, Section, Trusted, Gnss, SystemClock, StampsAccurate,
     GpsHoldsTheAnchor, Good, Plausible, Setter
<1>5. ASSUME NEW t \in Task, EnterSet(t) PROVE IInv'
  BY <1>5 DEF EnterSet, Enter, Goto, Section, Trusted, Gnss, SystemClock, StampsAccurate,
     GpsHoldsTheAnchor, Good, Plausible, Setter
<1>6. ASSUME NEW t \in Task, Reject(t) PROVE IInv'
  BY <1>6 DEF Reject, Return, Leave, Goto, Section, Trusted, Gnss, SystemClock, StampsAccurate,
     GpsHoldsTheAnchor, Good, Plausible, Setter
<1>7. ASSUME NEW t \in Task, Replace(t) PROVE IInv'
  BY <1>7 DEF Replace, Accepts, Goto, Section, Trusted, Gnss, SystemClock, StampsAccurate,
     GpsHoldsTheAnchor, Good, Plausible, Setter
<1>8. ASSUME NEW t \in Task, LeaveSet(t) PROVE IInv'
  BY <1>8 DEF LeaveSet, Leave, Goto, Section, Trusted, Gnss, SystemClock, StampsAccurate,
     GpsHoldsTheAnchor, Good, Plausible, Setter
<1>9. ASSUME NEW t \in Task, Accepted(t) PROVE IInv'
  BY <1>9 DEF Accepted, Return, Goto, Section, Trusted, Gnss, SystemClock, StampsAccurate,
     GpsHoldsTheAnchor, Good, Plausible, Setter
<1>10. CASE EnterResolve
  BY <1>10 DEF EnterResolve, Enter, Goto, Section, Trusted, Gnss, SystemClock, StampsAccurate,
     GpsHoldsTheAnchor, Good, Plausible, Setter
<1>11. CASE CopySource
  <2>1. TypeOK'
    BY <1>11 DEF CopySource, Goto
  <2>2. Section' /\ Trusted' /\ Gnss'
    BY <1>11 DEF CopySource, Goto, Section, Trusted, Good, Gnss
  <2>3. SystemClock' /\ StampsAccurate' /\ GpsHoldsTheAnchor'
    BY <1>11 DEF CopySource, Goto, SystemClock, Setter, StampsAccurate, GpsHoldsTheAnchor
  <2> QED
    BY <2>1, <2>2, <2>3
<1>12. CASE LeaveResolve
  BY <1>12 DEF LeaveResolve, Leave, Goto, Section, Trusted, Gnss, SystemClock, StampsAccurate,
     GpsHoldsTheAnchor, Good, Plausible, Setter
<1>13. CASE Resolve
  <2>1. /\ reading \in [src : Rank, utc : Nat, tick : Tick, late : Tick, asked : Tick]
        /\ Good(reading)
    BY <1>13 DEF Resolve, Trusted
  <2>2. stamp' = NoStamp
        \/ /\ reading.src # NONE /\ Resolved(reading) >= MinEpoch
           /\ stamp' = [src |-> reading.src, sec |-> Resolved(reading), late |-> reading.late,
                        asked |-> reading.asked]
    BY <1>13 DEF Resolve, StampOf
  <2>3. stamp' \in StampType
    BY <2>1, <2>2, ResolvedInRange
  <2>4. StampsAccurate'
    BY <2>1, <2>2, ResolvedAccurate DEF StampsAccurate
  <2>5. TypeOK'
    BY <1>13, <2>3 DEF Resolve, Goto
  <2>6. Section' /\ Trusted' /\ Gnss' /\ SystemClock' /\ GpsHoldsTheAnchor'
    BY <1>13 DEF Resolve, Goto, Section, Trusted, Gnss, SystemClock, Setter, Good,
       GpsHoldsTheAnchor
  <2> QED
    BY <2>4, <2>5, <2>6
<1>14. CASE TimePasses
  BY <1>14 DEF TimePasses, Section, Trusted, Gnss, SystemClock, StampsAccurate,
     GpsHoldsTheAnchor, Good, Plausible, Setter
<1>15. CASE FixChanges
  BY <1>15 DEF FixChanges, Section, Trusted, Gnss, SystemClock, StampsAccurate,
     GpsHoldsTheAnchor, Good, Plausible, Setter
<1>16. CASE LinkDrops
  <2>1. TypeOK'
    BY <1>16 DEF LinkDrops
  <2>2. Section' /\ Trusted' /\ Gnss'
    BY <1>16 DEF LinkDrops, Section, Trusted, Good, Gnss
  <2>3. SystemClock' /\ StampsAccurate' /\ GpsHoldsTheAnchor'
    BY <1>16 DEF LinkDrops, SystemClock, Setter, StampsAccurate, GpsHoldsTheAnchor
  <2> QED
    BY <2>1, <2>2, <2>3
<1>17. CASE UNCHANGED vars
  <2>1. TypeOK'
    BY <1>17 DEF vars, gnss, TypeOK
  <2>2. Section'
    BY <1>17 DEF vars, Section
  <2>3. Trusted'
    BY <1>17 DEF vars, Trusted, Good, Plausible
  <2>4. Gnss'
    BY <1>17 DEF vars, gnss, Gnss
  <2>5. SystemClock'
    BY <1>17 DEF vars, SystemClock, Setter
  <2>6. StampsAccurate'
    BY <1>17 DEF vars, StampsAccurate
  <2>7. GpsHoldsTheAnchor'
    BY <1>17 DEF vars, GpsHoldsTheAnchor
  <2> QED
    BY <2>1, <2>2, <2>3, <2>4, <2>5, <2>6, <2>7
<1> QED
  BY <1>1, <1>2, <1>3, <1>4, <1>5, <1>6, <1>7, <1>8, <1>9, <1>10, <1>11, <1>12, <1>13, <1>14,
     <1>15, <1>16, <1>17, <1>18, <1>19, <1>20
  DEF Next, SetSteps, ResolveSteps

\* The strengthened invariant holds throughout.
LEMMA Inductive == Spec => []IInv
<1>1. IInv /\ [Next]_vars => IInv'
  BY StepPreserves
<1> QED
  BY InitEstablishes, <1>1, PTL DEF Spec

\* Type correctness.
THEOREM TypeCorrect == Spec => []TypeOK
<1>1. IInv => TypeOK
  BY DEF IInv
<1> QED
  BY Inductive, <1>1, PTL

\* A packet dated from GNSS or the server is behind by what its reading was late, and right to the
\* second beyond that, whatever the tick rate, the age of the record, and the interleaving of the
\* two tasks.
THEOREM DatesAreRight == Spec => []StampsAccurate
<1>1. IInv => StampsAccurate
  BY DEF IInv
<1> QED
  BY Inductive, <1>1, PTL

\* GNSS keeps the anchor for ANCHOR_STALE after each reading, whatever anybody offers.
THEOREM GnssHolds == Spec => []GpsHoldsTheAnchor
<1>1. IInv => GpsHoldsTheAnchor
  BY DEF IInv
<1> QED
  BY Inductive, <1>1, PTL

\* The race of two first readings sets the system clock once.
THEOREM ClockSetOnce == Spec => []SystemClockSetOnce
<1>1. IInv => SystemClockSetOnce
  BY DEF IInv, SystemClock, SystemClockSetOnce
<1> QED
  BY Inductive, <1>1, PTL

-----------------------------------------------------------------------------
(***************************************************************************)
(* The calendar. Years begin in March, so that a leap day is the last day  *)
(* of its year; 400 years make an era of 146097 days.                      *)
(***************************************************************************)

DaysBefore(Y) ==
  LET era == Y \div 400
      yoe == Y - era * 400
  IN era * 146097 + yoe * 365 + yoe \div 4 - yoe \div 100

March(m) == IF m > 2 THEN m - 3 ELSE m + 9
MarchYear(y, m) == IF m <= 2 THEN y - 1 ELSE y
DaysPassed(m, d) == (153 * March(m) + 2) \div 5 + d - 1

\* A year that begins in March has a leap day if the year it ends in does.
LEMMA YearLength ==
  ASSUME NEW Y \in Nat
  PROVE  DaysBefore(Y + 1) = DaysBefore(Y) + (IF Leap(Y + 1) THEN 366 ELSE 365)
BY DEF DaysBefore, Leap

\* The month of a day within its year.
LEMMA MonthFound ==
  ASSUME NEW m \in 1 .. 12, NEW d \in 1 .. 31, m \in {4, 6, 9, 11} => d <= 30,
         m = 2 => d <= 29
  PROVE  MonthIndex(DaysPassed(m, d)) = March(m)
BY SMTT(30) DEF MonthIndex, DaysPassed, March

LEMMA CivilParts ==
  ASSUME NEW y \in Nat, y > 0, NEW m \in 1 .. 12, NEW d \in 1 .. 31
  PROVE  timeCivilToEpoch(y, m, d) = DaysBefore(MarchYear(y, m)) + DaysPassed(m, d) - 719468
BY DEF timeCivilToEpoch, DaysBefore, MarchYear, DaysPassed, March

LEMMA DaysBeforeType == \A Y \in Nat : DaysBefore(Y) \in Int
BY DEF DaysBefore

\* The day after a day, within a year that begins in March and past its end.
LEMMA DayAfter ==
  ASSUME NEW y \in Nat, NEW m \in 1 .. 12, NEW d \in 1 .. DaysIn(y, m)
  PROVE  /\ DaysPassed(m, d) \in Int
         /\ DaysPassed(m, d + 1) = DaysPassed(m, d) + 1
         /\ d = DaysIn(y, m) /\ m < 12 /\ m # 2 => DaysPassed(m + 1, 1) = DaysPassed(m, d) + 1
         /\ d = DaysIn(y, m) /\ m = 2 => DaysPassed(m, d) = (IF Leap(y) THEN 365 ELSE 364)
         /\ d = DaysIn(y, m) /\ m = 12 => DaysPassed(1, 1) = DaysPassed(m, d) + 1
         /\ DaysPassed(3, 1) = 0
<1>1. d \in Int /\ DaysIn(y, m) \in Int
  BY DEF DaysIn
<1>2. m \in {1, 3, 4, 5, 6, 7, 8, 9, 10, 11, 12} \/ m = 2
  OBVIOUS
<1>3. CASE m = 2
  BY <1>1, <1>3, SMTT(20) DEF DaysPassed, March, DaysIn
<1>4. CASE m # 2
  BY <1>1, <1>4, SMTT(20) DEF DaysPassed, March, DaysIn
<1> QED
  BY <1>3, <1>4

\* The day after the last of a month.
LEMMA NextDay ==
  ASSUME NEW y \in Nat, y > 0, NEW m \in 1 .. 12, NEW d \in 1 .. DaysIn(y, m)
  PROVE  /\ d < DaysIn(y, m) => timeCivilToEpoch(y, m, d + 1) = timeCivilToEpoch(y, m, d) + 1
         /\ d = DaysIn(y, m) /\ m < 12 =>
              timeCivilToEpoch(y, m + 1, 1) = timeCivilToEpoch(y, m, d) + 1
         /\ d = DaysIn(y, m) /\ m = 12 =>
              timeCivilToEpoch(y + 1, 1, 1) = timeCivilToEpoch(y, m, d) + 1
<1>1. d \in 1 .. 31 /\ DaysIn(y, m) \in 28 .. 31
  BY DEF DaysIn
<1>2. MarchYear(y, m) \in Nat /\ DaysBefore(MarchYear(y, m)) \in Int
  BY DaysBeforeType DEF MarchYear
<1>3. ASSUME d < DaysIn(y, m)
      PROVE  timeCivilToEpoch(y, m, d + 1) = timeCivilToEpoch(y, m, d) + 1
  <2>1. d + 1 \in 1 .. 31
    BY <1>1, <1>3
  <2>2. timeCivilToEpoch(y, m, d + 1) = DaysBefore(MarchYear(y, m)) + DaysPassed(m, d + 1) - 719468
    BY <2>1, CivilParts
  <2>3. timeCivilToEpoch(y, m, d) = DaysBefore(MarchYear(y, m)) + DaysPassed(m, d) - 719468
    BY <1>1, CivilParts
  <2>4. DaysPassed(m, d + 1) = DaysPassed(m, d) + 1 /\ DaysPassed(m, d) \in Int
    BY DayAfter
  <2> QED
    BY <1>2, <2>2, <2>3, <2>4
<1>4. ASSUME d = DaysIn(y, m), m < 12, m # 2
      PROVE  timeCivilToEpoch(y, m + 1, 1) = timeCivilToEpoch(y, m, d) + 1
  <2>1. MarchYear(y, m + 1) = MarchYear(y, m)
    BY <1>4 DEF MarchYear
  <2>2. m + 1 \in 1 .. 12 /\ 1 \in 1 .. 31
    BY <1>4
  <2>3. DaysPassed(m + 1, 1) = DaysPassed(m, d) + 1 /\ DaysPassed(m, d) \in Int
    BY <1>4, DayAfter
  <2>4. timeCivilToEpoch(y, m + 1, 1) = DaysBefore(MarchYear(y, m)) + DaysPassed(m + 1, 1) - 719468
    BY <2>1, <2>2, CivilParts
  <2>5. timeCivilToEpoch(y, m, d) = DaysBefore(MarchYear(y, m)) + DaysPassed(m, d) - 719468
    BY <1>1, CivilParts
  <2> QED
    BY <1>2, <2>3, <2>4, <2>5
<1>5. ASSUME d = DaysIn(y, m), m = 2
      PROVE  timeCivilToEpoch(y, m + 1, 1) = timeCivilToEpoch(y, m, d) + 1
  <2>1. MarchYear(y, 2) = y - 1 /\ MarchYear(y, 3) = y /\ y - 1 \in Nat
    BY DEF MarchYear
  <2>2. DaysBefore(y) = DaysBefore(y - 1) + (IF Leap(y) THEN 366 ELSE 365)
    <3>1. (y - 1) + 1 = y
      OBVIOUS
    <3> QED
      BY <2>1, <3>1, YearLength, SMTT(20)
  <2>3. timeCivilToEpoch(y, 2, d) = DaysBefore(y - 1) + DaysPassed(2, d) - 719468
    BY <1>1, <2>1, CivilParts, SMTT(20)
  <2>4. timeCivilToEpoch(y, 3, 1) = DaysBefore(y) + DaysPassed(3, 1) - 719468
    BY <2>1, CivilParts, SMTT(20)
  <2>5. DaysPassed(2, d) = (IF Leap(y) THEN 365 ELSE 364) /\ DaysPassed(3, 1) = 0
    BY <1>5, DayAfter, SMTT(20)
  <2>6. DaysBefore(y - 1) \in Int
    BY <2>1, DaysBeforeType
  <2> QED
    BY <1>5, <2>2, <2>3, <2>4, <2>5, <2>6, SMTT(20)
<1>6. ASSUME d = DaysIn(y, m), m = 12
      PROVE  timeCivilToEpoch(y + 1, 1, 1) = timeCivilToEpoch(y, m, d) + 1
  <2>1. MarchYear(y + 1, 1) = y /\ MarchYear(y, 12) = y
    BY DEF MarchYear
  <2> QED
    BY <1>1, <1>2, <1>6, <2>1, CivilParts, DayAfter, SMTT(20)
<1> QED
  BY <1>1, <1>3, <1>4, <1>5, <1>6, SMTT(20)

\* GpsDate() is the date of a day that timeCivilToEpoch() numbers.
LEMMA DateRead ==
  ASSUME NEW y \in Nat, y >= 1970, NEW m \in 1 .. 12, NEW d \in 1 .. DaysIn(y, m),
         NEW n \in Nat, n = timeCivilToEpoch(y, m, d)
  PROVE  GpsDate(n) = d * 10000 + m * 100 + (y % 100)
<1>1. d \in 1 .. 31 /\ (m \in {4, 6, 9, 11} => d <= 30) /\ (m = 2 => d <= 29)
  BY DEF DaysIn
<1>2. PICK Y \in Nat : Y = MarchYear(y, m)
  BY DEF MarchYear
<1>3. PICK era \in Nat : era = Y \div 400
  OBVIOUS
<1>4. PICK yoe \in 0 .. 399 : Y = era * 400 + yoe
  <2>1. Y - era * 400 \in 0 .. 399 /\ Y = era * 400 + (Y - era * 400)
    BY <1>3
  <2> QED
    BY <2>1
<1>5. PICK doy \in 0 .. 365 : doy = DaysPassed(m, d) /\ (doy = 365 => Leap(Y + 1))
  <2>1. DaysPassed(m, d) \in 0 .. 365 /\ (DaysPassed(m, d) = 365 => m = 2 /\ d = 29)
    BY <1>1 DEF DaysPassed, March
  <2>2. m = 2 /\ d = 29 => Leap(y) /\ Y + 1 = y
    BY <1>2 DEF DaysIn, MarchYear
  <2> QED
    BY <2>1, <2>2
<1>6. PICK doe \in Nat : doe = 365 * yoe + yoe \div 4 - yoe \div 100 + doy
  <2>1. 365 * yoe + yoe \div 4 - yoe \div 100 + doy \in Nat
    OBVIOUS
  <2> QED
    BY <2>1
<1>7. PICK z \in Nat : z = n + 719468 /\ z = DaysBefore(Y) + doy
  <2>1. n = DaysBefore(Y) + doy - 719468
    BY <1>1, <1>2, <1>5, CivilParts
  <2> QED
    BY <1>2, <2>1, DaysBeforeType
<1>8. Era(z) = era /\ DayOfEra(z) = doe /\ YearOfEra(doe) = yoe
  <2>1. doy = 365 => yoe % 4 = 3 /\ (yoe % 100 = 99 => yoe = 399)
    <3>1. (Y + 1) % 4 = (yoe + 1) % 4
      BY <1>4, SMTT(20)
    <3>2. (Y + 1) % 100 = (yoe + 1) % 100
      BY <1>4, SMTT(20)
    <3>3. (Y + 1) % 400 = (yoe + 1) % 400
      BY <1>4, SMTT(20)
    <3> QED
      BY <1>5, <3>1, <3>2, <3>3 DEF Leap
  <2>2. z = era * 146097 + doe
    <3>1. Y - (Y \div 400) * 400 = yoe
      BY <1>3, <1>4
    <3> QED
      BY <1>3, <1>6, <1>7, <3>1 DEF DaysBefore
  <2>3. doe < 146097
    <3>1. yoe \div 4 <= 99 /\ yoe \div 100 >= 0 /\ (yoe = 399 => yoe \div 100 = 3)
      OBVIOUS
    <3> QED
      BY <1>6, <2>1, <3>1
  <2>4. z \div 146097 = era
    BY <1>3, <2>2, <2>3
  <2>5. (doe - doe \div 1460 + doe \div 36524 - doe \div 146096) \div 365 = yoe
    BY <1>6, <2>1, SMTT(30)
  <2> QED
    BY <2>2, <2>4, <2>5 DEF Era, DayOfEra, YearOfEra
<1>9. DayOfYear(doe) = doy
  BY <1>6, <1>8 DEF DayOfYear
<1>10. MonthIndex(doy) = March(m)
  <2>1. MonthIndex(DaysPassed(m, d)) = March(m)
    BY <1>1, MonthFound
  <2> QED
    BY <1>5, <2>1
<1>11. doy - (153 * March(m) + 2) \div 5 + 1 = d
  BY <1>1, <1>5 DEF DaysPassed, March
<1>12. MonthOf(March(m)) = m
  BY DEF March, MonthOf
<1>13. YearOf(yoe, m, era) = y
  BY <1>2, <1>4 DEF YearOf, MarchYear
<1>14. Era(n + 719468) = era /\ DayOfEra(n + 719468) = doe
  BY <1>7, <1>8
<1> QED
  BY <1>8, <1>9, <1>10, <1>11, <1>12, <1>13, <1>14 DEF GpsDate

LEMMA TimeRead ==
  ASSUME NEW sod \in Nat
  PROVE  GpsTime(sod) \div 100 =
           (sod \div 3600) * 10000 + ((sod % 3600) \div 60) * 100 + (sod % 60)
<1>1. PICK h \in Int : h = sod \div 3600
  OBVIOUS
<1>2. PICK i \in Int : i = (sod % 3600) \div 60
  OBVIOUS
<1>3. PICK s \in Int : s = sod % 60
  OBVIOUS
<1>4. (h * 1000000 + i * 10000 + s * 100) \div 100 = h * 10000 + i * 100 + s
  OBVIOUS
<1> QED
  BY <1>1, <1>2, <1>3, <1>4 DEF GpsTime

-----------------------------------------------------------------------------
Part == {"HEADER", "TS", "BODY", "TIME", "SUM"}

\* The parts that come before the time and the checksum: header, tick and, unless the record
\* is empty, its elements.
OpenParts == IF total > 0 THEN 3 ELSE 2
Opens(t) ==
  /\ t \in Seq(Part) /\ Len(t) >= OpenParts
  /\ t[1] = "HEADER" /\ t[2] = "TS" /\ (total > 0 => t[3] = "BODY")

IsOpen(t) == Opens(t) /\ Len(t) = OpenParts
IsTimed(t) == Opens(t) /\ Len(t) = OpenParts + 1 /\ t[OpenParts + 1] = "TIME"
IsSealed(t, timed) ==
  /\ Opens(t) /\ Len(t) = OpenParts + (IF timed THEN 2 ELSE 1)
  /\ t[Len(t)] = "SUM"
  /\ timed => t[OpenParts + 1] = "TIME"

\* What CBuffer::add() lets in has text for at most three times its bytes.
RecordFits ==
  /\ phase \in {"fill", "untimed", "sent"} /\ second \in Seconds
  /\ offset \in Nat /\ total \in Nat /\ chars \in Nat
  /\ offset <= BUFFER_LENGTH /\ chars <= 3 * offset
  /\ total = 0 <=> chars = 0

\* The text of a record, all of it, and the checksum over what precedes the checksum.
TextIs(timed) ==
  /\ IsSealed(text, timed) /\ sum = Front(text) /\ logged = total
  /\ bytes = HEADER_TEXT + TS_TEXT + chars + (IF timed THEN STAMP_TEXT ELSE 0) - 1 + SUM_TEXT

\* Each part goes to the end.
LEMMA PartAdded ==
  ASSUME NEW t, NEW e \in Part, Opens(t)
  PROVE  /\ Opens(Append(t, e)) /\ Len(Append(t, e)) = Len(t) + 1
         /\ Append(t, e)[Len(t) + 1] = e
         /\ \A k \in 1 .. Len(t) : Append(t, e)[k] = t[k]
<1>1. t \in Seq(Part) /\ Len(t) \in Nat /\ Len(t) >= OpenParts
  BY DEF Opens
<1>2. /\ Append(t, e) \in Seq(Part) /\ Len(Append(t, e)) = Len(t) + 1
      /\ Append(t, e)[Len(t) + 1] = e
      /\ \A k \in 1 .. Len(t) : Append(t, e)[k] = t[k]
  BY <1>1, AppendProperties
<1> HIDE DEF Part
<1> QED
  BY <1>1, <1>2 DEF Opens, OpenParts

LEMMA TimeAdded ==
  ASSUME NEW t, IsOpen(t)
  PROVE  IsTimed(Append(t, "TIME"))
BY PartAdded DEF IsOpen, IsTimed, Part

LEMMA SumAdded ==
  ASSUME NEW t, NEW timed \in BOOLEAN, IF timed THEN IsTimed(t) ELSE IsOpen(t)
  PROVE  IsSealed(Append(t, "SUM"), timed)
<1>1. OpenParts \in Nat
  BY DEF OpenParts
<1>2. CASE timed
  BY <1>1, <1>2, PartAdded DEF IsTimed, IsSealed, Part
<1>3. CASE ~timed
  BY <1>1, <1>3, PartAdded DEF IsOpen, IsSealed, Part
<1> QED
  BY <1>2, <1>3

LEMMA TailerSeals ==
  ASSUME NEW p, NEW timed \in BOOLEAN, IF timed THEN IsTimed(p.text) ELSE IsOpen(p.text)
  PROVE  /\ IsSealed(Tailer(p).text, timed)
         /\ Tailer(p).bytes = p.bytes - 1 + SUM_TEXT
<1>1. IsSealed(Append(p.text, "SUM"), timed)
  BY SumAdded
<1>2. Tailer(p).text = Append(p.text, "SUM") /\ Tailer(p).bytes = p.bytes - 1 + SUM_TEXT
  BY DEF Tailer
<1> DEFINE u == Tailer(p).text
           v == Append(p.text, "SUM")
<1>3. u = v /\ IsSealed(v, timed)
  BY <1>1, <1>2
<1> HIDE DEF u, v
<1>4. IsSealed(u, timed)
  BY <1>3
<1> QED
  BY <1>2, <1>4 DEF u

\* untailer() finds the one checksum there is, at the end.
LEMMA SumRemoved ==
  ASSUME NEW t, IsSealed(t, FALSE), NEW b
  PROVE  /\ IsOpen(Untailer([text |-> t, bytes |-> b]).text)
         /\ Untailer([text |-> t, bytes |-> b]).bytes = b - SUM_TEXT + 1
<1> DEFINE p == [text |-> t, bytes |-> b]
           n == Len(t)
<1>1. t \in Seq(Part) /\ n \in Nat /\ n >= 1 /\ DOMAIN t = 1 .. n
  <2> HIDE DEF Part
  <2>1. t \in Seq(Part)
    BY DEF IsSealed, Opens
  <2>2. n >= 1
    BY DEF IsSealed, OpenParts
  <2> QED
    BY <2>1, <2>2
<1>2. \A k \in 1 .. n : t[k] = "SUM" <=> k = n
  <2>1. CASE total > 0
    <3>1. n = 4 /\ t[1] = "HEADER" /\ t[2] = "TS" /\ t[3] = "BODY" /\ t[4] = "SUM"
      BY <2>1 DEF IsSealed, Opens, OpenParts
    <3>2. \A k \in 1 .. n : k = 1 \/ k = 2 \/ k = 3 \/ k = 4
      BY <3>1
    <3> HIDE DEF n
    <3> QED
      BY <3>1, <3>2
  <2>2. CASE ~(total > 0)
    <3>1. n = 3 /\ t[1] = "HEADER" /\ t[2] = "TS" /\ t[3] = "SUM"
      BY <2>2 DEF IsSealed, Opens, OpenParts
    <3>2. \A k \in 1 .. n : k = 1 \/ k = 2 \/ k = 3
      BY <3>1
    <3> HIDE DEF n
    <3> QED
      BY <3>1, <3>2
  <2> QED
    BY <2>1, <2>2
<1>3. {k \in DOMAIN p.text : p.text[k] = "SUM"} = {n}
  <2> HIDE DEF n, Part
  <2> QED
    BY <1>1, <1>2
<1>4. (CHOOSE k \in {n} : \A l \in {n} : l <= k) = n
  BY <1>1
<1>5. Untailer(p).text = SubSeq(t, 1, n - 1) /\ Untailer(p).bytes = b - SUM_TEXT + 1
  BY <1>3, <1>4 DEF Untailer
<1>6. /\ SubSeq(t, 1, n - 1) \in Seq(Part) /\ Len(SubSeq(t, 1, n - 1)) = n - 1
      /\ \A k \in 1 .. n - 1 : SubSeq(t, 1, n - 1)[k] = t[k]
  <2>1. \A k \in 1 .. n - 1 : t[k] \in Part
    <3> HIDE DEF Part
    <3> QED
      BY <1>1
  <2> HIDE DEF n, Part
  <2>2. n - 1 \in Int /\ 1 <= n - 1 /\ (n - 1) - 1 + 1 = n - 1
    BY <1>1 DEF IsSealed, OpenParts, n
  <2>3. \A k \in Int : 1 + k - 1 = k
    OBVIOUS
  <2> QED
    BY <2>1, <2>2, <2>3, SubSeqProperties
<1>7. n - 1 = OpenParts /\ OpenParts \in {2, 3} /\ (total > 0 => OpenParts = 3)
      /\ t[1] = "HEADER" /\ t[2] = "TS" /\ (total > 0 => t[3] = "BODY")
  BY DEF IsSealed, Opens, OpenParts
<1> HIDE DEF n, Part
<1>8. IsOpen(SubSeq(t, 1, n - 1))
  BY <1>6, <1>7 DEF IsOpen, Opens
<1> QED
  BY <1>5, <1>8, Zenon

\* buildPacket() leaves nothing out, for lack of space: all that a block holds fits the text.
LEMMA BuildWrites ==
  ASSUME RecordFits, NEW timed \in BOOLEAN, Build(timed)
  PROVE  TextIs(timed)' /\ bytes' < SERIALIZE_BUFFER_SIZE
<1>1. BUFFER_LENGTH \in Nat /\ SERIALIZE_BUFFER_SIZE \in Nat
      /\ 3 * BUFFER_LENGTH + 62 <= SERIALIZE_BUFFER_SIZE
  BY PacketAssumption DEF HEADER_TEXT, TS_TEXT, STAMP_TEXT, SUM_TEXT
<1>2. total \in Nat /\ chars \in Nat /\ chars <= 3 * BUFFER_LENGTH /\ (total = 0 <=> chars = 0)
  BY <1>1 DEF RecordFits
<1> DEFINE head == Dispatch(Header, "TS", TS_TEXT)
           body == Body(head)
           whole == IF timed THEN timeWriteStamp(body) ELSE body
<1>3. head.text = Append(<<"HEADER">>, "TS") /\ head.bytes = 22
  BY <1>1 DEF Dispatch, Fits, Header, HEADER_TEXT, TS_TEXT
<1>4. /\ head.text \in Seq(Part) /\ Len(head.text) = 2
      /\ head.text[1] = "HEADER" /\ head.text[2] = "TS"
  <2>1. <<"HEADER">> \in Seq(Part) /\ Len(<<"HEADER">>) = 1 /\ "TS" \in Part
    BY DEF Part
  <2> HIDE DEF Part
  <2>2. /\ Append(<<"HEADER">>, "TS") \in Seq(Part) /\ Len(Append(<<"HEADER">>, "TS")) = 2
        /\ Append(<<"HEADER">>, "TS")[1] = <<"HEADER">>[1]
        /\ Append(<<"HEADER">>, "TS")[2] = "TS"
    BY <2>1, AppendProperties
  <2>3. <<"HEADER">>[1] = "HEADER"
    OBVIOUS
  <2> QED
    BY <1>3, <2>2, <2>3
<1>5. Fits(head, chars)
  BY <1>1, <1>2, <1>3 DEF Fits
<1> HIDE DEF head
<1>6. IsOpen(body.text) /\ body.bytes = 22 + chars
  <2>1. CASE total > 0
    <3>1. chars # 0 /\ body.text = Append(head.text, "BODY") /\ body.bytes = 22 + chars
      BY <1>2, <1>3, <1>5, <2>1 DEF Body, Dispatch
    <3>2. /\ Append(head.text, "BODY") \in Seq(Part) /\ Len(Append(head.text, "BODY")) = 3
          /\ Append(head.text, "BODY")[3] = "BODY"
          /\ \A k \in 1 .. 2 : Append(head.text, "BODY")[k] = head.text[k]
      <4>1. "BODY" \in Part
        BY DEF Part
      <4> HIDE DEF Part
      <4>2. /\ Append(head.text, "BODY") \in Seq(Part)
            /\ Len(Append(head.text, "BODY")) = Len(head.text) + 1
            /\ Append(head.text, "BODY")[Len(head.text) + 1] = "BODY"
            /\ \A k \in 1 .. Len(head.text) : Append(head.text, "BODY")[k] = head.text[k]
        <5> DEFINE h == head.text
        <5>1. h \in Seq(Part)
          BY <1>4
        <5> HIDE DEF h
        <5>2. /\ Append(h, "BODY") \in Seq(Part)
              /\ Len(Append(h, "BODY")) = Len(h) + 1
              /\ Append(h, "BODY")[Len(h) + 1] = "BODY"
              /\ \A k \in 1 .. Len(h) : Append(h, "BODY")[k] = h[k]
          BY <4>1, <5>1, AppendProperties
        <5> QED
          BY <5>2 DEF h
      <4> QED
        BY <1>4, <4>2
    <3>3. OpenParts = 3
      BY <2>1 DEF OpenParts
    <3> HIDE DEF Part, body
    <3> QED
      BY <1>4, <3>1, <3>2, <3>3 DEF IsOpen, Opens
  <2>2. CASE ~(total > 0)
    <3>1. body = head
      BY <1>2, <2>2 DEF Body
    <3>2. OpenParts = 2 /\ chars = 0
      BY <1>2, <2>2 DEF OpenParts
    <3> HIDE DEF Part, body
    <3>3. IsOpen(head.text)
      BY <1>4, <2>2, <3>2 DEF IsOpen, Opens
    <3>4. head.bytes = 22 + chars
      BY <1>3, <3>2
    <3> QED
      BY <3>1, <3>3, <3>4
  <2> QED
    BY <2>1, <2>2
<1> HIDE DEF body
<1>7. /\ IF timed THEN IsTimed(whole.text) ELSE IsOpen(whole.text)
      /\ whole.bytes = 22 + chars + (IF timed THEN STAMP_TEXT ELSE 0)
  <2>1. Fits(body, STAMP_TEXT)
    BY <1>1, <1>2, <1>6 DEF Fits, STAMP_TEXT
  <2>2. CASE timed
    BY <1>6, <2>1, <2>2, TimeAdded DEF timeWriteStamp, Dispatch
  <2>3. CASE ~timed
    BY <1>2, <1>6, <2>3
  <2> QED
    BY <2>2, <2>3
<1> HIDE DEF whole
<1>8. /\ IsSealed(Tailer(whole).text, timed)
      /\ Tailer(whole).bytes = 22 + chars + (IF timed THEN STAMP_TEXT ELSE 0) - 1 + SUM_TEXT
  <2>1. IsSealed(Tailer(whole).text, timed) /\ Tailer(whole).bytes = whole.bytes - 1 + SUM_TEXT
    BY <1>7, TailerSeals
  <2>2. IsSealed(Tailer(whole).text, timed)
    BY <2>1
  <2>3. Tailer(whole).bytes = 22 + chars + (IF timed THEN STAMP_TEXT ELSE 0) - 1 + SUM_TEXT
    <3>1. Tailer(whole).bytes = whole.bytes - 1 + SUM_TEXT
      BY <2>1
    <3> QED
      BY ONLY <1>7, <3>1, <1>2 DEF STAMP_TEXT, SUM_TEXT
  <2> QED
    BY <2>2, <2>3
<1>9. text' = Tailer(whole).text /\ bytes' = Tailer(whole).bytes /\ sum' = Front(text')
  BY DEF Build, Hold, head, body, whole
<1>10. logged' = total /\ UNCHANGED <<offset, total, chars>>
  BY <1>5 DEF Build, LoggedOf, Serialized, head, recordVars
<1>11. IsSealed(text, timed)'
  BY <1>8, <1>9, <1>10 DEF IsSealed, Opens, OpenParts
<1>12. bytes' = HEADER_TEXT + TS_TEXT + chars' + (IF timed THEN STAMP_TEXT ELSE 0) - 1 + SUM_TEXT
  BY <1>8, <1>9, <1>10 DEF HEADER_TEXT, TS_TEXT
<1>13. bytes' < SERIALIZE_BUFFER_SIZE
  BY <1>1, <1>2, <1>8, <1>9 DEF STAMP_TEXT, SUM_TEXT
<1> QED
  BY <1>9, <1>10, <1>11, <1>12, <1>13 DEF TextIs

\* drainOneRecord() puts the time where buildPacket() would have put it.
LEMMA RestampWrites ==
  ASSUME RecordFits, TextIs(FALSE), Restamp
  PROVE  TextIs(TRUE)' /\ bytes' < SERIALIZE_BUFFER_SIZE
<1>1. BUFFER_LENGTH \in Nat /\ SERIALIZE_BUFFER_SIZE \in Nat
      /\ 3 * BUFFER_LENGTH + 62 <= SERIALIZE_BUFFER_SIZE
  BY PacketAssumption DEF HEADER_TEXT, TS_TEXT, STAMP_TEXT, SUM_TEXT
<1>2. total \in Nat /\ chars \in Nat /\ chars <= 3 * BUFFER_LENGTH
  BY <1>1 DEF RecordFits
<1> DEFINE p == Untailer([text |-> text, bytes |-> bytes])
           whole == timeWriteStamp(p)
<1>3. IsOpen(p.text) /\ p.bytes = 22 + chars
  <2>1. IsOpen(p.text) /\ p.bytes = bytes - SUM_TEXT + 1
    <3>1. IsSealed(text, FALSE)
      BY DEF TextIs
    <3> QED
      BY <3>1, SumRemoved
  <2>2. bytes - SUM_TEXT + 1 = 22 + chars
    BY <1>2 DEF TextIs, HEADER_TEXT, TS_TEXT, SUM_TEXT
  <2> QED
    BY <2>1, <2>2
<1> HIDE DEF p
<1>4. IsTimed(whole.text) /\ whole.bytes = 22 + chars + STAMP_TEXT
  <2>1. Fits(p, STAMP_TEXT)
    BY <1>1, <1>2, <1>3 DEF Fits, STAMP_TEXT
  <2> QED
    BY <1>3, <2>1, TimeAdded DEF timeWriteStamp, Dispatch
<1> HIDE DEF whole
<1>5. /\ IsSealed(Tailer(whole).text, TRUE)
      /\ Tailer(whole).bytes = 22 + chars + STAMP_TEXT - 1 + SUM_TEXT
  <2>1. IsSealed(Tailer(whole).text, TRUE) /\ Tailer(whole).bytes = whole.bytes - 1 + SUM_TEXT
    BY <1>4, TailerSeals
  <2>2. IsSealed(Tailer(whole).text, TRUE)
    BY <2>1
  <2>3. Tailer(whole).bytes = 22 + chars + STAMP_TEXT - 1 + SUM_TEXT
    <3>1. Tailer(whole).bytes = whole.bytes - 1 + SUM_TEXT
      BY <2>1
    <3> QED
      BY ONLY <1>4, <3>1, <1>2 DEF STAMP_TEXT, SUM_TEXT
  <2> QED
    BY <2>2, <2>3
<1>6. /\ text' = Tailer(whole).text /\ bytes' = Tailer(whole).bytes
      /\ sum' = Front(text') /\ UNCHANGED <<offset, total, chars, logged>>
  BY DEF Restamp, Hold, p, whole, recordVars
<1>7. IsSealed(text, TRUE)'
  BY <1>5, <1>6 DEF IsSealed, Opens, OpenParts
<1>8. bytes' = HEADER_TEXT + TS_TEXT + chars' + STAMP_TEXT - 1 + SUM_TEXT
  BY <1>5, <1>6 DEF HEADER_TEXT, TS_TEXT
<1>9. bytes' < SERIALIZE_BUFFER_SIZE
  BY <1>1, <1>2, <1>5, <1>6 DEF STAMP_TEXT, SUM_TEXT
<1> QED
  BY <1>6, <1>7, <1>8, <1>9 DEF TextIs

\* The calendar and the count of days go together.
Dates ==
  /\ day \in Nat
  /\ date[1] \in Nat /\ date[1] >= 2025 /\ date[2] \in 1 .. 12
  /\ date[3] \in 1 .. DaysIn(date[1], date[2])
  /\ timeCivilToEpoch(date[1], date[2], date[3]) = day

\* What each phase has written.
Stamped ==
  /\ phase = "fill" => text = << >> /\ bytes = 0 /\ stamped = Unstamped
  /\ phase = "untimed" => TextIs(FALSE) /\ bytes < SERIALIZE_BUFFER_SIZE /\ stamped = Unstamped
  /\ phase = "sent" => /\ TextIs(TRUE) /\ bytes < SERIALIZE_BUFFER_SIZE
                       /\ stamped = timeEpochToGps(day, second)

\* The inductive invariant of Packet.
PacketInv == Dates /\ RecordFits /\ Stamped

LEMMA PacketInitEstablishes == PacketInit => PacketInv
<1> SUFFICES ASSUME PacketInit PROVE PacketInv
  OBVIOUS
<1>1. BUFFER_LENGTH \in Nat /\ FirstDay = 20089
  BY PacketAssumption
<1>2. timeCivilToEpoch(2025, 1, 1) = 20089
  BY DEF timeCivilToEpoch
<1>3. Dates
  BY <1>1, <1>2 DEF PacketInit, Dates, DaysIn
<1>4. RecordFits /\ Stamped
  BY <1>1 DEF PacketInit, Empty, RecordFits, Stamped
<1> QED
  BY <1>3, <1>4 DEF PacketInv

LEMMA DayPassesPreserves ==
  ASSUME PacketInv, DayPasses
  PROVE  PacketInv'
<1>1. Dates'
  <2> DEFINE y == date[1] m == date[2] d == date[3]
  <2>1. /\ y \in Nat /\ y > 0 /\ y >= 2025 /\ m \in 1 .. 12 /\ d \in 1 .. DaysIn(y, m)
        /\ timeCivilToEpoch(y, m, d) = day /\ day \in Nat /\ day' = day + 1
    BY DEF PacketInv, Dates, DayPasses
  <2>2. DaysIn(y, m) \in 28 .. 31 /\ \A k \in 1 .. 12 : 1 \in 1 .. DaysIn(y, k)
    BY DEF DaysIn
  <2>3. date' = IF d < DaysIn(y, m) THEN <<y, m, d + 1>>
                ELSE IF m < 12 THEN <<y, m + 1, 1>> ELSE <<y + 1, 1, 1>>
    BY DEF DayPasses
  <2> HIDE DEF y, m, d
  <2>4. CASE d < DaysIn(y, m)
    <3>1. date'[1] = y /\ date'[2] = m /\ date'[3] = d + 1
      BY <2>3, <2>4
    <3>2. timeCivilToEpoch(y, m, d + 1) = day + 1 /\ d + 1 \in 1 .. DaysIn(y, m)
      BY <2>1, <2>2, <2>4, NextDay
    <3> QED
      BY <2>1, <3>1, <3>2 DEF Dates
  <2>5. CASE d = DaysIn(y, m) /\ m < 12
    <3>1. date'[1] = y /\ date'[2] = m + 1 /\ date'[3] = 1
      BY <2>1, <2>2, <2>3, <2>5
    <3>2. timeCivilToEpoch(y, m + 1, 1) = day + 1
      BY <2>1, <2>5, NextDay
    <3>3. m + 1 \in 1 .. 12 /\ 1 \in 1 .. DaysIn(y, m + 1)
      BY <2>1, <2>2, <2>5
    <3> QED
      BY <2>1, <3>1, <3>2, <3>3 DEF Dates
  <2>6. CASE d = DaysIn(y, m) /\ m = 12
    <3>1. date'[1] = y + 1 /\ date'[2] = 1 /\ date'[3] = 1
      BY <2>1, <2>2, <2>3, <2>6
    <3>2. timeCivilToEpoch(y + 1, 1, 1) = day + 1
      BY <2>1, <2>6, NextDay
    <3>3. 1 \in 1 .. DaysIn(y + 1, 1)
      BY DEF DaysIn
    <3> QED
      BY <2>1, <3>1, <3>2, <3>3 DEF Dates
  <2> QED
    BY <2>1, <2>2, <2>4, <2>5, <2>6
<1>2. RecordFits' /\ Stamped'
  BY DEF PacketInv, DayPasses, Empty, RecordFits, Stamped, recordVars, textVars
<1> QED
  BY <1>1, <1>2 DEF PacketInv

LEMMA PacketStepPreserves ==
  ASSUME PacketInv, [PacketNext]_packetVars
  PROVE  PacketInv'
<1>1. CASE DayPasses
  BY <1>1, DayPassesPreserves
<1>2. ASSUME UNCHANGED <<day, date>>
      PROVE  Dates'
  BY <1>2 DEF PacketInv, Dates
<1>3. CASE Add
  <2>1. PICK e \in Elements :
          /\ Room(e.bytes) /\ offset' = offset + HEAD_BYTES + e.bytes
          /\ total' = total + 1 /\ chars' = chars + e.text
    BY <1>3 DEF Add
  <2>2. /\ BUFFER_LENGTH \in Nat /\ e.bytes \in Nat /\ e.text \in Nat \ {0}
        /\ e.text <= 3 * (4 + e.bytes)
    BY PacketAssumption DEF HEAD_BYTES
  <2>3. RecordFits'
    <3>1. /\ offset \in Nat /\ total \in Nat /\ chars \in Nat /\ chars <= 3 * offset
          /\ offset < BUFFER_LENGTH - 4 - e.bytes
      BY <2>1 DEF PacketInv, RecordFits, Room, HEAD_BYTES
    <3>2. /\ offset' \in Nat /\ total' \in Nat /\ chars' \in Nat /\ chars' <= 3 * offset'
          /\ offset' <= BUFFER_LENGTH /\ total' # 0 /\ chars' # 0
      BY <2>1, <2>2, <3>1 DEF HEAD_BYTES
    <3> QED
      BY <1>3, <3>2 DEF Add, PacketInv, RecordFits
  <2>4. Stamped'
    BY <1>3 DEF Add, PacketInv, Stamped, textVars
  <2> QED
    BY <1>2, <1>3, <2>3, <2>4 DEF Add, PacketInv
<1>4. ASSUME NEW timed \in BOOLEAN, Build(timed)
      PROVE  PacketInv'
  <2>1. TextIs(timed)' /\ bytes' < SERIALIZE_BUFFER_SIZE
    BY <1>4, BuildWrites DEF PacketInv
  <2>2. RecordFits' /\ UNCHANGED <<day, date, second>>
    BY <1>4 DEF Build, PacketInv, RecordFits, recordVars
  <2>3. Stamped'
    <3>1. CASE timed
      <4>1. phase' = "sent" /\ stamped' = timeEpochToGps(day', second')
        BY <1>4, <2>2, <3>1 DEF Build
      <4>2. TextIs(TRUE)'
        BY <2>1, <3>1
      <4> QED
        BY <2>1, <4>1, <4>2 DEF Stamped
    <3>2. CASE ~timed
      <4>1. phase' = "untimed" /\ stamped' = Unstamped
        BY <1>4, <3>2 DEF Build
      <4>2. TextIs(FALSE)'
        BY <2>1, <3>2
      <4> QED
        BY <2>1, <4>1, <4>2 DEF Stamped
    <3> QED
      BY <3>1, <3>2
  <2> QED
    BY <1>2, <2>2, <2>3 DEF PacketInv
<1>5. CASE BuildTimed \/ BuildUntimed
  BY <1>4, <1>5 DEF BuildTimed, BuildUntimed
<1>6. CASE Restamp
  <2>1. TextIs(TRUE)' /\ bytes' < SERIALIZE_BUFFER_SIZE
    BY <1>6, RestampWrites DEF Restamp, PacketInv, Stamped
  <2>2. RecordFits' /\ UNCHANGED <<day, date, second>>
    BY <1>6 DEF Restamp, PacketInv, RecordFits, recordVars
  <2>3. phase' = "sent" /\ stamped' = timeEpochToGps(day', second')
    BY <1>6, <2>2 DEF Restamp
  <2>4. Stamped'
    BY <2>1, <2>3 DEF Stamped
  <2> QED
    BY <1>2, <2>2, <2>4 DEF PacketInv
<1>7. CASE Purge
  <2>1. RecordFits' /\ Stamped' /\ UNCHANGED <<day, date>>
    BY <1>7, PacketAssumption DEF Purge, RecordFits, Stamped
  <2> QED
    BY <1>2, <2>1 DEF PacketInv
<1>8. CASE UNCHANGED packetVars
  <2>1. RecordFits' /\ UNCHANGED <<day, date>>
    BY <1>8 DEF packetVars, recordVars, PacketInv, RecordFits
  <2>2. Stamped'
    BY <1>8 DEF packetVars, recordVars, textVars, PacketInv, Stamped, TextIs, IsSealed, Opens,
       OpenParts
  <2> QED
    BY <1>2, <2>1, <2>2 DEF PacketInv
<1> QED
  BY <1>1, <1>3, <1>5, <1>6, <1>7, <1>8 DEF PacketNext

LEMMA PacketInductive == PacketSpec => []PacketInv
<1>1. PacketInv /\ [PacketNext]_packetVars => PacketInv'
  BY PacketStepPreserves
<1> QED
  BY PacketInitEstablishes, <1>1, PTL DEF PacketSpec

\* Whatever the block of a record holds, within its bounds, reaches the packet whole, and the
\* text keeps room for the time drainOneRecord() may add: for every kind of element whose
\* text takes at most two characters a byte of the block, and every pair of sizes that the
\* assumption on the two buffers admits.
THEOREM RecordsWhole == PacketSpec => []PacketsWhole
<1>1. PacketInv => PacketsWhole
  <2> SUFFICES ASSUME PacketInv PROVE PacketsWhole
    OBVIOUS
  <2>1. offset <= BUFFER_LENGTH
    BY DEF PacketInv, RecordFits
  <2>2. ASSUME NEW timed \in BOOLEAN, TextIs(timed)
        PROVE  logged = total /\ (total > 0) = (3 \in DOMAIN text /\ text[3] = "BODY")
    <3>1. logged = total /\ IsSealed(text, timed)
      BY <2>2 DEF TextIs
    <3>2. DOMAIN text = 1 .. Len(text) /\ Len(text) \in Nat
      <4> HIDE DEF Part
      <4> QED
        BY <3>1 DEF IsSealed, Opens
    <3>3. CASE total > 0
      <4>1. Len(text) >= 3 /\ text[3] = "BODY"
        BY <3>1, <3>2, <3>3 DEF IsSealed, Opens, OpenParts
      <4> QED
        BY <3>1, <3>2, <3>3, <4>1
    <3>4. CASE ~(total > 0)
      <4>1. text[3] # "BODY"
        BY <3>1, <3>2, <3>4 DEF IsSealed, OpenParts
      <4> QED
        BY <3>1, <3>4, <4>1
    <3> QED
      BY <3>3, <3>4
  <2>3. phase # "fill" => (TextIs(FALSE) \/ TextIs(TRUE)) /\ bytes < SERIALIZE_BUFFER_SIZE
    BY DEF PacketInv, RecordFits, Stamped
  <2> QED
    BY <2>1, <2>2, <2>3 DEF PacketsWhole
<1> QED
  BY PacketInductive, <1>1, PTL

\* A packet with the time has it once, and one checksum of all that precedes it, on both of
\* its ways: buildPacket() with an anchor, or untailer() and tailer() again when the spool
\* is drained.
THEOREM SealedAndStamped == PacketSpec => []SealedOnce
<1>1. PacketInv => SealedOnce
  <2> SUFFICES ASSUME PacketInv, phase = "sent"
               PROVE  /\ Len(text) >= 2
                      /\ \A n \in DOMAIN text : /\ text[n] = "TIME" <=> n = Len(text) - 1
                                                /\ text[n] = "SUM" <=> n = Len(text)
                      /\ sum = Front(text)
                      /\ bytes = HEADER_TEXT + TS_TEXT + chars + STAMP_TEXT - 1 + SUM_TEXT
    BY DEF SealedOnce
  <2>1. IsSealed(text, TRUE) /\ sum = Front(text)
        /\ bytes = HEADER_TEXT + TS_TEXT + chars + STAMP_TEXT - 1 + SUM_TEXT
    BY DEF PacketInv, Stamped, TextIs
  <2>2. DOMAIN text = 1 .. Len(text) /\ Len(text) \in Nat
    <3> HIDE DEF Part
    <3> QED
      BY <2>1 DEF IsSealed, Opens
  <2>3. CASE total > 0
    <3>1. Len(text) = 5 /\ text[1] = "HEADER" /\ text[2] = "TS" /\ text[3] = "BODY"
          /\ text[4] = "TIME" /\ text[5] = "SUM"
      BY <2>1, <2>3 DEF IsSealed, Opens, OpenParts
    <3>2. \A n \in DOMAIN text : n \in {1, 2, 3, 4, 5}
      BY <2>2, <3>1
    <3> QED
      BY <2>1, <3>1, <3>2
  <2>4. CASE ~(total > 0)
    <3>1. Len(text) = 4 /\ text[1] = "HEADER" /\ text[2] = "TS" /\ text[3] = "TIME"
          /\ text[4] = "SUM"
      BY <2>1, <2>4 DEF IsSealed, Opens, OpenParts
    <3>2. \A n \in DOMAIN text : n \in {1, 2, 3, 4}
      BY <2>2, <3>1
    <3> QED
      BY <2>1, <3>1, <3>2
  <2> QED
    BY <2>3, <2>4
<1> QED
  BY PacketInductive, <1>1, PTL

\* days_from_civil and civil_from_days agree with the calendar on the wall, leap years and
\* centuries included, for every day from January 1st, 2025 on.
THEOREM DatesAreCivil == PacketSpec => []CalendarExact
<1>1. PacketInv => CalendarExact
  <2> SUFFICES ASSUME PacketInv PROVE CalendarExact
    OBVIOUS
  <2>1. timeCivilToEpoch(date[1], date[2], date[3]) = day
    BY DEF PacketInv, Dates
  <2>2. stamped = Unstamped \/ stamped = timeEpochToGps(day, second)
    BY DEF PacketInv, RecordFits, Stamped
  <2>3. second \in Nat
    BY PacketAssumption DEF PacketInv, RecordFits
  <2>4. GpsDate(day) = date[3] * 10000 + date[2] * 100 + (date[1] % 100)
    <3>1. date[1] \in Nat /\ date[1] >= 1970 /\ date[2] \in 1 .. 12 /\ day \in Nat
          /\ date[3] \in 1 .. DaysIn(date[1], date[2])
      BY DEF PacketInv, Dates
    <3> QED
      BY <2>1, <3>1, DateRead
  <2>5. GpsTime(second) \div 100 = (second \div 3600) * 10000
            + ((second % 3600) \div 60) * 100 + (second % 60)
    BY <2>3, TimeRead
  <2>6. stamped # Unstamped => stamped.date = GpsDate(day) /\ stamped.time = GpsTime(second)
    BY <2>2 DEF timeEpochToGps
  <2> QED
    BY <2>1, <2>4, <2>5, <2>6 DEF CalendarExact
<1> QED
  BY PacketInductive, <1>1, PTL

=============================================================================
