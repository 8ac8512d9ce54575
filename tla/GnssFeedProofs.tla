---------------------------- MODULE GnssFeedProofs ----------------------------
(***************************************************************************)
(* The watchdog of process() never costs a receiver its ephemeris before a *)
(* warm re-initialization was tried, for every timeout, cold start and     *)
(* width of the reset counter.                                             *)
(***************************************************************************)
EXTENDS GnssFeed, TLAPS

\* A count of resets says that this outage has seen the first, warm one. The count may wrap
\* to 0 behind it; the next reset is then warm again.
Counted == resets > 0 => warmed

IInv == TypeOK /\ Counted

-----------------------------------------------------------------------------
\* The readings a cycle may get are the place of the car, or none.
LEMMA ReadingTypes ==
  ASSUME TypeOK, NEW r \in Readings
  PROVE  r.at \in Place \cup {Nowhere}
<1>1. r \in {Reading(place, TRUE), Silence, Reading(Nowhere, TRUE)}
  BY DEF Readings
<1> QED
  BY <1>1 DEF TypeOK, Reading, Silence

\* gpsGetData() and processGPS() keep the types of what they remember.
LEMMA FeedTypes ==
  ASSUME TypeOK, NEW r \in Readings, ProcessGPS(r)
  PROVE  gd' \in Place \cup {Nowhere} /\ last' \in Place \cup {Nowhere} /\ seen' \in BOOLEAN
<1>1. Held(r) \in Place \cup {Nowhere}
  BY ReadingTypes DEF Held, TypeOK
<1>2. LastAfter(r) \in Place \cup {Nowhere}
  BY <1>1 DEF LastAfter, TypeOK
<1>3. (Success(r) \/ Dated(r)) \in BOOLEAN
  OBVIOUS
<1> QED
  BY <1>1, <1>2, <1>3 DEF ProcessGPS

\* The receiver in use gets no colder as it warms up.
LEMMA WarmingTypes ==
  ASSUME TypeOK, WarmsUp
  PROVE  cold' \in 0 .. ColdStart /\ cold' <= cold
BY GnssAssumption DEF TypeOK, WarmsUp

\* initGPS() leaves the receiver it chose, with the time its almanac and ephemeris need.
LEMMA InitGPSTypes ==
  ASSUME TypeOK, NEW cut \in BOOLEAN, InitGPS(cut)
  PROVE  /\ source' \in {NONE, INTERNAL, EXTERNAL}
         /\ ready' \in BOOLEAN /\ ready' = (source' # NONE)
         /\ hung' \in BOOLEAN /\ cold' \in 0 .. ColdStart
<1>1. source' \in {NONE, INTERNAL, EXTERNAL}
  BY Zenon DEF InitGPS
<1>2. ready' = (source' # NONE)
  BY Zenon DEF InitGPS
<1>3. ready' \in BOOLEAN
  BY <1>2
<1>4. hung' \in BOOLEAN
  BY DEF InitGPS
<1>5. cold' \in {cold, ColdStart}
  BY Zenon DEF InitGPS
<1>6. cold' \in 0 .. ColdStart
  BY <1>5, GnssAssumption DEF TypeOK
<1> QED
  BY <1>1, <1>2, <1>3, <1>4, <1>6

\* Nothing has happened yet.
LEMMA InitEstablishes == Init => IInv
<1> SUFFICES ASSUME Init
             PROVE  IInv
  OBVIOUS
<1>1. source \in {NONE, INTERNAL, EXTERNAL} /\ ready \in BOOLEAN /\ ready = (source # NONE)
  BY DEF Init, NONE, INTERNAL, EXTERNAL
<1>2. TypeOK
  <2>1. cold \in 0 .. ColdStart /\ idle \in 0 .. ResetAfter /\ resets \in 0 .. ResetWrap - 1
    BY GnssAssumption DEF Init
  <2>2. online \in BOOLEAN /\ seen \in BOOLEAN /\ fixed \in BOOLEAN /\ warmed \in BOOLEAN /\ hung \in BOOLEAN
    BY DEF Init
  <2>3. gd \in Place \cup {Nowhere} /\ last \in Place \cup {Nowhere}
    BY DEF Init
  <2> QED
    BY <1>1, <2>1, <2>2, <2>3 DEF Init, TypeOK
<1>3. Counted
  BY DEF Init, Counted
<1> QED
  BY <1>2, <1>3 DEF IInv

\* Every cycle and whatever happens in the world preserves the invariant.
LEMMA StepPreserves ==
  ASSUME IInv, [Next]_vars
  PROVE  IInv'
<1> USE GnssAssumption
<1> USE DEF IInv, worldVars, receiverVars, feedVars, watchVars
<1>1. CASE World
  <2>1. CASE Drive
    BY <2>1 DEF Drive, TypeOK, Counted
  <2>2. CASE SkyChanges
    BY <2>2 DEF SkyChanges, TypeOK, Counted
  <2>3. CASE BridgeChanges
    BY <2>3 DEF BridgeChanges, TypeOK, Counted
  <2>4. CASE ModuleHangs
    BY <2>4 DEF ModuleHangs, TypeOK, Counted
  <2> QED
    BY <1>1, <2>1, <2>2, <2>3, <2>4 DEF World
<1>2. CASE Fix
  <2>1. PICK r \in Readings : ProcessGPS(r)
    BY <1>2 DEF Fix
  <2>2. WarmsUp /\ UNCHANGED <<worldVars, hung, source, ready>>
        /\ online' = TRUE /\ idle' = 0 /\ resets' = 0 /\ fixed' = TRUE /\ warmed' = FALSE
    BY <1>2 DEF Fix
  <2>3. gd' \in Place \cup {Nowhere} /\ last' \in Place \cup {Nowhere} /\ seen' \in BOOLEAN
    BY <2>1, FeedTypes
  <2>4. cold' \in 0 .. ColdStart
    BY <2>2, WarmingTypes
  <2>5. online' \in BOOLEAN /\ fixed' \in BOOLEAN /\ warmed' \in BOOLEAN
    BY <2>2
  <2>6. idle' \in 0 .. ResetAfter /\ resets' \in 0 .. ResetWrap - 1 /\ ~(resets' > 0)
    BY <2>2
  <2>7. /\ place' = place /\ sky' = sky /\ bridge' = bridge /\ wired' = wired
        /\ hung' = hung /\ source' = source /\ ready' = ready
    BY <2>2
  <2> QED
    BY <2>3, <2>4, <2>5, <2>6, <2>7 DEF TypeOK, Counted
<1>3. CASE NoFix
  <2>1. PICK r \in Readings : ProcessGPS(r)
    BY <1>3 DEF NoFix
  <2>2. WarmsUp /\ UNCHANGED <<worldVars, hung, source, ready, online, resets, warmed>>
        /\ idle < ResetAfter /\ idle' = idle + 1 /\ fixed' = FALSE
    BY <1>3 DEF NoFix
  <2>3. gd' \in Place \cup {Nowhere} /\ last' \in Place \cup {Nowhere} /\ seen' \in BOOLEAN
    BY <2>1, FeedTypes
  <2>4. cold' \in 0 .. ColdStart
    BY <2>2, WarmingTypes
  <2>5. fixed' \in BOOLEAN
    BY <2>2
  <2>6. idle' \in 0 .. ResetAfter
    BY <2>2 DEF TypeOK
  <2>7. /\ place' = place /\ sky' = sky /\ bridge' = bridge /\ wired' = wired
        /\ hung' = hung /\ source' = source /\ ready' = ready
        /\ online' = online /\ resets' = resets /\ warmed' = warmed
    BY <2>2
  <2> QED
    BY <2>3, <2>4, <2>5, <2>6, <2>7 DEF TypeOK, Counted
<1>4. CASE Watchdog
  <2>1. PICK r \in Readings : ProcessGPS(r)
    BY <1>4 DEF Watchdog
  <2>2. InitGPS(resets > 0) /\ UNCHANGED worldVars
        /\ idle' = 0 /\ resets' = (resets + 1) % ResetWrap /\ online' = FALSE
        /\ fixed' = FALSE /\ warmed' = (warmed \/ resets = 0)
    BY <1>4 DEF Watchdog, Restart
  <2>3. gd' \in Place \cup {Nowhere} /\ last' \in Place \cup {Nowhere} /\ seen' \in BOOLEAN
    BY <2>1, FeedTypes
  <2>4. /\ source' \in {NONE, INTERNAL, EXTERNAL}
        /\ ready' \in BOOLEAN /\ ready' = (source' # NONE)
        /\ hung' \in BOOLEAN /\ cold' \in 0 .. ColdStart
    <3>1. (resets > 0) \in BOOLEAN
      OBVIOUS
    <3> QED
      BY <2>2, <3>1, InitGPSTypes
  <2>5. resets' \in 0 .. ResetWrap - 1 /\ idle' \in 0 .. ResetAfter
    BY <2>2 DEF TypeOK
  <2>6. warmed' \in BOOLEAN
    <3>1. (warmed \/ resets = 0) \in BOOLEAN
      OBVIOUS
    <3> QED
      BY <2>2, <3>1
  <2>7. Counted'
    <3>1. resets = 0 \/ resets > 0
      BY DEF TypeOK
    <3>2. resets = 0 \/ warmed
      BY <3>1 DEF Counted
    <3>3. warmed'
      BY Zenon, <2>2, <3>2
    <3> QED
      BY <3>3 DEF Counted
  <2> QED
    BY <2>2, <2>3, <2>4, <2>5, <2>6, <2>7 DEF TypeOK
<1>5. CASE UNCHANGED vars
  BY <1>5 DEF vars, TypeOK, Counted
<1> QED
  BY <1>1, <1>2, <1>3, <1>4, <1>5 DEF Next, Cycle

-----------------------------------------------------------------------------
\* The invariant holds of every drive.
THEOREM Inductive == Spec => []IInv
<1>1. Init => IInv
  BY InitEstablishes
<1>2. IInv /\ [Next]_vars => IInv'
  BY StepPreserves
<1> QED
  BY <1>1, <1>2, PTL DEF Spec

\* The variables of the feed and of the watchdog keep their types; a receiver is ready just
\* when there is one.
THEOREM TypeCorrect == Spec => []TypeOK
<1>1. IInv => TypeOK
  BY DEF IInv
<1> QED
  BY <1>1, Inductive, PTL

\* process(): "only a module that a warm re-init did not revive gets its power cut". A
\* receiver starts cold only in an outage that has seen a warm re-initialization, also when
\* gnssResets has wrapped.
THEOREM WarmIsTriedFirst == Spec => WarmFirst
<1>1. ASSUME IInv, [Next]_vars
      PROVE  cold' > cold => warmed'
  <2>1. CASE World \/ UNCHANGED vars
    BY <2>1, <1>1 DEF World, Drive, SkyChanges, BridgeChanges, ModuleHangs, vars, receiverVars, IInv, TypeOK
  <2>2. CASE Fix \/ NoFix
    <3>1. WarmsUp
      BY <2>2 DEF Fix, NoFix
    <3> QED
      BY <1>1, <3>1, WarmingTypes, GnssAssumption DEF IInv, TypeOK
  <2>3. CASE Watchdog
    <3>1. warmed' = (warmed \/ resets = 0)
      BY <2>3 DEF Watchdog
    <3>2. resets = 0 \/ resets > 0
      BY <1>1 DEF IInv, TypeOK
    <3>3. resets = 0 \/ warmed
      BY <1>1, <3>2 DEF IInv, Counted
    <3> QED
      BY Zenon, <3>1, <3>3
  <2> QED
    BY <1>1, <2>1, <2>2, <2>3 DEF Next, Cycle
<1> QED
  BY <1>1, Inductive, PTL DEF Spec, WarmFirst

=============================================================================
