------------------------------ MODULE GnssFeed ------------------------------
(***************************************************************************)
(* Positions: the two receivers (a u-blox module on a UART, an internal    *)
(* one behind the co-processor), gpsGetData() that keeps the last reading, *)
(* processGPS() that puts a position into the record, and the watchdog of  *)
(* process() that initialises the receiver again.                          *)
(*                                                                         *)
(* The unit of time is a collection cycle; a place is a number on a line,  *)
(* one apart what processGPS() takes for a plausible move. That a dated    *)
(* reading feeds the time anchor is module TimeAnchor's.                   *)
(***************************************************************************)
EXTENDS Integers

CONSTANTS
  MaxPlace,   \* the car moves between the places 1 .. MaxPlace
  MaxMove,    \* bound: places it moves by between two cycles
  Latch,      \* 0.1 degree: gpsGetData() takes no reading that far from its last
  ResetAfter, \* GNSS_RESET_TIMEOUT
  ColdStart,  \* cycles a receiver needs for a fix after its power was cut
  ResetWrap   \* 256: gnssResets is a byte

\* A cold start of 94 to 278 s was measured, the timeout is 300 s.
ASSUME GnssAssumption ==
  /\ {MaxPlace, MaxMove, Latch, ResetAfter} \subseteq Nat \ {0}
  /\ ColdStart \in 0 .. ResetAfter - 1 /\ ResetWrap \in Nat /\ ResetWrap > 1

Place == 1 .. MaxPlace
Nowhere == 0
NONE == 0
INTERNAL == 1
EXTERNAL == 2

VARIABLES
  place,   \* where the car is
  sky,     \* receivers see enough of the sky for a fix
  bridge,  \* the co-processor answers
  wired,   \* the module is there
  hung,    \* ... and emits nothing until its power is cut
  cold,    \* cycles under the sky the receiver in use still needs
  source,  \* gnssSource
  ready, online,   \* STATE_GPS_READY, STATE_GPS_ONLINE
  gd,      \* the position in gpsData
  seen,    \* its time is lastGPStime
  last,    \* lastGPSLat, lastGPSLng
  idle,    \* cycles since lastGPStick
  resets,  \* gnssResets
  fixed,   \* history: the last cycle put a position into its record
  warmed   \* history: a warm re-init was tried since the last fix

worldVars == <<place, sky, bridge, wired>>
receiverVars == <<hung, cold, source, ready>>
feedVars == <<gd, seen, last>>
watchVars == <<online, idle, resets, fixed, warmed>>
vars == <<worldVars, receiverVars, feedVars, watchVars>>

Init ==
  /\ place \in Place
  /\ sky \in BOOLEAN /\ bridge \in BOOLEAN /\ wired \in BOOLEAN
  /\ hung = FALSE /\ cold = ColdStart
  /\ source = IF wired THEN EXTERNAL ELSE IF bridge THEN INTERNAL ELSE NONE
  /\ ready = (wired \/ bridge) /\ online = FALSE
  /\ gd = Nowhere /\ seen = TRUE /\ last = Nowhere
  /\ idle = 0 /\ resets = 0 /\ fixed = FALSE /\ warmed = FALSE

-----------------------------------------------------------------------------
(* The world.                                                              *)

Distance(a, b) == IF a < b THEN b - a ELSE a - b

Drive ==
  /\ place' \in {p \in Place : Distance(p, place) <= MaxMove}
  /\ UNCHANGED <<sky, bridge, wired, receiverVars, feedVars, watchVars>>

SkyChanges ==
  /\ sky' = ~sky
  /\ UNCHANGED <<place, bridge, wired, receiverVars, feedVars, watchVars>>

BridgeChanges ==
  /\ bridge' = ~bridge
  /\ UNCHANGED <<place, sky, wired, receiverVars, feedVars, watchVars>>

ModuleHangs ==
  /\ wired /\ source = EXTERNAL /\ hung' = TRUE
  /\ UNCHANGED <<worldVars, cold, source, ready, feedVars, watchVars>>

World == Drive \/ SkyChanges \/ BridgeChanges \/ ModuleHangs

-----------------------------------------------------------------------------
(* gpsGetData() and processGPS(), on the reading of this cycle.            *)

Silence == [at |-> Nowhere, new |-> FALSE, any |-> FALSE]
Reading(p, new) == [at |-> p, new |-> new, any |-> TRUE]

Heard == (source = EXTERNAL /\ wired /\ ~hung) \/ (source = INTERNAL /\ bridge)

\* The module is silent without a fix, or repeats a time; the internal receiver then gives
\* the time without a position.
Readings ==
  IF Heard /\ sky /\ cold = 0 THEN {Reading(place, TRUE)}
  ELSE {Silence} \cup (IF source = INTERNAL /\ Heard THEN {Reading(Nowhere, TRUE)} ELSE {})

Plausible(r) ==
  gd = Nowhere \/ (r.at # Nowhere /\ Distance(r.at, gd) < Latch)

\* gpsGetData(): is the reading taken?
Taken(r) == ready /\ r.any /\ Plausible(r)
Held(r) == IF Taken(r) THEN r.at ELSE gd
\* The internal receiver's time is stored before the position is looked at.
Dated(r) == IF r.new /\ ready /\ (Taken(r) \/ source = INTERNAL) THEN FALSE ELSE seen

\* processGPS() goes on to the position, also when no receiver is ready.
Looked(r) == (ready => Taken(r)) /\ ~Dated(r) /\ Held(r) # Nowhere
Jump(r) == last # Nowhere /\ Distance(Held(r), last) > 1
Success(r) == Looked(r) /\ ~Jump(r)

\* Slip: a jump leaves the position to compare with as it is.
LastKept(r) == IF Success(r) THEN Held(r) ELSE last
LastAfter(r) == IF ~Looked(r) THEN last ELSE IF Jump(r) THEN Nowhere ELSE Held(r)

ProcessGPS(r) ==
  /\ gd' = Held(r)
  /\ seen' = (Success(r) \/ Dated(r))
  /\ last' = LastAfter(r)

WarmsUp == cold' = IF sky /\ cold > 0 /\ Heard THEN cold - 1 ELSE cold

-----------------------------------------------------------------------------
(* The end of the cycle: the watchdog.                                     *)

\* Slip: the next outage starts where the last one ended.
FixKeepsResets ==
  \E r \in Readings :
    /\ Success(r) /\ ProcessGPS(r)
    /\ online' = TRUE /\ idle' = 0 /\ fixed' = TRUE /\ warmed' = FALSE
    /\ WarmsUp
    /\ UNCHANGED <<worldVars, hung, source, ready, resets>>
Fix ==
  \E r \in Readings :
    /\ Success(r) /\ ProcessGPS(r)
    /\ online' = TRUE /\ idle' = 0 /\ resets' = 0 /\ fixed' = TRUE /\ warmed' = FALSE
    /\ WarmsUp
    /\ UNCHANGED <<worldVars, hung, source, ready>>

\* Slip: the watchdog bites a cycle late.
NoFixLate ==
  \E r \in Readings :
    /\ ~Success(r) /\ ProcessGPS(r)
    /\ idle <= ResetAfter /\ idle' = idle + 1 /\ fixed' = FALSE
    /\ WarmsUp
    /\ UNCHANGED <<worldVars, hung, source, ready, online, resets, warmed>>
NoFix ==
  \E r \in Readings :
    /\ ~Success(r) /\ ProcessGPS(r)
    /\ idle < ResetAfter /\ idle' = idle + 1 /\ fixed' = FALSE
    /\ WarmsUp
    /\ UNCHANGED <<worldVars, hung, source, ready, online, resets, warmed>>

\* initGPS(): the module if it emits anything, else it is switched off for good and the
\* internal receiver is tried. `cut`: gpsEnd() has switched off the receiver in use.
InitGPS(cut) ==
  LET revived == wired /\ (~hung \/ cut)
      to == IF revived THEN EXTERNAL ELSE IF bridge THEN INTERNAL ELSE NONE
  IN
  /\ source' = to
  /\ ready' = (to # NONE)
  /\ cold' = IF to = source /\ ~cut THEN cold ELSE ColdStart
  /\ hung' = FALSE

\* Slip: the watchdog does not wait after a reset.
RestartAtOnce == idle' = idle
Restart == idle' = 0

Watchdog ==
  \E r \in Readings :
    /\ ~Success(r) /\ ProcessGPS(r)
    /\ idle = ResetAfter
    /\ InitGPS(resets > 0)
    /\ Restart
    /\ resets' = (resets + 1) % ResetWrap
    /\ online' = FALSE /\ fixed' = FALSE
    /\ warmed' = (warmed \/ resets = 0)
    /\ UNCHANGED worldVars

Cycle == Fix \/ NoFix \/ Watchdog

Next == Cycle \/ World
Spec == Init /\ [][Next]_vars
\* The loop goes on.
FairSpec == Spec /\ WF_vars(Cycle)

-----------------------------------------------------------------------------
TypeOK ==
  /\ place \in Place
  /\ sky \in BOOLEAN /\ bridge \in BOOLEAN /\ wired \in BOOLEAN /\ hung \in BOOLEAN
  /\ cold \in 0 .. ColdStart /\ source \in {NONE, INTERNAL, EXTERNAL}
  /\ ready \in BOOLEAN /\ online \in BOOLEAN /\ seen \in BOOLEAN
  /\ fixed \in BOOLEAN /\ warmed \in BOOLEAN
  /\ gd \in Place \cup {Nowhere} /\ last \in Place \cup {Nowhere}
  /\ idle \in 0 .. ResetAfter /\ resets \in 0 .. ResetWrap - 1
  /\ ready = (source # NONE)

\* "Only a module that a warm re-init did not revive gets its power cut": a receiver loses
\* its ephemeris only in an outage in which a warm re-init was tried.
WarmFirst == [][cold' > cold => warmed']_vars

\* Under an open sky, with a receiver that can be had, positions come again, whatever
\* happened before: neither filter and no reset keeps them out for ever.
GnssComesBack ==
  (<>[](sky /\ bridge) \/ <>[](sky /\ wired /\ ~hung)) => []<>fixed

=============================================================================
