------------------------------ MODULE TimeAnchor ------------------------------
(***************************************************************************)
(* The UTC time anchor: one (source, utc, tick) triple, written by loop()  *)
(* (GNSS) and by telemetry() (modem clock, server login reply), read by    *)
(* telemetry() whenever it dates a record. portENTER_CRITICAL is the lock  *)
(* `mux`; inside it each task reads and writes field by field.             *)
(*                                                                         *)
(* Time runs in ticks, Second of them to a second. The device boots at the *)
(* true instant Base (in ticks), so a clock reading can be right or wrong. *)
(***************************************************************************)
EXTENDS Integers

CONSTANTS
  Second,        \* ticks in a second
  Stale,         \* ANCHOR_STALE_US, in ticks
  Base,          \* true UTC of tick 0, in ticks
  MinEpoch, MaxEpoch,   \* the plausibility window, in seconds
  ModemReadings, \* seconds AT+CCLK? may answer, right or wrong
  MaxTick        \* bound: how long a boot is followed

ASSUME AnchorAssumption ==
  /\ Second \in Nat \ {0}
  /\ Stale \in Nat
  /\ Base \in Nat
  /\ MinEpoch \in Nat /\ MaxEpoch \in Nat
  /\ MinEpoch * Second <= Base
  /\ Base + MaxTick < MaxEpoch * Second
  /\ ModemReadings \subseteq Nat
  /\ MaxTick \in Nat

Tick == 0 .. MaxTick
Never == -1
Rank == 0 .. 3
NONE == 0   \* TIME_SRC_NONE, _MODEM, _SERVER, _GPS
MODEM == 1
SERVER == 2
GPS == 3

Task == {"loop", "telemetry"}

-----------------------------------------------------------------------------
(* The arithmetic of timeAnchorResolve(), in C's division.                 *)

\* a / b and a % b of C, for b > 0: the quotient is rounded toward zero.
CDiv(a, b) == IF a >= 0 THEN a \div b ELSE -((-a) \div b)
CMod(a, b) == a - b * CDiv(a, b)

\* Slip: the quotient is used as C rounds it.
DeltaTruncated(delta) == CDiv(delta, Second)

\* `deltaSec`, with the correction that makes it the floor.
DeltaSeconds(delta) ==
  IF CMod(delta, Second) < 0 THEN CDiv(delta, Second) - 1 ELSE CDiv(delta, Second)

TrueSecond(t) == (Base + t) \div Second
Plausible(sec) == MinEpoch <= sec /\ sec <= MaxEpoch

-----------------------------------------------------------------------------
VARIABLES
  now,                   \* timeTicks()
  src, utc, tick,        \* s_src, s_utc, s_tick
  mux,                   \* s_mux: the task inside, or "free"
  pc,                    \* where each task is in timeAnchorSet()/Resolve()
  arg,                   \* the reading a task offers
  prev,                  \* `prev`, the source it replaced
  reading,               \* what timeAnchorResolve() has copied out, and for which tick
  stamp,                 \* the stamp about to be written into a packet
  clockSets,             \* calls of settimeofday()
  fix, registered,       \* GNSS has the time; the modem is registered
  held,                  \* the instant gd->date and gd->time tell, unless lastGPStime is that
  late,                  \* history: how old the reading in the anchor was when it was offered
  gpsAt                  \* history: tick of the newest GPS reading offered and taken

anchor == <<src, utc, tick, late>>
gnss == <<fix, held>>
vars ==
  <<now, anchor, mux, pc, arg, prev, reading, stamp, clockSets, gnss, registered, gpsAt>>

Offers == [src : Rank, utc : Nat, tick : Tick, late : Tick]
NoOffer == [src |-> NONE, utc |-> 0, tick |-> 0, late |-> 0]
NoReading == [src |-> NONE, utc |-> 0, tick |-> 0, late |-> 0, asked |-> 0]
NoStamp == [src |-> NONE, sec |-> 0, late |-> 0, asked |-> 0]

Init ==
  /\ now = 0
  /\ src = NONE /\ utc = 0 /\ tick = 0 /\ late = 0
  /\ mux = "free"
  /\ pc = [t \in Task |-> "idle"]
  /\ arg = [t \in Task |-> NoOffer]
  /\ prev = [t \in Task |-> NONE]
  /\ reading = NoReading
  /\ stamp = NoStamp
  /\ clockSets = 0
  /\ fix = FALSE /\ held = Never
  /\ registered = FALSE
  /\ gpsAt = Never

Goto(t, label) == pc' = [pc EXCEPT ![t] = label]

\* Slip: the section is entered without the lock.
EnterUnlocked(t) == UNCHANGED mux
Enter(t) == mux = "free" /\ mux' = t
Leave(t) == mux' = "free"

-----------------------------------------------------------------------------
(* Where readings come from.                                               *)

\* A clock that tells the second of the instant `told` is read now.
Offer(t, source, sec, told) ==
  /\ pc[t] = "idle"
  /\ arg' = [arg EXCEPT ![t] = [src |-> source, utc |-> sec, tick |-> now, late |-> now - told]]
  /\ Goto(t, "offer")

\* processGPS(): any sentence that carried a date, position or not. The time counts as seen,
\* in lastGPStime, only if the position passes.
GpsReading ==
  /\ fix
  /\ held' \in {now, Never}
  /\ Offer("loop", GPS, TrueSecond(now), now)
  /\ UNCHANGED <<now, anchor, mux, prev, reading, stamp, clockSets, fix, registered, gpsAt>>

\* gpsGetData() through the link: date and time are stored before the position is refused.
GpsWithheld ==
  /\ fix /\ pc["loop"] = "idle"
  /\ held' = now
  /\ UNCHANGED <<now, anchor, mux, pc, arg, prev, reading, stamp, clockSets, fix, registered, gpsAt>>

\* Nothing new is decoded, or GPS_READY is clear and nothing is asked for: what gd held before
\* is offered again, with the tick of this call, as long as lastGPStime is another.
GpsAgain ==
  /\ held # Never
  /\ held' \in {held, Never}
  /\ Offer("loop", GPS, TrueSecond(held), held)
  /\ UNCHANGED <<now, anchor, mux, prev, reading, stamp, clockSets, fix, registered, gpsAt>>

\* initCell(): the modem's clock is asked for once, right after registration.
ModemReading ==
  /\ ~registered /\ registered' = TRUE
  /\ \/ \E sec \in ModemReadings : Offer("telemetry", MODEM, sec, now)
     \/ pc["telemetry"] = "idle" /\ UNCHANGED <<pc, arg>>      \* AT+CCLK? failed
  /\ UNCHANGED <<now, anchor, mux, prev, reading, stamp, clockSets, gnss, gpsAt>>

\* notify(EVENT_LOGIN): the TM= of the server's reply.
ServerReading ==
  /\ registered
  /\ Offer("telemetry", SERVER, TrueSecond(now), now)
  /\ UNCHANGED <<now, anchor, mux, prev, reading, stamp, clockSets, gnss, registered, gpsAt>>

-----------------------------------------------------------------------------
(* timeAnchorSet().                                                        *)

Return(t) ==
  /\ Goto(t, "idle")
  /\ arg' = [arg EXCEPT ![t] = NoOffer]
  /\ prev' = [prev EXCEPT ![t] = NONE]

RejectImplausible(t) ==
  /\ pc[t] = "offer"
  /\ ~Plausible(arg[t].utc)
  /\ Return(t)
  /\ UNCHANGED <<now, anchor, mux, reading, stamp, clockSets, gnss, registered, gpsAt>>

EnterSet(t) ==
  /\ pc[t] = "offer"
  /\ Plausible(arg[t].utc)
  /\ Enter(t)
  /\ prev' = [prev EXCEPT ![t] = src]
  /\ Goto(t, "decide")
  /\ UNCHANGED <<now, anchor, arg, reading, stamp, clockSets, gnss, registered, gpsAt>>

\* Slip: every reading is as good as any other.
AcceptsAny(a) == TRUE
Accepts(a) == a.src >= src \/ a.tick > tick + Stale

\* Slip: the early return leaves the critical section locked.
RejectInside(t) ==
  /\ pc[t] = "decide"
  /\ ~Accepts(arg[t])
  /\ Return(t)
  /\ UNCHANGED <<now, anchor, mux, reading, stamp, clockSets, gnss, registered, gpsAt>>

Reject(t) ==
  /\ pc[t] = "decide"
  /\ ~Accepts(arg[t])
  /\ Leave(t)
  /\ Return(t)
  /\ UNCHANGED <<now, anchor, reading, stamp, clockSets, gnss, registered, gpsAt>>

Replace(t) ==
  /\ pc[t] = "decide"
  /\ Accepts(arg[t])
  /\ src' = arg[t].src /\ utc' = arg[t].utc /\ late' = arg[t].late
  /\ Goto(t, "replace")
  /\ UNCHANGED <<now, tick, mux, arg, prev, reading, stamp, clockSets, gnss, registered, gpsAt>>

LeaveSet(t) ==
  /\ pc[t] = "replace"
  /\ tick' = arg[t].tick
  /\ gpsAt' = IF arg[t].src = GPS THEN arg[t].tick ELSE gpsAt
  /\ Leave(t)
  /\ Goto(t, "accepted")
  /\ UNCHANGED <<now, src, utc, late, arg, prev, reading, stamp, clockSets, gnss, registered>>

\* Outside the lock: the first reading of the session sets the system clock.
Accepted(t) ==
  /\ pc[t] = "accepted"
  /\ clockSets' = IF prev[t] = NONE THEN clockSets + 1 ELSE clockSets
  /\ Return(t)
  /\ UNCHANGED <<now, anchor, mux, reading, stamp, gnss, registered, gpsAt>>

-----------------------------------------------------------------------------
(* timeAnchorResolve(), for a record captured at some earlier tick.        *)

EnterResolve ==
  /\ pc["telemetry"] = "idle"
  /\ Enter("telemetry")
  /\ Goto("telemetry", "copy")
  /\ \E asked \in 0 .. now : reading' = [NoReading EXCEPT !.asked = asked]
  /\ UNCHANGED <<now, anchor, arg, prev, stamp, clockSets, gnss, registered, gpsAt>>

CopySource ==
  /\ pc["telemetry"] = "copy"
  /\ reading' = [reading EXCEPT !.src = src, !.utc = utc, !.late = late]
  /\ Goto("telemetry", "copytick")
  /\ UNCHANGED <<now, anchor, mux, arg, prev, stamp, clockSets, gnss, registered, gpsAt>>

LeaveResolve ==
  /\ pc["telemetry"] = "copytick"
  /\ reading' = [reading EXCEPT !.tick = tick]
  /\ Leave("telemetry")
  /\ Goto("telemetry", "resolve")
  /\ UNCHANGED <<now, anchor, arg, prev, stamp, clockSets, gnss, registered, gpsAt>>

Resolved(r) == r.utc + DeltaSeconds(r.asked - r.tick)
StampOf(r) == [src |-> r.src, sec |-> Resolved(r), late |-> r.late, asked |-> r.asked]

\* Slip: the result is not held against the plausibility window.
ResolveUnchecked ==
  /\ pc["telemetry"] = "resolve"
  /\ stamp' = IF reading.src # NONE THEN StampOf(reading) ELSE NoStamp
  /\ reading' = NoReading
  /\ Goto("telemetry", "stamp")
  /\ UNCHANGED <<now, anchor, mux, arg, prev, clockSets, gnss, registered, gpsAt>>

\* No source yet, or the result lies before the plausible: the packet goes unstamped.
Resolve ==
  /\ pc["telemetry"] = "resolve"
  /\ stamp' = IF reading.src # NONE /\ Resolved(reading) >= MinEpoch
              THEN StampOf(reading) ELSE NoStamp
  /\ reading' = NoReading
  /\ Goto("telemetry", "stamp")
  /\ UNCHANGED <<now, anchor, mux, arg, prev, clockSets, gnss, registered, gpsAt>>

\* timeWriteStamp(), if it resolved.
WriteStamp ==
  /\ pc["telemetry"] = "stamp"
  /\ stamp' = NoStamp
  /\ Goto("telemetry", "idle")
  /\ UNCHANGED <<now, anchor, mux, arg, prev, reading, clockSets, gnss, registered, gpsAt>>

-----------------------------------------------------------------------------
(* The world: time passes, GNSS comes and goes, the link drops.            *)

TimePasses ==
  /\ now < MaxTick
  /\ now' = now + 1
  /\ UNCHANGED <<anchor, mux, pc, arg, prev, reading, stamp, clockSets, gnss, registered, gpsAt>>

FixChanges ==
  /\ fix' = ~fix
  /\ UNCHANGED <<now, anchor, mux, pc, arg, prev, reading, stamp, clockSets, held, registered, gpsAt>>

LinkDrops ==
  /\ registered /\ pc["telemetry"] = "idle"
  /\ registered' = FALSE
  /\ UNCHANGED <<now, anchor, mux, pc, arg, prev, reading, stamp, clockSets, gnss, gpsAt>>

SetSteps(t) ==
  RejectImplausible(t) \/ EnterSet(t) \/ Reject(t) \/ Replace(t) \/ LeaveSet(t) \/ Accepted(t)

ResolveSteps == EnterResolve \/ CopySource \/ LeaveResolve \/ Resolve \/ WriteStamp

Next ==
  \/ GpsReading \/ GpsWithheld \/ GpsAgain \/ ModemReading \/ ServerReading
  \/ \E t \in Task : SetSteps(t)
  \/ ResolveSteps
  \/ TimePasses \/ FixChanges \/ LinkDrops

Spec == Init /\ [][Next]_vars

\* Both tasks go on. The spinlock is held for a few instructions and the other task
\* spins on it, so a task that keeps asking gets in: strong fairness for the loop's
\* entry. The GNSS decoder delivers while it has the time, and is not refused for ever. A
\* telemetry task without a registration looks for one before anything else; whether a link
\* drops or GNSS is lost is nobody's duty, and no server has yet answered a login with TM=.
FairSpec ==
  /\ Spec
  /\ WF_vars(GpsReading) /\ SF_vars(ModemReading)
  /\ \A t \in Task : SF_vars(EnterSet(t)) /\ WF_vars(SetSteps(t))
  /\ WF_vars(CopySource \/ LeaveResolve \/ Resolve \/ WriteStamp)

-----------------------------------------------------------------------------
Label == {"idle", "offer", "decide", "replace", "accepted", "copy", "copytick", "resolve",
          "stamp"}
Stampable == {0} \cup {sec \in Nat : MinEpoch <= sec /\ sec <= MaxEpoch + MaxTick}
StampType == [src : Rank, sec : Stampable, late : Tick, asked : Tick]

\* Every variable holds a value of its kind; no packet is dated before the plausible.
TypeOK ==
  /\ now \in Tick
  /\ src \in Rank /\ utc \in Nat /\ tick \in Tick /\ late \in Tick
  /\ mux \in Task \cup {"free"}
  /\ pc \in [Task -> Label]
  /\ arg \in [Task -> Offers]
  /\ prev \in [Task -> Rank]
  /\ reading \in [src : Rank, utc : Nat, tick : Tick, late : Tick, asked : Tick]
  /\ stamp \in StampType
  /\ clockSets \in Nat
  /\ fix \in BOOLEAN /\ held \in Tick \cup {Never} /\ registered \in BOOLEAN
  /\ gpsAt \in Tick \cup {Never}

\* A packet dated from GNSS or from the server is behind by as much as the reading that made the
\* anchor was late, which is nothing for a fresh one, and by no more than the second its source
\* rounds off; also when the record is older than the anchor, and also when the other task was
\* replacing the anchor at that moment.
StampsAccurate ==
  stamp.src \in {SERVER, GPS} =>
    stamp.sec \in {TrueSecond(stamp.asked - stamp.late) - 1, TrueSecond(stamp.asked - stamp.late)}

\* While GNSS keeps reporting, no other clock dates a record: the anchor is its own for
\* ANCHOR_STALE after every reading it took.
GpsHoldsTheAnchor ==
  gpsAt # Never /\ now <= gpsAt + Stale => src = GPS

\* settimeofday() runs once a boot, however the two tasks' first readings race.
SystemClockSetOnce == clockSets <= 1

\* With GNSS delivering the time for good, the anchor always comes back to GNSS,
\* whatever the modem answered before or while it was stale.
FixDatesTheSession == <>[]fix => []<>(src = GPS)

-----------------------------------------------------------------------------
\* The ranks of timeanchor.h take GNSS for the clock that is never wrong: a packet it dates is
\* right to the second.
GpsTellsTheTime ==
  stamp.src = GPS => stamp.sec \in {TrueSecond(stamp.asked) - 1, TrueSecond(stamp.asked)}

=============================================================================
