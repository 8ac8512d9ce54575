------------------------------ MODULE BufferRing ------------------------------
(***************************************************************************)
(* The RAM ring between the two execution contexts of the logger: loop()   *)
(* takes a free CBuffer, fills it and publishes it; telemetry() takes a    *)
(* published one, turns it into a packet and frees it. CBuffer::state is   *)
(* the only thing that says who owns a slot, and nothing guards it.        *)
(*                                                                         *)
(* One boot is modelled. A step is one store to a slot, or one load of     *)
(* what the other task may store meanwhile. process() takes one tick per   *)
(* cycle, so the cycle is counted in them. The payload is abstracted to    *)
(* the number of its elements, CBuffer::total, which stands for            *)
(* CBuffer::offset too: a record that lost some, or kept those of another, *)
(* shows in the count.                                                     *)
(***************************************************************************)
EXTENDS Integers, FiniteSets

CONSTANTS
  NumSlots,     \* BUFFER_SLOTS
  Elements,     \* the adds of one collection cycle
  Room,         \* BUFFER_LENGTH, in elements
  MaxCaptures,  \* bound: cycles started
  RunsHot       \* TRUE: deviceTemp may reach COOLING_DOWN_TEMP

ASSUME RingAssumption ==
  /\ NumSlots \in Nat \ {0}
  /\ Elements \in Nat \ {0}
  /\ Room \in Nat /\ Elements <= Room
  /\ MaxCaptures \in Nat
  /\ RunsHot \in BOOLEAN

Slot == 1 .. NumSlots
Null == 0
Capture == 1 .. MaxCaptures
Instant == 0 .. MaxCaptures         \* 0 is what purge() leaves behind
Latest == MaxCaptures + 1           \* 0xffffffff, beyond every timestamp

SlotState == {"EMPTY", "FILLING", "FILLED", "LOCKED"}

VARIABLES
  state, tick, timestamp, total,    \* the fields of each CBuffer
  last,                             \* CBufferManager::last
  now,                              \* timeTicks(), in collection cycles
  lpc, lTick, lSlot, lScan, lBest, lStep, lAdded, lSeen,   \* process(), getFree(), add()
  tpc, tOrder, tSlot, tScan, tBest, tStep,   \* getOldest(), getNewest(), free(), purge()
  packet,                           \* the CStorageRAM of telemetry()
  sharedCore,                       \* both tasks run on one core
  record,                           \* history: the cycle that claimed each slot last
  published,                        \* history: the cycles whose record was marked FILLED
  dropped,                          \* history: those rotated out or purged
  delivered,                        \* history: those handed to modem or spool
  spoiled                           \* history: those unfinished, or met by the other task

slotVars == <<state, tick, timestamp, total>>
loopVars == <<lpc, lTick, lSlot, lScan, lBest, lStep, lAdded, lSeen>>
telVars == <<tpc, tOrder, tSlot, tScan, tBest, tStep, packet>>
histVars == <<record, published, dropped, delivered>>
vars == <<slotVars, last, now, loopVars, telVars, sharedCore, histVars, spoiled>>

NoPacket == [rec |-> 0, tick |-> 0, timestamp |-> 0, total |-> 0]

Init ==
  /\ state = [s \in Slot |-> "EMPTY"]
  /\ tick = [s \in Slot |-> 0]
  /\ timestamp = [s \in Slot |-> 0]
  /\ total = [s \in Slot |-> 0]
  /\ last = Null
  /\ now = 0
  /\ lpc = "idle" /\ lTick = 0 /\ lSlot = 1 /\ lScan = 1 /\ lBest = 0
  /\ lStep = 1 /\ lAdded = 0 /\ lSeen = 0
  /\ tpc = "idle" /\ tOrder = "oldest" /\ tSlot = Null /\ tScan = 1 /\ tBest = 0 /\ tStep = 1
  /\ packet = NoPacket
  /\ sharedCore \in BOOLEAN
  /\ record = [s \in Slot |-> 0]
  /\ published = {} /\ dropped = {} /\ delivered = {} /\ spoiled = {}

-----------------------------------------------------------------------------
(***************************************************************************)
(* CBuffer::purge(): four stores, the mark first. Whoever purges does one  *)
(* of them at a time.                                                      *)
(***************************************************************************)
\* Slip: the element count survives the purge.
PurgeStoreKeepsTotal(k, s) ==
  /\ state' = IF k = 1 THEN [state EXCEPT ![s] = "EMPTY"] ELSE state
  /\ dropped' = IF k = 1 /\ state[s] = "FILLED" THEN dropped \cup {record[s]} ELSE dropped
  /\ tick' = IF k = 2 THEN [tick EXCEPT ![s] = 0] ELSE tick
  /\ timestamp' = IF k = 3 THEN [timestamp EXCEPT ![s] = 0] ELSE timestamp
  /\ UNCHANGED total

PurgeStore(k, s) ==
  /\ state' = IF k = 1 THEN [state EXCEPT ![s] = "EMPTY"] ELSE state
  /\ dropped' = IF k = 1 /\ state[s] = "FILLED" THEN dropped \cup {record[s]} ELSE dropped
  /\ tick' = IF k = 2 THEN [tick EXCEPT ![s] = 0] ELSE tick
  /\ timestamp' = IF k = 3 THEN [timestamp EXCEPT ![s] = 0] ELSE timestamp
  /\ total' = IF k = 4 THEN [total EXCEPT ![s] = 0] ELSE total

-----------------------------------------------------------------------------
(***************************************************************************)
(* loop(): process() and CBufferManager::getFree(). The tasks are not      *)
(* pinned to a core. If they share one, the loop, of lower priority, runs  *)
(* only while telemetry is blocked: in a delay, in modem or SD traffic, or *)
(* waiting in stand-by; if not, it runs at any time.                       *)
(***************************************************************************)
Blocked == {"idle", "deliver", "standby"}
LoopMayRun == sharedCore => tpc \in Blocked

LoopAt(label) == lpc = label /\ LoopMayRun

\* The top of process(), and getFree() looking for the slot freed last, ...
BeginCycle ==
  /\ LoopAt("idle")
  /\ now < MaxCaptures
  /\ now' = now + 1 /\ lTick' = now + 1
  /\ IF last # Null THEN lSlot' = last /\ lpc' = "hint" ELSE lSlot' = 1 /\ lpc' = "scan"
  /\ lScan' = 1 /\ lBest' = Latest
  /\ UNCHANGED <<slotVars, last, lStep, lAdded, lSeen, telVars, histVars>>

\* ... which it tries once, ...
ForgetHint ==
  /\ LoopAt("hint")
  /\ last' = Null
  /\ lpc' = "try"
  /\ UNCHANGED <<slotVars, now, lTick, lSlot, lScan, lBest, lStep, lAdded, lSeen, telVars, histVars>>

\* ... if it is free still.
TryHint ==
  /\ LoopAt("try")
  /\ IF state[lSlot] = "EMPTY" THEN lpc' = "claim" /\ UNCHANGED lSlot
                               ELSE lpc' = "scan" /\ lSlot' = 1
  /\ UNCHANGED <<slotVars, last, now, lTick, lScan, lBest, lStep, lAdded, lSeen, telVars, histVars>>

\* One iteration of getFree()'s scan: an EMPTY slot is it, ...
ScanFree ==
  /\ LoopAt("scan")
  /\ lScan <= NumSlots
  /\ \/ /\ state[lScan] = "EMPTY"
        /\ lSlot' = lScan /\ lpc' = "claim"
        /\ UNCHANGED lScan
     \/ /\ state[lScan] = "FILLED"
        /\ lpc' = "compare"
        /\ UNCHANGED <<lSlot, lScan>>
     \/ /\ state[lScan] \in {"FILLING", "LOCKED"}
        /\ lScan' = lScan + 1
        /\ UNCHANGED <<lSlot, lpc>>
  /\ UNCHANGED <<slotVars, last, now, lTick, lBest, lStep, lAdded, lSeen, telVars, histVars>>

\* Slip: the comparison of getNewest() in getFree().
RotatesAfter(ts) == lBest = Latest \/ ts > lBest
RotatesBefore(ts) == ts < lBest

\* ... a FILLED one if none is older.
CompareFree ==
  /\ LoopAt("compare")
  /\ IF RotatesBefore(timestamp[lScan])
     THEN lSlot' = lScan /\ lBest' = timestamp[lScan]
     ELSE UNCHANGED <<lSlot, lBest>>
  /\ lScan' = lScan + 1 /\ lpc' = "scan"
  /\ UNCHANGED <<slotVars, last, now, lTick, lStep, lAdded, lSeen, telVars, histVars>>

\* No EMPTY slot: `while (LOCKED) delay(1)`, ...
WaitUnlocked ==
  /\ LoopAt("scan")
  /\ lScan > NumSlots
  /\ state[lSlot] # "LOCKED"
  /\ lpc' = "purge" /\ lStep' = 1
  /\ UNCHANGED <<slotVars, last, now, lTick, lSlot, lScan, lBest, lAdded, lSeen, telVars, histVars>>

\* ... then purge().
Rotate ==
  /\ LoopAt("purge")
  /\ PurgeStore(lStep, lSlot)
  /\ IF lStep < 4 THEN lStep' = lStep + 1 /\ UNCHANGED lpc
                  ELSE lStep' = 1 /\ lpc' = "claim"
  /\ UNCHANGED <<last, now, lTick, lSlot, lScan, lBest, lAdded, lSeen, telVars,
                 record, published, delivered>>

Claim ==
  /\ LoopAt("claim")
  /\ state' = [state EXCEPT ![lSlot] = "FILLING"]
  /\ record' = [record EXCEPT ![lSlot] = lTick]
  /\ lpc' = "date" /\ lScan' = 1 /\ lBest' = 0
  /\ UNCHANGED <<tick, timestamp, total, last, now, lTick, lSlot, lStep, lAdded, lSeen,
                 telVars, published, dropped, delivered>>

Date ==
  /\ LoopAt("date")
  /\ tick' = [tick EXCEPT ![lSlot] = lTick]
  /\ lAdded' = 0 /\ lpc' = "fill"
  /\ UNCHANGED <<state, timestamp, total, last, now, lTick, lSlot, lScan, lBest, lStep, lSeen,
                 telVars, histVars>>

\* Slip: no room is looked for.
AddElementUnchecked ==
  /\ LoopAt("fill")
  /\ lAdded < Elements
  /\ lAdded' = lAdded + 1
  /\ lpc' = "add" /\ lSeen' = total[lSlot]
  /\ UNCHANGED <<slotVars, last, now, lTick, lSlot, lScan, lBest, lStep, telVars, histVars>>

\* CBuffer::add() looks whether there is room, ...
AddElement ==
  /\ LoopAt("fill")
  /\ lAdded < Elements
  /\ lAdded' = lAdded + 1
  /\ IF total[lSlot] < Room THEN lpc' = "add" /\ lSeen' = total[lSlot]
                            ELSE UNCHANGED <<lpc, lSeen>>
  /\ UNCHANGED <<slotVars, last, now, lTick, lSlot, lScan, lBest, lStep, telVars, histVars>>

\* ... and adds to what it has seen, or to what it finds when it loads the count again.
StoreElement ==
  /\ LoopAt("add")
  /\ \E n \in {lSeen, total[lSlot]} : total' = [total EXCEPT ![lSlot] = n + 1]
  /\ lpc' = "fill" /\ lSeen' = 0
  /\ UNCHANGED <<state, tick, timestamp, last, now, lTick, lSlot, lScan, lBest, lStep, lAdded,
                 telVars, histVars>>

\* obd.init() failed: the cycle returns, and its slot stays FILLING.
EcuOff ==
  /\ LoopAt("fill")
  /\ lAdded < Elements
  /\ lpc' = "off"
  /\ UNCHANGED <<slotVars, last, now, lTick, lSlot, lScan, lBest, lStep, lAdded, lSeen, telVars,
                 histVars>>

\* The end of process(): the timestamp, ...
Stamp ==
  /\ LoopAt("fill")
  /\ lAdded = Elements
  /\ timestamp' = [timestamp EXCEPT ![lSlot] = lTick]
  /\ lpc' = "stamped"
  /\ UNCHANGED <<state, tick, total, last, now, lTick, lSlot, lScan, lBest, lStep, lAdded, lSeen,
                 telVars, histVars>>

\* ... and the mark. A device that has been stationary is to stop.
Publish ==
  /\ LoopAt("stamped")
  /\ state' = [state EXCEPT ![lSlot] = "FILLED"]
  /\ published' = published \cup {lTick}
  /\ lpc' \in {"idle", "still"} /\ lSlot' = 1 /\ lAdded' = 0
  /\ UNCHANGED <<tick, timestamp, total, last, now, lTick, lScan, lBest, lStep, lSeen,
                 telVars, record, dropped, delivered>>

\* loop() finds WORKING cleared and enters standby(). The clearing may have been lost to
\* an update of the other core, and then the next cycle follows.
Stop ==
  /\ lpc \in {"off", "still"} /\ LoopMayRun
  /\ lSlot' = 1 /\ lAdded' = 0
  /\ \/ lpc' = "parked"
     \/ ~sharedCore /\ lpc' = "idle"
  /\ UNCHANGED <<slotVars, last, now, lTick, lScan, lBest, lStep, lSeen, telVars,
                 histVars>>

-----------------------------------------------------------------------------
(***************************************************************************)
(* telemetry(): getOldest() while the link is down, getNewest() while it   *)
(* is up. Which of the two comes next is the link's business, not the      *)
(* ring's, so the choice is free here.                                     *)
(***************************************************************************)
Poll ==
  /\ tpc = "idle"
  /\ tOrder' \in {"oldest", "newest"}
  /\ tBest' = IF tOrder' = "oldest" THEN Latest ELSE 0
  /\ tSlot' = Null /\ tScan' = 1
  /\ tpc' = "scan"
  /\ UNCHANGED <<slotVars, last, now, loopVars, tStep, packet, histVars>>

LastScanned == NumSlots

Scanned(s) == state[s] = "FILLED"

ScanFilled ==
  /\ tpc = "scan"
  /\ tScan <= LastScanned
  /\ IF Scanned(tScan) THEN tpc' = "compare" /\ UNCHANGED tScan
                       ELSE tScan' = tScan + 1 /\ UNCHANGED tpc
  /\ UNCHANGED <<slotVars, last, now, loopVars, tOrder, tSlot, tBest, tStep, packet, histVars>>

Better(ts) == IF tOrder = "oldest" THEN ts < tBest ELSE ts > tBest

CompareFilled ==
  /\ tpc = "compare"
  /\ IF Better(timestamp[tScan])
     THEN tSlot' = tScan /\ tBest' = timestamp[tScan]
     ELSE UNCHANGED <<tSlot, tBest>>
  /\ tScan' = tScan + 1 /\ tpc' = "scan"
  /\ UNCHANGED <<slotVars, last, now, loopVars, tOrder, tStep, packet, histVars>>

\* Nothing is FILLED: telemetry drains the spool or sleeps.
NothingFilled ==
  /\ tpc = "scan"
  /\ tScan > LastScanned
  /\ tSlot = Null
  /\ tpc' = "idle" /\ tScan' = 1 /\ tBest' = 0
  /\ UNCHANGED <<slotVars, last, now, loopVars, tOrder, tSlot, tStep, packet,
                 histVars>>

\* Slip: telemetry reads the slot without marking it as its own.
LockMarkMissing ==
  /\ tpc = "scan"
  /\ tScan > LastScanned
  /\ tSlot # Null
  /\ packet' = [NoPacket EXCEPT !.rec = record[tSlot]]
  /\ tpc' = "take" /\ tScan' = 1 /\ tBest' = 0
  /\ UNCHANGED <<slotVars, last, now, loopVars, tOrder, tSlot, tStep, histVars>>

Lock ==
  /\ tpc = "scan"
  /\ tScan > LastScanned
  /\ tSlot # Null
  /\ state' = [state EXCEPT ![tSlot] = "LOCKED"]
  /\ packet' = [NoPacket EXCEPT !.rec = record[tSlot]]
  /\ tpc' = "take" /\ tScan' = 1 /\ tBest' = 0
  /\ UNCHANGED <<tick, timestamp, total, last, now, loopVars, tOrder, tSlot, tStep,
                 histVars>>

\* The tick an unstamped packet will be filed under, ...
TakeTick ==
  /\ tpc = "take"
  /\ packet' = [packet EXCEPT !.tick = tick[tSlot]]
  /\ tpc' = "header"
  /\ UNCHANGED <<slotVars, last, now, loopVars, tOrder, tSlot, tScan, tBest, tStep, histVars>>

\* ... then buildPacket(): the timestamp of the header, ...
Header ==
  /\ tpc = "header"
  /\ packet' = [packet EXCEPT !.timestamp = timestamp[tSlot]]
  /\ tpc' = "serialize"
  /\ UNCHANGED <<slotVars, last, now, loopVars, tOrder, tSlot, tScan, tBest, tStep, histVars>>

\* ... the elements, ...
Serialize ==
  /\ tpc = "serialize"
  /\ packet' = [packet EXCEPT !.total = total[tSlot]]
  /\ tpc' = "resolve"
  /\ UNCHANGED <<slotVars, last, now, loopVars, tOrder, tSlot, tScan, tBest, tStep, histVars>>

\* ... and the time, from the tick, if there is an anchor.
Resolve ==
  /\ tpc = "resolve"
  /\ \E t \in {packet.tick, tick[tSlot]} : packet' = [packet EXCEPT !.tick = t]
  /\ tpc' = "free" /\ tStep' = 1
  /\ UNCHANGED <<slotVars, last, now, loopVars, tOrder, tSlot, tScan, tBest, histVars>>

\* Slip: free() leaves the mark to the next user of the slot.
FreeMarkMissing ==
  /\ tpc = "free"
  /\ IF tStep = 1 THEN UNCHANGED <<slotVars, dropped>> ELSE PurgeStore(tStep, tSlot)
  /\ IF tStep < 4 THEN tStep' = tStep + 1 /\ UNCHANGED tpc
                  ELSE tStep' = 1 /\ tpc' = "freed"
  /\ UNCHANGED <<last, now, loopVars, tOrder, tSlot, tScan, tBest, packet,
                 record, published, delivered>>

\* CBufferManager::free(): purge(), ...
Free ==
  /\ tpc = "free"
  /\ PurgeStore(tStep, tSlot)
  /\ IF tStep < 4 THEN tStep' = tStep + 1 /\ UNCHANGED tpc
                  ELSE tStep' = 1 /\ tpc' = "freed"
  /\ UNCHANGED <<last, now, loopVars, tOrder, tSlot, tScan, tBest, packet,
                 record, published, delivered>>

\* ... and the hint for the next getFree().
GiveHint ==
  /\ tpc = "freed"
  /\ last' = tSlot /\ tSlot' = Null
  /\ tpc' = "deliver"
  /\ UNCHANGED <<slotVars, now, loopVars, tOrder, tScan, tBest, tStep, packet, histVars>>

\* Modem or SD traffic, then back to the poll, or the purge of a hot device
\* (which only the live branch of the task reaches).
Deliver ==
  /\ tpc = "deliver"
  /\ delivered' = delivered \cup {packet.rec}
  /\ packet' = NoPacket
  /\ \/ tpc' = "idle" /\ UNCHANGED <<tOrder, tScan>>
     \/ /\ RunsHot /\ tOrder = "newest"
        /\ tpc' = "purge" /\ tOrder' = "hot" /\ tScan' = 1
  /\ UNCHANGED <<slotVars, last, now, loopVars, tSlot, tBest, tStep, record, published, dropped>>

\* The stand-by branch of telemetry(), which comes round every PING_BACK_INTERVAL.
StandbyPurge ==
  /\ tpc \in {"idle", "standby"}
  /\ lpc = "parked"
  /\ tpc' = "purge" /\ tOrder' = "standby" /\ tScan' = 1
  /\ UNCHANGED <<slotVars, last, now, loopVars, tSlot, tBest, tStep, packet, histVars>>

\* CBufferManager::purge(), slot by slot.
PurgeAll ==
  /\ tpc = "purge"
  /\ tScan <= NumSlots
  /\ PurgeStore(tStep, tScan)
  /\ IF tStep < 4 THEN tStep' = tStep + 1 /\ UNCHANGED tScan
                  ELSE tStep' = 1 /\ tScan' = tScan + 1
  /\ UNCHANGED <<last, now, loopVars, tpc, tOrder, tSlot, tBest, packet,
                 record, published, delivered>>

PurgeAllDone ==
  /\ tpc = "purge"
  /\ tScan > NumSlots
  /\ tScan' = 1
  /\ tpc' = IF tOrder = "hot" THEN "idle" ELSE "standby"
  /\ UNCHANGED <<slotVars, last, now, loopVars, tOrder, tSlot, tBest, tStep, packet,
                 histVars>>

-----------------------------------------------------------------------------
Loop ==
  \/ BeginCycle \/ ForgetHint \/ TryHint \/ ScanFree \/ CompareFree \/ WaitUnlocked \/ Rotate
  \/ Claim \/ Date \/ AddElement \/ StoreElement \/ EcuOff \/ Stamp \/ Publish \/ Stop

Telemetry ==
  \/ Poll \/ ScanFilled \/ CompareFilled \/ NothingFilled \/ Lock \/ TakeTick \/ Header
  \/ Serialize \/ Resolve \/ Free \/ GiveHint \/ Deliver \/ StandbyPurge \/ PurgeAll
  \/ PurgeAllDone

\* Who has begun to write to a slot and not yet let go of it.
LoopFills(s) == s = lSlot /\ lpc \in {"date", "fill", "add", "stamped"}
LoopPurges(s) == s = lSlot /\ (lpc = "claim" \/ (lpc = "purge" /\ lStep > 1))
TelemetryHolds(s) == s = tSlot /\ tpc \in {"take", "header", "serialize", "resolve", "free"}
TelemetryPurges(s) == s = tScan /\ tpc = "purge" /\ tStep > 1

Meets(s) ==
  \/ LoopFills(s) /\ (TelemetryHolds(s) \/ TelemetryPurges(s))
  \/ LoopPurges(s) /\ TelemetryHolds(s)

\* The records a state spoils: those in a slot both tasks are at, an unfinished one, and the one
\* that follows it into its slot.
Met == {s \in Slot : Meets(s)}
Spoils ==
  {record[s] : s \in Met} \cup {packet.rec : s \in Met}
    \cup (IF lpc = "off" THEN {record[lSlot]} ELSE {})
    \cup (IF lpc = "claim" /\ record[lSlot] \notin published \cup {0} THEN {lTick} ELSE {})

Observe == spoiled' = spoiled \cup Spoils' /\ UNCHANGED sharedCore

LoopStep == Loop /\ Observe
TelemetryStep == Telemetry /\ Observe
Next == LoopStep \/ TelemetryStep

Spec == Init /\ [][Next]_vars

\* Neither task stops being scheduled. Telemetry blocks only in bounded delays and
\* timeouts, so it goes on whenever it can. On one core it keeps cutting in on the
\* loop, but every one of its turns ends in a delay in which the loop runs.
FairSpec == Spec /\ WF_vars(TelemetryStep) /\ SF_vars(LoopStep)

-----------------------------------------------------------------------------
SlotRecord(s) == [rec |-> record[s], tick |-> tick[s], timestamp |-> timestamp[s],
                  total |-> total[s]]
PacketType == [rec : Instant, tick : Instant, timestamp : Instant, total : 0 .. Room]

SlotTypes ==
  /\ state \in [Slot -> SlotState]
  /\ tick \in [Slot -> Instant]
  /\ timestamp \in [Slot -> Instant]
  /\ total \in [Slot -> 0 .. Room]
  /\ last \in Slot \cup {Null}

LoopTypes ==
  /\ now \in Instant
  /\ lpc \in {"idle", "hint", "try", "scan", "compare", "purge", "claim", "date", "fill", "add",
              "stamped", "off", "still", "parked"}
  /\ lTick \in Instant
  /\ lSlot \in Slot
  /\ lScan \in 1 .. NumSlots + 1
  /\ lBest \in 0 .. Latest
  /\ lStep \in 1 .. 4
  /\ lAdded \in 0 .. Elements
  /\ lSeen \in 0 .. Room /\ (lpc = "add" => lSeen < Room /\ total[lSlot] <= lSeen)

TelemetryTypes ==
  /\ tpc \in Blocked \cup {"scan", "compare", "take", "header", "serialize", "resolve", "free",
                           "freed", "purge"}
  /\ tOrder \in {"oldest", "newest", "hot", "standby"}
  /\ tSlot \in Slot \cup {Null}
  /\ tScan \in 1 .. NumSlots + 1
  /\ tBest \in 0 .. Latest
  /\ tStep \in 1 .. 4
  /\ packet \in PacketType
  /\ sharedCore \in BOOLEAN

HistoryTypes ==
  /\ record \in [Slot -> Instant]
  /\ published \in SUBSET Capture
  /\ dropped \in SUBSET Instant
  /\ delivered \in SUBSET Instant
  /\ spoiled \in SUBSET Instant

\* Every variable holds a value of its kind, however the tasks are scheduled. In particular
\* what add() has found to have room has room still when the element is stored, although
\* the other task purges: no block is overrun.
TypeOK == SlotTypes /\ LoopTypes /\ TelemetryTypes /\ HistoryTypes

\* A record as the collection cycle left it: dated by the instant of its own cycle
\* and with every element that cycle added (process(): "everything downstream dates
\* the record from it").
Intact(r) == r.tick = r.rec /\ r.timestamp = r.rec /\ r.total = Elements

\* However the tasks are scheduled: a published record, and a packet that is handed on, is
\* intact unless both tasks were at its slot at once. No slot comes with the rest of an earlier
\* record, none is published or serialized half filled, wiped, or dated by another cycle.
RecordsIntact ==
  /\ \A s \in Slot : state[s] = "FILLED" /\ record[s] \notin spoiled => Intact(SlotRecord(s))
  /\ tpc = "deliver" /\ packet.rec \notin spoiled => Intact(packet)

Stored == {record[s] : s \in {u \in Slot : state[u] = "FILLED"}}
InHand ==
  IF tpc \in {"take", "header", "serialize", "resolve", "free", "freed", "deliver"}
  THEN {packet.rec} ELSE {}

\* Conservation, however the tasks are scheduled: a published record is in exactly one
\* place, still in the ring, in telemetry's hands, handed on, or dropped by a rotation or a
\* purge, unless both tasks were at its slot at once. None vanishes, none is handed on twice,
\* none is handed on unpublished.
NothingVanishes ==
  /\ published \ spoiled = (Stored \cup InHand \cup delivered \cup dropped) \ spoiled
  /\ Stored \cap (InHand \cup delivered \cup dropped) \subseteq spoiled
  /\ InHand \cap (delivered \cup dropped) \subseteq spoiled
  /\ delivered \cap dropped \subseteq spoiled
  /\ \A s, u \in Slot :
       /\ state[s] = "FILLED" /\ state[u] = "FILLED"
       /\ record[s] = record[u] /\ record[s] \notin spoiled
       => s = u

\* However the tasks are scheduled: when getFree() sacrifices a record, none of an earlier
\* timestamp is left in the ring, whatever telemetry took or purged while the scan was under
\* way. (A timestamp of 0 is that of a record a purge came upon.)
OnlyOldestRotates ==
  [][Rotate => \A s, u \in Slot :
       /\ state[s] = "FILLED" /\ state'[s] = "EMPTY"
       /\ state[u] = "FILLED" /\ timestamp[u] # 0
       => timestamp[s] <= timestamp[u]]_vars

\* On one core the two tasks and their slots are the ring of RingPromise: telemetry always gets
\* the oldest record or the newest, and once; a rotation takes the oldest, whatever telemetry
\* took while the scan was under way; anything else is lost only to a purge, which leaves
\* nothing behind; and only a record that was being collected during a purge is ever spoiled.
Of(S) == IF sharedCore THEN S ELSE {}
Promise == INSTANCE RingPromise WITH
  Record <- Capture, Capacity <- NumSlots,
  waiting <- Of(Stored), held <- Of(InHand), delivered <- Of(delivered), dropped <- Of(dropped),
  purging <- sharedCore /\ tpc = "purge",
  marred <- sharedCore /\ lpc \in {"date", "fill", "add", "stamped"} /\ lTick \in spoiled,
  spoiled <- Of(spoiled \cap published)
KeepsRingPromise == Promise!Spec


\* getFree() returns: the loop is not held up for ever by a slot telemetry has locked.
GetFreeReturns == lpc \in {"try", "scan", "compare"} ~> lpc = "claim"

-----------------------------------------------------------------------------

\* process(): the tick "is the record's capture instant, and everything downstream dates
\* the record from it", so that a hot device's records are whole too.
AllIntact ==
  /\ \A s \in Slot : state[s] = "FILLED" => Intact(SlotRecord(s))
  /\ tpc = "deliver" => Intact(packet)

=============================================================================
