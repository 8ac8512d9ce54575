--------------------------- MODULE BufferRingProofs ---------------------------
(***************************************************************************)
(* What holds of the ring for every number of slots and elements, hot      *)
(* device or not, and however the two tasks are scheduled: on one core or  *)
(* two, with a step of either between any two of the other.                *)
(***************************************************************************)
EXTENDS BufferRing, TLAPS

-----------------------------------------------------------------------------
(***************************************************************************)
(* The inductive invariant behind TypeOK and RecordsIntact.                *)
(***************************************************************************)
Filling == lpc \in {"date", "fill", "add", "stamped"}
LoopIsAt(s) == s = lSlot /\ (lpc \in {"purge", "claim"} \/ Filling)

\* Where each task stands.
Positions ==
  /\ lpc = "compare" => lScan \in Slot
  /\ lStep > 1 => lpc = "purge"
  /\ tpc = "compare" => tScan \in Slot
  /\ tpc \in {"take", "header", "serialize", "resolve", "free", "freed"} => tSlot \in Slot
  /\ tStep > 1 => tpc = "free" \/ (tpc = "purge" /\ tScan \in Slot)

\* The cycle is named by the clock, and no slot has a later one's name or another slot's.
Names ==
  /\ lTick = now /\ (lpc # "idle" => now \in Capture)
  /\ \A s \in Slot : record[s] <= now
  /\ lpc \in {"hint", "try", "scan", "compare", "purge", "claim"} => \A s \in Slot : record[s] < now
  /\ Filling \/ lpc = "off" => record[lSlot] = now
  /\ \A s, u \in Slot : record[s] = record[u] /\ record[s] # 0 => s = u
  /\ published \subseteq 1 .. now
  /\ lpc \notin {"idle", "still", "parked"} => now \notin published

\* What the loop has made of the slot it is filling.
SlotInProgress ==
  /\ Filling /\ lTick \notin spoiled =>
       /\ lpc # "date" => tick[lSlot] = lTick
       /\ lpc = "date" => total[lSlot] = 0
       /\ lpc \in {"fill", "stamped"} => total[lSlot] = lAdded
       /\ lpc = "add" => total[lSlot] = lSeen /\ lAdded = lSeen + 1
       /\ lpc = "stamped" => timestamp[lSlot] = lTick /\ lAdded = Elements
  /\ (lpc = "purge" /\ lStep > 1) \/ lpc = "claim" \/ Filling => state[lSlot] # "FILLED"

\* An EMPTY slot is wiped, or somebody is at it, or its record was left unfinished.
EmptyIsWiped ==
  /\ \A s \in Slot : state[s] = "EMPTY" =>
       \/ total[s] = 0 \/ TelemetryPurges(s) \/ TelemetryHolds(s) \/ LoopIsAt(s)
       \/ record[s] \notin published \cup {0}
  /\ lpc = "claim" /\ lTick \notin spoiled =>
       total[lSlot] = 0 \/ TelemetryPurges(lSlot) \/ TelemetryHolds(lSlot)

\* A published slot is intact, and telemetry is not at it.
FilledIsIntact ==
  \A s \in Slot : state[s] = "FILLED" /\ record[s] \notin spoiled =>
    Intact(SlotRecord(s)) /\ ~TelemetryPurges(s) /\ ~TelemetryHolds(s)

\* What telemetry chose is still there, or the loop is at it, or it is spoiled.
ChoiceStands(s) ==
  state[s] = "FILLED" \/ LoopPurges(s) \/ LoopFills(s) \/ record[s] \in spoiled
Choice ==
  /\ tpc \in {"scan", "compare"} /\ tSlot # Null => ChoiceStands(tSlot)
  /\ tpc = "compare" => ChoiceStands(tScan)

\* What telemetry has in hand is intact, as far as it has read it.
PacketInProgress ==
  packet.rec \notin spoiled =>
    /\ tpc \in {"take", "header", "serialize", "resolve"} =>
         record[tSlot] = packet.rec /\ Intact(SlotRecord(tSlot))
    /\ tpc \in {"header", "serialize", "resolve"} => packet.tick = packet.rec
    /\ tpc \in {"serialize", "resolve"} => packet.timestamp = packet.rec
    /\ tpc = "resolve" => packet.total = Elements
    /\ tpc \in {"free", "freed", "deliver"} => Intact(packet)

Seen == Spoils \subseteq spoiled

IInv ==
  /\ TypeOK /\ Positions /\ Names /\ Seen
  /\ SlotInProgress /\ EmptyIsWiped /\ FilledIsIntact /\ Choice /\ PacketInProgress

\* While getFree() scans, no slot becomes FILLED: what it has seen of the ring stays a bound.
BestSoFar ==
  (lpc \in {"scan", "compare"} \/ (lpc = "purge" /\ lStep = 1)) =>
    /\ \A s \in Slot : s < lScan /\ state[s] = "FILLED" /\ timestamp[s] # 0 => lBest <= timestamp[s]
    /\ lBest # Latest /\ state[lSlot] = "FILLED" => timestamp[lSlot] \in {lBest, 0}
    /\ lpc = "purge" => lScan > NumSlots
FreshScan == lpc \in {"hint", "try"} => lScan = 1 /\ lBest = Latest

-----------------------------------------------------------------------------
\* The invariant holds of a ring fresh out of init().
LEMMA InitEstablishes == Init => IInv /\ BestSoFar /\ FreshScan
<1> SUFFICES ASSUME Init PROVE IInv /\ BestSoFar /\ FreshScan
  OBVIOUS
<1> USE RingAssumption DEF Init, Slot, Null, Capture, Instant, Latest, SlotState, Blocked,
        PacketType, NoPacket
<1>1. TypeOK /\ Positions
  BY DEF TypeOK, SlotTypes, LoopTypes, TelemetryTypes, HistoryTypes, Positions
<1>2. Spoils = {}
  BY DEF Spoils, Met, Meets, LoopFills, LoopPurges
<1>3. Names /\ SlotInProgress /\ EmptyIsWiped /\ FilledIsIntact /\ Choice /\ PacketInProgress
  BY DEF Names, SlotInProgress, EmptyIsWiped, FilledIsIntact, Choice, PacketInProgress, Filling
<1> QED
  BY <1>1, <1>2, <1>3 DEF IInv, Seen, BestSoFar, FreshScan

\* One store of purge() keeps the types of the fields, and changes no other slot.
LEMMA PurgeFacts ==
  ASSUME SlotTypes, NEW k \in 1 .. 4, NEW s \in Slot, PurgeStore(k, s)
  PROVE  /\ state' \in [Slot -> SlotState] /\ tick' \in [Slot -> Instant]
         /\ timestamp' \in [Slot -> Instant] /\ total' \in [Slot -> 0 .. Room]
         /\ \A u \in Slot : u # s => /\ state'[u] = state[u] /\ tick'[u] = tick[u]
                                     /\ timestamp'[u] = timestamp[u] /\ total'[u] = total[u]
         /\ k = 1 => /\ state'[s] = "EMPTY"
                     /\ dropped' = IF state[s] = "FILLED" THEN dropped \cup {record[s]} ELSE dropped
         /\ k # 1 => state' = state /\ dropped' = dropped
         /\ timestamp'[s] \in {timestamp[s], 0} /\ total'[s] \in {total[s], 0}
         /\ k = 1 => UNCHANGED <<tick, timestamp, total>>
         /\ k = 4 => total'[s] = 0
<1> USE RingAssumption
<1>1. state' \in [Slot -> SlotState] /\ tick' \in [Slot -> Instant]
  BY DEF PurgeStore, SlotTypes, SlotState, Instant
<1>2. timestamp' \in [Slot -> Instant] /\ total' \in [Slot -> 0 .. Room]
  BY DEF PurgeStore, SlotTypes, Instant
<1>3. \A u \in Slot : u # s => /\ state'[u] = state[u] /\ tick'[u] = tick[u]
                               /\ timestamp'[u] = timestamp[u] /\ total'[u] = total[u]
  BY DEF PurgeStore, SlotTypes
<1>4. /\ k = 1 => /\ state'[s] = "EMPTY"
                  /\ dropped' = IF state[s] = "FILLED" THEN dropped \cup {record[s]} ELSE dropped
      /\ k # 1 => state' = state /\ dropped' = dropped
      /\ timestamp'[s] \in {timestamp[s], 0} /\ total'[s] \in {total[s], 0}
      /\ k = 1 => UNCHANGED <<tick, timestamp, total>>
      /\ k = 4 => total'[s] = 0
  BY DEF PurgeStore, SlotTypes
<1> QED
  BY <1>1, <1>2, <1>3, <1>4

-----------------------------------------------------------------------------
(***************************************************************************)
(* Steps that store nothing in a slot: those of the loop, then those of    *)
(* telemetry.                                                              *)
(***************************************************************************)
LoopLooks ==
  \/ BeginCycle \/ ForgetHint \/ TryHint \/ ScanFree \/ CompareFree \/ WaitUnlocked
  \/ AddElement \/ EcuOff \/ Stop
TelemetryLooks ==
  \/ Poll \/ ScanFilled \/ CompareFilled \/ NothingFilled \/ TakeTick \/ Header \/ Serialize
  \/ Resolve \/ GiveHint \/ Deliver \/ StandbyPurge \/ PurgeAllDone

\* The histories but the last, which follows from the others.
Recorded ==
  /\ record \in [Slot -> Instant] /\ published \in SUBSET Capture
  /\ dropped \in SUBSET Instant /\ delivered \in SUBSET Instant

\* A store of purge() keeps the types, and raises no count.
LEMMA PurgedTypes ==
  ASSUME SlotTypes, Recorded, NEW k \in 1 .. 4, NEW s \in Slot, PurgeStore(k, s),
         last' = last, UNCHANGED <<record, published, delivered>>
  PROVE  SlotTypes' /\ Recorded' /\ \A u \in Slot : total'[u] \in {total[u], 0}
<1>1. record[s] \in Instant
  BY DEF Recorded
<1>2. dropped' \in {dropped, dropped \cup {record[s]}}
  BY DEF PurgeStore
<1>3. Recorded'
  BY <1>1, <1>2 DEF Recorded
<1> QED
  BY <1>3, PurgeFacts DEF SlotTypes

\* Every step of either task preserves the types.
LEMMA StepTypes ==
  ASSUME IInv, Next
  PROVE  TypeOK' /\ Positions'
<1> USE RingAssumption DEF Slot, Null, Capture, Instant, Latest, SlotState, Blocked, slotVars,
        loopVars, telVars, histVars, LoopAt
<1>a. LoopTypes /\ Positions /\ lTick = now
  BY DEF IInv, TypeOK, Names
<1>b. SlotTypes /\ Recorded
  BY DEF IInv, TypeOK, HistoryTypes, Recorded
<1>c. TelemetryTypes
  BY DEF IInv, TypeOK
<1>d. sharedCore' = sharedCore /\ (LoopStep \/ TelemetryStep)
  BY DEF Next, LoopStep, TelemetryStep, Observe
<1>e. SUFFICES /\ SlotTypes' /\ Recorded'
               /\ LoopTypes' /\ TelemetryTypes' /\ Positions'
  <2>1. ASSUME Recorded', LoopTypes', TelemetryTypes'
        PROVE  Spoils' \subseteq Instant
    <3>1. /\ \A s \in Slot : record'[s] \in Instant
          /\ packet'.rec \in Instant /\ lTick' \in Instant /\ lSlot' \in Slot
      BY <2>1 DEF Recorded, LoopTypes, TelemetryTypes, PacketType
    <3>2. Met' \subseteq Slot
      BY DEF Met, Meets, LoopFills, LoopPurges, TelemetryHolds, TelemetryPurges
    <3> QED
      BY <3>1, <3>2 DEF Spoils
  <2> QED
    BY <2>1 DEF TypeOK, HistoryTypes, Recorded, IInv, Next, LoopStep, TelemetryStep, Observe
<1>1. CASE LoopLooks
  <2>1. UNCHANGED <<slotVars, telVars, histVars>> /\ last' \in {last, Null}
    BY <1>1 DEF LoopLooks, BeginCycle, ForgetHint, TryHint, ScanFree, CompareFree, WaitUnlocked,
       AddElement, EcuOff, Stop
  <2>2. SlotTypes' /\ TelemetryTypes' /\ Recorded'
    BY <1>b, <1>c, <1>d, <2>1 DEF SlotTypes, TelemetryTypes, Recorded
  <2>3. LoopTypes' /\ Positions'
    <3>1. CASE BeginCycle
      <4>0. last \in Slot \cup {Null} /\ 1 \in Slot /\ now \in Instant /\ lStep = 1
        BY <1>a, <1>b, <3>1 DEF BeginCycle, LoopTypes, Positions, SlotTypes
      <4>1. /\ now' \in Instant /\ lTick' \in Instant /\ lSlot' \in Slot /\ lScan' = 1
            /\ lBest' = Latest /\ lpc' \in {"hint", "scan"} /\ lStep = 1
            /\ UNCHANGED <<lStep, lAdded, lSeen>>
        BY <3>1, <4>0 DEF BeginCycle
      <4>2. LoopTypes'
        BY <1>a, <4>1 DEF LoopTypes
      <4>3. Positions'
        BY <1>a, <2>1, <4>1 DEF Positions
      <4> QED
        BY <4>2, <4>3
    <3>2. CASE ForgetHint
      BY <1>a, <1>b, <2>1, <3>2 DEF ForgetHint, LoopTypes, Positions, SlotTypes
    <3>3. CASE TryHint
      <4>1. /\ lSlot' \in Slot /\ lpc' \in {"claim", "scan"} /\ lStep = 1
            /\ UNCHANGED <<now, lTick, lScan, lBest, lStep, lAdded, lSeen>>
        BY <1>a, <3>3 DEF TryHint, LoopTypes, Positions
      <4>2. LoopTypes'
        BY <1>a, <4>1 DEF LoopTypes
      <4>3. Positions'
        BY <1>a, <2>1, <4>1 DEF Positions
      <4> QED
        BY <4>2, <4>3
    <3>4. CASE ScanFree
      <4>1. lScan \in Slot /\ lScan + 1 \in 1 .. NumSlots + 1
        BY <1>a, <3>4 DEF ScanFree, LoopTypes
      <4> QED
        BY <1>a, <2>1, <3>4, <4>1 DEF ScanFree, LoopTypes, Positions
    <3>5. CASE CompareFree
      <4>1. lScan \in Slot /\ lScan + 1 \in 1 .. NumSlots + 1
        BY <1>a, <3>5 DEF CompareFree, LoopTypes, Positions
      <4>2. timestamp[lScan] \in 0 .. Latest
        BY <1>b, <4>1 DEF SlotTypes
      <4>3. lpc' = "scan" /\ lSlot' \in Slot /\ lBest' \in 0 .. Latest /\ lScan' = lScan + 1
        BY <1>a, <3>5, <4>1, <4>2 DEF CompareFree, LoopTypes
      <4> QED
        BY <1>a, <2>1, <3>5, <4>1, <4>3 DEF CompareFree, LoopTypes, Positions
    <3>6. CASE WaitUnlocked
      BY <1>a, <1>b, <2>1, <3>6 DEF WaitUnlocked, LoopTypes, Positions, SlotTypes
    <3>7. CASE AddElement
      <4>1. lSlot \in Slot /\ lStep = 1 /\ total[lSlot] \in 0 .. Room
        <5>1. lpc = "fill"
          BY <3>7 DEF AddElement
        <5>2. lSlot \in Slot /\ lStep = 1
          BY <1>a, <5>1 DEF LoopTypes, Positions
        <5> QED
          BY <1>b, <5>2 DEF SlotTypes
      <4>2. /\ lAdded' \in 0 .. Elements /\ lpc' \in {"fill", "add"} /\ lSeen' \in 0 .. Room
            /\ lpc' = "add" => lSeen' = total[lSlot] /\ total[lSlot] < Room
            /\ UNCHANGED <<now, lTick, lSlot, lScan, lBest, lStep>>
        <5>1. lpc = "fill" /\ lAdded \in 0 .. Elements /\ lSeen \in 0 .. Room
          BY <1>a, <3>7 DEF AddElement, LoopTypes
        <5> QED
          BY <3>7, <4>1, <5>1 DEF AddElement
      <4>5. lpc' = "add" => lSeen' < Room /\ total'[lSlot'] <= lSeen'
        BY <2>1, <4>1, <4>2
      <4>6. /\ now \in Instant /\ lTick \in Instant /\ lSlot \in Slot
            /\ lScan \in 1 .. NumSlots + 1 /\ lBest \in 0 .. Latest /\ lStep \in 1 .. 4
        BY <1>a DEF LoopTypes
      <4>3. LoopTypes'
        BY ONLY <4>2, <4>5, <4>6 DEF LoopTypes
      <4>4. Positions'
        BY <1>a, <2>1, <4>1, <4>2 DEF Positions
      <4> QED
        BY <4>3, <4>4
    <3>8. CASE EcuOff
      BY <1>a, <1>b, <2>1, <3>8 DEF EcuOff, LoopTypes, Positions, SlotTypes
    <3>9. CASE Stop
      BY <1>a, <1>b, <2>1, <3>9 DEF Stop, LoopTypes, Positions, SlotTypes
    <3> QED
      BY <1>1, <3>1, <3>2, <3>3, <3>4, <3>5, <3>6, <3>7, <3>8, <3>9 DEF LoopLooks
  <2> QED
    BY <2>2, <2>3
<1>2. CASE TelemetryLooks
  <2>1. UNCHANGED <<slotVars, loopVars, record, published, dropped, now>>
    BY <1>2 DEF TelemetryLooks, Poll, ScanFilled, CompareFilled, NothingFilled, TakeTick, Header,
       Serialize, Resolve, GiveHint, Deliver, StandbyPurge, PurgeAllDone
  <2>2. last' \in Slot \cup {Null} /\ delivered' \in SUBSET Instant
    BY <1>2, <1>a, <1>b, <1>c DEF TelemetryLooks, Poll, ScanFilled, CompareFilled, NothingFilled,
       TakeTick, Header, Serialize, Resolve, GiveHint, Deliver, StandbyPurge, PurgeAllDone, SlotTypes,
       Recorded, TelemetryTypes, Positions, PacketType
  <2>3. SlotTypes' /\ LoopTypes' /\ Recorded'
    BY <1>a, <1>b, <2>1, <2>2 DEF SlotTypes, LoopTypes, Recorded
  <2>4. packet' \in PacketType
    <3>1. CASE TakeTick \/ Header \/ Serialize
      <4>1. tSlot \in Slot /\ packet \in PacketType
        BY <3>1, <1>a, <1>c DEF TakeTick, Header, Serialize, TelemetryTypes, Positions
      <4>2. tick[tSlot] \in Instant /\ timestamp[tSlot] \in Instant /\ total[tSlot] \in 0 .. Room
        BY <1>b, <4>1 DEF SlotTypes
      <4>3. \/ packet' = [packet EXCEPT !.tick = tick[tSlot]]
            \/ packet' = [packet EXCEPT !.timestamp = timestamp[tSlot]]
            \/ packet' = [packet EXCEPT !.total = total[tSlot]]
        BY <3>1 DEF TakeTick, Header, Serialize
      <4> QED
        BY <4>1, <4>2, <4>3 DEF PacketType
    <3>2. CASE Resolve
      <4>1. tSlot \in Slot /\ packet \in PacketType
        BY <3>2, <1>a, <1>c DEF Resolve, TelemetryTypes, Positions
      <4>2. tick[tSlot] \in Instant /\ packet.tick \in Instant
        BY <1>b, <4>1 DEF SlotTypes, PacketType
      <4>3. \E t \in Instant : packet' = [packet EXCEPT !.tick = t]
        BY <3>2, <4>2 DEF Resolve
      <4> QED
        BY <4>1, <4>3 DEF PacketType
    <3>3. CASE Deliver
      BY <3>3, RingAssumption DEF Deliver, NoPacket, PacketType
    <3>4. packet' = packet \/ TakeTick \/ Header \/ Serialize \/ Resolve \/ Deliver
      BY <1>2 DEF TelemetryLooks, Poll, ScanFilled, CompareFilled, NothingFilled, GiveHint,
         StandbyPurge, PurgeAllDone
    <3>5. packet \in PacketType
      BY <1>c DEF TelemetryTypes
    <3> QED
      BY <3>1, <3>2, <3>3, <3>4, <3>5
  <2>5. TelemetryTypes' /\ Positions'
    <3>1. CASE Poll
      BY <1>a, <1>b, <1>c, <1>d, <2>1, <2>4, <3>1 DEF Poll, TelemetryTypes, Positions, LastScanned, SlotTypes
    <3>2. CASE ScanFilled
      <4>1. tScan \in Slot /\ tScan + 1 \in 1 .. NumSlots + 1
        BY <1>c, <3>2 DEF ScanFilled, TelemetryTypes, LastScanned
      <4> QED
        BY <1>a, <1>c, <1>d, <2>1, <2>4, <3>2, <4>1 DEF ScanFilled, TelemetryTypes, Positions
    <3>3. CASE CompareFilled
      <4>1. tScan \in Slot /\ tScan + 1 \in 1 .. NumSlots + 1
        BY <1>a, <1>c, <3>3 DEF CompareFilled, TelemetryTypes, Positions
      <4>2. timestamp[tScan] \in 0 .. Latest
        BY <1>b, <4>1 DEF SlotTypes
      <4>3. tpc' = "scan" /\ tSlot' \in Slot \cup {Null} /\ tBest' \in 0 .. Latest /\ tScan' = tScan + 1
        BY <1>c, <3>3, <4>1, <4>2 DEF CompareFilled, TelemetryTypes
      <4> QED
        BY <1>a, <1>c, <1>d, <2>1, <2>4, <3>3, <4>1, <4>3 DEF CompareFilled, TelemetryTypes, Positions
    <3>4. CASE NothingFilled
      BY <1>a, <1>b, <1>c, <1>d, <2>1, <2>4, <3>4 DEF NothingFilled, TelemetryTypes, Positions, LastScanned, SlotTypes
    <3>5. CASE TakeTick
      BY <1>a, <1>b, <1>c, <1>d, <2>1, <2>4, <3>5 DEF TakeTick, TelemetryTypes, Positions, LastScanned, SlotTypes
    <3>6. CASE Header
      BY <1>a, <1>b, <1>c, <1>d, <2>1, <2>4, <3>6 DEF Header, TelemetryTypes, Positions, LastScanned, SlotTypes
    <3>7. CASE Serialize
      BY <1>a, <1>b, <1>c, <1>d, <2>1, <2>4, <3>7 DEF Serialize, TelemetryTypes, Positions, LastScanned, SlotTypes
    <3>8. CASE Resolve
      BY <1>a, <1>b, <1>c, <1>d, <2>1, <2>4, <3>8 DEF Resolve, TelemetryTypes, Positions, LastScanned, SlotTypes
    <3>9. CASE GiveHint
      BY <1>a, <1>b, <1>c, <1>d, <2>1, <2>4, <3>9 DEF GiveHint, TelemetryTypes, Positions, LastScanned, SlotTypes
    <3>10. CASE Deliver
      BY <1>a, <1>b, <1>c, <1>d, <2>1, <2>4, <3>10 DEF Deliver, TelemetryTypes, Positions, LastScanned, SlotTypes
    <3>11. CASE StandbyPurge
      BY <1>a, <1>b, <1>c, <1>d, <2>1, <2>4, <3>11 DEF StandbyPurge, TelemetryTypes, Positions, LastScanned, SlotTypes
    <3>12. CASE PurgeAllDone
      BY <1>a, <1>b, <1>c, <1>d, <2>1, <2>4, <3>12 DEF PurgeAllDone, TelemetryTypes, Positions, LastScanned, SlotTypes
    <3> QED
      BY <1>2, <3>1, <3>2, <3>3, <3>4, <3>5, <3>6, <3>7, <3>8, <3>9, <3>10, <3>11, <3>12 DEF TelemetryLooks
  <2> QED
    BY <2>3, <2>5
<1>3. CASE Rotate
  <2>1. lStep \in 1 .. 4 /\ lSlot \in Slot /\ PurgeStore(lStep, lSlot)
    BY <1>3, <1>a DEF Rotate, LoopTypes
  <2>2. SlotTypes' /\ Recorded'
    BY <1>3, <1>b, <2>1, PurgedTypes DEF Rotate
  <2>3. LoopTypes' /\ TelemetryTypes' /\ Positions'
    BY <1>3, <1>a, <1>c, <1>d DEF Rotate, LoopTypes, TelemetryTypes, Positions
  <2> QED
    BY <2>2, <2>3
<1>4. CASE Claim \/ Date
  <2>1. SlotTypes'
    <3>1. lSlot \in Slot /\ lTick \in Instant
      BY <1>a DEF LoopTypes
    <3>2. CASE Claim
      BY <1>b, <3>1, <3>2 DEF Claim, SlotTypes
    <3>3. CASE Date
      BY <1>b, <3>1, <3>3 DEF Date, SlotTypes
    <3> QED
      BY <1>4, <3>2, <3>3
  <2>3. Recorded'
    BY <1>4, <1>a, <1>b DEF Claim, Date, LoopTypes, Recorded
  <2>2. LoopTypes' /\ TelemetryTypes' /\ Positions'
    BY <1>4, <1>a, <1>c, <1>d DEF Claim, Date, LoopTypes, TelemetryTypes, Positions
  <2> QED
    BY <2>1, <2>2, <2>3
<1>5. CASE StoreElement
  <2>1. \A n \in {lSeen, total[lSlot]} : n + 1 \in 0 .. Room
    <3>1. lpc = "add"
      BY <1>5 DEF StoreElement, LoopAt
    <3>2. lSlot \in Slot /\ lSeen \in 0 .. Room /\ lSeen < Room /\ total[lSlot] <= lSeen
      BY <1>a, <3>1 DEF LoopTypes
    <3>3. total[lSlot] \in 0 .. Room
      BY <1>b, <3>2 DEF SlotTypes
    <3>4. Room \in Nat
      BY RingAssumption
    <3> QED
      BY <3>2, <3>3, <3>4
  <2>2. SlotTypes' /\ Recorded'
    <3>1. lSlot \in Slot
      BY <1>a DEF LoopTypes
    <3>2. PICK n \in {lSeen, total[lSlot]} : total' = [total EXCEPT ![lSlot] = n + 1]
      BY <1>5 DEF StoreElement
    <3>3. /\ n + 1 \in 0 .. Room
          /\ UNCHANGED <<state, tick, timestamp, last, record, published, dropped, delivered>>
      BY <1>5, <2>1, <3>2 DEF StoreElement, histVars
    <3> QED
      BY <1>b, <3>1, <3>2, <3>3 DEF SlotTypes, Recorded
  <2>3. LoopTypes' /\ TelemetryTypes' /\ Positions'
    BY <1>5, <1>a, <1>c, <1>d DEF StoreElement, LoopTypes, TelemetryTypes, Positions
  <2> QED
    BY <2>2, <2>3
<1>6. CASE Stamp \/ Publish
  <2>1. lTick \in Capture
    BY <1>6 DEF IInv, Names, Stamp, Publish
  <2>2. SlotTypes'
    <3>1. lSlot \in Slot /\ lTick \in Instant
      BY <1>a DEF LoopTypes
    <3>2. CASE Stamp
      BY <1>b, <3>1, <3>2 DEF Stamp, SlotTypes
    <3>3. CASE Publish
      <4>1. state' = [state EXCEPT ![lSlot] = "FILLED"]
            /\ UNCHANGED <<tick, timestamp, total, last>>
        BY <3>3 DEF Publish
      <4> QED
        BY <1>b, <3>1, <4>1 DEF SlotTypes, SlotState
    <3> QED
      BY <1>6, <3>2, <3>3
  <2>4. Recorded'
    BY <1>6, <1>b, <2>1 DEF Stamp, Publish, Recorded, histVars
  <2>3. LoopTypes' /\ TelemetryTypes' /\ Positions'
    <3>1. CASE Stamp
      BY <1>a, <1>c, <1>d, <3>1 DEF Stamp, LoopTypes, TelemetryTypes, Positions, telVars
    <3>2. CASE Publish
      BY <1>a, <1>c, <1>d, <3>2 DEF Publish, LoopTypes, TelemetryTypes, Positions, telVars
    <3> QED
      BY <1>6, <3>1, <3>2
  <2> QED
    BY <2>2, <2>3, <2>4
<1>7. CASE Lock
  <2>1. tSlot \in Slot
    BY <1>7, <1>c DEF Lock, TelemetryTypes
  <2>2. SlotTypes' /\ Recorded' /\ LoopTypes' /\ Positions'
    BY <1>7, <1>a, <1>b, <2>1 DEF Lock, LoopTypes, SlotTypes, Recorded, Positions
  <2>3. TelemetryTypes'
    <3>1. record[tSlot] \in Instant
      BY <1>b, <2>1 DEF Recorded
    <3>2. packet' \in PacketType
      BY <1>7, <3>1 DEF Lock, PacketType, NoPacket
    <3>3. tpc' = "take" /\ tScan' = 1 /\ tBest' = 0 /\ UNCHANGED <<tOrder, tSlot, tStep>>
      BY <1>7 DEF Lock
    <3> QED
      BY <1>c, <1>d, <3>2, <3>3 DEF TelemetryTypes
  <2> QED
    BY <2>2, <2>3
<1>8. CASE Free
  <2>1. tStep \in 1 .. 4 /\ tSlot \in Slot /\ PurgeStore(tStep, tSlot)
    BY <1>8, <1>a, <1>c DEF Free, TelemetryTypes, Positions
  <2>2. SlotTypes' /\ Recorded' /\ total'[lSlot] \in {total[lSlot], 0}
    BY <1>8, <1>a, <1>b, <2>1, PurgedTypes DEF Free, LoopTypes
  <2>5. total[lSlot] \in 0 .. Room
    BY <1>a, <1>b DEF SlotTypes, LoopTypes
  <2>3. LoopTypes'
    BY <1>8, <1>a, <2>2, <2>5 DEF Free, LoopTypes
  <2>4. TelemetryTypes' /\ Positions'
    BY <1>8, <1>a, <1>c, <1>d DEF Free, TelemetryTypes, Positions
  <2> QED
    BY <2>2, <2>3, <2>4
<1>9. CASE PurgeAll
  <2>1. tStep \in 1 .. 4 /\ tScan \in Slot /\ PurgeStore(tStep, tScan)
    BY <1>9, <1>a, <1>c DEF PurgeAll, TelemetryTypes, Positions
  <2>2. SlotTypes' /\ Recorded' /\ total'[lSlot] \in {total[lSlot], 0}
    BY <1>9, <1>a, <1>b, <2>1, PurgedTypes DEF PurgeAll, LoopTypes
  <2>5. total[lSlot] \in 0 .. Room
    BY <1>a, <1>b DEF SlotTypes, LoopTypes
  <2>3. LoopTypes'
    BY <1>9, <1>a, <2>2, <2>5 DEF PurgeAll, LoopTypes
  <2>4. TelemetryTypes' /\ Positions'
    BY <1>9, <1>a, <1>c, <1>d, <2>1 DEF PurgeAll, TelemetryTypes, Positions
  <2> QED
    BY <2>2, <2>3, <2>4
<1> QED
  BY <1>d, <1>1, <1>2, <1>3, <1>4, <1>5, <1>6, <1>7, <1>8, <1>9 DEF LoopStep, TelemetryStep, Loop,
     Telemetry, LoopLooks, TelemetryLooks

-----------------------------------------------------------------------------
(***************************************************************************)
(* What the histories know.                                                *)
(***************************************************************************)
\* What a state spoils is spoiled in it, and stays so.
LEMMA SpoilsNow ==
  ASSUME Next
  PROVE  /\ spoiled \subseteq spoiled'
         /\ \A s \in Slot : Meets(s)' => record'[s] \in spoiled' /\ packet'.rec \in spoiled'
         /\ lpc' = "off" => record'[lSlot'] \in spoiled'
         /\ lpc' = "claim" /\ record'[lSlot'] \notin published' \cup {0} => lTick' \in spoiled'
<1>1. spoiled' = spoiled \cup Spoils'
  BY DEF Next, LoopStep, TelemetryStep, Observe
<1>2. \A s \in Slot : Meets(s)' => s \in Met'
  BY DEF Met, Meets, LoopFills, LoopPurges, TelemetryHolds, TelemetryPurges
<1>3. \A s \in Slot : Meets(s)' => record'[s] \in Spoils' /\ packet'.rec \in Spoils'
  BY <1>2 DEF Spoils
<1> QED
  BY <1>1, <1>3 DEF Spoils

LEMMA SpoiledBefore ==
  ASSUME Seen
  PROVE  /\ \A s \in Slot : Meets(s) => record[s] \in spoiled /\ packet.rec \in spoiled
         /\ lpc = "off" => record[lSlot] \in spoiled
BY DEF Seen, Spoils, Met

\* The loop's steps that only touch its own slot, and the one that begins a cycle, keep the
\* names apart.
LEMMA StepNames ==
  ASSUME IInv, Next
  PROVE  Names'
<1>1. /\ Names /\ lSlot \in Slot /\ now \in Instant /\ record \in [Slot -> Instant]
      /\ lpc # "compare" \/ lScan \in Slot
  BY DEF IInv, TypeOK, LoopTypes, HistoryTypes, Positions
<1> USE RingAssumption DEF Capture, Instant, LoopAt, slotVars, loopVars, telVars, histVars
<1>2. CASE BeginCycle
  BY <1>1, <1>2 DEF BeginCycle, Names, Filling
<1>3. CASE Claim
  BY <1>1, <1>3 DEF Claim, Names, Filling
<1>4. CASE Publish
  BY <1>1, <1>4 DEF Publish, Names, Filling
<1>5. CASE ForgetHint \/ TryHint \/ ScanFree \/ CompareFree \/ WaitUnlocked \/ Rotate
  <2>1. /\ UNCHANGED <<lTick, now, record, published>>
        /\ lpc \in {"hint", "try", "scan", "compare", "purge"}
        /\ lpc' \in {"try", "scan", "compare", "purge", "claim"}
    <3>1. UNCHANGED <<lTick, now, record, published>>
      BY <1>5 DEF ForgetHint, TryHint, ScanFree, CompareFree, WaitUnlocked, Rotate
    <3>2. CASE Rotate
      BY <3>1, <3>2 DEF Rotate
    <3> QED
      BY <1>5, <3>1, <3>2 DEF ForgetHint, TryHint, ScanFree, CompareFree, WaitUnlocked
  <2> QED
    BY <1>1, <2>1 DEF Names, Filling
<1>8. CASE Stop
  BY <1>1, <1>8 DEF Stop, Names, Filling
<1>6. CASE Date \/ AddElement \/ StoreElement \/ EcuOff \/ Stamp
  <2>1. /\ UNCHANGED <<lTick, now, record, published, lSlot>>
        /\ lpc \in {"date", "fill", "add"} /\ lpc' \in {"fill", "add", "off", "stamped"}
    BY <1>6 DEF Date, AddElement, StoreElement, EcuOff, Stamp
  <2> QED
    BY <1>1, <2>1 DEF Names, Filling
<1>7. CASE Telemetry
  <2>1. UNCHANGED <<lTick, now, record, published, lSlot, lpc>>
    BY <1>7 DEF Telemetry, Poll, ScanFilled, CompareFilled, NothingFilled, Lock, TakeTick, Header,
       Serialize, Resolve, Free, GiveHint, Deliver, StandbyPurge, PurgeAll, PurgeAllDone
  <2> QED
    BY <1>1, <2>1 DEF Names, Filling
<1> QED
  BY <1>2, <1>3, <1>4, <1>5, <1>6, <1>7, <1>8 DEF Next, LoopStep, TelemetryStep, Loop

-----------------------------------------------------------------------------
(***************************************************************************)
(* What the two tasks make of a slot. Each fact below is about one step.   *)
(***************************************************************************)
\* The shapes of the variables, as far as the lemmas below need them.
Shapes ==
  /\ state \in [Slot -> SlotState] /\ tick \in [Slot -> Instant]
  /\ timestamp \in [Slot -> Instant] /\ total \in [Slot -> 0 .. Room]
  /\ record \in [Slot -> Instant]
  /\ lSlot \in Slot /\ lStep \in 1 .. 4 /\ tStep \in 1 .. 4 /\ tSlot \in Slot \cup {Null}
  /\ lScan \in 1 .. NumSlots + 1 /\ tScan \in 1 .. NumSlots + 1

\* What a step of the loop leaves alone, and what it can make of a slot's mark.
LEMMA LoopTouches ==
  ASSUME IInv, Loop
  PROVE  /\ UNCHANGED <<tpc, tSlot, tScan, tStep, packet, delivered>>
         /\ LoopLooks => UNCHANGED <<slotVars, histVars>>
         /\ ~LoopLooks => lTick' = lTick /\ now' = now
         /\ ~LoopLooks /\ ~Publish => lSlot' = lSlot /\ published' = published
         /\ ~LoopLooks /\ ~Claim => record' = record
         /\ ~LoopLooks /\ ~Rotate => dropped' = dropped
         /\ \A s \in Slot : s # lSlot =>
              /\ state'[s] = state[s] /\ tick'[s] = tick[s] /\ timestamp'[s] = timestamp[s]
              /\ total'[s] = total[s] /\ record'[s] = record[s]
<1>1. Shapes
  BY DEF IInv, TypeOK, SlotTypes, LoopTypes, TelemetryTypes, HistoryTypes, Shapes
<1> USE DEF LoopAt, slotVars, telVars, histVars
<1>2. CASE LoopLooks
  BY <1>2 DEF LoopLooks, BeginCycle, ForgetHint, TryHint, ScanFree, CompareFree, WaitUnlocked,
     AddElement, EcuOff, Stop
<1>3. CASE Rotate /\ ~LoopLooks
  <2>1. PurgeStore(lStep, lSlot)
    BY <1>3 DEF Rotate
  <2>2. \A s \in Slot : s # lSlot =>
          /\ state'[s] = state[s] /\ tick'[s] = tick[s] /\ timestamp'[s] = timestamp[s]
          /\ total'[s] = total[s]
    BY <1>1, <2>1, PurgeFacts DEF IInv, TypeOK, Shapes
  <2> QED
    BY <1>3, <2>2 DEF Rotate
<1>4. CASE (Claim \/ Date \/ StoreElement \/ Stamp \/ Publish) /\ ~LoopLooks
  <2>1. UNCHANGED <<tpc, tSlot, tScan, tStep, packet, delivered, lTick, now, dropped>>
    BY <1>4 DEF Claim, Date, StoreElement, Stamp, Publish
  <2>2. \A s \in Slot : s # lSlot =>
              /\ state'[s] = state[s] /\ tick'[s] = tick[s] /\ timestamp'[s] = timestamp[s]
              /\ total'[s] = total[s] /\ record'[s] = record[s]
    BY <1>1, <1>4 DEF Claim, Date, StoreElement, Stamp, Publish, Shapes
  <2>3. ~Publish => lSlot' = lSlot /\ published' = published
    BY <1>4 DEF Claim, Date, StoreElement, Stamp
  <2>4. ~Claim => record' = record
    BY <1>4 DEF Publish, Date, StoreElement, Stamp
  <2> QED
    BY <1>4, <2>1, <2>2, <2>3, <2>4
<1> QED
  BY <1>2, <1>3, <1>4 DEF Loop, LoopLooks

\* A slot that is wiped, or is being wiped by telemetry.
Wiped(s) == total[s] = 0 \/ TelemetryPurges(s) \/ TelemetryHolds(s)

\* The slot a step of telemetry stores to, if any.
TelemetryAt(s) == (Lock /\ s = tSlot) \/ (Free /\ s = tSlot) \/ (PurgeAll /\ s = tScan)

\* What a step of telemetry leaves alone, and what it can make of a slot.
LEMMA TelemetryTouches ==
  ASSUME IInv, Telemetry
  PROVE  /\ UNCHANGED <<loopVars, now, record, published>>
         /\ ~PurgeAll /\ ~Free => dropped' = dropped
         /\ ~Deliver => delivered' = delivered
         /\ \A s \in Slot : ~TelemetryAt(s) =>
              /\ state'[s] = state[s] /\ tick'[s] = tick[s] /\ timestamp'[s] = timestamp[s]
              /\ total'[s] = total[s]
         /\ \A s \in Slot : state'[s] = "FILLED" => state[s] = "FILLED"
         /\ \A s \in Slot : timestamp'[s] \in {timestamp[s], 0}
<1>1. Shapes
  BY DEF IInv, TypeOK, SlotTypes, LoopTypes, TelemetryTypes, HistoryTypes, Shapes
<1> USE DEF slotVars, loopVars, histVars
<1>2. CASE TelemetryLooks
  BY <1>2 DEF TelemetryLooks, Poll, ScanFilled, CompareFilled, NothingFilled, TakeTick, Header,
     Serialize, Resolve, GiveHint, Deliver, StandbyPurge, PurgeAllDone
<1>3. CASE Lock
  <2>1. tSlot \in Slot
    BY <1>1, <1>3 DEF Lock, Shapes
  <2>2. UNCHANGED <<loopVars, now, record, published, dropped, delivered, tick, timestamp, total>>
    BY <1>3 DEF Lock
  <2>5. \A s \in Slot : s # tSlot => state'[s] = state[s]
    BY <1>1, <1>3, <2>1 DEF Lock, Shapes
  <2>3. \A s \in Slot : ~TelemetryAt(s) => state'[s] = state[s]
    BY <1>3, <2>5 DEF TelemetryAt
  <2>4. \A s \in Slot : state'[s] = "FILLED" => state[s] = "FILLED"
    BY <1>1, <1>3, <2>1 DEF Lock, Shapes
  <2> QED
    BY <2>2, <2>3, <2>4
<1>4. ASSUME NEW u \in Slot, PurgeStore(tStep, u), (Free /\ u = tSlot) \/ (PurgeAll /\ u = tScan)
      PROVE  /\ \A s \in Slot : ~TelemetryAt(s) =>
                  /\ state'[s] = state[s] /\ tick'[s] = tick[s] /\ timestamp'[s] = timestamp[s]
                  /\ total'[s] = total[s]
             /\ \A s \in Slot : state'[s] = "FILLED" => state[s] = "FILLED"
             /\ \A s \in Slot : timestamp'[s] \in {timestamp[s], 0}
  <2>1. SlotTypes /\ tStep \in 1 .. 4
    BY <1>1 DEF IInv, TypeOK, Shapes
  <2>2. \A s \in Slot : s # u => /\ state'[s] = state[s] /\ tick'[s] = tick[s]
                                 /\ timestamp'[s] = timestamp[s] /\ total'[s] = total[s]
    BY <1>4, <2>1, PurgeFacts
  <2>3. state'[u] \in {state[u], "EMPTY"} /\ timestamp'[u] \in {timestamp[u], 0}
    BY <1>4, <2>1, PurgeFacts
  <2>4. TelemetryAt(u)
    BY <1>4 DEF TelemetryAt
  <2> QED
    BY <2>2, <2>3, <2>4
<1>5. CASE Free
  <2>1. tSlot \in Slot /\ PurgeStore(tStep, tSlot)
    BY <1>5 DEF Free, IInv, Positions
  <2>2. UNCHANGED <<loopVars, now, record, published, delivered>>
    BY <1>5 DEF Free
  <2>3. Free /\ tSlot = tSlot
    BY <1>5
  <2>4. /\ \A s \in Slot : ~TelemetryAt(s) =>
             /\ state'[s] = state[s] /\ tick'[s] = tick[s] /\ timestamp'[s] = timestamp[s]
             /\ total'[s] = total[s]
        /\ \A s \in Slot : state'[s] = "FILLED" => state[s] = "FILLED"
        /\ \A s \in Slot : timestamp'[s] \in {timestamp[s], 0}
    BY <1>4, <2>1, <2>3
  <2> QED
    BY <1>5, <2>2, <2>4
<1>6. CASE PurgeAll
  <2>1. tScan \in Slot /\ PurgeStore(tStep, tScan)
    BY <1>1, <1>6, RingAssumption DEF PurgeAll, Shapes, Slot
  <2> QED
    BY <1>4, <1>6, <2>1 DEF PurgeAll
<1> QED
  BY <1>2, <1>3, <1>5, <1>6 DEF Telemetry, TelemetryLooks

\* Telemetry lets go of a slot only when it has wiped it, and clears no mark without going on.
LEMMA WipedStays ==
  ASSUME IInv, Telemetry, NEW s \in Slot
  PROVE  /\ Wiped(s) => Wiped(s)'
         /\ state'[s] = "EMPTY" => state[s] = "EMPTY" \/ Wiped(s)'
<1>1. Shapes /\ Positions
  BY DEF IInv, TypeOK, SlotTypes, LoopTypes, TelemetryTypes, HistoryTypes, Shapes
<1>2. ~TelemetryAt(s) => state'[s] = state[s] /\ total'[s] = total[s]
  BY TelemetryTouches
<1> USE DEF Wiped, TelemetryPurges, TelemetryHolds
<1>3. CASE TelemetryLooks
  <2>1. ~TelemetryAt(s)
    BY <1>3 DEF TelemetryLooks, Poll, ScanFilled, CompareFilled, NothingFilled, TakeTick, Header,
     Serialize, Resolve, GiveHint, Deliver, StandbyPurge, PurgeAllDone, TelemetryAt, Lock, Free, PurgeAll
  <2>2. TelemetryPurges(s) => TelemetryPurges(s)'
    BY <1>1, <1>3, RingAssumption DEF TelemetryLooks, Poll, ScanFilled, CompareFilled, NothingFilled,
     TakeTick, Header, Serialize, Resolve, GiveHint, Deliver, StandbyPurge, PurgeAllDone, Positions, Slot
  <2>3. TelemetryHolds(s) => TelemetryHolds(s)'
    BY <1>3 DEF TelemetryLooks, Poll, ScanFilled, CompareFilled, NothingFilled,
     TakeTick, Header, Serialize, Resolve, GiveHint, Deliver, StandbyPurge, PurgeAllDone
  <2> QED
    BY <1>2, <2>1, <2>2, <2>3
<1>4. CASE Lock
  <2>1. CASE s = tSlot
    BY <1>4, <2>1 DEF Lock
  <2>2. CASE s # tSlot
    <3>1. ~TelemetryPurges(s) /\ ~TelemetryHolds(s)
      BY <1>4 DEF Lock
    <3>2. ~TelemetryAt(s)
      BY <1>4, <2>2 DEF Lock, TelemetryAt, Free, PurgeAll
    <3> QED
      BY <1>2, <3>1, <3>2
  <2> QED
    BY <2>1, <2>2
<1>5. CASE Free
  <2>1. tSlot \in Slot /\ PurgeStore(tStep, tSlot)
    BY <1>1, <1>5 DEF Free, Positions
  <2>2. CASE s = tSlot
    <3>1. CASE tStep < 4
      BY <1>5, <2>2, <3>1 DEF Free
    <3>2. CASE ~(tStep < 4)
      <4>1. tStep = 4
        BY <1>1, <3>2 DEF Shapes
      <4> QED
        BY <2>1, <2>2, <4>1, PurgeFacts DEF IInv, TypeOK
    <3> QED
      BY <3>1, <3>2
  <2>3. CASE s # tSlot
    <3>1. ~TelemetryPurges(s) /\ ~TelemetryHolds(s)
      BY <1>5, <2>3 DEF Free
    <3>2. ~TelemetryAt(s)
      BY <1>5, <2>3 DEF Free, TelemetryAt, Lock, PurgeAll
    <3> QED
      BY <1>2, <3>1, <3>2
  <2> QED
    BY <2>2, <2>3
<1>6. CASE PurgeAll
  <2>1. tScan \in Slot /\ PurgeStore(tStep, tScan)
    BY <1>1, <1>6, RingAssumption DEF PurgeAll, Shapes, Slot
  <2>2. CASE s = tScan
    <3>1. CASE tStep < 4
      BY <1>1, <1>6, <2>2, <3>1 DEF PurgeAll, Shapes
    <3>2. CASE ~(tStep < 4)
      <4>1. tStep = 4
        BY <1>1, <3>2 DEF Shapes
      <4> QED
        BY <2>1, <2>2, <4>1, PurgeFacts DEF IInv, TypeOK
    <3> QED
      BY <3>1, <3>2
  <2>3. CASE s # tScan
    <3>1. ~TelemetryPurges(s) /\ ~TelemetryHolds(s)
      BY <1>6, <2>3 DEF PurgeAll
    <3>2. ~TelemetryAt(s)
      BY <1>6, <2>3 DEF Free, TelemetryAt, Lock, PurgeAll
    <3> QED
      BY <1>2, <3>1, <3>2
  <2> QED
    BY <2>2, <2>3
<1> QED
  BY <1>3, <1>4, <1>5, <1>6 DEF Telemetry, TelemetryLooks

\* Telemetry comes to a slot only by locking it or by purging it.
LEMMA TelemetryComes ==
  ASSUME IInv, Telemetry, NEW s \in Slot
  PROVE  /\ TelemetryHolds(s)' => TelemetryHolds(s) \/ (Lock /\ s = tSlot)
         /\ TelemetryPurges(s)' => TelemetryPurges(s) \/ (PurgeAll /\ s = tScan /\ tStep = 1)
<1>1. Shapes /\ Positions
  BY DEF IInv, TypeOK, SlotTypes, LoopTypes, TelemetryTypes, HistoryTypes, Shapes
<1> USE DEF TelemetryPurges, TelemetryHolds
<1>3. CASE TelemetryLooks
  <2>1. tpc' \in {"take", "header", "serialize", "resolve", "free"} =>
          tpc \in {"take", "header", "serialize", "resolve"} /\ tSlot' = tSlot
    BY <1>3 DEF TelemetryLooks, Poll, ScanFilled, CompareFilled, NothingFilled,
     TakeTick, Header, Serialize, Resolve, GiveHint, Deliver, StandbyPurge, PurgeAllDone
  <2>2. tpc' = "purge" => tStep' = 1
    BY <1>1, <1>3 DEF TelemetryLooks, Poll, ScanFilled, CompareFilled, NothingFilled, Shapes,
     TakeTick, Header, Serialize, Resolve, GiveHint, Deliver, StandbyPurge, PurgeAllDone, Positions
  <2> QED
    BY <2>1, <2>2
<1>4. CASE Lock
  <2>1. tpc' = "take" /\ tSlot' = tSlot
    BY <1>4 DEF Lock
  <2> QED
    BY <1>4, <2>1
<1>5. CASE Free
  <2>1. tpc = "free" /\ tpc' \in {"free", "freed"} /\ tSlot' = tSlot
    BY <1>5 DEF Free
  <2> QED
    BY <2>1
<1>6. CASE PurgeAll
  <2>1. /\ tpc = "purge" /\ tpc' = "purge" /\ tScan' \in {tScan, tScan + 1}
        /\ tStep' # 1 => tScan' = tScan /\ tStep \in 1 .. 3
    BY <1>1, <1>6 DEF PurgeAll, Shapes
  <2>2. tStep' > 1 => tScan' = tScan /\ (tStep > 1 \/ tStep = 1)
    BY <1>1, <2>1 DEF Shapes
  <2>3. s = tScan' /\ tpc' = "purge" /\ tStep' > 1 => s = tScan /\ tpc = "purge" /\ (tStep > 1 \/ tStep = 1)
    BY <2>1, <2>2
  <2> QED
    BY <1>6, <2>1, <2>3
<1> QED
  BY <1>3, <1>4, <1>5, <1>6 DEF Telemetry, TelemetryLooks

-----------------------------------------------------------------------------
(***************************************************************************)
(* One lemma for each part of the invariant.                               *)
(***************************************************************************)
\* The slot the loop is filling is what the loop has made of it, unless telemetry came by.
LEMMA StepSlot ==
  ASSUME IInv, Next
  PROVE  SlotInProgress'
<1>1. /\ Shapes /\ SlotInProgress /\ EmptyIsWiped /\ Positions
      /\ lTick = now /\ (Filling => record[lSlot] = lTick)
  BY DEF IInv, TypeOK, SlotTypes, LoopTypes, TelemetryTypes, HistoryTypes, Shapes, Names
<1>2. spoiled \subseteq spoiled' /\ \A s \in Slot : Meets(s)' => record'[s] \in spoiled'
  BY SpoilsNow
<1>3. \A s \in Slot : Meets(s) => record[s] \in spoiled
  BY SpoiledBefore DEF IInv
<1> USE DEF LoopAt, Filling
<1>4. CASE LoopLooks
  <2>1. UNCHANGED slotVars /\ Loop
    BY <1>4, LoopTouches DEF LoopLooks, Loop
  <2>2. CASE AddElement
    <3>1. /\ lpc = "fill" /\ lAdded < Elements /\ lAdded' = lAdded + 1
          /\ UNCHANGED <<lSlot, lTick, tick, total, state>>
          /\ total[lSlot] < Room => lpc' = "add" /\ lSeen' = total[lSlot]
          /\ ~(total[lSlot] < Room) => lpc' = "fill"
      BY <2>2 DEF AddElement, slotVars
    <3>2. lTick \notin spoiled => tick[lSlot] = lTick /\ total[lSlot] = lAdded /\ total[lSlot] < Room
      BY <1>1, <3>1, RingAssumption DEF SlotInProgress, Shapes
    <3> QED
      BY <1>1, <1>2, <3>1, <3>2 DEF SlotInProgress
  <2>3. CASE TryHint \/ ScanFree
    <3>1. lpc' \in {"claim", "scan", "compare"} /\ (lpc' = "claim" => state[lSlot'] = "EMPTY")
      BY <2>3 DEF TryHint, ScanFree
    <3> QED
      BY <2>1, <3>1 DEF SlotInProgress, slotVars
  <2>4. CASE BeginCycle \/ ForgetHint \/ CompareFree \/ WaitUnlocked \/ EcuOff \/ Stop
    <3>1. lpc' \in {"hint", "try", "scan", "off", "parked", "idle"} \/ (lpc' = "purge" /\ lStep' = 1)
      BY <2>4 DEF BeginCycle, ForgetHint, CompareFree, WaitUnlocked, EcuOff, Stop
    <3> QED
      BY <3>1 DEF SlotInProgress
  <2> QED
    BY <1>4, <2>2, <2>3, <2>4 DEF LoopLooks
<1>5. CASE Rotate
  <2>1. PurgeStore(lStep, lSlot) /\ lSlot' = lSlot /\ lpc' \in {"purge", "claim"} /\ lpc = "purge"
    BY <1>5 DEF Rotate
  <2>2. state'[lSlot] # "FILLED"
    <3>1. CASE lStep = 1
      BY <1>1, <2>1, <3>1, PurgeFacts DEF IInv, TypeOK, Shapes
    <3>2. CASE lStep # 1
      BY <1>1, <2>1, <3>2, PurgeFacts DEF IInv, TypeOK, Shapes, SlotInProgress
    <3> QED
      BY <3>1, <3>2
  <2> QED
    BY <2>1, <2>2 DEF SlotInProgress
<1>6. CASE Claim
  <2>1. /\ lpc = "claim" /\ lpc' = "date" /\ lTick' = lTick /\ lSlot' = lSlot
        /\ state'[lSlot] = "FILLING" /\ total' = total /\ record'[lSlot] = lTick
        /\ UNCHANGED <<tpc, tSlot, tScan, tStep>>
    BY <1>1, <1>6, LoopTouches DEF Claim, Shapes, Loop
  <2>2. ASSUME lTick' \notin spoiled'
        PROVE  total'[lSlot] = 0
    <3>1. total[lSlot] = 0 \/ TelemetryPurges(lSlot) \/ TelemetryHolds(lSlot)
      BY <1>1, <1>2, <2>1, <2>2 DEF EmptyIsWiped
    <3>2. TelemetryPurges(lSlot) \/ TelemetryHolds(lSlot) => Meets(lSlot)'
      BY <2>1 DEF TelemetryPurges, TelemetryHolds, Meets, LoopFills
    <3> QED
      BY <1>1, <1>2, <2>1, <2>2, <3>1, <3>2 DEF Shapes
  <2> QED
    BY <2>1, <2>2 DEF SlotInProgress
<1>7. CASE Date
  BY <1>1, <1>2, <1>7 DEF Date, SlotInProgress, Shapes
<1>8. CASE StoreElement
  <2>1. /\ lpc = "add" /\ lpc' = "fill" /\ UNCHANGED <<state, tick, lTick, lSlot, lAdded>>
        /\ \E n \in {lSeen, total[lSlot]} : total'[lSlot] = n + 1
    BY <1>1, <1>8 DEF StoreElement, Shapes
  <2>2. lTick \notin spoiled => total[lSlot] = lSeen /\ lAdded = lSeen + 1 /\ tick[lSlot] = lTick
    BY <1>1, <2>1 DEF SlotInProgress
  <2> QED
    BY <1>1, <1>2, <2>1, <2>2 DEF SlotInProgress
<1>9. CASE Stamp
  BY <1>1, <1>2, <1>9 DEF Stamp, SlotInProgress, Shapes
<1>10. CASE Publish
  BY <1>10 DEF Publish, SlotInProgress
<1>11. CASE Telemetry
  <2>1. /\ UNCHANGED <<lpc, lTick, lSlot, lStep, lAdded, lSeen, record>>
        /\ state'[lSlot] = "FILLED" => state[lSlot] = "FILLED"
    BY <1>1, <1>11, TelemetryTouches DEF Shapes, loopVars
  <2>2. ASSUME Filling, lTick' \notin spoiled'
        PROVE  /\ tick'[lSlot] = tick[lSlot] /\ total'[lSlot] = total[lSlot]
               /\ timestamp'[lSlot] = timestamp[lSlot]
    <3>1. ~Meets(lSlot) /\ ~Meets(lSlot)'
      BY <1>1, <1>2, <1>3, <2>1, <2>2 DEF Shapes
    <3>2. LoopFills(lSlot) /\ LoopFills(lSlot)'
      BY <2>1, <2>2 DEF LoopFills
    <3>3. ~TelemetryHolds(lSlot) /\ ~TelemetryPurges(lSlot) /\ ~TelemetryPurges(lSlot)'
      BY <3>1, <3>2 DEF Meets
    <3>4. CASE Lock
      BY <3>4 DEF Lock
    <3>5. CASE ~Lock /\ TelemetryAt(lSlot)
      <4>1. PurgeAll /\ lSlot = tScan
        BY <3>3, <3>5 DEF TelemetryAt, Free, TelemetryHolds
      <4>2. tStep = 1
        BY <1>1, <3>3, <4>1 DEF PurgeAll, TelemetryPurges, Shapes
      <4>3. PurgeStore(1, lSlot)
        BY <4>1, <4>2 DEF PurgeAll
      <4> QED
        BY <1>1, <4>3, PurgeFacts DEF IInv, TypeOK, Shapes
    <3>6. CASE ~TelemetryAt(lSlot)
      BY <1>1, <1>11, <3>6, TelemetryTouches DEF Shapes
    <3> QED
      BY <3>4, <3>5, <3>6
  <2>3. ASSUME Filling, lTick' \notin spoiled'
        PROVE  /\ tick'[lSlot] = tick[lSlot] /\ total'[lSlot] = total[lSlot]
               /\ timestamp'[lSlot] = timestamp[lSlot] /\ lTick \notin spoiled
    BY <1>2, <2>1, <2>2, <2>3
  <2> QED
    BY <1>1, <2>1, <2>3 DEF SlotInProgress
<1> QED
  BY <1>4, <1>5, <1>6, <1>7, <1>8, <1>9, <1>10, <1>11 DEF Next, LoopStep, TelemetryStep, Loop, LoopLooks

\* A slot that is marked EMPTY has been wiped, or will have been when it is filled.
LEMMA StepEmpty ==
  ASSUME IInv, Next
  PROVE  EmptyIsWiped'
<1>1. Shapes /\ Names /\ EmptyIsWiped /\ Positions
  BY DEF IInv, TypeOK, SlotTypes, LoopTypes, TelemetryTypes, HistoryTypes, Shapes
<1>2. /\ spoiled \subseteq spoiled'
      /\ lpc' = "claim" /\ record'[lSlot'] \notin published' \cup {0} => lTick' \in spoiled'
  BY SpoilsNow
<1>3. /\ \A s \in Slot : state[s] = "EMPTY" =>
           Wiped(s) \/ LoopIsAt(s) \/ record[s] \notin published \cup {0}
      /\ lpc = "claim" /\ lTick \notin spoiled => Wiped(lSlot)
  BY <1>1 DEF EmptyIsWiped, Wiped
<1>4. SUFFICES /\ \A s \in Slot : state'[s] = "EMPTY" =>
                    Wiped(s)' \/ LoopIsAt(s)' \/ record'[s] \notin published' \cup {0}
               /\ \A s \in Slot : s = lSlot' /\ lpc' = "claim" /\ lTick' \notin spoiled' => Wiped(s)'
  <2>1. lSlot' \in Slot
    BY StepTypes DEF TypeOK, LoopTypes
  <2> QED
    BY <2>1 DEF EmptyIsWiped, Wiped, TelemetryPurges, TelemetryHolds, LoopIsAt
<1>5. CASE Loop
  <2>1. \A s \in Slot : total'[s] = total[s] /\ Wiped(s) => Wiped(s)'
    BY <1>5, LoopTouches DEF Wiped, TelemetryPurges, TelemetryHolds
  <2>2. CASE LoopLooks
    <3>1. UNCHANGED <<state, total, record, published>>
      BY <1>5, <2>2, LoopTouches DEF slotVars, histVars
    <3>2. ASSUME NEW s \in Slot, state[s] = "EMPTY", LoopIsAt(s)
          PROVE  LoopIsAt(s)' \/ record[s] \notin published \cup {0}
      <4>1. lpc \notin {"idle", "hint", "try", "scan", "compare", "off", "still"} /\ s = lSlot
        BY <3>2 DEF LoopIsAt, Filling
      <4>2. AddElement \/ EcuOff
        BY <2>2, <4>1 DEF LoopLooks, BeginCycle, ForgetHint, TryHint, ScanFree, CompareFree,
           WaitUnlocked, Stop, LoopAt
      <4>3. CASE AddElement
        BY <4>1, <4>3 DEF AddElement, LoopIsAt, Filling, LoopAt
      <4>4. CASE EcuOff
        BY <1>1, <4>1, <4>4, RingAssumption DEF EcuOff, Names, Filling, LoopAt, Capture
      <4> QED
        BY <4>2, <4>3, <4>4
    <3>3. ASSUME NEW s \in Slot, s = lSlot', lpc' = "claim", lTick' \notin spoiled'
          PROVE  Wiped(s)'
      <4>1. lSlot' \in Slot /\ state[lSlot'] = "EMPTY" /\ lpc \in {"try", "scan"}
        BY <1>1, <2>2, <3>3, RingAssumption DEF LoopLooks, BeginCycle, ForgetHint, TryHint, ScanFree,
           CompareFree, WaitUnlocked, AddElement, EcuOff, Stop, LoopAt, Shapes, Slot
      <4>2. ~LoopIsAt(lSlot') /\ record[lSlot'] \in published \cup {0}
        BY <1>2, <3>1, <3>3, <4>1 DEF LoopIsAt, Filling
      <4>3. Wiped(s)
        BY <1>3, <3>3, <4>1, <4>2
      <4> QED
        BY <2>1, <3>1, <4>3
    <3> QED
      BY <1>3, <2>1, <3>1, <3>2, <3>3
  <2>3. CASE Rotate /\ ~LoopLooks
    <3>1. /\ PurgeStore(lStep, lSlot) /\ UNCHANGED <<lSlot, record, published>>
          /\ lpc' \in {"purge", "claim"} /\ (lpc' = "claim" => lStep = 4)
      BY <1>1, <2>3 DEF Rotate, Shapes, LoopAt
    <3>4. \A s \in Slot : s = lSlot => LoopIsAt(s)'
      BY <3>1 DEF LoopIsAt
    <3>2. \A s \in Slot : s = lSlot /\ lpc' = "claim" => Wiped(s)'
      <4>1. lpc' = "claim" => total'[lSlot] = 0
        BY <1>1, <3>1, PurgeFacts DEF IInv, TypeOK, Shapes
      <4> QED
        BY <4>1 DEF Wiped
    <3>3. \A s \in Slot : s # lSlot => ~LoopIsAt(s) /\ total'[s] = total[s] /\ state'[s] = state[s]
      BY <1>5, LoopTouches DEF LoopIsAt
    <3> QED
      BY <1>3, <2>1, <3>1, <3>2, <3>3, <3>4
  <2>4. CASE Claim
    <3>1. /\ state'[lSlot] = "FILLING" /\ published' = published /\ lpc' # "claim"
          /\ \A s \in Slot : s # lSlot => record'[s] = record[s]
      BY <1>1, <2>4 DEF Claim, Shapes
    <3>2. \A s \in Slot : s # lSlot => ~LoopIsAt(s) /\ total'[s] = total[s] /\ state'[s] = state[s]
      BY <1>5, LoopTouches DEF LoopIsAt
    <3> QED
      BY <1>3, <2>1, <3>1, <3>2
  <2>5. CASE Date \/ StoreElement \/ Stamp
    <3>3. /\ UNCHANGED <<lSlot, record, published>> /\ lpc' # "claim"
          /\ lpc' \in {"date", "fill", "add", "stamped"}
      BY <2>5 DEF Date, StoreElement, Stamp, histVars
    <3>4. \A s \in Slot : s = lSlot => LoopIsAt(s)'
      BY <3>3 DEF LoopIsAt, Filling
    <3>2. \A s \in Slot : s # lSlot => ~LoopIsAt(s) /\ total'[s] = total[s] /\ state'[s] = state[s]
      BY <1>5, LoopTouches DEF LoopIsAt
    <3> QED
      BY <1>3, <2>1, <3>2, <3>3, <3>4
  <2>6. CASE Publish
    <3>1. /\ state'[lSlot] = "FILLED" /\ record' = record /\ published' = published \cup {lTick}
          /\ lpc' # "claim" /\ record[lSlot] = lTick /\ lTick # 0
      BY <1>1, <2>6, RingAssumption DEF Publish, Shapes, LoopAt, Names, Filling, Capture
    <3>2. \A s \in Slot : s # lSlot => ~LoopIsAt(s) /\ total'[s] = total[s] /\ state'[s] = state[s]
      BY <1>5, LoopTouches DEF LoopIsAt
    <3>3. \A s \in Slot : s # lSlot => record[s] # lTick
      BY <1>1, <3>1 DEF Names, Shapes
    <3> QED
      BY <1>3, <2>1, <3>1, <3>2, <3>3
  <2> QED
    BY <1>5, <2>2, <2>3, <2>4, <2>5, <2>6 DEF Loop, LoopLooks
<1>6. CASE Telemetry
  <2>1. UNCHANGED <<lpc, lSlot, lTick, record, published>>
    BY <1>6, TelemetryTouches DEF loopVars
  <2>2. \A s \in Slot : /\ Wiped(s) => Wiped(s)'
                        /\ state'[s] = "EMPTY" => state[s] = "EMPTY" \/ Wiped(s)'
    BY <1>6, WipedStays
  <2>3. \A s \in Slot : LoopIsAt(s) => LoopIsAt(s)'
    BY <2>1 DEF LoopIsAt, Filling
  <2>4. lpc' = "claim" /\ lTick' \notin spoiled' => Wiped(lSlot)
    BY <1>2, <1>3, <2>1
  <2>5. \A s \in Slot : s = lSlot' /\ lpc' = "claim" /\ lTick' \notin spoiled' => Wiped(s)'
    BY <2>1, <2>2, <2>4
  <2>6. \A s \in Slot : state'[s] = "EMPTY" =>
          Wiped(s)' \/ LoopIsAt(s)' \/ record'[s] \notin published' \cup {0}
    BY <1>3, <2>1, <2>2, <2>3
  <2> QED
    BY <2>5, <2>6
<1> QED
  BY <1>5, <1>6 DEF Next, LoopStep, TelemetryStep

\* A published slot is as its cycle left it, and telemetry is not in the middle of it.
LEMMA StepFilled ==
  ASSUME IInv, Next
  PROVE  FilledIsIntact'
<1>1. Shapes /\ Names /\ SlotInProgress /\ FilledIsIntact
  BY DEF IInv, TypeOK, SlotTypes, LoopTypes, TelemetryTypes, HistoryTypes, Shapes
<1>2. spoiled \subseteq spoiled'
  BY SpoilsNow
<1>3. \A s \in Slot : Meets(s) => record[s] \in spoiled
  BY SpoiledBefore DEF IInv
<1>4. SUFFICES ASSUME NEW s \in Slot, state'[s] = "FILLED", record'[s] \notin spoiled'
               PROVE  Intact(SlotRecord(s))' /\ ~TelemetryPurges(s)' /\ ~TelemetryHolds(s)'
  BY DEF FilledIsIntact, Intact, SlotRecord, TelemetryPurges, TelemetryHolds
<1>5. CASE Loop
  <2>1. UNCHANGED <<tpc, tSlot, tScan, tStep>>
    BY <1>5, LoopTouches
  <2>2. CASE LoopLooks \/ s # lSlot
    <3>1. /\ state'[s] = state[s] /\ tick'[s] = tick[s] /\ timestamp'[s] = timestamp[s]
          /\ total'[s] = total[s] /\ record'[s] = record[s]
      BY <1>5, <2>2, LoopTouches DEF slotVars, histVars
    <3> QED
      BY <1>1, <1>2, <1>4, <2>1, <3>1 DEF FilledIsIntact, Intact, SlotRecord, TelemetryPurges,
         TelemetryHolds
  <2>3. CASE s = lSlot /\ ~LoopLooks
    <3>1. Publish
      <4>1. CASE Rotate
        <5>1. lpc = "purge" /\ PurgeStore(lStep, lSlot)
          BY <4>1 DEF Rotate, LoopAt
        <5>2. lStep = 1 => state'[lSlot] = "EMPTY"
          BY <1>1, <5>1, PurgeFacts DEF IInv, TypeOK, Shapes
        <5>3. lStep # 1 => state'[lSlot] = state[lSlot] /\ state[lSlot] # "FILLED"
          BY <1>1, <5>1, PurgeFacts DEF IInv, TypeOK, Shapes, SlotInProgress
        <5> QED
          BY <1>4, <2>3, <5>2, <5>3
      <4>2. CASE Claim
        BY <1>1, <1>4, <2>3, <4>2 DEF Claim, Shapes
      <4>3. CASE Date \/ StoreElement \/ Stamp
        BY <1>1, <1>4, <2>3, <4>3 DEF Date, StoreElement, Stamp, SlotInProgress, Filling, LoopAt
      <4> QED
        BY <1>5, <2>3, <4>1, <4>2, <4>3 DEF Loop, LoopLooks
    <3>2. lpc = "stamped" /\ UNCHANGED <<tick, timestamp, total, record>>
      BY <3>1 DEF Publish, LoopAt
    <3>3. record[s] \notin spoiled /\ record[s] = lTick
      BY <1>1, <1>2, <1>4, <2>3, <3>2 DEF Names, Filling
    <3>4. tick[s] = lTick /\ timestamp[s] = lTick /\ total[s] = Elements
      BY <1>1, <2>3, <3>2, <3>3 DEF SlotInProgress, Filling
    <3>5. ~TelemetryPurges(s) /\ ~TelemetryHolds(s)
      BY <1>3, <2>3, <3>2, <3>3 DEF Meets, LoopFills
    <3> QED
      BY <2>1, <3>2, <3>3, <3>4, <3>5 DEF Intact, SlotRecord, TelemetryPurges, TelemetryHolds
  <2> QED
    BY <2>2, <2>3
<1>6. CASE Telemetry
  <2>1. record' = record /\ state[s] = "FILLED"
    BY <1>4, <1>6, TelemetryTouches
  <2>2. Intact(SlotRecord(s)) /\ ~TelemetryPurges(s) /\ ~TelemetryHolds(s)
    BY <1>1, <1>2, <1>4, <2>1 DEF FilledIsIntact
  <2>3. ~TelemetryAt(s)
    <3>1. ~(Lock /\ s = tSlot)
      BY <1>1, <1>4 DEF Lock, Shapes
    <3>2. ~(Free /\ s = tSlot)
      BY <2>2 DEF Free, TelemetryHolds
    <3>3. ~(PurgeAll /\ s = tScan)
      <4>1. SUFFICES ASSUME PurgeAll, s = tScan PROVE FALSE
        OBVIOUS
      <4>2. tStep = 1 /\ PurgeStore(1, s)
        BY <1>1, <2>2, <4>1 DEF PurgeAll, TelemetryPurges, Shapes
      <4> QED
        BY <1>4, <4>2, PurgeFacts DEF IInv, TypeOK
    <3> QED
      BY <3>1, <3>2, <3>3 DEF TelemetryAt
  <2>4. /\ tick'[s] = tick[s] /\ timestamp'[s] = timestamp[s] /\ total'[s] = total[s]
    BY <1>6, <2>3, TelemetryTouches
  <2>5. ~TelemetryPurges(s)' /\ ~TelemetryHolds(s)'
    BY <1>6, <2>2, <2>3, TelemetryComes DEF TelemetryAt
  <2> QED
    BY <2>1, <2>2, <2>4, <2>5 DEF Intact, SlotRecord
<1> QED
  BY <1>5, <1>6 DEF Next, LoopStep, TelemetryStep

\* The slot telemetry has chosen keeps its record until telemetry locks it, or is spoiled.
LEMMA StepChoice ==
  ASSUME IInv, Next
  PROVE  Choice'
<1>1. Shapes /\ Choice /\ Positions
  BY DEF IInv, TypeOK, SlotTypes, LoopTypes, TelemetryTypes, HistoryTypes, Shapes
<1>2. spoiled \subseteq spoiled' /\ (lpc' = "off" => record'[lSlot'] \in spoiled')
  BY SpoilsNow
<1>3. CASE Loop
  <2>1. UNCHANGED <<tpc, tSlot, tScan>>
    BY <1>3, LoopTouches
  <2>2. ASSUME NEW s \in Slot, ChoiceStands(s)
        PROVE  ChoiceStands(s)'
    <3> USE DEF ChoiceStands, LoopPurges, LoopFills, LoopAt
    <3>1. CASE LoopLooks \/ s # lSlot
      <4>1. state'[s] = state[s] /\ record'[s] = record[s]
        BY <1>3, <3>1, LoopTouches DEF slotVars, histVars
      <4>2. ASSUME LoopPurges(s) \/ LoopFills(s)
            PROVE  LoopPurges(s)' \/ LoopFills(s)' \/ record'[s] \in spoiled'
        <5>1. s = lSlot /\ (AddElement \/ EcuOff)
          BY <1>3, <3>1, <4>2 DEF LoopLooks, BeginCycle, ForgetHint, TryHint, ScanFree, CompareFree,
             WaitUnlocked, Stop
        <5>2. CASE AddElement
          BY <5>1, <5>2 DEF AddElement
        <5>3. CASE EcuOff
          BY <1>2, <5>1, <5>3 DEF EcuOff
        <5> QED
          BY <5>1, <5>2, <5>3
      <4> QED
        BY <1>2, <2>2, <4>1, <4>2
    <3>2. CASE s = lSlot /\ ~LoopLooks
      <4>1. CASE Rotate
        <5>1. lStep < 4 => lpc' = "purge" /\ lStep' = lStep + 1
          BY <4>1 DEF Rotate
        <5>2. ~(lStep < 4) => lpc' = "claim"
          BY <4>1 DEF Rotate
        <5>3. lSlot' = lSlot
          BY <4>1 DEF Rotate
        <5> QED
          BY <1>1, <3>2, <5>1, <5>2, <5>3 DEF Shapes
      <4>2. CASE Claim \/ Date \/ StoreElement \/ Stamp
        BY <3>2, <4>2 DEF Claim, Date, StoreElement, Stamp
      <4>3. CASE Publish
        BY <1>1, <3>2, <4>3 DEF Publish, Shapes
      <4> QED
        BY <1>3, <3>2, <4>1, <4>2, <4>3 DEF Loop, LoopLooks
    <3> QED
      BY <3>1, <3>2
  <2>3. /\ tpc' \in {"scan", "compare"} /\ tSlot' # Null => tSlot' \in Slot /\ ChoiceStands(tSlot)
        /\ tpc' = "compare" => tScan' \in Slot /\ ChoiceStands(tScan)
    BY <1>1, <2>1 DEF Choice, Positions, Shapes
  <2>4. \A s \in Slot : ChoiceStands(s) => ChoiceStands(s)'
    BY <2>2
  <2>5. /\ \A s \in Slot : tpc' \in {"scan", "compare"} /\ s = tSlot' => ChoiceStands(s)'
        /\ \A s \in Slot : tpc' = "compare" /\ s = tScan' => ChoiceStands(s)'
    BY <2>1, <2>3, <2>4 DEF Null, Slot
  <2> QED
    BY <2>1, <2>3, <2>5 DEF Choice, ChoiceStands, LoopPurges, LoopFills
<1>4. CASE Telemetry
  <2>1. UNCHANGED <<lpc, lSlot, lStep, record>>
    BY <1>4, TelemetryTouches DEF loopVars
  <2>2. CASE ScanFilled \/ CompareFilled
    <3>1. UNCHANGED state /\ (ScanFilled /\ tpc' = "compare" => state[tScan] = "FILLED" /\ tScan' = tScan)
      BY <2>2 DEF ScanFilled, CompareFilled, Scanned, slotVars
    <3>2. \A s \in Slot : ChoiceStands(s) => ChoiceStands(s)'
      BY <1>2, <2>1, <3>1 DEF ChoiceStands, LoopPurges, LoopFills
    <3>3. /\ tSlot' # Null => tSlot' \in Slot /\ ChoiceStands(tSlot')
          /\ tpc' = "compare" => tScan' \in Slot /\ ChoiceStands(tScan')
      <4>1. CASE ScanFilled
        BY <1>1, <3>1, <4>1 DEF ScanFilled, Choice, ChoiceStands, Shapes, LastScanned, Slot
      <4>2. CASE CompareFilled
        BY <1>1, <4>2 DEF CompareFilled, Choice, Shapes, Positions
      <4> QED
        BY <2>2, <4>1, <4>2
    <3>4. /\ \A s \in Slot : s = tSlot' => ChoiceStands(s)'
          /\ \A s \in Slot : tpc' = "compare" /\ s = tScan' => ChoiceStands(s)'
      BY <3>2, <3>3, RingAssumption DEF Null, Slot
    <3> QED
      BY <3>3, <3>4 DEF Choice, ChoiceStands, LoopPurges, LoopFills
  <2>3. CASE Poll
    BY <2>3 DEF Poll, Choice
  <2>4. CASE ~ScanFilled /\ ~CompareFilled /\ ~Poll
    <3>1. tpc' \notin {"scan", "compare"}
      BY <1>1, <1>4, <2>4 DEF Telemetry, NothingFilled, Lock, TakeTick, Header, Serialize, Resolve, Free,
         GiveHint, Deliver, StandbyPurge, PurgeAll, PurgeAllDone
    <3> QED
      BY <3>1 DEF Choice
  <2> QED
    BY <2>2, <2>3, <2>4
<1> QED
  BY <1>3, <1>4 DEF Next, LoopStep, TelemetryStep

\* What telemetry reads from the slot it holds is one record, whole.
LEMMA StepPacket ==
  ASSUME IInv, Next
  PROVE  PacketInProgress'
<1>1. /\ Shapes /\ Positions /\ Choice /\ FilledIsIntact /\ PacketInProgress
      /\ TelemetryTypes
  BY DEF IInv, TypeOK, SlotTypes, LoopTypes, TelemetryTypes, HistoryTypes, Shapes
<1>2. spoiled \subseteq spoiled' /\ \A s \in Slot : Meets(s)' => packet'.rec \in spoiled'
  BY SpoilsNow
<1>3. \A s \in Slot : Meets(s) => packet.rec \in spoiled
  BY SpoiledBefore DEF IInv
<1>4. SUFFICES ASSUME packet'.rec \notin spoiled'
               PROVE  PacketInProgress'
  BY DEF PacketInProgress
<1>5. CASE Loop
  <2>1. UNCHANGED <<tpc, tSlot, packet>>
    BY <1>5, LoopTouches
  <2>2. ASSUME tpc \in {"take", "header", "serialize", "resolve"}
        PROVE  /\ record'[tSlot] = record[tSlot] /\ tick'[tSlot] = tick[tSlot]
               /\ timestamp'[tSlot] = timestamp[tSlot] /\ total'[tSlot] = total[tSlot]
    <3>1. tSlot \in Slot /\ TelemetryHolds(tSlot)
      BY <1>1, <2>2 DEF Positions, TelemetryHolds
    <3>2. ~LoopFills(tSlot) /\ ~LoopPurges(tSlot)
      BY <1>2, <1>3, <1>4, <2>1, <3>1 DEF Meets
    <3>3. CASE LoopLooks \/ tSlot # lSlot
      BY <1>5, <3>1, <3>3, LoopTouches DEF slotVars, histVars
    <3>4. CASE tSlot = lSlot /\ ~LoopLooks
      <4>1. Rotate /\ lStep = 1
        BY <1>1, <1>5, <3>2, <3>4 DEF Loop, LoopLooks, Rotate, Claim, Date, StoreElement, Stamp,
           Publish, LoopAt, LoopFills, LoopPurges, Shapes
      <4>2. PurgeStore(1, lSlot) /\ record' = record
        BY <4>1 DEF Rotate
      <4> QED
        BY <1>1, <3>4, <4>2, PurgeFacts DEF IInv, TypeOK, Shapes
    <3> QED
      BY <3>3, <3>4
  <2> QED
    BY <1>1, <1>2, <1>4, <2>1, <2>2 DEF PacketInProgress, Intact, SlotRecord
<1>6. CASE Telemetry
  <2>1. record' = record /\ UNCHANGED loopVars
    BY <1>6, TelemetryTouches
  <2>2. CASE Lock
    <3>1. tSlot \in Slot /\ tpc = "scan" /\ tpc' = "take" /\ tSlot' = tSlot
      BY <1>1, <2>2 DEF Lock, Shapes
    <3>2. packet'.rec = record[tSlot] /\ UNCHANGED <<tick, timestamp, total>>
      BY <2>2 DEF Lock, NoPacket
    <3>3. ~LoopPurges(tSlot) /\ ~LoopFills(tSlot)
      <4>1. LoopPurges(tSlot) \/ LoopFills(tSlot) => Meets(tSlot)'
        BY <2>1, <3>1 DEF Meets, LoopPurges, LoopFills, TelemetryHolds, loopVars
      <4>2. \A s \in Slot : s = tSlot => ~Meets(s)'
        BY <1>2, <1>4
      <4> QED
        BY <3>1, <4>1, <4>2 DEF Meets, LoopPurges, LoopFills, TelemetryHolds, TelemetryPurges
    <3>4. state[tSlot] = "FILLED" /\ record[tSlot] \notin spoiled
      BY <1>1, <1>2, <1>4, <2>2, <3>1, <3>2, <3>3 DEF Choice, ChoiceStands, Lock
    <3>5. Intact(SlotRecord(tSlot))
      BY <1>1, <3>1, <3>4 DEF FilledIsIntact
    <3> QED
      BY <2>1, <3>1, <3>2, <3>5 DEF PacketInProgress, Intact, SlotRecord
  <2>3. CASE TakeTick \/ Header \/ Serialize \/ Resolve
    <3>1. UNCHANGED <<tick, timestamp, total, tSlot>> /\ packet'.rec = packet.rec
      BY <1>1, <2>3 DEF TakeTick, Header, Serialize, Resolve, slotVars, TelemetryTypes, PacketType
    <3>2. packet.rec \notin spoiled
      BY <1>2, <1>4, <3>1
    <3>3. /\ tpc \in {"take", "header", "serialize", "resolve"}
          /\ record[tSlot] = packet.rec /\ Intact(SlotRecord(tSlot))
      BY <1>1, <2>3, <3>2 DEF TakeTick, Header, Serialize, Resolve, PacketInProgress
    <3>4. CASE TakeTick
      BY <1>1, <2>1, <3>1, <3>2, <3>3, <3>4 DEF TakeTick, PacketInProgress, Intact, SlotRecord,
         TelemetryTypes, PacketType
    <3>5. CASE Header
      BY <1>1, <2>1, <3>1, <3>2, <3>3, <3>5 DEF Header, PacketInProgress, Intact, SlotRecord,
         TelemetryTypes, PacketType
    <3>6. CASE Serialize
      BY <1>1, <2>1, <3>1, <3>2, <3>3, <3>6 DEF Serialize, PacketInProgress, Intact, SlotRecord,
         TelemetryTypes, PacketType
    <3>7. CASE Resolve
      BY <1>1, <2>1, <3>1, <3>2, <3>3, <3>7 DEF Resolve, PacketInProgress, Intact, SlotRecord,
         TelemetryTypes, PacketType
    <3> QED
      BY <2>3, <3>4, <3>5, <3>6, <3>7
  <2>4. CASE Free \/ GiveHint
    <3>1. tpc \in {"free", "freed"} /\ tpc' \in {"free", "freed", "deliver"} /\ packet' = packet
      BY <2>4 DEF Free, GiveHint
    <3> QED
      BY <1>1, <1>2, <1>4, <3>1 DEF PacketInProgress, Intact
  <2>5. CASE ~(Lock \/ TakeTick \/ Header \/ Serialize \/ Resolve \/ Free \/ GiveHint)
    <3>1. tpc' \notin {"take", "header", "serialize", "resolve", "free", "freed", "deliver"}
      BY <1>1, <1>6, <2>5 DEF Telemetry, Poll, ScanFilled, CompareFilled, NothingFilled, Deliver,
         StandbyPurge, PurgeAll, PurgeAllDone
    <3> QED
      BY <3>1 DEF PacketInProgress
  <2> QED
    BY <2>2, <2>3, <2>4, <2>5
<1> QED
  BY <1>5, <1>6 DEF Next, LoopStep, TelemetryStep

-----------------------------------------------------------------------------
\* Every step keeps the invariant.
LEMMA StepPreserves ==
  ASSUME IInv, [Next]_vars
  PROVE  IInv'
<1>1. CASE Next
  <2>1. Seen'
    <3>1. spoiled' = spoiled \cup Spoils'
      BY <1>1 DEF Next, LoopStep, TelemetryStep, Observe
    <3> QED
      BY <3>1 DEF Seen
  <2> QED
    BY <1>1, <2>1, StepTypes, StepNames, StepSlot, StepEmpty, StepFilled, StepChoice, StepPacket
    DEF IInv
<1>2. CASE UNCHANGED vars
  <2> USE <1>2 DEF vars, slotVars, loopVars, telVars, histVars
  <2>1. Spoils' = Spoils
    BY DEF Spoils, Met, Meets, LoopFills, LoopPurges, TelemetryHolds, TelemetryPurges
  <2>2. TypeOK'
    BY DEF IInv, TypeOK, SlotTypes, LoopTypes, TelemetryTypes, HistoryTypes
  <2>3. Positions' /\ Names' /\ Seen'
    BY <2>1 DEF IInv, Positions, Names, Seen, Filling
  <2>4. SlotInProgress' /\ EmptyIsWiped'
    BY DEF IInv, SlotInProgress, EmptyIsWiped, Filling, LoopIsAt, TelemetryHolds, TelemetryPurges
  <2>5. FilledIsIntact' /\ Choice' /\ PacketInProgress'
    BY DEF IInv, FilledIsIntact, Choice, PacketInProgress, ChoiceStands, LoopPurges, LoopFills,
       TelemetryHolds, TelemetryPurges, Intact, SlotRecord
  <2> QED
    BY <2>2, <2>3, <2>4, <2>5 DEF IInv
<1> QED
  BY <1>1, <1>2

\* The inductive invariant holds of every reachable state.
THEOREM Inductive == Spec => []IInv
<1>1. Init => IInv
  BY InitEstablishes
<1>2. IInv /\ [Next]_vars => IInv'
  BY StepPreserves
<1> QED
  BY <1>1, <1>2, PTL DEF Spec

\* The ring is type correct, and no add() ever writes past the end of a block, however the two
\* tasks are scheduled.
THEOREM TypeCorrect == Spec => []TypeOK
<1>1. IInv => TypeOK
  BY DEF IInv
<1> QED
  BY <1>1, Inductive, PTL

\* However the two tasks are scheduled, and whether or not a hot device purges under the loop: a
\* record that is in the ring, or handed on, is the one its cycle collected, unless both tasks
\* were at its slot at once.
THEOREM RecordsStayIntact == Spec => []RecordsIntact
<1>1. IInv => RecordsIntact
  BY DEF IInv, RecordsIntact, FilledIsIntact, PacketInProgress
<1> QED
  BY <1>1, Inductive, PTL

-----------------------------------------------------------------------------
(***************************************************************************)
(* Conservation: every record that is not spoiled is in one place.         *)
(***************************************************************************)
InOnePlace ==
  /\ published \subseteq Stored \cup InHand \cup delivered \cup dropped \cup spoiled
  /\ \A s \in Slot : state[s] = "FILLED" /\ record[s] \notin spoiled =>
       record[s] \in published /\ record[s] \notin InHand \cup delivered \cup dropped
  /\ \A r \in InHand : r \notin spoiled => r \in published /\ r \notin delivered \cup dropped
  /\ \A r \in delivered \cup dropped : r \notin spoiled => r \in published
  /\ \A r \in delivered \cap dropped : r \in spoiled

\* Being in one place is what NothingVanishes says, and no two slots hold one record.
LEMMA PlacesSuffice ==
  ASSUME IInv, InOnePlace
  PROVE  NothingVanishes
<1>1. \A r \in Stored : \E s \in Slot : state[s] = "FILLED" /\ r = record[s]
  BY DEF Stored
<1>2. Names /\ published \subseteq 1 .. now /\ now \in Nat
  BY RingAssumption DEF IInv, Names, TypeOK, LoopTypes, Instant
<1>3. \A s, u \in Slot :
        /\ state[s] = "FILLED" /\ state[u] = "FILLED"
        /\ record[s] = record[u] /\ record[s] \notin spoiled
        => s = u
  BY <1>2 DEF InOnePlace, Names
<1>4. published \ spoiled = (Stored \cup InHand \cup delivered \cup dropped) \ spoiled
  BY <1>1 DEF InOnePlace
<1>5. /\ Stored \cap (InHand \cup delivered \cup dropped) \subseteq spoiled
      /\ InHand \cap (delivered \cup dropped) \subseteq spoiled
      /\ delivered \cap dropped \subseteq spoiled
  BY <1>1 DEF InOnePlace
<1> QED
  BY <1>3, <1>4, <1>5 DEF NothingVanishes

\* A step that leaves the published slots and telemetry's hands as they are moves no record.
LEMMA SameMarks ==
  ASSUME InOnePlace, spoiled \subseteq spoiled',
         \A s \in Slot : (state'[s] = "FILLED") <=> (state[s] = "FILLED"),
         \A s \in Slot : state[s] = "FILLED" => record'[s] = record[s],
         InHand' = InHand, UNCHANGED <<published, delivered, dropped>>
  PROVE  InOnePlace'
<1>1. Stored' = Stored
  BY DEF Stored
<1> QED
  BY <1>1 DEF InOnePlace

\* A store of purge(), whoever makes it, drops the record of a published slot, and no other.
LEMMA PurgeDrops ==
  ASSUME IInv, InOnePlace, spoiled \subseteq spoiled', NEW k \in 1 .. 4, NEW u \in Slot,
         PurgeStore(k, u), InHand' = InHand, UNCHANGED <<published, delivered, record>>
  PROVE  InOnePlace'
<1>1. SlotTypes
  BY DEF IInv, TypeOK
<1>2. CASE k = 1 /\ state[u] = "FILLED"
  <2>1. dropped' = dropped \cup {record[u]} /\ state'[u] = "EMPTY"
    BY <1>1, <1>2, PurgeFacts
  <2>2. \A s \in Slot : s # u => state'[s] = state[s]
    BY <1>1, PurgeFacts
  <2>3. \A r \in Stored : r \in Stored' \/ r = record[u]
    BY <2>2 DEF Stored
  <2>4. published' \subseteq Stored' \cup InHand' \cup delivered' \cup dropped' \cup spoiled'
    BY <2>1, <2>3 DEF InOnePlace
  <2>5. \A s \in Slot : s # u /\ state[s] = "FILLED" /\ record[s] \notin spoiled => record[s] # record[u]
    <3>1. \A s \in Slot : state[s] = "FILLED" /\ record[s] \notin spoiled => record[s] # 0
      BY RingAssumption DEF InOnePlace, IInv, TypeOK, HistoryTypes, Capture
    <3> QED
      BY <3>1 DEF IInv, Names
  <2>6. \A s \in Slot : state'[s] = "FILLED" /\ record'[s] \notin spoiled' =>
          record'[s] \in published' /\ record'[s] \notin InHand' \cup delivered' \cup dropped'
    BY <2>1, <2>2, <2>5 DEF InOnePlace
  <2>7. record[u] \in spoiled \/ (record[u] \in published /\ record[u] \notin InHand \cup delivered)
    BY <1>2 DEF InOnePlace
  <2>8. \A r \in InHand' : r \notin spoiled' => r \in published' /\ r \notin delivered' \cup dropped'
    BY <2>1, <2>7 DEF InOnePlace
  <2>9. /\ \A r \in delivered' \cup dropped' : r \notin spoiled' => r \in published'
        /\ \A r \in delivered' \cap dropped' : r \in spoiled'
    BY <2>1, <2>7 DEF InOnePlace
  <2> QED
    BY <2>4, <2>6, <2>8, <2>9 DEF InOnePlace
<1>3. CASE ~(k = 1 /\ state[u] = "FILLED")
  <2>1. /\ dropped' = dropped
        /\ \A s \in Slot : (state'[s] = "FILLED") <=> (state[s] = "FILLED")
    BY <1>1, <1>3, PurgeFacts
  <2> QED
    BY <2>1, SameMarks
<1> QED
  BY <1>2, <1>3

\* Every step keeps every record that is not spoiled in one place.
LEMMA StepPlaces ==
  ASSUME IInv, InOnePlace, Next
  PROVE  InOnePlace'
<1>1. Shapes /\ Positions /\ Names /\ SlotInProgress /\ Choice /\ FilledIsIntact
  BY DEF IInv, TypeOK, SlotTypes, LoopTypes, TelemetryTypes, HistoryTypes, Shapes
<1>2. spoiled \subseteq spoiled' /\ \A s \in Slot : Meets(s)' => packet'.rec \in spoiled'
  BY SpoilsNow
<1>3. CASE Loop
  <2>1. InHand' = InHand
    BY <1>3, LoopTouches DEF InHand
  <2>2. CASE LoopLooks
    <3>1. UNCHANGED <<state, record, published, delivered, dropped>>
      BY <1>3, <2>2, LoopTouches DEF slotVars, histVars
    <3> QED
      BY <1>2, <2>1, <3>1, SameMarks
  <2>3. CASE Rotate
    <3>1. PurgeStore(lStep, lSlot) /\ UNCHANGED <<published, delivered, record>>
      BY <2>3 DEF Rotate
    <3> QED
      BY <1>1, <1>2, <2>1, <3>1, PurgeDrops DEF Shapes
  <2>4. CASE Claim
    <3>1. /\ \A s \in Slot : (state'[s] = "FILLED") <=> (state[s] = "FILLED")
          /\ \A s \in Slot : state[s] = "FILLED" => record'[s] = record[s]
      BY <1>1, <2>4 DEF Claim, Shapes, SlotInProgress, LoopAt
    <3>2. UNCHANGED <<published, delivered, dropped>>
      BY <2>4 DEF Claim
    <3> QED
      BY <1>2, <2>1, <3>1, <3>2, SameMarks
  <2>5. CASE Date \/ StoreElement \/ Stamp
    <3>1. UNCHANGED <<state, record, published, delivered, dropped>>
      BY <2>5 DEF Date, StoreElement, Stamp, histVars
    <3> QED
      BY <1>2, <2>1, <3>1, SameMarks
  <2>6. CASE Publish
    <3>1. /\ published' = published \cup {lTick} /\ UNCHANGED <<record, delivered, dropped>>
          /\ state'[lSlot] = "FILLED" /\ \A s \in Slot : s # lSlot => state'[s] = state[s]
          /\ record[lSlot] = lTick /\ lTick \notin published
      BY <1>1, <2>6 DEF Publish, Shapes, Names, Filling, LoopAt
    <3>2. state[lSlot] # "FILLED"
      BY <1>1, <2>6 DEF Publish, SlotInProgress, Filling, LoopAt
    <3>3. lTick \in Stored' /\ Stored \subseteq Stored'
      BY <1>1, <3>1, <3>2 DEF Stored, Shapes
    <3>4. lTick \in spoiled \/ lTick \notin InHand \cup delivered \cup dropped
      BY <3>1 DEF InOnePlace
    <3>5. published' \subseteq Stored' \cup InHand' \cup delivered' \cup dropped' \cup spoiled'
      BY <1>2, <2>1, <3>1, <3>3 DEF InOnePlace
    <3>6. \A s \in Slot : state'[s] = "FILLED" /\ record'[s] \notin spoiled' =>
          record'[s] \in published' /\ record'[s] \notin InHand' \cup delivered' \cup dropped'
      BY <1>2, <2>1, <3>1, <3>4 DEF InOnePlace
    <3>7. /\ \A r \in InHand' : r \notin spoiled' => r \in published' /\ r \notin delivered' \cup dropped'
          /\ \A r \in delivered' \cup dropped' : r \notin spoiled' => r \in published'
          /\ \A r \in delivered' \cap dropped' : r \in spoiled'
      BY <1>2, <2>1, <3>1 DEF InOnePlace
    <3> QED
      BY <3>5, <3>6, <3>7 DEF InOnePlace
  <2> QED
    BY <1>3, <2>2, <2>3, <2>4, <2>5, <2>6 DEF Loop, LoopLooks
<1>4. CASE Telemetry
  <2>1. UNCHANGED <<record, published>> /\ UNCHANGED loopVars
    BY <1>4, TelemetryTouches
  <2>2. CASE Lock
    <3>1. /\ tSlot \in Slot /\ InHand = {} /\ InHand' = {record[tSlot]}
          /\ UNCHANGED <<delivered, dropped>> /\ tSlot' = tSlot /\ tpc' = "take"
          /\ state'[tSlot] = "LOCKED" /\ \A s \in Slot : s # tSlot => state'[s] = state[s]
      BY <1>1, <2>2 DEF Lock, InHand, NoPacket, Shapes, histVars
    <3>2. state[tSlot] = "FILLED" \/ record[tSlot] \in spoiled'
      <4>1. record[tSlot] \in spoiled' \/ \A s \in Slot : s = tSlot => ~Meets(s)'
        BY <1>2, <2>2 DEF Lock, NoPacket
      <4>2. \A s \in Slot : s = tSlot /\ (LoopPurges(s) \/ LoopFills(s)) => Meets(s)'
        BY <2>1, <3>1 DEF Meets, LoopPurges, LoopFills, TelemetryHolds, loopVars
      <4> QED
        BY <1>1, <1>2, <2>2, <3>1, <4>1, <4>2 DEF Choice, ChoiceStands, Lock
    <3>3. Stored \subseteq Stored' \cup {record[tSlot]}
      BY <2>1, <3>1 DEF Stored
    <3>4. \A s \in Slot : s # tSlot /\ state[s] = "FILLED" /\ record[s] \notin spoiled =>
            record[s] # record[tSlot]
      <4>1. \A s \in Slot : state[s] = "FILLED" /\ record[s] \notin spoiled => record[s] # 0
        BY RingAssumption DEF InOnePlace, IInv, TypeOK, HistoryTypes, Capture
      <4> QED
        BY <1>1, <3>1, <4>1 DEF Names
    <3>5. published' \subseteq Stored' \cup InHand' \cup delivered' \cup dropped' \cup spoiled'
      BY <1>2, <2>1, <3>1, <3>3 DEF InOnePlace
    <3>6. \A s \in Slot : state'[s] = "FILLED" /\ record'[s] \notin spoiled' =>
          record'[s] \in published' /\ record'[s] \notin InHand' \cup delivered' \cup dropped'
      BY <1>2, <2>1, <3>1, <3>4 DEF InOnePlace
    <3>7. \A r \in InHand' : r \notin spoiled' => r \in published' /\ r \notin delivered' \cup dropped'
      BY <1>2, <2>1, <3>1, <3>2 DEF InOnePlace
    <3>8. /\ \A r \in delivered' \cup dropped' : r \notin spoiled' => r \in published'
          /\ \A r \in delivered' \cap dropped' : r \in spoiled'
      BY <1>2, <2>1, <3>1 DEF InOnePlace
    <3> QED
      BY <3>5, <3>6, <3>7, <3>8 DEF InOnePlace
  <2>3. CASE Free
    <3>1. tSlot \in Slot /\ PurgeStore(tStep, tSlot) /\ delivered' = delivered /\ InHand' = InHand
      BY <1>1, <2>3 DEF Free, Positions, InHand
    <3> QED
      BY <1>1, <1>2, <2>1, <3>1, PurgeDrops DEF Shapes
  <2>4. CASE PurgeAll
    <3>1. tScan \in Slot /\ PurgeStore(tStep, tScan) /\ delivered' = delivered /\ InHand' = InHand
      BY <1>1, <2>4, RingAssumption DEF PurgeAll, Shapes, Slot, InHand
    <3> QED
      BY <1>1, <1>2, <2>1, <3>1, PurgeDrops DEF Shapes
  <2>5. CASE Deliver
    <3>1. /\ InHand = {packet.rec} /\ InHand' = {} /\ delivered' = delivered \cup {packet.rec}
          /\ UNCHANGED <<state, dropped>>
      BY <2>5 DEF Deliver, InHand, slotVars
    <3>2. Stored' = Stored
      BY <2>1, <3>1 DEF Stored
    <3>3. packet.rec \in spoiled \/ (packet.rec \in published /\ packet.rec \notin delivered \cup dropped)
      BY <3>1 DEF InOnePlace
    <3>4. \A s \in Slot : state'[s] = "FILLED" /\ record'[s] \notin spoiled' =>
          record'[s] \in published' /\ record'[s] \notin InHand' \cup delivered' \cup dropped'
      BY <1>2, <2>1, <3>1 DEF InOnePlace
    <3> QED
      BY <1>2, <2>1, <3>1, <3>2, <3>3, <3>4 DEF InOnePlace
  <2>6. CASE ~Lock /\ ~Free /\ ~PurgeAll /\ ~Deliver
    <3>1. UNCHANGED <<state, dropped, delivered>>
      BY <1>4, <2>6 DEF Telemetry, Poll, ScanFilled, CompareFilled, NothingFilled,
         TakeTick, Header, Serialize, Resolve, GiveHint, StandbyPurge, PurgeAllDone, slotVars, histVars
    <3>2. InHand' = InHand
      <4>1. CASE TakeTick \/ Header \/ Serialize \/ Resolve
        BY <1>1, <4>1 DEF TakeTick, Header, Serialize, Resolve, InHand, IInv, TypeOK,
           TelemetryTypes, PacketType
      <4>2. CASE GiveHint
        BY <4>2 DEF GiveHint, InHand
      <4>3. CASE Poll \/ ScanFilled \/ CompareFilled \/ NothingFilled \/ StandbyPurge \/ PurgeAllDone
        BY <4>3 DEF Poll, ScanFilled, CompareFilled, NothingFilled, StandbyPurge, PurgeAllDone, InHand
      <4> QED
        BY <1>4, <2>6, <4>1, <4>2, <4>3 DEF Telemetry
    <3> QED
      BY <1>2, <2>1, <3>1, <3>2, SameMarks
  <2> QED
    BY <2>2, <2>3, <2>4, <2>5, <2>6
<1> QED
  BY <1>3, <1>4 DEF Next, LoopStep, TelemetryStep

\* However the two tasks are scheduled: a published record is in the ring, in telemetry's hands,
\* handed on or dropped, and in one of these only, unless both tasks were at its slot at once.
THEOREM EachInOnePlace == Spec => []NothingVanishes
<1>1. Init => InOnePlace
  BY DEF Init, InOnePlace, Stored, InHand
<1>2. IInv /\ InOnePlace /\ [Next]_vars => InOnePlace'
  <2>1. CASE UNCHANGED vars
    BY <2>1, SameMarks DEF vars, slotVars, loopVars, telVars, histVars, InHand
  <2> QED
    BY <2>1, StepPlaces
<1>3. IInv /\ InOnePlace => NothingVanishes
  BY PlacesSuffice
<1> QED
  BY <1>1, <1>2, <1>3, Inductive, PTL DEF Spec

-----------------------------------------------------------------------------
(***************************************************************************)
(* The rotation.                                                           *)
(***************************************************************************)
\* What getFree() has seen of the ring stays a bound on it: only the loop publishes, and what
\* telemetry takes or purges meanwhile is FILLED no more, or has a timestamp of 0.
LEMMA StepBest ==
  ASSUME IInv, BestSoFar, FreshScan, Next
  PROVE  BestSoFar' /\ FreshScan'
<1>1. Shapes /\ Positions /\ LoopTypes
  BY DEF IInv, TypeOK, SlotTypes, LoopTypes, TelemetryTypes, HistoryTypes, Shapes
<1> USE DEF LoopAt
<1>2. CASE Loop
  <2>1. CASE BeginCycle
    <3>1. lpc' \in {"hint", "scan"} /\ lScan' = 1 /\ lBest' = Latest
      BY <2>1 DEF BeginCycle
    <3> QED
      BY <3>1, RingAssumption DEF BestSoFar, FreshScan, Slot
  <2>2. CASE ForgetHint
    BY <2>2 DEF ForgetHint, BestSoFar, FreshScan
  <2>3. CASE TryHint
    <3>1. lpc' \in {"claim", "scan"} /\ lScan' = 1 /\ lBest' = Latest
      BY <2>3 DEF TryHint, FreshScan
    <3> QED
      BY <3>1, RingAssumption DEF BestSoFar, FreshScan, Slot
  <2>4. CASE ScanFree
    <3>1. UNCHANGED <<state, timestamp, lBest>> /\ lpc = "scan" /\ lScan \in Slot
      BY <1>1, <2>4, RingAssumption DEF ScanFree, slotVars, Shapes, Slot
    <3>2. \/ lpc' = "claim"
          \/ lpc' = "compare" /\ UNCHANGED <<lSlot, lScan>>
          \/ lpc' = "scan" /\ lSlot' = lSlot /\ lScan' = lScan + 1 /\ state[lScan] # "FILLED"
      BY <2>4 DEF ScanFree
    <3>3. \A s \in Slot : s < lScan + 1 => s < lScan \/ s = lScan
      BY <1>1 DEF Shapes, Slot
    <3> QED
      BY <3>1, <3>2, <3>3 DEF BestSoFar, FreshScan
  <2>5. CASE CompareFree
    <3>1. /\ UNCHANGED <<state, timestamp>> /\ lpc = "compare" /\ lpc' = "scan"
          /\ lScan \in Slot /\ lScan' = lScan + 1
      BY <1>1, <2>5 DEF CompareFree, slotVars, Positions
    <3>2. \A s \in Slot : s < lScan + 1 => s < lScan \/ s = lScan
      BY <3>1 DEF Slot
    <3>3. timestamp \in [Slot -> Nat] /\ lBest \in Nat
      BY <1>1, RingAssumption DEF Shapes, LoopTypes, Instant, Latest
    <3>4. CASE timestamp[lScan] < lBest
      <4>1. lSlot' = lScan /\ lBest' = timestamp[lScan]
        BY <2>5, <3>4 DEF CompareFree, RotatesBefore
      <4> QED
        BY <3>1, <3>2, <3>3, <3>4, <4>1 DEF BestSoFar, FreshScan
    <3>5. CASE ~(timestamp[lScan] < lBest)
      <4>1. lSlot' = lSlot /\ lBest' = lBest
        BY <2>5, <3>5 DEF CompareFree, RotatesBefore
      <4> QED
        BY <3>1, <3>2, <3>3, <3>5, <4>1 DEF BestSoFar, FreshScan
    <3> QED
      BY <3>4, <3>5
  <2>6. CASE WaitUnlocked
    BY <2>6 DEF WaitUnlocked, BestSoFar, FreshScan, slotVars
  <2>7. CASE Rotate
    <3>1. lpc' = "claim" \/ (lpc' = "purge" /\ lStep' # 1)
      BY <1>1, <2>7 DEF Rotate, Shapes
    <3> QED
      BY <3>1 DEF BestSoFar, FreshScan
  <2>8. CASE Claim \/ Date \/ AddElement \/ StoreElement \/ EcuOff \/ Stamp \/ Publish \/ Stop
    <3>1. lpc' \in {"date", "fill", "add", "off", "stamped", "idle", "still", "parked"}
      BY <2>8 DEF Claim, Date, AddElement, StoreElement, EcuOff, Stamp, Publish, Stop
    <3> QED
      BY <3>1 DEF BestSoFar, FreshScan
  <2> QED
    BY <1>2, <2>1, <2>2, <2>3, <2>4, <2>5, <2>6, <2>7, <2>8 DEF Loop
<1>3. CASE Telemetry
  <2>1. UNCHANGED <<lpc, lScan, lBest, lStep, lSlot>>
    BY <1>3, TelemetryTouches DEF loopVars
  <2>2. \A s \in Slot : /\ state'[s] = "FILLED" => state[s] = "FILLED"
                        /\ timestamp'[s] \in {timestamp[s], 0}
    BY <1>3, TelemetryTouches
  <2> QED
    BY <1>1, <2>1, <2>2 DEF BestSoFar, FreshScan, Shapes
<1> QED
  BY <1>2, <1>3 DEF Next, LoopStep, TelemetryStep

\* However the two tasks are scheduled: when getFree() rotates a record out, every other one in
\* the ring is as late or later.
THEOREM OldestRotates == Spec => OnlyOldestRotates
<1> DEFINE Bound == BestSoFar /\ FreshScan
<1>1. Init => Bound
  BY InitEstablishes
<1>2. IInv /\ Bound /\ [Next]_vars => Bound'
  <2>1. CASE UNCHANGED vars
    BY <2>1 DEF vars, slotVars, loopVars, BestSoFar, FreshScan
  <2> QED
    BY <2>1, StepBest
<1>3. ASSUME IInv, BestSoFar, Rotate, NEW s \in Slot, NEW u \in Slot,
             state[s] = "FILLED", state'[s] = "EMPTY", state[u] = "FILLED", timestamp[u] # 0
      PROVE  timestamp[s] <= timestamp[u]
  <2>1. Shapes /\ lpc = "purge" /\ PurgeStore(lStep, lSlot) /\ lBest \in 0 .. Latest
    BY <1>3 DEF IInv, TypeOK, SlotTypes, LoopTypes, TelemetryTypes, HistoryTypes, Shapes, Rotate, LoopAt
  <2>2. s = lSlot /\ lStep = 1
    BY <1>3, <2>1 DEF PurgeStore, Shapes
  <2>3. lScan > NumSlots /\ u < lScan
    BY <1>3, <2>1, <2>2, RingAssumption DEF BestSoFar, Shapes, Slot
  <2>4. lBest <= timestamp[u] /\ (lBest # Latest => timestamp[s] \in {lBest, 0})
    BY <1>3, <2>1, <2>2, <2>3 DEF BestSoFar
  <2>5. timestamp[u] \in 0 .. MaxCaptures /\ timestamp[s] \in 0 .. MaxCaptures /\ MaxCaptures \in Nat
    BY <2>1, RingAssumption DEF Shapes, Instant
  <2> QED
    BY <2>1, <2>4, <2>5 DEF Latest
<1>4. IInv /\ Bound /\ [Next]_vars =>
        [Rotate => \A s, u \in Slot :
           /\ state[s] = "FILLED" /\ state'[s] = "EMPTY"
           /\ state[u] = "FILLED" /\ timestamp[u] # 0
           => timestamp[s] <= timestamp[u]]_vars
  BY <1>3
<1> QED
  BY <1>1, <1>2, <1>4, Inductive, PTL DEF Spec, OnlyOldestRotates
=============================================================================
