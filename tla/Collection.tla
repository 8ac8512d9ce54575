------------------------------ MODULE Collection ------------------------------
(***************************************************************************)
(* The collection cycle, process(): the tiered OBD-II pass of processOBD(), *)
(* the re-initialization of a silent ECU link, the derived-inputs group    *)
(* and the countdown scheduler of processUDS(). One pass of loop() is one  *)
(* cycle; the ring it fills is module BufferRing, the answers of the       *)
(* adapter are module DiagLink's.                                          *)
(*                                                                         *)
(* Entries of obdData[] and of UDS_DID_TABLE[] are their indices, from 0.  *)
(* The entry past the end of obdData[] is whatever the linker put there.   *)
(***************************************************************************)
EXTENDS Integers, Sequences, FiniteSets

CONSTANTS
  ObdTier,      \* obdData[].tier
  Rpm,          \* the index of PID_RPM there
  Supported,    \* indices of the PIDs the ECU knows
  Interval,     \* UDS_DID_TABLE[].intervalCycles; 0 is UDS_GROUP
  MaxPerCycle,  \* UDS_MAX_PER_CYCLE
  GroupPeriod,  \* UDS_GROUP_PERIOD
  MaxErrors,    \* MAX_OBD_ERRORS
  Faults        \* TRUE: reads and initializations may fail

Count == Len(ObdTier)
DIDs == 0 .. Len(Interval) - 1
TierOf(p) == ObdTier[p + 1]
IntervalOf(d) == Interval[d + 1]
EntriesOf(t) == {p \in 0 .. Count - 1 : TierOf(p) = t}
Members == {d \in DIDs : IntervalOf(d) = 0}
Others == DIDs \ Members
RpmElement == -1             \* the RPM, which the OBD-II pass adds

ASSUME CollectionAssumption ==
  /\ ObdTier \in Seq(1 .. 3) /\ Rpm \in 0 .. Count - 1 /\ TierOf(Rpm) = 1
  /\ \A p, q \in 0 .. Count - 1 : p <= q => TierOf(p) <= TierOf(q)
  /\ Supported \subseteq 0 .. Count - 1
  /\ Interval \in Seq(Nat) /\ Interval # << >>
  /\ {MaxPerCycle, GroupPeriod, MaxErrors} \subseteq Nat \ {0}
  /\ Faults \in BOOLEAN

VARIABLES
  pc,          \* where process() is
  ready,       \* STATE_OBD_READY
  errors,      \* obd.errors
  mapRead,     \* init() got the PID map; without it every PID counts as supported
  i, tier,     \* the locals of processOBD()
  idx,         \* its static idx[2], by the tier the entry belongs to
  beyond,      \* the tier byte of the entry past the end
  rpmValid,    \* obdRpmValid
  record,      \* what of the group the record holds
  wait, rr, groupWait,   \* the statics of processUDS()
  late,        \* history: cycles a DID has been due and not read
  warm         \* history: the DIDs read since the start

obdVars == <<i, tier, idx, beyond, rpmValid>>
udsVars == <<wait, rr, groupWait, late, warm>>
vars == <<pc, ready, errors, mapRead, record, obdVars, udsVars>>

NoTurns == [t \in {2, 3} |-> 0]
NoWait == [d \in DIDs |-> 0]
NoneLate == [d \in Others |-> 0]

Init ==
  /\ pc = "begin" /\ errors = 0 /\ record = {}
  /\ ready \in {TRUE, ~Faults} /\ mapRead \in {TRUE, ~Faults}
  /\ i = 0 /\ tier = 1 /\ rpmValid = FALSE
  /\ beyond \in {0, 3} /\ idx = NoTurns
  /\ wait = NoWait /\ rr = 0 /\ groupWait = 0
  /\ late = NoneLate /\ warm = {}

-----------------------------------------------------------------------------
(* processOBD(), entry by entry.                                           *)

\* Slip: obdRpmValid keeps the result of the cycle before.
BeginStale ==
  /\ pc = "begin" /\ ready
  /\ pc' = "obd" /\ record' = {}
  /\ i' = 0 /\ tier' = 1
  /\ UNCHANGED <<ready, errors, mapRead, idx, beyond, rpmValid, udsVars>>

Begin ==
  /\ pc = "begin" /\ ready
  /\ pc' = "obd" /\ record' = {}
  /\ i' = 0 /\ tier' = 1 /\ rpmValid' = FALSE
  /\ UNCHANGED <<ready, errors, mapRead, idx, beyond, udsVars>>

TierAt(p) == IF p < Count THEN TierOf(p) ELSE IF p = Count THEN beyond ELSE 0
Valid(p) == p \in Supported \/ ~mapRead

\* Slip: the counter of a tier that has had its turn is not reset.
ResetLostOn(t, u) == idx[u]
\* The counters while the pass goes from tier t up to u; idx[tier - 2] of tier 1 lies
\* before the array.
ResetOn(t, u) == IF t = u THEN 0 ELSE idx[u]

\* A higher tier begins: its counter says how many of its entries have had their turn.
\* None is left: the pass goes on behind it, maybe with the next tier.
EnterTier ==
  LET t == TierAt(i)
      skip == i + idx[t]
      left == TierAt(skip) = t
  IN
  /\ pc = "obd" /\ i < Count /\ t > tier
  /\ tier' = t /\ i' = skip
  /\ idx' = [u \in {2, 3} |-> IF u = t THEN IF left THEN idx[t] + 1 ELSE ResetOn(t, t)
                              ELSE ResetOn(tier, u)]
  /\ pc' = IF left /\ skip = Count THEN "overrun" ELSE "obd"
  /\ UNCHANGED <<ready, errors, mapRead, record, beyond, rpmValid, udsVars>>

AtEntry == pc = "obd" /\ i < Count /\ TierAt(i) <= tier

SkipInvalid ==
  /\ AtEntry /\ ~Valid(i)
  /\ i' = i + 1
  /\ UNCHANGED <<pc, ready, errors, mapRead, record, tier, idx, beyond, rpmValid, udsVars>>

ReadOk ==
  /\ AtEntry /\ i \in Supported
  /\ errors' = 0
  /\ rpmValid' = (rpmValid \/ i = Rpm)
  /\ record' = IF i = Rpm THEN record \cup {RpmElement} ELSE record
  /\ i' = i + 1
  /\ pc' = IF tier > 1 THEN "errors" ELSE "obd"
  /\ UNCHANGED <<ready, mapRead, tier, idx, beyond, udsVars>>

\* No answer, an error message, or the PID's echo without its value.
ReadFails ==
  /\ AtEntry /\ Valid(i)
  /\ Faults
  /\ errors' \in {errors + 1, 1}
  /\ pc' = "errors"
  /\ UNCHANGED <<ready, mapRead, record, obdVars, udsVars>>

\* The match past the end: the loop does not look at its bound again. The entry there is
\* skipped, read, or fails.
Overrun ==
  /\ pc = "overrun"
  /\ errors' \in {errors, 0} \cup (IF Faults THEN {errors + 1} ELSE {})
  /\ pc' = "errors"
  /\ UNCHANGED <<ready, mapRead, record, obdVars, udsVars>>

PassEnds ==
  /\ pc = "obd" /\ i >= Count
  /\ pc' = "errors"
  /\ UNCHANGED <<ready, errors, mapRead, record, obdVars, udsVars>>

-----------------------------------------------------------------------------
(* process(): the ECU link.                                                *)

\* Slip: the comparison with MAX_OBD_ERRORS is off by one.
LinkAliveYet ==
  /\ pc = "errors" /\ errors <= MaxErrors
  /\ pc' = "uds"
  /\ UNCHANGED <<ready, errors, mapRead, record, obdVars, udsVars>>

LinkAlive ==
  /\ pc = "errors" /\ errors < MaxErrors
  /\ pc' = "uds"
  /\ UNCHANGED <<ready, errors, mapRead, record, obdVars, udsVars>>

\* obd.init() succeeds on the speed alone, and then reads the map or not.
Reinit ==
  /\ pc = "errors" /\ errors >= MaxErrors
  /\ errors' = 0 /\ mapRead' \in BOOLEAN
  /\ pc' = "uds"
  /\ UNCHANGED <<ready, record, obdVars, udsVars>>

\* The cycle returns at once, and the device parks.
EcuOff ==
  /\ pc = "errors" /\ errors >= MaxErrors
  /\ ready' = FALSE
  /\ pc' = "parked"
  /\ UNCHANGED <<errors, mapRead, record, obdVars, udsVars>>

\* obd.init(PROTO_AUTO, true), which needs the map.
EcuOn ==
  /\ pc = "begin" /\ ~ready
  /\ ready' = TRUE /\ errors' = 0 /\ mapRead' = TRUE
  /\ record' = {}
  /\ pc' = "publish"
  /\ UNCHANGED <<obdVars, udsVars>>

EcuStillOff ==
  /\ pc = "begin" /\ ~ready
  /\ record' = {}
  /\ pc' = "publish"
  /\ UNCHANGED <<ready, errors, mapRead, obdVars, udsVars>>

\* The rest of the cycle: power, motion, position, publication, and the pause; or parking.
Publish ==
  /\ pc = "publish"
  /\ pc' = "begin"
  /\ UNCHANGED <<ready, errors, mapRead, record, obdVars, udsVars>>

Park ==
  /\ pc = "publish" /\ Faults
  /\ pc' = "parked"
  /\ UNCHANGED <<ready, errors, mapRead, record, obdVars, udsVars>>

\* ESP.restart() and initialize().
Restart ==
  /\ pc = "parked"
  /\ pc' = "begin" /\ errors' = 0 /\ record' = {}
  /\ ready' \in BOOLEAN /\ mapRead' \in BOOLEAN
  /\ i' = 0 /\ tier' = 1 /\ rpmValid' = FALSE
  /\ idx' = NoTurns
  /\ wait' = NoWait /\ rr' = 0 /\ groupWait' = 0
  /\ late' = NoneLate /\ warm' = {}
  /\ UNCHANGED beyond

-----------------------------------------------------------------------------
(* processUDS().                                                           *)

\* The entries the cursor meets before it comes to d.
Turn(d) == IF d >= rr THEN d - rr ELSE d - rr + Len(Interval)

\* The DIDs that are due; those the budget is for, in the order the cursor meets them.
Due == {d \in Others : wait[d] = 0}
Served(budget) == {d \in Due : Cardinality({e \in Due : Turn(e) < Turn(d)}) < budget}

\* Slip: the cursor stays where it is, and the front of the table eats the budget.
CursorStuck(served) == rr' = rr
\* It goes on behind the last one served.
MoveCursor(served) ==
  IF served = {} THEN rr' = rr
  ELSE \E d \in served : (\A e \in served : Turn(e) <= Turn(d)) /\ rr' = (d + 1) % Len(Interval)

\* A DID is rescheduled whether its read succeeds or not; then all count down.
RoundRobin(budget) ==
  LET served == Served(budget)
      Left(d) == IF d \in served THEN IntervalOf(d) ELSE wait[d]
  IN
  /\ wait' = [d \in DIDs |-> IF Left(d) > 0 THEN Left(d) - 1 ELSE 0]
  /\ MoveCursor(served)
  /\ late' = [d \in Others |-> IF wait[d] = 0 /\ d \notin served THEN late[d] + 1 ELSE 0]
  /\ warm' = warm \cup served

\* Slip: each member goes into the record as it is read.
CommitEach(reads, ok) == IF ok THEN record \cup Members ELSE
  record \cup {d \in Members : Cardinality({e \in Members : e < d}) < reads - 1}
\* Staged, and committed only when all were read.
Commit(reads, ok) == IF ok THEN record \cup Members ELSE record

\* readGroup(): `reads` members tried, the last of them in vain unless all went well. An
\* implausible value counts as a failed read.
ReadGroup(reads, ok) ==
  /\ rpmValid
  /\ IF ok THEN reads = Cardinality(Members) ELSE Faults /\ reads \in 1 .. Cardinality(Members)
  /\ record' = Commit(reads, ok)

GroupCycle ==
  /\ pc = "uds" /\ groupWait = 0
  /\ groupWait' = GroupPeriod - 1
  /\ \/ \E reads \in 0 .. Cardinality(Members), ok \in BOOLEAN :
          /\ ReadGroup(reads, ok)
          /\ RoundRobin(IF reads > MaxPerCycle THEN 0 ELSE MaxPerCycle - reads)
     \/ ~rpmValid /\ RoundRobin(MaxPerCycle) /\ UNCHANGED record
  /\ pc' = "publish"
  /\ UNCHANGED <<ready, errors, mapRead, obdVars>>

PlainCycle ==
  /\ pc = "uds" /\ groupWait > 0
  /\ groupWait' = groupWait - 1
  /\ RoundRobin(MaxPerCycle)
  /\ pc' = "publish"
  /\ UNCHANGED <<ready, errors, mapRead, record, obdVars>>

-----------------------------------------------------------------------------
ProcessOBD == Begin \/ EnterTier \/ SkipInvalid \/ ReadOk \/ ReadFails \/ Overrun \/ PassEnds
ProcessUDS == GroupCycle \/ PlainCycle
Process ==
  \/ ProcessOBD \/ LinkAlive \/ Reinit \/ EcuOff \/ EcuOn \/ EcuStillOff
  \/ ProcessUDS \/ Publish \/ Park
Next == Process \/ Restart

Spec == Init /\ [][Next]_vars

\* loop() comes round; whether the engine runs and the ECU answers is not the logger's.
FairSpec == Spec /\ WF_vars(Process)

-----------------------------------------------------------------------------
\* Every variable holds a value of its kind; the tier counters drive the index at most
\* one entry past the table, and its fourth value is never used to index again.
TypeOK ==
  /\ pc \in {"begin", "obd", "overrun", "errors", "uds", "publish", "parked"}
  /\ ready \in BOOLEAN /\ mapRead \in BOOLEAN /\ rpmValid \in BOOLEAN
  /\ errors \in 0 .. MaxErrors
  /\ i \in 0 .. Count + 1 /\ tier \in 1 .. 3
  /\ \A t \in {2, 3} : idx[t] \in 0 .. Cardinality(EntriesOf(t)) + 1
  /\ record \subseteq Members \cup {RpmElement}
  /\ DOMAIN wait = DIDs /\ \A d \in DIDs : wait[d] \in 0 .. IntervalOf(d)
  /\ rr \in DIDs /\ groupWait \in 0 .. GroupPeriod - 1

\* All or nothing: a record holds the whole derived-inputs group, with the RPM of the
\* same cycle, or no member of it.
GroupAtomic == record \cap Members = {} \/ Members \cup {RpmElement} \subseteq record

\* What the budget leaves for the round robin over one period of the group, at worst.
AfterGroup ==
  IF MaxPerCycle > Cardinality(Members) THEN MaxPerCycle - Cardinality(Members) ELSE 0
PerPeriod == (GroupPeriod - 1) * MaxPerCycle + AfterGroup

\* "Nothing starves": once due, a DID has its turn within the periods that one pass over all
\* the others takes, whatever group reads fail or are suppressed.
NothingStarves ==
  \A d \in Others : (late[d] \div GroupPeriod) * PerPeriod <= Cardinality(Others)

SlowPIDs == {p \in Supported : TierOf(p) > 1}

\* The slow PIDs come round: while the ECU answers, and its map was read, each supported
\* one is polled again and again, overruns of the table or not.
SlowPIDsComeRound ==
  (<>[](ready /\ mapRead /\ pc # "parked") /\ <>[][~ReadFails]_vars)
    => \A p \in SlowPIDs : []<><<ReadOk /\ i = p>>_vars

-----------------------------------------------------------------------------
FastDIDs == {d \in Others : IntervalOf(d) = 1}

\* UDS_FAST: "every process() cycle". Once every DID has been read, so that nothing is
\* left of the rush of the first cycles, no cycle passes without the fast ones.
FastEveryCycle == warm = Others => \A d \in FastDIDs : late[d] = 0

=============================================================================
