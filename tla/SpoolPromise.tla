---------------------------- MODULE SpoolPromise ----------------------------
(***************************************************************************)
(* What RecordSpool promises telemetry(), without files, handles or a      *)
(* card: a record it accepts waits until it is delivered, and the only     *)
(* ways to lose one are a power cut, which takes fewer than MaxLoss        *)
(* records, and a restart of the device on a record that bears no time of  *)
(* its own. A delivered record may be delivered again; a lost one never    *)
(* comes back.                                                             *)
(***************************************************************************)
EXTENDS Integers, FiniteSets

CONSTANTS
  Record,    \* records, as telemetry() hands them over
  MaxLoss    \* a power cut takes fewer

VARIABLES waiting, delivered, lost

vars == <<waiting, delivered, lost>>

Init == waiting = {} /\ delivered = {} /\ lost = {}

Accept(r) ==
  /\ r \notin waiting \cup delivered \cup lost
  /\ waiting' = waiting \cup {r}
  /\ UNCHANGED <<delivered, lost>>

Deliver(r) ==
  /\ r \in waiting
  /\ waiting' = waiting \ {r}
  /\ delivered' = delivered \cup {r}
  /\ UNCHANGED lost

\* A record whose capture tick belongs to a boot that is over.
GiveUp(r) ==
  /\ r \in waiting
  /\ waiting' = waiting \ {r}
  /\ lost' = lost \cup {r}
  /\ UNCHANGED delivered

PowerCut(S) ==
  /\ S \subseteq waiting
  /\ Cardinality(S) < MaxLoss
  /\ waiting' = waiting \ S
  /\ lost' = lost \cup S
  /\ UNCHANGED delivered

Next ==
  \/ \E r \in Record : Accept(r) \/ Deliver(r) \/ GiveUp(r)
  \/ \E S \in SUBSET waiting : PowerCut(S)

Spec == Init /\ [][Next]_vars

=============================================================================
