----------------------------- MODULE RingPromise -----------------------------
(***************************************************************************)
(* What the RAM ring promises the two tasks, without slots, scans or a     *)
(* mark on each slot: records wait in the order of their capture, at most  *)
(* Capacity of them. telemetry() takes the oldest or the newest, one at a  *)
(* time, and hands it on once. What the loop sacrifices for a new record   *)
(* is the oldest there is. Any other loss is a purge, during which nobody  *)
(* publishes or takes, and which ends only when nothing waits any more.    *)
(* The record that is being collected during a purge may be spoiled: it is *)
(* published in its turn, but no longer knows its place in the order.      *)
(***************************************************************************)
EXTENDS Integers, FiniteSets

CONSTANTS
  Record,    \* records, by their instant of capture
  Capacity   \* so many wait at most

VARIABLES waiting, held, delivered, dropped, purging, marred, spoiled

vars == <<waiting, held, delivered, dropped, purging, marred, spoiled>>

Init ==
  /\ waiting = {} /\ held = {} /\ delivered = {} /\ dropped = {}
  /\ purging = FALSE /\ marred = FALSE /\ spoiled = {}

Known == waiting \cup held \cup delivered \cup dropped
Oldest(r) == r \in waiting /\ (r \in spoiled \/ \A k \in waiting \ spoiled : r <= k)
Newest(r) == r \in waiting /\ (r \in spoiled \/ \A k \in waiting \ spoiled : k <= r)

Publish(r) ==
  /\ ~purging
  /\ \A k \in Known : k < r
  /\ Cardinality(waiting) < Capacity
  /\ waiting' = waiting \cup {r}
  /\ spoiled' = IF marred THEN spoiled \cup {r} ELSE spoiled
  /\ marred' = FALSE
  /\ UNCHANGED <<held, delivered, dropped, purging>>

\* The record being collected comes to nothing.
Abandon ==
  /\ marred' = FALSE
  /\ UNCHANGED <<waiting, held, delivered, dropped, purging, spoiled>>

Drop(r) ==
  /\ waiting' = waiting \ {r}
  /\ dropped' = dropped \cup {r}
  /\ UNCHANGED <<held, delivered, purging, marred, spoiled>>

Sacrifice(r) == ~purging /\ Oldest(r) /\ Drop(r)

Take(r) ==
  /\ ~purging /\ held = {}
  /\ Oldest(r) \/ Newest(r)
  /\ waiting' = waiting \ {r}
  /\ held' = {r}
  /\ UNCHANGED <<delivered, dropped, purging, marred, spoiled>>

\* The device may be found too hot as a record goes out.
Deliver(r) ==
  /\ held = {r}
  /\ held' = {}
  /\ delivered' = delivered \cup {r}
  /\ purging' \in BOOLEAN
  /\ UNCHANGED <<waiting, dropped, marred, spoiled>>

BeginPurge ==
  /\ ~purging /\ held = {}
  /\ purging' = TRUE
  /\ UNCHANGED <<waiting, held, delivered, dropped, marred, spoiled>>

Purge(r) == purging /\ r \in waiting /\ Drop(r)

\* It comes upon the record being collected.
Mar ==
  /\ purging
  /\ marred' = TRUE
  /\ UNCHANGED <<waiting, held, delivered, dropped, purging, spoiled>>

EndPurge ==
  /\ purging /\ waiting = {}
  /\ purging' = FALSE
  /\ UNCHANGED <<waiting, held, delivered, dropped, marred, spoiled>>

Next ==
  \/ \E r \in Record : Publish(r) \/ Sacrifice(r) \/ Take(r) \/ Deliver(r) \/ Purge(r)
  \/ Abandon \/ BeginPurge \/ Mar \/ EndPurge

Spec == Init /\ [][Next]_vars

=============================================================================
