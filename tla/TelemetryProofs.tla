---------------------------- MODULE TelemetryProofs ----------------------------
(***************************************************************************)
(* What the telemetry task and loop() can rely on, however the two halves  *)
(* of their flag updates interleave, for every limit on the connection     *)
(* errors and on one core or two.                                          *)
(***************************************************************************)
EXTENDS Telemetry, TLAPS

\* Where a task is, or gets as soon as the update under way is stored.
Going(t) == IF At(t, "store") THEN rmw[t].next ELSE pc[t]

\* The updates of the loop: each leaves the flags without WORKING.
LoopUpdates ==
  /\ pc["loop"] \in {"run", "standby", "stopwork", "wait", "store"}
  /\ At("loop", "store") =>
       \/ /\ rmw["loop"].next \in {"standby", "wait"}
          /\ rmw["loop"].clear = {"WORKING"} /\ rmw["loop"].set = {}
       \/ /\ rmw["loop"].next = "stopwork"
          /\ rmw["loop"].clear = {} /\ rmw["loop"].set = {"STANDBY"}
          /\ "WORKING" \notin rmw["loop"].old

\* The updates of telemetry touch the bits of the link only, and on the way back to the
\* top CELL_CONNECTED is cleared.
TelemetryUpdates ==
  /\ pc["telemetry"] \notin {"run", "standby", "stopwork", "wait"}
  /\ At("telemetry", "store") =>
       /\ rmw["telemetry"].set \subseteq LinkFlags /\ rmw["telemetry"].clear \subseteq LinkFlags
       /\ rmw["telemetry"].next \in
            {"sbclose", "pinged", "top", "registered", "poll", "cooloff"}
       /\ rmw["telemetry"].next \in {"sbclose", "top", "cooloff"} =>
            /\ "CELL_CONNECTED" \in rmw["telemetry"].clear
            /\ rmw["telemetry"].set = {}

\* Until the loop has announced stand-by, STANDBY is nowhere, not even in a value about to be
\* stored, and telemetry is not in stand-by.
Collecting ==
  (\/ pc["loop"] \in {"run", "standby"}
   \/ At("loop", "store") /\ rmw["loop"].next \in {"standby", "stopwork"}) =>
    /\ "STANDBY" \notin flags
    /\ \A t \in Task : At(t, "store") => "STANDBY" \notin rmw[t].old
    /\ Going("telemetry") \notin {"shutdown", "sbclose", "sbwait", "ping", "pinged"}

\* ... and from the purge on nothing is left behind.
Clean == Going("telemetry") \in {"sbwait", "ping", "pinged"} => ~filled /\ ~spoolOpen

\* Whenever telemetry may send, the errors are below their limit: it comes to the live link
\* with both flags set, and where the count may be at the limit they are not.
Limited ==
  /\ Going("telemetry") \in {"initcell", "registered", "connect", "giveup", "poll", "idle", "transmit"}
       => connErrors < MaxConnErrors
  /\ Going("telemetry") \in {"receive", "sync"} => connErrors <= MaxConnErrors
  /\ pc["telemetry"] \in {"top", "sbclose", "sbwait", "cooloff"} =>
       ~("WORKING" \in flags /\ "CELL_CONNECTED" \in flags)
  /\ At("telemetry", "work") /\ connErrors >= MaxConnErrors =>
       ~("WORKING" \in flags /\ "CELL_CONNECTED" \in flags)

\* Telemetry holds a value of the flags from before stand-by was announced.
Stale == At("telemetry", "store") /\ "STANDBY" \notin rmw["telemetry"].old

\* What telemetry has seen of STANDBY stands, and the loop has seen it too: only an update that
\* was loaded before can take it away.
Standing ==
  /\ pc["telemetry"] \in {"shutdown", "sbclose", "sbwait", "ping", "pinged"} => "STANDBY" \in flags
  /\ At("telemetry", "store") /\ "STANDBY" \in rmw["telemetry"].old => "STANDBY" \in flags
  /\ At("telemetry", "store") /\ rmw["telemetry"].next \in {"sbclose", "pinged"} =>
       "STANDBY" \in rmw["telemetry"].old
  /\ "STANDBY" \in flags /\ ~Stale /\ At("loop", "store") => "STANDBY" \in rmw["loop"].old

IInv ==
  /\ TypeOK /\ LoopUpdates /\ TelemetryUpdates
  /\ Collecting /\ Clean /\ Limited /\ Standing

-----------------------------------------------------------------------------
\* Both tasks start in order, with no update under way.
LEMMA InitEstablishes == Init => IInv
<1> SUFFICES ASSUME Init
             PROVE  IInv
  OBVIOUS
<1> USE DEF Init, Task
<1>1. TypeOK
  <2>1. pc \in [Task -> Label]
    BY DEF Label, Blocked
  <2>2. NoChange \in [old : SUBSET Flag, set : SUBSET Flag, clear : SUBSET Flag,
                      next : Label \cup {"none"}]
    BY DEF NoChange
  <2>3. rmw \in [Task -> [old : SUBSET Flag, set : SUBSET Flag, clear : SUBSET Flag,
                         next : Label \cup {"none"}]]
    BY <2>2
  <2>4. connErrors \in 0 .. MaxConnErrors + 1
    BY TelemetryAssumption
  <2> QED
    BY <2>1, <2>3, <2>4 DEF TypeOK, Flag
<1>2. LoopUpdates /\ TelemetryUpdates /\ Standing
  BY DEF LoopUpdates, TelemetryUpdates, Standing, Stale, At, Going
<1>3. Collecting /\ Clean /\ Limited
  BY DEF Collecting, Clean, Limited, At, Going
<1> QED
  BY <1>1, <1>2, <1>3 DEF IInv

\* An update under way is a record of two sets of flags, and of the place to go to.
LEMMA ModifyTypes ==
  ASSUME TypeOK, NEW t \in Task, NEW set \in SUBSET Flag, NEW clear \in SUBSET Flag,
         NEW next \in Label, Modify(t, set, clear, next)
  PROVE  rmw' \in [Task -> [old : SUBSET Flag, set : SUBSET Flag, clear : SUBSET Flag,
                            next : Label \cup {"none"}]]
BY DEF Modify, TypeOK

\* Every step of either task preserves the invariant.
LEMMA StepPreserves ==
  ASSUME IInv, [Next]_vars
  PROVE  IInv'
<1> USE TelemetryAssumption
<1> USE DEF IInv, Task, Flag, LinkFlags, Label, Blocked, At, Goto, Check, Going, NoChange,
        Modify, Set, Clear, linkVars, dataVars, taskVars
<1>1. CASE Publish /\ UNCHANGED sharedCore
  <2>1. TypeOK'
    BY <1>1 DEF Publish, TypeOK
  <2>2. LoopUpdates' /\ TelemetryUpdates'
    BY <1>1 DEF Publish, LoopUpdates, TelemetryUpdates
  <2>3. Collecting' /\ Clean'
    <3>1. Collecting'
      BY <1>1 DEF Publish, TypeOK, LoopUpdates, Collecting
    <3>2. Going("telemetry") \notin {"shutdown", "sbclose", "sbwait", "ping", "pinged"}
      BY <1>1 DEF Publish, Collecting
    <3>3. pc' = pc /\ rmw' = rmw
      BY <1>1 DEF Publish
    <3>4. Clean'
      BY <3>2, <3>3 DEF Clean
    <3> QED
      BY <3>1, <3>4
  <2>4. Limited'
    BY <1>1 DEF Publish, Limited
  <2>5. Standing'
    BY <1>1 DEF Publish, TypeOK, LoopUpdates, TelemetryUpdates, Collecting, Standing, Stale
  <2> QED
    BY <2>1, <2>2, <2>3, <2>4, <2>5
<1>2. CASE Park /\ UNCHANGED sharedCore
  <2>1. TypeOK'
    BY <1>2 DEF Park, TypeOK
  <2>2. LoopUpdates' /\ TelemetryUpdates'
    BY <1>2 DEF Park, TypeOK, LoopUpdates, TelemetryUpdates
  <2>3. Collecting' /\ Clean'
    <3>1. Collecting'
      <4>1. /\ "STANDBY" \notin flags
            /\ At("telemetry", "store") => "STANDBY" \notin rmw["telemetry"].old
            /\ Going("telemetry") \notin {"shutdown", "sbclose", "sbwait", "ping", "pinged"}
        BY <1>2 DEF Park, Collecting
      <4>2. flags' = flags /\ rmw'["loop"].old = flags
        BY <1>2 DEF Park, TypeOK
      <4>3. pc'["telemetry"] = pc["telemetry"] /\ rmw'["telemetry"] = rmw["telemetry"]
        BY <1>2 DEF Park, TypeOK
      <4> QED
        BY <4>1, <4>2, <4>3 DEF Collecting
    <3>2. Clean'
      BY <1>2 DEF Park, TypeOK, LoopUpdates, Collecting, Clean
    <3> QED
      BY <3>1, <3>2
  <2>4. Limited'
    BY <1>2 DEF Park, Limited
  <2>5. Standing'
    BY <1>2 DEF Park, TypeOK, LoopUpdates, TelemetryUpdates, Collecting, Standing, Stale
  <2> QED
    BY <2>1, <2>2, <2>3, <2>4, <2>5
<1>3. CASE WorkOn /\ UNCHANGED sharedCore
  <2>1. TypeOK'
    BY <1>3 DEF WorkOn, TypeOK
  <2>2. LoopUpdates' /\ TelemetryUpdates'
    BY <1>3 DEF WorkOn, LoopUpdates, TelemetryUpdates
  <2>3. Collecting' /\ Clean'
    BY <1>3 DEF WorkOn, Collecting, Clean
  <2>4. Limited'
    BY <1>3 DEF WorkOn, Limited
  <2>5. Standing'
    BY <1>3 DEF WorkOn, TypeOK, LoopUpdates, TelemetryUpdates, Collecting, Standing, Stale
  <2> QED
    BY <2>1, <2>2, <2>3, <2>4, <2>5
<1>4. CASE EnterStandby /\ UNCHANGED sharedCore
  <2>1. TypeOK'
    BY <1>4 DEF EnterStandby, TypeOK
  <2>2. LoopUpdates' /\ TelemetryUpdates'
    BY <1>4 DEF EnterStandby, TypeOK, LoopUpdates, TelemetryUpdates
  <2>3. Collecting' /\ Clean'
    <3>1. Collecting'
      <4>1. /\ "STANDBY" \notin flags
            /\ At("telemetry", "store") => "STANDBY" \notin rmw["telemetry"].old
            /\ Going("telemetry") \notin {"shutdown", "sbclose", "sbwait", "ping", "pinged"}
        BY <1>4 DEF EnterStandby, Collecting
      <4>2. flags' = flags /\ rmw'["loop"].old = flags
        BY <1>4 DEF EnterStandby, TypeOK
      <4>3. pc'["telemetry"] = pc["telemetry"] /\ rmw'["telemetry"] = rmw["telemetry"]
        BY <1>4 DEF EnterStandby, TypeOK
      <4> QED
        BY <4>1, <4>2, <4>3 DEF Collecting
    <3>2. Clean'
      BY <1>4 DEF EnterStandby, TypeOK, LoopUpdates, Collecting, Clean
    <3> QED
      BY <3>1, <3>2
  <2>4. Limited'
    BY <1>4 DEF EnterStandby, Limited
  <2>5. Standing'
    BY <1>4 DEF EnterStandby, TypeOK, LoopUpdates, TelemetryUpdates, Collecting, Standing, Stale
  <2> QED
    BY <2>1, <2>2, <2>3, <2>4, <2>5
<1>5. CASE StopWork /\ UNCHANGED sharedCore
  <2>1. TypeOK'
    BY <1>5 DEF StopWork, TypeOK
  <2>2. LoopUpdates' /\ TelemetryUpdates'
    BY <1>5 DEF StopWork, TypeOK, LoopUpdates, TelemetryUpdates
  <2>3. Collecting' /\ Clean'
    BY <1>5 DEF StopWork, TypeOK, Collecting, Clean
  <2>4. Limited'
    BY <1>5 DEF StopWork, Limited
  <2>5. Standing'
    BY <1>5 DEF StopWork, TypeOK, LoopUpdates, TelemetryUpdates, Collecting, Standing, Stale
  <2> QED
    BY <2>1, <2>2, <2>3, <2>4, <2>5
<1>6. CASE LoopStore /\ UNCHANGED sharedCore
  <2>1. TypeOK'
    BY <1>6 DEF LoopStore, Store, TypeOK, LoopUpdates
  <2>2. LoopUpdates' /\ TelemetryUpdates'
    BY <1>6 DEF LoopStore, Store, TypeOK, LoopUpdates, TelemetryUpdates
  <2>3. Collecting' /\ Clean'
    <3>1. Collecting'
      BY <1>6 DEF LoopStore, Store, TypeOK, LoopUpdates, Collecting
    <3>2. Clean'
      BY <1>6 DEF LoopStore, Store, TypeOK, LoopUpdates, Collecting, Clean
    <3> QED
      BY <3>1, <3>2
  <2>4. Limited'
    BY <1>6 DEF LoopStore, Store, LoopUpdates, Limited
  <2>5. Standing'
    BY <1>6 DEF LoopStore, Store, TypeOK, LoopUpdates, TelemetryUpdates, Collecting, Standing, Stale
  <2> QED
    BY <2>1, <2>2, <2>3, <2>4, <2>5
<1>7. CASE Restart /\ UNCHANGED sharedCore
  <2>1. TypeOK'
    <3>1. flags' \subseteq Flag /\ pc' \in [Task -> Label]
      BY <1>7 DEF Restart
    <3>2. connErrors' \in 0 .. MaxConnErrors + 1
      BY <1>7 DEF Restart
    <3> QED
      BY <1>7, <3>1, <3>2 DEF Restart, TypeOK
  <2>2. LoopUpdates' /\ TelemetryUpdates'
    BY <1>7 DEF Restart, LoopUpdates, TelemetryUpdates
  <2>3. Collecting' /\ Clean'
    BY <1>7 DEF Restart, Collecting, Clean
  <2>4. Limited'
    BY <1>7 DEF Restart, Limited
  <2>5. Standing'
    BY <1>7 DEF Restart, TypeOK, LoopUpdates, TelemetryUpdates, Collecting, Standing, Stale
  <2> QED
    BY <2>1, <2>2, <2>3, <2>4, <2>5
<1>8. CASE Spin /\ UNCHANGED sharedCore
  <2>1. TypeOK'
    BY <1>8 DEF Spin, TypeOK
  <2>2. LoopUpdates' /\ TelemetryUpdates'
    BY <1>8 DEF Spin, LoopUpdates, TelemetryUpdates
  <2>3. Collecting' /\ Clean'
    BY <1>8 DEF Spin, Collecting, Clean
  <2>4. Limited'
    BY <1>8 DEF Spin, Limited
  <2>5. Standing'
    BY <1>8 DEF Spin, TypeOK, LoopUpdates, TelemetryUpdates, Collecting, Standing, Stale
  <2> QED
    BY <2>1, <2>2, <2>3, <2>4, <2>5
<1>9. CASE TopStandby /\ UNCHANGED sharedCore
  <2>1. TypeOK'
    <3>1. rmw' \in [Task -> [old : SUBSET Flag, set : SUBSET Flag, clear : SUBSET Flag,
                            next : Label \cup {"none"}]]
      <4>1. CASE Clear("telemetry", LinkFlags, "sbclose")
        BY <4>1, ModifyTypes
      <4>2. CASE UNCHANGED rmw
        BY <4>2 DEF TypeOK
      <4> QED
        BY <1>9, <4>1, <4>2 DEF TopStandby
    <3> QED
      BY <1>9, <3>1 DEF TopStandby, TypeOK
  <2>2. LoopUpdates' /\ TelemetryUpdates'
    BY <1>9 DEF TopStandby, TypeOK, LoopUpdates, TelemetryUpdates
  <2>3. Collecting' /\ Clean'
    BY <1>9 DEF TopStandby, TypeOK, Collecting, Clean
  <2>4. Limited'
    BY <1>9 DEF TopStandby, TypeOK, Limited
  <2>5. Standing'
    BY <1>9 DEF TopStandby, TypeOK, LoopUpdates, TelemetryUpdates, Collecting, Standing, Stale
  <2> QED
    BY <2>1, <2>2, <2>3, <2>4, <2>5
<1>10. CASE Shutdown /\ UNCHANGED sharedCore
  <2>1. TypeOK'
    BY <1>10 DEF Shutdown, TypeOK
  <2>2. LoopUpdates' /\ TelemetryUpdates'
    BY <1>10 DEF Shutdown, TypeOK, LoopUpdates, TelemetryUpdates
  <2>3. Collecting' /\ Clean'
    BY <1>10 DEF Shutdown, TypeOK, Collecting, Clean
  <2>4. Limited'
    BY <1>10 DEF Shutdown, TypeOK, Limited
  <2>5. Standing'
    BY <1>10 DEF Shutdown, TypeOK, LoopUpdates, TelemetryUpdates, Collecting, Standing, Stale
  <2> QED
    BY <2>1, <2>2, <2>3, <2>4, <2>5
<1>11. CASE CloseAndPurge /\ UNCHANGED sharedCore
  <2>1. TypeOK'
    BY <1>11 DEF CloseAndPurge, TypeOK
  <2>2. LoopUpdates' /\ TelemetryUpdates'
    BY <1>11 DEF CloseAndPurge, LoopUpdates, TelemetryUpdates
  <2>3. Collecting' /\ Clean'
    BY <1>11 DEF CloseAndPurge, Collecting, Clean
  <2>4. Limited'
    BY <1>11 DEF CloseAndPurge, Limited
  <2>5. Standing'
    BY <1>11 DEF CloseAndPurge, TypeOK, LoopUpdates, TelemetryUpdates, Collecting, Standing, Stale
  <2> QED
    BY <2>1, <2>2, <2>3, <2>4, <2>5
<1>12. CASE WaitOver /\ UNCHANGED sharedCore
  <2>1. TypeOK'
    BY <1>12 DEF WaitOver, TypeOK
  <2>2. LoopUpdates' /\ TelemetryUpdates'
    BY <1>12 DEF WaitOver, LoopUpdates, TelemetryUpdates
  <2>3. Collecting' /\ Clean'
    BY <1>12 DEF WaitOver, Collecting, Clean
  <2>4. Limited'
    BY <1>12 DEF WaitOver, Limited
  <2>5. Standing'
    BY <1>12 DEF WaitOver, TypeOK, LoopUpdates, TelemetryUpdates, Collecting, Standing, Stale
  <2> QED
    BY <2>1, <2>2, <2>3, <2>4, <2>5
<1>13. CASE Ping /\ UNCHANGED sharedCore
  <2>1. TypeOK'
    <3>1. rmw' \in [Task -> [old : SUBSET Flag, set : SUBSET Flag, clear : SUBSET Flag,
                            next : Label \cup {"none"}]]
      <4>1. CASE Set("telemetry", {"CELL_CONNECTED"}, "pinged")
        BY <4>1, ModifyTypes
      <4>2. CASE UNCHANGED rmw
        BY <4>2 DEF TypeOK
      <4> QED
        BY <1>13, <4>1, <4>2 DEF Ping
    <3> QED
      BY <1>13, <3>1 DEF Ping, TypeOK
  <2>2. LoopUpdates' /\ TelemetryUpdates'
    BY <1>13 DEF Ping, TypeOK, LoopUpdates, TelemetryUpdates
  <2>3. Collecting' /\ Clean'
    BY <1>13 DEF Ping, TypeOK, Collecting, Clean
  <2>4. Limited'
    BY <1>13 DEF Ping, TypeOK, Limited
  <2>5. Standing'
    BY <1>13 DEF Ping, TypeOK, LoopUpdates, TelemetryUpdates, Collecting, Standing, Stale
  <2> QED
    BY <2>1, <2>2, <2>3, <2>4, <2>5
<1>14. CASE Pinged /\ UNCHANGED sharedCore
  <2>1. TypeOK'
    BY <1>14 DEF Pinged, TypeOK
  <2>2. LoopUpdates' /\ TelemetryUpdates'
    BY <1>14 DEF Pinged, TypeOK, LoopUpdates, TelemetryUpdates
  <2>3. Collecting' /\ Clean'
    BY <1>14 DEF Pinged, Collecting, Clean
  <2>4. Limited'
    BY <1>14 DEF Pinged, TypeOK, Limited
  <2>5. Standing'
    BY <1>14 DEF Pinged, TypeOK, LoopUpdates, TelemetryUpdates, Collecting, Standing, Stale
  <2> QED
    BY <2>1, <2>2, <2>3, <2>4, <2>5
<1>15. CASE TopWorking /\ UNCHANGED sharedCore
  <2>1. TypeOK'
    BY <1>15 DEF TopWorking, TypeOK
  <2>2. LoopUpdates' /\ TelemetryUpdates'
    BY <1>15 DEF TopWorking, LoopUpdates, TelemetryUpdates
  <2>3. Collecting' /\ Clean'
    BY <1>15 DEF TopWorking, Collecting, Clean
  <2>4. Limited'
    BY <1>15 DEF TopWorking, Limited
  <2>5. Standing'
    BY <1>15 DEF TopWorking, TypeOK, LoopUpdates, TelemetryUpdates, Collecting, Standing, Stale
  <2> QED
    BY <2>1, <2>2, <2>3, <2>4, <2>5
<1>16. CASE Work /\ UNCHANGED sharedCore
  <2>1. TypeOK'
    <3>1. flags' \subseteq Flag /\ pc' \in [Task -> Label]
      BY <1>16 DEF Work, TypeOK
    <3>2. connErrors' \in 0 .. MaxConnErrors + 1
      BY <1>16 DEF Work, TypeOK
    <3> QED
      BY <1>16, <3>1, <3>2 DEF Work, SpoolQueued, TypeOK
  <2>2. LoopUpdates' /\ TelemetryUpdates'
    BY <1>16 DEF Work, TypeOK, LoopUpdates, TelemetryUpdates
  <2>3. Collecting' /\ Clean'
    BY <1>16 DEF Work, TypeOK, Collecting, Clean
  <2>4. Limited'
    BY <1>16 DEF Work, TypeOK, Limited
  <2>5. Standing'
    BY <1>16 DEF Work, TypeOK, LoopUpdates, TelemetryUpdates, Collecting, Standing, Stale
  <2> QED
    BY <2>1, <2>2, <2>3, <2>4, <2>5
<1>17. CASE Registers /\ UNCHANGED sharedCore
  <2>1. TypeOK'
    BY <1>17 DEF Registers, TypeOK
  <2>2. LoopUpdates' /\ TelemetryUpdates'
    BY <1>17 DEF Registers, TypeOK, LoopUpdates, TelemetryUpdates
  <2>3. Collecting' /\ Clean'
    BY <1>17 DEF Registers, TypeOK, Collecting, Clean
  <2>4. Limited'
    BY <1>17 DEF Registers, TypeOK, Limited
  <2>5. Standing'
    BY <1>17 DEF Registers, TypeOK, LoopUpdates, TelemetryUpdates, Collecting, Standing, Stale
  <2> QED
    BY <2>1, <2>2, <2>3, <2>4, <2>5
<1>18. CASE RegisterFails /\ UNCHANGED sharedCore
  <2>1. TypeOK'
    <3>1. flags' \subseteq Flag /\ pc' \in [Task -> Label]
      BY <1>18 DEF RegisterFails, TypeOK
    <3> QED
      BY <1>18, <3>1 DEF RegisterFails, TypeOK
  <2>2. LoopUpdates' /\ TelemetryUpdates'
    BY <1>18 DEF RegisterFails, TypeOK, LoopUpdates, TelemetryUpdates
  <2>3. Collecting' /\ Clean'
    BY <1>18 DEF RegisterFails, TypeOK, Collecting, Clean
  <2>4. Limited'
    BY <1>18 DEF RegisterFails, TypeOK, Limited
  <2>5. Standing'
    BY <1>18 DEF RegisterFails, TypeOK, LoopUpdates, TelemetryUpdates, Collecting, Standing, Stale
  <2> QED
    BY <2>1, <2>2, <2>3, <2>4, <2>5
<1>19. CASE Registered /\ UNCHANGED sharedCore
  <2>1. TypeOK'
    BY <1>19 DEF Registered, TypeOK
  <2>2. LoopUpdates' /\ TelemetryUpdates'
    BY <1>19 DEF Registered, LoopUpdates, TelemetryUpdates
  <2>3. Collecting' /\ Clean'
    BY <1>19 DEF Registered, Collecting, Clean
  <2>4. Limited'
    BY <1>19 DEF Registered, Limited
  <2>5. Standing'
    BY <1>19 DEF Registered, TypeOK, LoopUpdates, TelemetryUpdates, Collecting, Standing, Stale
  <2> QED
    BY <2>1, <2>2, <2>3, <2>4, <2>5
<1>20. CASE Connects /\ UNCHANGED sharedCore
  <2>1. TypeOK'
    BY <1>20 DEF Connects, TypeOK
  <2>2. LoopUpdates' /\ TelemetryUpdates'
    BY <1>20 DEF Connects, TypeOK, LoopUpdates, TelemetryUpdates
  <2>3. Collecting' /\ Clean'
    BY <1>20 DEF Connects, TypeOK, Collecting, Clean
  <2>4. Limited'
    BY <1>20 DEF Connects, TypeOK, Limited
  <2>5. Standing'
    BY <1>20 DEF Connects, TypeOK, LoopUpdates, TelemetryUpdates, Collecting, Standing, Stale
  <2> QED
    BY <2>1, <2>2, <2>3, <2>4, <2>5
<1>21. CASE ConnectFails /\ UNCHANGED sharedCore
  <2>1. TypeOK'
    BY <1>21 DEF ConnectFails, TypeOK
  <2>2. LoopUpdates' /\ TelemetryUpdates'
    BY <1>21 DEF ConnectFails, LoopUpdates, TelemetryUpdates
  <2>3. Collecting' /\ Clean'
    BY <1>21 DEF ConnectFails, Collecting, Clean
  <2>4. Limited'
    BY <1>21 DEF ConnectFails, Limited
  <2>5. Standing'
    BY <1>21 DEF ConnectFails, TypeOK, LoopUpdates, TelemetryUpdates, Collecting, Standing, Stale
  <2> QED
    BY <2>1, <2>2, <2>3, <2>4, <2>5
<1>22. CASE GiveUp /\ UNCHANGED sharedCore
  <2>1. TypeOK'
    BY <1>22 DEF GiveUp, PowerOff, TypeOK
  <2>2. LoopUpdates' /\ TelemetryUpdates'
    BY <1>22 DEF GiveUp, TypeOK, LoopUpdates, TelemetryUpdates
  <2>3. Collecting' /\ Clean'
    BY <1>22 DEF GiveUp, TypeOK, Collecting, Clean
  <2>4. Limited'
    BY <1>22 DEF GiveUp, TypeOK, Limited
  <2>5. Standing'
    BY <1>22 DEF GiveUp, TypeOK, LoopUpdates, TelemetryUpdates, Collecting, Standing, Stale
  <2> QED
    BY <2>1, <2>2, <2>3, <2>4, <2>5
<1>23. CASE CoolOff /\ UNCHANGED sharedCore
  <2>1. TypeOK'
    <3>1. flags' \subseteq Flag /\ pc' \in [Task -> Label]
      BY <1>23 DEF CoolOff, TypeOK
    <3> QED
      BY <1>23, <3>1 DEF CoolOff, SpoolQueued, TypeOK
  <2>2. LoopUpdates' /\ TelemetryUpdates'
    BY <1>23 DEF CoolOff, TypeOK, LoopUpdates, TelemetryUpdates
  <2>3. Collecting' /\ Clean'
    BY <1>23 DEF CoolOff, TypeOK, Collecting, Clean
  <2>4. Limited'
    BY <1>23 DEF CoolOff, TypeOK, Limited
  <2>5. Standing'
    BY <1>23 DEF CoolOff, TypeOK, LoopUpdates, TelemetryUpdates, Collecting, Standing, Stale
  <2> QED
    BY <2>1, <2>2, <2>3, <2>4, <2>5
<1>24. CASE Poll /\ UNCHANGED sharedCore
  <2>1. TypeOK'
    <3>1. flags' \subseteq Flag /\ pc' \in [Task -> Label]
      BY <1>24 DEF Poll, TypeOK
    <3> QED
      BY <1>24, <3>1 DEF Poll, TypeOK
  <2>2. LoopUpdates' /\ TelemetryUpdates'
    BY <1>24 DEF Poll, TypeOK, LoopUpdates, TelemetryUpdates
  <2>3. Collecting' /\ Clean'
    BY <1>24 DEF Poll, TypeOK, Collecting, Clean
  <2>4. Limited'
    BY <1>24 DEF Poll, TypeOK, Limited
  <2>5. Standing'
    BY <1>24 DEF Poll, TypeOK, LoopUpdates, TelemetryUpdates, Collecting, Standing, Stale
  <2> QED
    BY <2>1, <2>2, <2>3, <2>4, <2>5
<1>25. CASE Idle /\ UNCHANGED sharedCore
  <2>1. TypeOK'
    BY <1>25 DEF Idle, TypeOK
  <2>2. LoopUpdates' /\ TelemetryUpdates'
    BY <1>25 DEF Idle, LoopUpdates, TelemetryUpdates
  <2>3. Collecting' /\ Clean'
    BY <1>25 DEF Idle, Collecting, Clean
  <2>4. Limited'
    BY <1>25 DEF Idle, TypeOK, Limited
  <2>5. Standing'
    BY <1>25 DEF Idle, TypeOK, LoopUpdates, TelemetryUpdates, Collecting, Standing, Stale
  <2> QED
    BY <2>1, <2>2, <2>3, <2>4, <2>5
<1>26. CASE TransmitConfirmed /\ UNCHANGED sharedCore
  <2>1. TypeOK'
    <3>1. connErrors' \in 0 .. MaxConnErrors + 1
      BY <1>26 DEF TransmitConfirmed
    <3> QED
      BY <1>26, <3>1 DEF TransmitConfirmed, TypeOK
  <2>2. LoopUpdates' /\ TelemetryUpdates'
    BY <1>26 DEF TransmitConfirmed, LoopUpdates, TelemetryUpdates
  <2>3. Collecting' /\ Clean'
    BY <1>26 DEF TransmitConfirmed, Collecting, Clean
  <2>4. Limited'
    BY <1>26 DEF TransmitConfirmed, Limited
  <2>5. Standing'
    BY <1>26 DEF TransmitConfirmed, TypeOK, LoopUpdates, TelemetryUpdates, Collecting, Standing, Stale
  <2> QED
    BY <2>1, <2>2, <2>3, <2>4, <2>5
<1>27. CASE TransmitFails /\ UNCHANGED sharedCore
  <2>1. TypeOK'
    BY <1>27 DEF TransmitFails, TypeOK, Limited
  <2>2. LoopUpdates' /\ TelemetryUpdates'
    BY <1>27 DEF TransmitFails, LoopUpdates, TelemetryUpdates
  <2>3. Collecting' /\ Clean'
    BY <1>27 DEF TransmitFails, Collecting, Clean
  <2>4. Limited'
    BY <1>27 DEF TransmitFails, TypeOK, Limited
  <2>5. Standing'
    BY <1>27 DEF TransmitFails, TypeOK, LoopUpdates, TelemetryUpdates, Collecting, Standing, Stale
  <2> QED
    BY <2>1, <2>2, <2>3, <2>4, <2>5
<1>28. CASE InService /\ UNCHANGED sharedCore
  <2>1. TypeOK'
    BY <1>28 DEF InService, TypeOK
  <2>2. LoopUpdates' /\ TelemetryUpdates'
    BY <1>28 DEF InService, LoopUpdates, TelemetryUpdates
  <2>3. Collecting' /\ Clean'
    BY <1>28 DEF InService, Collecting, Clean
  <2>4. Limited'
    BY <1>28 DEF InService, Limited
  <2>5. Standing'
    BY <1>28 DEF InService, TypeOK, LoopUpdates, TelemetryUpdates, Collecting, Standing, Stale
  <2> QED
    BY <2>1, <2>2, <2>3, <2>4, <2>5
<1>29. CASE NotInService /\ UNCHANGED sharedCore
  <2>1. TypeOK'
    BY <1>29 DEF NotInService, TypeOK
  <2>2. LoopUpdates' /\ TelemetryUpdates'
    BY <1>29 DEF NotInService, TypeOK, LoopUpdates, TelemetryUpdates
  <2>3. Collecting' /\ Clean'
    BY <1>29 DEF NotInService, TypeOK, Collecting, Clean
  <2>4. Limited'
    BY <1>29 DEF NotInService, TypeOK, Limited
  <2>5. Standing'
    BY <1>29 DEF NotInService, TypeOK, LoopUpdates, TelemetryUpdates, Collecting, Standing, Stale
  <2> QED
    BY <2>1, <2>2, <2>3, <2>4, <2>5
<1>30. CASE Sync /\ UNCHANGED sharedCore
  <2>1. TypeOK'
    <3>1. flags' \subseteq Flag /\ pc' \in [Task -> Label]
      BY <1>30 DEF Sync, TypeOK
    <3>2. rmw' \in [Task -> [old : SUBSET Flag, set : SUBSET Flag, clear : SUBSET Flag,
                            next : Label \cup {"none"}]]
      <4>1. CASE Clear("telemetry", LinkFlags, "top")
        BY <4>1, ModifyTypes
      <4>2. CASE UNCHANGED rmw
        BY <4>2 DEF TypeOK
      <4> QED
        BY <1>30, <4>1, <4>2 DEF Sync, PowerOff
    <3>3. connErrors' \in 0 .. MaxConnErrors + 1
      BY <1>30 DEF Sync, TypeOK, Limited
    <3> QED
      BY <1>30, <3>1, <3>2, <3>3 DEF Sync, PowerOff, TypeOK
  <2>2. LoopUpdates' /\ TelemetryUpdates'
    BY <1>30 DEF Sync, TypeOK, LoopUpdates, TelemetryUpdates
  <2>3. Collecting' /\ Clean'
    BY <1>30 DEF Sync, TypeOK, Collecting, Clean
  <2>4. Limited'
    BY <1>30 DEF Sync, TypeOK, Limited
  <2>5. Standing'
    BY <1>30 DEF Sync, TypeOK, LoopUpdates, TelemetryUpdates, Collecting, Standing, Stale
  <2> QED
    BY <2>1, <2>2, <2>3, <2>4, <2>5
<1>31. CASE Store("telemetry") /\ UNCHANGED sharedCore
  <2>1. TypeOK'
    BY <1>31 DEF Store, TypeOK, TelemetryUpdates
  <2>2. LoopUpdates' /\ TelemetryUpdates'
    BY <1>31 DEF Store, TypeOK, LoopUpdates, TelemetryUpdates
  <2>3. Collecting' /\ Clean'
    BY <1>31 DEF Store, TelemetryUpdates, Collecting, Clean
  <2>4. Limited'
    BY <1>31 DEF Store, TelemetryUpdates, Limited
  <2>5. Standing'
    BY <1>31 DEF Store, TypeOK, LoopUpdates, TelemetryUpdates, Collecting, Standing, Stale
  <2> QED
    BY <2>1, <2>2, <2>3, <2>4, <2>5
<1>32. CASE UNCHANGED vars
  BY <1>32 DEF vars, TypeOK, LoopUpdates, TelemetryUpdates, Collecting, Clean, Limited,
     Standing, Stale
<1> QED
  BY <1>1, <1>2, <1>3, <1>4, <1>5, <1>6, <1>7, <1>8, <1>9, <1>10, <1>11, <1>12, <1>13, <1>14,
     <1>15, <1>16, <1>17, <1>18, <1>19, <1>20, <1>21, <1>22, <1>23, <1>24, <1>25, <1>26,
     <1>27, <1>28, <1>29, <1>30, <1>31, <1>32 DEF Next, Loop, TelemetryTask

-----------------------------------------------------------------------------
\* The invariant holds in every state of either setting.
THEOREM Inductive == Spec => []IInv
<1>1. Init => IInv
  BY InitEstablishes
<1>2. IInv /\ [Next]_vars => IInv'
  BY StepPreserves
<1> QED
  BY <1>1, <1>2, PTL DEF Spec

\* Every variable keeps its type; in particular the count of connection errors, which takes
\* the modem's power at its limit, goes one beyond it and no further, although the other
\* task's update may bring CELL_CONNECTED back behind telemetry's.
THEOREM TypeCorrect == Spec => []TypeOK
<1>1. IInv => TypeOK
  BY DEF IInv
<1> QED
  BY <1>1, Inductive, PTL

\* The stand-by of telemetry(): it goes on until loop() restarts the device, whatever updates
\* of the flags the two tasks have under way and on whichever core they run.
THEOREM StandbyLasts == Spec => StandbyEndsInRestart
<1>1. ASSUME IInv, IInv', [Next]_vars
      PROVE  StandingBy => StandingBy' \/ pc'["loop"] = "run"
  <2> SUFFICES ASSUME StandingBy
               PROVE  StandingBy' \/ pc'["loop"] = "run"
    OBVIOUS
  <2> USE DEF Task, At, Goto, Check, Modify, Set, Clear, taskVars
  <2>1. /\ "STANDBY" \in flags /\ ~Stale
        /\ \/ pc["loop"] \in {"stopwork", "wait"}
           \/ At("loop", "store") /\ rmw["loop"].next = "wait"
    BY <1>1 DEF IInv, StandingBy, Standing, Stale, Collecting, LoopUpdates
  <2>2. CASE StopWork
    BY <2>2, <2>1, <1>1 DEF StopWork, StandingBy, IInv, TypeOK
  <2>3. CASE LoopStore
    <3>1. "STANDBY" \in flags'
      BY <2>3, <2>1, <1>1 DEF LoopStore, Store, IInv, Standing, LoopUpdates
    <3>2. pc'["telemetry"] = pc["telemetry"] /\ rmw'["telemetry"] = rmw["telemetry"]
      BY <2>3, <1>1 DEF LoopStore, Store, IInv, TypeOK
    <3> QED
      BY <3>1, <3>2 DEF StandingBy
  <2>4. CASE Restart
    BY <2>4 DEF Restart
  <2>5. CASE Publish \/ Park \/ WorkOn \/ EnterStandby
    BY <2>5, <2>1 DEF Publish, Park, WorkOn, EnterStandby
  <2>6. CASE Spin
    BY <2>6, <2>1, <1>1 DEF Spin, StandingBy, IInv, TypeOK
  <2>7. CASE TopStandby
    BY <2>7, <2>1, <1>1 DEF TopStandby, StandingBy, IInv, TypeOK
  <2>8. CASE Shutdown
    BY <2>8, <2>1, <1>1 DEF Shutdown, StandingBy, IInv, TypeOK
  <2>9. CASE CloseAndPurge
    BY <2>9, <2>1, <1>1 DEF CloseAndPurge, StandingBy, IInv, TypeOK
  <2>10. CASE WaitOver
    BY <2>10, <2>1, <1>1 DEF WaitOver, StandingBy, IInv, TypeOK
  <2>11. CASE Ping
    BY <2>11, <2>1, <1>1 DEF Ping, StandingBy, IInv, TypeOK
  <2>12. CASE Pinged
    BY <2>12, <2>1, <1>1 DEF Pinged, StandingBy, IInv, TypeOK
  <2>13. CASE Store("telemetry")
    <3>1. "STANDBY" \in rmw["telemetry"].old /\ rmw["telemetry"].next \in {"sbclose", "pinged", "top"}
      BY <2>13, <2>1 DEF Store, Stale, StandingBy
    <3>2. "STANDBY" \in flags' /\ pc'["telemetry"] = rmw["telemetry"].next
      BY <2>13, <3>1, <1>1 DEF Store, IInv, TypeOK, TelemetryUpdates, LinkFlags
    <3> QED
      BY <3>1, <3>2 DEF StandingBy
  <2>14. CASE TopWorking \/ Work \/ Registers \/ RegisterFails \/ Registered
    BY <2>14, <2>1 DEF TopWorking, Work, Registers, RegisterFails, Registered, StandingBy
  <2>15. CASE Connects \/ ConnectFails \/ GiveUp \/ CoolOff
    BY <2>15 DEF Connects, ConnectFails, GiveUp, CoolOff, StandingBy
  <2>16. CASE Poll \/ Idle \/ TransmitConfirmed \/ TransmitFails
    BY <2>16 DEF Poll, Idle, TransmitConfirmed, TransmitFails, StandingBy
  <2>17. CASE InService \/ NotInService \/ Sync
    BY <2>17 DEF InService, NotInService, Sync, StandingBy
  <2>18. CASE UNCHANGED vars
    BY <2>18 DEF vars, StandingBy
  <2> QED
    BY <2>2, <2>3, <2>4, <2>5, <2>6, <2>7, <2>8, <2>9, <2>10, <2>11, <2>12, <2>13, <2>14, <2>15,
       <2>16, <2>17, <2>18, <1>1 DEF Next, Loop, TelemetryTask
<1> QED
  BY <1>1, Inductive, PTL DEF Spec, StandbyEndsInRestart

\* The stand-by branch of telemetry(), on one core or two: once it sleeps, the ring is empty
\* and the spool is closed until the restart.
THEOREM StandbyStaysClean == Spec => []StandbyIsClean
<1>1. IInv => StandbyIsClean
  BY DEF IInv, Clean, StandbyIsClean, At, Going
<1> QED
  BY <1>1, Inductive, PTL

=============================================================================
