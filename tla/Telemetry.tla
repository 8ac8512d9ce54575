------------------------------ MODULE Telemetry ------------------------------
(***************************************************************************)
(* The life of the telemetry task: finding the network, sending live       *)
(* packets, backing off, stand-by; and the life cycle of loop() it has to  *)
(* follow: collecting, parking, waiting for motion, restarting. They talk  *)
(* through the bits of State::m_state, which set() and clear() read,       *)
(* change and write back without a lock.                                   *)
(*                                                                         *)
(* The ring is here only empty or not, the spool only open or not (modules *)
(* BufferRing and RecordSpool have the rest); the modem and the network    *)
(* answer as they like.                                                    *)
(***************************************************************************)
EXTENDS Integers

CONSTANT MaxConnErrors   \* MAX_CONN_ERRORS_RECONNECT

ASSUME TelemetryAssumption == MaxConnErrors \in Nat \ {0}

Flag == {"WORKING", "STANDBY", "CELL_CONNECTED", "NET_READY"}
LinkFlags == {"CELL_CONNECTED", "NET_READY"}
Task == {"loop", "telemetry"}

VARIABLES
  sharedCore,  \* both tasks are on one core, where telemetry has priority
  flags,       \* State::m_state
  pc,          \* where each task is
  rmw,         \* a set() or clear() under way: what it read, and where the task goes next
  connErrors,
  modem,       \* the modem is powered
  filled,      \* a FILLED record waits in the ring
  stamped,     \* the packet in the store bears its time
  spoolOpen,   \* m_outage is open
  anchored     \* timeAnchorIsSet()

linkVars == <<connErrors, modem>>
dataVars == <<filled, stamped, spoolOpen, anchored>>
taskVars == <<flags, pc, rmw, linkVars, dataVars>>
vars == <<sharedCore, taskVars>>

NoChange == [old |-> {}, set |-> {}, clear |-> {}, next |-> "none"]

\* setup() starts the task once everything is initialized; it names no core for it.
Init ==
  /\ sharedCore \in BOOLEAN
  /\ flags = {"WORKING"}
  /\ pc = [loop |-> "run", telemetry |-> "top"]
  /\ rmw = [t \in Task |-> NoChange]
  /\ connErrors = 0 /\ modem = FALSE
  /\ filled = FALSE /\ stamped = FALSE /\ spoolOpen = FALSE /\ anchored = FALSE

At(t, label) == pc[t] = label
Goto(t, label) == pc' = [pc EXCEPT ![t] = label]
Check(f) == f \in flags

\* state.set() and state.clear(): the load ...
Modify(t, set, clear, next) ==
  /\ rmw' = [rmw EXCEPT ![t] = [old |-> flags, set |-> set, clear |-> clear, next |-> next]]
  /\ Goto(t, "store")
\* Slip: = for |= in set().
SetAssigns(t, fs, next) == Modify(t, fs, Flag, next)
Set(t, fs, next) == Modify(t, fs, {}, next)
Clear(t, fs, next) == Modify(t, {}, fs, next)

\* ... and the store.
Store(t) ==
  /\ At(t, "store")
  /\ flags' = (rmw[t].old \ rmw[t].clear) \cup rmw[t].set
  /\ Goto(t, rmw[t].next)
  /\ rmw' = [rmw EXCEPT ![t] = NoChange]
  /\ UNCHANGED <<linkVars, dataVars>>

\* Where telemetry() waits in a delay or for the modem. Round its outer loop, it does not.
Blocked == {"initcell", "connect", "cooloff", "idle", "transmit", "receive", "sync",
            "shutdown", "sbwait", "ping", "pinged"}

\* On one core the loop gets its turn while telemetry waits; on the other, any time.
LoopMayRun == sharedCore => pc["telemetry"] \in Blocked

-----------------------------------------------------------------------------
(* loop(): process(), standby().                                           *)

Publish ==
  /\ At("loop", "run") /\ LoopMayRun
  /\ filled' = TRUE
  /\ anchored' \in {a \in BOOLEAN : anchored => a}     \* processGPS()
  /\ UNCHANGED <<flags, pc, rmw, linkVars, stamped, spoolOpen>>

\* Stationary, or the ECU gone.
Park ==
  /\ At("loop", "run") /\ LoopMayRun
  /\ Clear("loop", {"WORKING"}, "standby")
  /\ UNCHANGED <<flags, linkVars, dataVars>>

\* Slip: standby() clears first and announces itself after.
EnterStandbyLate ==
  /\ At("loop", "standby") /\ LoopMayRun
  /\ ~Check("WORKING")
  /\ Clear("loop", {"WORKING"}, "wait")
  /\ UNCHANGED <<flags, linkVars, dataVars>>

EnterStandby ==
  /\ At("loop", "standby") /\ LoopMayRun
  /\ ~Check("WORKING")
  /\ Set("loop", {"STANDBY"}, "stopwork")
  /\ UNCHANGED <<flags, linkVars, dataVars>>

\* WORKING is back: loop() goes on collecting.
WorkOn ==
  /\ At("loop", "standby") /\ LoopMayRun
  /\ Check("WORKING")
  /\ Goto("loop", "run")
  /\ UNCHANGED <<flags, rmw, linkVars, dataVars>>

StopWork ==
  /\ At("loop", "stopwork") /\ LoopMayRun
  /\ Clear("loop", {"WORKING"}, "wait")
  /\ UNCHANGED <<flags, linkVars, dataVars>>

\* waitMotion() returns and ESP.restart() begins all over; the modem keeps its power.
Restart ==
  /\ At("loop", "wait") /\ LoopMayRun
  /\ flags' = {"WORKING"}
  /\ pc' = [loop |-> "run", telemetry |-> "top"]
  /\ rmw' = [t \in Task |-> NoChange]
  /\ connErrors' = 0
  /\ filled' = FALSE /\ stamped' = FALSE /\ spoolOpen' = FALSE /\ anchored' = FALSE
  /\ UNCHANGED modem

LoopStore == LoopMayRun /\ Store("loop")

-----------------------------------------------------------------------------
(* telemetry(): stand-by.                                                  *)

\* The outer for (;;) with nothing to do.
Spin ==
  /\ At("telemetry", "top")
  /\ ~Check("STANDBY") /\ ~Check("WORKING")
  /\ UNCHANGED taskVars

TopStandby ==
  /\ At("telemetry", "top")
  /\ Check("STANDBY")
  /\ IF Check("CELL_CONNECTED")
     THEN Goto("telemetry", "shutdown") /\ UNCHANGED rmw
     ELSE Clear("telemetry", LinkFlags, "sbclose")
  /\ UNCHANGED <<flags, linkVars, dataVars>>

\* teleClient.shutdown(): log out, modem off.
Shutdown ==
  /\ At("telemetry", "shutdown")
  /\ modem' = FALSE
  /\ Clear("telemetry", LinkFlags, "sbclose")
  /\ UNCHANGED <<flags, connErrors, dataVars>>

\* Slip: the ring keeps what it holds.
CloseOnly ==
  /\ At("telemetry", "sbclose")
  /\ spoolOpen' = FALSE
  /\ Goto("telemetry", "sbwait")
  /\ UNCHANGED <<flags, rmw, linkVars, filled, stamped, anchored>>

\* spool.closeForStandby(), bufman.purge().
CloseAndPurge ==
  /\ At("telemetry", "sbclose")
  /\ spoolOpen' = FALSE /\ filled' = FALSE
  /\ Goto("telemetry", "sbwait")
  /\ UNCHANGED <<flags, rmw, linkVars, stamped, anchored>>

\* PING_BACK_INTERVAL is over, or STANDBY was taken back.
WaitOver ==
  /\ At("telemetry", "sbwait")
  /\ Goto("telemetry", IF Check("STANDBY") THEN "ping" ELSE "top")
  /\ UNCHANGED <<flags, rmw, linkVars, dataVars>>

\* initCell(), which sets CELL_CONNECTED once registered; ping() need not succeed.
Ping ==
  /\ At("telemetry", "ping")
  /\ modem' = TRUE
  /\ \/ Set("telemetry", {"CELL_CONNECTED"}, "pinged")
     \/ Goto("telemetry", "pinged") /\ UNCHANGED rmw
  /\ anchored' \in {a \in BOOLEAN : anchored => a}
  /\ UNCHANGED <<flags, connErrors, filled, stamped, spoolOpen>>

Pinged ==
  /\ At("telemetry", "pinged")
  /\ modem' = FALSE
  /\ Clear("telemetry", {"CELL_CONNECTED"}, "top")
  /\ UNCHANGED <<flags, connErrors, dataVars>>

-----------------------------------------------------------------------------
(* telemetry(): finding the network.                                       *)

TopWorking ==
  /\ At("telemetry", "top")
  /\ ~Check("STANDBY") /\ Check("WORKING")
  /\ Goto("telemetry", "work")
  /\ UNCHANGED <<flags, rmw, linkVars, dataVars>>

\* spoolQueuedBuffers() opens an outage file for what it finds.
SpoolQueued == filled' = FALSE /\ spoolOpen' = (spoolOpen \/ filled)

\* The head of while (state.check(STATE_WORKING)).
Work ==
  /\ At("telemetry", "work")
  /\ \/ /\ ~Check("WORKING")
        /\ Goto("telemetry", "top")
        /\ UNCHANGED <<connErrors, filled, spoolOpen>>
     \/ /\ Check("WORKING") /\ ~Check("CELL_CONNECTED")
        /\ connErrors' = 0
        /\ SpoolQueued
        /\ Goto("telemetry", "initcell")
     \/ /\ Check("WORKING") /\ Check("CELL_CONNECTED")
        /\ Goto("telemetry", "poll")
        /\ UNCHANGED <<connErrors, filled, spoolOpen>>
  /\ UNCHANGED <<flags, rmw, modem, stamped, anchored>>

\* initCell(): registered, perhaps with the network's clock.
Registers ==
  /\ At("telemetry", "initcell")
  /\ modem' = TRUE
  /\ anchored' \in {a \in BOOLEAN : anchored => a}
  /\ Set("telemetry", {"CELL_CONNECTED"}, "registered")
  /\ UNCHANGED <<flags, connErrors, filled, stamped, spoolOpen>>

\* No modem, or no registration. The result of initCell() is the flag.
RegisterFails ==
  /\ At("telemetry", "initcell")
  /\ \/ modem' = modem /\ Goto("telemetry", "giveup")
     \/ modem' = TRUE
        /\ Goto("telemetry", IF Check("CELL_CONNECTED") THEN "connect" ELSE "giveup")
  /\ UNCHANGED <<flags, rmw, connErrors, dataVars>>

Registered ==
  /\ At("telemetry", "registered")
  /\ Goto("telemetry", IF Check("CELL_CONNECTED") THEN "connect" ELSE "giveup")
  /\ UNCHANGED <<flags, rmw, linkVars, dataVars>>

\* teleClient.connect(): up to three log-ins.
Connects ==
  /\ At("telemetry", "connect")
  /\ Set("telemetry", {"NET_READY"}, "poll")
  /\ UNCHANGED <<flags, linkVars, dataVars>>

ConnectFails ==
  /\ At("telemetry", "connect")
  /\ Goto("telemetry", "giveup")
  /\ UNCHANGED <<flags, rmw, linkVars, dataVars>>

PowerOff == modem' = FALSE

\* Slip: the modem is off, the flags still say connected.
GiveUpUnsaid ==
  /\ At("telemetry", "giveup")
  /\ PowerOff
  /\ Goto("telemetry", "cooloff")
  /\ UNCHANGED <<flags, rmw, connErrors, dataVars>>

GiveUp ==
  /\ At("telemetry", "giveup")
  /\ PowerOff
  /\ Clear("telemetry", LinkFlags, "cooloff")
  /\ UNCHANGED <<flags, connErrors, dataVars>>

\* The back-off: once a second, until three minutes are over or work is.
CoolOff ==
  /\ At("telemetry", "cooloff")
  /\ SpoolQueued
  /\ \/ Check("WORKING") /\ UNCHANGED pc
     \/ Goto("telemetry", "top")
  /\ UNCHANGED <<flags, rmw, connErrors, modem, stamped, anchored>>

-----------------------------------------------------------------------------
(* telemetry(): the live link.                                             *)

\* getNewest() finds a record: buildPacket() and free(); or the spool is drained, and
\* the task sleeps.
Poll ==
  /\ At("telemetry", "poll")
  /\ \/ /\ filled
        /\ filled' = FALSE /\ stamped' = anchored
        /\ Goto("telemetry", "transmit")
     \/ /\ ~filled
        /\ Goto("telemetry", "idle")
        /\ UNCHANGED <<filled, stamped>>
  /\ UNCHANGED <<flags, rmw, linkVars, spoolOpen, anchored>>

Idle ==
  /\ At("telemetry", "idle")
  /\ Goto("telemetry", "work")
  /\ UNCHANGED <<flags, rmw, linkVars, dataVars>>

TransmitConfirmed ==
  /\ At("telemetry", "transmit")
  /\ connErrors' = 0
  /\ spoolOpen' = FALSE
  /\ Goto("telemetry", "receive")
  /\ UNCHANGED <<flags, rmw, modem, filled, stamped, anchored>>

\* The packet goes to the spool, and the socket is opened anew. A modem without power
\* never confirms anything.
TransmitFails ==
  /\ At("telemetry", "transmit")
  /\ connErrors' = connErrors + 1
  /\ spoolOpen' = TRUE
  /\ Goto("telemetry", "receive")
  /\ UNCHANGED <<flags, rmw, modem, filled, stamped, anchored>>

\* inbound(), then cell.check(): "Not in service" leaves the modem as it is.
InService ==
  /\ At("telemetry", "receive")
  /\ Goto("telemetry", "sync")
  /\ UNCHANGED <<flags, rmw, linkVars, dataVars>>

NotInService ==
  /\ At("telemetry", "receive")
  /\ Check("CELL_CONNECTED")
  /\ Clear("telemetry", LinkFlags, "top")
  /\ UNCHANGED <<flags, linkVars, dataVars>>

\* Slip: the failed reconnection is counted, the limit is not looked at.
SyncUnlimited ==
  /\ At("telemetry", "sync")
  /\ connErrors' \in {connErrors, connErrors + 1}
  /\ Goto("telemetry", "work")
  /\ UNCHANGED <<flags, rmw, modem, dataVars>>

\* The watchdog may have to reconnect, and fail; then the count is held to its limit.
Sync ==
  /\ At("telemetry", "sync")
  /\ connErrors' \in {connErrors, connErrors + 1}
  /\ IF connErrors' >= MaxConnErrors /\ Check("CELL_CONNECTED")
     THEN PowerOff /\ Clear("telemetry", LinkFlags, "top")
     ELSE Goto("telemetry", "work") /\ UNCHANGED <<modem, rmw>>
  /\ UNCHANGED <<flags, dataVars>>

-----------------------------------------------------------------------------
Loop == Publish \/ Park \/ WorkOn \/ EnterStandby \/ StopWork \/ LoopStore \/ Restart

TelemetryTask ==
  \/ Spin \/ TopStandby \/ Shutdown \/ CloseAndPurge \/ WaitOver \/ Ping \/ Pinged
  \/ TopWorking \/ Work \/ Registers \/ RegisterFails \/ Registered
  \/ Connects \/ ConnectFails \/ GiveUp \/ CoolOff
  \/ Poll \/ Idle \/ TransmitConfirmed \/ TransmitFails
  \/ InService \/ NotInService \/ Sync
  \/ Store("telemetry")

Next == (Loop \/ TelemetryTask) /\ UNCHANGED sharedCore

Spec == Init /\ [][Next]_vars

\* Both tasks go on: telemetry as it has priority, the loop as it gets its turn whenever
\* telemetry sleeps. Parking and motion are the driver's.
FairSpec ==
  /\ Spec
  /\ WF_taskVars(TelemetryTask)
  /\ SF_taskVars(WorkOn) /\ SF_taskVars(EnterStandby) /\ SF_taskVars(StopWork) /\ SF_taskVars(LoopStore)
  /\ SF_taskVars(WaitOver) /\ SF_taskVars(At("telemetry", "cooloff") /\ CoolOff /\ pc' # pc)

\* And the network answers: registration and log-in, tried for ever, succeed.
NetworkSpec == FairSpec /\ SF_taskVars(Registers) /\ SF_taskVars(Connects)

-----------------------------------------------------------------------------
Label == {"run", "standby", "stopwork", "wait", "store", "top", "sbclose", "work",
          "registered", "giveup", "poll"} \cup Blocked

\* Every variable holds a value of its kind: a failed reconnection on top of the last
\* failed packet takes the count one beyond its limit, and no further.
TypeOK ==
  /\ sharedCore \in BOOLEAN
  /\ flags \subseteq Flag
  /\ pc \in [Task -> Label]
  /\ rmw \in [Task -> [old : SUBSET Flag, set : SUBSET Flag, clear : SUBSET Flag,
                       next : Label \cup {"none"}]]
  /\ connErrors \in 0 .. MaxConnErrors + 1
  /\ modem \in BOOLEAN
  /\ filled \in BOOLEAN /\ stamped \in BOOLEAN
  /\ spoolOpen \in BOOLEAN /\ anchored \in BOOLEAN

\* Telemetry is in stand-by: in its branch, or back at the top with STANDBY up.
StandingBy ==
  \/ pc["telemetry"] \in {"shutdown", "sbclose", "sbwait", "ping", "pinged"}
  \/ /\ At("telemetry", "store")
     /\ "STANDBY" \in rmw["telemetry"].old
     /\ rmw["telemetry"].next \in {"sbclose", "pinged", "top"}
  \/ At("telemetry", "top") /\ Check("STANDBY")

\* Telemetry leaves stand-by with the restart of loop() and in no other way, on one core or
\* two. Once it has seen STANDBY, no update of either task that overtakes the other's, its own
\* ping among them, takes STANDBY away and sets it looking for a network again.
StandbyEndsInRestart == [][StandingBy => StandingBy' \/ pc'["loop"] = "run"]_vars

\* Once telemetry has gone to sleep in stand-by, on whichever core, the ring is empty and no
\* outage file is open, and they stay so: nothing is left for the restart to lose.
StandbyIsClean ==
  pc["telemetry"] \in {"sbwait", "ping", "pinged"} => ~filled /\ ~spoolOpen

\* A parked device gets its modem switched off, whatever telemetry was about.
ModemGoesOff == sharedCore /\ At("loop", "wait") ~> ~modem \/ ~At("loop", "wait")

\* While the car is driven and the network answers, the live link always comes back, on
\* a modem that is on.
LinkComesBack == <>[](sharedCore /\ At("loop", "run")) => []<>(At("telemetry", "poll") /\ modem)

-----------------------------------------------------------------------------
(* What the comments and documents claim beyond that.                      *)

\* SPDD: beside the ring and the time there is "no other shared mutable device state, so no
\* other locks". On two cores an update of telemetry's bits, loaded before standby()
\* and stored after it, takes STANDBY away again, or brings WORKING back.
ParkedMeansParked == At("loop", "wait") => ~Check("WORKING") /\ Check("STANDBY")

\* SPDD: "vehicle stops -> motionless timer expires -> standby()".
ParkingEndsInStandby == At("loop", "standby") ~> Check("STANDBY")

\* buildPacket(): "the caller must then spool the record unstamped", and not send it.
NothingUntimed == At("telemetry", "transmit") => stamped

=============================================================================
