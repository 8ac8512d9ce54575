------------------------------ MODULE DiagLink ------------------------------
(***************************************************************************)
(* The diagnostic link: COBD and CUDS on a serial line to the co-processor *)
(* that talks to the car's ECUs. A command is written and the answer is    *)
(* whatever comes in before the timeout, up to a prompt: answers carry no  *)
(* number, nothing ever flushes the line, and so one late answer is taken  *)
(* for the answer to the next command. What tells them apart is the echo   *)
(* of the PID or DID, and CUDS says anew for each request which ECU it is  *)
(* for.                                                                    *)
(*                                                                         *)
(* An answer is whole or not there. Which PIDs and DIDs a cycle asks for   *)
(* is module Collection's; here a cycle asks for any. The mask and the     *)
(* filter are one command.                                                 *)
(***************************************************************************)
EXTENDS Integers, Sequences

CONSTANTS
  Pids,      \* PIDs asked for, PID_SPEED = 13 among them
  Dids,      \* DIDs asked for
  ScrDids,   \* ... those of the SCR module
  MaxErrors, \* MAX_OBD_ERRORS
  MapGroups, \* 8: groups of 32 PIDs that init() asks the ECU about
  ErrorWrap, \* 256: COBD::errors is a byte
  MaxReads,  \* bound: PIDs and DIDs asked for in one cycle
  MaxBehind  \* bound: commands not answered yet when one times out

PID_SPEED == 13

ASSUME DiagAssumption ==
  /\ Pids \subseteq Nat \ {0} /\ PID_SPEED \in Pids
  /\ Dids \subseteq Nat /\ ScrDids \subseteq Dids
  /\ {MaxErrors, MapGroups, MaxReads} \subseteq Nat \ {0}
  /\ ErrorWrap \in Nat /\ ErrorWrap > MaxErrors /\ MaxBehind \in Nat

\* Who a request goes to: every ECU, the engine's, the SCR module.
ANY == 0
ENGINE == 1
SCR == 2
Header == {ANY, ENGINE, SCR}
EcuOf(d) == IF d \in ScrDids THEN SCR ELSE ENGINE

\* A command and how often it is tried.
Command(op, arg, tries) == [op |-> op, arg |-> arg, left |-> tries]
Settings == {"ATE0", "FILTER", "SH"}

VARIABLES
  todo,     \* co-processor: commands read and not answered yet
  header,   \* co-processor: the ECU requests are addressed to
  filtered, \* co-processor: the wide receive filter is set
  ignition, \* the ECUs are on
  rx,       \* answers in the driver's buffer: the command, what it says, from whom
  ready,    \* STATE_OBD_READY
  errors,   \* COBD::errors
  call,     \* the call process() is in
  plan,     \* the commands the call has yet to issue
  sent,     \* the first of them is written and its answer awaited
  found,    \* init(): success so far
  reads,    \* reads of this cycle
  value     \* history: the request and the answer accepted in the last step

bridgeVars == <<todo, header, filtered, ignition>>
clientVars == <<ready, errors, call, plan, sent, found, reads>>
vars == <<bridgeVars, rx, clientVars, value>>

NoValue == << >>

-----------------------------------------------------------------------------
(* Calls, as the commands they issue.                                      *)

Ask(op, arg) == Command(op, arg, 1)

\* COBD::init(): reset, echo and headers off, the speed, the PID map.
InitPlan(quick) ==
  <<Command("ATZ", 0, 3), Ask("ATE0", 0), Ask("ATE0", 0),
    Command("PID", PID_SPEED, IF quick THEN 1 ELSE 2)>>
  \o [g \in 1 .. MapGroups |-> Ask("MAP", g)]

\* CUDS::applyHeaderConfig().
ApplyPlan == <<Ask("FILTER", 0), Ask("SH", ENGINE)>>

\* The rest of initialize(): the VIN and the trouble codes.
IdentPlan == ApplyPlan \o <<Command("VIN", 0, 2), Command("DTC", 0, 6)>>

\* Slip: the ECU is left as the last request set it.
DidPlanUnaddressed(d) == <<Ask("FILTER", 0), Ask("DID", d)>>
\* CUDS::readDID().
DidPlan(d) == <<Ask("FILTER", 0), Ask("SH", EcuOf(d)), Ask("DID", d)>>

Init ==
  /\ todo = << >> /\ header = ANY /\ filtered = FALSE /\ ignition \in BOOLEAN
  /\ rx = << >> /\ ready = FALSE /\ errors = 0
  /\ call = "boot" /\ plan = InitPlan(FALSE) /\ sent = FALSE /\ found = TRUE
  /\ reads = 0 /\ value = NoValue

-----------------------------------------------------------------------------
(* The co-processor and the car.                                           *)

Asked(op) == todo # << >> /\ Head(todo).op = op
Answer(says) ==
  /\ rx' = Append(rx, [op |-> Head(todo).op, arg |-> Head(todo).arg,
                       says |-> says, from |-> header])
  /\ todo' = Tail(todo)

BridgeResets ==
  /\ Asked("ATZ")
  /\ header' = ANY /\ filtered' = FALSE
  /\ Answer("ok")
  /\ UNCHANGED <<ignition, clientVars, value>>

BridgeSets ==
  /\ todo # << >> /\ Head(todo).op \in Settings
  /\ header' = IF Asked("SH") THEN Head(todo).arg ELSE header
  /\ filtered' = (filtered \/ Asked("FILTER"))
  /\ Answer("ok")
  /\ UNCHANGED <<ignition, clientVars, value>>

\* "NO DATA" or "UNABLE TO CONNECT", or what the ECU answers: data or a negative response.
BridgeAsks ==
  /\ todo # << >> /\ Head(todo).op \notin Settings \cup {"ATZ"}
  /\ \/ Answer("error")
     \/ ignition /\ (header = SCR => filtered) /\ \E says \in {"data", "refusal"} : Answer(says)
  /\ UNCHANGED <<header, filtered, ignition, clientVars, value>>

IgnitionTurned ==
  /\ ignition' = ~ignition
  /\ UNCHANGED <<todo, header, filtered, rx, clientVars, value>>

Bridge == BridgeResets \/ BridgeSets \/ BridgeAsks

-----------------------------------------------------------------------------
(* One command: CLink_UART::send(), receive(), and what the caller makes   *)
(* of the answers read.                                                    *)

Send ==
  /\ plan # << >> /\ ~sent
  /\ sent' = TRUE
  /\ todo' = Append(todo, [op |-> Head(plan).op, arg |-> Head(plan).arg])
  /\ value' = NoValue
  /\ UNCHANGED <<header, filtered, ignition, rx, ready, errors, call, plan, found, reads>>

\* An error message anywhere in what was read; a negative response is none.
Denied(read) == \E n \in DOMAIN read : read[n].says = "error"

\* Data for this command, anywhere.
Brings(op, arg, read) ==
  \E n \in DOMAIN read : read[n].op = op /\ read[n].arg = arg /\ read[n].says = "data"

\* readPID(): the PID is echoed somewhere.
PidFound(c, read) == ~Denied(read) /\ Brings("PID", c.arg, read)

\* readDID(): the first response to a DID, or the first negative one to anything, and it has
\* to echo this DID.
Responds(answer) == answer.says = "refusal" \/ (answer.op = "DID" /\ answer.says = "data")
Response(read, n) == Responds(read[n]) /\ \A m \in 1 .. n - 1 : ~Responds(read[m])
DidFound(c, read) ==
  \E n \in DOMAIN read : Response(read, n) /\ read[n].says = "data" /\ read[n].arg = c.arg

\* The call goes on with its next command; what a setting is answered does not matter.
Done(c, read) ==
  CASE c.op = "ATZ" -> read # << >>
    [] c.op = "PID" -> PidFound(c, read)
    [] c.op = "MAP" -> read # << >> /\ ~Denied(read)
    [] c.op = "DID" -> DidFound(c, read)
    [] c.op = "VIN" -> Brings("VIN", c.arg, read)
    [] c.op = "DTC" -> read # << >> /\ ~Denied(read)
    [] OTHER -> TRUE

\* The quick init() has success only with a part of the map, the full one with the speed.
Success(c, read) ==
  CASE c.op = "MAP" -> found \/ (~Denied(read) /\ Brings("MAP", c.arg, read))
    [] c.op = "PID" -> PidFound(c, read) /\ call # "quick"
    [] c.op = "ATZ" -> read # << >>
    [] OTHER -> found

\* Slip: only silence is an error.
ErrorsOnSilence(c, read) ==
  IF c.op # "PID" THEN errors ELSE
  IF PidFound(c, read) THEN 0 ELSE IF read = << >> THEN (errors + 1) % ErrorWrap ELSE errors
ErrorsAfter(c, read) ==
  IF c.op # "PID" THEN errors ELSE
  IF PidFound(c, read) THEN 0 ELSE (errors + 1) % ErrorWrap

Got(read) ==
  LET c == Head(plan)
      done == Done(c, read)
  IN
  /\ sent' = FALSE
  /\ errors' = ErrorsAfter(c, read)
  /\ found' = Success(c, read)
  /\ IF c.op = "DID" /\ done
     THEN \E n \in DOMAIN read : Response(read, n) /\ value' = <<c.arg, read[n].from>>
     ELSE value' = NoValue
  /\ plan' = IF ~done /\ c.left > 1
             THEN [plan EXCEPT ![1].left = @ - 1]
             ELSE IF done \/ c.op \in {"VIN", "DTC"} THEN Tail(plan) ELSE << >>
  /\ UNCHANGED <<bridgeVars, ready, call, reads>>

\* What is there is read at once, or as far as it has come.
Receive ==
  /\ sent
  /\ \E n \in DOMAIN rx :
       /\ rx' = SubSeq(rx, n + 1, Len(rx))
       /\ Got(SubSeq(rx, 1, n))

Timeout ==
  /\ sent /\ rx = << >> /\ Len(todo) <= MaxBehind
  /\ rx' = rx
  /\ Got(<< >>)

-----------------------------------------------------------------------------
(* initialize() and process(). A call is over when nothing is planned.     *)

Over(name) == call = name /\ plan = << >>
Start(name, commands) == call' = name /\ plan' = commands
Idle == Start("none", << >>)
Kept == UNCHANGED <<bridgeVars, rx, sent>> /\ value' = NoValue

\* init() of initialize() or of a cycle without OBD.
Connected ==
  /\ Over("boot") \/ Over("quick")
  /\ ready' = found
  /\ errors' = IF found THEN 0 ELSE errors
  /\ IF ~found THEN Idle
     ELSE Start("none", IF call = "boot" THEN IdentPlan ELSE ApplyPlan)
  /\ UNCHANGED <<found, reads>> /\ Kept

Cycle ==
  /\ Over("none")
  /\ reads' = 0
  /\ IF ready
     THEN \E p \in Pids : Start("pid", <<Ask("PID", p)>>) /\ found' = found
     ELSE Start("quick", InitPlan(TRUE)) /\ found' = FALSE
  /\ UNCHANGED <<ready, errors>> /\ Kept

\* A PID that fails ends processOBD().
NextPid ==
  /\ Over("pid") /\ found /\ reads < MaxReads
  /\ reads' = reads + 1
  /\ \E p \in Pids : Start("pid", <<Ask("PID", p)>>)
  /\ UNCHANGED <<ready, errors, found>> /\ Kept

\* Slip: one error too many.
PidsReadLate ==
  /\ Over("pid")
  /\ IF errors > MaxErrors THEN Start("reinit", InitPlan(FALSE)) ELSE Start("did", << >>)
  /\ UNCHANGED <<ready, errors, found, reads>> /\ Kept
PidsRead ==
  /\ Over("pid")
  /\ IF errors >= MaxErrors THEN Start("reinit", InitPlan(FALSE)) ELSE Start("did", << >>)
  /\ UNCHANGED <<ready, errors, found, reads>> /\ Kept

\* Without the ECU the cycle ends, its record is not published, and WORKING is cleared: the
\* device parks, unless an update of telemetry's bits overtakes that.
Reinitialized ==
  /\ Over("reinit")
  /\ ready' = found
  /\ errors' = IF found THEN 0 ELSE errors
  /\ IF found THEN Start("did", ApplyPlan) ELSE Idle
  /\ UNCHANGED <<found, reads>> /\ Kept

NextDid ==
  /\ Over("did") /\ reads < MaxReads
  /\ reads' = reads + 1
  /\ \E d \in Dids : Start("did", DidPlan(d))
  /\ UNCHANGED <<ready, errors, found>> /\ Kept

DidsRead ==
  /\ Over("did")
  /\ Idle
  /\ UNCHANGED <<ready, errors, found, reads>> /\ Kept

\* standby(), for the ECU or for want of motion: the co-processor is reset, and the device
\* restarts with a full init(). What was on the line is answered by then, and gone.
Restart ==
  /\ Over("none")
  /\ todo' = << >> /\ header' = ANY /\ filtered' = FALSE /\ rx' = << >>
  /\ ready' = FALSE /\ errors' = 0 /\ found' = TRUE /\ reads' = 0
  /\ Start("boot", InitPlan(FALSE))
  /\ value' = NoValue
  /\ UNCHANGED <<ignition, sent>>

Process == Connected \/ Cycle \/ NextPid \/ PidsRead \/ Reinitialized \/ NextDid \/ DidsRead

Client == Send \/ Receive \/ Timeout \/ Process
Next == Client \/ Bridge \/ IgnitionTurned \/ Restart

Spec == Init /\ [][Next]_vars

\* The loop goes on, and so does a co-processor that has read a command.
FairSpec == Spec /\ WF_vars(Client) /\ WF_vars(Bridge)

-----------------------------------------------------------------------------
Op == Settings \cup {"ATZ", "PID", "MAP", "DID", "VIN", "DTC"}
Says == {"ok", "error", "refusal", "data"}
Arg == 0 .. MapGroups \cup Pids \cup Dids \cup Header

TypeOK ==
  /\ todo \in Seq([op : Op, arg : Arg])
  /\ plan \in Seq([op : Op, arg : Arg, left : 1 .. 6])
  /\ rx \in Seq([op : Op, arg : Arg, says : Says, from : Header])
  /\ header \in Header
  /\ filtered \in BOOLEAN /\ ignition \in BOOLEAN
  /\ ready \in BOOLEAN /\ sent \in BOOLEAN /\ found \in BOOLEAN
  /\ errors \in 0 .. ErrorWrap - 1 /\ reads \in 0 .. MaxReads
  /\ ready /\ call # "reinit" => errors <= MaxErrors
  /\ call \in {"boot", "none", "quick", "pid", "reinit", "did"}

\* However late the answers come, the value taken for a DID was read from the ECU the DID
\* belongs to: the echo and the addressing of each request together stand in for a number.
DidFromItsEcu == value # NoValue => value[2] = EcuOf(value[1])

\* When the ignition stays off, OBD is given up for good, whatever stale answers are
\* still on the line.
EcuOffNoticed == <>[](~ignition) => <>[](~ready)

\* "OBD's readPID flow uses its own header (ATSH) settings": a PID is not asked of the ECU
\* the last DID was.
PidsKeepTheirHeader == Asked("PID") => header # SCR

=============================================================================
