---------------------------- MODULE DiagLinkProofs ----------------------------
(***************************************************************************)
(* The value taken for a DID comes from the ECU the DID belongs to, for    *)
(* every set of PIDs and DIDs, every limit and every number of answers     *)
(* that come too late.                                                     *)
(***************************************************************************)
EXTENDS DiagLink, SequenceTheorems, TLAPS

-----------------------------------------------------------------------------
(* The inductive invariant, by parts.                                      *)

Addressing == {"SH", "ATZ"}

\* With the header as it is and the commands read but not answered, the n-th of them will go
\* to e; the one past the last is the command that is written next.
GoesTo(addressed, commands, n, e) ==
  \/ /\ addressed = e
     /\ \A m \in 1 .. n - 1 : commands[m].op \notin Addressing
  \/ \E k \in 1 .. n - 1 :
       /\ commands[k].op = "SH" /\ commands[k].arg = e
       /\ \A m \in k + 1 .. n - 1 : commands[m].op \notin Addressing

\* On their way to the co-processor, and back, DIDs and their own ECU go together.
AskedOfItsEcu ==
  \A n \in 1 .. Len(todo) : todo[n].op = "DID" => GoesTo(header, todo, n, EcuOf(todo[n].arg))
AnsweredByItsEcu ==
  \A n \in 1 .. Len(rx) : rx[n].op = "DID" => rx[n].from = EcuOf(rx[n].arg)

\* A command that addresses an ECU names one.
EcusNamed ==
  /\ \A n \in 1 .. Len(todo) : todo[n].op = "SH" => todo[n].arg \in Header
  /\ \A n \in 1 .. Len(plan) : plan[n].op = "SH" => plan[n].arg \in Header

\* A DID is planned once and right behind the command that addresses its ECU, and the client
\* waits for that command before it goes on, answered or not.
DidsPlanned ==
  \A n \in 1 .. Len(plan) : plan[n].op = "DID" =>
    /\ plan[n].left = 1
    /\ n > 1 => plan[n - 1].op = "SH" /\ plan[n - 1].arg = EcuOf(plan[n].arg)
AddressWritten ==
  plan # << >> =>
    /\ sent /\ plan[1].op = "SH" => GoesTo(header, todo, Len(todo) + 1, plan[1].arg)
    /\ ~sent /\ plan[1].op = "DID" => GoesTo(header, todo, Len(todo) + 1, EcuOf(plan[1].arg))

\* Who awaits an answer has a command to repeat. Only what initialize() and process() do about
\* PIDs counts errors, and no call ends with too many but the one that looks at them.
Calls ==
  /\ sent => plan # << >>
  /\ call \in {"boot", "quick"} => ~ready
  /\ call \in {"none", "did"} => \A n \in 1 .. Len(plan) : plan[n].op # "PID"
  /\ call = "pid" =>
       Len(plan) <= 1 /\ \A n \in 1 .. Len(plan) : plan[n].op = "PID" /\ plan[n].left = 1
  /\ ready /\ call \in {"none", "did"} => errors < MaxErrors
  /\ ready /\ call = "pid" /\ (plan # << >> \/ found) => errors < MaxErrors

IInv ==
  /\ TypeOK /\ AskedOfItsEcu /\ AnsweredByItsEcu
  /\ EcusNamed /\ DidsPlanned /\ AddressWritten /\ Calls /\ DidFromItsEcu

-----------------------------------------------------------------------------
(* The commands of the calls.                                              *)

Asked1 == [op : Op, arg : Arg]
Planned == [op : Op, arg : Arg, left : 1 .. 6]
Answered == [op : Op, arg : Arg, says : Says, from : Header]

\* A call plans each DID behind the command that addresses its ECU.
WellPlanned(commands) ==
  /\ commands \in Seq(Planned)
  /\ \A n \in 1 .. Len(commands) :
       /\ commands[n].op = "SH" => commands[n].arg \in Header
       /\ commands[n].op = "DID" =>
            /\ commands[n].left = 1 /\ n > 1
            /\ commands[n - 1].op = "SH" /\ commands[n - 1].arg = EcuOf(commands[n].arg)
NoPid(commands) == \A n \in 1 .. Len(commands) : commands[n].op # "PID"

\* What the assumption says, and where a PID, a DID and an ECU may stand.
LEMMA Constants ==
  /\ MaxErrors \in Nat \ {0} /\ MapGroups \in Nat \ {0} /\ MaxReads \in Nat \ {0}
  /\ ErrorWrap \in Nat /\ ErrorWrap > MaxErrors
  /\ \A d : EcuOf(d) \in Header
  /\ Header \subseteq Arg /\ Pids \subseteq Arg /\ Dids \subseteq Arg
  /\ PID_SPEED \in Arg /\ \A g \in 1 .. MapGroups : g \in Arg
BY DiagAssumption DEF EcuOf, Header, Arg

\* A count below the bound does not wrap.
LEMMA NoWrap ==
  ASSUME NEW count \in Nat, NEW bound \in Nat, count < bound
  PROVE  count % bound = count
OBVIOUS

\* Nothing planned is planned well.
LEMMA EmptyPlan == WellPlanned(<< >>) /\ NoPid(<< >>)
BY DEF WellPlanned, NoPid

\* init() plans no DID and addresses no ECU by a header.
LEMMA InitPlans ==
  ASSUME NEW quick \in BOOLEAN
  PROVE  WellPlanned(InitPlan(quick)) /\ InitPlan(quick) # << >>
<1> DEFINE first == <<Command("ATZ", 0, 3), Ask("ATE0", 0), Ask("ATE0", 0),
                      Command("PID", PID_SPEED, IF quick THEN 1 ELSE 2)>>
<1> DEFINE groups == [g \in 1 .. MapGroups |-> Ask("MAP", g)]
<1>1. /\ first \in Seq(Planned) /\ Len(first) = 4
      /\ \A n \in 1 .. 4 : first[n].op \notin {"SH", "DID"}
  BY Constants DEF Planned, Command, Ask, Op, Settings, Arg
<1>2. groups \in Seq(Planned) /\ Len(groups) = MapGroups
  <2>1. \A g \in 1 .. MapGroups : Ask("MAP", g) \in Planned
    BY Constants DEF Planned, Command, Ask, Op
  <2> QED
    BY <2>1, Constants
<1>3. \A n \in 1 .. MapGroups : groups[n].op = "MAP"
  BY DEF Ask, Command
<1> HIDE DEF first, groups
<1>4. /\ first \o groups \in Seq(Planned)
      /\ Len(first \o groups) = 4 + MapGroups
      /\ \A n \in 1 .. 4 + MapGroups :
           (first \o groups)[n] = IF n <= 4 THEN first[n] ELSE groups[n - 4]
  <2>1. /\ first \o groups \in Seq(Planned)
        /\ Len(first \o groups) = Len(first) + Len(groups)
        /\ \A n \in 1 .. Len(first) + Len(groups) :
             (first \o groups)[n] = IF n <= Len(first) THEN first[n] ELSE groups[n - Len(first)]
    BY <1>1, <1>2, ConcatProperties
  <2> QED
    BY <1>1, <1>2, <2>1
<1>5. \A n \in 1 .. 4 + MapGroups : (first \o groups)[n].op \notin {"SH", "DID"}
  <2> SUFFICES ASSUME NEW n \in 1 .. 4 + MapGroups
               PROVE  (first \o groups)[n].op \notin {"SH", "DID"}
    OBVIOUS
  <2>1. CASE n <= 4
    <3>1. n \in 1 .. 4 /\ (first \o groups)[n] = first[n]
      BY <1>4, <2>1
    <3> QED
      BY <1>1, <3>1
  <2>2. CASE n > 4
    <3>1. n - 4 \in 1 .. MapGroups /\ (first \o groups)[n] = groups[n - 4]
      BY <1>4, <2>2, Constants
    <3>2. groups[n - 4].op = "MAP"
      BY <1>3, <3>1
    <3> QED
      BY <3>1, <3>2
  <2>3. n <= 4 \/ n > 4
    OBVIOUS
  <2> QED
    BY <2>1, <2>2, <2>3
<1>6. WellPlanned(first \o groups)
  BY <1>4, <1>5 DEF WellPlanned
<1> QED
  BY <1>6 DEF InitPlan, first, groups

\* The settings and the identification plan no DID; a read of a DID addresses its ECU first.
LEMMA OtherPlans ==
  /\ WellPlanned(ApplyPlan) /\ NoPid(ApplyPlan)
  /\ WellPlanned(IdentPlan) /\ NoPid(IdentPlan)
  /\ \A d \in Dids : WellPlanned(DidPlan(d)) /\ NoPid(DidPlan(d))
  /\ \A p \in Pids : WellPlanned(<<Ask("PID", p)>>)
<1>1. WellPlanned(ApplyPlan) /\ NoPid(ApplyPlan)
  BY Constants DEF ApplyPlan, WellPlanned, NoPid, Planned, Command, Ask, Op, Settings, Arg,
     Header
<1>2. WellPlanned(IdentPlan) /\ NoPid(IdentPlan)
  <2> DEFINE rest == <<Command("VIN", 0, 2), Command("DTC", 0, 6)>>
  <2>1. /\ rest \in Seq(Planned) /\ Len(rest) = 2
        /\ \A n \in 1 .. 2 : rest[n].op \notin {"SH", "DID", "PID"}
    BY Constants DEF Planned, Command, Op, Arg
  <2>2. /\ ApplyPlan \in Seq(Planned) /\ Len(ApplyPlan) = 2
        /\ \A n \in 1 .. 2 : /\ ApplyPlan[n].op \notin {"DID", "PID"}
                             /\ ApplyPlan[n].op = "SH" => ApplyPlan[n].arg \in Header
    BY Constants DEF ApplyPlan, Planned, Command, Ask, Op, Settings, Arg, Header
  <2> HIDE DEF rest
  <2>3. /\ IdentPlan \in Seq(Planned)
        /\ Len(IdentPlan) = Len(ApplyPlan) + Len(rest)
        /\ \A n \in 1 .. Len(ApplyPlan) + Len(rest) :
             IdentPlan[n] = IF n <= Len(ApplyPlan) THEN ApplyPlan[n] ELSE rest[n - Len(ApplyPlan)]
    BY <2>1, <2>2, ConcatProperties DEF IdentPlan, rest
  <2>4. /\ Len(IdentPlan) = 4
        /\ \A n \in 1 .. 4 : IdentPlan[n] = IF n <= 2 THEN ApplyPlan[n] ELSE rest[n - 2]
    BY <2>1, <2>2, <2>3
  <2>5. ASSUME NEW n \in 1 .. 4
        PROVE  /\ IdentPlan[n].op \notin {"DID", "PID"}
               /\ IdentPlan[n].op = "SH" => IdentPlan[n].arg \in Header
    <3>1. CASE n <= 2
      BY <2>2, <2>4, <3>1
    <3>2. CASE n > 2
      <4>1. n - 2 \in 1 .. 2 /\ IdentPlan[n] = rest[n - 2]
        BY <2>4, <3>2
      <4> QED
        BY <2>1, <4>1
    <3> QED
      BY <3>1, <3>2
  <2> QED
    BY <2>3, <2>4, <2>5 DEF WellPlanned, NoPid
<1>3. ASSUME NEW d \in Dids
      PROVE  WellPlanned(DidPlan(d)) /\ NoPid(DidPlan(d))
  BY Constants DEF DidPlan, WellPlanned, NoPid, Planned, Command, Ask, Op, Settings, Arg
<1>4. ASSUME NEW p \in Pids
      PROVE  WellPlanned(<<Ask("PID", p)>>)
  BY Constants DEF WellPlanned, Planned, Command, Ask, Op
<1> QED
  BY <1>1, <1>2, <1>3, <1>4

-----------------------------------------------------------------------------
(* The steps.                                                              *)

\* The types of the three lines.
LEMMA Lines ==
  ASSUME TypeOK
  PROVE  /\ todo \in Seq(Asked1) /\ plan \in Seq(Planned) /\ rx \in Seq(Answered)
         /\ Len(todo) \in Nat /\ Len(plan) \in Nat /\ Len(rx) \in Nat
         /\ \A n \in 1 .. Len(todo) : todo[n] \in Asked1
         /\ \A n \in 1 .. Len(plan) : plan[n] \in Planned
         /\ \A n \in 1 .. Len(rx) : rx[n] \in Answered
         /\ plan # << >> => Head(plan) = plan[1] /\ 1 \in 1 .. Len(plan)
         /\ todo # << >> => Head(todo) = todo[1] /\ 1 \in 1 .. Len(todo)
<1>1. todo \in Seq(Asked1) /\ plan \in Seq(Planned) /\ rx \in Seq(Answered)
  BY DEF TypeOK, Asked1, Planned, Answered
<1> QED
  BY <1>1

\* The co-processor answers the first command it has read; whom the others go to is as before.
LEMMA BridgeStep ==
  ASSUME IInv, todo # << >>, NEW says \in Says, Answer(says),
         header' = IF todo[1].op = "ATZ" THEN ANY
                   ELSE IF todo[1].op = "SH" THEN todo[1].arg ELSE header,
         UNCHANGED <<clientVars, value>>, filtered' \in BOOLEAN, ignition' \in BOOLEAN
  PROVE  IInv'
<1> USE DEF IInv
<1>1. /\ todo \in Seq(Asked1) /\ rx \in Seq(Answered) /\ Len(todo) \in Nat /\ Len(rx) \in Nat
      /\ 1 \in 1 .. Len(todo) /\ todo[1] \in Asked1 /\ Head(todo) = todo[1]
      /\ header \in Header
  BY Lines DEF TypeOK
<1>2. /\ todo' \in Seq(Asked1) /\ Len(todo') = Len(todo) - 1
      /\ \A n \in 1 .. Len(todo') : todo'[n] = todo[n + 1]
  BY <1>1 DEF Answer
<1>3. header' \in Header
  BY <1>1 DEF EcusNamed, Header
<1> DEFINE a == [op |-> todo[1].op, arg |-> todo[1].arg, says |-> says, from |-> header]
<1>4. a \in Answered /\ rx' = Append(rx, a)
  BY <1>1 DEF Answer, Answered, Asked1
<1>5. /\ a.op = todo[1].op /\ a.arg = todo[1].arg /\ a.from = header
  OBVIOUS
<1> HIDE DEF a
<1>6. /\ rx' \in Seq(Answered) /\ Len(rx') = Len(rx) + 1
      /\ \A n \in 1 .. Len(rx) : rx'[n] = rx[n]
      /\ rx'[Len(rx) + 1] = a
  BY <1>1, <1>4
<1>7. ASSUME NEW n \in 2 .. Len(todo) + 1, NEW e \in Header, GoesTo(header, todo, n, e)
      PROVE  GoesTo(header', todo', n - 1, e)
  <2>1. /\ n - 1 \in 1 .. Len(todo') + 1
        /\ \A m \in 1 .. n - 2 : todo'[m] = todo[m + 1]
    BY <1>2
  <2>2. CASE header = e /\ \A m \in 1 .. n - 1 : todo[m].op \notin Addressing
    <3>1. header' = e
      BY <2>2 DEF Addressing
    <3>2. \A m \in 1 .. (n - 1) - 1 : todo'[m].op \notin Addressing
      BY <2>1, <2>2
    <3> QED
      BY <3>1, <3>2 DEF GoesTo
  <2>3. CASE \E k \in 1 .. n - 1 : /\ todo[k].op = "SH" /\ todo[k].arg = e
                                   /\ \A m \in k + 1 .. n - 1 : todo[m].op \notin Addressing
    <3>1. PICK k \in 1 .. n - 1 : /\ todo[k].op = "SH" /\ todo[k].arg = e
                                  /\ \A m \in k + 1 .. n - 1 : todo[m].op \notin Addressing
      BY <2>3
    <3>2. CASE k = 1
      <4>1. header' = e
        BY <3>1, <3>2
      <4>2. \A m \in 1 .. (n - 1) - 1 : todo'[m].op \notin Addressing
        BY <2>1, <3>1, <3>2
      <4> QED
        BY <4>1, <4>2 DEF GoesTo
    <3>3. CASE k > 1
      <4>1. k - 1 \in 1 .. (n - 1) - 1 /\ todo'[k - 1] = todo[k]
        BY <2>1, <3>3
      <4>2. \A m \in (k - 1) + 1 .. (n - 1) - 1 : todo'[m].op \notin Addressing
        BY <2>1, <3>1, <3>3
      <4> QED
        BY <3>1, <4>1, <4>2 DEF GoesTo
    <3> QED
      BY <3>2, <3>3
  <2> QED
    BY <1>7, <2>2, <2>3 DEF GoesTo
<1>8. UNCHANGED <<ready, errors, call, plan, sent, found, reads, value>>
  BY DEF clientVars
<1>9. TypeOK'
  BY <1>2, <1>3, <1>6, <1>8 DEF TypeOK, Asked1, Answered
<1>10. AskedOfItsEcu'
  <2> SUFFICES ASSUME NEW n \in 1 .. Len(todo'), todo'[n].op = "DID"
               PROVE  GoesTo(header', todo', n, EcuOf(todo'[n].arg))
    BY DEF AskedOfItsEcu
  <2>1. n + 1 \in 2 .. Len(todo) + 1 /\ n + 1 \in 1 .. Len(todo) /\ todo'[n] = todo[n + 1]
    <3>1. todo'[n] = todo[n + 1]
      BY <1>2
    <3>2. n \in 1 .. Len(todo) - 1
      BY <1>2
    <3> QED
      BY <3>1, <3>2
  <2>2. GoesTo(header, todo, n + 1, EcuOf(todo[n + 1].arg)) /\ EcuOf(todo[n + 1].arg) \in Header
    BY <2>1, Constants DEF AskedOfItsEcu
  <2>3. GoesTo(header', todo', (n + 1) - 1, EcuOf(todo[n + 1].arg))
    BY <1>7, <2>1, <2>2
  <2> QED
    BY <2>1, <2>3
<1>11. AnsweredByItsEcu'
  <2> SUFFICES ASSUME NEW n \in 1 .. Len(rx'), rx'[n].op = "DID"
               PROVE  rx'[n].from = EcuOf(rx'[n].arg)
    BY DEF AnsweredByItsEcu
  <2>1. CASE n \in 1 .. Len(rx)
    BY <1>6, <2>1 DEF AnsweredByItsEcu
  <2>2. CASE n = Len(rx) + 1
    <3>1. todo[1].op = "DID" /\ rx'[n] = a
      BY <1>5, <1>6, <2>2
    <3>2. GoesTo(header, todo, 1, EcuOf(todo[1].arg))
      BY <3>1 DEF AskedOfItsEcu
    <3>3. header = EcuOf(todo[1].arg)
      BY <3>2 DEF GoesTo
    <3> QED
      BY <1>5, <3>1, <3>3
  <2> QED
    BY <1>6, <2>1, <2>2
<1>12. EcusNamed'
  BY <1>2, <1>8 DEF EcusNamed
<1>13. DidsPlanned' /\ Calls' /\ DidFromItsEcu'
  BY <1>8 DEF DidsPlanned, Calls, DidFromItsEcu
<1>14. AddressWritten'
  <2>1. Len(todo') + 1 = (Len(todo) + 1) - 1 /\ Len(todo) + 1 \in 2 .. Len(todo) + 1
    BY <1>2
  <2>2. ASSUME NEW e \in Header, GoesTo(header, todo, Len(todo) + 1, e)
        PROVE  GoesTo(header', todo', Len(todo') + 1, e)
    <3>1. GoesTo(header', todo', (Len(todo) + 1) - 1, e)
      BY <1>7, <2>2
    <3> QED
      BY <2>1, <3>1
  <2> QED
    BY <1>8, <2>2, Constants DEF AddressWritten, EcusNamed
<1> QED
  BY <1>9, <1>10, <1>11, <1>12, <1>13, <1>14

\* A command is written: behind all those that address an ECU.
LEMMA SendStep ==
  ASSUME IInv, Send
  PROVE  IInv'
<1> USE DEF IInv
<1> DEFINE c == [op |-> plan[1].op, arg |-> plan[1].arg]
<1>1. /\ todo \in Seq(Asked1) /\ Len(todo) \in Nat
      /\ plan # << >> /\ ~sent /\ plan[1] \in Planned
      /\ 1 \in 1 .. Len(plan) /\ Head(plan) = plan[1]
  BY Lines DEF Send
<1>2. c \in Asked1 /\ todo' = Append(todo, c) /\ c.op = plan[1].op /\ c.arg = plan[1].arg
  BY <1>1 DEF Send, Asked1, Planned
<1> HIDE DEF c
<1>3. /\ todo' \in Seq(Asked1) /\ Len(todo') = Len(todo) + 1
      /\ \A n \in 1 .. Len(todo) : todo'[n] = todo[n]
      /\ todo'[Len(todo) + 1] = c
  BY <1>1, <1>2
<1>4. /\ UNCHANGED <<header, filtered, ignition, rx, ready, errors, call, plan, found, reads>>
      /\ value' = NoValue
  BY DEF Send
<1>5. sent' = TRUE
  BY DEF Send
<1>6. ASSUME NEW n \in 1 .. Len(todo) + 1, NEW e, GoesTo(header, todo, n, e)
      PROVE  GoesTo(header', todo', n, e)
  <2>1. \A m \in 1 .. n - 1 : todo'[m] = todo[m]
    BY <1>3
  <2> QED
    BY <1>4, <1>6, <2>1 DEF GoesTo
<1>7. TypeOK'
  <2>1. sent' \in BOOLEAN
    BY <1>5
  <2> QED
    BY <1>3, <1>4, <2>1 DEF TypeOK, Asked1
<1>8. AskedOfItsEcu'
  <2> SUFFICES ASSUME NEW n \in 1 .. Len(todo'), todo'[n].op = "DID"
               PROVE  GoesTo(header', todo', n, EcuOf(todo'[n].arg))
    BY DEF AskedOfItsEcu
  <2>1. CASE n \in 1 .. Len(todo)
    <3>1. todo'[n] = todo[n] /\ n \in 1 .. Len(todo) + 1
      BY <1>3, <2>1
    <3>2. GoesTo(header, todo, n, EcuOf(todo[n].arg))
      BY <2>1, <3>1 DEF AskedOfItsEcu
    <3> QED
      BY <1>6, <3>1, <3>2
  <2>2. CASE n = Len(todo) + 1
    <3>1. plan[1].op = "DID" /\ todo'[n] = c
      BY <1>2, <2>2
    <3>2. GoesTo(header, todo, n, EcuOf(c.arg))
      BY <1>1, <1>2, <2>2 DEF AddressWritten
    <3>3. n \in 1 .. Len(todo) + 1
      BY <2>2
    <3> QED
      BY <1>6, <3>1, <3>2, <3>3
  <2> QED
    BY <1>3, <2>1, <2>2
<1>9. AnsweredByItsEcu' /\ DidsPlanned' /\ DidFromItsEcu'
  BY <1>4 DEF AnsweredByItsEcu, DidsPlanned, DidFromItsEcu
<1>10. EcusNamed'
  BY <1>1, <1>2, <1>4 DEF EcusNamed
<1>11. AddressWritten'
  <2>1. ASSUME plan[1].op = "SH"
        PROVE  GoesTo(header', todo', Len(todo') + 1, plan[1].arg)
    <3>1. Len(todo) + 1 \in 1 .. (Len(todo') + 1) - 1
      BY <1>3
    <3>2. todo'[Len(todo) + 1].op = "SH" /\ todo'[Len(todo) + 1].arg = plan[1].arg
      BY <1>2, <2>1
    <3>3. \A m \in (Len(todo) + 1) + 1 .. (Len(todo') + 1) - 1 : todo'[m].op \notin Addressing
      BY <1>3
    <3> QED
      BY <3>1, <3>2, <3>3 DEF GoesTo
  <2> QED
    BY <1>4, <1>5, <2>1 DEF AddressWritten
<1>12. Calls'
  BY <1>1, <1>4 DEF Calls
<1> QED
  BY <1>7, <1>8, <1>9, <1>10, <1>11, <1>12

\* What the link makes of errors and of the success of a call.
LEMMA Outcome ==
  ASSUME TypeOK, plan # << >>, NEW read, Got(read)
  PROVE  /\ found' \in BOOLEAN
         /\ errors' \in 0 .. ErrorWrap - 1
         /\ plan[1].op # "PID" => errors' = errors
         /\ plan[1].op = "PID" => \/ errors' = 0
                                  \/ /\ ~Done(plan[1], read) /\ ~found'
                                     /\ errors' = (errors + 1) % ErrorWrap
<1>1. found' = Success(plan[1], read) /\ errors' = ErrorsAfter(plan[1], read)
  BY DEF Got
<1>2. Success(plan[1], read) \in BOOLEAN
  <2>1. found \in BOOLEAN
    BY DEF TypeOK
  <2>2. CASE plan[1].op = "MAP"
    BY <2>2 DEF Success
  <2>3. CASE plan[1].op = "PID"
    BY <2>3 DEF Success
  <2>4. CASE plan[1].op = "ATZ"
    BY <2>4 DEF Success
  <2>5. CASE plan[1].op \notin {"MAP", "PID", "ATZ"}
    BY <2>1 DEF Success
  <2> QED
    BY <2>2, <2>3, <2>4, <2>5
<1>3. (errors + 1) % ErrorWrap \in 0 .. ErrorWrap - 1 /\ 0 \in 0 .. ErrorWrap - 1
  BY Constants DEF TypeOK
<1>4. CASE plan[1].op # "PID"
  <2>1. errors' = errors
    BY <1>1, <1>4 DEF ErrorsAfter
  <2>2. errors \in 0 .. ErrorWrap - 1
    BY DEF TypeOK
  <2>3. found' \in BOOLEAN
    BY <1>1, <1>2
  <2> QED
    BY <1>4, <2>1, <2>2, <2>3
<1>5. CASE plan[1].op = "PID"
  <2>1. CASE PidFound(plan[1], read)
    BY <1>1, <1>2, <1>3, <1>5, <2>1 DEF ErrorsAfter
  <2>2. CASE ~PidFound(plan[1], read)
    <3>1. ~Done(plan[1], read)
      BY <1>5, <2>2 DEF Done
    <3>2. ~Success(plan[1], read)
      BY <1>5, <2>2 DEF Success
    <3> QED
      BY <1>1, <1>2, <1>3, <1>5, <3>1, <3>2 DEF ErrorsAfter
  <2> QED
    BY <2>1, <2>2
<1> QED
  BY <1>4, <1>5

\* The client has read what there is, or nothing: it repeats the command, goes on behind it, or
\* gives up the call.
LEMMA GotStep ==
  ASSUME IInv, sent, NEW read, Got(read), read \in Seq(Answered),
         \A n \in 1 .. Len(read) : read[n].op = "DID" => read[n].from = EcuOf(read[n].arg),
         rx' \in Seq(Answered), AnsweredByItsEcu'
  PROVE  IInv'
<1> USE DEF IInv
<1>1. /\ plan # << >> /\ plan \in Seq(Planned) /\ Len(plan) \in Nat /\ 1 \in 1 .. Len(plan)
      /\ plan[1] \in Planned /\ Head(plan) = plan[1]
      /\ \A n \in 1 .. Len(plan) : plan[n] \in Planned
  BY Lines DEF Calls
<1>2. /\ UNCHANGED <<todo, header, filtered, ignition, ready, call, reads>>
  BY DEF Got, bridgeVars
<1>3. sent' = FALSE
  BY DEF Got
<1>4. \/ plan' = [plan EXCEPT ![1].left = @ - 1] /\ plan[1].left > 1 /\ ~Done(plan[1], read)
      \/ plan' = Tail(plan)
      \/ plan' = << >>
  BY DEF Got
<1>5. /\ plan' \in Seq(Planned)
      /\ \/ /\ Len(plan') = Len(plan) /\ plan[1].left > 1
            /\ \A n \in 1 .. Len(plan') :
                 /\ n \in 1 .. Len(plan)
                 /\ plan'[n].op = plan[n].op /\ plan'[n].arg = plan[n].arg
                 /\ n > 1 => plan'[n] = plan[n]
         \/ /\ Len(plan') = Len(plan) - 1
            /\ \A n \in 1 .. Len(plan') : n + 1 \in 1 .. Len(plan) /\ plan'[n] = plan[n + 1]
         \/ Len(plan') = 0
  <2>1. CASE plan' = [plan EXCEPT ![1].left = @ - 1] /\ plan[1].left > 1 /\ ~Done(plan[1], read)
    <3> DEFINE again == [plan[1] EXCEPT !.left = @ - 1]
    <3>1. plan[1].left \in 2 .. 6 /\ plan[1].op \in Op /\ plan[1].arg \in Arg
      BY <1>1, <2>1 DEF Planned
    <3>2. again = [op |-> plan[1].op, arg |-> plan[1].arg, left |-> plan[1].left - 1]
      BY <1>1 DEF Planned
    <3>3. again \in Planned /\ again.op = plan[1].op /\ again.arg = plan[1].arg
      <4> HIDE DEF again
      <4> QED
        BY <3>1, <3>2 DEF Planned
    <3>4. plan' = [plan EXCEPT ![1] = again]
      BY <2>1
    <3> HIDE DEF again
    <3>5. /\ plan' \in Seq(Planned) /\ Len(plan') = Len(plan)
          /\ \A n \in 1 .. Len(plan) : plan'[n] = IF n = 1 THEN again ELSE plan[n]
      BY <1>1, <3>3, <3>4
    <3>6. \A n \in 1 .. Len(plan') :
            /\ n \in 1 .. Len(plan)
            /\ plan'[n].op = plan[n].op /\ plan'[n].arg = plan[n].arg
            /\ n > 1 => plan'[n] = plan[n]
      BY <3>3, <3>5
    <3> QED
      BY <2>1, <3>5, <3>6
  <2>2. CASE plan' = Tail(plan)
    <3>1. /\ plan' \in Seq(Planned) /\ Len(plan') = Len(plan) - 1
          /\ \A n \in 1 .. Len(plan') : plan'[n] = plan[n + 1]
      BY <1>1, <2>2
    <3> QED
      BY <3>1
  <2>3. CASE plan' = << >>
    BY <2>3
  <2> QED
    BY <1>4, <2>1, <2>2, <2>3
<1>6. /\ found' \in BOOLEAN
      /\ errors' \in 0 .. ErrorWrap - 1
      /\ plan[1].op # "PID" => errors' = errors
      /\ plan[1].op = "PID" => \/ errors' = 0
                               \/ /\ ~Done(plan[1], read) /\ ~found'
                                  /\ errors' = (errors + 1) % ErrorWrap
  BY <1>1, Outcome
<1>7. Calls' /\ (ready' /\ call' # "reinit" => errors' <= MaxErrors)
  <2>1. call \in {"boot", "none", "quick", "pid", "reinit", "did"}
    BY DEF TypeOK
  <2>2. CASE call \in {"boot", "quick", "reinit"}
    BY <1>2, <1>3, <2>2 DEF Calls
  <2>3. CASE call \in {"none", "did"}
    <3>1. plan[1].op # "PID" /\ errors' = errors
      BY <1>6, <2>3 DEF Calls
    <3>2. \A n \in 1 .. Len(plan') : plan'[n].op # "PID"
      <4>1. \A n \in 1 .. Len(plan) : plan[n].op # "PID"
        BY <2>3 DEF Calls
      <4> SUFFICES ASSUME NEW n \in 1 .. Len(plan')
                   PROVE  plan'[n].op # "PID"
        OBVIOUS
      <4>2. CASE n \in 1 .. Len(plan) /\ plan'[n].op = plan[n].op
        BY <4>1, <4>2
      <4>3. CASE n + 1 \in 1 .. Len(plan) /\ plan'[n] = plan[n + 1]
        BY <4>1, <4>3
      <4>4. CASE Len(plan') = 0
        BY <4>4
      <4> QED
        BY <1>5, <4>2, <4>3, <4>4
    <3> QED
      BY <1>2, <1>3, <3>1, <3>2 DEF Calls, TypeOK
  <2>4. CASE call = "pid"
    <3>1. Len(plan) <= 1 /\ plan[1].op = "PID" /\ plan[1].left = 1
      <4>1. Len(plan) <= 1
        BY <2>4 DEF Calls
      <4>2. plan[1].op = "PID" /\ plan[1].left = 1
        BY <2>4 DEF Calls
      <4> QED
        BY <4>1, <4>2
    <3>2. plan' = << >>
      <4>1. ~(Len(plan') > 0)
        BY <1>5, <3>1
      <4> QED
        BY <4>1
    <3>3. ready => errors < MaxErrors
      BY <2>4 DEF Calls
    <3>4. ready => (errors + 1) % ErrorWrap = errors + 1 /\ errors + 1 <= MaxErrors
      <4>1. errors \in Nat
        BY DEF TypeOK
      <4>2. ASSUME ready
            PROVE  errors + 1 \in Nat /\ errors + 1 < ErrorWrap /\ errors + 1 <= MaxErrors
        BY <3>3, <4>1, <4>2, Constants
      <4>3. ErrorWrap \in Nat
        BY Constants
      <4>4. ASSUME ready
            PROVE  (errors + 1) % ErrorWrap = errors + 1
        BY <4>2, <4>3, <4>4, NoWrap
      <4> QED
        BY <4>2, <4>4
    <3>5. ready => errors' <= MaxErrors /\ (found' => errors' < MaxErrors)
      BY <1>6, <3>4, Constants
    <3> QED
      BY <1>2, <1>3, <2>4, <3>2, <3>5 DEF Calls
  <2> QED
    BY <2>1, <2>2, <2>3, <2>4
<1>8. TypeOK'
  <2>1. sent' \in BOOLEAN
    BY <1>3
  <2> QED
    BY <1>2, <1>5, <1>6, <1>7, <2>1 DEF TypeOK, Planned, Answered
<1>9. AskedOfItsEcu'
  BY <1>2 DEF AskedOfItsEcu
<1>10. EcusNamed'
  <2>1. \A n \in 1 .. Len(plan) : plan[n].op = "SH" => plan[n].arg \in Header
    BY DEF EcusNamed
  <2>2. \A n \in 1 .. Len(plan') : plan'[n].op = "SH" => plan'[n].arg \in Header
    <3> SUFFICES ASSUME NEW n \in 1 .. Len(plan'), plan'[n].op = "SH"
                 PROVE  plan'[n].arg \in Header
      OBVIOUS
    <3>1. CASE n \in 1 .. Len(plan) /\ plan'[n].op = plan[n].op /\ plan'[n].arg = plan[n].arg
      BY <2>1, <3>1
    <3>2. CASE n + 1 \in 1 .. Len(plan) /\ plan'[n] = plan[n + 1]
      BY <2>1, <3>2
    <3>3. CASE Len(plan') = 0
      BY <3>3
    <3> QED
      BY <1>5, <3>1, <3>2, <3>3
  <2> QED
    BY <1>2, <2>2 DEF EcusNamed
<1>11. DidsPlanned'
  <2>1. \A n \in 1 .. Len(plan) : plan[n].op = "DID" =>
          /\ plan[n].left = 1
          /\ n > 1 => plan[n - 1].op = "SH" /\ plan[n - 1].arg = EcuOf(plan[n].arg)
    BY DEF DidsPlanned
  <2>2. CASE /\ Len(plan') = Len(plan) /\ plan[1].left > 1
             /\ \A n \in 1 .. Len(plan') :
                  /\ n \in 1 .. Len(plan)
                  /\ plan'[n].op = plan[n].op /\ plan'[n].arg = plan[n].arg
                  /\ n > 1 => plan'[n] = plan[n]
    <3> SUFFICES ASSUME NEW n \in 1 .. Len(plan'), plan'[n].op = "DID"
                 PROVE  /\ plan'[n].left = 1
                        /\ n > 1 => plan'[n - 1].op = "SH" /\ plan'[n - 1].arg = EcuOf(plan'[n].arg)
      BY DEF DidsPlanned
    <3>1. n \in 1 .. Len(plan) /\ plan[n].op = "DID" /\ plan[n].left = 1
      BY <2>1, <2>2
    <3>2. n > 1
      BY <2>2, <3>1
    <3>3. n - 1 \in 1 .. Len(plan') /\ plan'[n] = plan[n]
      BY <2>2, <3>2
    <3>4. plan'[n - 1].op = plan[n - 1].op /\ plan'[n - 1].arg = plan[n - 1].arg
      BY <2>2, <3>3
    <3> QED
      BY <2>1, <3>1, <3>3, <3>4
  <2>3. CASE /\ Len(plan') = Len(plan) - 1
             /\ \A n \in 1 .. Len(plan') : n + 1 \in 1 .. Len(plan) /\ plan'[n] = plan[n + 1]
    <3> SUFFICES ASSUME NEW n \in 1 .. Len(plan'), plan'[n].op = "DID"
                 PROVE  /\ plan'[n].left = 1
                        /\ n > 1 => plan'[n - 1].op = "SH" /\ plan'[n - 1].arg = EcuOf(plan'[n].arg)
      BY DEF DidsPlanned
    <3>1. n + 1 \in 1 .. Len(plan) /\ plan'[n] = plan[n + 1] /\ n + 1 > 1 /\ (n + 1) - 1 = n
      BY <2>3
    <3>2. plan[n + 1].left = 1 /\ plan[n].op = "SH" /\ plan[n].arg = EcuOf(plan[n + 1].arg)
      BY <2>1, <3>1
    <3>3. n > 1 => plan'[n - 1] = plan[n]
      BY <2>3
    <3> QED
      BY <3>1, <3>2, <3>3
  <2>4. CASE Len(plan') = 0
    BY <2>4 DEF DidsPlanned
  <2> QED
    BY <1>5, <2>2, <2>3, <2>4
<1>12. AddressWritten'
  <2> SUFFICES ASSUME plan' # << >>, plan'[1].op = "DID"
               PROVE  GoesTo(header, todo, Len(todo) + 1, EcuOf(plan'[1].arg))
    BY <1>2, <1>3 DEF AddressWritten
  <2>1. CASE Len(plan') = Len(plan) /\ plan[1].left > 1 /\ plan'[1].op = plan[1].op
    BY <2>1 DEF DidsPlanned
  <2>2. CASE /\ Len(plan') = Len(plan) - 1
             /\ \A n \in 1 .. Len(plan') : n + 1 \in 1 .. Len(plan) /\ plan'[n] = plan[n + 1]
    <3>1. plan'[1] = plan[2] /\ 2 \in 1 .. Len(plan)
      BY <2>2
    <3>2. plan[1].op = "SH" /\ plan[1].arg = EcuOf(plan[2].arg)
      BY <3>1 DEF DidsPlanned
    <3> QED
      BY <3>1, <3>2 DEF AddressWritten
  <2> QED
    BY <1>5, <2>1, <2>2
<1>13. DidFromItsEcu'
  <2>1. CASE plan[1].op = "DID" /\ Done(plan[1], read)
    <3>1. PICK n \in DOMAIN read : Response(read, n) /\ value' = <<plan[1].arg, read[n].from>>
      BY <2>1 DEF Got
    <3>2. PICK k \in DOMAIN read : /\ Response(read, k) /\ read[k].says = "data"
                                /\ read[k].arg = plan[1].arg
      BY <2>1 DEF Done, DidFound
    <3>3. DOMAIN read = 1 .. Len(read) /\ Len(read) \in Nat
      OBVIOUS
    <3>4. n = k
      BY <3>1, <3>2, <3>3 DEF Response
    <3>5. read[n].from = EcuOf(plan[1].arg)
      BY <3>2, <3>3, <3>4 DEF Response, Responds
    <3> QED
      BY <3>1, <3>5 DEF DidFromItsEcu
  <2>2. CASE ~(plan[1].op = "DID" /\ Done(plan[1], read))
    BY <2>2 DEF Got, DidFromItsEcu
  <2> QED
    BY <2>1, <2>2
<1> QED
  BY <1>7, <1>8, <1>9, <1>10, <1>11, <1>12, <1>13

\* What comes in is read from the front, as far as it has come.
LEMMA ReceiveStep ==
  ASSUME IInv, Receive
  PROVE  IInv'
<1> USE DEF IInv
<1>1. PICK n \in DOMAIN rx : rx' = SubSeq(rx, n + 1, Len(rx)) /\ Got(SubSeq(rx, 1, n))
  BY DEF Receive
<1>2. /\ rx \in Seq(Answered) /\ Len(rx) \in Nat /\ n \in 1 .. Len(rx) /\ DOMAIN rx = 1 .. Len(rx)
      /\ \A k \in 1 .. Len(rx) : rx[k] \in Answered
  BY Lines
<1> DEFINE read == SubSeq(rx, 1, n)
<1>3. read \in Seq(Answered) /\ Len(read) = n /\ \A k \in 1 .. n : read[k] = rx[k]
  <2>1. /\ read \in Seq(Answered) /\ Len(read) = IF 1 <= n THEN n - 1 + 1 ELSE 0
        /\ \A k \in 1 .. n - 1 + 1 : read[k] = rx[1 + k - 1]
    BY <1>2
  <2> HIDE DEF read
  <2> QED
    BY <1>2, <2>1
<1>4. /\ rx' \in Seq(Answered) /\ Len(rx') = Len(rx) - n
      /\ \A k \in 1 .. Len(rx') : rx'[k] = rx[n + k]
  <2>1. /\ rx' \in Seq(Answered)
        /\ Len(rx') = IF n + 1 <= Len(rx) THEN Len(rx) - (n + 1) + 1 ELSE 0
        /\ \A k \in 1 .. Len(rx) - (n + 1) + 1 : rx'[k] = rx[n + 1 + k - 1]
    BY <1>1, <1>2
  <2>2. Len(rx') = Len(rx) - n
    BY <1>2, <2>1
  <2>3. ASSUME NEW k \in 1 .. Len(rx')
        PROVE  rx'[k] = rx[n + k]
    <3>1. k \in 1 .. Len(rx) - (n + 1) + 1 /\ n + 1 + k - 1 = n + k
      BY <1>2, <2>2
    <3>2. rx'[k] = rx[n + 1 + k - 1]
      BY <2>1, <3>1
    <3> QED
      BY <3>1, <3>2
  <2> QED
    BY <2>1, <2>2, <2>3
<1>5. \A k \in 1 .. Len(read) : read[k].op = "DID" => read[k].from = EcuOf(read[k].arg)
  <2> HIDE DEF read
  <2> QED
    BY <1>3 DEF AnsweredByItsEcu
<1>6. AnsweredByItsEcu'
  <2> SUFFICES ASSUME NEW k \in 1 .. Len(rx'), rx'[k].op = "DID"
               PROVE  rx'[k].from = EcuOf(rx'[k].arg)
    BY DEF AnsweredByItsEcu
  <2>1. n + k \in 1 .. Len(rx) /\ rx'[k] = rx[n + k]
    BY <1>4
  <2> QED
    BY <2>1 DEF AnsweredByItsEcu
<1>7. sent
  BY DEF Receive
<1> QED
  BY <1>1, <1>3, <1>4, <1>5, <1>6, <1>7, GotStep

\* Nothing came.
LEMMA TimeoutStep ==
  ASSUME IInv, Timeout
  PROVE  IInv'
<1> USE DEF IInv
<1>1. sent /\ rx' = rx /\ Got(<< >>)
  BY DEF Timeout
<1>2. << >> \in Seq(Answered) /\ Len(<< >>) = 0
  OBVIOUS
<1>3. \A n \in 1 .. Len(<< >>) : << >>[n].op = "DID" => << >>[n].from = EcuOf(<< >>[n].arg)
  OBVIOUS
<1>4. rx' \in Seq(Answered) /\ AnsweredByItsEcu'
  BY <1>1, Lines DEF AnsweredByItsEcu
<1> QED
  BY <1>1, <1>2, <1>3, <1>4, GotStep

\* A call begins, or is over; nothing is on its way for it yet.
LEMMA NewPlan ==
  ASSUME IInv, plan = << >>, Kept, WellPlanned(plan'),
         call' \in {"boot", "none", "quick", "pid", "reinit", "did"},
         ready' \in BOOLEAN, found' \in BOOLEAN, reads' \in 0 .. MaxReads,
         errors' \in 0 .. ErrorWrap - 1, ready' /\ call' # "reinit" => errors' <= MaxErrors,
         ~sent => Calls'
  PROVE  IInv'
<1> USE DEF IInv
<1>1. UNCHANGED <<todo, header, filtered, ignition, rx, sent>> /\ value' = NoValue
  BY DEF Kept, bridgeVars
<1>2. ~sent
  BY DEF Calls
<1>3. TypeOK'
  BY <1>1 DEF TypeOK, WellPlanned, Planned
<1>4. AskedOfItsEcu' /\ AnsweredByItsEcu' /\ DidFromItsEcu'
  BY <1>1 DEF AskedOfItsEcu, AnsweredByItsEcu, DidFromItsEcu
<1>5. EcusNamed' /\ DidsPlanned'
  BY <1>1 DEF EcusNamed, DidsPlanned, WellPlanned
<1>6. AddressWritten'
  <2>1. plan' # << >> => plan'[1].op # "DID"
    BY DEF WellPlanned
  <2> QED
    BY <1>1, <1>2, <2>1 DEF AddressWritten
<1> QED
  BY <1>2, <1>3, <1>4, <1>5, <1>6

\* The steps of initialize() and process() between two calls.
LEMMA ProcessStep ==
  ASSUME IInv, Process
  PROVE  IInv'
<1> USE DEF IInv
<1>1. /\ ready \in BOOLEAN /\ found \in BOOLEAN /\ reads \in 0 .. MaxReads
      /\ errors \in 0 .. ErrorWrap - 1
      /\ errors \in Nat /\ MaxReads \in Nat /\ MaxErrors \in Nat \ {0} /\ 0 \in 0 .. ErrorWrap - 1
      /\ 0 \in 0 .. MaxReads
  BY Constants DEF TypeOK
<1>2. CASE Connected
  <2>1. plan = << >> /\ Kept /\ call \in {"boot", "quick"} /\ ~ready
    BY <1>2 DEF Connected, Over, Calls
  <2>2. /\ ready' = found /\ found' = found /\ reads' = reads /\ call' = "none"
        /\ errors' = IF found THEN 0 ELSE errors
    BY <1>2 DEF Connected, Idle, Start
  <2>3. WellPlanned(plan') /\ NoPid(plan')
    BY <1>2, EmptyPlan, OtherPlans DEF Connected, Idle, Start
  <2>4. ~sent => Calls'
    BY <1>1, <2>1, <2>2, <2>3 DEF Calls, Kept, NoPid
  <2> QED
    BY <1>1, <2>1, <2>2, <2>3, <2>4, NewPlan
<1>3. CASE Cycle
  <2>1. plan = << >> /\ Kept /\ call = "none"
    BY <1>3 DEF Cycle, Over
  <2>2. ready' = ready /\ errors' = errors /\ reads' = 0
    BY <1>3 DEF Cycle
  <2>3. CASE ready
    <3>1. PICK p \in Pids : plan' = <<Ask("PID", p)>>
      BY <1>3, <2>3 DEF Cycle, Start
    <3>2. call' = "pid" /\ found' = found
      BY <1>3, <2>3 DEF Cycle, Start
    <3>3. errors < MaxErrors
      BY <2>1, <2>3 DEF Calls
    <3>4. WellPlanned(plan')
      BY <3>1, OtherPlans
    <3>5. Len(plan') = 1 /\ plan'[1].op = "PID" /\ plan'[1].left = 1
      BY <3>1 DEF Ask, Command
    <3>6. ~sent => Calls'
      BY <2>1, <2>2, <3>2, <3>5 DEF Calls, Kept
    <3> QED
      BY <1>1, <2>1, <2>2, <3>2, <3>3, <3>4, <3>6, NewPlan
  <2>4. CASE ~ready
    <3>1. plan' = InitPlan(TRUE) /\ call' = "quick"
      BY <1>3, <2>4 DEF Cycle, Start
    <3>2. found' = FALSE
      BY <1>3, <2>4 DEF Cycle
    <3>3. WellPlanned(plan')
      BY <3>1, InitPlans
    <3>4. found' \in BOOLEAN
      BY <3>2
    <3>5. ~sent => Calls'
      BY <2>1, <2>2, <2>4, <3>1 DEF Calls, Kept
    <3> QED
      BY <1>1, <2>1, <2>2, <2>4, <3>1, <3>3, <3>4, <3>5, NewPlan
  <2> QED
    BY <2>3, <2>4
<1>4. CASE NextPid
  <2>1. plan = << >> /\ Kept /\ call = "pid" /\ found /\ reads < MaxReads
    BY <1>4 DEF NextPid, Over
  <2>2. ready' = ready /\ errors' = errors /\ found' = found /\ reads' = reads + 1
    BY <1>4 DEF NextPid
  <2>3. PICK p \in Pids : plan' = <<Ask("PID", p)>> /\ call' = "pid"
    BY <1>4 DEF NextPid, Start
  <2>4. WellPlanned(plan')
    BY <2>3, OtherPlans
  <2>5. Len(plan') = 1 /\ plan'[1].op = "PID" /\ plan'[1].left = 1
    BY <2>3 DEF Ask, Command
  <2>6. ready => errors < MaxErrors
    BY <2>1 DEF Calls
  <2>7. ~sent => Calls'
    BY <2>1, <2>2, <2>3, <2>5 DEF Calls
  <2> QED
    BY <1>1, <2>1, <2>2, <2>3, <2>4, <2>6, <2>7, NewPlan
<1>5. CASE PidsRead
  <2>1. plan = << >> /\ Kept /\ call = "pid"
    BY <1>5 DEF PidsRead, Over
  <2>2. ready' = ready /\ errors' = errors /\ found' = found /\ reads' = reads
    BY <1>5 DEF PidsRead
  <2>3. CASE errors >= MaxErrors
    <3>1. plan' = InitPlan(FALSE) /\ call' = "reinit"
      BY <1>5, <2>3 DEF PidsRead, Start
    <3>2. WellPlanned(plan')
      BY <3>1, InitPlans
    <3>3. ~sent => Calls'
      BY <2>1, <3>1 DEF Calls, Kept
    <3> QED
      BY <1>1, <2>1, <2>2, <3>1, <3>2, <3>3, NewPlan
  <2>4. CASE ~(errors >= MaxErrors)
    <3>1. errors < MaxErrors
      BY <1>1, <2>4
    <3>2. plan' = << >> /\ call' = "did"
      BY <1>5, <2>4 DEF PidsRead, Start
    <3>3. WellPlanned(plan') /\ NoPid(plan')
      BY <3>2, EmptyPlan
    <3>4. ~sent => Calls'
      BY <2>1, <2>2, <3>1, <3>2 DEF Calls, Kept
    <3> QED
      BY <1>1, <2>1, <2>2, <3>1, <3>2, <3>3, <3>4, NewPlan
  <2> QED
    BY <2>3, <2>4
<1>6. CASE Reinitialized
  <2>1. plan = << >> /\ Kept /\ call = "reinit"
    BY <1>6 DEF Reinitialized, Over
  <2>2. /\ ready' = found /\ found' = found /\ reads' = reads /\ call' \in {"none", "did"}
        /\ errors' = IF found THEN 0 ELSE errors
    BY <1>6 DEF Reinitialized, Idle, Start
  <2>3. WellPlanned(plan') /\ NoPid(plan')
    BY <1>6, EmptyPlan, OtherPlans DEF Reinitialized, Idle, Start
  <2>4. ~sent => Calls'
    BY <1>1, <2>1, <2>2, <2>3 DEF Calls, Kept, NoPid
  <2> QED
    BY <1>1, <2>1, <2>2, <2>3, <2>4, NewPlan
<1>7. CASE NextDid
  <2>1. plan = << >> /\ Kept /\ call = "did" /\ reads < MaxReads
    BY <1>7 DEF NextDid, Over
  <2>2. /\ ready' = ready /\ errors' = errors /\ found' = found /\ reads' = reads + 1
        /\ call' = "did"
    BY <1>7 DEF NextDid, Start
  <2>3. WellPlanned(plan') /\ NoPid(plan')
    BY <1>7, OtherPlans DEF NextDid, Start
  <2>4. ~sent => Calls'
    BY <2>1, <2>2, <2>3 DEF Calls, Kept, NoPid
  <2>5. ready => errors <= MaxErrors
    BY <2>1 DEF TypeOK
  <2> QED
    BY <1>1, <2>1, <2>2, <2>3, <2>4, <2>5, NewPlan
<1>8. CASE DidsRead
  <2>1. plan = << >> /\ Kept /\ call = "did"
    BY <1>8 DEF DidsRead, Over
  <2>2. ready' = ready /\ errors' = errors /\ found' = found /\ reads' = reads /\ call' = "none"
    BY <1>8 DEF DidsRead, Idle, Start
  <2>3. WellPlanned(plan') /\ NoPid(plan')
    BY <1>8, EmptyPlan DEF DidsRead, Idle, Start
  <2>4. ~sent => Calls'
    BY <2>1, <2>2, <2>3 DEF Calls, Kept, NoPid
  <2>5. ready => errors <= MaxErrors
    BY <2>1 DEF TypeOK
  <2> QED
    BY <1>1, <2>1, <2>2, <2>3, <2>4, <2>5, NewPlan
<1> QED
  BY <1>2, <1>3, <1>4, <1>5, <1>6, <1>7, <1>8 DEF Process


\* The device boots.
LEMMA InitEstablishes == Init => IInv
<1> SUFFICES ASSUME Init
             PROVE  IInv
  OBVIOUS
<1>1. /\ todo = << >> /\ rx = << >> /\ header = ANY /\ errors = 0 /\ call = "boot" /\ reads = 0
      /\ plan = InitPlan(FALSE) /\ value = NoValue
  BY DEF Init
<1>2. /\ filtered \in BOOLEAN /\ ignition \in BOOLEAN /\ ready \in BOOLEAN /\ sent \in BOOLEAN
      /\ found \in BOOLEAN
  BY DEF Init
<1>3. ~ready /\ ~sent
  BY DEF Init
<1>4. WellPlanned(plan) /\ plan # << >>
  BY <1>1, InitPlans
<1>5. Len(todo) = 0 /\ Len(rx) = 0 /\ todo \in Seq(Asked1) /\ rx \in Seq(Answered)
  BY <1>1
<1>6. TypeOK
  <2>1. header \in Header /\ errors \in 0 .. ErrorWrap - 1 /\ reads \in 0 .. MaxReads
    BY <1>1, Constants DEF Header
  <2>2. call \in {"boot", "none", "quick", "pid", "reinit", "did"}
    BY <1>1
  <2>3. /\ todo \in Seq([op : Op, arg : Arg])
        /\ plan \in Seq([op : Op, arg : Arg, left : 1 .. 6])
        /\ rx \in Seq([op : Op, arg : Arg, says : Says, from : Header])
    BY <1>4, <1>5 DEF WellPlanned, Planned
  <2> QED
    BY <1>2, <1>3, <2>1, <2>2, <2>3 DEF TypeOK
<1>7. AskedOfItsEcu /\ AnsweredByItsEcu /\ DidFromItsEcu
  BY <1>1 DEF AskedOfItsEcu, AnsweredByItsEcu, DidFromItsEcu
<1>8. EcusNamed /\ DidsPlanned
  BY <1>4, <1>5 DEF EcusNamed, DidsPlanned, WellPlanned
<1>9. AddressWritten
  <2>1. plan[1].op # "DID"
    BY <1>4 DEF WellPlanned
  <2> QED
    BY <1>3, <2>1 DEF AddressWritten
<1>10. Calls
  BY <1>1, <1>3 DEF Calls
<1> QED
  BY <1>6, <1>7, <1>8, <1>9, <1>10 DEF IInv

\* ... and boots again: nothing is left on the line.
LEMMA RestartStep ==
  ASSUME IInv, Restart
  PROVE  IInv'
<1>1. /\ todo' = << >> /\ rx' = << >> /\ header' = ANY /\ errors' = 0 /\ call' = "boot"
      /\ reads' = 0 /\ plan' = InitPlan(FALSE) /\ value' = NoValue
  BY DEF Restart, Start
<1>2. /\ filtered' \in BOOLEAN /\ ignition' \in BOOLEAN /\ ready' \in BOOLEAN
      /\ sent' \in BOOLEAN /\ found' \in BOOLEAN
  BY DEF Restart, IInv, TypeOK
<1>3. ~ready' /\ ~sent'
  BY DEF Restart, Over, IInv, Calls
<1>4. WellPlanned(plan') /\ plan' # << >>
  BY <1>1, InitPlans
<1>5. Len(todo') = 0 /\ Len(rx') = 0 /\ todo' \in Seq(Asked1) /\ rx' \in Seq(Answered)
  BY <1>1
<1>6. TypeOK'
  <2>1. header' \in Header /\ errors' \in 0 .. ErrorWrap - 1 /\ reads' \in 0 .. MaxReads
    BY <1>1, Constants DEF Header
  <2>2. call' \in {"boot", "none", "quick", "pid", "reinit", "did"}
    BY <1>1
  <2>3. /\ todo' \in Seq([op : Op, arg : Arg])
        /\ plan' \in Seq([op : Op, arg : Arg, left : 1 .. 6])
        /\ rx' \in Seq([op : Op, arg : Arg, says : Says, from : Header])
    BY <1>4, <1>5 DEF WellPlanned, Planned
  <2> QED
    BY <1>2, <1>3, <2>1, <2>2, <2>3 DEF TypeOK
<1>7. AskedOfItsEcu' /\ AnsweredByItsEcu' /\ DidFromItsEcu'
  BY <1>1 DEF AskedOfItsEcu, AnsweredByItsEcu, DidFromItsEcu
<1>8. EcusNamed' /\ DidsPlanned'
  BY <1>4, <1>5 DEF EcusNamed, DidsPlanned, WellPlanned
<1>9. AddressWritten'
  <2>1. plan'[1].op # "DID"
    BY <1>4 DEF WellPlanned
  <2> QED
    BY <1>3, <2>1 DEF AddressWritten
<1>10. Calls'
  BY <1>1, <1>3 DEF Calls
<1> QED
  BY <1>6, <1>7, <1>8, <1>9, <1>10 DEF IInv

\* Every step of the logger, the co-processor and the driver preserves the invariant.
LEMMA StepPreserves ==
  ASSUME IInv, [Next]_vars
  PROVE  IInv'
<1>1. CASE Bridge
  <2>1. todo # << >> /\ Head(todo) = todo[1]
    BY <1>1, Lines DEF Bridge, BridgeResets, BridgeSets, BridgeAsks, Asked, IInv
  <2>2. filtered' \in BOOLEAN /\ ignition' \in BOOLEAN
    BY <1>1 DEF Bridge, BridgeResets, BridgeSets, BridgeAsks, IInv, TypeOK
  <2>3. UNCHANGED <<clientVars, value>>
    BY <1>1 DEF Bridge, BridgeResets, BridgeSets, BridgeAsks
  <2>4. PICK says \in Says : Answer(says)
    BY <1>1 DEF Bridge, BridgeResets, BridgeSets, BridgeAsks, Says
  <2>5. header' = IF todo[1].op = "ATZ" THEN ANY
                  ELSE IF todo[1].op = "SH" THEN todo[1].arg ELSE header
    BY <1>1, <2>1 DEF Bridge, BridgeResets, BridgeSets, BridgeAsks, Asked, Settings
  <2> QED
    BY <2>1, <2>2, <2>3, <2>4, <2>5, BridgeStep
<1>2. CASE IgnitionTurned
  <2>1. ignition' \in BOOLEAN
    BY <1>2 DEF IgnitionTurned
  <2>2. UNCHANGED <<todo, header, filtered, rx, ready, errors, call, plan, sent, found, reads,
                    value>>
    BY <1>2 DEF IgnitionTurned, clientVars
  <2> QED
    BY <2>1, <2>2 DEF IInv, TypeOK, AskedOfItsEcu, AnsweredByItsEcu, EcusNamed, DidsPlanned,
       AddressWritten, Calls, DidFromItsEcu
<1>3. CASE UNCHANGED vars
  <2>1. UNCHANGED <<todo, header, filtered, ignition, rx, ready, errors, call, plan, sent,
                    found, reads, value>>
    BY <1>3 DEF vars, bridgeVars, clientVars
  <2> QED
    BY <2>1 DEF IInv, TypeOK, AskedOfItsEcu, AnsweredByItsEcu, EcusNamed, DidsPlanned,
       AddressWritten, Calls, DidFromItsEcu
<1> QED
  BY <1>1, <1>2, <1>3, RestartStep, SendStep, ReceiveStep, TimeoutStep, ProcessStep DEF Next, Client

-----------------------------------------------------------------------------
\* The invariant holds of every drive.
THEOREM Inductive == Spec => []IInv
<1>1. Init => IInv
  BY InitEstablishes
<1>2. IInv /\ [Next]_vars => IInv'
  BY StepPreserves
<1> QED
  BY <1>1, <1>2, PTL DEF Spec

\* The lines and the calls keep their types, and COBD::errors, a byte, is never above the limit
\* while OBD is ready but in the re-initialization it causes.
THEOREM TypeCorrect == Spec => []TypeOK
<1>1. IInv => TypeOK
  BY DEF IInv
<1> QED
  BY <1>1, Inductive, PTL

\* However many answers are late, lost in the buffer or read with others, readDID() takes none
\* for a DID that another ECU gave.
THEOREM ValuesAreOfTheirEcu == Spec => []DidFromItsEcu
<1>1. IInv => DidFromItsEcu
  BY DEF IInv
<1> QED
  BY <1>1, Inductive, PTL

=============================================================================
