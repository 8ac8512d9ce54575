------------------------------ MODULE ModemLink ------------------------------
(***************************************************************************)
(* The link to the server as the telemetry task sees it: TeleClientUDP on  *)
(* CellUDP on a serial line. An AT command is written, and the answer is   *)
(* whatever matches in the bytes that come in before the timeout: the      *)
(* modem may be late, its answers carry no number, datagrams come in       *)
(* between, and only powering up flushes the line. initCell() powers the   *)
(* modem up, finds out which it is, and has it registered first.           *)
(*                                                                         *)
(* What the modem writes is a sequence of tokens; several may be read at   *)
(* once. A checksum that does not fit is a datagram lost. A loop that ends *)
(* with a timeout makes a number of attempts.                              *)
(***************************************************************************)
EXTENDS Integers, Sequences

CONSTANTS
  MaxPackets,   \* bound: live packets transmitted
  ReopenAfter,  \* 64: the socket is opened anew every so many packets
  MaxAttempts,  \* 3: of connect(), of notify(), of ping(); 30, 20, ... in initCell()
  Unheeded,     \* 5: commands of initCell() after registration
  MaxBehind,    \* bound: commands the modem has not answered when one times out
  MaxQueued     \* bound: a datagram comes in only behind fewer tokens

ASSUME LinkAssumption ==
  /\ MaxPackets \in Nat /\ MaxBehind \in Nat /\ MaxQueued \in Nat
  /\ {ReopenAfter, MaxAttempts, Unheeded} \subseteq Nat \ {0}

Packet == 1 .. MaxPackets
LOGIN == -1
LOGOUT == -2
RECONNECT == -4
PING == -7
Event == {LOGIN, LOGOUT, RECONNECT, PING}
Nothing == 0

\* What else answers tell: the model; in service or not; registered or not.
SIM7670 == 1
Online == 2
NoService == 3
Registered == 4
Searching == 5
Told == Event \cup {SIM7670, Online, NoService, Registered, Searching, Nothing}

\* What the modem writes: "\r\nOK", "\r\nERROR", "\r\n>", "\r\nOK\r\n\r\n+CIPSEND:",
\* "\r\nRECV FROM:...+IPD" with the reply to an event; "Model:", ": READY", "+CPSI:", "+CREG: 0,".
Token == [kind : {"OK", "ERROR", "PROMPT", "SENT", "IPD", "MODEL", "READY", "SYSTEM", "REG"},
          tells : Told]
Plain(k) == [kind |-> k, tells |-> Nothing]
Info(k, t) == [kind |-> k, tells |-> t]

VARIABLES
  todo,      \* modem: commands read and not answered yet
  sock,      \* modem: the socket is open
  rx,        \* tokens in the driver's buffer, oldest first
  air,       \* events the server has answered, the reply on its way
  reply,     \* what is looked for in m_buffer, which holds what was read last
  incoming,  \* m_incoming
  pc, stack, \* where the task is, and where the calls under way return to
  ok,        \* what the last call returned
  item,      \* the packet transmitted, or
  event, tries, rounds,   \* the event notify() sends; attempts of notify(); of the others
  login, packets,         \* TeleClient::login, packets
  next,      \* the next live packet
  sent,      \* history: packets the modem has sent
  confirmed, \* history: packets transmit() returned true for
  handled    \* history: events the server has handled since the modem was powered up

modemVars == <<todo, sock, rx, air>>
lineVars == <<reply, incoming>>
callVars == <<pc, stack, ok>>
sessionVars == <<item, event, tries, rounds, login, packets, next>>
histVars == <<sent, confirmed, handled>>
vars == <<modemVars, lineVars, callVars, sessionVars, histVars>>

Init ==
  /\ todo = << >> /\ sock = FALSE /\ rx = << >> /\ air = {}
  /\ reply = Nothing /\ incoming = FALSE
  /\ pc = "off" /\ stack = << >> /\ ok = FALSE
  /\ item = Nothing /\ event = LOGIN /\ tries = 0 /\ rounds = 0
  /\ login = FALSE /\ packets = 0 /\ next = 1
  /\ sent = {} /\ confirmed = {} /\ handled = {}

-----------------------------------------------------------------------------
(* The modem, the network and the server.                                  *)

Command(kind, data) == [kind |-> kind, data |-> data]
Answer(tokens) == rx' = rx \o tokens /\ todo' = Tail(todo)
Asked(kind) == todo # << >> /\ Head(todo).kind = kind

ModemOpens ==
  /\ Asked("open")
  /\ \/ sock' = TRUE /\ Answer(<<Plain("OK")>>)
     \/ sock' = sock /\ Answer(<<Plain("ERROR")>>)
  /\ UNCHANGED <<air, lineVars, callVars, sessionVars, histVars>>

ModemCloses ==
  /\ Asked("close")
  /\ sock' = FALSE
  /\ Answer(<<Plain(IF sock THEN "OK" ELSE "ERROR")>>)
  /\ UNCHANGED <<air, lineVars, callVars, sessionVars, histVars>>

\* "AT\rAT\r" is answered twice.
ModemChecked ==
  /\ Asked("check")
  /\ Answer(<<Plain("OK"), Plain("OK")>>)
  /\ UNCHANGED <<sock, air, lineVars, callVars, sessionVars, histVars>>

\* Settings, and what telemetry only prints.
ModemSets ==
  /\ Asked("set")
  /\ \E k \in {"OK", "ERROR"} : Answer(<<Plain(k)>>)
  /\ UNCHANGED <<sock, air, lineVars, callVars, sessionVars, histVars>>

\* ATI, AT+CPIN?, AT+CPSI? (in low power mode it has neither answer), AT+CREG?.
ModemTells ==
  /\ \/ Asked("model") /\ Answer(<<Info("MODEL", SIM7670), Plain("OK")>>)
     \/ Asked("sim") /\ (Answer(<<Plain("READY"), Plain("OK")>>) \/ Answer(<<Plain("ERROR")>>))
     \/ Asked("system") /\ Answer(<<Plain("OK")>>)
     \/ Asked("system") /\ \E t \in {Online, NoService} : Answer(<<Info("SYSTEM", t), Plain("OK")>>)
     \/ Asked("reg") /\ \E t \in {Registered, Searching} : Answer(<<Info("REG", t), Plain("OK")>>)
  /\ UNCHANGED <<sock, air, lineVars, callVars, sessionVars, histVars>>

ModemPrompts ==
  /\ Asked("send") /\ sock
  /\ rx' = Append(rx, Plain("PROMPT"))
  /\ todo' = <<Command("data", Head(todo).data)>> \o Tail(todo)
  /\ UNCHANGED <<sock, air, lineVars, callVars, sessionVars, histVars>>

\* The datagram leaves, and may get lost; the server handles an event and replies.
ModemSends ==
  /\ Asked("data")
  /\ Answer(<<Plain("SENT")>>)
  /\ LET d == Head(todo).data
     IN \/ /\ d \in Packet
           /\ sent' = sent \cup {d}
           /\ UNCHANGED <<air, handled>>
        \/ /\ d \in Event
           /\ handled' = handled \cup {d} /\ air' = air \cup {d}
           /\ UNCHANGED sent
        \/ d \in Event /\ UNCHANGED <<air, handled, sent>>
  /\ UNCHANGED <<sock, lineVars, callVars, sessionVars, confirmed>>

ModemRefuses ==
  /\ \/ Asked("send") /\ ~sock
     \/ Asked("data")
  /\ Answer(<<Plain("ERROR")>>)
  /\ UNCHANGED <<sock, air, lineVars, callVars, sessionVars, histVars>>

\* Replies come in, in whatever order, or never.
ReplyArrives ==
  /\ sock /\ Len(rx) < MaxQueued
  /\ \E e \in air :
       /\ rx' = Append(rx, Info("IPD", e))
       /\ air' = air \ {e}
  /\ UNCHANGED <<todo, sock, lineVars, callVars, sessionVars, histVars>>

SocketDrops ==
  /\ sock /\ sock' = FALSE
  /\ UNCHANGED <<todo, rx, air, lineVars, callVars, sessionVars, histVars>>

ModemWorks ==
  ModemOpens \/ ModemCloses \/ ModemChecked \/ ModemSets \/ ModemTells \/ ModemPrompts \/ ModemSends \/ ModemRefuses

-----------------------------------------------------------------------------
(* xbReceive(), sendCommand().                                             *)

Goto(label) == pc' = label /\ UNCHANGED stack
Call(label, ret) == pc' = label /\ stack' = <<ret>> \o stack
Return(result) == ok' = result /\ pc' = Head(stack) /\ stack' = Tail(stack)

\* Write a command and wait for what matches.
Issue(kind, data, wait, ret) ==
  /\ todo' = Append(todo, Command(kind, data))
  /\ Call(wait, ret)
  /\ UNCHANGED <<sock, rx, air, lineVars, ok>>

Kinds(tokens) == {tokens[n].kind : n \in DOMAIN tokens}

\* The strings looked for; "\r\nOK" is found in the confirmation of a send, too.
Matches(wait) ==
  CASE wait = "wait" -> {"OK", "SENT", "ERROR"}
    [] wait = "sendwait" -> {"ERROR", "SENT", "IPD"}
    [] wait = "ipdwait" -> {"IPD"}
    [] wait = "simwait" -> {"READY"}
    [] wait = "syswait" -> {"SYSTEM"}
    [] wait = "regwait" -> {"REG"}

Waits == {"wait", "sendwait", "ipdwait", "simwait", "syswait", "regwait"}
Waiting == pc \in Waits

\* What the caller looks for in the buffer: the first of its kind, but "NO SERVICE" before
\* ",Online".
Sought ==
  CASE Head(stack) = "identified" -> "MODEL"
    [] pc = "syswait" -> "SYSTEM"
    [] pc = "regwait" -> "REG"
    [] OTHER -> "IPD"
Looked(sought, tokens) ==
  LET found == {n \in DOMAIN tokens : tokens[n].kind = sought}
      first == CHOOSE n \in found : \A m \in found : n <= m
  IN CASE found = {} -> Nothing
       [] \E n \in found : tokens[n].tells = NoService -> NoService
       [] OTHER -> tokens[first].tells

\* The first string of the list that is found decides. send() keeps -1, "something came,
\* nothing matched", in a byte, and 255 is more than 1.
Success(wait, kinds) ==
  CASE wait = "wait" -> kinds \cap {"OK", "SENT"} # {}
    [] wait = "sendwait" -> "ERROR" \notin kinds /\ kinds # {}
    [] wait = "syswait" -> kinds # {}
    [] OTHER -> kinds \cap Matches(wait) # {}

\* sendCommand() ends with inbound(), send() and setup()'s first question do not.
Noticed(kinds) == incoming \/ (pc \notin {"sendwait", "syswait"} /\ "IPD" \in kinds)

ReadPrefix(n) ==
  LET read == SubSeq(rx, 1, n)
  IN
  /\ reply' = Looked(Sought, read)
  /\ rx' = SubSeq(rx, n + 1, Len(rx))
  /\ incoming' = Noticed(Kinds(read))
  /\ Return(Success(pc, Kinds(read)))

Match ==
  /\ Waiting
  /\ \E n \in DOMAIN rx : rx[n].kind \in Matches(pc) /\ ReadPrefix(n)
  /\ UNCHANGED <<todo, sock, air, sessionVars, histVars>>

\* A chunk may reach beyond the match.
MatchAndMore ==
  /\ Waiting
  /\ Kinds(rx) \cap Matches(pc) # {}
  /\ ReadPrefix(Len(rx))
  /\ UNCHANGED <<todo, sock, air, sessionVars, histVars>>

Timeout ==
  /\ Waiting
  /\ Kinds(rx) \cap Matches(pc) = {}
  /\ Len(todo) <= MaxBehind
  /\ ReadPrefix(Len(rx))
  /\ UNCHANGED <<todo, sock, air, sessionVars, histVars>>

-----------------------------------------------------------------------------
(* TeleClientUDP::notify(): called at "notify" with `event` set.            *)

\* Slip: an attempt that fails is not counted.
NotifyUncounted ==
  /\ pc = "notify"
  /\ IF tries < MaxAttempts
     THEN Issue("send", event, "sendwait", "notified")
     ELSE Return(FALSE) /\ UNCHANGED <<modemVars, lineVars>>
  /\ UNCHANGED <<tries, item, event, rounds, login, packets, next, histVars>>
Notify ==
  /\ pc = "notify"
  /\ IF tries < MaxAttempts
     THEN tries' = tries + 1 /\ Issue("send", event, "sendwait", "notified")
     ELSE tries' = tries /\ Return(FALSE) /\ UNCHANGED <<modemVars, lineVars>>
  /\ UNCHANGED <<item, event, rounds, login, packets, next, histVars>>

\* A send that fails ends the attempts.
NotifySent ==
  /\ pc = "notified"
  /\ IF ok THEN Goto("receive") /\ UNCHANGED ok ELSE Return(FALSE)
  /\ UNCHANGED <<modemVars, lineVars, sessionVars, histVars>>

\* CellUDP::receive(): wait, unless a datagram was noticed before ...
Receive ==
  /\ pc \in {"receive", "inbound"}
  /\ IF incoming THEN pc' = "read" /\ stack' = <<pc>> \o stack
     ELSE pc' = "ipdwait" /\ stack' = <<"read", pc>> \o stack
  /\ UNCHANGED <<modemVars, lineVars, ok, sessionVars, histVars>>

\* Slip: any reply is the reply.
IsReplyAny(e) == TRUE
IsReply(e) == e = event

\* ... and look for it in the buffer, where a later command may have overwritten it; the
\* datagram is marked as read. notify() takes the reply to its event only, and tries again.
ReadReply ==
  /\ pc = "read" /\ Head(stack) = "receive"
  /\ incoming' = FALSE /\ reply' = Nothing
  /\ IF incoming /\ reply # Nothing /\ IsReply(reply)
     THEN ok' = TRUE /\ pc' = "answered" /\ stack' = Tail(stack)
     ELSE pc' = "notify" /\ stack' = Tail(stack) /\ UNCHANGED ok
  /\ UNCHANGED <<modemVars, sessionVars, histVars>>

Answered ==
  /\ pc = "answered"
  /\ login' = IF event = LOGIN THEN TRUE ELSE IF event = LOGOUT THEN FALSE ELSE login
  /\ Return(TRUE)
  /\ UNCHANGED <<modemVars, lineVars, item, event, tries, rounds, packets, next, histVars>>

-----------------------------------------------------------------------------
(* initCell().                                                             *)

Kept == UNCHANGED <<item, event, tries, login, packets, next, histVars>>

\* For the link, or while parked for a ping. What the calls before left in their variables
\* is gone.
Begin ==
  /\ pc = "off"
  /\ pc' = "power" /\ ok' = FALSE
  /\ stack' \in {<<"connect", "linked">>, <<"ping", "shutdown">>}
  /\ item' = Nothing /\ event' = LOGIN /\ tries' = 0 /\ rounds' = 0
  /\ reply' = Nothing
  /\ UNCHANGED <<modemVars, incoming, login, packets, next, histVars>>

\* Not a caller of its own: initCell() returns without the modem.
GivesUp == pc' = stack[2] /\ ok' = FALSE /\ stack' = SubSeq(stack, 3, Len(stack))

\* CellSIMCOM::begin(): a pulse on the power key, and the line is flushed. The modem, which
\* end() has switched off, starts with nothing it had; or had started at the pulse before.
PowerUp ==
  /\ pc = "power" /\ rounds < MaxAttempts
  /\ rounds' = rounds + 1
  /\ rx' = << >> /\ sock' = FALSE /\ air' = {} /\ handled' = {}
  /\ \/ todo' = <<Command("check", Nothing)>>
     \/ rounds > 0 /\ todo' = Append(todo, Command("check", Nothing))
  /\ Call("wait", "powered")
  /\ UNCHANGED <<lineVars, ok, item, event, tries, login, packets, next, sent, confirmed>>

NoModem ==
  /\ pc = "power" /\ rounds = MaxAttempts
  /\ GivesUp
  /\ UNCHANGED <<modemVars, lineVars, rounds>> /\ Kept

\* ATE0, and ATI for the model.
Echo ==
  /\ pc \in {"powered", "echoed"}
  /\ IF ~ok THEN Goto("power") /\ UNCHANGED <<modemVars, lineVars, ok>>
     ELSE IF pc = "powered" THEN Issue("set", Nothing, "wait", "echoed")
     ELSE Issue("model", Nothing, "wait", "identified")
  /\ UNCHANGED rounds /\ Kept

\* An answer without the model, one that was meant for ATE0 say, is taken for a SIM7070's,
\* whose commands for a socket this modem does not know: no reply will come to the log-in.
Identified ==
  /\ pc = "identified"
  /\ CASE ~ok -> Goto("power") /\ UNCHANGED <<ok, rounds>>
       [] ok /\ reply = SIM7670 -> Goto("sim") /\ rounds' = 0 /\ UNCHANGED ok
       [] OTHER -> GivesUp /\ UNCHANGED rounds
  /\ UNCHANGED <<modemVars, lineVars>> /\ Kept

\* checkSIM(), whose result is only printed.
AskSim ==
  /\ pc = "sim"
  /\ rounds' = IF rounds < MaxAttempts THEN rounds + 1 ELSE 0
  /\ IF rounds < MaxAttempts THEN Issue("sim", Nothing, "simwait", "simasked")
     ELSE Issue("set", Nothing, "wait", "simagain")
  /\ Kept

SimAsked ==
  /\ pc = "simasked"
  /\ IF ok THEN Goto("search") /\ rounds' = 0 ELSE Goto("sim") /\ UNCHANGED rounds
  /\ UNCHANGED <<modemVars, lineVars, ok>> /\ Kept

AskSimAgain ==
  /\ pc = "simagain"
  /\ Issue("sim", Nothing, "simwait", "search")
  /\ UNCHANGED rounds /\ Kept

\* setup(): in service, then registered, before its time is over.
Search ==
  /\ pc \in {"search", "register"}
  /\ IF pc = "search" THEN Issue("system", Nothing, "syswait", "searched")
     ELSE Issue("reg", Nothing, "regwait", "registered")
  /\ UNCHANGED rounds /\ Kept

TryAgain(label) ==
  /\ rounds < MaxAttempts
  /\ rounds' = rounds + 1
  /\ Goto(label) /\ UNCHANGED ok

Searched ==
  /\ pc = "searched"
  /\ \/ reply = Online /\ Goto("register") /\ UNCHANGED <<ok, rounds>>
     \/ (reply = NoService \/ ~ok) /\ TryAgain("search")
     \/ reply # Online /\ ~((reply = NoService \/ ~ok) /\ rounds < MaxAttempts)
        /\ GivesUp /\ UNCHANGED rounds
  /\ UNCHANGED <<modemVars, lineVars>> /\ Kept

Registers ==
  /\ pc = "registered"
  /\ \/ reply = Registered /\ Goto("network") /\ rounds' = 0 /\ UNCHANGED ok
     \/ reply # Registered /\ TryAgain("register")
     \/ reply # Registered /\ rounds = MaxAttempts /\ GivesUp /\ UNCHANGED rounds
  /\ UNCHANGED <<modemVars, lineVars>> /\ Kept

\* AT+CGDCONT, AT+NETOPEN, and for the log AT+COPS?, AT+CCLK?, AT+IPADDR: go on regardless.
OpenNetwork ==
  /\ pc = "network"
  /\ IF rounds < Unheeded
     THEN rounds' = rounds + 1 /\ Issue("set", Nothing, "wait", "network")
     ELSE rounds' = 0 /\ Return(TRUE) /\ UNCHANGED <<modemVars, lineVars>>
  /\ Kept

-----------------------------------------------------------------------------
(* TeleClientUDP::connect(): full at "connect", quick at "quick".           *)

ConnectClose ==
  /\ pc = "connect"
  /\ event' = IF login THEN RECONNECT ELSE LOGIN
  /\ packets' = 0 /\ rounds' = 0
  /\ Issue("close", Nothing, "wait", "reopen")
  /\ UNCHANGED <<item, tries, login, next, histVars>>

\* CellUDP::open() of a host asks for its address first; the name will do as well.
Open(ret) ==
  /\ todo' = Append(todo, Command("set", Nothing))
  /\ pc' = "wait" /\ stack' = <<"dial", ret>> \o stack
  /\ UNCHANGED <<sock, rx, air, lineVars, ok>>

ConnectOpen ==
  /\ pc = "reopen"
  /\ IF rounds < MaxAttempts
     THEN rounds' = rounds + 1 /\ Open("opened")
     ELSE rounds' = rounds /\ Return(FALSE) /\ UNCHANGED <<modemVars, lineVars>>
  /\ UNCHANGED <<item, event, tries, login, packets, next, histVars>>

\* The socket is open: log in. If not, go on only with a modem that answers.
ConnectOpened ==
  /\ pc = "opened"
  /\ IF ok
     THEN tries' = 0 /\ Call("notify", "loggedin") /\ UNCHANGED <<modemVars, lineVars, ok>>
     ELSE tries' = tries /\ Issue("check", Nothing, "wait", "goon")
  /\ UNCHANGED <<item, event, rounds, login, packets, next, histVars>>

ConnectNotified ==
  /\ pc = "loggedin"
  /\ IF ok THEN Return(TRUE) /\ UNCHANGED <<modemVars, lineVars>>
     ELSE Issue("check", Nothing, "wait", "goclose")
  /\ UNCHANGED <<sessionVars, histVars>>

ConnectChecked ==
  /\ pc \in {"goon", "goclose"}
  /\ \/ ~ok /\ Return(FALSE) /\ UNCHANGED <<modemVars, lineVars>>
     \/ ok /\ pc = "goon" /\ Goto("reopen") /\ UNCHANGED <<modemVars, lineVars, ok>>
     \/ ok /\ pc = "goclose" /\ Issue("close", Nothing, "wait", "reopen")
  /\ UNCHANGED <<sessionVars, histVars>>

\* connect(true) and the renewal of the socket: close, open, without a word to the server.
QuickClose ==
  /\ pc = "quick"
  /\ Issue("close", Nothing, "wait", "dial")
  /\ UNCHANGED <<sessionVars, histVars>>

Dial ==
  /\ pc = "dial"
  /\ todo' = Append(todo, Command("open", Nothing))
  /\ pc' = "wait"
  /\ UNCHANGED <<stack, sock, rx, air, lineVars, ok, sessionVars, histVars>>

-----------------------------------------------------------------------------
(* telemetry().                                                            *)

\* The result of initCell() && connect(), or of the watchdog's connect().
Linked ==
  /\ pc = "linked"
  /\ Goto(IF ok THEN "live" ELSE "off")
  /\ UNCHANGED <<modemVars, lineVars, ok, sessionVars, histVars>>

\* Slip: one packet too many.
TransmitLate ==
  /\ pc = "live" /\ next \in Packet
  /\ item' = next /\ next' = next + 1
  /\ IF packets + 1 > ReopenAfter
     THEN packets' = 0 /\ Call("quick", "transmit")
     ELSE packets' = packets + 1 /\ Goto("transmit")
  /\ UNCHANGED <<modemVars, lineVars, ok, event, tries, rounds, login, histVars>>
\* TeleClientUDP::transmit(): first the socket, every so many packets.
Transmit ==
  /\ pc = "live" /\ next \in Packet
  /\ item' = next /\ next' = next + 1
  /\ IF packets + 1 >= ReopenAfter
     THEN packets' = 0 /\ Call("quick", "transmit")
     ELSE packets' = packets + 1 /\ Goto("transmit")
  /\ UNCHANGED <<modemVars, lineVars, ok, event, tries, rounds, login, histVars>>

TransmitSend ==
  /\ pc = "transmit"
  /\ Issue("send", item, "sendwait", "transmitted")
  /\ UNCHANGED <<sessionVars, histVars>>

\* A confirmed packet is done with; else it is spooled and the socket opened anew, unless
\* the errors have come to their limit.
Transmitted ==
  /\ pc = "transmitted"
  /\ confirmed' = IF ok THEN confirmed \cup {item} ELSE confirmed
  /\ \/ Goto("inbound")
     \/ ~ok /\ Call("quick", "inbound")
  /\ UNCHANGED <<modemVars, lineVars, ok, sessionVars, sent, handled>>

\* TeleClientUDP::inbound(): what comes is for the watchdog only. Then cell.check().
Inbound ==
  /\ pc = "read" /\ Head(stack) = "inbound"
  /\ incoming' = FALSE /\ reply' = Nothing
  /\ todo' = Append(todo, Command("check", Nothing))
  /\ pc' = "wait" /\ stack' = <<"checked">> \o Tail(stack)
  /\ UNCHANGED <<sock, rx, air, ok, sessionVars, histVars>>

\* Not in service, or too many errors, which module Telemetry counts: initCell() powers up
\* again. Or the server has not been heard of for long, and the watchdog connects.
Checked ==
  /\ pc = "checked"
  /\ \/ Goto("off")
     \/ ok /\ Goto("live")
     \/ ok /\ Call("connect", "synced")
  /\ UNCHANGED <<modemVars, lineVars, ok, sessionVars, histVars>>

Synced ==
  /\ pc = "synced"
  /\ \/ Goto("live")
     \/ ~ok /\ Goto("off")
  /\ UNCHANGED <<modemVars, lineVars, ok, sessionVars, histVars>>

\* Stand-by: shutdown() logs out, the modem goes off, reset().
Park ==
  /\ pc = "live"
  /\ Goto("shutdown")
  /\ UNCHANGED <<modemVars, lineVars, ok, sessionVars, histVars>>

Shutdown ==
  /\ pc = "shutdown"
  /\ IF login
     THEN tries' = 0 /\ event' = LOGOUT /\ pc' = "notify" /\ stack' = <<"reset">>
     ELSE Goto("reset") /\ UNCHANGED <<tries, event>>
  /\ UNCHANGED <<modemVars, lineVars, ok, item, rounds, login, packets, next, histVars>>

Reset ==
  /\ pc = "reset"
  /\ login' = FALSE
  /\ Goto("off")
  /\ UNCHANGED <<modemVars, lineVars, ok, item, event, tries, rounds, packets, next, histVars>>

\* TeleClientUDP::ping().
PingOpen ==
  /\ pc = "ping"
  /\ event' = PING
  /\ IF rounds < MaxAttempts
     THEN rounds' = rounds + 1 /\ Open("pingopened")
     ELSE rounds' = rounds /\ Return(FALSE) /\ UNCHANGED <<modemVars, lineVars>>
  /\ UNCHANGED <<item, tries, login, packets, next, histVars>>

PingOpened ==
  /\ pc = "pingopened"
  /\ IF ok THEN tries' = 0 /\ Call("notify", "pinged")
     ELSE Goto("ping") /\ UNCHANGED tries
  /\ UNCHANGED <<modemVars, lineVars, ok, item, event, rounds, login, packets, next, histVars>>

Pinged ==
  /\ pc = "pinged"
  /\ IF ok THEN Return(TRUE) /\ UNCHANGED <<modemVars, lineVars>>
     ELSE Issue("close", Nothing, "wait", "ping")
  /\ UNCHANGED <<sessionVars, histVars>>

-----------------------------------------------------------------------------
Line == Match \/ MatchAndMore \/ Timeout
Client ==
  \/ PowerUp \/ NoModem \/ Echo \/ Identified \/ AskSim \/ SimAsked \/ AskSimAgain
  \/ Search \/ Searched \/ Registers \/ OpenNetwork
  \/ Notify \/ NotifySent \/ Receive \/ ReadReply \/ Answered
  \/ ConnectClose \/ ConnectOpen \/ ConnectOpened \/ ConnectNotified \/ ConnectChecked
  \/ QuickClose \/ Dial
  \/ Transmit \/ TransmitSend \/ Transmitted \/ Inbound \/ Shutdown \/ Reset
  \/ PingOpen \/ PingOpened \/ Pinged
Verdict == Linked \/ Checked \/ Synced
World == ModemWorks \/ ReplyArrives \/ SocketDrops

Next == Line \/ Client \/ Verdict \/ Begin \/ Park \/ World

Spec == Init /\ [][Next]_vars

\* A call under way goes on, and so does a modem that has read a command. That a timeout
\* waits for the modem is the bound MaxBehind.
FairSpec == Spec /\ WF_vars(Line \/ Client \/ Verdict) /\ WF_vars(ModemWorks)

-----------------------------------------------------------------------------
Labels == Waits \cup {"off", "live", "power", "powered", "echoed", "identified", "sim",
  "simasked", "simagain", "search", "searched", "register", "registered", "network", "notify", "notified", "receive",
  "read", "answered", "connect", "reopen", "opened", "loggedin", "goon", "goclose", "quick",
  "dial", "linked", "transmit", "transmitted", "inbound", "checked", "synced",
  "shutdown", "reset", "ping", "pingopened", "pinged"}

TypeOK ==
  /\ \A n \in DOMAIN todo : todo[n].data \in Packet \cup Event \cup {Nothing}
  /\ rx \in Seq(Token) /\ reply \in Told
  /\ sock \in BOOLEAN /\ incoming \in BOOLEAN /\ ok \in BOOLEAN /\ login \in BOOLEAN
  /\ air \subseteq Event
  /\ pc \in Labels /\ \A n \in DOMAIN stack : stack[n] \in Labels
  /\ item \in Packet \cup {Nothing} /\ event \in Event
  /\ tries \in 0 .. MaxAttempts /\ rounds \in 0 .. Unheeded + MaxAttempts
  /\ packets \in 0 .. ReopenAfter - 1 /\ next \in 1 .. MaxPackets + 1

\* No answer is made up: when notify() takes an event for answered, the server has handled
\* it since the modem was powered up, however late or doubled the replies come.
AnswersGrounded == pc = "answered" => event \in handled

\* Every retry of connect(), notify() and ping() ends: whatever the modem, the network and
\* the server do, the task gets back to its loop, or gives the modem up.
CallsReturn == (pc \notin {"off", "live"}) ~> (pc \in {"off", "live"})

\* transmit() returns "whether the modem confirmed AT+CIPSEND".
ConfirmedIsSent == confirmed \subseteq sent

\* "Modem auto-detected via ATI (SIM7670G-LN on this unit)."
ModelRecognised == pc = "identified" /\ ok => reply = SIM7670

=============================================================================
