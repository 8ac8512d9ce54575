--------------------------- MODULE ModemLinkProofs ---------------------------
(***************************************************************************)
(* An event is taken for answered only when the server has handled it, for *)
(* every number of attempts, of packets, and of answers that come too late *)
(* or run together.                                                        *)
(***************************************************************************)
EXTENDS ModemLink, SequenceTheorems, WellFoundedInduction, TLAPS

-----------------------------------------------------------------------------
(* The inductive invariant, by parts.                                      *)

SetUp == {"power", "powered", "echoed", "identified", "sim", "simasked", "simagain", "search",
  "searched", "register", "registered", "network"}
Connecting == {"connect", "reopen", "opened", "loggedin", "goon", "goclose"}
Notifying == {"notify", "notified", "receive", "answered"}
Pinging == {"ping", "pingopened", "pinged"}
Awaiting == {"powered", "echoed", "identified", "simasked", "simagain", "search", "searched",
  "registered", "network", "notified", "read", "reopen", "goon", "goclose", "dial", "opened",
  "pingopened", "ping", "transmit", "inbound", "transmitted", "checked"}
Outermost == {"off", "live", "linked", "transmit", "transmitted", "inbound", "checked", "synced",
  "shutdown", "reset"}

\* Where what is done at a label may return to.
Under(label) ==
  CASE label \in Waits -> Awaiting
    [] label \in SetUp -> {"connect", "ping"}
    [] label \in Connecting -> {"linked", "synced"}
    [] label \in Notifying -> {"loggedin", "pinged", "reset"}
    [] label \in Pinging -> {"shutdown"}
    [] label = "read" -> {"receive", "inbound"}
    [] label = "quick" -> {"transmit", "inbound"}
    [] label = "dial" -> {"opened", "pingopened", "transmit", "inbound"}
    [] OTHER -> {}

\* Calls under way are nested as in the source.
Nested(label, frames) ==
  IF frames = << >> THEN Under(label) = {}
  ELSE /\ frames[1] \in Under(label)
       /\ \A n \in 1 .. Len(frames) - 1 : frames[n + 1] \in Under(frames[n])
       /\ Under(frames[Len(frames)]) = {}

\* Every event a token tells of is one of these.
Grounded(tokens, events) ==
  \A n \in 1 .. Len(tokens) : tokens[n].tells \in Event => tokens[n].tells \in events

Kind == {"open", "close", "check", "set", "model", "sim", "system", "reg", "send", "data"}
Commands == [kind : Kind, data : Packet \cup Event \cup {Nothing}]

Lines == todo \in Seq(Commands) /\ stack \in Seq(Labels)

\* While initCell() sets the modem up, from the first pulse on, there is no socket and nothing
\* on its way that tells of an event; and what it reads never does.
Caller(label, frames) == IF label \in Waits THEN frames[1] ELSE label
Loud == {"open", "send", "data"}
Silent(commands) == \A n \in 1 .. Len(commands) : commands[n].kind \notin Loud
Quiet == ~sock /\ air = {} /\ Grounded(rx, {}) /\ Silent(todo)
SetUpIsQuiet ==
  Caller(pc, stack) \in SetUp =>
    /\ reply \notin Event
    /\ ~(pc = "power" /\ rounds = 0) => Quiet

\* Replies on their way, in the driver's buffer and in the client's are to handled events.
RepliesGrounded ==
  /\ air \subseteq handled /\ Grounded(rx, handled)
  /\ reply \in Event => reply \in handled

IInv ==
  /\ TypeOK /\ Lines /\ Nested(pc, stack)
  /\ SetUpIsQuiet /\ RepliesGrounded /\ AnswersGrounded

-----------------------------------------------------------------------------
(* Tokens.                                                                 *)

\* What the assumption says, and what a token may tell.
LEMMA Constants ==
  /\ MaxPackets \in Nat /\ MaxBehind \in Nat /\ MaxQueued \in Nat
  /\ ReopenAfter \in Nat \ {0} /\ MaxAttempts \in Nat \ {0} /\ Unheeded \in Nat \ {0}
  /\ Nothing \in Told /\ Event \subseteq Told /\ Nothing \notin Event
  /\ {SIM7670, Online, NoService, Registered, Searching} \subseteq Told
  /\ {SIM7670, Online, NoService, Registered, Searching} \cap Event = {}
BY LinkAssumption DEF Told, Event, Nothing, SIM7670, Online, NoService, Registered, Searching,
   LOGIN, LOGOUT, RECONNECT, PING

\* What there is of the sequences of the state.
LEMMA Sequences ==
  ASSUME NEW S, NEW s \in Seq(S)
  PROVE  /\ Len(s) \in Nat /\ DOMAIN s = 1 .. Len(s)
         /\ \A n \in 1 .. Len(s) : s[n] \in S
         /\ s # << >> => Len(s) > 0 /\ Head(s) = s[1] /\ s[1] \in S /\ 1 \in 1 .. Len(s)
OBVIOUS

\* A part of the line tells of no event that the line does not tell of.
LEMMA GroundedPart ==
  ASSUME NEW s \in Seq(Token), NEW E, Grounded(s, E),
         NEW i \in Nat \ {0}, NEW j \in Nat, j <= Len(s)
  PROVE  SubSeq(s, i, j) \in Seq(Token) /\ Grounded(SubSeq(s, i, j), E)
<1>1. ASSUME NEW n \in 1 .. Len(SubSeq(s, i, j)), SubSeq(s, i, j)[n].tells \in Event
      PROVE  SubSeq(s, i, j)[n].tells \in E
  BY <1>1 DEF Grounded
<1> QED
  BY DEF Grounded

\* Nor do two lines run together.
LEMMA GroundedJoin ==
  ASSUME NEW s \in Seq(Token), NEW t \in Seq(Token), NEW E, Grounded(s, E), Grounded(t, E)
  PROVE  s \o t \in Seq(Token) /\ Grounded(s \o t, E)
<1>1. ASSUME NEW n \in 1 .. Len(s \o t), (s \o t)[n].tells \in Event
      PROVE  (s \o t)[n].tells \in E
  <2>1. CASE n <= Len(s)
    BY <1>1 DEF Grounded
  <2>2. CASE n > Len(s)
    BY <1>1 DEF Grounded
  <2> QED
    BY <2>1, <2>2
<1> QED
  BY DEF Grounded

\* A set of numbers that is not empty has a smallest one.
LEMMA Smallest ==
  ASSUME NEW T \in SUBSET Nat, T # {}
  PROVE  \E x \in T : \A y \in T : x <= y
<1>1. PICK x \in T : \A y \in T : <<y, x>> \notin OpToRel(<, Nat)
  BY NatLessThanWellFounded, WFMin
<1>2. ASSUME NEW y \in T
      PROVE  x <= y
  <2>1. <<y, x>> \in OpToRel(<, Nat) <=> y < x
    BY DEF OpToRel
  <2>2. ~(y < x)
    BY <1>1, <2>1, Zenon
  <2> QED
    BY <2>2
<1> QED
  BY <1>2

\* What is found in the buffer is what some token tells, or nothing.
LEMMA LookedIsTold ==
  ASSUME NEW s \in Seq(Token), NEW E, Grounded(s, E), NEW kind
  PROVE  Looked(kind, s) \in Told /\ (Looked(kind, s) \in Event => Looked(kind, s) \in E)
<1> DEFINE found == {n \in DOMAIN s : s[n].kind = kind}
<1> DEFINE first == CHOOSE n \in found : \A m \in found : n <= m
<1>1. Len(s) \in Nat /\ DOMAIN s = 1 .. Len(s) /\ \A n \in 1 .. Len(s) : s[n].tells \in Told
  <2>1. \A k \in Token : k.tells \in Told
    BY DEF Token
  <2> QED
    BY <2>1
<1>2. CASE found = {}
  <2>1. Looked(kind, s) = Nothing
    BY <1>2 DEF Looked
  <2> QED
    BY <2>1, Constants
<1>3. CASE found # {}
  <2>1. first \in found
    <3>1. found \in SUBSET Nat
      OBVIOUS
    <3>2. \E x \in found : \A y \in found : x <= y
      BY <1>3, <3>1, Smallest
    <3> QED
      BY <3>2
  <2>2. Looked(kind, s) \in {NoService, s[first].tells}
    BY <1>3 DEF Looked
  <2>3. first \in 1 .. Len(s)
    BY <2>1
  <2> HIDE DEF first, found
  <2> QED
    BY <1>1, <2>2, <2>3, Constants DEF Grounded
<1> QED
  BY <1>2, <1>3

-----------------------------------------------------------------------------
(* Calls.                                                                  *)

\* Where each group of labels may return to.
LEMMA Tables ==
  /\ \A l \in Waits : Under(l) = Awaiting
  /\ \A l \in SetUp : Under(l) = {"connect", "ping"}
  /\ \A l \in Connecting : Under(l) = {"linked", "synced"}
  /\ \A l \in Notifying : Under(l) = {"loggedin", "pinged", "reset"}
  /\ \A l \in Pinging : Under(l) = {"shutdown"}
  /\ Under("read") = {"receive", "inbound"}
  /\ Under("quick") = {"transmit", "inbound"}
  /\ Under("dial") = {"opened", "pingopened", "transmit", "inbound"}
  /\ \A l \in Outermost : Under(l) = {}
BY DEF Under, Waits, SetUp, Connecting, Notifying, Pinging, Outermost

\* What is returned to is a label at which nothing is waited for, no "answered" and no "power".
LEMMA Places ==
  /\ \A l \in Labels : Under(l) \subseteq Labels \ (Waits \cup {"answered", "power"})
  /\ Waits \cup SetUp \cup Connecting \cup Notifying \cup Pinging \cup Outermost \subseteq Labels
  /\ {"read", "quick", "dial"} \subseteq Labels
BY DEF Under, Waits, SetUp, Connecting, Notifying, Pinging, Outermost, Awaiting, Labels

\* Every wait of the set-up returns into the set-up.
LEMMA SetUpAsks ==
  ASSUME NEW w \in Waits, NEW l \in SetUp, NEW r \in SetUp \cap Awaiting
  PROVE  w \in Labels /\ r \in Under(w) /\ Under(l) = Under(r)
<1>1. Under(w) = Awaiting /\ Under(l) = {"connect", "ping"} /\ Under(r) = {"connect", "ping"}
  BY Tables
<1>2. w \in Labels
  BY Places
<1> QED
  BY <1>1, <1>2

\* On to another label of the same call.
LEMMA NestedGoto ==
  ASSUME NEW s \in Seq(Labels), NEW l, NEW m, Nested(l, s), Under(l) \subseteq Under(m),
         Under(l) = {} => Under(m) = {}
  PROVE  Nested(m, s)
BY DEF Nested

\* A call made where it belongs is nested.
LEMMA NestedCall ==
  ASSUME NEW s \in Seq(Labels), NEW l, NEW r \in Labels, Nested(r, s), r \in Under(l)
  PROVE  /\ <<r>> \o s \in Seq(Labels) /\ Nested(l, <<r>> \o s)
         /\ <<r>> \o s # << >> /\ (<<r>> \o s)[1] = r
<1> DEFINE t == <<r>> \o s
<1> HIDE DEF t
<1>1. CASE s = << >>
  BY DEF Nested
<1>2. CASE s # << >>
  BY DEF Nested
<1> QED
  BY <1>1, <1>2

\* What is left after a return is nested, too.
LEMMA NestedReturn ==
  ASSUME NEW s \in Seq(Labels), NEW l, Nested(l, s), Under(l) # {}
  PROVE  /\ s # << >> /\ s[1] \in Under(l) /\ Head(s) = s[1]
         /\ Tail(s) \in Seq(Labels) /\ Nested(s[1], Tail(s))
<1>1. /\ s # << >> /\ s[1] \in Under(l)
      /\ \A n \in 1 .. Len(s) - 1 : s[n + 1] \in Under(s[n])
      /\ Under(s[Len(s)]) = {}
  BY DEF Nested
<1> DEFINE t == Tail(s)
<1>2. /\ t \in Seq(Labels) /\ Len(t) = Len(s) - 1
      /\ \A n \in 1 .. Len(t) : t[n] = s[n + 1]
  BY <1>1
<1> HIDE DEF t
<1>3. Nested(s[1], t)
  <2>1. CASE t = << >>
    <3>1. Len(t) = 0
      BY <2>1
    <3>2. Len(s) = 1
      BY <1>2, <3>1
    <3>3. Under(s[1]) = {}
      BY <1>1, <3>2
    <3> QED
      BY <2>1, <3>3 DEF Nested
  <2>2. CASE t # << >>
    <3>1. Len(t) > 0 /\ Len(t) = Len(s) - 1 /\ \A n \in 1 .. Len(t) : t[n] = s[n + 1]
      BY <1>2, <2>2
    <3>2. t[1] \in Under(s[1])
      <4>1. 1 \in 1 .. Len(s) - 1 /\ 1 \in 1 .. Len(t)
        BY <3>1
      <4>2. s[1 + 1] \in Under(s[1])
        BY <1>1, <4>1
      <4>3. t[1] = s[1 + 1]
        BY <3>1
      <4> QED
        BY <4>2, <4>3
    <3>3. ASSUME NEW n \in 1 .. Len(t) - 1
          PROVE  t[n + 1] \in Under(t[n])
      <4>1. n \in 1 .. Len(t) /\ n + 1 \in 1 .. Len(t) /\ n + 1 \in 1 .. Len(s) - 1
        BY <3>1
      <4>2. t[n] = s[n + 1] /\ t[n + 1] = s[(n + 1) + 1]
        BY <3>1
      <4>3. s[(n + 1) + 1] \in Under(s[n + 1])
        BY <1>1, <4>1
      <4> QED
        BY <4>2, <4>3
    <3>4. Under(t[Len(t)]) = {}
      <4>1. Len(t) \in 1 .. Len(t) /\ t[Len(t)] = s[Len(t) + 1] /\ Len(t) + 1 = Len(s)
        BY <3>1
      <4> QED
        BY <1>1, <4>1
    <3> QED
      BY <2>2, <3>2, <3>3, <3>4 DEF Nested
  <2> QED
    BY <2>1, <2>2
<1> QED
  BY <1>1, <1>3 DEF t

-----------------------------------------------------------------------------
(* The modem's steps.                                                      *)

\* What the invariant says of the sequences.
LEMMA Shapes ==
  ASSUME IInv
  PROVE  /\ todo \in Seq(Commands) /\ stack \in Seq(Labels) /\ rx \in Seq(Token)
         /\ Len(todo) \in Nat /\ Len(rx) \in Nat
         /\ DOMAIN rx = 1 .. Len(rx)
         /\ \A n \in 1 .. Len(todo) : todo[n] \in Commands
         /\ todo # << >> => Head(todo) = todo[1] /\ 1 \in 1 .. Len(todo)
<1>1. todo \in Seq(Commands) /\ stack \in Seq(Labels) /\ rx \in Seq(Token)
  BY DEF IInv, Lines, TypeOK
<1> QED
  BY <1>1

\* The commands and the labels of the type invariant are those of the sequences.
LEMMA TypesOfLines ==
  ASSUME NEW c \in Seq(Commands), NEW s \in Seq(Labels)
  PROVE  /\ \A n \in DOMAIN c : c[n].data \in Packet \cup Event \cup {Nothing}
         /\ \A n \in DOMAIN s : s[n] \in Labels
<1>1. /\ \A n \in DOMAIN c : c[n] \in Commands
      /\ \A n \in DOMAIN s : s[n] \in Labels
  OBVIOUS
<1> QED
  BY <1>1 DEF Commands

\* The modem answers the first command it has read. Only one of three kinds has an effect on the
\* socket and on what is on its way.
LEMMA ModemAnswers ==
  ASSUME IInv, NEW tokens \in Seq(Token), Grounded(tokens, {}), todo # << >>, Answer(tokens),
         sock' \in BOOLEAN, air' \subseteq Event, air' \subseteq handled',
         handled \subseteq handled',
         Head(todo).kind \notin Loud => (sock' => sock) /\ air' = air,
         UNCHANGED <<lineVars, callVars, sessionVars>>
  PROVE  IInv'
<1>1. /\ todo \in Seq(Commands) /\ stack \in Seq(Labels) /\ rx \in Seq(Token)
      /\ Head(todo) = todo[1] /\ 1 \in 1 .. Len(todo)
  BY Shapes
<1>2. /\ todo' \in Seq(Commands) /\ Len(todo') = Len(todo) - 1
      /\ \A n \in 1 .. Len(todo') : todo'[n] = todo[n + 1]
  BY <1>1 DEF Answer
<1>3. rx' = rx \o tokens
  BY DEF Answer
<1>4. /\ reply' = reply /\ incoming' = incoming /\ pc' = pc /\ stack' = stack /\ ok' = ok
      /\ UNCHANGED <<item, event, tries, rounds, login, packets, next>>
  BY DEF lineVars, callVars, sessionVars
<1>5. rx' \in Seq(Token) /\ Grounded(rx', handled')
  <2>1. Grounded(rx, handled') /\ Grounded(tokens, handled')
    BY DEF IInv, RepliesGrounded, Grounded
  <2> QED
    BY <1>1, <1>3, <2>1, GroundedJoin
<1>6. TypeOK'
  BY <1>1, <1>2, <1>4, <1>5, TypesOfLines DEF IInv, TypeOK
<1>7. Lines' /\ Nested(pc', stack') /\ AnswersGrounded'
  BY <1>2, <1>4 DEF IInv, Lines, AnswersGrounded
<1>8. RepliesGrounded'
  BY <1>4, <1>5 DEF IInv, RepliesGrounded
<1>9. Quiet => Quiet'
  <2> SUFFICES ASSUME Quiet
               PROVE  Quiet'
    OBVIOUS
  <2>1. Head(todo).kind \notin Loud
    BY DEF Quiet, Silent
  <2>2. ~sock' /\ air' = {}
    BY <2>1 DEF Quiet
  <2>3. Grounded(rx', {})
    BY <1>1, <1>3, GroundedJoin DEF Quiet
  <2>4. Silent(todo')
    <3> SUFFICES ASSUME NEW n \in 1 .. Len(todo')
                 PROVE  todo'[n].kind \notin Loud
      BY DEF Silent
    <3>1. n + 1 \in 1 .. Len(todo) /\ todo'[n] = todo[n + 1]
      BY <1>2
    <3> QED
      BY <3>1 DEF Quiet, Silent
  <2> QED
    BY <2>2, <2>3, <2>4 DEF Quiet
<1>10. SetUpIsQuiet'
  BY <1>4, <1>9 DEF IInv, SetUpIsQuiet
<1> QED
  BY <1>6, <1>7, <1>8, <1>10 DEF IInv

\* What the modem answers tells of no event.
LEMMA Answers ==
  /\ \A k \in {"OK", "ERROR", "PROMPT", "SENT"} :
       <<Plain(k)>> \in Seq(Token) /\ Grounded(<<Plain(k)>>, {})
  /\ <<Plain("OK"), Plain("OK")>> \in Seq(Token) /\ Grounded(<<Plain("OK"), Plain("OK")>>, {})
  /\ \A k \in {"MODEL", "READY", "SYSTEM", "REG"},
        i \in {SIM7670, Online, NoService, Registered, Searching, Nothing} :
       /\ <<Info(k, i), Plain("OK")>> \in Seq(Token)
       /\ Grounded(<<Info(k, i), Plain("OK")>>, {})
  /\ <<Plain("READY"), Plain("OK")>> \in Seq(Token)
  /\ Grounded(<<Plain("READY"), Plain("OK")>>, {})
<1>1. /\ \A k \in {"OK", "ERROR", "PROMPT", "SENT", "READY"} :
           Plain(k) \in Token /\ Plain(k).tells \notin Event
      /\ \A k \in {"MODEL", "READY", "SYSTEM", "REG"},
            i \in {SIM7670, Online, NoService, Registered, Searching, Nothing} :
           Info(k, i) \in Token /\ Info(k, i).tells \notin Event
  BY Constants DEF Plain, Info, Token
<1>2. ASSUME NEW a \in Token, a.tells \notin Event
      PROVE  <<a>> \in Seq(Token) /\ Grounded(<<a>>, {})
  BY <1>2 DEF Grounded
<1>3. ASSUME NEW a \in Token, NEW b \in Token, a.tells \notin Event, b.tells \notin Event
      PROVE  <<a, b>> \in Seq(Token) /\ Grounded(<<a, b>>, {})
  BY <1>3 DEF Grounded
<1> QED
  BY <1>1, <1>2, <1>3

\* The prompt asks for the datagram.
LEMMA ModemPromptsStep ==
  ASSUME IInv, ModemPrompts
  PROVE  IInv'
<1> DEFINE d == Command("data", Head(todo).data)
<1> DEFINE more == Tail(todo)
<1>1. /\ todo \in Seq(Commands) /\ stack \in Seq(Labels) /\ rx \in Seq(Token) /\ todo # << >>
      /\ Head(todo) = todo[1] /\ todo[1] \in Commands
      /\ todo[1].kind = "send" /\ 1 \in 1 .. Len(todo)
  BY Shapes DEF ModemPrompts, Asked
<1>2. d \in Commands
  BY <1>1 DEF Commands, Command, Kind
<1>3. todo' \in Seq(Commands)
  <2>1. more \in Seq(Commands)
    BY <1>1
  <2>2. <<d>> \in Seq(Commands)
    BY <1>2
  <2>3. todo' = <<d>> \o more
    BY DEF ModemPrompts
  <2> HIDE DEF d, more
  <2> QED
    BY <2>1, <2>2, <2>3
<1>4. ~Quiet
  BY <1>1 DEF Quiet, Silent, Loud
<1>5. /\ reply' = reply /\ incoming' = incoming /\ pc' = pc /\ stack' = stack /\ ok' = ok
      /\ UNCHANGED <<sock, air, handled>>
      /\ UNCHANGED <<item, event, tries, rounds, login, packets, next>>
  BY DEF ModemPrompts, lineVars, callVars, sessionVars, histVars
<1>6. rx' \in Seq(Token) /\ Grounded(rx', handled')
  <2>1. rx' = rx \o <<Plain("PROMPT")>>
    BY Answers DEF ModemPrompts
  <2>2. <<Plain("PROMPT")>> \in Seq(Token) /\ Grounded(<<Plain("PROMPT")>>, handled')
    BY Answers DEF Grounded
  <2>3. Grounded(rx, handled')
    BY <1>5 DEF IInv, RepliesGrounded
  <2> QED
    BY <1>1, <2>1, <2>2, <2>3, GroundedJoin
<1>7. TypeOK'
  BY <1>1, <1>3, <1>5, <1>6, TypesOfLines DEF IInv, TypeOK
<1>8. Lines' /\ Nested(pc', stack') /\ AnswersGrounded'
  BY <1>3, <1>5 DEF IInv, Lines, AnswersGrounded
<1>9. RepliesGrounded'
  BY <1>5, <1>6 DEF IInv, RepliesGrounded
<1>10. SetUpIsQuiet'
  BY <1>4, <1>5 DEF IInv, SetUpIsQuiet
<1> QED
  BY <1>7, <1>8, <1>9, <1>10 DEF IInv

\* The modem prompts, answers, sends or refuses.
LEMMA ModemStep ==
  ASSUME IInv, ModemWorks
  PROVE  IInv'
<1> USE DEF Asked, modemVars, histVars
<1>1. sock \in BOOLEAN /\ air \subseteq Event /\ air \subseteq handled
  BY DEF IInv, TypeOK, RepliesGrounded
<1>2. CASE ModemOpens
  <2>1. todo # << >> /\ Head(todo).kind \in Loud
    BY <1>2 DEF ModemOpens, Loud
  <2> QED
    BY <1>1, <1>2, <2>1, ModemAnswers, Answers DEF ModemOpens
<1>3. CASE ModemCloses
  BY <1>1, <1>3, ModemAnswers, Answers DEF ModemCloses
<1>4. CASE ModemChecked
  BY <1>1, <1>4, ModemAnswers, Answers DEF ModemChecked
<1>5. CASE ModemSets
  BY <1>1, <1>5, ModemAnswers, Answers DEF ModemSets
<1>6. CASE ModemTells
  BY <1>1, <1>6, ModemAnswers, Answers DEF ModemTells
<1>7. CASE ModemPrompts
  BY <1>7, ModemPromptsStep
<1>8. CASE ModemSends
  BY <1>1, <1>8, ModemAnswers, Answers DEF ModemSends, Loud
<1>9. CASE ModemRefuses
  BY <1>1, <1>9, ModemAnswers, Answers DEF ModemRefuses
<1> QED
  BY <1>2, <1>3, <1>4, <1>5, <1>6, <1>7, <1>8, <1>9 DEF ModemWorks

\* Replies come in, of which there are none while initCell() is at work, and sockets close.
LEMMA WorldStep ==
  ASSUME IInv, ReplyArrives \/ SocketDrops
  PROVE  IInv'
<1>1. /\ todo \in Seq(Commands) /\ stack \in Seq(Labels) /\ rx \in Seq(Token)
      /\ air \subseteq Event /\ air \subseteq handled
  BY Shapes DEF IInv, TypeOK, RepliesGrounded
<1>2. /\ reply' = reply /\ incoming' = incoming /\ pc' = pc /\ stack' = stack /\ ok' = ok
      /\ UNCHANGED <<todo, handled>>
      /\ UNCHANGED <<item, event, tries, rounds, login, packets, next>>
  BY DEF ReplyArrives, SocketDrops, lineVars, callVars, sessionVars, histVars
<1>3. CASE ReplyArrives
  <2>1. PICK e \in air :
          rx' = Append(rx, Info("IPD", e)) /\ air' = air \ {e} /\ sock' = sock /\ sock
    BY <1>3 DEF ReplyArrives
  <2>2. rx' \in Seq(Token) /\ Grounded(rx', handled')
    <3>1. Info("IPD", e) \in Token /\ Info("IPD", e).tells = e
      BY <1>1, Constants DEF Info, Token
    <3>2. <<Info("IPD", e)>> \in Seq(Token) /\ Grounded(<<Info("IPD", e)>>, handled')
      BY <1>1, <1>2, <3>1 DEF Grounded
    <3>3. rx' = rx \o <<Info("IPD", e)>>
      BY <2>1
    <3>4. Grounded(rx, handled')
      BY <1>2 DEF IInv, RepliesGrounded
    <3> QED
      BY <1>1, <3>2, <3>3, <3>4, GroundedJoin
  <2>3. TypeOK' /\ RepliesGrounded' /\ AnswersGrounded' /\ Lines' /\ Nested(pc', stack')
    BY <1>2, <2>1, <2>2 DEF IInv, TypeOK, RepliesGrounded, AnswersGrounded, Lines
  <2>4. SetUpIsQuiet'
    BY <1>2 DEF IInv, SetUpIsQuiet, Quiet
  <2> QED
    BY <2>3, <2>4 DEF IInv
<1>4. CASE SocketDrops
  <2>1. sock' = FALSE /\ UNCHANGED <<rx, air>>
    BY <1>4 DEF SocketDrops
  <2>2. TypeOK' /\ RepliesGrounded' /\ AnswersGrounded' /\ Lines' /\ Nested(pc', stack')
    BY <1>2, <2>1 DEF IInv, TypeOK, RepliesGrounded, AnswersGrounded, Lines
  <2>3. SetUpIsQuiet'
    BY <1>2, <2>1 DEF IInv, SetUpIsQuiet, Quiet
  <2> QED
    BY <2>2, <2>3 DEF IInv
<1> QED
  BY <1>3, <1>4

-----------------------------------------------------------------------------
(* The client's moves.                                                     *)

\* A move leads to a label whose call is nested right.
Moves == pc' \in Labels /\ stack' \in Seq(Labels) /\ Nested(pc', stack')

\* A move within the call.
LEMMA Goes ==
  ASSUME IInv, NEW m \in Labels \ Waits, Goto(m), Under(pc) = Under(m)
  PROVE  Moves /\ Caller(pc', stack') = m /\ pc' = m
<1>1. stack \in Seq(Labels) /\ Nested(pc, stack)
  BY DEF IInv, Lines
<1>2. Nested(m, stack)
  BY <1>1, NestedGoto
<1> QED
  BY <1>1, <1>2 DEF Moves, Goto, Caller

\* A call: it returns to a label from which the caller could go on.
LEMMA CallsOn ==
  ASSUME IInv, NEW m \in Labels, NEW r \in Under(m),
         Under(pc) \subseteq Under(r), Under(pc) = {} => Under(r) = {},
         pc' = m, stack' = <<r>> \o stack
  PROVE  Moves /\ Caller(pc', stack') = IF m \in Waits THEN r ELSE m
<1>1. stack \in Seq(Labels) /\ Nested(pc, stack) /\ r \in Labels
  BY Places DEF IInv, Lines
<1>2. Nested(r, stack)
  BY <1>1, NestedGoto
<1> QED
  BY <1>1, <1>2, NestedCall DEF Moves, Caller

\* A return.
LEMMA ComesBack ==
  ASSUME IInv, Under(pc) # {}, pc' = Head(stack), stack' = Tail(stack)
  PROVE  /\ Moves /\ pc' \in Under(pc) /\ pc' = stack[1]
         /\ Caller(pc', stack') = pc' /\ pc' \notin {"answered", "power"}
<1>1. stack \in Seq(Labels) /\ Nested(pc, stack) /\ pc \in Labels
  BY DEF IInv, Lines, TypeOK
<1>2. /\ stack[1] \in Under(pc) /\ Head(stack) = stack[1]
      /\ Tail(stack) \in Seq(Labels) /\ Nested(stack[1], Tail(stack))
  BY <1>1, NestedReturn
<1>3. stack[1] \in Labels /\ stack[1] \notin Waits /\ stack[1] \notin {"answered", "power"}
  BY <1>1, <1>2, Places
<1> QED
  BY <1>2, <1>3 DEF Moves, Caller

\* Two frames pushed at once are pushed one after the other.
LEMMA TwoFrames ==
  ASSUME NEW s \in Seq(Labels), NEW a \in Labels, NEW b \in Labels
  PROVE  <<a, b>> \o s = <<a>> \o (<<b>> \o s)
<1>1. <<a>> \in Seq(Labels) /\ <<b>> \in Seq(Labels) /\ <<a>> \o <<b>> = <<a, b>>
  <2> DEFINE one == <<a>>
  <2> DEFINE other == <<b>>
  <2> DEFINE both == <<a, b>>
  <2>1. /\ one \in Seq(Labels) /\ other \in Seq(Labels) /\ both \in Seq(Labels)
        /\ Len(one) = 1 /\ Len(other) = 1 /\ Len(both) = 2
        /\ one[1] = a /\ other[1] = b /\ both[1] = a /\ both[2] = b
    OBVIOUS
  <2> HIDE DEF one, other, both
  <2>2. /\ one \o other \in Seq(Labels)
        /\ Len(one \o other) = Len(one) + Len(other)
        /\ \A n \in 1 .. Len(one) + Len(other) :
             (one \o other)[n] = IF n <= Len(one) THEN one[n] ELSE other[n - Len(one)]
    BY <2>1, ConcatProperties
  <2>3. one \o other = both
    BY <2>1, <2>2
  <2> QED
    BY <2>1, <2>3 DEF both
<1>2. (<<a>> \o <<b>>) \o s = <<a>> \o (<<b>> \o s)
  OBVIOUS
<1> QED
  BY <1>1, <1>2

\* Two calls at once.
LEMMA CallsTwo ==
  ASSUME IInv, NEW m \in Waits, NEW r \in Under(m), NEW b \in Under(r), Under(pc) = Under(b),
         pc' = m, stack' = <<r, b>> \o stack
  PROVE  Moves /\ Caller(pc', stack') = r
<1>1. stack \in Seq(Labels) /\ Nested(pc, stack) /\ m \in Labels
  BY Places DEF IInv, Lines
<1>2. r \in Labels /\ b \in Labels
  BY Places
<1>3. Nested(b, stack)
  BY <1>1, NestedGoto
<1> DEFINE under == <<b>> \o stack
<1>4. under \in Seq(Labels) /\ Nested(r, under)
  BY <1>1, <1>2, <1>3, NestedCall
<1>5. stack' = <<r>> \o under
  BY <1>1, <1>2, TwoFrames
<1> HIDE DEF under
<1>6. <<r>> \o under \in Seq(Labels) /\ Nested(m, <<r>> \o under) /\ (<<r>> \o under)[1] = r
  BY <1>2, <1>4, NestedCall
<1> QED
  BY <1>1, <1>5, <1>6 DEF Moves, Caller

\* initCell() returns, and its caller too.
LEMMA GivingUp ==
  ASSUME IInv, pc \in SetUp, GivesUp
  PROVE  Moves /\ Caller(pc', stack') \notin SetUp /\ pc' # "answered"
<1>1. stack \in Seq(Labels) /\ Nested(pc, stack) /\ Under(pc) = {"connect", "ping"}
  BY Tables DEF IInv, Lines
<1> DEFINE t == Tail(stack)
<1>2. /\ stack # << >> /\ stack[1] \in {"connect", "ping"}
      /\ t \in Seq(Labels) /\ Nested(stack[1], t)
  BY <1>1, NestedReturn
<1>3. Under(stack[1]) \in {{"linked", "synced"}, {"shutdown"}}
  BY <1>2, Tables DEF Connecting, Pinging
<1> DEFINE u == Tail(t)
<1>4. /\ t # << >> /\ t[1] \in {"linked", "synced", "shutdown"}
      /\ u \in Seq(Labels) /\ Nested(t[1], u)
  <2> HIDE DEF t
  <2> QED
    BY <1>2, <1>3, NestedReturn
<1>5. Len(stack) \in Nat /\ Len(stack) > 1 /\ t[1] = stack[2]
  <2>1. Len(stack) \in Nat /\ Len(t) = Len(stack) - 1 /\ \A n \in 1 .. Len(t) : t[n] = stack[n + 1]
    BY <1>2
  <2>2. Len(t) > 0
    BY <1>4
  <2> HIDE DEF t
  <2>3. Len(stack) > 1 /\ 1 \in 1 .. Len(t)
    BY <2>1, <2>2
  <2> QED
    BY <2>1, <2>3
<1>6. pc' = t[1] /\ stack' = u
  BY SMTT(30), <1>5 DEF GivesUp
<1> HIDE DEF t, u
<1>7. t[1] \in Labels /\ t[1] \notin Waits /\ t[1] \notin SetUp /\ t[1] # "answered"
  BY <1>4 DEF Labels, Waits, SetUp
<1> QED
  BY <1>4, <1>6, <1>7 DEF Moves, Caller

-----------------------------------------------------------------------------
(* The client's steps.                                                     *)

Data == Packet \cup Event \cup {Nothing}

\* At most a command of one of some kinds is written.
Writes(kinds) ==
  \/ todo' = todo
  \/ \E k \in kinds, d \in Data : todo' = Append(todo, Command(k, d))

\* What is written are commands; and none that is loud if none is meant to be.
LEMMA Written ==
  ASSUME IInv, NEW K \in SUBSET Kind, Writes(K)
  PROVE  /\ todo' \in Seq(Commands)
         /\ Silent(todo) /\ K \cap Loud = {} => Silent(todo')
<1>1. todo \in Seq(Commands) /\ Len(todo) \in Nat
  BY Shapes
<1>2. CASE todo' = todo
  BY <1>1, <1>2
<1>3. ASSUME NEW k \in K, NEW d \in Data, todo' = Append(todo, Command(k, d))
      PROVE  /\ todo' \in Seq(Commands)
             /\ Silent(todo) /\ K \cap Loud = {} => Silent(todo')
  <2>1. Command(k, d) \in Commands /\ Command(k, d).kind = k
    BY DEF Commands, Command, Data
  <2>2. /\ todo' \in Seq(Commands) /\ Len(todo') = Len(todo) + 1
        /\ \A n \in 1 .. Len(todo) : todo'[n] = todo[n]
        /\ todo'[Len(todo) + 1] = Command(k, d)
    BY <1>1, <1>3, <2>1
  <2>3. ASSUME Silent(todo), K \cap Loud = {}, NEW n \in 1 .. Len(todo')
        PROVE  todo'[n].kind \notin Loud
    <3>1. CASE n \in 1 .. Len(todo)
      BY <2>2, <2>3, <3>1 DEF Silent
    <3>2. CASE n = Len(todo) + 1
      BY <2>1, <2>2, <2>3, <3>2
    <3> QED
      BY <2>2, <3>1, <3>2
  <2> QED
    BY <2>2, <2>3 DEF Silent
<1> QED
  BY <1>2, <1>3 DEF Writes

\* The modem, what it wrote and what the server knows stay as they are,
Still == UNCHANGED <<sock, rx, air, handled>> /\ reply' \in {reply, Nothing}

\* and the client's variables keep their types.
Typed ==
  /\ incoming' \in BOOLEAN /\ ok' \in BOOLEAN /\ login' \in BOOLEAN
  /\ item' \in Packet \cup {Nothing} /\ event' \in Event
  /\ tries' \in 0 .. MaxAttempts /\ rounds' \in 0 .. Unheeded + MaxAttempts
  /\ packets' \in 0 .. ReopenAfter - 1 /\ next' \in 1 .. MaxPackets + 1

\* The types of the client's variables, apart.
LEMMA TypesNow ==
  ASSUME IInv
  PROVE  /\ incoming \in BOOLEAN /\ ok \in BOOLEAN /\ login \in BOOLEAN
         /\ item \in Packet \cup {Nothing} /\ event \in Event
         /\ tries \in 0 .. MaxAttempts /\ rounds \in 0 .. Unheeded + MaxAttempts
         /\ packets \in 0 .. ReopenAfter - 1 /\ next \in 1 .. MaxPackets + 1
BY DEF IInv, TypeOK

\* What the client does preserves the invariant if it moves to where the call is nested, writes
\* no loud command while it sets the modem up, and takes nothing for answered that is not.
LEMMA ClientMoves ==
  ASSUME IInv, NEW K \in SUBSET Kind, Writes(K), Moves, Still, Typed,
         Caller(pc', stack') \in SetUp =>
           Caller(pc, stack) \in SetUp /\ ~(pc = "power" /\ rounds = 0) /\ K \cap Loud = {},
         pc' = "answered" => event' \in handled
  PROVE  IInv'
<1> USE DEF Still, Typed
<1>1. todo' \in Seq(Commands) /\ (Silent(todo) /\ K \cap Loud = {} => Silent(todo'))
  BY Written
<1>2. reply' \in Told /\ (reply' \in Event => reply \in Event /\ reply' = reply)
  BY Constants DEF IInv, TypeOK
<1>3. TypeOK'
  BY <1>1, <1>2, TypesOfLines DEF IInv, TypeOK, Moves
<1>4. Lines' /\ Nested(pc', stack')
  BY <1>1 DEF Lines, Moves
<1>5. RepliesGrounded'
  BY <1>2 DEF IInv, RepliesGrounded
<1>6. SetUpIsQuiet'
  <2> SUFFICES ASSUME Caller(pc', stack') \in SetUp
               PROVE  reply' \notin Event /\ Quiet'
    BY DEF SetUpIsQuiet
  <2>1. reply \notin Event /\ Quiet
    BY DEF IInv, SetUpIsQuiet
  <2>2. Silent(todo')
    BY <1>1, <2>1 DEF Quiet
  <2> QED
    BY <1>2, <2>1, <2>2 DEF Quiet
<1>7. AnswersGrounded'
  BY DEF AnswersGrounded
<1> QED
  BY <1>3, <1>4, <1>5, <1>6, <1>7 DEF IInv

\* Outside of initCell(), and within.
LEMMA AwayMoves ==
  ASSUME IInv, NEW K \in SUBSET Kind, Writes(K), Still, Typed,
         Moves, Caller(pc', stack') \notin SetUp, pc' # "answered"
  PROVE  IInv'
BY ClientMoves

\* Within initCell().
LEMMA SetUpMoves ==
  ASSUME IInv, NEW K \in SUBSET (Kind \ Loud), Writes(K), Still, Typed, Moves, pc' # "answered",
         pc \in SetUp \ {"power"} \/ Caller(pc', stack') \notin SetUp
  PROVE  IInv'
<1>1. pc \in SetUp => Caller(pc, stack) = pc
  BY DEF Caller, SetUp, Waits
<1> QED
  BY <1>1, ClientMoves

\* notify() sends the event again, or has done so often enough.
LEMMA NotifyStep ==
  ASSUME IInv, Notify
  PROVE  IInv'
<1>1. Writes({"send"})
  BY DEF Notify, Issue, modemVars, Writes, Data, IInv, TypeOK
<1>2. Still
  BY DEF Notify, Issue, modemVars, lineVars, histVars, Still
<1>3. Typed
  <2>1. tries' \in 0 .. MaxAttempts /\ rounds' \in 0 .. Unheeded + MaxAttempts
    BY Constants, TypesNow DEF Notify, Return, lineVars
  <2>2. /\ incoming' \in BOOLEAN /\ ok' \in BOOLEAN /\ login' \in BOOLEAN
        /\ item' \in Packet \cup {Nothing} /\ event' \in Event
        /\ packets' \in 0 .. ReopenAfter - 1 /\ next' \in 1 .. MaxPackets + 1
    BY TypesNow DEF Notify, Return, Issue, lineVars
  <2> QED
    BY <2>1, <2>2 DEF Typed
<1>4. Moves /\ pc' # "answered" /\ Caller(pc', stack') \notin SetUp
  <2>1. CASE tries < MaxAttempts
    <3>1. pc = "notify" /\ pc' = "sendwait" /\ stack' = <<"notified">> \o stack
      BY <2>1 DEF Notify, Issue, Call
    <3>2. /\ "sendwait" \in Labels /\ "notified" \in Under("sendwait")
          /\ Under("notify") = Under("notified")
      BY Tables DEF Awaiting, Labels, Notifying, Waits
    <3>3. Moves /\ Caller(pc', stack') = "notified" /\ pc' = "sendwait"
      BY <3>1, <3>2, CallsOn DEF Waits
    <3> QED
      BY <3>3 DEF SetUp
  <2>2. CASE ~(tries < MaxAttempts)
    <3>1. pc = "notify" /\ pc' = Head(stack) /\ stack' = Tail(stack)
      BY <2>2 DEF Notify, Return
    <3>2. Under("notify") # {} /\ Under("notify") \cap SetUp = {}
      BY Tables DEF Notifying, SetUp
    <3>3. Moves /\ Caller(pc', stack') = pc' /\ pc' \in Under(pc) /\ pc' # "answered"
      BY <3>1, <3>2, ComesBack
    <3> QED
      BY <3>1, <3>2, <3>3
  <2> QED
    BY <2>1, <2>2
<1> QED
  BY <1>1, <1>2, <1>3, <1>4, AwayMoves DEF Kind

\* It goes on to the reply, or returns.
LEMMA NotifySentStep ==
  ASSUME IInv, NotifySent
  PROVE  IInv'
<1>1. Writes({})
  BY DEF NotifySent, modemVars, Writes
<1>2. Still
  BY DEF NotifySent, modemVars, lineVars, histVars, Still
<1>3. Typed
  BY TypesNow DEF NotifySent, Return, lineVars, sessionVars, Typed
<1>4. Moves /\ pc' # "answered" /\ Caller(pc', stack') \notin SetUp
  <2>1. CASE ok
    <3>1. pc = "notified" /\ Goto("receive")
      BY <2>1 DEF NotifySent
    <3>2. "receive" \in Labels \ Waits /\ Under("notified") = Under("receive")
      BY Tables DEF Labels, Notifying, Waits
    <3>3. Moves /\ Caller(pc', stack') = "receive" /\ pc' = "receive"
      BY <3>1, <3>2, Goes
    <3> QED
      BY <3>3 DEF SetUp
  <2>2. CASE ~ok
    <3>1. pc = "notified" /\ pc' = Head(stack) /\ stack' = Tail(stack)
      BY <2>2 DEF NotifySent, Return
    <3>2. Under("notified") # {} /\ Under("notified") \cap SetUp = {}
      BY Tables DEF Notifying, SetUp
    <3>3. Moves /\ Caller(pc', stack') = pc' /\ pc' \in Under(pc) /\ pc' # "answered"
      BY <3>1, <3>2, ComesBack
    <3> QED
      BY <3>1, <3>2, <3>3
  <2> QED
    BY <2>1, <2>2
<1> QED
  BY <1>1, <1>2, <1>3, <1>4, AwayMoves

\* It has its reply and returns.
LEMMA AnsweredStep ==
  ASSUME IInv, Answered
  PROVE  IInv'
<1>1. Writes({})
  BY DEF Answered, modemVars, Writes
<1>2. Still
  BY DEF Answered, modemVars, lineVars, histVars, Still
<1>3. Typed
  BY TypesNow DEF Answered, Return, lineVars, Typed
<1>4. Moves /\ pc' # "answered" /\ Caller(pc', stack') \notin SetUp
  <2>1. pc = "answered" /\ pc' = Head(stack) /\ stack' = Tail(stack)
    BY DEF Answered, Return
  <2>2. Under("answered") # {} /\ Under("answered") \cap SetUp = {}
    BY Tables DEF Notifying, SetUp
  <2>3. Moves /\ Caller(pc', stack') = pc' /\ pc' \in Under(pc) /\ pc' # "answered"
    BY <2>1, <2>2, ComesBack
  <2> QED
    BY <2>1, <2>2, <2>3
<1> QED
  BY <1>1, <1>2, <1>3, <1>4, AwayMoves

\* begin() goes on with ATE0 and ATI, or with another pulse.
LEMMA EchoStep ==
  ASSUME IInv, Echo
  PROVE  IInv'
<1>1. Writes({"set", "model"})
  BY DEF Echo, Issue, modemVars, Writes, Data
<1>2. Still
  BY DEF Echo, Issue, Kept, modemVars, lineVars, histVars, Still
<1>3. Typed
  BY TypesNow DEF Echo, Issue, Kept, lineVars, Typed
<1>4. Moves /\ pc' # "answered"
      /\ (pc \in SetUp \ {"power"} \/ Caller(pc', stack') \notin SetUp)
  <2>1. CASE ~ok
    <3>1. pc \in {"powered", "echoed"} /\ Goto("power")
      BY <2>1 DEF Echo
    <3>2. "power" \in Labels \ Waits /\ Under(pc) = Under("power")
      BY <3>1, Tables DEF Labels, SetUp, Waits
    <3>3. Moves /\ Caller(pc', stack') = "power" /\ pc' = "power"
      BY <3>1, <3>2, Goes
    <3> QED
      BY <3>1, <3>3 DEF SetUp
  <2>2. CASE ok /\ pc = "powered"
    <3>1. pc \in {"powered", "echoed"} /\ pc' = "wait" /\ stack' = <<"echoed">> \o stack
      BY <2>2 DEF Echo, Issue, Call
    <3>2. "wait" \in Labels /\ "echoed" \in Under("wait") /\ Under(pc) = Under("echoed")
      BY <3>1, SetUpAsks DEF Awaiting, SetUp, Waits
    <3>3. Moves /\ Caller(pc', stack') = "echoed" /\ pc' = "wait"
      BY <3>1, <3>2, CallsOn DEF Waits
    <3> QED
      BY <3>1, <3>3 DEF SetUp
  <2>3. CASE ok /\ pc # "powered"
    <3>1. pc \in {"powered", "echoed"} /\ pc' = "wait" /\ stack' = <<"identified">> \o stack
      BY <2>3 DEF Echo, Issue, Call
    <3>2. "wait" \in Labels /\ "identified" \in Under("wait") /\ Under(pc) = Under("identified")
      BY <3>1, SetUpAsks DEF Awaiting, SetUp, Waits
    <3>3. Moves /\ Caller(pc', stack') = "identified" /\ pc' = "wait"
      BY <3>1, <3>2, CallsOn DEF Waits
    <3> QED
      BY <3>1, <3>3 DEF SetUp
  <2> QED
    BY <2>1, <2>2, <2>3
<1> QED
  BY <1>1, <1>2, <1>3, <1>4, SetUpMoves DEF Kind, Loud

\* The model is known, or initCell() gives up.
LEMMA IdentifiedStep ==
  ASSUME IInv, Identified
  PROVE  IInv'
<1>1. Writes({})
  BY DEF Identified, modemVars, Writes
<1>2. Still
  BY DEF Identified, Kept, modemVars, lineVars, histVars, Still
<1>3. Typed
  <2>1. tries' \in 0 .. MaxAttempts /\ rounds' \in 0 .. Unheeded + MaxAttempts
    BY Constants, TypesNow DEF Identified, Kept
  <2>2. /\ incoming' \in BOOLEAN /\ ok' \in BOOLEAN /\ login' \in BOOLEAN
        /\ item' \in Packet \cup {Nothing} /\ event' \in Event
        /\ packets' \in 0 .. ReopenAfter - 1 /\ next' \in 1 .. MaxPackets + 1
    BY TypesNow DEF Identified, Kept, GivesUp, lineVars
  <2> QED
    BY <2>1, <2>2 DEF Typed
<1>4. Moves /\ pc' # "answered"
      /\ (pc \in SetUp \ {"power"} \/ Caller(pc', stack') \notin SetUp)
  <2>1. CASE ~ok
    <3>1. pc = "identified" /\ Goto("power")
      BY <2>1 DEF Identified
    <3>2. "power" \in Labels \ Waits /\ Under("identified") = Under("power")
      BY Tables DEF Labels, SetUp, Waits
    <3>3. Moves /\ Caller(pc', stack') = "power" /\ pc' = "power"
      BY <3>1, <3>2, Goes
    <3> QED
      BY <3>1, <3>3 DEF SetUp
  <2>2. CASE ok /\ reply = SIM7670
    <3>1. pc = "identified" /\ Goto("sim")
      BY <2>2 DEF Identified
    <3>2. "sim" \in Labels \ Waits /\ Under("identified") = Under("sim")
      BY Tables DEF Labels, SetUp, Waits
    <3>3. Moves /\ Caller(pc', stack') = "sim" /\ pc' = "sim"
      BY <3>1, <3>2, Goes
    <3> QED
      BY <3>1, <3>3 DEF SetUp
  <2>3. CASE ok /\ reply # SIM7670
    BY <2>3, GivingUp DEF Identified, SetUp
  <2> QED
    BY <2>1, <2>2, <2>3
<1> QED
  BY <1>1, <1>2, <1>3, <1>4, SetUpMoves

\* checkSIM() asks again, or has done so often enough.
LEMMA AskSimStep ==
  ASSUME IInv, AskSim
  PROVE  IInv'
<1>1. Writes({"sim", "set"})
  BY DEF AskSim, Issue, Writes, Data
<1>2. Still
  BY DEF AskSim, Issue, Kept, lineVars, histVars, Still
<1>3. Typed
  BY Constants, TypesNow DEF AskSim, Issue, Kept, lineVars, Typed, Event, Packet
<1>4. Moves /\ pc' # "answered"
      /\ (pc \in SetUp \ {"power"} \/ Caller(pc', stack') \notin SetUp)
  <2>1. CASE rounds < MaxAttempts
    <3>1. pc = "sim" /\ pc' = "simwait" /\ stack' = <<"simasked">> \o stack
      BY <2>1 DEF AskSim, Issue, Call
    <3>2. /\ "simwait" \in Labels /\ "simasked" \in Under("simwait")
          /\ Under("sim") = Under("simasked")
      BY <3>1, SetUpAsks DEF Awaiting, SetUp, Waits
    <3>3. Moves /\ Caller(pc', stack') = "simasked" /\ pc' = "simwait"
      BY <3>1, <3>2, CallsOn DEF Waits
    <3> QED
      BY <3>1, <3>3 DEF SetUp
  <2>2. CASE ~(rounds < MaxAttempts)
    <3>1. pc = "sim" /\ pc' = "wait" /\ stack' = <<"simagain">> \o stack
      BY <2>2 DEF AskSim, Issue, Call
    <3>2. "wait" \in Labels /\ "simagain" \in Under("wait") /\ Under("sim") = Under("simagain")
      BY <3>1, SetUpAsks DEF Awaiting, SetUp, Waits
    <3>3. Moves /\ Caller(pc', stack') = "simagain" /\ pc' = "wait"
      BY <3>1, <3>2, CallsOn DEF Waits
    <3> QED
      BY <3>1, <3>3 DEF SetUp
  <2> QED
    BY <2>1, <2>2
<1> QED
  BY <1>1, <1>2, <1>3, <1>4, SetUpMoves DEF Kind, Loud

\* The SIM is ready, or is asked again.
LEMMA SimAskedStep ==
  ASSUME IInv, SimAsked
  PROVE  IInv'
<1>1. Writes({})
  BY DEF SimAsked, modemVars, Writes
<1>2. Still
  BY DEF SimAsked, Kept, modemVars, lineVars, histVars, Still
<1>3. Typed
  BY Constants, TypesNow DEF SimAsked, Kept, lineVars, Typed
<1>4. Moves /\ pc' # "answered"
      /\ (pc \in SetUp \ {"power"} \/ Caller(pc', stack') \notin SetUp)
  <2>1. CASE ok
    <3>1. pc = "simasked" /\ Goto("search")
      BY <2>1 DEF SimAsked
    <3>2. "search" \in Labels \ Waits /\ Under("simasked") = Under("search")
      BY Tables DEF Labels, SetUp, Waits
    <3>3. Moves /\ Caller(pc', stack') = "search" /\ pc' = "search"
      BY <3>1, <3>2, Goes
    <3> QED
      BY <3>1, <3>3 DEF SetUp
  <2>2. CASE ~ok
    <3>1. pc = "simasked" /\ Goto("sim")
      BY <2>2 DEF SimAsked
    <3>2. "sim" \in Labels \ Waits /\ Under("simasked") = Under("sim")
      BY Tables DEF Labels, SetUp, Waits
    <3>3. Moves /\ Caller(pc', stack') = "sim" /\ pc' = "sim"
      BY <3>1, <3>2, Goes
    <3> QED
      BY <3>1, <3>3 DEF SetUp
  <2> QED
    BY <2>1, <2>2
<1> QED
  BY <1>1, <1>2, <1>3, <1>4, SetUpMoves

\* Ready or not, setup() comes next.
LEMMA AskSimAgainStep ==
  ASSUME IInv, AskSimAgain
  PROVE  IInv'
<1>1. Writes({"sim"})
  BY DEF AskSimAgain, Issue, Writes, Data
<1>2. Still
  BY DEF AskSimAgain, Issue, Kept, lineVars, histVars, Still
<1>3. Typed
  BY TypesNow DEF AskSimAgain, Issue, Kept, lineVars, Typed
<1>4. Moves /\ pc' # "answered"
      /\ (pc \in SetUp \ {"power"} \/ Caller(pc', stack') \notin SetUp)
  <2>1. pc = "simagain" /\ pc' = "simwait" /\ stack' = <<"search">> \o stack
    BY DEF AskSimAgain, Issue, Call
  <2>2. /\ "simwait" \in Labels /\ "search" \in Under("simwait")
        /\ Under("simagain") = Under("search")
    BY <2>1, SetUpAsks DEF Awaiting, SetUp, Waits
  <2>3. Moves /\ Caller(pc', stack') = "search" /\ pc' = "simwait"
    BY <2>1, <2>2, CallsOn DEF Waits
  <2> QED
    BY <2>1, <2>3 DEF SetUp
<1> QED
  BY <1>1, <1>2, <1>3, <1>4, SetUpMoves DEF Kind, Loud

\* setup() asks for the service, and for the registration.
LEMMA SearchStep ==
  ASSUME IInv, Search
  PROVE  IInv'
<1>1. Writes({"system", "reg"})
  BY DEF Search, Issue, Writes, Data
<1>2. Still
  BY DEF Search, Issue, Kept, lineVars, histVars, Still
<1>3. Typed
  BY TypesNow DEF Search, Issue, Kept, lineVars, Typed
<1>4. Moves /\ pc' # "answered"
      /\ (pc \in SetUp \ {"power"} \/ Caller(pc', stack') \notin SetUp)
  <2>1. CASE pc = "search"
    <3>1. pc \in {"search", "register"} /\ pc' = "syswait" /\ stack' = <<"searched">> \o stack
      BY <2>1 DEF Search, Issue, Call
    <3>2. /\ "syswait" \in Labels /\ "searched" \in Under("syswait")
          /\ Under(pc) = Under("searched")
      BY <3>1, SetUpAsks DEF Awaiting, SetUp, Waits
    <3>3. Moves /\ Caller(pc', stack') = "searched" /\ pc' = "syswait"
      BY <3>1, <3>2, CallsOn DEF Waits
    <3> QED
      BY <3>1, <3>3 DEF SetUp
  <2>2. CASE pc # "search"
    <3>1. pc \in {"search", "register"} /\ pc' = "regwait" /\ stack' = <<"registered">> \o stack
      BY <2>2 DEF Search, Issue, Call
    <3>2. /\ "regwait" \in Labels /\ "registered" \in Under("regwait")
          /\ Under(pc) = Under("registered")
      BY <3>1, SetUpAsks DEF Awaiting, SetUp, Waits
    <3>3. Moves /\ Caller(pc', stack') = "registered" /\ pc' = "regwait"
      BY <3>1, <3>2, CallsOn DEF Waits
    <3> QED
      BY <3>1, <3>3 DEF SetUp
  <2> QED
    BY <2>1, <2>2
<1> QED
  BY <1>1, <1>2, <1>3, <1>4, SetUpMoves DEF Kind, Loud

\* In service, or not yet, or too late.
LEMMA SearchedStep ==
  ASSUME IInv, Searched
  PROVE  IInv'
<1>1. Writes({})
  BY DEF Searched, modemVars, Writes
<1>2. Still
  BY DEF Searched, Kept, modemVars, lineVars, histVars, Still
<1>3. Typed
  <2>1. tries' \in 0 .. MaxAttempts /\ rounds' \in 0 .. Unheeded + MaxAttempts
    BY Constants, TypesNow DEF Searched, Kept, TryAgain
  <2>2. /\ incoming' \in BOOLEAN /\ ok' \in BOOLEAN /\ login' \in BOOLEAN
        /\ item' \in Packet \cup {Nothing} /\ event' \in Event
        /\ packets' \in 0 .. ReopenAfter - 1 /\ next' \in 1 .. MaxPackets + 1
    BY TypesNow DEF Searched, Kept, GivesUp, TryAgain, lineVars
  <2> QED
    BY <2>1, <2>2 DEF Typed
<1>4. Moves /\ pc' # "answered"
      /\ (pc \in SetUp \ {"power"} \/ Caller(pc', stack') \notin SetUp)
  <2>1. CASE Goto("register")
    <3>1. pc = "searched" /\ Goto("register")
      BY <2>1 DEF Searched
    <3>2. "register" \in Labels \ Waits /\ Under("searched") = Under("register")
      BY Tables DEF Labels, SetUp, Waits
    <3>3. Moves /\ Caller(pc', stack') = "register" /\ pc' = "register"
      BY <3>1, <3>2, Goes
    <3> QED
      BY <3>1, <3>3 DEF SetUp
  <2>2. CASE Goto("search")
    <3>1. pc = "searched" /\ Goto("search")
      BY <2>2 DEF Searched
    <3>2. "search" \in Labels \ Waits /\ Under("searched") = Under("search")
      BY Tables DEF Labels, SetUp, Waits
    <3>3. Moves /\ Caller(pc', stack') = "search" /\ pc' = "search"
      BY <3>1, <3>2, Goes
    <3> QED
      BY <3>1, <3>3 DEF SetUp
  <2>3. CASE GivesUp
    BY <2>3, GivingUp DEF Searched, SetUp
  <2> QED
    BY <2>1, <2>2, <2>3 DEF Searched, TryAgain
<1> QED
  BY <1>1, <1>2, <1>3, <1>4, SetUpMoves

\* Registered, or not yet, or too late.
LEMMA RegistersStep ==
  ASSUME IInv, Registers
  PROVE  IInv'
<1>1. Writes({})
  BY DEF Registers, modemVars, Writes
<1>2. Still
  BY DEF Registers, Kept, modemVars, lineVars, histVars, Still
<1>3. Typed
  <2>1. tries' \in 0 .. MaxAttempts /\ rounds' \in 0 .. Unheeded + MaxAttempts
    BY Constants, TypesNow DEF Registers, Kept, TryAgain
  <2>2. /\ incoming' \in BOOLEAN /\ ok' \in BOOLEAN /\ login' \in BOOLEAN
        /\ item' \in Packet \cup {Nothing} /\ event' \in Event
        /\ packets' \in 0 .. ReopenAfter - 1 /\ next' \in 1 .. MaxPackets + 1
    BY TypesNow DEF Registers, Kept, GivesUp, TryAgain, lineVars
  <2> QED
    BY <2>1, <2>2 DEF Typed
<1>4. Moves /\ pc' # "answered"
      /\ (pc \in SetUp \ {"power"} \/ Caller(pc', stack') \notin SetUp)
  <2>1. CASE Goto("network")
    <3>1. pc = "registered" /\ Goto("network")
      BY <2>1 DEF Registers
    <3>2. "network" \in Labels \ Waits /\ Under("registered") = Under("network")
      BY Tables DEF Labels, SetUp, Waits
    <3>3. Moves /\ Caller(pc', stack') = "network" /\ pc' = "network"
      BY <3>1, <3>2, Goes
    <3> QED
      BY <3>1, <3>3 DEF SetUp
  <2>2. CASE Goto("register")
    <3>1. pc = "registered" /\ Goto("register")
      BY <2>2 DEF Registers
    <3>2. "register" \in Labels \ Waits /\ Under("registered") = Under("register")
      BY Tables DEF Labels, SetUp, Waits
    <3>3. Moves /\ Caller(pc', stack') = "register" /\ pc' = "register"
      BY <3>1, <3>2, Goes
    <3> QED
      BY <3>1, <3>3 DEF SetUp
  <2>3. CASE GivesUp
    BY <2>3, GivingUp DEF Registers, SetUp
  <2> QED
    BY <2>1, <2>2, <2>3 DEF Registers, TryAgain
<1> QED
  BY <1>1, <1>2, <1>3, <1>4, SetUpMoves

\* The network is opened, and initCell() returns.
LEMMA OpenNetworkStep ==
  ASSUME IInv, OpenNetwork
  PROVE  IInv'
<1>1. Writes({"set"})
  BY DEF OpenNetwork, Issue, modemVars, Writes, Data
<1>2. Still
  BY DEF OpenNetwork, Issue, Kept, modemVars, lineVars, histVars, Still
<1>3. Typed
  <2>1. tries' \in 0 .. MaxAttempts /\ rounds' \in 0 .. Unheeded + MaxAttempts
    BY Constants, TypesNow DEF OpenNetwork, Return, Kept, lineVars
  <2>2. /\ incoming' \in BOOLEAN /\ ok' \in BOOLEAN /\ login' \in BOOLEAN
        /\ item' \in Packet \cup {Nothing} /\ event' \in Event
        /\ packets' \in 0 .. ReopenAfter - 1 /\ next' \in 1 .. MaxPackets + 1
    BY TypesNow DEF OpenNetwork, Return, Issue, Kept, lineVars
  <2> QED
    BY <2>1, <2>2 DEF Typed
<1>4. Moves /\ pc' # "answered"
      /\ (pc \in SetUp \ {"power"} \/ Caller(pc', stack') \notin SetUp)
  <2>1. CASE rounds < Unheeded
    <3>1. pc = "network" /\ pc' = "wait" /\ stack' = <<"network">> \o stack
      BY <2>1 DEF OpenNetwork, Issue, Call
    <3>2. /\ "wait" \in Labels /\ "network" \in Under("wait")
          /\ Under("network") = Under("network")
      BY Tables DEF Awaiting, Labels, Waits
    <3>3. Moves /\ Caller(pc', stack') = "network" /\ pc' = "wait"
      BY <3>1, <3>2, CallsOn DEF Waits
    <3> QED
      BY <3>1, <3>3
  <2>2. CASE ~(rounds < Unheeded)
    <3>1. pc = "network" /\ pc' = Head(stack) /\ stack' = Tail(stack)
      BY <2>2 DEF OpenNetwork, Return
    <3>2. Under("network") # {} /\ Under("network") \cap SetUp = {}
      BY Tables DEF SetUp
    <3>3. Moves /\ Caller(pc', stack') = pc' /\ pc' \in Under(pc) /\ pc' # "answered"
      BY <3>1, <3>2, ComesBack
    <3> QED
      BY <3>1, <3>2, <3>3
  <2> QED
    BY <2>1, <2>2
<1> QED
  BY <1>1, <1>2, <1>3, <1>4, SetUpMoves DEF Kind, Loud

\* No pulse has brought an answer.
LEMMA NoModemStep ==
  ASSUME IInv, NoModem
  PROVE  IInv'
<1>1. Writes({})
  BY DEF NoModem, modemVars, Writes
<1>2. Still
  BY DEF NoModem, Kept, modemVars, lineVars, histVars, Still
<1>3. Typed
  BY TypesNow DEF NoModem, Kept, GivesUp, lineVars, Typed
<1>4. Moves /\ pc' # "answered"
      /\ (pc \in SetUp \ {"power"} \/ Caller(pc', stack') \notin SetUp)
  BY GivingUp DEF NoModem, SetUp
<1> QED
  BY <1>1, <1>2, <1>3, <1>4, SetUpMoves

\* connect() begins with a socket of its own.
LEMMA ConnectCloseStep ==
  ASSUME IInv, ConnectClose
  PROVE  IInv'
<1>1. Writes({"close"})
  BY DEF ConnectClose, Issue, Writes, Data
<1>2. Still
  BY DEF ConnectClose, Issue, lineVars, histVars, Still
<1>3. Typed
  BY Constants, TypesNow DEF ConnectClose, Issue, lineVars, Typed, Event
<1>4. Moves /\ pc' # "answered" /\ Caller(pc', stack') \notin SetUp
  <2>1. pc = "connect" /\ pc' = "wait" /\ stack' = <<"reopen">> \o stack
    BY DEF ConnectClose, Issue, Call
  <2>2. "wait" \in Labels /\ "reopen" \in Under("wait") /\ Under("connect") = Under("reopen")
    BY Tables DEF Awaiting, Connecting, Labels, Waits
  <2>3. Moves /\ Caller(pc', stack') = "reopen" /\ pc' = "wait"
    BY <2>1, <2>2, CallsOn DEF Waits
  <2> QED
    BY <2>3 DEF SetUp
<1> QED
  BY <1>1, <1>2, <1>3, <1>4, AwayMoves DEF Kind

\* It opens one, or has tried often enough.
LEMMA ConnectOpenStep ==
  ASSUME IInv, ConnectOpen
  PROVE  IInv'
<1>1. Writes({"set"})
  BY DEF ConnectOpen, Open, modemVars, Writes, Data
<1>2. Still
  BY DEF ConnectOpen, Open, modemVars, lineVars, histVars, Still
<1>3. Typed
  <2>1. tries' \in 0 .. MaxAttempts /\ rounds' \in 0 .. Unheeded + MaxAttempts
    BY Constants, TypesNow DEF ConnectOpen, Return
  <2>2. /\ incoming' \in BOOLEAN /\ ok' \in BOOLEAN /\ login' \in BOOLEAN
        /\ item' \in Packet \cup {Nothing} /\ event' \in Event
        /\ packets' \in 0 .. ReopenAfter - 1 /\ next' \in 1 .. MaxPackets + 1
    BY TypesNow DEF ConnectOpen, Return, Open, lineVars
  <2> QED
    BY <2>1, <2>2 DEF Typed
<1>4. Moves /\ pc' # "answered" /\ Caller(pc', stack') \notin SetUp
  <2>1. CASE rounds < MaxAttempts
    <3>1. pc = "reopen" /\ pc' = "wait" /\ stack' = <<"dial", "opened">> \o stack
      BY <2>1 DEF ConnectOpen, Open
    <3>2. /\ "wait" \in Waits /\ "dial" \in Under("wait") /\ "opened" \in Under("dial")
          /\ Under("reopen") = Under("opened")
      BY Tables DEF Awaiting, Connecting, Waits
    <3>3. Moves /\ Caller(pc', stack') = "dial" /\ pc' = "wait"
      BY <3>1, <3>2, CallsTwo
    <3> QED
      BY <3>3 DEF SetUp
  <2>2. CASE ~(rounds < MaxAttempts)
    <3>1. pc = "reopen" /\ pc' = Head(stack) /\ stack' = Tail(stack)
      BY <2>2 DEF ConnectOpen, Return
    <3>2. Under("reopen") # {} /\ Under("reopen") \cap SetUp = {}
      BY Tables DEF Connecting, SetUp
    <3>3. Moves /\ Caller(pc', stack') = pc' /\ pc' \in Under(pc) /\ pc' # "answered"
      BY <3>1, <3>2, ComesBack
    <3> QED
      BY <3>1, <3>2, <3>3
  <2> QED
    BY <2>1, <2>2
<1> QED
  BY <1>1, <1>2, <1>3, <1>4, AwayMoves DEF Kind

\* It logs in, or asks whether the modem is there.
LEMMA ConnectOpenedStep ==
  ASSUME IInv, ConnectOpened
  PROVE  IInv'
<1>1. Writes({"check"})
  BY DEF ConnectOpened, Issue, modemVars, Writes, Data
<1>2. Still
  BY DEF ConnectOpened, Issue, modemVars, lineVars, histVars, Still
<1>3. Typed
  BY Constants, TypesNow DEF ConnectOpened, Issue, lineVars, Typed
<1>4. Moves /\ pc' # "answered" /\ Caller(pc', stack') \notin SetUp
  <2>1. CASE ok
    <3>1. pc = "opened" /\ pc' = "notify" /\ stack' = <<"loggedin">> \o stack
      BY <2>1 DEF ConnectOpened, Call
    <3>2. /\ "notify" \in Labels /\ "loggedin" \in Under("notify")
          /\ Under("opened") = Under("loggedin")
      BY Tables DEF Connecting, Labels, Notifying
    <3>3. Moves /\ Caller(pc', stack') = "notify" /\ pc' = "notify"
      BY <3>1, <3>2, CallsOn DEF Waits
    <3> QED
      BY <3>3 DEF SetUp
  <2>2. CASE ~ok
    <3>1. pc = "opened" /\ pc' = "wait" /\ stack' = <<"goon">> \o stack
      BY <2>2 DEF ConnectOpened, Issue, Call
    <3>2. "wait" \in Labels /\ "goon" \in Under("wait") /\ Under("opened") = Under("goon")
      BY Tables DEF Awaiting, Connecting, Labels, Waits
    <3>3. Moves /\ Caller(pc', stack') = "goon" /\ pc' = "wait"
      BY <3>1, <3>2, CallsOn DEF Waits
    <3> QED
      BY <3>3 DEF SetUp
  <2> QED
    BY <2>1, <2>2
<1> QED
  BY <1>1, <1>2, <1>3, <1>4, AwayMoves DEF Kind

\* It has logged in, or asks the same.
LEMMA ConnectNotifiedStep ==
  ASSUME IInv, ConnectNotified
  PROVE  IInv'
<1>1. Writes({"check"})
  BY DEF ConnectNotified, Issue, modemVars, Writes, Data
<1>2. Still
  BY DEF ConnectNotified, Issue, modemVars, lineVars, histVars, Still
<1>3. Typed
  BY TypesNow DEF ConnectNotified, Return, Issue, lineVars, sessionVars, Typed
<1>4. Moves /\ pc' # "answered" /\ Caller(pc', stack') \notin SetUp
  <2>1. CASE ok
    <3>1. pc = "loggedin" /\ pc' = Head(stack) /\ stack' = Tail(stack)
      BY <2>1 DEF ConnectNotified, Return
    <3>2. Under("loggedin") # {} /\ Under("loggedin") \cap SetUp = {}
      BY Tables DEF Connecting, SetUp
    <3>3. Moves /\ Caller(pc', stack') = pc' /\ pc' \in Under(pc) /\ pc' # "answered"
      BY <3>1, <3>2, ComesBack
    <3> QED
      BY <3>1, <3>2, <3>3
  <2>2. CASE ~ok
    <3>1. pc = "loggedin" /\ pc' = "wait" /\ stack' = <<"goclose">> \o stack
      BY <2>2 DEF ConnectNotified, Issue, Call
    <3>2. /\ "wait" \in Labels /\ "goclose" \in Under("wait")
          /\ Under("loggedin") = Under("goclose")
      BY Tables DEF Awaiting, Connecting, Labels, Waits
    <3>3. Moves /\ Caller(pc', stack') = "goclose" /\ pc' = "wait"
      BY <3>1, <3>2, CallsOn DEF Waits
    <3> QED
      BY <3>3 DEF SetUp
  <2> QED
    BY <2>1, <2>2
<1> QED
  BY <1>1, <1>2, <1>3, <1>4, AwayMoves DEF Kind

\* The modem is there, or connect() returns.
LEMMA ConnectCheckedStep ==
  ASSUME IInv, ConnectChecked
  PROVE  IInv'
<1>1. Writes({"close"})
  BY DEF ConnectChecked, Issue, modemVars, Writes, Data
<1>2. Still
  BY DEF ConnectChecked, Issue, modemVars, lineVars, histVars, Still
<1>3. Typed
  BY TypesNow DEF ConnectChecked, Return, Issue, lineVars, sessionVars, Typed
<1>4. Moves /\ pc' # "answered" /\ Caller(pc', stack') \notin SetUp
  <2>1. CASE ~ok
    <3>1. pc \in {"goon", "goclose"} /\ pc' = Head(stack) /\ stack' = Tail(stack)
      BY <2>1 DEF ConnectChecked, Return
    <3>2. Under(pc) # {} /\ Under(pc) \cap SetUp = {}
      BY <3>1, Tables DEF Connecting, SetUp
    <3>3. Moves /\ Caller(pc', stack') = pc' /\ pc' \in Under(pc) /\ pc' # "answered"
      BY <3>1, <3>2, ComesBack
    <3> QED
      BY <3>2, <3>3
  <2>2. CASE ok /\ pc = "goon"
    <3>1. pc \in {"goon", "goclose"} /\ Goto("reopen")
      BY <2>2 DEF ConnectChecked
    <3>2. "reopen" \in Labels \ Waits /\ Under(pc) = Under("reopen")
      BY <3>1, Tables DEF Connecting, Labels, Waits
    <3>3. Moves /\ Caller(pc', stack') = "reopen" /\ pc' = "reopen"
      BY <3>1, <3>2, Goes
    <3> QED
      BY <3>3 DEF SetUp
  <2>3. CASE ok /\ pc # "goon"
    <3>1. pc \in {"goon", "goclose"} /\ pc' = "wait" /\ stack' = <<"reopen">> \o stack
      BY <2>3 DEF ConnectChecked, Issue, Call
    <3>2. "wait" \in Labels /\ "reopen" \in Under("wait") /\ Under(pc) = Under("reopen")
      BY <3>1, Tables DEF Awaiting, Connecting, Labels, Waits
    <3>3. Moves /\ Caller(pc', stack') = "reopen" /\ pc' = "wait"
      BY <3>1, <3>2, CallsOn DEF Waits
    <3> QED
      BY <3>3 DEF SetUp
  <2> QED
    BY <2>1, <2>2, <2>3
<1> QED
  BY <1>1, <1>2, <1>3, <1>4, AwayMoves DEF Kind

\* connect(true) begins by closing the socket.
LEMMA QuickCloseStep ==
  ASSUME IInv, QuickClose
  PROVE  IInv'
<1>1. Writes({"close"})
  BY DEF QuickClose, Issue, Writes, Data
<1>2. Still
  BY DEF QuickClose, Issue, lineVars, histVars, Still
<1>3. Typed
  BY TypesNow DEF QuickClose, Issue, lineVars, sessionVars, Typed
<1>4. Moves /\ pc' # "answered" /\ Caller(pc', stack') \notin SetUp
  <2>1. pc = "quick" /\ pc' = "wait" /\ stack' = <<"dial">> \o stack
    BY DEF QuickClose, Issue, Call
  <2>2. "wait" \in Labels /\ "dial" \in Under("wait")
        /\ Under("quick") \subseteq Under("dial") /\ Under("quick") # {}
    BY Tables DEF Awaiting, Labels, Waits
  <2>3. Moves /\ Caller(pc', stack') = "dial" /\ pc' = "wait"
    BY <2>1, <2>2, CallsOn DEF Waits
  <2> QED
    BY <2>3 DEF SetUp
<1> QED
  BY <1>1, <1>2, <1>3, <1>4, AwayMoves DEF Kind

\* The link is up, or everything begins anew.
LEMMA LinkedStep ==
  ASSUME IInv, Linked
  PROVE  IInv'
<1>1. Writes({})
  BY DEF Linked, modemVars, Writes
<1>2. Still
  BY DEF Linked, modemVars, lineVars, histVars, Still
<1>3. Typed
  BY TypesNow DEF Linked, lineVars, sessionVars, Typed
<1>4. Moves /\ pc' # "answered" /\ Caller(pc', stack') \notin SetUp
  <2>1. CASE ok
    <3>1. pc = "linked" /\ Goto("live")
      BY <2>1 DEF Linked
    <3>2. "live" \in Labels \ Waits /\ Under("linked") = Under("live")
      BY Tables DEF Labels, Outermost, Waits
    <3>3. Moves /\ Caller(pc', stack') = "live" /\ pc' = "live"
      BY <3>1, <3>2, Goes
    <3> QED
      BY <3>3 DEF SetUp
  <2>2. CASE ~ok
    <3>1. pc = "linked" /\ Goto("off")
      BY <2>2 DEF Linked
    <3>2. "off" \in Labels \ Waits /\ Under("linked") = Under("off")
      BY Tables DEF Labels, Outermost, Waits
    <3>3. Moves /\ Caller(pc', stack') = "off" /\ pc' = "off"
      BY <3>1, <3>2, Goes
    <3> QED
      BY <3>3 DEF SetUp
  <2> QED
    BY <2>1, <2>2
<1> QED
  BY <1>1, <1>2, <1>3, <1>4, AwayMoves

\* transmit() takes a packet, after a new socket if it is time for one.
LEMMA TransmitStep ==
  ASSUME IInv, Transmit
  PROVE  IInv'
<1>1. Writes({})
  BY DEF Transmit, modemVars, Writes
<1>2. Still
  BY DEF Transmit, modemVars, lineVars, histVars, Still
<1>3. Typed
  BY Constants, TypesNow DEF Transmit, lineVars, Typed, Packet
<1>4. Moves /\ pc' # "answered" /\ Caller(pc', stack') \notin SetUp
  <2>1. CASE packets + 1 >= ReopenAfter
    <3>1. pc = "live" /\ pc' = "quick" /\ stack' = <<"transmit">> \o stack
      BY <2>1 DEF Transmit, Issue, Call
    <3>2. /\ "quick" \in Labels /\ "transmit" \in Under("quick")
          /\ Under("live") = Under("transmit")
      BY Tables DEF Labels, Outermost
    <3>3. Moves /\ Caller(pc', stack') = "quick" /\ pc' = "quick"
      BY <3>1, <3>2, CallsOn DEF Waits
    <3> QED
      BY <3>3 DEF SetUp
  <2>2. CASE ~(packets + 1 >= ReopenAfter)
    <3>1. pc = "live" /\ Goto("transmit")
      BY <2>2 DEF Transmit
    <3>2. "transmit" \in Labels \ Waits /\ Under("live") = Under("transmit")
      BY Tables DEF Labels, Outermost, Waits
    <3>3. Moves /\ Caller(pc', stack') = "transmit" /\ pc' = "transmit"
      BY <3>1, <3>2, Goes
    <3> QED
      BY <3>3 DEF SetUp
  <2> QED
    BY <2>1, <2>2
<1> QED
  BY <1>1, <1>2, <1>3, <1>4, AwayMoves

\* It sends the packet,
LEMMA TransmitSendStep ==
  ASSUME IInv, TransmitSend
  PROVE  IInv'
<1>1. Writes({"send"})
  BY DEF TransmitSend, Issue, Writes, Data, IInv, TypeOK
<1>2. Still
  BY DEF TransmitSend, Issue, lineVars, histVars, Still
<1>3. Typed
  BY TypesNow DEF TransmitSend, Issue, lineVars, sessionVars, Typed
<1>4. Moves /\ pc' # "answered" /\ Caller(pc', stack') \notin SetUp
  <2>1. pc = "transmit" /\ pc' = "sendwait" /\ stack' = <<"transmitted">> \o stack
    BY DEF TransmitSend, Issue, Call
  <2>2. /\ "sendwait" \in Labels /\ "transmitted" \in Under("sendwait")
        /\ Under("transmit") = Under("transmitted")
    BY Tables DEF Awaiting, Labels, Outermost, Waits
  <2>3. Moves /\ Caller(pc', stack') = "transmitted" /\ pc' = "sendwait"
    BY <2>1, <2>2, CallsOn DEF Waits
  <2> QED
    BY <2>3 DEF SetUp
<1> QED
  BY <1>1, <1>2, <1>3, <1>4, AwayMoves DEF Kind

\* and the loop goes on, with a new socket after a failure.
LEMMA TransmittedStep ==
  ASSUME IInv, Transmitted
  PROVE  IInv'
<1>1. Writes({})
  BY DEF Transmitted, modemVars, Writes
<1>2. Still
  BY DEF Transmitted, modemVars, lineVars, Still
<1>3. Typed
  BY TypesNow DEF Transmitted, lineVars, sessionVars, Typed
<1>4. Moves /\ pc' # "answered" /\ Caller(pc', stack') \notin SetUp
  <2>1. CASE Goto("inbound")
    <3>1. pc = "transmitted" /\ Goto("inbound")
      BY <2>1 DEF Transmitted
    <3>2. "inbound" \in Labels \ Waits /\ Under("transmitted") = Under("inbound")
      BY Tables DEF Labels, Outermost, Waits
    <3>3. Moves /\ Caller(pc', stack') = "inbound" /\ pc' = "inbound"
      BY <3>1, <3>2, Goes
    <3> QED
      BY <3>3 DEF SetUp
  <2>2. CASE Call("quick", "inbound")
    <3>1. pc = "transmitted" /\ pc' = "quick" /\ stack' = <<"inbound">> \o stack
      BY <2>2 DEF Transmitted, Issue, Call
    <3>2. /\ "quick" \in Labels /\ "inbound" \in Under("quick")
          /\ Under("transmitted") = Under("inbound")
      BY Tables DEF Labels, Outermost
    <3>3. Moves /\ Caller(pc', stack') = "quick" /\ pc' = "quick"
      BY <3>1, <3>2, CallsOn DEF Waits
    <3> QED
      BY <3>3 DEF SetUp
  <2> QED
    BY <2>1, <2>2 DEF Transmitted
<1> QED
  BY <1>1, <1>2, <1>3, <1>4, AwayMoves

\* The loop begins again, or the modem does, or connect() is called.
LEMMA CheckedStep ==
  ASSUME IInv, Checked
  PROVE  IInv'
<1>1. Writes({})
  BY DEF Checked, modemVars, Writes
<1>2. Still
  BY DEF Checked, modemVars, lineVars, histVars, Still
<1>3. Typed
  BY TypesNow DEF Checked, lineVars, sessionVars, Typed
<1>4. Moves /\ pc' # "answered" /\ Caller(pc', stack') \notin SetUp
  <2>1. CASE Goto("off")
    <3>1. pc = "checked" /\ Goto("off")
      BY <2>1 DEF Checked
    <3>2. "off" \in Labels \ Waits /\ Under("checked") = Under("off")
      BY Tables DEF Labels, Outermost, Waits
    <3>3. Moves /\ Caller(pc', stack') = "off" /\ pc' = "off"
      BY <3>1, <3>2, Goes
    <3> QED
      BY <3>3 DEF SetUp
  <2>2. CASE Goto("live")
    <3>1. pc = "checked" /\ Goto("live")
      BY <2>2 DEF Checked
    <3>2. "live" \in Labels \ Waits /\ Under("checked") = Under("live")
      BY Tables DEF Labels, Outermost, Waits
    <3>3. Moves /\ Caller(pc', stack') = "live" /\ pc' = "live"
      BY <3>1, <3>2, Goes
    <3> QED
      BY <3>3 DEF SetUp
  <2>3. CASE Call("connect", "synced")
    <3>1. pc = "checked" /\ pc' = "connect" /\ stack' = <<"synced">> \o stack
      BY <2>3 DEF Checked, Issue, Call
    <3>2. /\ "connect" \in Labels /\ "synced" \in Under("connect")
          /\ Under("checked") = Under("synced")
      BY Tables DEF Connecting, Labels, Outermost
    <3>3. Moves /\ Caller(pc', stack') = "connect" /\ pc' = "connect"
      BY <3>1, <3>2, CallsOn DEF Waits
    <3> QED
      BY <3>3 DEF SetUp
  <2> QED
    BY <2>1, <2>2, <2>3 DEF Checked
<1> QED
  BY <1>1, <1>2, <1>3, <1>4, AwayMoves

\* The loop begins again, or the modem does.
LEMMA SyncedStep ==
  ASSUME IInv, Synced
  PROVE  IInv'
<1>1. Writes({})
  BY DEF Synced, modemVars, Writes
<1>2. Still
  BY DEF Synced, modemVars, lineVars, histVars, Still
<1>3. Typed
  BY TypesNow DEF Synced, lineVars, sessionVars, Typed
<1>4. Moves /\ pc' # "answered" /\ Caller(pc', stack') \notin SetUp
  <2>1. CASE Goto("live")
    <3>1. pc = "synced" /\ Goto("live")
      BY <2>1 DEF Synced
    <3>2. "live" \in Labels \ Waits /\ Under("synced") = Under("live")
      BY Tables DEF Labels, Outermost, Waits
    <3>3. Moves /\ Caller(pc', stack') = "live" /\ pc' = "live"
      BY <3>1, <3>2, Goes
    <3> QED
      BY <3>3 DEF SetUp
  <2>2. CASE Goto("off")
    <3>1. pc = "synced" /\ Goto("off")
      BY <2>2 DEF Synced
    <3>2. "off" \in Labels \ Waits /\ Under("synced") = Under("off")
      BY Tables DEF Labels, Outermost, Waits
    <3>3. Moves /\ Caller(pc', stack') = "off" /\ pc' = "off"
      BY <3>1, <3>2, Goes
    <3> QED
      BY <3>3 DEF SetUp
  <2> QED
    BY <2>1, <2>2 DEF Synced
<1> QED
  BY <1>1, <1>2, <1>3, <1>4, AwayMoves

\* The loop ends.
LEMMA ParkStep ==
  ASSUME IInv, Park
  PROVE  IInv'
<1>1. Writes({})
  BY DEF Park, modemVars, Writes
<1>2. Still
  BY DEF Park, modemVars, lineVars, histVars, Still
<1>3. Typed
  BY TypesNow DEF Park, lineVars, sessionVars, Typed
<1>4. Moves /\ pc' # "answered" /\ Caller(pc', stack') \notin SetUp
  <2>1. pc = "live" /\ Goto("shutdown")
    BY DEF Park
  <2>2. "shutdown" \in Labels \ Waits /\ Under("live") = Under("shutdown")
    BY Tables DEF Labels, Outermost, Waits
  <2>3. Moves /\ Caller(pc', stack') = "shutdown" /\ pc' = "shutdown"
    BY <2>1, <2>2, Goes
  <2> QED
    BY <2>3 DEF SetUp
<1> QED
  BY <1>1, <1>2, <1>3, <1>4, AwayMoves

\* The modem is off.
LEMMA ResetStep ==
  ASSUME IInv, Reset
  PROVE  IInv'
<1>1. Writes({})
  BY DEF Reset, modemVars, Writes
<1>2. Still
  BY DEF Reset, modemVars, lineVars, histVars, Still
<1>3. Typed
  BY TypesNow DEF Reset, lineVars, Typed
<1>4. Moves /\ pc' # "answered" /\ Caller(pc', stack') \notin SetUp
  <2>1. pc = "reset" /\ Goto("off")
    BY DEF Reset
  <2>2. "off" \in Labels \ Waits /\ Under("reset") = Under("off")
    BY Tables DEF Labels, Outermost, Waits
  <2>3. Moves /\ Caller(pc', stack') = "off" /\ pc' = "off"
    BY <2>1, <2>2, Goes
  <2> QED
    BY <2>3 DEF SetUp
<1> QED
  BY <1>1, <1>2, <1>3, <1>4, AwayMoves

\* ping() opens a socket, or has tried often enough.
LEMMA PingOpenStep ==
  ASSUME IInv, PingOpen
  PROVE  IInv'
<1>1. Writes({"set"})
  BY DEF PingOpen, Open, modemVars, Writes, Data
<1>2. Still
  BY DEF PingOpen, Open, modemVars, lineVars, histVars, Still
<1>3. Typed
  <2>1. tries' \in 0 .. MaxAttempts /\ rounds' \in 0 .. Unheeded + MaxAttempts
    BY Constants, TypesNow DEF PingOpen, Return
  <2>2. /\ incoming' \in BOOLEAN /\ ok' \in BOOLEAN /\ login' \in BOOLEAN
        /\ item' \in Packet \cup {Nothing} /\ event' \in Event
        /\ packets' \in 0 .. ReopenAfter - 1 /\ next' \in 1 .. MaxPackets + 1
    BY TypesNow DEF PingOpen, Return, Open, lineVars, Event
  <2> QED
    BY <2>1, <2>2 DEF Typed
<1>4. Moves /\ pc' # "answered" /\ Caller(pc', stack') \notin SetUp
  <2>1. CASE rounds < MaxAttempts
    <3>1. pc = "ping" /\ pc' = "wait" /\ stack' = <<"dial", "pingopened">> \o stack
      BY <2>1 DEF PingOpen, Open
    <3>2. /\ "wait" \in Waits /\ "dial" \in Under("wait") /\ "pingopened" \in Under("dial")
          /\ Under("ping") = Under("pingopened")
      BY Tables DEF Awaiting, Pinging, Waits
    <3>3. Moves /\ Caller(pc', stack') = "dial" /\ pc' = "wait"
      BY <3>1, <3>2, CallsTwo
    <3> QED
      BY <3>3 DEF SetUp
  <2>2. CASE ~(rounds < MaxAttempts)
    <3>1. pc = "ping" /\ pc' = Head(stack) /\ stack' = Tail(stack)
      BY <2>2 DEF PingOpen, Return
    <3>2. Under("ping") # {} /\ Under("ping") \cap SetUp = {}
      BY Tables DEF Pinging, SetUp
    <3>3. Moves /\ Caller(pc', stack') = pc' /\ pc' \in Under(pc) /\ pc' # "answered"
      BY <3>1, <3>2, ComesBack
    <3> QED
      BY <3>1, <3>2, <3>3
  <2> QED
    BY <2>1, <2>2
<1> QED
  BY <1>1, <1>2, <1>3, <1>4, AwayMoves DEF Kind

\* It notifies, or tries again.
LEMMA PingOpenedStep ==
  ASSUME IInv, PingOpened
  PROVE  IInv'
<1>1. Writes({})
  BY DEF PingOpened, modemVars, Writes
<1>2. Still
  BY DEF PingOpened, modemVars, lineVars, histVars, Still
<1>3. Typed
  BY Constants, TypesNow DEF PingOpened, lineVars, Typed
<1>4. Moves /\ pc' # "answered" /\ Caller(pc', stack') \notin SetUp
  <2>1. CASE ok
    <3>1. pc = "pingopened" /\ pc' = "notify" /\ stack' = <<"pinged">> \o stack
      BY <2>1 DEF PingOpened, Issue, Call
    <3>2. /\ "notify" \in Labels /\ "pinged" \in Under("notify")
          /\ Under("pingopened") = Under("pinged")
      BY Tables DEF Labels, Notifying, Pinging
    <3>3. Moves /\ Caller(pc', stack') = "notify" /\ pc' = "notify"
      BY <3>1, <3>2, CallsOn DEF Waits
    <3> QED
      BY <3>3 DEF SetUp
  <2>2. CASE ~ok
    <3>1. pc = "pingopened" /\ Goto("ping")
      BY <2>2 DEF PingOpened
    <3>2. "ping" \in Labels \ Waits /\ Under("pingopened") = Under("ping")
      BY Tables DEF Labels, Pinging, Waits
    <3>3. Moves /\ Caller(pc', stack') = "ping" /\ pc' = "ping"
      BY <3>1, <3>2, Goes
    <3> QED
      BY <3>3 DEF SetUp
  <2> QED
    BY <2>1, <2>2
<1> QED
  BY <1>1, <1>2, <1>3, <1>4, AwayMoves

\* It returns, or tries again.
LEMMA PingedStep ==
  ASSUME IInv, Pinged
  PROVE  IInv'
<1>1. Writes({"close"})
  BY DEF Pinged, Issue, modemVars, Writes, Data
<1>2. Still
  BY DEF Pinged, Issue, modemVars, lineVars, histVars, Still
<1>3. Typed
  BY TypesNow DEF Pinged, Return, Issue, lineVars, sessionVars, Typed
<1>4. Moves /\ pc' # "answered" /\ Caller(pc', stack') \notin SetUp
  <2>1. CASE ok
    <3>1. pc = "pinged" /\ pc' = Head(stack) /\ stack' = Tail(stack)
      BY <2>1 DEF Pinged, Return
    <3>2. Under("pinged") # {} /\ Under("pinged") \cap SetUp = {}
      BY Tables DEF Pinging, SetUp
    <3>3. Moves /\ Caller(pc', stack') = pc' /\ pc' \in Under(pc) /\ pc' # "answered"
      BY <3>1, <3>2, ComesBack
    <3> QED
      BY <3>1, <3>2, <3>3
  <2>2. CASE ~ok
    <3>1. pc = "pinged" /\ pc' = "wait" /\ stack' = <<"ping">> \o stack
      BY <2>2 DEF Pinged, Issue, Call
    <3>2. "wait" \in Labels /\ "ping" \in Under("wait") /\ Under("pinged") = Under("ping")
      BY Tables DEF Awaiting, Labels, Pinging, Waits
    <3>3. Moves /\ Caller(pc', stack') = "ping" /\ pc' = "wait"
      BY <3>1, <3>2, CallsOn DEF Waits
    <3> QED
      BY <3>3 DEF SetUp
  <2> QED
    BY <2>1, <2>2
<1> QED
  BY <1>1, <1>2, <1>3, <1>4, AwayMoves DEF Kind

\* receive() waits, unless a datagram was noticed before,
LEMMA ReceiveStep ==
  ASSUME IInv, Receive
  PROVE  IInv'
<1>1. Writes({}) /\ Still
  BY DEF Receive, Writes, Still, modemVars, lineVars, histVars
<1>2. Typed
  BY TypesNow DEF Receive, Typed, lineVars, sessionVars
<1>3. pc \in {"receive", "inbound"} /\ pc \in Under("read")
  BY Tables DEF Receive
<1>4. Moves /\ Caller(pc', stack') \in {"read"} /\ pc' # "answered"
  <2>1. CASE incoming
    <3>1. pc' = "read" /\ stack' = <<pc>> \o stack
      BY <2>1 DEF Receive
    <3>2. Moves /\ Caller(pc', stack') = IF "read" \in Waits THEN pc ELSE "read"
      BY <1>3, <3>1, CallsOn, Places
    <3> QED
      BY <3>1, <3>2 DEF Waits
  <2>2. CASE ~incoming
    <3>1. pc' = "ipdwait" /\ stack' = <<"read", pc>> \o stack
      BY <2>2 DEF Receive
    <3>2. "ipdwait" \in Waits /\ "read" \in Under("ipdwait")
      BY Tables DEF Waits, Awaiting
    <3>3. Moves /\ Caller(pc', stack') = "read"
      BY <1>3, <3>1, <3>2, CallsTwo
    <3> QED
      BY <3>1, <3>3
  <2> QED
    BY <2>1, <2>2
<1>5. Caller(pc', stack') \notin SetUp
  BY <1>4 DEF SetUp
<1> QED
  BY <1>1, <1>2, <1>4, <1>5, AwayMoves

\* The call that reads the buffer goes on where it was made.
LEMMA UnderRead ==
  ASSUME IInv, pc = "read"
  PROVE  Tail(stack) \in Seq(Labels) /\ Nested(Head(stack), Tail(stack))
<1>1. stack \in Seq(Labels) /\ Nested("read", stack) /\ Under("read") # {}
  BY Tables DEF IInv, Lines
<1> QED
  BY <1>1, NestedReturn

\* and notify() looks at what it finds: a reply it takes is that of its event, and grounded.
LEMMA ReadReplyStep ==
  ASSUME IInv, ReadReply
  PROVE  IInv'
<1>1. Writes({}) /\ Still
  BY DEF ReadReply, Writes, Still, modemVars, histVars
<1>2. Typed
  BY TypesNow DEF ReadReply, Typed, sessionVars
<1>3. Tail(stack) \in Seq(Labels) /\ Nested("receive", Tail(stack))
  BY UnderRead DEF ReadReply
<1>4. pc' \in {"answered", "notify"} /\ stack' = Tail(stack)
  BY DEF ReadReply
<1>5. pc' \in Labels /\ Under("receive") = Under(pc') /\ pc' \notin Waits /\ pc' \notin SetUp
  BY <1>4, Tables DEF Labels, Notifying, Waits, SetUp
<1>6. Moves /\ Caller(pc', stack') \notin SetUp
  <2>1. Nested(pc', Tail(stack))
    BY <1>3, <1>5, NestedGoto
  <2> QED
    BY <1>3, <1>4, <1>5, <2>1 DEF Moves, Caller
<1>7. pc' = "answered" => event' \in handled
  BY DEF ReadReply, IsReply, sessionVars, IInv, RepliesGrounded, TypeOK
<1> QED
  BY <1>1, <1>2, <1>6, <1>7, ClientMoves

\* inbound() drops what it finds.
LEMMA InboundStep ==
  ASSUME IInv, Inbound
  PROVE  IInv'
<1>1. Writes({"check"}) /\ Still
  BY DEF Inbound, Writes, Still, Data, histVars
<1>2. Typed
  BY TypesNow DEF Inbound, Typed, sessionVars
<1>3. Tail(stack) \in Seq(Labels) /\ Nested("inbound", Tail(stack))
  BY UnderRead DEF Inbound
<1>4. pc' = "wait" /\ stack' = <<"checked">> \o Tail(stack)
  BY DEF Inbound
<1>5. /\ "checked" \in Labels /\ "checked" \in Under("wait") /\ "wait" \in Waits \cap Labels
      /\ Under("inbound") = Under("checked") /\ "checked" \notin SetUp
  <2>1. "checked" \in Labels /\ "wait" \in Waits \cap Labels /\ "checked" \notin SetUp
    BY DEF Labels, Waits, SetUp
  <2>2. "checked" \in Awaiting /\ "inbound" \in Outermost /\ "checked" \in Outermost
    BY DEF Awaiting, Outermost
  <2> QED
    BY <2>1, <2>2, Tables
<1>6. Moves /\ Caller(pc', stack') = "checked"
  <2>1. Nested("checked", Tail(stack))
    BY <1>3, <1>5, NestedGoto
  <2>2. /\ <<"checked">> \o Tail(stack) \in Seq(Labels)
        /\ Nested("wait", <<"checked">> \o Tail(stack))
        /\ (<<"checked">> \o Tail(stack))[1] = "checked"
    BY <1>3, <1>5, <2>1, NestedCall
  <2> QED
    BY <1>4, <1>5, <2>2 DEF Moves, Caller
<1>7. Caller(pc', stack') \notin SetUp /\ pc' # "answered"
  BY <1>4, <1>5, <1>6
<1> QED
  BY <1>1, <1>2, <1>6, <1>7, AwayMoves DEF Kind

\* open() goes on behind the answer for the address.
LEMMA DialStep ==
  ASSUME IInv, Dial
  PROVE  IInv'
<1>1. Writes({"open"}) /\ Still
  BY DEF Dial, Writes, Still, Data, lineVars, histVars
<1>2. Typed
  BY TypesNow DEF Dial, Typed, lineVars, sessionVars
<1>3. stack \in Seq(Labels) /\ Nested("dial", stack) /\ pc' = "wait" /\ stack' = stack
  BY DEF Dial, IInv, Lines
<1>4. /\ Under("dial") \subseteq Under("wait") /\ Under("dial") # {}
      /\ Under("dial") \cap SetUp = {}
      /\ "wait" \in Waits \cap Labels
  BY Tables DEF Labels, Waits, Awaiting, SetUp
<1>5. stack[1] \in Under("dial")
  BY <1>3, <1>4, NestedReturn
<1>6. Nested("wait", stack)
  BY <1>3, <1>4, NestedGoto
<1>7. Moves /\ Caller(pc', stack') \notin SetUp /\ pc' # "answered"
  BY <1>3, <1>4, <1>5, <1>6 DEF Moves, Caller
<1> QED
  BY <1>1, <1>2, <1>7, AwayMoves DEF Kind

\* The log-out, if there was a log-in.
LEMMA ShutdownStep ==
  ASSUME IInv, Shutdown
  PROVE  IInv'
<1>1. Writes({}) /\ Still
  BY DEF Shutdown, Writes, Still, modemVars, lineVars, histVars
<1>2. Typed
  BY TypesNow, Constants DEF Shutdown, Typed, lineVars, Event
<1>3. Moves /\ Caller(pc', stack') \notin SetUp /\ pc' # "answered"
  <2>1. CASE login
    <3>1. pc' = "notify" /\ stack' = <<"reset">>
      BY <2>1 DEF Shutdown
    <3>2. /\ "reset" \in Under("notify") /\ Under("reset") = {} /\ "notify" \in Labels
          /\ "reset" \in Labels
      BY Tables DEF Notifying, Outermost, Labels
    <3>3. <<"reset">> \in Seq(Labels) /\ Nested("notify", <<"reset">>)
      BY <3>2 DEF Nested
    <3> QED
      BY <3>1, <3>2, <3>3 DEF Moves, Caller, SetUp
  <2>2. CASE ~login
    <3>1. pc = "shutdown" /\ Goto("reset")
      BY <2>2 DEF Shutdown
    <3>2. /\ "reset" \in Labels \ Waits /\ Under("shutdown") = Under("reset")
          /\ "reset" \notin SetUp
      BY Tables DEF Outermost, Labels, Waits, SetUp
    <3>3. Moves /\ Caller(pc', stack') = "reset" /\ pc' = "reset"
      BY <3>1, <3>2, Goes
    <3> QED
      BY <3>2, <3>3
  <2> QED
    BY <2>1, <2>2
<1> QED
  BY <1>1, <1>2, <1>3, AwayMoves

-----------------------------------------------------------------------------
(* The modem is powered up.                                                *)

\* initCell() is called from the loop, with nothing else under way.
LEMMA BeginStep ==
  ASSUME IInv, Begin
  PROVE  IInv'
<1>1. /\ UNCHANGED <<todo, sock, rx, air, handled, incoming, login, packets, next>>
      /\ pc' = "power" /\ ok' = FALSE /\ item' = Nothing /\ event' = LOGIN
      /\ tries' = 0 /\ rounds' = 0 /\ reply' = Nothing
  BY DEF Begin, modemVars, histVars
<1>2. todo \in Seq(Commands)
  BY Shapes
<1>3. stack' \in Seq(Labels) /\ Nested("power", stack')
  <2>1. ASSUME NEW a \in Labels, NEW b \in Labels,
               a \in Under("power"), b \in Under(a), Under(b) = {}
        PROVE  <<a, b>> \in Seq(Labels) /\ Nested("power", <<a, b>>)
    BY <2>1 DEF Nested
  <2>2. /\ Under("power") = {"connect", "ping"}
        /\ "linked" \in Under("connect") /\ "shutdown" \in Under("ping")
        /\ Under("linked") = {} /\ Under("shutdown") = {}
        /\ {"connect", "ping", "linked", "shutdown"} \subseteq Labels
    BY Tables DEF SetUp, Connecting, Pinging, Outermost, Labels
  <2>3. stack' \in {<<"connect", "linked">>, <<"ping", "shutdown">>}
    BY DEF Begin
  <2> QED
    BY <2>1, <2>2, <2>3
<1>4. /\ "power" \in Labels /\ "power" \notin Waits /\ LOGIN \in Event /\ Nothing \in Told
      /\ Nothing \notin Event
  BY Constants DEF Labels, Waits, Event
<1>5. TypeOK'
  <2>1. 0 \in 0 .. MaxAttempts /\ 0 \in 0 .. Unheeded + MaxAttempts
    BY Constants
  <2> QED
    BY <1>1, <1>2, <1>3, <1>4, <2>1, TypesOfLines DEF IInv, TypeOK
<1>6. Lines' /\ Nested(pc', stack')
  BY <1>1, <1>2, <1>3 DEF Lines
<1>7. RepliesGrounded' /\ AnswersGrounded' /\ SetUpIsQuiet'
  BY <1>1, <1>4 DEF IInv, RepliesGrounded, AnswersGrounded, SetUpIsQuiet
<1> QED
  BY <1>5, <1>6, <1>7 DEF IInv

\* After a pulse nothing is on its way.
LEMMA PowerUpStep ==
  ASSUME IInv, PowerUp
  PROVE  IInv'
<1>1. /\ UNCHANGED <<reply, incoming, ok, item, event, tries, login, packets, next>>
      /\ pc = "power" /\ pc' = "wait" /\ stack' = <<"powered">> \o stack
      /\ rx' = << >> /\ sock' = FALSE /\ air' = {} /\ handled' = {}
      /\ rounds < MaxAttempts /\ rounds' = rounds + 1
  BY DEF PowerUp, Call, lineVars
<1>2. reply \notin Event /\ (rounds # 0 => Quiet)
  BY <1>1 DEF IInv, SetUpIsQuiet, Caller, SetUp, Waits
<1>3. todo' \in Seq(Commands) /\ Silent(todo')
  <2>1. Command("check", Nothing) \in Commands /\ Command("check", Nothing).kind = "check"
    BY DEF Command, Commands, Kind
  <2>2. CASE todo' = <<Command("check", Nothing)>>
    BY <2>1, <2>2 DEF Silent, Loud
  <2>3. CASE rounds > 0 /\ todo' = Append(todo, Command("check", Nothing))
    <3>1. Silent(todo)
      BY <1>2, <2>3 DEF Quiet
    <3>2. Writes({"check"})
      BY <2>3 DEF Writes, Data
    <3>3. {"check"} \in SUBSET Kind /\ {"check"} \cap Loud = {}
      BY DEF Kind, Loud
    <3> QED
      BY <3>1, <3>2, <3>3, Written
  <2> QED
    BY <2>2, <2>3 DEF PowerUp
<1>4. rx' \in Seq(Token) /\ \A E : Grounded(rx', E)
  BY <1>1 DEF Grounded
<1>5. Moves /\ Caller(pc', stack') = "powered"
  <2>1. /\ "wait" \in Labels \cap Waits /\ "powered" \in Under("wait")
        /\ Under("power") = Under("powered")
    BY SetUpAsks DEF Waits, Awaiting, SetUp
  <2> QED
    BY <1>1, <2>1, CallsOn
<1>6. TypeOK'
  <2>1. rounds' \in 0 .. Unheeded + MaxAttempts
    BY <1>1, Constants, TypesNow
  <2>2. stack' \in Seq(Labels) /\ pc' \in Labels
    BY <1>5 DEF Moves
  <2> QED
    BY <1>1, <1>3, <1>4, <2>1, <2>2, TypesOfLines DEF IInv, TypeOK
<1>7. Lines' /\ Nested(pc', stack')
  BY <1>3, <1>5 DEF Lines, Moves
<1>8. RepliesGrounded' /\ AnswersGrounded'
  BY <1>1, <1>2, <1>4 DEF RepliesGrounded, AnswersGrounded
<1>9. SetUpIsQuiet'
  BY <1>1, <1>2, <1>3, <1>4 DEF SetUpIsQuiet, Quiet
<1> QED
  BY <1>6, <1>7, <1>8, <1>9 DEF IInv

-----------------------------------------------------------------------------
(* What was waited for, or something else, has been read.                  *)

\* Whatever part of the line is read, the calls are nested as before and the rest is grounded.
LEMMA ReadStep ==
  ASSUME IInv, Waiting, NEW n \in 0 .. Len(rx), ReadPrefix(n),
         UNCHANGED <<todo, sock, air, sessionVars, histVars>>
  PROVE  IInv'
<1> DEFINE read == SubSeq(rx, 1, n)
<1>1. /\ todo \in Seq(Commands) /\ stack \in Seq(Labels) /\ rx \in Seq(Token) /\ Len(rx) \in Nat
      /\ Grounded(rx, handled)
  BY Shapes DEF IInv, RepliesGrounded
<1>2. /\ reply' = Looked(Sought, read) /\ rx' = SubSeq(rx, n + 1, Len(rx))
      /\ incoming' = Noticed(Kinds(read)) /\ ok' = Success(pc, Kinds(read))
      /\ pc' = Head(stack) /\ stack' = Tail(stack)
  BY DEF ReadPrefix, Return
<1>3. /\ UNCHANGED <<todo, sock, air, handled>>
      /\ UNCHANGED <<item, event, tries, rounds, login, packets, next>>
  BY DEF sessionVars, histVars
<1>4. ASSUME NEW E, Grounded(rx, E)
      PROVE  /\ rx' \in Seq(Token) /\ Grounded(rx', E)
             /\ reply' \in Told /\ (reply' \in Event => reply' \in E)
  <2>1. read \in Seq(Token) /\ Grounded(read, E)
    BY <1>1, <1>4, GroundedPart
  <2>2. rx' \in Seq(Token) /\ Grounded(rx', E)
    BY <1>1, <1>2, <1>4, GroundedPart
  <2>3. /\ Looked(Sought, read) \in Told
        /\ (Looked(Sought, read) \in Event => Looked(Sought, read) \in E)
    BY <2>1, LookedIsTold
  <2> QED
    BY <1>2, <2>2, <2>3
<1> HIDE DEF read
<1>5. /\ Moves /\ Caller(pc', stack') = Caller(pc, stack) /\ pc' \notin {"answered", "power"}
  <2>1. Under(pc) # {}
    BY Tables DEF Waiting, Awaiting
  <2>2. /\ Moves /\ pc' = stack[1] /\ Caller(pc', stack') = pc' /\ pc' \notin {"answered", "power"}
    BY <1>2, <2>1, ComesBack
  <2> QED
    BY <2>2 DEF Caller, Waiting
<1>6. incoming' \in BOOLEAN /\ ok' \in BOOLEAN
  <2>1. Noticed(Kinds(read)) \in BOOLEAN
    BY DEF Noticed
  <2>2. Success(pc, Kinds(read)) \in BOOLEAN
    BY DEF Success
  <2> QED
    BY <1>2, <2>1, <2>2
<1>7. TypeOK'
  BY <1>1, <1>3, <1>4, <1>5, <1>6 DEF IInv, TypeOK, Moves
<1>8. Lines' /\ Nested(pc', stack') /\ AnswersGrounded'
  BY <1>1, <1>5 DEF Lines, Moves, AnswersGrounded
<1>9. RepliesGrounded'
  BY <1>3, <1>4 DEF IInv, RepliesGrounded
<1>10. SetUpIsQuiet'
  <2> SUFFICES ASSUME Caller(pc', stack') \in SetUp
               PROVE  reply' \notin Event /\ Quiet'
    BY DEF SetUpIsQuiet
  <2>1. Quiet
    BY <1>5 DEF IInv, SetUpIsQuiet, Waiting, Waits
  <2>2. Grounded(rx', {}) /\ reply' \notin Event
    BY <1>4, <2>1 DEF Quiet
  <2> QED
    BY <2>1, <2>2 DEF Quiet
<1> QED
  BY <1>7, <1>8, <1>9, <1>10 DEF IInv

\* The three ways of reading differ only in how much is read.
LEMMA LineStep ==
  ASSUME IInv, Line
  PROVE  IInv'
<1>1. PICK n \in 0 .. Len(rx) :
        Waiting /\ ReadPrefix(n) /\ UNCHANGED <<todo, sock, air, sessionVars, histVars>>
  <2>1. CASE Match
    BY <2>1 DEF Match
  <2>2. CASE MatchAndMore
    BY <2>2 DEF MatchAndMore
  <2>3. CASE Timeout
    BY <2>3 DEF Timeout
  <2> QED
    BY <2>1, <2>2, <2>3 DEF Line
<1> QED
  BY <1>1, ReadStep

-----------------------------------------------------------------------------
(* The theorems.                                                           *)

\* The invariant holds when the task starts.
LEMMA InitEstablishes == Init => IInv
<1> SUFFICES ASSUME Init
             PROVE  IInv
  OBVIOUS
<1>1. << >> \in Seq(Commands) /\ << >> \in Seq(Labels) /\ << >> \in Seq(Token) /\ Len(<< >>) = 0
  OBVIOUS
<1>2. /\ "off" \in Labels /\ "off" \notin Waits /\ "off" \notin SetUp /\ Under("off") = {}
      /\ LOGIN \in Event /\ Nothing \in Told
  BY Tables, Constants DEF Labels, Waits, Outermost, Event
<1>3. /\ 0 \in 0 .. MaxAttempts /\ 0 \in 0 .. Unheeded + MaxAttempts
      /\ 0 \in 0 .. ReopenAfter - 1 /\ 1 \in 1 .. MaxPackets + 1
  BY Constants
<1>4. TypeOK
  BY <1>1, <1>2, <1>3, TypesOfLines DEF Init, TypeOK
<1>5. Lines /\ Nested(pc, stack) /\ AnswersGrounded
  BY <1>2 DEF Init, Lines, Nested, AnswersGrounded
<1>6. SetUpIsQuiet /\ RepliesGrounded
  BY <1>2, Constants DEF Init, SetUpIsQuiet, Caller, RepliesGrounded, Grounded
<1> QED
  BY <1>4, <1>5, <1>6 DEF IInv

\* Nothing happens.
LEMMA StutterStep ==
  ASSUME IInv, UNCHANGED vars
  PROVE  IInv'
<1>1. /\ UNCHANGED <<todo, sock, rx, air, reply, incoming, pc, stack, ok, handled>>
      /\ UNCHANGED <<item, event, tries, rounds, login, packets, next>>
  BY DEF vars, modemVars, lineVars, callVars, sessionVars, histVars
<1>2. TypeOK' /\ Lines' /\ Nested(pc', stack')
  BY <1>1 DEF IInv, TypeOK, Lines
<1>3. SetUpIsQuiet' /\ RepliesGrounded' /\ AnswersGrounded'
  BY <1>1 DEF IInv, SetUpIsQuiet, Quiet, RepliesGrounded, AnswersGrounded
<1> QED
  BY <1>2, <1>3 DEF IInv

\* What the invariant says holds in every reachable state.
THEOREM Inductive == Spec => []IInv
<1>1. IInv /\ [Next]_vars => IInv'
  <2> SUFFICES ASSUME IInv, [Next]_vars
               PROVE  IInv'
    OBVIOUS
  <2>1. CASE Line
    BY <2>1, LineStep
  <2>2. CASE Client
    BY <2>2, PowerUpStep, NoModemStep, EchoStep, IdentifiedStep, AskSimStep, SimAskedStep,
       AskSimAgainStep, SearchStep, SearchedStep, RegistersStep, OpenNetworkStep, NotifyStep,
       NotifySentStep, ReceiveStep, ReadReplyStep, AnsweredStep, ConnectCloseStep,
       ConnectOpenStep, ConnectOpenedStep, ConnectNotifiedStep, ConnectCheckedStep,
       QuickCloseStep, DialStep, TransmitStep, TransmitSendStep, TransmittedStep, InboundStep,
       ShutdownStep, ResetStep, PingOpenStep, PingOpenedStep, PingedStep DEF Client
  <2>3. CASE Verdict
    BY <2>3, LinkedStep, CheckedStep, SyncedStep DEF Verdict
  <2>4. CASE World
    BY <2>4, ModemStep, WorldStep DEF World
  <2>5. CASE Begin
    BY <2>5, BeginStep
  <2>6. CASE Park
    BY <2>6, ParkStep
  <2>7. CASE UNCHANGED vars
    BY <2>7, StutterStep
  <2> QED
    BY <2>1, <2>2, <2>3, <2>4, <2>5, <2>6, <2>7 DEF Next
<1> QED
  BY <1>1, InitEstablishes, PTL DEF Spec

\* The client's variables, the commands and the tokens on the line keep their types, and no
\* retry passes its limit.
THEOREM TypeCorrect == Spec => []TypeOK
<1>1. IInv => TypeOK
  BY DEF IInv
<1> QED
  BY <1>1, Inductive, PTL

\* When notify() takes an event for answered, the server has handled it since the modem was
\* powered up: however late the answers come, whatever was left in the client's buffer, and
\* however often the call was repeated.
THEOREM AnswersAreGrounded == Spec => []AnswersGrounded
<1>1. IInv => AnswersGrounded
  BY DEF IInv
<1> QED
  BY <1>1, Inductive, PTL

=============================================================================
