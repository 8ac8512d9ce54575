--------------------------- MODULE RecordSpoolProofs ---------------------------
(***************************************************************************)
(* The spool keeps its promises for every number of packets, of boots and  *)
(* of records between two flushes, and every choice of cards. Types, the   *)
(* two handles and the marks need nothing of the card; the order of the    *)
(* drain needs a directory that can be read; that nothing is forgotten,    *)
(* and SpoolPromise, need a card that works.                               *)
(***************************************************************************)
EXTENDS RecordSpool, FiniteSetTheorems, WellFoundedInduction, TLAPS

-----------------------------------------------------------------------------
(***************************************************************************)
(* Numbers and sequences.                                                  *)
(***************************************************************************)
\* Every nonempty set of naturals has a least element ...
LEMMA HasLeast ==
  ASSUME NEW S, S \subseteq Nat, S # {}
  PROVE  \E n \in S : \A m \in S : n <= m
<1> DEFINE R == {ss \in Nat \X Nat : ss[1] < ss[2]}
<1>1. IsWellFoundedOn(R, Nat)
  BY NatLessThanWellFounded DEF OpToRel
<1>2. PICK n \in S : \A m \in S : <<m, n>> \notin R
  <2> HIDE DEF R
  <2> QED BY <1>1, WFMin
<1>3. ASSUME NEW m \in S PROVE n <= m
  <2>1. n \in Nat /\ m \in Nat
    OBVIOUS
  <2>2. ~(m < n)
    BY <1>2, <2>1
  <2> QED
    BY <2>1, <2>2
<1> QED
  BY <1>3

\* ... and, if it is bounded, a greatest.
LEMMA HasGreatest ==
  ASSUME NEW S, S \subseteq Nat, S # {}, NEW b \in Nat, \A n \in S : n < b
  PROVE  \E n \in S : \A m \in S : m <= n
<1> DEFINE T == {k \in Nat : b - k \in S}
<1>1. PICK n \in S : TRUE
  OBVIOUS
<1>2. b - n \in T
  <2>1. n \in Nat /\ n < b
    OBVIOUS
  <2>2. b - n \in Nat /\ b - (b - n) = n
    BY <2>1
  <2> QED
    BY <2>2
<1>3. PICK t \in T : \A u \in T : t <= u
  BY <1>2, HasLeast
<1>4. ASSUME NEW m \in S PROVE m <= b - t
  <2>1. m \in Nat /\ m < b
    OBVIOUS
  <2>2. b - m \in Nat /\ b - (b - m) = m
    BY <2>1
  <2>3. t <= b - m
    BY <2>2, <1>3
  <2> QED
    BY <2>1, <2>3
<1> QED
  BY <1>4

\* init() finds a number beyond every one in the directory.
LEMMA FirstFreeBeyond ==
  ASSUME NEW S, S \subseteq Nat, NEW b \in Nat, \A n \in S : n < b
  PROVE  FirstFree(S) \in Nat \ {0} /\ \A n \in S : n < FirstFree(S)
<1>1. CASE S = {}
  BY <1>1 DEF FirstFree
<1>2. CASE S # {}
  <2> DEFINE g == CHOOSE n \in S : \A m \in S : m <= n
  <2>1. g \in S /\ \A m \in S : m <= g
    BY <1>2, HasGreatest
  <2>2. FirstFree(S) = 1 + g
    BY <1>2 DEF FirstFree
  <2> HIDE DEF g
  <2> QED
    BY <2>1, <2>2
<1> QED
  BY <1>1, <1>2

\* A packet appended to a file.
LEMMA AppendFacts ==
  ASSUME NEW s \in Seq(Entry), NEW e \in Entry
  PROVE  /\ Append(s, e) \in Seq(Entry) /\ Len(Append(s, e)) = Len(s) + 1
         /\ \A i \in 1 .. Len(s) : Append(s, e)[i] = s[i]
         /\ Append(s, e)[Len(s) + 1] = e
OBVIOUS

\* A file cut back to its first k packets.
LEMMA CutFacts ==
  ASSUME NEW s \in Seq(Entry), NEW k \in 0 .. Len(s)
  PROVE  /\ SubSeq(s, 1, k) \in Seq(Entry) /\ Len(SubSeq(s, 1, k)) = k
         /\ \A i \in 1 .. k : SubSeq(s, 1, k)[i] = s[i]
OBVIOUS

\* Quotient and remainder.
LEMMA Division ==
  ASSUME NEW c \in Nat
  PROVE  /\ c % FlushEvery \in 0 .. FlushEvery - 1
         /\ c \div FlushEvery \in Nat
         /\ c = FlushEvery * (c \div FlushEvery) + (c % FlushEvery)
BY SpoolAssumption

\* One more record: the remainder by FlushEvery goes up by one, or back to zero.
LEMMA RemainderSteps ==
  ASSUME NEW c \in Nat
  PROVE  /\ c % FlushEvery \in 0 .. FlushEvery - 1
         /\ (c + 1) % FlushEvery # 0 => (c + 1) % FlushEvery = (c % FlushEvery) + 1
<1> DEFINE q == c \div FlushEvery
           r == c % FlushEvery
           p == (c + 1) \div FlushEvery
           t == (c + 1) % FlushEvery
<1>1. q \in Nat /\ r \in 0 .. FlushEvery - 1 /\ c = FlushEvery * q + r
  BY Division
<1>2. p \in Nat /\ t \in 0 .. FlushEvery - 1 /\ c + 1 = FlushEvery * p + t
  BY Division
<1> HIDE DEF q, r, p, t
<1>3. ASSUME t # 0 PROVE t = r + 1
  <2>1. FlushEvery * q + r + 1 = FlushEvery * p + t
    BY <1>1, <1>2, SpoolAssumption
  <2>2. FlushEvery * (p - q) = r + 1 - t
    BY <2>1, <1>1, <1>2, SpoolAssumption
  <2>3. r + 1 - t < FlushEvery /\ r + 1 - t > -FlushEvery
    BY <1>1, <1>2, <1>3, SpoolAssumption
  <2>4. p - q \in Int /\ p - q < 1 /\ p - q > -1
    <3>1. p - q >= 1 => FlushEvery * (p - q) >= FlushEvery
      BY <1>1, <1>2, SpoolAssumption
    <3>2. p - q <= -1 => FlushEvery * (p - q) <= -FlushEvery
      BY <1>1, <1>2, SpoolAssumption
    <3> QED
      BY <2>2, <2>3, <3>1, <3>2, <1>1, <1>2, SpoolAssumption
  <2> QED
    BY <2>2, <2>4, <1>1, <1>2, SpoolAssumption
<1> QED
  BY <1>1, <1>3 DEF r, t

\* What a file is made of.
LEMMA FileFacts ==
  ASSUME TypeOK, NEW n \in DOMAIN files
  PROVE  /\ n \in Nat \ {NoFile}
         /\ files[n] \in Seq(Entry) /\ Len(files[n]) \in Nat
         /\ DOMAIN files[n] = 1 .. Len(files[n])
         /\ \A i \in DOMAIN files[n] :
              /\ files[n][i] \in Entry
              /\ files[n][i].rec \in Record /\ files[n][i].rec \in Nat
              /\ files[n][i].mark \in Nat /\ files[n][i].whole \in BOOLEAN
<1>1. n \in Nat \ {NoFile} /\ files[n] \in Seq(Entry)
  BY DEF TypeOK
<1>2. Len(files[n]) \in Nat /\ DOMAIN files[n] = 1 .. Len(files[n])
  BY <1>1
<1>3. \A i \in DOMAIN files[n] : files[n][i] \in Entry
  BY <1>1, <1>2
<1> QED
  BY <1>1, <1>2, <1>3 DEF Entry, Record, Boot, Stamped

-----------------------------------------------------------------------------
(***************************************************************************)
(* On any card, one whose directory cannot always be read included.        *)
(***************************************************************************)

\* What stands in a file was accepted, and its mark, if it has one, is the boot it was
\* captured in.
Marks ==
  \A n \in DOMAIN files : \A i \in DOMAIN files[n] :
    LET e == files[n][i] IN
    /\ e.rec <= accepted
    /\ e.mark # Stamped => e.mark = origin[e.rec]

\* The directory ends somewhere, so that init() finds a number beyond it.
Finite == \E b \in Nat : \A n \in DOMAIN files : n < b

\* By the bound NotUnderHead this holds in blind boots too.
HandlesApart == outage # NoFile => outage # drain

AnyCard == TypeOK /\ HandlesApart /\ FilesApart /\ Marks /\ Finite

\* The packet that comes next.
LEMMA NextPacket ==
  ASSUME TypeOK, AcceptNext
  PROVE  /\ accepted \in Nat /\ accepted + 1 \in Record /\ accepted' = accepted + 1
         /\ accepted' \in 0 .. MaxRecords /\ origin' \in [Record -> Boot \cup {0}]
         /\ origin'[accepted + 1] = boot
         /\ \A r \in Record : r <= accepted => origin'[r] = origin[r]
<1>1. accepted \in Nat /\ accepted < MaxRecords /\ boot \in Boot
  BY SpoolAssumption DEF AcceptNext, TypeOK
<1>2. accepted + 1 \in Record /\ accepted' = accepted + 1 /\ accepted' \in 0 .. MaxRecords
  BY <1>1, SpoolAssumption DEF AcceptNext, Record
<1>3. origin \in [Record -> Boot \cup {0}] /\ origin' = [origin EXCEPT ![accepted + 1] = boot]
  BY DEF AcceptNext, TypeOK
<1>4. origin' \in [Record -> Boot \cup {0}] /\ origin'[accepted + 1] = boot
  BY <1>1, <1>2, <1>3
<1>5. ASSUME NEW r \in Record, r <= accepted PROVE origin'[r] = origin[r]
  BY <1>1, <1>3, <1>5 DEF Record
<1> QED
  BY <1>1, <1>2, <1>4, <1>5

\* An append may truncate an orphan, but never the file under the read head.
LEMMA TargetAnyCard ==
  ASSUME AnyCard, OpenForAppend
  PROVE  /\ Target \in Nat \ {NoFile} /\ Written \in Seq(Entry) /\ Target # drain
         /\ outage # NoFile => Target = outage /\ outage \in DOMAIN files /\ Written = files[outage]
         /\ outage = NoFile => Target = nextSeq /\ Written = << >>
BY DEF AnyCard, TypeOK, HandlesApart, FilesApart, OpenForAppend, NotUnderHead, Target, Written, NoFile

LEMMA GrowAnyCard ==
  ASSUME AnyCard, AcceptNext, OpenForAppend,
         NEW e \in Entry, e.rec = accepted + 1, e.mark # Stamped => e.mark = boot,
         NEW p, p = Written \/ p = Append(Written, e), Write(Target, p),
         lost' = lost \/ lost' = lost \cup {accepted + 1},
         synced' \in 0 .. Len(p), count' \in Nat,
         UNCHANGED <<drainVars, bootVars, confirmed, stale>>
  PROVE  AnyCard'
<1> USE DEF drainVars, bootVars
<1>0. TypeOK
  BY DEF AnyCard
<1>1. /\ accepted \in Nat /\ accepted + 1 \in Record /\ accepted' = accepted + 1
      /\ accepted' \in 0 .. MaxRecords /\ origin' \in [Record -> Boot \cup {0}]
      /\ origin'[accepted + 1] = boot
      /\ \A r \in Record : r <= accepted => origin'[r] = origin[r]
  BY <1>0, NextPacket
<1>2. /\ Target \in Nat \ {NoFile} /\ Written \in Seq(Entry) /\ Target # drain
      /\ outage # NoFile => Target = outage /\ outage \in DOMAIN files /\ Written = files[outage]
      /\ outage = NoFile => Target = nextSeq /\ Written = << >>
  BY TargetAnyCard
<1>3. /\ outage' = Target
      /\ nextSeq' = IF outage = NoFile THEN nextSeq + 1 ELSE nextSeq
  BY DEF OpenForAppend
<1>4. p \in Seq(Entry) /\ \A i \in DOMAIN p : p[i] = e \/ (i \in DOMAIN Written /\ p[i] = Written[i])
  <2>1. CASE p = Written
    BY <2>1, <1>2
  <2>2. CASE p = Append(Written, e)
    <3>1. /\ p \in Seq(Entry) /\ Len(p) = Len(Written) + 1
          /\ \A i \in 1 .. Len(Written) : p[i] = Written[i]
          /\ p[Len(Written) + 1] = e
      BY <2>2, <1>2, AppendFacts
    <3>2. Len(Written) \in Nat /\ DOMAIN Written = 1 .. Len(Written) /\ DOMAIN p = 1 .. Len(p)
      BY <1>2, <3>1
    <3> QED
      BY <3>1, <3>2
  <2> QED
    BY <2>1, <2>2
<1>5. /\ DOMAIN files' = DOMAIN files \cup {Target} /\ files'[Target] = p
      /\ \A n \in DOMAIN files : n # Target => files'[n] = files[n]
  BY DEF Write
<1>6. TypeOK'
  <2>1. /\ DOMAIN files' \subseteq Nat \ {NoFile} /\ outage' \in DOMAIN files' \cup {NoFile}
        /\ drain' \in DOMAIN files' \cup {NoFile}
        /\ \A n \in DOMAIN files' : files'[n] \in Seq(Entry)
    BY <1>0, <1>2, <1>3, <1>4, <1>5 DEF TypeOK
  <2>2. nextSeq' \in Nat \ {NoFile}
    BY <1>0, <1>3 DEF TypeOK, NoFile
  <2>3. synced' \in 0 .. IF outage' = NoFile THEN 0 ELSE Len(files'[outage'])
    BY <1>2, <1>3, <1>5
  <2>4. pos' \in 0 .. IF drain' = NoFile THEN 0 ELSE Len(files'[drain'])
    <3>1. drain # NoFile => files'[drain] = files[drain]
      BY <1>0, <1>2, <1>5 DEF TypeOK
    <3> QED
      BY <1>0, <3>1 DEF TypeOK
  <2>5. lost' \subseteq Record
    BY <1>0, <1>1 DEF TypeOK
  <2> QED
    BY <1>0, <1>1, <2>1, <2>2, <2>3, <2>4, <2>5 DEF TypeOK
<1>7. HandlesApart' /\ FilesApart'
  <2>1. nextSeq \in Nat /\ DOMAIN files \subseteq Nat
    BY <1>0 DEF TypeOK
  <2>2. outage # NoFile => outage \in DOMAIN files
    BY <1>2
  <2>3. ASSUME ~blind, NEW n \in DOMAIN files' PROVE n < nextSeq'
    <3>1. \A m \in DOMAIN files : m < nextSeq
      BY <2>3 DEF AnyCard, HandlesApart, FilesApart
    <3>2. n \in DOMAIN files \/ n = Target
      BY <1>5
    <3> QED
      BY <3>1, <3>2, <2>1, <2>2, <1>2, <1>3
  <2> QED
    BY <1>2, <1>3, <2>3 DEF HandlesApart, FilesApart
<1>8. Marks'
  <2> SUFFICES ASSUME NEW n \in DOMAIN files', NEW i \in DOMAIN files'[n]
               PROVE  /\ files'[n][i].rec <= accepted'
                      /\ files'[n][i].mark # Stamped =>
                           files'[n][i].mark = origin'[files'[n][i].rec]
    BY DEF Marks
  <2>1. CASE files'[n][i] = e
    BY <2>1, <1>1
  <2>2. ASSUME NEW m \in DOMAIN files, i \in DOMAIN files[m], files'[n][i] = files[m][i]
        PROVE  /\ files'[n][i].rec <= accepted'
               /\ files'[n][i].mark # Stamped =>
                    files'[n][i].mark = origin'[files'[n][i].rec]
    <3> DEFINE x == files[m][i]
    <3>1. x.rec <= accepted /\ (x.mark # Stamped => x.mark = origin[x.rec])
      BY <2>2 DEF AnyCard, Marks
    <3>2. x.rec \in Record /\ x.rec \in Nat
      BY <1>0, <2>2, FileFacts
    <3>3. origin'[x.rec] = origin[x.rec] /\ x.rec <= accepted'
      BY <3>1, <3>2, <1>1
    <3> QED
      BY <2>2, <3>1, <3>3
  <2>3. CASE n # Target
    BY <2>3, <2>2, <1>5
  <2>4. CASE n = Target /\ i \in DOMAIN Written /\ files'[n][i] = Written[i]
    <3>1. outage # NoFile
      BY <2>4, <1>2
    <3> QED
      BY <2>4, <3>1, <1>2, <2>2
  <2> QED
    BY <2>1, <2>3, <2>4, <1>4, <1>5
<1>9. Finite'
  <2>1. PICK b \in Nat : \A n \in DOMAIN files : n < b
    BY DEF AnyCard, Finite
  <2>2. \A n \in DOMAIN files' : n < b + Target + 1
    BY <2>1, <1>0, <1>2, <1>5 DEF TypeOK
  <2>3. b + Target + 1 \in Nat
    BY <2>1, <1>2
  <2> QED
    BY <2>2, <2>3 DEF Finite
<1> QED
  BY <1>6, <1>7, <1>8, <1>9 DEF AnyCard

\* An append that works, or that fails half way.
LEMMA AppendAnyCard ==
  ASSUME AnyCard, NEW stamped \in BOOLEAN, AppendRecord(stamped) \/ AppendFails(stamped)
  PROVE  AnyCard'
<1>0. TypeOK
  BY DEF AnyCard
<1>1. accepted \in Nat /\ accepted + 1 \in Record /\ boot \in Boot
  BY <1>0, NextPacket DEF AppendRecord, AppendFails, TypeOK
<1>2. OpenForAppend => /\ Written \in Seq(Entry) /\ Len(Written) \in Nat
                       /\ synced \in Nat /\ count \in Nat
                       /\ outage # NoFile => synced <= Len(Written)
  BY <1>0, TargetAnyCard DEF TypeOK
<1>3. CASE AppendRecord(stamped)
  <2> DEFINE e == [rec |-> accepted + 1, mark |-> Mark(stamped), whole |-> TRUE]
             p == Append(Written, e)
             n == (IF outage = NoFile THEN 0 ELSE count) + 1
  <2>1. /\ AcceptNext /\ OpenForAppend /\ Write(Target, p)
        /\ count' = n
        /\ synced' = IF FlushDue(n) THEN Len(p) ELSE IF outage = NoFile THEN 0 ELSE synced
        /\ UNCHANGED <<drainVars, bootVars, confirmed, stale, lost>>
    BY <1>3 DEF AppendRecord, fateVars
  <2>2. e \in Entry /\ e.rec = accepted + 1 /\ (e.mark # Stamped => e.mark = boot)
    BY <1>1 DEF Entry, Mark
  <2> HIDE DEF e
  <2>3. Len(p) = Len(Written) + 1
    BY <2>1, <2>2, <1>2, AppendFacts
  <2> HIDE DEF p
  <2>4. synced' \in 0 .. Len(p) /\ count' \in Nat
    BY <1>2, <2>1, <2>3
  <2> QED
    BY <2>1, <2>2, <2>4, GrowAnyCard DEF p
<1>4. CASE AppendFails(stamped) /\ outage = NoFile /\ UNCHANGED cardVars
  <2>1. /\ UNCHANGED <<files, synced, nextSeq, outage, count, drain, pos, fails, anchor, boot, blind,
                       parked, confirmed, stale>>
        /\ AcceptNext /\ lost' = lost \cup {accepted + 1}
    BY <1>4 DEF AppendFails, cardVars, drainVars, bootVars
  <2>2. /\ accepted' = accepted + 1
        /\ accepted' \in 0 .. MaxRecords /\ origin' \in [Record -> Boot \cup {0}]
        /\ \A r \in Record : r <= accepted => origin'[r] = origin[r]
    BY <1>0, <2>1, NextPacket
  <2>3. TypeOK' /\ HandlesApart' /\ FilesApart' /\ Finite'
    BY <1>0, <1>1, <2>1, <2>2 DEF AnyCard, TypeOK, HandlesApart, FilesApart, Finite
  <2>4. Marks'
    <3>1. \A n \in DOMAIN files : \A i \in DOMAIN files[n] :
            files[n][i].rec \in Record /\ files[n][i].rec \in Nat
      BY <1>0, FileFacts
    <3> QED
      BY <1>1, <2>1, <2>2, <3>1 DEF AnyCard, Marks
  <2> QED
    BY <2>3, <2>4 DEF AnyCard
<1>5. CASE AppendFails(stamped) /\ ~(outage = NoFile /\ UNCHANGED cardVars)
  <2> DEFINE e == [rec |-> accepted + 1, mark |-> Mark(stamped), whole |-> FALSE]
  <2>1. /\ AcceptNext /\ OpenForAppend /\ lost' = lost \cup {accepted + 1}
        /\ count' = IF outage = NoFile THEN 0 ELSE count
        /\ synced' = IF outage = NoFile THEN 0 ELSE synced
        /\ \E p \in {Written, Append(Written, e)} : Write(Target, p)
        /\ UNCHANGED <<drainVars, bootVars, confirmed, stale>>
    BY <1>5 DEF AppendFails
  <2>2. PICK p \in {Written, Append(Written, e)} : Write(Target, p)
    BY <2>1
  <2>3. e \in Entry /\ e.rec = accepted + 1 /\ (e.mark # Stamped => e.mark = boot)
    BY <1>1 DEF Entry, Mark
  <2> HIDE DEF e
  <2>4. Len(p) \in Nat /\ Len(p) >= Len(Written)
    BY <1>2, <2>1, <2>2, <2>3, AppendFacts
  <2>5. synced' \in 0 .. Len(p) /\ count' \in Nat
    BY <1>2, <2>1, <2>4
  <2> QED
    BY <2>1, <2>2, <2>3, <2>5, GrowAnyCard
<1> QED
  BY <1>3, <1>4, <1>5

\* The read head stands in a closed file, before its end if it can read a packet there.
LEMMA AnyHeadFacts ==
  ASSUME AnyCard, NEW h \in Heads
  PROVE  /\ h \in DOMAIN files /\ h # NoFile /\ h # outage
         /\ HeadPos \in 0 .. Len(files[h]) /\ Len(files[h]) \in Nat
         /\ Framed(h) => HeadPos + 1 \in DOMAIN files[h] /\ At(h).rec \in Record
<1>0. TypeOK
  BY DEF AnyCard
<1>1. /\ h \in DOMAIN files /\ h # NoFile /\ h # outage
      /\ HeadPos \in 0 .. Len(files[h]) /\ Len(files[h]) \in Nat
  <2>1. CASE drain # NoFile
    <3>1. h = drain /\ HeadPos = pos
      BY <2>1 DEF Heads, HeadPos
    <3> QED
      BY <2>1, <3>1, <1>0, FileFacts DEF AnyCard, HandlesApart, FilesApart, TypeOK
  <2>2. CASE drain = NoFile
    <3>1. h \in DOMAIN files \ {outage} /\ HeadPos = 0
      BY <2>2 DEF Heads, Drainable, HeadPos
    <3>2. h \in DOMAIN files
      BY <3>1
    <3> QED
      BY <3>1, <3>2, <1>0, FileFacts
  <2> QED
    BY <2>1, <2>2
<1>2. ASSUME Framed(h) PROVE HeadPos + 1 \in DOMAIN files[h] /\ At(h).rec \in Record
  <2>1. HeadPos # Len(files[h])
    BY <1>2 DEF Framed, AtEnd
  <2>2. HeadPos + 1 \in 1 .. Len(files[h])
    BY <2>1, <1>1
  <2>3. DOMAIN files[h] = 1 .. Len(files[h])
    BY <1>0, <1>1, FileFacts
  <2>4. HeadPos + 1 \in DOMAIN files[h]
    BY <2>2, <2>3
  <2> QED
    BY <1>0, <1>1, <2>4, FileFacts DEF At
<1> QED
  BY <1>1, <1>2

\* Draining takes files away, or moves the head within one.
LEMMA DrainAnyCard ==
  ASSUME AnyCard, DrainOneRecord
  PROVE  AnyCard'
<1>0. TypeOK
  BY DEF AnyCard
<1>1. PICK h \in Heads : \/ DrainEnd(h) \/ DropUnreadable(h)
                         \/ DropStale(h) \/ Unresolved(h)
                         \/ TransmitConfirmed(h) \/ TransmitFails(h)
  BY DEF DrainOneRecord
<1>2. /\ h \in DOMAIN files /\ h # NoFile /\ h # outage
      /\ HeadPos \in 0 .. Len(files[h]) /\ Len(files[h]) \in Nat
  BY AnyHeadFacts
<1>3. UNCHANGED <<synced, nextSeq, outage, count, fails, anchor, boot, blind, parked, accepted,
                  origin, lost>>
  BY <1>1 DEF DrainEnd, DropUnreadable, DropStale, Unresolved, TransmitConfirmed, TransmitFails,
     cardVars, bootVars, appendVars, fateVars
<1>4. confirmed' \subseteq Record \X Boot /\ stale' \subseteq Record
  <2>1. Framed(h) => At(h).rec \in Record
    BY AnyHeadFacts
  <2>2. boot \in Boot /\ confirmed \subseteq Record \X Boot /\ stale \subseteq Record
    BY <1>0 DEF TypeOK
  <2>3. CASE DrainEnd(h) \/ DropUnreadable(h) \/ Unresolved(h) \/ TransmitFails(h)
    BY <2>2, <2>3 DEF DrainEnd, DropUnreadable, Unresolved, TransmitFails, fateVars
  <2>4. CASE DropStale(h)
    BY <2>1, <2>2, <2>4 DEF DropStale
  <2>5. CASE TransmitConfirmed(h)
    BY <2>1, <2>2, <2>5 DEF TransmitConfirmed
  <2> QED
    BY <1>1, <2>3, <2>4, <2>5
<1>5. CASE files' = [m \in DOMAIN files \ {h} |-> files[m]] /\ drain' = NoFile /\ pos' = 0
  <2>1. /\ DOMAIN files' = DOMAIN files \ {h}
        /\ \A n \in DOMAIN files' : n \in DOMAIN files /\ files'[n] = files[n]
    BY <1>5
  <2>2. outage' \in DOMAIN files' \cup {NoFile} /\ (outage # NoFile => files'[outage] = files[outage])
    BY <1>0, <1>2, <1>3, <2>1 DEF TypeOK
  <2>3. TypeOK'
    BY <1>0, <1>3, <1>4, <1>5, <2>1, <2>2 DEF TypeOK
  <2>4. HandlesApart' /\ FilesApart' /\ Marks' /\ Finite'
    BY <1>3, <1>5, <2>1 DEF AnyCard, HandlesApart, FilesApart, Marks, Finite
  <2> QED
    BY <2>3, <2>4 DEF AnyCard
<1>6. CASE /\ files' = files
           /\ \/ drain' = NoFile /\ pos' = 0
              \/ drain' = h /\ pos' \in 0 .. Len(files[h])
  <2>1. TypeOK'
    BY <1>0, <1>2, <1>3, <1>4, <1>6 DEF TypeOK
  <2>2. HandlesApart' /\ FilesApart' /\ Marks' /\ Finite'
    BY <1>2, <1>3, <1>6 DEF AnyCard, HandlesApart, FilesApart, Marks, Finite
  <2> QED
    BY <2>1, <2>2 DEF AnyCard
<1>7. CASE DrainEnd(h) \/ DropUnreadable(h)
  BY <1>5, <1>6, <1>7 DEF DrainEnd, DropUnreadable, RemoveHead
<1>8. CASE DropStale(h) \/ TransmitConfirmed(h)
  <2>1. Framed(h) /\ Advance(h)
    BY <1>8 DEF DropStale, TransmitConfirmed
  <2>2. HeadPos # Len(files[h])
    BY <2>1 DEF Framed, AtEnd
  <2>3. HeadPos + 1 \in 0 .. Len(files[h])
    BY <1>2, <2>2
  <2> QED
    BY <2>1, <2>3, <1>6 DEF Advance
<1>9. CASE Unresolved(h)
  BY <1>2, <1>6, <1>9 DEF Unresolved, cardVars
<1>10. CASE TransmitFails(h)
  BY <1>6, <1>10 DEF TransmitFails, cardVars
<1> QED
  BY <1>1, <1>7, <1>8, <1>9, <1>10

\* What a restart leaves of the files is the front of what was there.
LEMMA CutKeeps ==
  ASSUME TypeOK, Restart
  PROVE  /\ \A n \in DOMAIN files' :
              /\ n \in DOMAIN files /\ files'[n] \in Seq(Entry)
              /\ \A i \in DOMAIN files'[n] : /\ i \in DOMAIN files[n] /\ files'[n][i] = files[n][i]
                                             /\ n = outage => i <= synced
         /\ \A n \in DOMAIN files : \A i \in DOMAIN files[n] :
              \/ n \in DOMAIN files' /\ i \in DOMAIN files'[n] /\ files'[n][i] = files[n][i]
              \/ outage # NoFile /\ n = outage /\ i > synced
<1>1. outage # NoFile =>
        LET s == files[outage]
            c == SubSeq(s, 1, synced)
        IN  /\ outage \in DOMAIN files /\ synced \in 0 .. Len(s) /\ Len(s) \in Nat
            /\ DOMAIN s = 1 .. Len(s)
            /\ c \in Seq(Entry) /\ DOMAIN c = 1 .. synced /\ \A i \in 1 .. synced : c[i] = s[i]
  <2> SUFFICES ASSUME outage # NoFile
               PROVE  LET s == files[outage]
                          c == SubSeq(s, 1, synced)
                      IN  /\ outage \in DOMAIN files /\ synced \in 0 .. Len(s) /\ Len(s) \in Nat
                          /\ DOMAIN s = 1 .. Len(s)
                          /\ c \in Seq(Entry) /\ DOMAIN c = 1 .. synced
                          /\ \A i \in 1 .. synced : c[i] = s[i]
    OBVIOUS
  <2>1. outage \in DOMAIN files /\ synced \in 0 .. Len(files[outage])
    BY DEF TypeOK
  <2>2. /\ files[outage] \in Seq(Entry) /\ Len(files[outage]) \in Nat
        /\ DOMAIN files[outage] = 1 .. Len(files[outage])
    BY <2>1, FileFacts
  <2> QED
    BY <2>1, <2>2, CutFacts
<1>2. \A n \in DOMAIN files : files[n] \in Seq(Entry) /\ n # NoFile
  BY DEF TypeOK
<1>3. CASE files' = [n \in DOMAIN files |-> IF n = outage THEN SubSeq(files[n], 1, synced)
                                                           ELSE files[n]]
  <2>1. DOMAIN files' = DOMAIN files
    BY <1>3
  <2>2. \A n \in DOMAIN files : n # outage => files'[n] = files[n]
    BY <1>3
  <2>3. outage \in DOMAIN files => files'[outage] = SubSeq(files[outage], 1, synced)
    BY <1>3
  <2>4. \A n \in DOMAIN files' : n # outage =>
          /\ n \in DOMAIN files /\ files'[n] \in Seq(Entry) /\ files'[n] = files[n]
    BY <2>1, <2>2, <1>2
  <2>5. outage \in DOMAIN files =>
          /\ outage # NoFile /\ outage \in DOMAIN files' /\ files'[outage] \in Seq(Entry)
          /\ DOMAIN files'[outage] = 1 .. synced
          /\ synced \in Nat /\ DOMAIN files[outage] = 1 .. Len(files[outage])
          /\ Len(files[outage]) \in Nat /\ synced <= Len(files[outage])
          /\ \A i \in 1 .. synced : files'[outage][i] = files[outage][i]
    BY <2>1, <2>3, <1>1, <1>2
  <2> QED
    BY <2>1, <2>4, <2>5
<1>4. CASE /\ outage # NoFile /\ synced = 0
           /\ files' = [n \in DOMAIN files \ {outage} |-> files[n]]
  <2>1. DOMAIN files' = DOMAIN files \ {outage} /\ \A n \in DOMAIN files' : files'[n] = files[n]
    BY <1>4
  <2> QED
    BY <2>1, <1>1, <1>2, <1>4
<1> QED
  BY <1>3, <1>4 DEF Restart, CutFiles

\* A restart, whatever its init() sees of the directory.
LEMMA RestartAnyCard ==
  ASSUME AnyCard, Restart
  PROVE  AnyCard'
<1>0. TypeOK
  BY DEF AnyCard
<1>1. PICK seen \in SUBSET DOMAIN files' :
        nextSeq' = FirstFree(seen) /\ blind' = (FirstFree(seen) # FirstFree(DOMAIN files'))
  BY DEF Restart
<1>2. /\ boot < MaxBoots /\ boot' = boot + 1 /\ lost' = lost \cup Unsynced
      /\ outage' = NoFile /\ count' = 0 /\ synced' = 0 /\ drain' = NoFile /\ pos' = 0
      /\ anchor' = "none" /\ parked' = FALSE
      /\ UNCHANGED <<fails, accepted, origin, confirmed, stale>>
  BY DEF Restart, appendVars
<1>3. \A n \in DOMAIN files' :
        /\ n \in DOMAIN files /\ files'[n] \in Seq(Entry)
        /\ \A i \in DOMAIN files'[n] : i \in DOMAIN files[n] /\ files'[n][i] = files[n][i]
  BY <1>0, CutKeeps
<1>4. PICK b \in Nat : \A n \in DOMAIN files : n < b
  BY DEF AnyCard, Finite
<1>5. DOMAIN files' \subseteq Nat \ {NoFile} /\ \A n \in DOMAIN files' : n < b
  BY <1>0, <1>3, <1>4 DEF TypeOK
<1>6. /\ FirstFree(seen) \in Nat \ {0}
      /\ FirstFree(DOMAIN files') \in Nat /\ \A n \in DOMAIN files' : n < FirstFree(DOMAIN files')
  <2>1. seen \subseteq Nat /\ (\A n \in seen : n < b) /\ DOMAIN files' \subseteq Nat
    BY <1>5
  <2> QED
    BY <2>1, <1>5, FirstFreeBeyond
<1>7. lost' \subseteq Record
  <2>1. Unsynced \subseteq Record
    <3> SUFFICES ASSUME NEW r \in Unsynced PROVE r \in Record
      OBVIOUS
    <3>1. outage # NoFile /\ r \in RecordsOf(files[outage])
      BY DEF Unsynced
    <3>2. outage \in DOMAIN files /\ \E i \in DOMAIN files[outage] : files[outage][i].rec = r
      BY <3>1, <1>0 DEF RecordsOf, TypeOK
    <3> QED
      BY <3>2, <1>0, FileFacts
  <2> QED
    BY <2>1, <1>0, <1>2 DEF TypeOK
<1>8. boot' \in Boot
  BY <1>0, <1>2, SpoolAssumption DEF TypeOK, Boot
<1>9. nextSeq' \in Nat \ {NoFile} /\ blind' \in BOOLEAN
  BY <1>1, <1>6 DEF NoFile
<1>10. TypeOK'
  <2>1. /\ DOMAIN files' \subseteq Nat \ {NoFile}
        /\ \A n \in DOMAIN files' : files'[n] \in Seq(Entry)
        /\ outage' \in DOMAIN files' \cup {NoFile} /\ drain' \in DOMAIN files' \cup {NoFile}
        /\ synced' \in 0 .. IF outage' = NoFile THEN 0 ELSE Len(files'[outage'])
        /\ pos' \in 0 .. IF drain' = NoFile THEN 0 ELSE Len(files'[drain'])
        /\ count' \in Nat
    BY <1>2, <1>3, <1>5
  <2> QED
    BY <1>0, <1>2, <1>7, <1>8, <1>9, <2>1 DEF TypeOK
<1>11. HandlesApart' /\ FilesApart'
  <2>1. ASSUME ~blind' PROVE nextSeq' = FirstFree(DOMAIN files')
    BY <1>1, <2>1
  <2> QED
    BY <1>2, <1>6, <2>1 DEF HandlesApart, FilesApart
<1>12. Marks'
  <2> SUFFICES ASSUME NEW n \in DOMAIN files', NEW i \in DOMAIN files'[n]
               PROVE  /\ files'[n][i].rec <= accepted'
                      /\ files'[n][i].mark # Stamped => files'[n][i].mark = origin'[files'[n][i].rec]
    BY DEF Marks
  <2>1. n \in DOMAIN files /\ i \in DOMAIN files[n] /\ files'[n][i] = files[n][i]
    BY <1>3
  <2>2. /\ files[n][i].rec <= accepted
        /\ files[n][i].mark # Stamped => files[n][i].mark = origin[files[n][i].rec]
    BY <2>1 DEF AnyCard, Marks
  <2>3. accepted' = accepted /\ origin' = origin
    BY <1>2
  <2> QED
    BY <2>1, <2>2, <2>3
<1>13. Finite'
  BY <1>5 DEF Finite
<1> QED
  BY <1>10, <1>11, <1>12, <1>13 DEF AnyCard

\* Every step keeps what holds on any card.
LEMMA StepAnyCard ==
  ASSUME AnyCard, [Next]_vars
  PROVE  AnyCard'
<1>1. ASSUME NEW stamped \in BOOLEAN, AppendRecord(stamped) \/ AppendFails(stamped)
      PROVE  AnyCard'
  BY <1>1, AppendAnyCard
<1>2. CASE EndOutage
  <2>1. /\ outage' = NoFile /\ count' = 0 /\ synced' = 0
        /\ UNCHANGED <<files, nextSeq, drain, pos, fails, anchor, boot, blind, parked, accepted,
                       origin, confirmed, stale, lost>>
    BY <1>2 DEF EndOutage, drainVars, bootVars, appendVars, fateVars
  <2> QED
    BY <2>1 DEF AnyCard, TypeOK, HandlesApart, FilesApart, Marks, Finite, NoFile
<1>3. CASE CloseForStandby
  <2>1. /\ outage' = NoFile /\ synced' = 0 /\ drain' = NoFile /\ pos' = 0 /\ parked' = TRUE
        /\ UNCHANGED <<files, nextSeq, count, fails, anchor, boot, blind, accepted, origin,
                       confirmed, stale, lost>>
    BY <1>3 DEF CloseForStandby, appendVars, fateVars
  <2> QED
    BY <2>1 DEF AnyCard, TypeOK, HandlesApart, FilesApart, Marks, Finite, NoFile
<1>4. CASE DrainOneRecord
  BY <1>4, DrainAnyCard
<1>5. CASE SetAnchor
  <2>1. /\ anchor' \in {"early", "right"}
        /\ UNCHANGED <<files, synced, nextSeq, outage, count, drain, pos, fails, boot, blind, parked,
                       accepted, origin, confirmed, stale, lost>>
    BY <1>5 DEF SetAnchor, cardVars, drainVars, appendVars, fateVars
  <2> QED
    BY <2>1 DEF AnyCard, TypeOK, HandlesApart, FilesApart, Marks, Finite
<1>6. CASE Restart
  BY <1>6, RestartAnyCard
<1>7. CASE UNCHANGED vars
  <2>1. UNCHANGED <<files, synced, nextSeq, outage, count, drain, pos, fails, anchor, boot, blind,
                    parked, accepted, origin, confirmed, stale, lost>>
    BY <1>7 DEF vars, cardVars, drainVars, bootVars, appendVars, fateVars
  <2> QED
    BY <2>1 DEF AnyCard, TypeOK, HandlesApart, FilesApart, Marks, Finite
<1> QED
  BY <1>1, <1>2, <1>3, <1>4, <1>5, <1>6, <1>7 DEF Next

-----------------------------------------------------------------------------
(***************************************************************************)
(* On a card whose directory can be read, numbers follow the order of the  *)
(* outages.                                                                *)
(***************************************************************************)
Closed == DOMAIN files \ {outage}
Done == Delivered \cup stale

\* What stands in a file was accepted; its mark, if it has one, is the boot it was
\* captured in; only what bears the mark of an earlier boot is stale; no whole packet is
\* lost.
Contents ==
  \A n \in DOMAIN files : \A i \in DOMAIN files[n] :
    LET e == files[n][i] IN
    /\ e.rec <= accepted
    /\ e.mark # Stamped => e.mark = origin[e.rec] /\ e.mark <= boot
    /\ e.rec \in stale => e.mark # Stamped /\ e.mark < boot
    /\ e.whole => e.rec \notin lost

\* Packets stand in the order of their appends, within a file and across files.
InOrder ==
  \A n, m \in DOMAIN files : \A i \in DOMAIN files[n] : \A j \in DOMAIN files[m] :
    n < m \/ (n = m /\ i < j) => files[n][i].rec < files[m][j].rec

\* The outage file is the newest.
OutageNewest == outage # NoFile => \A n \in DOMAIN files : n <= outage

\* The file under the head is the oldest closed one, and what the head has passed in it is
\* whole and done with; the packet just before it is done with if it is whole.
HeadOldest == drain # NoFile => \A n \in Closed : drain <= n
BehindHead ==
  drain # NoFile => \A i \in 1 .. pos :
    /\ files[drain][i].whole => files[drain][i].rec \in Done
    /\ i < pos => files[drain][i].whole

\* The histories are of packets that were appended.
Histories == Delivered \cup stale \cup lost \subseteq 1 .. accepted

\* On a card that works every packet is whole, and what the last flush left behind is the
\* remainder of the count.
CardWorks ==
  fails = {} =>
    /\ \A n \in DOMAIN files : \A i \in DOMAIN files[n] : files[n][i].whole
    /\ outage # NoFile => /\ count = Len(files[outage])
                          /\ count - synced = count % FlushEvery
    /\ NoneForgotten

OInv ==
  /\ TypeOK /\ FilesApart /\ "scan" \notin fails /\ ~blind
  /\ Contents /\ InOrder /\ OutageNewest /\ HeadOldest /\ BehindHead /\ Histories
  /\ CardWorks

\* The inductive invariant.
IInv == AnyCard /\ ("scan" \notin fails => OInv)

\* What a step has to show beside what holds on any card.
LEMMA KeepsOInv ==
  ASSUME OInv, AnyCard', UNCHANGED <<fails, blind>>,
         Contents', InOrder', OutageNewest', HeadOldest', BehindHead', Histories', CardWorks'
  PROVE  OInv'
BY DEF OInv, AnyCard

-----------------------------------------------------------------------------
\* The invariant holds of an empty card.
LEMMA InitEstablishes == Init => IInv
<1> SUFFICES ASSUME Init PROVE IInv
  OBVIOUS
<1>1. DOMAIN files = {}
  BY DEF Init
<1>2. TypeOK /\ FilesApart
  <2>1. 1 \in Boot /\ origin \in [Record -> Boot \cup {0}] /\ accepted \in 0 .. MaxRecords
    BY SpoolAssumption DEF Init, Record, Boot
  <2>2. outage = 0 /\ drain = 0 /\ pos = 0 /\ synced = 0 /\ nextSeq = 1 /\ count = 0
    BY DEF Init, NoFile
  <2>3. DOMAIN files \subseteq Nat \ {NoFile} /\ \A n \in DOMAIN files : files[n] \in Seq(Entry)
    BY <1>1
  <2>4. confirmed \subseteq Record \X Boot /\ stale \subseteq Record /\ lost \subseteq Record
    BY DEF Init
  <2>5. /\ fails \in Cards /\ anchor \in {"none", "early", "right"} /\ boot \in Boot
        /\ blind \in BOOLEAN /\ parked \in BOOLEAN
    BY <2>1 DEF Init
  <2>6. FilesApart
    BY <1>1, <2>2 DEF FilesApart, NoFile
  <2>7. TypeOK
    BY <1>1, <2>1, <2>2, <2>3, <2>4, <2>5 DEF TypeOK, NoFile
  <2> QED
    BY <2>6, <2>7
<1>3. Contents /\ InOrder /\ OutageNewest /\ HeadOldest /\ BehindHead
  BY <1>1 DEF Init, Contents, InOrder, OutageNewest, HeadOldest, BehindHead, Closed, NoFile
<1>4. Histories /\ CardWorks
  BY <1>1 DEF Init, Histories, CardWorks, Delivered, NoneForgotten, NoFile
<1>5. HandlesApart /\ Marks /\ Finite
  BY <1>1 DEF Init, HandlesApart, Marks, Finite, NoFile
<1> QED
  BY <1>2, <1>3, <1>4, <1>5 DEF IInv, AnyCard, OInv, Init

-----------------------------------------------------------------------------
(***************************************************************************)
(* Appending.                                                              *)
(***************************************************************************)

\* The file an append goes to is the newest, and none of those on the card if it is new.
LEMMA TargetFacts ==
  ASSUME OInv
  PROVE  /\ Target \in Nat \ {NoFile} /\ Written \in Seq(Entry)
         /\ \A n \in DOMAIN files : n <= Target
         /\ outage # NoFile => Target = outage /\ outage \in DOMAIN files /\ Written = files[outage]
         /\ outage = NoFile => Target \notin DOMAIN files /\ Written = << >> /\ Target = nextSeq
BY DEF OInv, TypeOK, FilesApart, OutageNewest, Target, Written, NoFile

\* Opening the file and writing one packet to it, or none, keeps the card in order.
LEMMA GrowKeepsOrder ==
  ASSUME OInv, NEW e \in Entry, NEW p,
         e.rec = accepted + 1,
         p = Written \/ p = Append(Written, e),
         Write(Target, p), outage' = Target, accepted' = accepted + 1
  PROVE  /\ DOMAIN files' = DOMAIN files \cup {Target}
         /\ \A n \in DOMAIN files' : files'[n] \in Seq(Entry)
         /\ \A n \in DOMAIN files : /\ Len(files[n]) <= Len(files'[n])
                                    /\ \A i \in DOMAIN files[n] : files'[n][i] = files[n][i]
         /\ \A n \in DOMAIN files' : \A i \in DOMAIN files'[n] :
              \/ n \in DOMAIN files /\ i \in DOMAIN files[n]
              \/ n = Target /\ i = Len(files'[n]) /\ files'[n][i] = e /\ p # Written
         /\ InOrder'
<1>1. Target \in Nat /\ Written \in Seq(Entry)
  BY TargetFacts
<1>2. p \in Seq(Entry) /\ Len(Written) <= Len(p) /\ \A i \in 1 .. Len(Written) : p[i] = Written[i]
  BY <1>1, AppendFacts
<1>3. p # Written => Len(p) = Len(Written) + 1 /\ p[Len(p)] = e
  BY <1>1, AppendFacts
<1>4. DOMAIN files' = DOMAIN files \cup {Target}
  BY DEF Write
<1>5. files'[Target] = p /\ \A n \in DOMAIN files : n # Target => files'[n] = files[n]
  BY DEF Write
<1>6. \A n \in DOMAIN files : files[n] \in Seq(Entry) /\ DOMAIN files[n] = 1 .. Len(files[n])
  BY DEF OInv, TypeOK
<1>7. \A n \in DOMAIN files' : files'[n] \in Seq(Entry) /\ DOMAIN files'[n] = 1 .. Len(files'[n])
  BY <1>2, <1>4, <1>5, <1>6
<1>8. Target \in DOMAIN files => Written = files[Target]
  BY TargetFacts
<1>9. Target \notin DOMAIN files => Len(Written) = 0
  BY TargetFacts
<1>10. \A n \in DOMAIN files : /\ Len(files[n]) <= Len(files'[n])
                               /\ \A i \in DOMAIN files[n] : files'[n][i] = files[n][i]
  BY <1>2, <1>5, <1>6, <1>8
<1>11. ASSUME NEW n \in DOMAIN files', NEW i \in DOMAIN files'[n]
       PROVE  \/ n \in DOMAIN files /\ i \in DOMAIN files[n]
              \/ n = Target /\ i = Len(files'[n]) /\ files'[n][i] = e /\ p # Written
  <2>1. CASE n # Target
    BY <2>1, <1>4, <1>5
  <2>2. CASE n = Target /\ i <= Len(Written)
    BY <2>2, <1>1, <1>6, <1>7, <1>8, <1>9
  <2>3. CASE n = Target /\ i > Len(Written)
    BY <2>3, <1>1, <1>2, <1>3, <1>5, <1>7
  <2> QED
    BY <2>1, <2>2, <2>3, <1>1, <1>7
<1>12. InOrder'
  <2> SUFFICES ASSUME NEW n \in DOMAIN files', NEW m \in DOMAIN files',
                      NEW i \in DOMAIN files'[n], NEW j \in DOMAIN files'[m],
                      n < m \/ (n = m /\ i < j)
               PROVE  files'[n][i].rec < files'[m][j].rec
    BY DEF InOrder
  <2>2. n <= Target /\ m <= Target /\ n \in Nat /\ m \in Nat
    BY <1>1, <1>4, TargetFacts DEF OInv, TypeOK
  <2>3. CASE m \in DOMAIN files /\ j \in DOMAIN files[m] /\ n \in DOMAIN files /\ i \in DOMAIN files[n]
    BY <2>3, <1>10 DEF OInv, InOrder
  <2>4. CASE /\ m = Target /\ files'[m][j] = e /\ n \in DOMAIN files /\ i \in DOMAIN files[n]
    <3>1. files[n][i].rec <= accepted /\ files'[n][i] = files[n][i]
      BY <2>4, <1>10 DEF OInv, Contents
    <3>2. files[n][i].rec \in Int /\ accepted \in Int
      BY <2>4, FileFacts DEF OInv, TypeOK
    <3> QED
      BY <2>4, <3>1, <3>2
  <2>5. CASE /\ n = Target /\ i = Len(files'[n])
    <3>1. n = m /\ i \in 1 .. Len(files'[n]) /\ j \in 1 .. Len(files'[n])
      BY <2>5, <2>2, <1>7
    <3> QED
      BY <2>5, <3>1, <2>2, <1>7
  <2> QED
    BY <2>3, <2>4, <2>5, <1>11
<1> QED
  BY <1>4, <1>7, <1>10, <1>11, <1>12

\* ... and with it the whole invariant, but for what the flushes have committed.
LEMMA GrowPreserves ==
  ASSUME OInv, AcceptNext, OpenForAppend,
         NEW e \in Entry, e.rec = accepted + 1, e.mark # Stamped => e.mark = boot,
         NEW p, p = Written \/ p = Append(Written, e), Write(Target, p),
         p # Written /\ e.whole => lost' = lost,
         lost' = lost \/ lost' = lost \cup {accepted + 1},
         UNCHANGED <<drainVars, bootVars, confirmed, stale>>
  PROVE  /\ Contents' /\ InOrder' /\ OutageNewest' /\ HeadOldest' /\ BehindHead' /\ Histories'
<1> USE DEF drainVars, bootVars
<1>1. outage' = Target /\ accepted' = accepted + 1 /\ accepted + 1 \in Record /\ accepted \in Nat
  <2>1. accepted \in Nat /\ accepted < MaxRecords
    BY SpoolAssumption DEF AcceptNext, OInv, TypeOK
  <2> QED
    BY <2>1, SpoolAssumption DEF OpenForAppend, AcceptNext, Record
<1>2. /\ DOMAIN files' = DOMAIN files \cup {Target}
      /\ \A n \in DOMAIN files' : files'[n] \in Seq(Entry)
      /\ \A n \in DOMAIN files : /\ Len(files[n]) <= Len(files'[n])
                                 /\ \A i \in DOMAIN files[n] : files'[n][i] = files[n][i]
      /\ \A n \in DOMAIN files' : \A i \in DOMAIN files'[n] :
           \/ n \in DOMAIN files /\ i \in DOMAIN files[n]
           \/ n = Target /\ i = Len(files'[n]) /\ files'[n][i] = e /\ p # Written
      /\ InOrder'
  BY <1>1, GrowKeepsOrder
<1>3. /\ Target \in Nat \ {NoFile}
      /\ \A n \in DOMAIN files : n <= Target
      /\ outage # NoFile => Target = outage /\ outage \in DOMAIN files
      /\ outage = NoFile => Target \notin DOMAIN files /\ Target = nextSeq
  BY TargetFacts
<1>4. \A r \in Record : r <= accepted => origin'[r] = origin[r]
  BY <1>1 DEF AcceptNext, OInv, TypeOK
<1>5. origin'[accepted + 1] = boot
  BY <1>1 DEF AcceptNext, OInv, TypeOK
<1>8. Contents'
  <2> SUFFICES ASSUME NEW n \in DOMAIN files', NEW i \in DOMAIN files'[n]
               PROVE  LET x == files'[n][i] IN
                      /\ x.rec <= accepted'
                      /\ x.mark # Stamped => x.mark = origin'[x.rec] /\ x.mark <= boot'
                      /\ x.rec \in stale' => x.mark # Stamped /\ x.mark < boot'
                      /\ x.whole => x.rec \notin lost'
    BY DEF Contents
  <2>1. CASE n \in DOMAIN files /\ i \in DOMAIN files[n]
    <3> DEFINE x == files[n][i]
    <3>1. files'[n][i] = x
      BY <2>1, <1>2
    <3>2. /\ x.rec <= accepted
          /\ x.mark # Stamped => x.mark = origin[x.rec] /\ x.mark <= boot
          /\ x.rec \in stale => x.mark # Stamped /\ x.mark < boot
          /\ x.whole => x.rec \notin lost
      BY <2>1 DEF OInv, Contents
    <3>3. x.rec \in Record /\ x.rec \in Nat
      BY <2>1, FileFacts DEF OInv
    <3> HIDE DEF x
    <3> QED
      BY <3>1, <3>2, <3>3, <1>1, <1>4
  <2>2. CASE n = Target /\ files'[n][i] = e /\ p # Written
    <3>1. accepted + 1 \notin stale /\ accepted + 1 \notin lost
      BY <1>1 DEF OInv, Histories
    <3>2. boot \in Int
      BY DEF OInv, TypeOK, Boot
    <3> QED
      BY <2>2, <3>1, <3>2, <1>1, <1>5
  <2> QED
    BY <2>1, <2>2, <1>2
<1>9. OutageNewest'
  BY <1>1, <1>2, <1>3 DEF OutageNewest
<1>10. Closed' = Closed
  BY <1>1, <1>2, <1>3 DEF Closed, OInv, TypeOK, NoFile
<1>11. HeadOldest'
  BY <1>10 DEF HeadOldest, OInv
<1>12. BehindHead'
  <2> SUFFICES ASSUME drain # NoFile, NEW i \in 1 .. pos
               PROVE  /\ files'[drain][i].whole => files'[drain][i].rec \in Done
                      /\ i < pos => files'[drain][i].whole
    BY DEF BehindHead, Done, Delivered
  <2>1. drain \in DOMAIN files /\ i \in DOMAIN files[drain]
    BY FileFacts DEF OInv, TypeOK
  <2> QED
    BY <2>1, <1>2 DEF BehindHead, OInv
<1>13. Histories'
  BY <1>1 DEF Histories, Delivered, OInv
<1> QED
  BY <1>2, <1>8, <1>9, <1>11, <1>12, <1>13

\* What it means for a packet to be on the card.
LEMMA OnCardFacts ==
  ASSUME NEW r
  PROVE  r \in OnCard <=> \E n \in DOMAIN files : \E i \in DOMAIN files[n] :
                            files[n][i].whole /\ files[n][i].rec = r
BY DEF OnCard, RecordsOf

\* An append puts one packet on the card and leaves the others there.
LEMMA AppendOnCard ==
  ASSUME OInv, NEW stamped \in BOOLEAN, AppendRecord(stamped)
  PROVE  /\ OnCard' = OnCard \cup {accepted + 1}
         /\ \A m \in DOMAIN files' : \A i \in DOMAIN files'[m] :
              \/ m \in DOMAIN files /\ i \in DOMAIN files[m] /\ files'[m][i] = files[m][i]
              \/ files'[m][i].whole
<1> DEFINE e == [rec |-> accepted + 1, mark |-> Mark(stamped), whole |-> TRUE]
           p == Append(Written, e)
<1>1. outage' = Target /\ accepted' = accepted + 1 /\ Write(Target, p)
  BY DEF AppendRecord, OpenForAppend, AcceptNext
<1>2. e \in Entry /\ e.rec = accepted + 1 /\ e.whole
  <2>1. accepted + 1 \in Record
    <3>1. accepted \in Nat /\ accepted < MaxRecords
      BY SpoolAssumption DEF AppendRecord, AcceptNext, OInv, TypeOK
    <3> QED
      BY <3>1, SpoolAssumption DEF Record
  <2> QED
    BY <2>1 DEF Entry, Mark, OInv, TypeOK
<1> HIDE DEF e
<1>3. /\ DOMAIN files' = DOMAIN files \cup {Target}
      /\ \A m \in DOMAIN files' : files'[m] \in Seq(Entry)
      /\ \A m \in DOMAIN files : /\ Len(files[m]) <= Len(files'[m])
                                 /\ \A i \in DOMAIN files[m] : files'[m][i] = files[m][i]
      /\ \A m \in DOMAIN files' : \A i \in DOMAIN files'[m] :
           \/ m \in DOMAIN files /\ i \in DOMAIN files[m]
           \/ m = Target /\ i = Len(files'[m]) /\ files'[m][i] = e /\ p # Written
  BY <1>1, <1>2, GrowKeepsOrder
<1>4. \A m \in DOMAIN files : \A i \in DOMAIN files[m] : i \in DOMAIN files'[m]
  <2>1. \A m \in DOMAIN files : files[m] \in Seq(Entry)
    BY DEF OInv, TypeOK
  <2> QED
    BY <1>3, <2>1
<1>5. \E m \in DOMAIN files' : \E i \in DOMAIN files'[m] : files'[m][i] = e
  <2>1. Written \in Seq(Entry)
    BY TargetFacts
  <2>2. p \in Seq(Entry) /\ Len(p) = Len(Written) + 1 /\ Len(Written) \in Nat /\ p[Len(p)] = e
    BY <1>2, <2>1, AppendFacts
  <2>3. Target \in DOMAIN files' /\ files'[Target] = p
    BY <1>1 DEF Write
  <2>4. Len(p) \in DOMAIN p
    BY <2>2
  <2> QED
    BY <2>2, <2>3, <2>4
<1> HIDE DEF p
<1>6. OnCard \subseteq OnCard'
  BY <1>3, <1>4 DEF OnCard, RecordsOf
<1>7. accepted + 1 \in OnCard'
  BY <1>2, <1>5 DEF OnCard, RecordsOf
<1>8. OnCard' \subseteq OnCard \cup {accepted + 1}
  BY <1>2, <1>3 DEF OnCard, RecordsOf
<1> QED
  BY <1>2, <1>3, <1>6, <1>7, <1>8

\* appendUnstamped(), or the append of a stamped packet.
LEMMA AppendPreserves ==
  ASSUME OInv, NEW stamped \in BOOLEAN, AppendRecord(stamped),
         AnyCard'
  PROVE  OInv'
<1> DEFINE e == [rec |-> accepted + 1, mark |-> Mark(stamped), whole |-> TRUE]
           p == Append(Written, e)
           n == (IF outage = NoFile THEN 0 ELSE count) + 1
<1>1. /\ AcceptNext /\ OpenForAppend /\ Write(Target, p)
      /\ count' = n
      /\ synced' = IF FlushDue(n) THEN Len(p) ELSE IF outage = NoFile THEN 0 ELSE synced
      /\ UNCHANGED <<drainVars, bootVars, confirmed, stale, lost>>
  BY DEF AppendRecord, fateVars
<1>2. accepted + 1 \in Record /\ accepted \in Nat /\ boot \in Boot /\ count \in Nat
  <2>1. accepted \in Nat /\ accepted < MaxRecords
    BY <1>1, SpoolAssumption DEF AcceptNext, OInv, TypeOK
  <2> QED
    BY <2>1, SpoolAssumption DEF OInv, TypeOK, Record
<1>3. e \in Entry /\ e.rec = accepted + 1 /\ e.whole /\ (e.mark # Stamped => e.mark = boot)
  BY <1>2 DEF Entry, Mark
<1> HIDE DEF e
<1>4. Written \in Seq(Entry) /\ (outage = NoFile => Len(Written) = 0)
      /\ (outage # NoFile => Written = files[outage] /\ outage \in DOMAIN files)
  BY TargetFacts
<1>5. p \in Seq(Entry) /\ Len(p) = Len(Written) + 1 /\ Len(Written) \in Nat /\ p # Written
  BY <1>3, <1>4, AppendFacts
<1>6. synced' \in 0 .. Len(p) /\ count' \in Nat
  <2>1. outage # NoFile => synced \in 0 .. Len(Written)
    BY <1>4 DEF OInv, TypeOK
  <2> QED
    BY <1>1, <1>2, <1>5, <2>1
<1> HIDE DEF p
<1>7. /\ Contents' /\ InOrder' /\ OutageNewest' /\ HeadOldest' /\ BehindHead' /\ Histories'
  BY <1>1, <1>3, GrowPreserves DEF p
<1>8. outage' = Target /\ accepted' = accepted + 1
  BY <1>1 DEF OpenForAppend, AcceptNext
<1>9. CardWorks'
  <2> SUFFICES ASSUME fails = {}
               PROVE  /\ \A m \in DOMAIN files' : \A i \in DOMAIN files'[m] : files'[m][i].whole
                      /\ count' = Len(files'[Target]) /\ count' - synced' = count' % FlushEvery
                      /\ NoneForgotten'
    BY <1>1, <1>8 DEF CardWorks, bootVars
  <2>1. \A m \in DOMAIN files' : \A i \in DOMAIN files'[m] : files'[m][i].whole
    BY AppendOnCard DEF OInv, CardWorks
  <2>2. files'[Target] = p /\ Target \in DOMAIN files'
    BY <1>1 DEF Write
  <2>3. n = Len(p) /\ n \in Nat
    BY <1>2, <1>4, <1>5 DEF OInv, CardWorks
  <2>4. n - synced' = n % FlushEvery
    <3>1. CASE FlushDue(n)
      BY <3>1, <1>1, <2>3 DEF FlushDue
    <3>2. CASE ~FlushDue(n) /\ outage = NoFile
      <4>1. n = 0 + 1 /\ synced' = 0
        BY <3>2, <1>1
      <4>2. 0 % FlushEvery = 0
        BY SpoolAssumption
      <4> QED
        BY <3>2, <4>1, <4>2, RemainderSteps DEF FlushDue
    <3>3. CASE ~FlushDue(n) /\ outage # NoFile
      <4>1. n = count + 1 /\ synced' = synced /\ count - synced = count % FlushEvery
        BY <3>3, <1>1 DEF OInv, CardWorks
      <4>2. (count + 1) % FlushEvery = (count % FlushEvery) + 1
        BY <3>3, <4>1, <1>2, RemainderSteps DEF FlushDue
      <4>3. synced \in Int
        BY <1>4, <1>5, <3>3 DEF OInv, TypeOK
      <4> QED
        BY <4>1, <4>2, <4>3, <1>2
    <3> QED
      BY <3>1, <3>2, <3>3
  <2>5. NoneForgotten'
    <3> SUFFICES ASSUME NEW r \in 1 .. accepted'
                 PROVE  r \in (OnCard \cup Delivered \cup stale \cup lost)'
      BY DEF NoneForgotten
    <3>1. r = accepted + 1 \/ r \in 1 .. accepted
      BY <1>2, <1>8
    <3>2. OnCard' = OnCard \cup {accepted + 1}
      BY AppendOnCard
    <3> QED
      BY <3>1, <3>2, <1>1 DEF OInv, CardWorks, NoneForgotten, Delivered
  <2> QED
    BY <2>1, <2>2, <2>3, <2>4, <2>5, <1>1
<1> QED
  BY <1>1, <1>7, <1>9, KeepsOInv DEF bootVars

\* An append that fails leaves the file as it was, or with a torn packet at its end.
LEMMA AppendFailsPreserves ==
  ASSUME OInv, NEW stamped \in BOOLEAN, AppendFails(stamped),
         AnyCard'
  PROVE  OInv'
<1> DEFINE e == [rec |-> accepted + 1, mark |-> Mark(stamped), whole |-> FALSE]
<1>1. /\ "write" \in fails /\ AcceptNext /\ lost' = lost \cup {accepted + 1}
      /\ UNCHANGED <<drainVars, bootVars, confirmed, stale>>
  BY DEF AppendFails
<1>2. CardWorks'
  BY <1>1 DEF CardWorks, bootVars
<1>3. accepted \in Nat /\ accepted + 1 \in Record /\ boot \in Boot
  <2>1. accepted \in Nat /\ accepted < MaxRecords
    BY <1>1, SpoolAssumption DEF AcceptNext, OInv, TypeOK
  <2> QED
    BY <2>1, SpoolAssumption DEF OInv, TypeOK, Record
<1>4. CASE outage = NoFile /\ UNCHANGED cardVars
  <2>1. UNCHANGED <<files, synced, nextSeq, outage, count, drain, pos, fails, anchor, boot, blind, parked,
                    confirmed, stale>>
    BY <1>1, <1>4 DEF cardVars, drainVars, bootVars
  <2>2. accepted' = accepted + 1 /\ origin' = [origin EXCEPT ![accepted + 1] = boot]
    BY <1>1 DEF AcceptNext
  <2>3. accepted + 1 <= MaxRecords
    BY <1>3, SpoolAssumption DEF Record
  <2>5. InOrder' /\ OutageNewest' /\ HeadOldest' /\ BehindHead'
    BY <2>1 DEF OInv, InOrder, OutageNewest, HeadOldest, BehindHead, Closed, Done,
       Delivered
  <2>6. Contents'
    <3> SUFFICES ASSUME NEW n \in DOMAIN files, NEW i \in DOMAIN files[n]
                 PROVE  LET x == files[n][i] IN
                        /\ x.rec <= accepted'
                        /\ x.mark # Stamped => x.mark = origin'[x.rec] /\ x.mark <= boot
                        /\ x.rec \in stale => x.mark # Stamped /\ x.mark < boot
                        /\ x.whole => x.rec \notin lost'
      BY <2>1 DEF Contents
    <3> DEFINE x == files[n][i]
    <3>1. /\ x.rec <= accepted
          /\ x.mark # Stamped => x.mark = origin[x.rec] /\ x.mark <= boot
          /\ x.rec \in stale => x.mark # Stamped /\ x.mark < boot
          /\ x.whole => x.rec \notin lost
      BY DEF OInv, Contents
    <3>2. x.rec \in Record /\ x.rec \in Nat
      BY FileFacts DEF OInv
    <3>3. x.rec # accepted + 1
      BY <1>3, <3>1, <3>2
    <3>4. origin'[x.rec] = origin[x.rec]
      BY <2>2, <3>2, <3>3 DEF OInv, TypeOK
    <3>5. accepted' = accepted + 1 /\ lost' = lost \cup {accepted + 1}
      BY <1>1, <2>2
    <3> QED
      BY <1>3, <3>1, <3>2, <3>3, <3>4, <3>5
  <2>7. Histories'
    BY <1>1, <1>3, <2>1, <2>2 DEF OInv, Histories, Delivered
  <2> QED
    BY <1>2, <2>1, <2>5, <2>6, <2>7, KeepsOInv
<1>5. CASE /\ OpenForAppend
           /\ count' = IF outage = NoFile THEN 0 ELSE count
           /\ synced' = IF outage = NoFile THEN 0 ELSE synced
           /\ \E p \in {Written, Append(Written, e)} : Write(Target, p)
  <2>1. PICK p \in {Written, Append(Written, e)} : Write(Target, p)
    BY <1>5
  <2>2. e \in Entry /\ e.rec = accepted + 1 /\ ~e.whole /\ (e.mark # Stamped => e.mark = boot)
    BY <1>3 DEF Entry, Mark
  <2> HIDE DEF e
  <2>5. /\ Contents' /\ InOrder' /\ OutageNewest' /\ HeadOldest' /\ BehindHead' /\ Histories'
    BY <1>1, <1>5, <2>1, <2>2, GrowPreserves
  <2> QED
    BY <1>1, <1>2, <2>5, KeepsOInv DEF bootVars
<1> QED
  BY <1>4, <1>5 DEF AppendFails

-----------------------------------------------------------------------------
(***************************************************************************)
(* Closing.                                                                *)
(***************************************************************************)

\* endOutage(): the newest file is closed, so the head's is still the oldest.
LEMMA EndOutagePreserves ==
  ASSUME OInv, EndOutage,
         AnyCard'
  PROVE  OInv'
<1>1. /\ outage # NoFile /\ outage' = NoFile /\ count' = 0 /\ synced' = 0
      /\ UNCHANGED <<files, nextSeq, drain, pos, fails, anchor, boot, blind, parked, accepted, origin,
                     confirmed, stale, lost>>
  BY DEF EndOutage, drainVars, bootVars, appendVars, fateVars
<1>3. Contents' /\ InOrder' /\ OutageNewest' /\ BehindHead' /\ Histories'
  BY <1>1 DEF OInv, Contents, InOrder, OutageNewest, BehindHead, Histories, Done, Delivered
<1>4. HeadOldest'
  <2> SUFFICES ASSUME drain # NoFile, NEW n \in DOMAIN files
               PROVE  drain <= n
    BY <1>1 DEF HeadOldest, Closed
  <2>1. drain \in DOMAIN files
    BY DEF OInv, TypeOK
  <2>2. drain <= outage
    BY <2>1, <1>1 DEF OInv, OutageNewest
  <2> QED
    BY <2>2, <1>1 DEF OInv, HeadOldest, Closed
<1>5. CardWorks'
  BY <1>1 DEF OInv, CardWorks, NoneForgotten, OnCard, Delivered
<1> QED
  BY <1>1, <1>3, <1>4, <1>5, KeepsOInv

\* closeForStandby() closes both files.
LEMMA ClosePreserves ==
  ASSUME OInv, CloseForStandby,
         AnyCard'
  PROVE  OInv'
<1>1. /\ outage' = NoFile /\ synced' = 0 /\ drain' = NoFile /\ pos' = 0 /\ parked' = TRUE
      /\ UNCHANGED <<files, nextSeq, count, fails, anchor, boot, blind, accepted, origin,
                     confirmed, stale, lost>>
  BY DEF CloseForStandby, appendVars, fateVars
<1>3. Contents' /\ InOrder' /\ OutageNewest' /\ HeadOldest' /\ BehindHead' /\ Histories'
  BY <1>1 DEF OInv, Contents, InOrder, OutageNewest, HeadOldest, BehindHead, Histories, Delivered
<1>4. CardWorks'
  BY <1>1 DEF OInv, CardWorks, NoneForgotten, OnCard, Delivered
<1> QED
  BY <1>1, <1>3, <1>4, KeepsOInv

-----------------------------------------------------------------------------
(***************************************************************************)
(* Draining.                                                               *)
(***************************************************************************)

\* The read head stands in the oldest closed file, and all behind it is done with.
LEMMA HeadFacts ==
  ASSUME OInv, NEW h \in Heads
  PROVE  /\ h \in Closed /\ \A n \in Closed : h <= n
         /\ h \in DOMAIN files /\ h # NoFile /\ h # outage
         /\ HeadPos \in 0 .. Len(files[h])
         /\ \A i \in 1 .. HeadPos :
              /\ files[h][i].whole => files[h][i].rec \in Done
              /\ i < HeadPos => files[h][i].whole
<1>1. CASE drain # NoFile
  <2>1. h = drain /\ HeadPos = pos
    BY <1>1 DEF Heads, HeadPos
  <2>2. drain \in DOMAIN files /\ drain # outage /\ pos \in 0 .. Len(files[drain])
    BY <1>1 DEF OInv, TypeOK, FilesApart
  <2> QED
    BY <1>1, <2>1, <2>2 DEF OInv, HeadOldest, BehindHead, Closed
<1>2. CASE drain = NoFile
  <2>1. Closed \subseteq Nat \ {NoFile}
    BY DEF Closed, OInv, TypeOK
  <2>3. h \in Closed /\ \A m \in Closed : h <= m
    BY <1>2 DEF Heads, Drainable, Closed, OInv
  <2>4. HeadPos = 0
    BY <1>2 DEF HeadPos
  <2>5. Len(files[h]) \in Nat
    BY <2>3, FileFacts DEF Closed, OInv
  <2> QED
    BY <2>1, <2>3, <2>4, <2>5 DEF Closed
<1> QED
  BY <1>1, <1>2

\* Unlinking a file.
LEMMA RemovePreserves ==
  ASSUME OInv, NEW h \in Heads, RemoveHead(h),
         UNCHANGED <<synced, nextSeq, outage, count, bootVars, appendVars, fateVars>>
  PROVE  /\ Contents' /\ InOrder' /\ OutageNewest' /\ HeadOldest' /\ BehindHead' /\ Histories'
<1>1. /\ DOMAIN files' \subseteq DOMAIN files
      /\ \A n \in DOMAIN files' : files'[n] = files[n]
      /\ drain' = NoFile /\ pos' = 0
  BY DEF RemoveHead
<1>2. UNCHANGED <<synced, nextSeq, outage, count, fails, anchor, boot, blind, parked, accepted, origin,
                  confirmed, stale, lost>>
  BY DEF bootVars, appendVars, fateVars
<1>5. Contents' /\ InOrder'
  BY <1>1, <1>2 DEF OInv, Contents, InOrder
<1>6. OutageNewest' /\ HeadOldest' /\ BehindHead' /\ Histories'
  BY <1>1, <1>2 DEF OInv, OutageNewest, HeadOldest, BehindHead, Histories, Delivered
<1> QED
  BY <1>5, <1>6

\* At the end of a file all of it has left.
LEMMA DrainEndOnCard ==
  ASSUME OInv, NEW h \in Heads, RemoveHead(h), AtEnd(h)
  PROVE  OnCard' \subseteq OnCard /\ OnCard \subseteq OnCard' \cup Done
<1>2. /\ DOMAIN files \ {h} \subseteq DOMAIN files' /\ DOMAIN files' \subseteq DOMAIN files
      /\ \A n \in DOMAIN files' : files'[n] = files[n]
  BY DEF RemoveHead
<1>3. ASSUME NEW r \in OnCard PROVE r \in OnCard' \cup Done
  <2>1. PICK n \in DOMAIN files : \E i \in DOMAIN files[n] :
               files[n][i].whole /\ files[n][i].rec = r
    BY OnCardFacts
  <2>2. PICK i \in DOMAIN files[n] : files[n][i].whole /\ files[n][i].rec = r
    BY <2>1
  <2>3. CASE n = h
    <3>1. i \in 1 .. HeadPos
      BY <2>2, <2>3, FileFacts DEF AtEnd, OInv
    <3> QED
      BY <2>2, <2>3, <3>1, HeadFacts
  <2>4. CASE n # h
    BY <1>2, <2>2, <2>4 DEF OnCard, RecordsOf
  <2> QED
    BY <2>3, <2>4
<1>4. OnCard' \subseteq OnCard
  BY <1>2 DEF OnCard, RecordsOf
<1> QED
  BY <1>3, <1>4

\* drainOneRecord() at the end of a file.
LEMMA DrainEndPreserves ==
  ASSUME OInv, NEW h \in Heads, DrainEnd(h),
         AnyCard'
  PROVE  OInv'
<1>1. MayDrain /\ AtEnd(h) /\ RemoveHead(h)
      /\ UNCHANGED <<synced, nextSeq, outage, count, bootVars, appendVars, fateVars>>
  BY DEF DrainEnd
<1>2. /\ Contents' /\ InOrder' /\ OutageNewest' /\ HeadOldest' /\ BehindHead' /\ Histories'
  BY <1>1, RemovePreserves
<1>3. CardWorks'
  <2>1. /\ DOMAIN files \ {h} \subseteq DOMAIN files' /\ DOMAIN files' \subseteq DOMAIN files
        /\ \A n \in DOMAIN files' : files'[n] = files[n]
        /\ UNCHANGED <<fails, outage, count, synced, accepted, confirmed, stale, lost>>
    BY <1>1 DEF RemoveHead, bootVars, appendVars, fateVars
  <2>2. OnCard \subseteq OnCard' \cup Done
    BY <1>1, DrainEndOnCard
  <2>3. NoneForgotten => NoneForgotten'
    BY <2>1, <2>2 DEF NoneForgotten, Done, Delivered
  <2>4. outage # NoFile => files'[outage] = files[outage]
    BY <1>1, <2>1, HeadFacts DEF OInv, TypeOK
  <2> QED
    BY <2>1, <2>3, <2>4 DEF OInv, CardWorks
<1> QED
  BY <1>1, <1>2, <1>3, KeepsOInv DEF bootVars

\* On a card that works the drain never loses its framing.
LEMMA WorkingCardFramed ==
  ASSUME OInv, fails = {}, NEW h \in Heads, ~AtEnd(h)
  PROVE  Framed(h) /\ At(h).whole
<1>1. \A i \in DOMAIN files[h] : files[h][i].whole
  BY HeadFacts DEF OInv, CardWorks
<1>2. DOMAIN files[h] = 1 .. Len(files[h]) /\ Len(files[h]) \in Nat
  BY HeadFacts, FileFacts DEF OInv
<1>3. HeadPos \in 0 .. Len(files[h]) /\ HeadPos # Len(files[h])
  BY HeadFacts DEF AtEnd
<1>4. At(h).whole
  BY <1>1, <1>2, <1>3 DEF At
<1>5. ~OutOfFrame(h)
  BY <1>1, <1>2, <1>3 DEF OutOfFrame
<1> QED
  BY <1>4, <1>5 DEF Framed

\* drainOneRecord() out of frame, which no card that works brings about.
LEMMA DropUnreadablePreserves ==
  ASSUME OInv, NEW h \in Heads, DropUnreadable(h),
         AnyCard'
  PROVE  OInv'
<1>1. MayDrain /\ ~AtEnd(h) /\ (~Framed(h) \/ "read" \in fails) /\ RemoveHead(h)
      /\ UNCHANGED <<synced, nextSeq, outage, count, bootVars, appendVars, fateVars>>
  BY DEF DropUnreadable
<1>2. fails # {}
  BY <1>1, WorkingCardFramed
<1>3. /\ Contents' /\ InOrder' /\ OutageNewest' /\ HeadOldest' /\ BehindHead' /\ Histories'
  BY <1>1, RemovePreserves
<1>4. CardWorks'
  BY <1>1, <1>2 DEF CardWorks, bootVars
<1> QED
  BY <1>1, <1>3, <1>4, KeepsOInv DEF bootVars

\* The packet at the head, when it can be read.
LEMMA AtFacts ==
  ASSUME OInv, NEW h \in Heads, Framed(h)
  PROVE  /\ HeadPos + 1 \in DOMAIN files[h] /\ At(h) = files[h][HeadPos + 1]
         /\ At(h) \in Entry /\ At(h).rec \in Record /\ At(h).rec \in Nat /\ At(h).rec \in 1 .. accepted
         /\ HeadPos > 0 => files[h][HeadPos].whole
<1>1. h \in DOMAIN files /\ HeadPos \in 0 .. Len(files[h])
  BY HeadFacts
<1>2. HeadPos # Len(files[h]) /\ (HeadPos > 0 => files[h][HeadPos].whole)
  BY DEF Framed, AtEnd, OutOfFrame
<1>3. DOMAIN files[h] = 1 .. Len(files[h]) /\ Len(files[h]) \in Nat
  BY <1>1, FileFacts DEF OInv
<1>4. HeadPos + 1 \in DOMAIN files[h] /\ At(h) = files[h][HeadPos + 1]
  <2>1. HeadPos # Len(files[h])
    BY <1>2
  <2>2. HeadPos + 1 \in 1 .. Len(files[h])
    <3> DEFINE l == Len(files[h])
               k == HeadPos
    <3>1. l \in Nat /\ k \in 0 .. l /\ k # l
      BY <2>1, <1>1, <1>3
    <3> HIDE DEF l, k
    <3>2. k + 1 \in 1 .. l
      BY <3>1
    <3> QED
      BY <3>2 DEF l, k
  <2> QED
    BY <2>2, <1>3 DEF At
<1>5. At(h) \in Entry /\ At(h).rec \in Record /\ At(h).rec \in Nat
  BY <1>1, <1>4, FileFacts DEF OInv
<1>6. At(h).rec <= accepted
  BY <1>1, <1>4 DEF OInv, Contents
<1> QED
  BY <1>2, <1>4, <1>5, <1>6 DEF Record

\* Two entries of one packet are one entry.
LEMMA EntryUnique ==
  ASSUME OInv, NEW n \in DOMAIN files, NEW m \in DOMAIN files,
         NEW i \in DOMAIN files[n], NEW j \in DOMAIN files[m],
         files[n][i].rec = files[m][j].rec
  PROVE  n = m /\ i = j
<1>1. n \in Nat /\ m \in Nat /\ i \in Nat /\ j \in Nat
  BY FileFacts DEF OInv
<1>2. files[n][i].rec \in Nat /\ files[m][j].rec \in Nat
  BY FileFacts DEF OInv
<1>3. ~(n < m) /\ ~(m < n) /\ (n = m => ~(i < j) /\ ~(j < i))
  BY <1>2 DEF OInv, InOrder
<1> QED
  BY <1>1, <1>3

\* The head moves on over a packet that is done with, or torn.
LEMMA AdvancePreserves ==
  ASSUME OInv, NEW h \in Heads, Framed(h), Advance(h),
         UNCHANGED <<synced, nextSeq, outage, count, bootVars, appendVars, lost>>,
         At(h).whole => At(h).rec \in Done',
         \/ stale' = stale
         \/ stale' = stale \cup {At(h).rec} /\ OfEarlierBoot(At(h)),
         confirmed' = confirmed \/ confirmed' = confirmed \cup {<<At(h).rec, boot>>},
         AnyCard'
  PROVE  OInv'
<1>1. /\ drain' = h /\ pos' = HeadPos + 1
      /\ UNCHANGED <<files, synced, nextSeq, outage, count, fails, anchor, boot, blind, parked, accepted, origin,
                     lost>>
  BY DEF Advance, bootVars, appendVars
<1>2. /\ h \in Closed /\ \A n \in Closed : h <= n
      /\ h \in DOMAIN files /\ h # NoFile /\ h # outage
      /\ HeadPos \in 0 .. Len(files[h])
      /\ \A i \in 1 .. HeadPos :
           /\ files[h][i].whole => files[h][i].rec \in Done
           /\ i < HeadPos => files[h][i].whole
  BY HeadFacts
<1>3. /\ HeadPos + 1 \in DOMAIN files[h] /\ At(h) = files[h][HeadPos + 1]
      /\ At(h).rec \in Record /\ At(h).rec \in 1 .. accepted
      /\ HeadPos > 0 => files[h][HeadPos].whole
  BY AtFacts
<1>4. DOMAIN files[h] = 1 .. Len(files[h]) /\ Len(files[h]) \in Nat
  BY <1>2, FileFacts DEF OInv
<1>5. Delivered \subseteq Delivered' /\ Delivered' \subseteq Delivered \cup {At(h).rec}
  BY DEF Delivered
<1>6. Done \subseteq Done'
  BY <1>5 DEF Done
<1>8. InOrder' /\ OutageNewest'
  BY <1>1, <1>2 DEF OInv, InOrder, OutageNewest
<1>9. Contents'
  <2> SUFFICES ASSUME NEW n \in DOMAIN files, NEW i \in DOMAIN files[n],
                      files[n][i].rec \in stale'
               PROVE  files[n][i].mark # Stamped /\ files[n][i].mark < boot
    BY <1>1 DEF OInv, Contents
  <2>1. CASE files[n][i].rec \in stale
    BY <2>1 DEF OInv, Contents
  <2>2. CASE files[n][i].rec = At(h).rec /\ OfEarlierBoot(At(h))
    <3>1. files[n][i] = At(h)
      BY <2>2, <1>2, <1>3, EntryUnique
    <3>2. At(h).mark <= boot /\ At(h).mark # boot /\ At(h).mark # Stamped
      BY <2>2, <3>1 DEF OfEarlierBoot, OInv, Contents
    <3>3. boot \in Nat
      BY DEF OInv, TypeOK, Boot
    <3>4. TypeOK
      BY DEF OInv
    <3>5. files[n][i].mark \in Nat
      BY <3>4, FileFacts
    <3> QED
      BY <3>1, <3>2, <3>3, <3>5
  <2> QED
    BY <2>1, <2>2
<1>10. HeadOldest'
  BY <1>1, <1>2 DEF HeadOldest, Closed
<1>11. BehindHead'
  <2> SUFFICES ASSUME NEW i \in 1 .. HeadPos + 1
               PROVE  /\ files[h][i].whole => files[h][i].rec \in Done'
                      /\ i < HeadPos + 1 => files[h][i].whole
    BY <1>1 DEF BehindHead
  <2>1. CASE i = HeadPos + 1
    BY <2>1, <1>2, <1>3
  <2>2. CASE i \in 1 .. HeadPos
    BY <2>2, <1>2, <1>3, <1>6
  <2> QED
    BY <2>1, <2>2, <1>2
<1>12. Histories'
  BY <1>1, <1>3, <1>5 DEF OInv, Histories
<1>13. CardWorks'
  <2>1. OnCard' = OnCard
    BY <1>1 DEF OnCard, RecordsOf
  <2>2. NoneForgotten => NoneForgotten'
    BY <2>1, <1>1, <1>6 DEF NoneForgotten, Done
  <2> QED
    BY <1>1, <2>2 DEF OInv, CardWorks
<1> QED
  BY <1>1, <1>8, <1>9, <1>10, <1>11, <1>12, <1>13, KeepsOInv

\* A packet of an earlier boot is dropped, another one is confirmed.
LEMMA PassPreserves ==
  ASSUME OInv, NEW h \in Heads, DropStale(h) \/ TransmitConfirmed(h),
         AnyCard'
  PROVE  OInv'
<1>1. CASE DropStale(h)
  <2>1. /\ MayDrain /\ Framed(h) /\ OfEarlierBoot(At(h)) /\ Advance(h)
        /\ stale' = IF At(h).whole THEN stale \cup {At(h).rec} ELSE stale
        /\ UNCHANGED <<synced, nextSeq, outage, count, bootVars, appendVars, confirmed, lost>>
    BY <1>1 DEF DropStale
  <2>2. At(h).whole => At(h).rec \in Done'
    BY <2>1 DEF Done
  <2> QED
    BY <2>1, <2>2, AdvancePreserves
<1>2. CASE TransmitConfirmed(h)
  <2>1. /\ MayDrain /\ Framed(h) /\ Advance(h)
        /\ confirmed' = IF At(h).whole THEN confirmed \cup {<<At(h).rec, boot>>} ELSE confirmed
        /\ UNCHANGED <<synced, nextSeq, outage, count, bootVars, appendVars, stale, lost>>
    BY <1>2 DEF TransmitConfirmed
  <2>2. At(h).whole => At(h).rec \in Done'
    <3> SUFFICES ASSUME At(h).whole PROVE At(h).rec \in Delivered'
      BY DEF Done
    <3>1. <<At(h).rec, boot>> \in confirmed'
      BY <2>1
    <3> QED
      BY <3>1 DEF Delivered
  <2> QED
    BY <2>1, <2>2, AdvancePreserves
<1> QED
  BY <1>1, <1>2

\* A tick that the anchor does not resolve leaves the file open, and the head where it was.
LEMMA UnresolvedPreserves ==
  ASSUME OInv, NEW h \in Heads, Unresolved(h),
         AnyCard'
  PROVE  OInv'
<1>1. /\ drain' = h /\ pos' = HeadPos
      /\ UNCHANGED <<files, synced, nextSeq, outage, count, fails, anchor, boot, blind, parked, accepted,
                     origin, confirmed, stale, lost>>
  BY DEF Unresolved, cardVars, bootVars, appendVars, fateVars
<1>2. Contents' /\ InOrder' /\ OutageNewest' /\ Histories'
  BY <1>1 DEF OInv, Contents, InOrder, OutageNewest, Histories, Delivered
<1>3. HeadOldest' /\ BehindHead'
  BY <1>1, HeadFacts DEF HeadOldest, BehindHead, Closed, Done, Delivered
<1>4. CardWorks'
  BY <1>1 DEF OInv, CardWorks, NoneForgotten, OnCard, Delivered
<1> QED
  BY <1>1, <1>2, <1>3, <1>4, KeepsOInv

\* A failed transmit closes the file.
LEMMA TransmitFailsPreserves ==
  ASSUME OInv, NEW h \in Heads, TransmitFails(h),
         AnyCard'
  PROVE  OInv'
<1>1. /\ drain' = NoFile /\ pos' = 0
      /\ UNCHANGED <<files, synced, nextSeq, outage, count, fails, anchor, boot, blind, parked, accepted, origin,
                     confirmed, stale, lost>>
  BY DEF TransmitFails, cardVars, bootVars, appendVars, fateVars
<1>3. Contents' /\ InOrder' /\ OutageNewest' /\ HeadOldest' /\ BehindHead' /\ Histories'
  BY <1>1 DEF OInv, Contents, InOrder, OutageNewest, HeadOldest, BehindHead, Histories, Delivered
<1>4. CardWorks'
  BY <1>1 DEF OInv, CardWorks, NoneForgotten, OnCard, Delivered
<1> QED
  BY <1>1, <1>3, <1>4, KeepsOInv

-----------------------------------------------------------------------------
(***************************************************************************)
(* A restart.                                                              *)
(***************************************************************************)

\* What a restart takes are the packets behind the last flush.
LEMMA UnsyncedFacts ==
  ASSUME OInv, NEW r
  PROVE  r \in Unsynced <=> /\ outage # NoFile
                            /\ \E i \in DOMAIN files[outage] :
                                 i > synced /\ files[outage][i].whole /\ files[outage][i].rec = r
<1>1. CASE outage = NoFile
  BY <1>1 DEF Unsynced
<1>2. CASE outage # NoFile
  <2> DEFINE s == files[outage]
             c == SubSeq(s, 1, synced)
  <2>1. outage \in DOMAIN files /\ synced \in 0 .. Len(s)
    BY <1>2 DEF OInv, TypeOK
  <2>2. s \in Seq(Entry) /\ DOMAIN s = 1 .. Len(s) /\ Len(s) \in Nat
    BY <2>1, FileFacts DEF OInv
  <2>3. c \in Seq(Entry) /\ Len(c) = synced /\ \A i \in 1 .. synced : c[i] = s[i]
    BY <2>1, <2>2, CutFacts
  <2>4. DOMAIN c = 1 .. synced
    BY <2>3
  <2>5. Unsynced = RecordsOf(s) \ RecordsOf(c)
    BY <1>2 DEF Unsynced
  <2>6. \A i, j \in DOMAIN s : s[i].rec = s[j].rec => i = j
    BY <2>1, EntryUnique
  <2> HIDE DEF s, c
  <2>7. r \in RecordsOf(s) <=> \E i \in DOMAIN s : s[i].whole /\ s[i].rec = r
    BY DEF RecordsOf
  <2>8. r \in RecordsOf(c) <=> \E i \in 1 .. synced : s[i].whole /\ s[i].rec = r
    BY <2>3, <2>4 DEF RecordsOf
  <2>9. r \in Unsynced <=> \E i \in DOMAIN s : i > synced /\ s[i].whole /\ s[i].rec = r
    BY <2>1, <2>2, <2>5, <2>6, <2>7, <2>8
  <2> QED
    BY <1>2, <2>9 DEF s
<1> QED
  BY <1>1, <1>2

\* Power cut or ESP.restart(): what was flushed is found again, under its number.
LEMMA RestartPreserves ==
  ASSUME OInv, Restart,
         AnyCard'
  PROVE  OInv'
<1>1. /\ boot < MaxBoots /\ boot' = boot + 1 /\ lost' = lost \cup Unsynced
      /\ outage' = NoFile /\ count' = 0 /\ synced' = 0 /\ drain' = NoFile /\ pos' = 0
      /\ anchor' = "none" /\ parked' = FALSE
      /\ UNCHANGED <<fails, accepted, origin, confirmed, stale>>
  BY DEF Restart, appendVars
<1>2. /\ \A n \in DOMAIN files' :
           /\ n \in DOMAIN files /\ files'[n] \in Seq(Entry)
           /\ \A i \in DOMAIN files'[n] : /\ i \in DOMAIN files[n] /\ files'[n][i] = files[n][i]
                                          /\ n = outage => i <= synced
      /\ \A n \in DOMAIN files : \A i \in DOMAIN files[n] :
           \/ n \in DOMAIN files' /\ i \in DOMAIN files'[n] /\ files'[n][i] = files[n][i]
           \/ outage # NoFile /\ n = outage /\ i > synced
  BY CutKeeps DEF OInv
<1>3. fails' = fails /\ blind' = blind
  <2>1. "scan" \notin fails /\ blind = FALSE
    BY DEF OInv, TypeOK
  <2>2. fails' = fails /\ blind' = FALSE
    BY <2>1 DEF Restart
  <2> QED
    BY <2>1, <2>2
<1>5. Unsynced \subseteq 1 .. accepted
  <2> SUFFICES ASSUME NEW r \in Unsynced PROVE r \in 1 .. accepted
    OBVIOUS
  <2>1. PICK i \in DOMAIN files[outage] : outage # NoFile /\ files[outage][i].rec = r
    BY UnsyncedFacts
  <2>2. outage \in DOMAIN files
    BY <2>1 DEF OInv, TypeOK
  <2>3. files[outage][i].rec \in Record /\ files[outage][i].rec <= accepted
    BY <2>1, <2>2, FileFacts DEF OInv, Contents
  <2> QED
    BY <2>1, <2>3 DEF Record, OInv, TypeOK
<1>7. OutageNewest' /\ HeadOldest' /\ BehindHead' /\ Histories'
  BY <1>1, <1>5 DEF OInv, OutageNewest, HeadOldest, BehindHead, Histories, Delivered
<1>8. InOrder'
  BY <1>2 DEF OInv, InOrder
<1>9. Contents'
  <2> SUFFICES ASSUME NEW n \in DOMAIN files', NEW i \in DOMAIN files'[n]
               PROVE  LET x == files'[n][i] IN
                      /\ x.rec <= accepted
                      /\ x.mark # Stamped => x.mark = origin[x.rec] /\ x.mark <= boot'
                      /\ x.rec \in stale => x.mark # Stamped /\ x.mark < boot'
                      /\ x.whole => x.rec \notin lost'
    BY <1>1 DEF Contents
  <2>1. n \in DOMAIN files /\ i \in DOMAIN files[n] /\ files'[n][i] = files[n][i]
    BY <1>2
  <2> DEFINE x == files[n][i]
  <2>2. /\ x.rec <= accepted
        /\ x.mark # Stamped => x.mark = origin[x.rec] /\ x.mark <= boot
        /\ x.rec \in stale => x.mark # Stamped /\ x.mark < boot
        /\ x.whole => x.rec \notin lost
    BY <2>1 DEF OInv, Contents
  <2>3. x.mark \in Nat /\ boot \in Nat
    BY <2>1, FileFacts DEF OInv, TypeOK, Boot
  <2>4. x.rec \notin Unsynced
    <3> SUFFICES ASSUME x.rec \in Unsynced PROVE FALSE
      OBVIOUS
    <3>1. PICK j \in DOMAIN files[outage] :
                 outage # NoFile /\ j > synced /\ files[outage][j].rec = x.rec
      BY UnsyncedFacts
    <3>2. outage \in DOMAIN files
      BY <3>1 DEF OInv, TypeOK
    <3>3. n = outage /\ i = j
      BY <2>1, <3>1, <3>2, EntryUnique
    <3>4. i <= synced /\ synced \in Nat /\ i \in Nat
      BY <1>2, <2>1, <3>2, <3>3, FileFacts DEF OInv, TypeOK
    <3> QED
      BY <3>1, <3>3, <3>4
  <2> HIDE DEF x
  <2>5. /\ x.rec <= accepted
        /\ x.mark # Stamped => x.mark = origin[x.rec] /\ x.mark <= boot'
        /\ x.rec \in stale => x.mark # Stamped /\ x.mark < boot'
        /\ x.whole => x.rec \notin lost'
    BY <1>1, <2>2, <2>3, <2>4
  <2> QED
    BY <2>1, <2>5 DEF x
<1>10. CardWorks'
  <2>1. ASSUME NEW r \in OnCard PROVE r \in OnCard' \cup Unsynced
    <3>1. PICK n \in DOMAIN files : \E i \in DOMAIN files[n] :
                 files[n][i].whole /\ files[n][i].rec = r
      BY OnCardFacts
    <3>2. PICK i \in DOMAIN files[n] : files[n][i].whole /\ files[n][i].rec = r
      BY <3>1
    <3>3. CASE n \in DOMAIN files' /\ i \in DOMAIN files'[n] /\ files'[n][i] = files[n][i]
      BY <3>2, <3>3 DEF OnCard, RecordsOf
    <3>4. CASE outage # NoFile /\ n = outage /\ i > synced
      BY <3>2, <3>4, UnsyncedFacts
    <3> QED
      BY <1>2, <3>3, <3>4
  <2>2. NoneForgotten => NoneForgotten'
    BY <1>1, <2>1 DEF NoneForgotten, Delivered
  <2> QED
    BY <1>1, <1>2, <2>2 DEF OInv, CardWorks
<1> QED
  BY <1>3, <1>7, <1>8, <1>9, <1>10, KeepsOInv DEF OInv

-----------------------------------------------------------------------------
(***************************************************************************)
(* The invariant, and what follows from it.                                *)
(***************************************************************************)

\* Every step preserves the invariant.
LEMMA StepPreserves ==
  ASSUME OInv, AnyCard', [Next]_vars
  PROVE  OInv'
<1>1. CASE UNCHANGED vars
  <2>1. UNCHANGED <<files, synced, nextSeq, outage, count, drain, pos, fails, anchor, boot, blind, parked,
                    accepted, origin, confirmed, stale, lost>>
    BY <1>1 DEF vars, cardVars, drainVars, bootVars, appendVars, fateVars
  <2> QED
    BY <2>1 DEF OInv, TypeOK, FilesApart, Contents, InOrder, OutageNewest, HeadOldest, BehindHead,
       Histories, CardWorks, NoneForgotten, Closed, Done, OnCard, Delivered
<1>2. ASSUME NEW stamped \in BOOLEAN, AppendRecord(stamped) PROVE OInv'
  BY <1>2, AppendPreserves
<1>3. ASSUME NEW stamped \in BOOLEAN, AppendFails(stamped) PROVE OInv'
  BY <1>3, AppendFailsPreserves
<1>4. CASE EndOutage
  BY <1>4, EndOutagePreserves
<1>5. CASE CloseForStandby
  BY <1>5, ClosePreserves
<1>6. CASE DrainOneRecord
  <2>1. PICK h \in Heads : \/ DrainEnd(h) \/ DropUnreadable(h)
                           \/ DropStale(h) \/ Unresolved(h)
                           \/ TransmitConfirmed(h) \/ TransmitFails(h)
    BY <1>6 DEF DrainOneRecord
  <2> QED
    BY <2>1, DrainEndPreserves, DropUnreadablePreserves, PassPreserves, UnresolvedPreserves,
       TransmitFailsPreserves
<1>7. CASE SetAnchor
  <2>1. UNCHANGED <<files, synced, nextSeq, outage, count, drain, pos, fails, boot, blind, parked,
                    accepted, origin, confirmed, stale, lost>>
    BY <1>7 DEF SetAnchor, cardVars, drainVars, appendVars, fateVars
  <2>2. /\ Contents' /\ InOrder' /\ OutageNewest' /\ HeadOldest' /\ BehindHead' /\ Histories'
        /\ CardWorks'
    BY <2>1 DEF OInv, Contents, InOrder, OutageNewest, HeadOldest, BehindHead,
       Histories, CardWorks, NoneForgotten, Closed, Done, OnCard, Delivered
  <2> QED
    BY <2>1, <2>2, KeepsOInv
<1>8. CASE Restart
  BY <1>8, RestartPreserves
<1> QED
  BY <1>1, <1>2, <1>3, <1>4, <1>5, <1>6, <1>7, <1>8 DEF Next

\* A card does not change its mind.
LEMMA StepKeepsCard ==
  ASSUME [Next]_vars
  PROVE  fails' = fails
<1>1. CASE DrainOneRecord
  BY <1>1 DEF DrainOneRecord, DrainEnd, DropUnreadable, DropStale, Unresolved, TransmitConfirmed,
     TransmitFails, bootVars
<1>2. CASE Next /\ ~DrainOneRecord
  BY <1>2 DEF Next, AppendRecord, AppendFails, EndOutage, CloseForStandby, SetAnchor, Restart,
     bootVars
<1>3. CASE UNCHANGED vars
  BY <1>3 DEF vars, bootVars
<1> QED
  BY <1>1, <1>2, <1>3

\* The invariant holds throughout.
THEOREM Inductive == Spec => []IInv
<1>1. ASSUME IInv, [Next]_vars PROVE IInv'
  <2>1. AnyCard'
    BY <1>1, StepAnyCard DEF IInv
  <2>2. fails' = fails
    BY <1>1, StepKeepsCard
  <2>3. "scan" \notin fails => OInv'
    BY <1>1, <2>1, StepPreserves DEF IInv
  <2> QED
    BY <2>1, <2>2, <2>3 DEF IInv
<1> QED
  BY InitEstablishes, <1>1, PTL DEF Spec

\* Type correctness: no position beyond a file's end, no flush ahead of its writes.
THEOREM TypeCorrect == Spec => []TypeOK
<1>1. IInv => TypeOK
  BY DEF IInv, AnyCard
<1> QED
  BY Inductive, <1>1, PTL

\* The two handles never share a file; and no outage overwrites one, on any card, in a boot
\* whose init() saw the newest file.
THEOREM FilesStayApart == Spec => []FilesApart
<1>1. IInv => FilesApart
  BY DEF IInv, AnyCard
<1> QED
  BY Inductive, <1>1, PTL

\* On a card that works no packet is forgotten, whatever the order of appends, outages,
\* drains, failed transmits, ticks not resolved, power cuts and restarts.
THEOREM NothingForgotten == Spec => []NoneForgotten
<1>1. IInv => NoneForgotten
  BY DEF IInv, OInv, CardWorks, NoneForgotten
<1> QED
  BY Inductive, <1>1, PTL

\* The drain goes oldest first on a card whose directory can be read, whatever else fails.
THEOREM DrainsOldestFirst == Spec => OldestFirst
<1>1. ASSUME IInv, NEW h \in Heads, NEW r \in Record, "scan" \notin fails, Transmits(h, r),
             NEW n \in DOMAIN files \ {outage}, NEW i \in DOMAIN files[n], files[n][i].rec < r
      PROVE  files[n][i].rec \in Delivered \cup stale
  <2>0. OInv
    BY <1>1 DEF IInv
  <2>1. Framed(h) /\ At(h).rec = r
    BY <1>1 DEF Transmits, TransmitConfirmed, TransmitFails
  <2>2. /\ h \in DOMAIN files /\ HeadPos + 1 \in DOMAIN files[h]
        /\ files[h][HeadPos + 1].rec = r
        /\ HeadPos > 0 => files[h][HeadPos].whole
    BY <2>0, <2>1, HeadFacts, AtFacts
  <2>3. h <= n /\ h \in Nat /\ n \in Nat
    BY <2>0, <2>1, HeadFacts, FileFacts DEF Closed, OInv
  <2>4. files[n][i].rec \in Nat /\ r \in Nat /\ i \in Nat /\ i > 0 /\ HeadPos + 1 \in Nat
    BY <2>0, <2>2, FileFacts DEF OInv, Record
  <2>5. ~(h < n) /\ ~(h = n /\ HeadPos + 1 < i) /\ ~(h = n /\ i = HeadPos + 1)
    BY <1>1, <2>0, <2>2, <2>4 DEF OInv, InOrder
  <2>6. HeadPos \in Nat
    <3>1. HeadPos \in 0 .. Len(files[h]) /\ Len(files[h]) \in Nat
      BY <2>0, <2>2, HeadFacts, FileFacts DEF OInv
    <3> QED
      BY <3>1
  <2>7. n = h /\ i \in 1 .. HeadPos
    BY <2>3, <2>4, <2>5, <2>6
  <2>8. files[h][i].whole
    BY <2>0, <2>2, <2>6, <2>7, HeadFacts
  <2> QED
    BY <2>0, <2>7, <2>8, HeadFacts DEF Done
<1>2. IInv /\ [Next]_vars =>
        [\A h \in Heads : \A r \in Record : "scan" \notin fails /\ Transmits(h, r) =>
           \A n \in DOMAIN files \ {outage} : \A i \in DOMAIN files[n] :
             files[n][i].rec < r => files[n][i].rec \in Delivered \cup stale]_vars
  BY <1>1
<1> QED
  BY Inductive, <1>2, PTL DEF Spec, OldestFirst

\* No tick is resolved against the clock of another boot, on any card.
THEOREM TicksKeepTheirBoot == Spec => TicksOfThisBoot
<1>1. ASSUME IInv, NEW h \in Heads, NEW r \in Record, Transmits(h, r), At(h).mark # Stamped
      PROVE  origin[r] = boot
  <2>1. Framed(h) /\ ~OfEarlierBoot(At(h)) /\ At(h).rec = r
    BY <1>1 DEF Transmits, TransmitConfirmed, TransmitFails
  <2>2. h \in DOMAIN files /\ HeadPos + 1 \in DOMAIN files[h]
    BY <1>1, <2>1, AnyHeadFacts DEF IInv
  <2>3. At(h).mark = origin[At(h).rec]
    BY <1>1, <2>2 DEF IInv, AnyCard, Marks, At
  <2> QED
    BY <1>1, <2>1, <2>3 DEF OfEarlierBoot
<1>2. IInv /\ [Next]_vars =>
        [\A h \in Heads : \A r \in Record :
           Transmits(h, r) /\ At(h).mark # Stamped => origin[r] = boot]_vars
  BY <1>1
<1> QED
  BY Inductive, <1>2, PTL DEF Spec, TicksOfThisBoot

-----------------------------------------------------------------------------
(***************************************************************************)
(* The spool implements SpoolPromise on a card that works.                 *)
(***************************************************************************)
Waiting == OnCard \ (Delivered \cup stale)
Gone == (lost \cup stale) \ Delivered

\* A restart takes from the card what was not flushed, ...
LEMMA RestartOnCard ==
  ASSUME OInv, Restart
  PROVE  OnCard' = OnCard \ Unsynced /\ Unsynced \subseteq OnCard
<1>1. /\ \A n \in DOMAIN files' :
           /\ n \in DOMAIN files /\ files'[n] \in Seq(Entry)
           /\ \A i \in DOMAIN files'[n] : /\ i \in DOMAIN files[n] /\ files'[n][i] = files[n][i]
                                          /\ n = outage => i <= synced
      /\ \A n \in DOMAIN files : \A i \in DOMAIN files[n] :
           \/ n \in DOMAIN files' /\ i \in DOMAIN files'[n] /\ files'[n][i] = files[n][i]
           \/ outage # NoFile /\ n = outage /\ i > synced
  BY CutKeeps DEF OInv
<1>2. ASSUME NEW r \in OnCard, r \notin Unsynced PROVE r \in OnCard'
  <2>1. PICK n \in DOMAIN files : \E i \in DOMAIN files[n] :
               files[n][i].whole /\ files[n][i].rec = r
    BY OnCardFacts
  <2>2. PICK i \in DOMAIN files[n] : files[n][i].whole /\ files[n][i].rec = r
    BY <2>1
  <2>3. n \in DOMAIN files' /\ i \in DOMAIN files'[n] /\ files'[n][i] = files[n][i]
    BY <1>1, <1>2, <2>2, UnsyncedFacts
  <2> QED
    BY <2>2, <2>3 DEF OnCard, RecordsOf
<1>3. ASSUME NEW r \in OnCard' PROVE r \in OnCard /\ r \notin Unsynced
  <2>1. PICK n \in DOMAIN files' : \E i \in DOMAIN files'[n] :
               files'[n][i].whole /\ files'[n][i].rec = r
    BY <1>3 DEF OnCard, RecordsOf
  <2>2. PICK i \in DOMAIN files'[n] : files'[n][i].whole /\ files'[n][i].rec = r
    BY <2>1
  <2>3. /\ n \in DOMAIN files /\ i \in DOMAIN files[n] /\ (n = outage => i <= synced)
        /\ files[n][i].whole /\ files[n][i].rec = r
    BY <1>1, <2>2
  <2>4. r \in OnCard
    BY <2>3 DEF OnCard, RecordsOf
  <2>5. ASSUME r \in Unsynced PROVE FALSE
    <3>1. PICK j \in DOMAIN files[outage] :
                 outage # NoFile /\ j > synced /\ files[outage][j].rec = r
      BY <2>5, UnsyncedFacts
    <3>2. outage \in DOMAIN files
      BY <3>1 DEF OInv, TypeOK
    <3>3. n = outage /\ i = j
      BY <2>3, <3>1, <3>2, EntryUnique
    <3>4. i <= synced /\ synced \in Nat /\ i \in Nat
      BY <2>3, <3>2, <3>3, FileFacts DEF OInv, TypeOK
    <3> QED
      BY <3>1, <3>3, <3>4
  <2> QED
    BY <2>4, <2>5
<1>4. ASSUME NEW r \in Unsynced PROVE r \in OnCard
  <2>1. PICK i \in DOMAIN files[outage] :
               outage # NoFile /\ files[outage][i].whole /\ files[outage][i].rec = r
    BY UnsyncedFacts
  <2>2. outage \in DOMAIN files
    BY <2>1 DEF OInv, TypeOK
  <2> QED
    BY <2>1, <2>2 DEF OnCard, RecordsOf
<1> QED
  BY <1>2, <1>3, <1>4

\* ... which is fewer than FlushEvery packets.
LEMMA CutIsSmall ==
  ASSUME OInv, fails = {}
  PROVE  IsFiniteSet(Unsynced) /\ Cardinality(Unsynced) < FlushEvery
<1>1. CASE outage = NoFile
  <2>1. Unsynced = {}
    BY <1>1 DEF Unsynced
  <2> QED
    BY <2>1, FS_EmptySet, SpoolAssumption
<1>2. CASE outage # NoFile
  <2> DEFINE I == synced + 1 .. count
             f == [i \in I |-> files[outage][i].rec]
             T == {f[i] : i \in I}
  <2>1. /\ count = Len(files[outage]) /\ count - synced = count % FlushEvery
        /\ count \in Nat /\ synced \in 0 .. count /\ outage \in DOMAIN files
    BY <1>2 DEF OInv, CardWorks, TypeOK
  <2>2. IsFiniteSet(I) /\ Cardinality(I) = count - synced
    <3>1. synced + 1 \in Int /\ count \in Int
      BY <2>1
    <3>2. IsFiniteSet(I) /\ Cardinality(I) = IF synced + 1 > count THEN 0 ELSE count - (synced + 1) + 1
      BY <3>1, FS_Interval
    <3> QED
      BY <2>1, <3>2
  <2>3. f \in Surjection(I, T)
    BY DEF Surjection
  <2>4. IsFiniteSet(T) /\ Cardinality(T) <= Cardinality(I)
    BY <2>2, <2>3, FS_Surjection
  <2>5. Unsynced \subseteq T
    <3> SUFFICES ASSUME NEW r \in Unsynced PROVE r \in T
      OBVIOUS
    <3>1. PICK i \in DOMAIN files[outage] : i > synced /\ files[outage][i].rec = r
      BY UnsyncedFacts
    <3>2. i \in I
      BY <2>1, <3>1, FileFacts DEF OInv
    <3> QED
      BY <3>1, <3>2
  <2>6. IsFiniteSet(Unsynced) /\ Cardinality(Unsynced) <= Cardinality(T)
    BY <2>4, <2>5, FS_Subset
  <2>7. count % FlushEvery \in 0 .. FlushEvery - 1
    BY <2>1, RemainderSteps
  <2>8. Cardinality(Unsynced) \in Nat /\ Cardinality(T) \in Nat
    BY <2>4, <2>6, FS_CardinalityType
  <2> HIDE DEF I, f, T
  <2> QED
    BY <2>1, <2>2, <2>4, <2>6, <2>7, <2>8, SpoolAssumption
<1> QED
  BY <1>1, <1>2

\* A step of the spool is a step of the promise, or none.
LEMMA StepKeepsPromise ==
  ASSUME OInv, [Next]_vars, fails = {}, fails' = {}
  PROVE  [Promise!Next]_(Promise!vars)
<1> DEFINE Gains(r) == /\ r \notin Waiting \cup Delivered \cup Gone
                       /\ Waiting' = Waiting \cup {r}
                       /\ Delivered' = Delivered /\ Gone' = Gone
           Delivers(r) == /\ r \in Waiting /\ Waiting' = Waiting \ {r}
                          /\ Delivered' = Delivered \cup {r} /\ Gone' = Gone
           GivesUp(r) == /\ r \in Waiting /\ Waiting' = Waiting \ {r}
                         /\ Delivered' = Delivered /\ Gone' = Gone \cup {r}
           Cuts(S) == /\ S \subseteq Waiting /\ Cardinality(S) < FlushEvery
                      /\ Waiting' = Waiting \ S
                      /\ Delivered' = Delivered /\ Gone' = Gone \cup S
           Stays == Waiting' = Waiting /\ Delivered' = Delivered /\ Gone' = Gone
           Fate == (\E r \in Record : Gains(r) \/ Delivers(r) \/ GivesUp(r)) \/ (\E S : Cuts(S)) \/ Stays
<1>a. ASSUME NEW r \in Record, Gains(r) \/ Delivers(r) \/ GivesUp(r)
      PROVE  Promise!Next
  <2>1. Gains(r) => Promise!Accept(r)
    BY DEF Promise!Accept, Waiting, Gone, OnSoundCard
  <2>2. Delivers(r) => Promise!Deliver(r)
    BY DEF Promise!Deliver, Waiting, Gone, OnSoundCard
  <2>3. GivesUp(r) => Promise!GiveUp(r)
    BY DEF Promise!GiveUp, Waiting, Gone, OnSoundCard
  <2> HIDE DEF Gains, Delivers, GivesUp
  <2> QED
    BY <1>a, <2>1, <2>2, <2>3 DEF Promise!Next
<1>b. ASSUME NEW S, Cuts(S)
      PROVE  Promise!Next
  <2>1. Promise!PowerCut(S)
    <3>1. Promise!Cardinality(S) = Cardinality(S)
      BY Zenon DEF Promise!Cardinality, Cardinality
    <3> QED
      BY <1>b, <3>1 DEF Promise!PowerCut, Waiting, Gone, OnSoundCard
  <2>2. S \in SUBSET OnSoundCard(OnCard \ (Delivered \cup stale))
    BY <1>b DEF Waiting, OnSoundCard
  <2> QED
    BY <2>1, <2>2 DEF Promise!Next
<1>c. Stays => UNCHANGED Promise!vars
  BY DEF Promise!vars, Waiting, Gone, OnSoundCard
<1> SUFFICES Fate
  <2> HIDE DEF Gains, Delivers, GivesUp, Cuts, Stays
  <2> QED
    BY <1>a, <1>b, <1>c
<1>1. ASSUME NEW stamped \in BOOLEAN, AppendRecord(stamped)
      PROVE  \E r \in Record : Gains(r)
  <2>1. accepted \in Nat /\ accepted + 1 \in Record
    <3>1. accepted \in Nat /\ accepted < MaxRecords
      BY <1>1, SpoolAssumption DEF AppendRecord, AcceptNext, OInv, TypeOK
    <3> QED
      BY <3>1, SpoolAssumption DEF Record
  <2>2. OnCard' = OnCard \cup {accepted + 1}
    BY <1>1, AppendOnCard
  <2>3. UNCHANGED <<confirmed, stale, lost>>
    BY <1>1 DEF AppendRecord, fateVars
  <2>4. accepted + 1 \notin Delivered \cup stale \cup lost
    BY <2>1 DEF OInv, Histories
  <2>5. accepted + 1 \notin OnCard
    <3> SUFFICES ASSUME accepted + 1 \in OnCard PROVE FALSE
      OBVIOUS
    <3>1. PICK n \in DOMAIN files : \E i \in DOMAIN files[n] : files[n][i].rec = accepted + 1
      BY OnCardFacts
    <3> QED
      BY <2>1, <3>1 DEF OInv, Contents
  <2>6. Delivered' = Delivered
    BY <2>3 DEF Delivered
  <2> QED
    BY <2>1, <2>2, <2>3, <2>4, <2>5, <2>6 DEF Waiting, Gone
<1>2. ASSUME UNCHANGED <<files, confirmed, stale, lost>>
      PROVE  Stays
  BY <1>2 DEF Waiting, Gone, Delivered, OnCard
<1>3. ASSUME NEW h \in Heads, DrainEnd(h) PROVE Stays
  <2>1. OnCard' \subseteq OnCard /\ OnCard \subseteq OnCard' \cup Done
    BY <1>3, DrainEndOnCard DEF DrainEnd
  <2>2. UNCHANGED <<confirmed, stale, lost>>
    BY <1>3 DEF DrainEnd, fateVars
  <2> QED
    BY <2>1, <2>2 DEF Waiting, Gone, Done, Delivered
<1>4. ASSUME NEW h \in Heads PROVE ~DropUnreadable(h)
  <2>1. DropUnreadable(h) => ~AtEnd(h) /\ ~Framed(h)
    BY DEF DropUnreadable
  <2> QED
    BY <2>1, WorkingCardFramed
<1>5. ASSUME NEW h \in Heads, DropStale(h) \/ TransmitConfirmed(h)
      PROVE  /\ At(h).rec \in Record /\ At(h).rec \in OnCard /\ At(h).rec \notin lost /\ At(h).whole
             /\ OnCard' = OnCard /\ lost' = lost
             /\ At(h).rec \in stale => OfEarlierBoot(At(h))
  <2>1. MayDrain /\ Framed(h) /\ ~AtEnd(h) /\ Advance(h) /\ lost' = lost
    BY <1>5 DEF DropStale, TransmitConfirmed, Framed
  <2>2. At(h).whole
    BY <2>1, WorkingCardFramed
  <2>3. /\ h \in DOMAIN files /\ HeadPos + 1 \in DOMAIN files[h]
        /\ At(h) = files[h][HeadPos + 1] /\ At(h).rec \in Record
    BY <2>1, HeadFacts, AtFacts
  <2>4. At(h).rec \in OnCard
    BY <2>2, <2>3 DEF OnCard, RecordsOf
  <2>5. At(h).rec \notin lost /\ (At(h).rec \in stale => At(h).mark # Stamped /\ At(h).mark < boot)
    BY <2>2, <2>3 DEF OInv, Contents
  <2>6. At(h).mark \in Nat /\ boot \in Nat
    BY <2>3, FileFacts DEF OInv, TypeOK, Boot
  <2>7. OnCard' = OnCard
    BY <2>1 DEF Advance, OnCard
  <2> QED
    BY <2>1, <2>2, <2>3, <2>4, <2>5, <2>6, <2>7 DEF OfEarlierBoot
<1>6. ASSUME NEW h \in Heads, DropStale(h) PROVE Fate
  <2>1. stale' = stale \cup {At(h).rec} /\ confirmed' = confirmed
    BY <1>5, <1>6 DEF DropStale
  <2>2. Delivered' = Delivered
    BY <2>1 DEF Delivered
  <2>3. CASE At(h).rec \in Delivered \cup stale
    BY <1>5, <1>6, <2>1, <2>2, <2>3 DEF Waiting, Gone
  <2>4. CASE At(h).rec \notin Delivered \cup stale
    BY <1>5, <1>6, <2>1, <2>2, <2>4 DEF Waiting, Gone
  <2> QED
    BY <2>3, <2>4
<1>7. ASSUME NEW h \in Heads, TransmitConfirmed(h) PROVE Fate
  <2>1. confirmed' = confirmed \cup {<<At(h).rec, boot>>} /\ stale' = stale
    BY <1>5, <1>7 DEF TransmitConfirmed
  <2>2. Delivered' = Delivered \cup {At(h).rec}
    <3>1. At(h).rec \in Delivered'
      <4>1. <<At(h).rec, boot>> \in confirmed' /\ <<At(h).rec, boot>>[1] = At(h).rec
        BY <2>1
      <4> QED
        BY <4>1 DEF Delivered
    <3>2. Delivered \subseteq Delivered'
      BY <2>1 DEF Delivered
    <3>3. ASSUME NEW r \in Delivered', r # At(h).rec PROVE r \in Delivered
      <4>1. PICK c \in confirmed' : c[1] = r
        BY <3>3 DEF Delivered
      <4>2. c # <<At(h).rec, boot>>
        BY <3>3, <4>1
      <4>3. c \in confirmed
        BY <2>1, <4>1, <4>2
      <4> QED
        BY <4>1, <4>3 DEF Delivered
    <3> QED
      BY <3>1, <3>2, <3>3
  <2>3. At(h).rec \notin stale
    BY <1>5, <1>7 DEF TransmitConfirmed
  <2>4. CASE At(h).rec \in Delivered
    BY <1>5, <1>7, <2>1, <2>2, <2>3, <2>4 DEF Waiting, Gone
  <2>5. CASE At(h).rec \notin Delivered
    BY <1>5, <1>7, <2>1, <2>2, <2>3, <2>5 DEF Waiting, Gone
  <2> QED
    BY <2>4, <2>5
<1>8. CASE Restart
  <2> DEFINE S == Unsynced \ (Delivered \cup stale)
  <2>1. OnCard' = OnCard \ Unsynced /\ Unsynced \subseteq OnCard
    BY <1>8, RestartOnCard
  <2>2. lost' = lost \cup Unsynced /\ UNCHANGED <<confirmed, stale>>
    BY <1>8 DEF Restart
  <2>3. Delivered' = Delivered
    BY <2>2 DEF Delivered
  <2>4. Cardinality(S) < FlushEvery
    <3>1. IsFiniteSet(Unsynced) /\ Cardinality(Unsynced) < FlushEvery
      BY CutIsSmall
    <3>2. S \in SUBSET Unsynced
      OBVIOUS
    <3>3. IsFiniteSet(S) /\ Cardinality(S) <= Cardinality(Unsynced)
      BY <3>1, <3>2, FS_Subset
    <3>4. Cardinality(S) \in Nat /\ Cardinality(Unsynced) \in Nat
      BY <3>1, <3>3, FS_CardinalityType
    <3> QED
      BY <3>1, <3>3, <3>4, SpoolAssumption
  <2>5. /\ S \in SUBSET Waiting /\ Waiting' = Waiting \ S
        /\ Gone' = Gone \cup S
    BY <2>1, <2>2, <2>3 DEF Waiting, Gone
  <2> HIDE DEF S
  <2> QED
    BY <2>3, <2>4, <2>5
<1>9. ASSUME \/ \E h \in Heads : TransmitFails(h) \/ Unresolved(h)
             \/ EndOutage \/ CloseForStandby \/ SetAnchor \/ UNCHANGED vars
      PROVE  Stays
  <2>1. UNCHANGED <<files, confirmed, stale, lost>>
    BY <1>9 DEF TransmitFails, Unresolved, EndOutage, CloseForStandby, SetAnchor, vars, cardVars, fateVars
  <2> QED
    BY <2>1, <1>2
<1>10. ASSUME NEW stamped \in BOOLEAN PROVE ~AppendFails(stamped)
  BY DEF AppendFails
<1>11. CASE DrainOneRecord
  <2>1. PICK h \in Heads : \/ DrainEnd(h) \/ DropUnreadable(h)
                           \/ DropStale(h) \/ Unresolved(h)
                           \/ TransmitConfirmed(h) \/ TransmitFails(h)
    BY <1>11 DEF DrainOneRecord
  <2> HIDE DEF Gains, Delivers, GivesUp, Cuts, Stays
  <2> QED
    BY <2>1, <1>3, <1>4, <1>6, <1>7, <1>9
<1> HIDE DEF Gains, Delivers, GivesUp, Cuts, Stays
<1> QED
  BY <1>1, <1>8, <1>9, <1>10, <1>11 DEF Next

\* The spool of SD files is a correct implementation of the promise it makes telemetry(),
\* on a card that works.
THEOREM ImplementsPromise == Spec => KeepsPromise
<1>1. Init => Promise!Init
  BY DEF Init, Promise!Init, OnCard, Delivered, OnSoundCard
<1>2. ASSUME IInv, [Next]_vars PROVE [Promise!Next]_(Promise!vars)
  <2>1. fails' = fails
    BY <1>2, StepKeepsCard
  <2>2. CASE fails = {}
    <3>1. OInv
      BY <1>2, <2>2 DEF IInv
    <3> QED
      BY <1>2, <2>1, <2>2, <3>1, StepKeepsPromise
  <2>3. CASE fails # {}
    <3>1. UNCHANGED Promise!vars
      BY <2>1, <2>3 DEF Promise!vars, OnSoundCard
    <3> QED
      BY <3>1
  <2> QED
    BY <2>2, <2>3
<1> QED
  BY Inductive, <1>1, <1>2, PTL DEF Spec, KeepsPromise, Promise!Spec

=============================================================================
