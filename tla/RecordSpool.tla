----------------------------- MODULE RecordSpool -----------------------------
(***************************************************************************)
(* The outage spool on the SD card: one file of length-prefixed packets    *)
(* per outage, named by a sequence number. telemetry() is its only caller: *)
(* it appends what it could not send, ends the outage after a live success *)
(* and drains the oldest file a record at a time. A power cut or           *)
(* ESP.restart() may come between any two calls, several boots are         *)
(* followed.                                                               *)
(*                                                                         *)
(* A packet is its number, in the order of the appends, and the mark of    *)
(* appendUnstamped(): the boot ID, or Stamped. Positions count packets. A  *)
(* boot ID is 32 random bits; that two boots draw the same is left out.    *)
(***************************************************************************)
EXTENDS Integers, Sequences, FiniteSets

CONSTANTS
  MaxRecords,   \* bound: packets appended
  MaxBoots,     \* bound: boots followed
  FlushEvery,   \* 30: m_outage.flush() every so many records
  Cards         \* the cards followed: what may fail on each, at any time

\* "write": opening a file to write it, each write, and unlinking; "read": reading what is
\* there; "scan": going through the directory, which may not open or may end early.
Failure == {"write", "read", "scan"}

ASSUME SpoolAssumption ==
  /\ MaxRecords \in Nat /\ MaxBoots \in Nat \ {0}
  /\ FlushEvery \in Nat \ {0}
  /\ Cards \subseteq SUBSET Failure

Record == 1 .. MaxRecords
Boot == 1 .. MaxBoots
Stamped == 0                       \* the mark of a packet that bears its time
Entry == [rec : Record, mark : Boot \cup {Stamped}, whole : BOOLEAN]
NoFile == 0

VARIABLES
  files,       \* /SPOOL: file number -> the packets written to it
  synced,      \* packets of the outage file that a flush has committed
  nextSeq,     \* m_nextSeq
  outage,      \* m_outage, m_outageSeq
  count,       \* m_appendCount
  drain, pos,  \* m_drain, m_drainSeq, m_drain.position()
  fails,       \* what may fail on this card; none of it must
  anchor,      \* "none" until timeAnchorIsSet(); "early" is so early that ticks from
               \* before it resolve to a time below ANCHOR_MIN_EPOCH
  boot,        \* timeBootId(): a new one at each boot
  blind,       \* history: init() of this boot missed the newest file
  parked,      \* the stand-by branch has closed the spool; only a restart follows
  accepted,    \* history: packets appended
  origin,      \* history: the boot each of them was captured in
  confirmed,   \* history: <<packet, boot>>, the modem confirmed it
  stale,       \* history: dropped as of an earlier boot
  lost         \* history: cut off with the power, or never written

cardVars == <<files, synced, nextSeq, outage, count>>
drainVars == <<drain, pos>>
bootVars == <<fails, anchor, boot, blind, parked>>
appendVars == <<accepted, origin>>
fateVars == <<confirmed, stale, lost>>
vars == <<cardVars, drainVars, bootVars, appendVars, fateVars>>

Init ==
  /\ files = << >> /\ synced = 0 /\ nextSeq = 1
  /\ outage = NoFile /\ count = 0
  /\ drain = NoFile /\ pos = 0
  /\ fails \in Cards
  /\ anchor = "none" /\ boot = 1 /\ blind = FALSE /\ parked = FALSE
  /\ accepted = 0 /\ origin = [r \in Record |-> 0]
  /\ confirmed = {} /\ stale = {} /\ lost = {}

-----------------------------------------------------------------------------
(* Appending: openOutageFile() and writeRecord().                          *)

\* The outage file an append writes to, opened now if none is open.
Target == IF outage = NoFile THEN nextSeq ELSE outage
Written == IF outage = NoFile THEN << >> ELSE files[outage]

\* FILE_WRITE creates the file, or truncates the one of that number.
Write(n, packets) ==
  files' = [m \in DOMAIN files \cup {n} |-> IF m = n THEN packets ELSE files[m]]

\* Slip: every FlushEvery records after the first too many.
FlushDueLate(n) == n % (FlushEvery + 1) = 0
FlushDue(n) == n % FlushEvery = 0

Mark(stamped) == IF stamped THEN Stamped ELSE boot

AcceptNext ==
  /\ ~parked
  /\ accepted < MaxRecords
  /\ accepted' = accepted + 1
  /\ origin' = [origin EXCEPT ![accepted + 1] = boot]

\* Bound: what a read handle returns once its file is truncated is up to the driver of the
\* card; a boot that truncates the file under the read head is followed no further.
NotUnderHead == outage = NoFile => nextSeq # drain

OpenForAppend ==
  /\ NotUnderHead
  /\ outage' = Target
  /\ nextSeq' = IF outage = NoFile THEN nextSeq + 1 ELSE nextSeq

AppendRecord(stamped) ==
  LET packets == Append(Written, [rec |-> accepted + 1, mark |-> Mark(stamped), whole |-> TRUE])
      n == (IF outage = NoFile THEN 0 ELSE count) + 1
  IN
  /\ AcceptNext
  /\ OpenForAppend
  /\ Write(Target, packets)
  /\ count' = n
  /\ synced' = IF FlushDue(n) THEN Len(packets) ELSE IF outage = NoFile THEN 0 ELSE synced
  /\ UNCHANGED <<drainVars, bootVars, fateVars>>

\* writeRecord() returns false, and no caller looks: the file does not open, or the
\* write stops before, or inside, the packet.
AppendFails(stamped) ==
  /\ "write" \in fails
  /\ AcceptNext
  /\ lost' = lost \cup {accepted + 1}
  /\ \/ outage = NoFile /\ UNCHANGED cardVars
     \/ /\ OpenForAppend
        /\ count' = IF outage = NoFile THEN 0 ELSE count
        /\ synced' = IF outage = NoFile THEN 0 ELSE synced
        /\ \/ Write(Target, Written)
           \/ Write(Target, Append(Written,
                [rec |-> accepted + 1, mark |-> Mark(stamped), whole |-> FALSE]))
  /\ UNCHANGED <<drainVars, bootVars, confirmed, stale>>

\* endOutage(), after a live packet got through.
EndOutage ==
  /\ ~parked /\ outage # NoFile
  /\ outage' = NoFile /\ count' = 0 /\ synced' = 0
  /\ UNCHANGED <<files, nextSeq, drainVars, bootVars, appendVars, fateVars>>

\* closeForStandby(): both handles. The count stays, until the next file is opened.
CloseForStandby ==
  /\ ~parked /\ parked' = TRUE
  /\ outage' = NoFile /\ synced' = 0
  /\ drain' = NoFile /\ pos' = 0
  /\ UNCHANGED <<files, nextSeq, count, fails, anchor, boot, blind, appendVars, fateVars>>

-----------------------------------------------------------------------------
(* drainOneRecord(): one of the following per call.                        *)

\* Slip: findOldestSeq() without its exclusion.
DrainableAll == DOMAIN files
Drainable == DOMAIN files \ {outage}

\* The file under the read head, opened now if none is open: the oldest of those that
\* findOldestSeq() sees, which is none or any when the scan ends early.
\* Slip: the newest file first.
HeadsNewest ==
  IF drain # NoFile THEN {drain}
  ELSE {n \in Drainable : "scan" \in fails \/ \A m \in Drainable : m <= n}
Heads ==
  IF drain # NoFile THEN {drain}
  ELSE {n \in Drainable : "scan" \in fails \/ \A m \in Drainable : n <= m}
HeadPos == IF drain # NoFile THEN pos ELSE 0

MayDrain == ~parked /\ anchor # "none"
AtEnd(h) == HeadPos = Len(files[h])
At(h) == files[h][HeadPos + 1]

\* The packet before the head was cut short: its length took in bytes of the next one,
\* and what stands at the head is text, no length.
OutOfFrame(h) == HeadPos > 0 /\ ~files[h][HeadPos].whole
\* A packet cut short is read at full length if anything follows it.
Framed(h) ==
  /\ ~AtEnd(h) /\ ~OutOfFrame(h)
  /\ At(h).whole \/ HeadPos + 1 < Len(files[h])

\* Slip: closed, but not unlinked.
RemoveHeadKept(h) == drain' = NoFile /\ pos' = 0 /\ UNCHANGED files
RemoveHead(h) ==
  /\ \/ files' = [m \in DOMAIN files \ {h} |-> files[m]]
     \/ "write" \in fails /\ UNCHANGED files
  /\ drain' = NoFile /\ pos' = 0

Advance(h) == drain' = h /\ pos' = HeadPos + 1 /\ UNCHANGED files

DrainEnd(h) ==
  /\ MayDrain /\ AtEnd(h)
  /\ RemoveHead(h)
  /\ UNCHANGED <<synced, nextSeq, outage, count, bootVars, appendVars, fateVars>>

\* "short header", "bad length", "short payload": the file goes with all still in it.
DropUnreadable(h) ==
  /\ MayDrain /\ ~AtEnd(h)
  /\ ~Framed(h) \/ "read" \in fails
  /\ RemoveHead(h)
  /\ UNCHANGED <<synced, nextSeq, outage, count, bootVars, appendVars, fateVars>>

\* Slip: a tick of another boot is resolved against this boot's anchor.
OfEarlierBootNever(e) == FALSE
OfEarlierBoot(e) == e.mark # Stamped /\ e.mark # boot

DropStale(h) ==
  /\ MayDrain /\ Framed(h) /\ OfEarlierBoot(At(h))
  /\ Advance(h)
  /\ stale' = IF At(h).whole THEN stale \cup {At(h).rec} ELSE stale
  /\ UNCHANGED <<synced, nextSeq, outage, count, bootVars, appendVars, confirmed, lost>>

\* timeAnchorResolve() refuses the tick: seek() back, and wait with the file open. Whether
\* a tick lies before an early anchor is left open.
Unresolved(h) ==
  /\ MayDrain /\ Framed(h) /\ At(h).mark = boot
  /\ anchor = "early"
  /\ drain' = h /\ pos' = HeadPos
  /\ UNCHANGED <<cardVars, bootVars, appendVars, fateVars>>

TransmitConfirmed(h) ==
  /\ MayDrain /\ Framed(h) /\ ~OfEarlierBoot(At(h))
  /\ Advance(h)
  /\ confirmed' = IF At(h).whole THEN confirmed \cup {<<At(h).rec, boot>>} ELSE confirmed
  /\ UNCHANGED <<synced, nextSeq, outage, count, bootVars, appendVars, stale, lost>>

\* Slip: the handle is kept, past the packet that failed.
TransmitFailsKept(h) ==
  /\ MayDrain /\ Framed(h) /\ ~OfEarlierBoot(At(h))
  /\ Advance(h)
  /\ UNCHANGED <<synced, nextSeq, outage, count, bootVars, appendVars, fateVars>>

\* seek() back, then close(): the next call opens the file anew, at its first byte.
TransmitFails(h) ==
  /\ MayDrain /\ Framed(h) /\ ~OfEarlierBoot(At(h))
  /\ drain' = NoFile /\ pos' = 0
  /\ UNCHANGED <<cardVars, bootVars, appendVars, fateVars>>

DrainOneRecord ==
  \E h \in Heads :
    \/ DrainEnd(h) \/ DropUnreadable(h)
    \/ DropStale(h) \/ Unresolved(h)
    \/ TransmitConfirmed(h) \/ TransmitFails(h)

-----------------------------------------------------------------------------
\* A source tells the time: the first one, or one that replaces it.
SetAnchor ==
  /\ anchor' \in {"early", "right"} \ {anchor}
  /\ UNCHANGED <<fails, boot, blind, parked, cardVars, drainVars, appendVars, fateVars>>

RecordsOf(packets) == {packets[i].rec : i \in {j \in DOMAIN packets : packets[j].whole}}

\* The directory entry of the outage file still says what the last flush wrote: the rest
\* is gone, and a file never flushed may be gone with its entry.
CutFiles ==
  LET kept == [n \in DOMAIN files |->
                 IF n = outage THEN SubSeq(files[n], 1, synced) ELSE files[n]]
  IN {kept} \cup IF outage # NoFile /\ synced = 0
                 THEN {[n \in DOMAIN files \ {outage} |-> files[n]]} ELSE {}

Unsynced ==
  IF outage = NoFile THEN {}
  ELSE RecordsOf(files[outage]) \ RecordsOf(SubSeq(files[outage], 1, synced))

\* init(): one beyond the highest number in the directory.
\* Slip: the highest itself.
FirstFreeTaken(nums) ==
  IF nums = {} THEN 1 ELSE CHOOSE n \in nums : \A m \in nums : m <= n
FirstFree(nums) ==
  IF nums = {} THEN 1 ELSE 1 + CHOOSE n \in nums : \A m \in nums : m <= n

\* Power cut or ESP.restart(), then timeAnchorInit() and RecordSpool::init(), which takes
\* what it sees of the directory for all of it.
Restart ==
  /\ boot < MaxBoots
  /\ boot' = boot + 1
  /\ files' \in CutFiles
  /\ lost' = lost \cup Unsynced
  /\ \E seen \in SUBSET DOMAIN files' :
       /\ seen = DOMAIN files' \/ "scan" \in fails
       /\ nextSeq' = FirstFree(seen)
       /\ blind' = (FirstFree(seen) # FirstFree(DOMAIN files'))
  /\ outage' = NoFile /\ count' = 0 /\ synced' = 0
  /\ drain' = NoFile /\ pos' = 0
  /\ anchor' = "none" /\ parked' = FALSE
  /\ UNCHANGED <<fails, appendVars, confirmed, stale>>

Next ==
  \/ \E stamped \in BOOLEAN :
       \* an unstamped packet may be one whose tick the anchor did not resolve
       /\ stamped => anchor # "none"
       /\ AppendRecord(stamped) \/ AppendFails(stamped)
  \/ EndOutage \/ CloseForStandby
  \/ DrainOneRecord
  \/ SetAnchor \/ Restart

Spec == Init /\ [][Next]_vars

\* telemetry() polls the drain whenever it has no live packet, and lives on. Restarts,
\* outages and the time are nobody's duty.
DrainSpec == Spec /\ WF_vars(DrainOneRecord)

-----------------------------------------------------------------------------
OnCard == UNION {RecordsOf(files[n]) : n \in DOMAIN files}
Delivered == {c[1] : c \in confirmed}

\* Every variable holds a value of its kind; no position lies beyond its file's end, and
\* no flush has committed more than was written.
TypeOK ==
  /\ DOMAIN files \subseteq Nat \ {NoFile} /\ \A n \in DOMAIN files : files[n] \in Seq(Entry)
  /\ nextSeq \in Nat \ {NoFile} /\ count \in Nat
  /\ outage \in DOMAIN files \cup {NoFile}
  /\ drain \in DOMAIN files \cup {NoFile}
  /\ synced \in 0 .. IF outage = NoFile THEN 0 ELSE Len(files[outage])
  /\ pos \in 0 .. IF drain = NoFile THEN 0 ELSE Len(files[drain])
  /\ fails \in Cards /\ anchor \in {"none", "early", "right"}
  /\ boot \in Boot /\ blind \in BOOLEAN /\ parked \in BOOLEAN
  /\ accepted \in 0 .. MaxRecords /\ origin \in [Record -> Boot \cup {0}]
  /\ confirmed \subseteq Record \X Boot
  /\ stale \subseteq Record /\ lost \subseteq Record

\* On any card, in every boot whose init() saw the newest file: the file being written is
\* never the one being drained, and the next outage opens a number that no file has,
\* orphans and files truncated in earlier boots included, so that FILE_WRITE truncates
\* nothing.
FilesApart ==
  ~blind => /\ outage # NoFile => outage # drain
            /\ \A n \in DOMAIN files : n < nextSeq

\* On a card that works no packet is forgotten: each one appended is on the card, was
\* confirmed, was dropped as of an earlier boot, or went with the power. A file is unlinked
\* only when all of its packets are accounted for.
NoneForgotten ==
  fails = {} => \A r \in 1 .. accepted : r \in OnCard \cup Delivered \cup stale \cup lost

Transmits(h, r) ==
  /\ TransmitConfirmed(h) \/ TransmitFails(h)
  /\ At(h).rec = r

\* Oldest first, on every card whose directory can be read: no packet goes out while an
\* older one waits in a closed file. (The older ones at the front of the same file have
\* gone out before, perhaps twice.)
OldestFirst ==
  [][\A h \in Heads : \A r \in Record : "scan" \notin fails /\ Transmits(h, r) =>
       \A n \in DOMAIN files \ {outage} : \A i \in DOMAIN files[n] :
         files[n][i].rec < r => files[n][i].rec \in Delivered \cup stale]_vars

\* A packet back-stamped from its tick was captured in this very boot; no tick is ever
\* resolved against the clock of another one, whatever the card does.
TicksOfThisBoot ==
  [][\A h \in Heads : \A r \in Record :
       Transmits(h, r) /\ At(h).mark # Stamped => origin[r] = boot]_vars

\* On a card that works, once the modem stops failing and the anchor resolves every tick of
\* this boot, all that waits in closed files leaves the card, however often the drain had
\* to start over or to wait at a tick it could not resolve.
DrainsOnceLinkHolds ==
  (/\ fails = {}
   /\ <>[](anchor = "right" /\ ~parked)
   /\ <>[][~ \E h \in Heads : TransmitFails(h)]_vars)
    => \A n \in 1 .. MaxRecords : []<>(n \notin DOMAIN files \ {outage})

\* On a card that works the spool keeps the promise of SpoolPromise.
OnSoundCard(S) == IF fails = {} THEN S ELSE {}
Promise == INSTANCE SpoolPromise WITH
  MaxLoss <- FlushEvery,
  waiting <- OnSoundCard(OnCard \ (Delivered \cup stale)),
  delivered <- OnSoundCard(Delivered),
  lost <- OnSoundCard((lost \cup stale) \ Delivered)
KeepsPromise == Promise!Spec

-----------------------------------------------------------------------------
(***************************************************************************)
(* What telestore.cpp says of itself and the code does not keep. TLC       *)
(* refutes either formula when a configuration lists it.                   *)
(***************************************************************************)

\* drainOneRecord(): after a failed transmit "the next drain pass replays from here",
\* so that within one boot no packet is confirmed twice.
ReplaysFromHere ==
  [][\A h \in Heads : \A r \in Record :
       TransmitConfirmed(h) /\ At(h).rec = r => <<r, boot>> \notin confirmed]_vars

\* init(): orphans of an earlier outage stay "in place", so that no outage opens a file
\* that exists. A directory scan that ends early lets one.
OrphansStay ==
  [][outage = NoFile /\ outage' # NoFile => outage' \notin DOMAIN files]_vars

=============================================================================
