------------------------------- MODULE Packet -------------------------------
(***************************************************************************)
(* The way of a record into text: CBuffer::add() fills a fixed block,      *)
(* buildPacket() writes it as text between a header and a checksum, with   *)
(* the time if there is an anchor; a packet without the time is spooled,   *)
(* and drainOneRecord() opens it again, adds the time and seals it anew.   *)
(* What does not fit is dropped without a word.                            *)
(*                                                                         *)
(* The text is the sequence of its parts and a number of bytes; an element *)
(* takes the most text its type can. Days pass one by one, as a calendar   *)
(* on the wall has them; a time is a day and a second of that day, which   *)
(* the code keeps as one 32-bit number.                                    *)
(***************************************************************************)
EXTENDS Integers, Sequences, SequencesExt

CONSTANTS
  BUFFER_LENGTH,         \* 256
  SERIALIZE_BUFFER_SIZE, \* 1024
  Elements,  \* kinds of elements: bytes of data, bytes of text with the comma
  FirstDay, LastDay, \* bound: days since 1970 that are looked at, from January 1st, 2025
  BusyDays,  \* bound: on other days records stay empty
  Seconds    \* bound: seconds of a day at which records are captured

HEAD_BYTES == 4  \* sizeof(ELEMENT_HEAD)
HEADER_TEXT == 9 \* "ABCD1234#"
TS_TEXT == 13    \* "0:4294967295,"
STAMP_TEXT == 37 \* "10:23595900,11:311249,300:2524607999,"
SUM_TEXT == 3    \* "*FF"

ASSUME PacketAssumption ==
  /\ {BUFFER_LENGTH, SERIALIZE_BUFFER_SIZE} \subseteq Nat
  /\ 3 * BUFFER_LENGTH + HEADER_TEXT + TS_TEXT + STAMP_TEXT + SUM_TEXT <= SERIALIZE_BUFFER_SIZE
  /\ Elements \subseteq [bytes : Nat \ {0}, text : Nat \ {0}]
  /\ \A e \in Elements : e.text <= 3 * (HEAD_BYTES + e.bytes)
  /\ FirstDay = 20089 /\ BusyDays \subseteq Nat
  /\ LastDay \in Nat /\ LastDay < 49710  \* 2^32 seconds
  /\ \A s \in Seconds : s \in Nat /\ s < 86400

VARIABLES
  day, date,       \* the day, and the date the wall calendar shows
  second,          \* of the day, when the record was captured
  phase,
  offset, total, chars,  \* CBuffer::offset, total; bytes of text its elements need
  text, bytes,     \* m_cache as parts, m_cacheBytes
  logged,          \* elements in the text
  sum,             \* the parts the checksum was taken of
  stamped          \* the time in the text

recordVars == <<offset, total, chars>>
textVars == <<text, bytes, logged, sum, stamped>>
packetVars == <<day, date, second, phase, recordVars, textVars>>

Unstamped == << >>

Empty ==
  /\ phase = "fill" /\ offset = 0 /\ total = 0 /\ chars = 0
  /\ text = << >> /\ bytes = 0 /\ logged = 0 /\ sum = << >> /\ stamped = Unstamped

PacketInit == day = FirstDay /\ date = <<2025, 1, 1>> /\ second \in Seconds /\ Empty

-----------------------------------------------------------------------------
(* The calendar of timeanchor.cpp, for dates after 0 AD.                   *)

\* Slip: January and February belong to the year of the March before.
CivilYear(yoe, m, era) == yoe + era * 400
YearOf(yoe, m, era) == yoe + era * 400 + (IF m <= 2 THEN 1 ELSE 0)

\* timeCivilToEpoch(): days_from_civil.
timeCivilToEpoch(year, m, d) ==
  LET y == IF m <= 2 THEN year - 1 ELSE year
      era == y \div 400
      yoe == y - era * 400
      doy == (153 * (IF m > 2 THEN m - 3 ELSE m + 9) + 2) \div 5 + d - 1
      doe == yoe * 365 + yoe \div 4 - yoe \div 100 + doy
  IN era * 146097 + doe - 719468

\* civil_from_days: an era has 400 years, which begin in March.
Era(z) == z \div 146097
DayOfEra(z) == z - Era(z) * 146097
YearOfEra(doe) == (doe - doe \div 1460 + doe \div 36524 - doe \div 146096) \div 365
DayOfYear(doe) == LET yoe == YearOfEra(doe) IN doe - (365 * yoe + yoe \div 4 - yoe \div 100)
MonthIndex(doy) == (5 * doy + 2) \div 153
MonthOf(mp) == IF mp < 10 THEN mp + 3 ELSE mp - 9

\* timeEpochToGps(): the numbers ddmmyy and hhmmss00.
GpsDate(n) ==
  LET z == n + 719468
      doe == DayOfEra(z)
      doy == DayOfYear(doe)
      mp == MonthIndex(doy)
      d == doy - (153 * mp + 2) \div 5 + 1
      m == MonthOf(mp)
  IN d * 10000 + m * 100 + (YearOf(YearOfEra(doe), m, Era(z)) % 100)
GpsTime(sod) == (sod \div 3600) * 1000000 + ((sod % 3600) \div 60) * 10000 + (sod % 60) * 100
timeEpochToGps(n, sod) == [date |-> GpsDate(n), time |-> GpsTime(sod), abs |-> <<n, sod>>]

\* The wall calendar.
Leap(y) == y % 4 = 0 /\ (y % 100 # 0 \/ y % 400 = 0)
DaysIn(y, m) ==
  IF m = 2 THEN IF Leap(y) THEN 29 ELSE 28 ELSE IF m \in {4, 6, 9, 11} THEN 30 ELSE 31

DayPasses ==
  /\ Empty /\ day < LastDay
  /\ day' = day + 1
  /\ date' = LET y == date[1] m == date[2] d == date[3]
             IN IF d < DaysIn(y, m) THEN <<y, m, d + 1>>
                ELSE IF m < 12 THEN <<y, m + 1, 1>> ELSE <<y + 1, 1, 1>>
  /\ UNCHANGED <<second, phase, recordVars, textVars>>

-----------------------------------------------------------------------------
(* CBuffer.                                                                *)

Room(b) == offset < BUFFER_LENGTH - HEAD_BYTES - b

Add ==
  /\ phase = "fill" /\ day \in BusyDays
  /\ \E e \in Elements :
       /\ Room(e.bytes)
       /\ offset' = offset + HEAD_BYTES + e.bytes
       /\ total' = total + 1
       /\ chars' = chars + e.text
  /\ UNCHANGED <<day, date, second, phase, textVars>>

-----------------------------------------------------------------------------
(* CStorageRAM, on a packet [text, bytes].                                 *)

\* dispatch() keeps room for the checksum, and drops what does not fit.
Fits(p, n) == p.bytes + (n - 1) + 3 <= SERIALIZE_BUFFER_SIZE
Dispatch(p, part, n) ==
  IF Fits(p, n) THEN [text |-> Append(p.text, part), bytes |-> p.bytes + n] ELSE p

Header == [text |-> <<"HEADER">>, bytes |-> HEADER_TEXT]

\* Slip: the comma before the checksum stays.
TailerComma(p) == [text |-> Append(p.text, "SUM"), bytes |-> p.bytes + SUM_TEXT]
Tailer(p) == [text |-> Append(p.text, "SUM"), bytes |-> p.bytes - 1 + SUM_TEXT]

\* Slip: the checksum stays where it is.
UntailerNot(p) == p
\* untailer(): the last checksum becomes a comma, and the text ends there.
Untailer(p) ==
  LET sums == {n \in DOMAIN p.text : p.text[n] = "SUM"}
  IN IF sums = {} THEN p
     ELSE [text |-> SubSeq(p.text, 1, (CHOOSE n \in sums : \A k \in sums : k <= n) - 1),
           bytes |-> p.bytes - SUM_TEXT + 1]

\* timeWriteStamp().
timeWriteStamp(p) == Dispatch(p, "TIME", STAMP_TEXT)

Hold(p) == text' = p.text /\ bytes' = p.bytes /\ sum' = Front(p.text)

\* Slip: serialize() stops one short.
SerializedShort == IF total > 1 THEN total - 1 ELSE total
Serialized == total

\* CBuffer::serialize() writes element by element: the text is whole if all of it fits, and
\* lacks at least one element otherwise.
Body(p) == IF chars = 0 THEN p ELSE Dispatch(p, "BODY", chars)
LoggedOf(p) == IF Fits(p, chars) THEN Serialized ELSE total - 1

-----------------------------------------------------------------------------
\* buildPacket() with an anchor; without one the packet has no time.
Build(anchored) ==
  LET head == Dispatch(Header, "TS", TS_TEXT)
      body == Body(head)
  IN
  /\ phase = "fill"
  /\ phase' = IF anchored THEN "sent" ELSE "untimed"
  /\ logged' = LoggedOf(head)
  /\ Hold(Tailer(IF anchored THEN timeWriteStamp(body) ELSE body))
  /\ stamped' = IF anchored THEN timeEpochToGps(day, second) ELSE Unstamped
  /\ UNCHANGED <<day, date, second, recordVars>>

BuildTimed == Build(TRUE)
BuildUntimed == Build(FALSE)

\* drainOneRecord() with an anchor: load(), untailer(), the time, tailer().
Restamp ==
  /\ phase = "untimed"
  /\ phase' = "sent"
  /\ Hold(Tailer(timeWriteStamp(Untailer([text |-> text, bytes |-> bytes]))))
  /\ stamped' = timeEpochToGps(day, second)
  /\ UNCHANGED <<day, date, second, recordVars, logged>>

\* The packet is away, CBuffer::purge() has emptied the record.
Purge ==
  /\ phase = "sent"
  /\ phase' = "fill" /\ offset' = 0 /\ total' = 0 /\ chars' = 0
  /\ text' = << >> /\ bytes' = 0 /\ logged' = 0 /\ sum' = << >> /\ stamped' = Unstamped
  /\ second' \in Seconds
  /\ UNCHANGED <<day, date>>

PacketNext == DayPasses \/ Add \/ BuildTimed \/ BuildUntimed \/ Restamp \/ Purge
PacketSpec == PacketInit /\ [][PacketNext]_packetVars

-----------------------------------------------------------------------------
\* Whatever a record holds, all of it reaches the packet, with room for the time that is
\* added later: what fits the block, without writing past it, always fits the text.
PacketsWhole ==
  /\ offset <= BUFFER_LENGTH
  /\ phase # "fill" => /\ logged = total
                       /\ (total > 0) = (3 \in DOMAIN text /\ text[3] = "BODY")
                       /\ bytes < SERIALIZE_BUFFER_SIZE

\* A packet that is sent with the time has it once, at the end, under one checksum of all
\* that comes before, whether it was written at once or when the spool was drained.
SealedOnce ==
  phase = "sent" =>
    /\ Len(text) >= 2
    /\ \A n \in DOMAIN text : /\ text[n] = "TIME" <=> n = Len(text) - 1
                              /\ text[n] = "SUM" <=> n = Len(text)
    /\ sum = Front(text)
    /\ bytes = HEADER_TEXT + TS_TEXT + chars + STAMP_TEXT - 1 + SUM_TEXT

\* The dates the device reads and writes are those of the wall calendar, at every end of a
\* month and of a year.
CalendarExact ==
  /\ timeCivilToEpoch(date[1], date[2], date[3]) = day
  /\ stamped # Unstamped =>
       /\ stamped.date = date[3] * 10000 + date[2] * 100 + (date[1] % 100)
       /\ stamped.time \div 100 = (second \div 3600) * 10000
            + ((second % 3600) \div 60) * 100 + (second % 60)

=============================================================================
