------------------------------- MODULE Units -------------------------------
(***************************************************************************)
(* The conversions of unit.c between the bytes of the controller and the   *)
(* texts that a client sees and types, as a get command and a set command  *)
(* with the same unit and the same address use them: procGetUnit() and     *)
(* procSetUnit(), for any way of doing the calculations.                   *)
(*                                                                         *)
(* A text is a record of what it says: a number with six decimals, a hex   *)
(* number, a word, the points of a switching programme, as it is shown or  *)
(* as it is typed, a time, or a list of errors.  The name of the physical  *)
(* unit behind a number is left out.                                       *)
(* The host is a little endian machine with signed char.                   *)
(***************************************************************************)
EXTENDS Float32, SequencesExt

CONSTANTS
  Unit,        \* the units, each with the length of its commands
  Memory(_),   \* what the controller may hold for a unit, as bytes
  Typed(_),    \* texts that are typed for it
  Rubbish,     \* what setCycleTime() may find in min before anything is put there
  MaxSets,     \* bound: set commands that the controller takes
  Calculate(_, _, _),     \* execExpression() and execIExpression(): the value of a text
  CalculateInt(_, _, _)   \* from a position on, in a set that is empty for an error

\* gCalc .. sICalc: token sequences, <<>> for none; enums: bytes <<>> for a default;
\* len, bit: <len> and <bit> of the commands; pre: whether the set command reads the
\* old bytes by a pre command.
ASSUME UnitAssumption ==
  \A u \in Unit : /\ u.type \in {"char", "uchar", "short", "ushort", "int", "uint", "enum",
                                 "cycletime", "systime", "errstate"}
                  /\ u.len \in 1..16 /\ u.bit \in 0..7 /\ u.pre \in BOOLEAN
\* No unit of xml/ shows a hex number and reads it back by calc.
ASSUME HexAssumption == \A u \in Unit : u.gCalc = <<>> /\ u.gICalc # <<>> => u.sCalc = <<>>
ASSUME BoundAssumption == MaxSets \in Nat
ASSUME RubbishAssumption == Rubbish \subseteq Nat

\* A command reads as many bytes as it has.
ASSUME MemoryAssumption == \A u \in Unit : Memory(u) \subseteq [1..u.len -> 0..255]

\* Entries that are read for the same bytes have the same word, as in all of xml/.
ASSUME EnumAssumption ==
  \A u \in Unit :
    /\ u.enums \in Seq([bytes : Seq(0..255), word : STRING])
    /\ \A e, f \in Range(u.enums) :
         e.bytes # <<>> /\ IsPrefix(e.bytes, f.bytes) => e.word = f.word

\* A switching programme is typed as times of a day, and "--" for pairs, between blanks.
NoPoint == [h |-> -1, m |-> 0]
Paired(points) ==
  \A i \in DOMAIN points : i % 2 = 0 => (points[i] = NoPoint <=> points[i - 1] = NoPoint)

DateTime == [year : Int, month : Int, day : Int, hour : Int, min : Int, sec : Int]

ASSUME TextAssumption ==
  \A u \in Unit : \A text \in Typed(u) :
    /\ text.kind \in {"empty", "decimal", "word", "cycle", "time"}
    /\ text.kind = "word"  => text \in [kind : {"word"}, word : STRING]
    /\ text.kind = "cycle" =>
         /\ text \in [kind : {"cycle"}, points : Seq([h : 0..24, m : 0..59] \cup {NoPoint})]
         /\ Paired(text.points)
    /\ text.kind = "time"  => text \in [kind : {"time"}, at : DateTime, offset : -12..14]

VARIABLES
  unit,        \* the unit of the two commands
  memory,      \* the bytes the controller holds for their address
  season,      \* the host's present time: "winter" or "summer"
  shown,       \* the text of the last get command
  written,     \* the last set command that the controller has taken
  sets         \* how many it has taken

vars == <<unit, memory, season, shown, written, sets>>

-----------------------------------------------------------------------------
(***************************************************************************)
(* The texts.                                                              *)
(***************************************************************************)
None     == [kind |-> "none"]
Refused  == [kind |-> "refused"]
Empty    == [kind |-> "empty"]
Blank    == [kind |-> "blank"]   \* which is no word of an enumeration

\* A number and how many characters it has, which matters for uint; %f writes six decimals.
Characters(d) == (IF d.neg THEN 9 ELSE 8) + Cardinality({k \in 1..8 : d.int >= 10^k})
Decimal(d) == [kind |-> "decimal", neg |-> d.neg, int |-> d.int, micro |-> d.micro,
               chars |-> Characters(d)]
Hex(n)     == [kind |-> "hex", value |-> n]
Text(word) == [kind |-> "word", word |-> word]

Signed8(b) == IF b >= 128 THEN b - 256 ELSE b
Padded(bytes, n) == [i \in 1..n |-> IF i \in DOMAIN bytes THEN bytes[i] ELSE 0]

\* The value of the first n bytes; beyond 2^30 it is only right for the signed types.
LittleEndian(bytes, n) ==
  FoldRight(LAMBDA b, v : 256 * v + b, SubSeq(bytes, 1, n), 0)

ToBytes(v, n) == [i \in 1..n |-> (v \div 256^(i - 1)) % 256]

Width(type) == CASE type \in {"char", "uchar"}   -> 1
                 [] type \in {"short", "ushort"} -> 2
                 [] type \in {"int", "uint"}     -> 4

\* A two's complement number: all bytes but the last, and the signed last one.
Numeric(type, bytes) ==
  LET w == Width(type) IN
  IF type \in {"char", "short", "int"}
    THEN LittleEndian(bytes, w - 1) + Signed8(bytes[w]) * 256^(w - 1)
    ELSE LittleEndian(bytes, w)

-----------------------------------------------------------------------------
(***************************************************************************)
(* Enumerations.                                                           *)
(***************************************************************************)
\* getEnumNode() for bytes: the first entry that begins with them.
ByBytes(enums, bytes) ==
  SelectInSeq(enums, LAMBDA e : e.bytes # <<>> /\ IsPrefix(bytes, e.bytes))
ByDefault(enums) == SelectInSeq(enums, LAMBDA e : e.bytes = <<>>)
ByText(enums, word) == SelectInSeq(enums, LAMBDA e : e.word = word)

\* bytes2Enum(): the entry, or else the default entry, or else 0.
bytes2Enum(enums, bytes) ==
  IF ByBytes(enums, bytes) # 0 THEN ByBytes(enums, bytes) ELSE ByDefault(enums)

\* text2Enum(): the bytes; a default entry has none.
text2Enum(enums, text) ==
  IF text.kind # "word" \/ ByText(enums, text.word) = 0 THEN <<>>
  ELSE enums[ByText(enums, text.word)].bytes

-----------------------------------------------------------------------------
(***************************************************************************)
(* Switching programmes: up to four pairs of on and off, a byte each, as   *)
(* the hour and the tens of the minute.  0xff stands for none.             *)
(***************************************************************************)
Point(b) == [h |-> b \div 8, m |-> (b % 8) * 10]

getCycleTime(bytes) ==
  IF Len(bytes) % 2 # 0 THEN Refused
  ELSE [kind |-> "programme",
        points |-> [i \in DOMAIN bytes |->
                      IF bytes[IF i % 2 = 1 THEN i ELSE i - 1] = 255 THEN NoPoint
                      ELSE Point(bytes[i])]]

ByteOf(point) == (8 * point.h + point.m \div 10) % 256

\* Variant: only one point is left empty by a "--".
NextPoint_OneEach(st, point) ==
  IF point = NoPoint THEN [st EXCEPT !.count = @ + 2]
  ELSE [st EXCEPT !.buf[st.count + 1] = ByteOf(point), !.count = @ + 1]

\* A turn of the loop of setCycleTime(): a "--" stands for itself and the point that follows.
NextPoint(st, point) ==
  CASE st.skip -> [st EXCEPT !.skip = FALSE]
    [] ~st.skip /\ point = NoPoint -> [st EXCEPT !.count = @ + 2, !.skip = TRUE]
    [] OTHER -> [st EXCEPT !.buf[st.count + 1] = ByteOf(point), !.count = @ + 1]

NoPoints == [buf |-> [i \in 1..8 |-> 255], count |-> 0, skip |-> FALSE]

\* The last of an odd number of points is thrown away.
Filled(st) == IF st.count % 2 = 0 THEN st.buf ELSE [st.buf EXCEPT ![st.count] = 255]

\* What sscanf() makes of the words of a text.  A programme as it is shown is cut off at its
\* first line feed, and the two words of "1:An:06:00  Aus:22:00" have a colon both: of the
\* first one it reads the hour 1 and no minute, of the second one nothing.
Scanned(text, min) ==
  IF text.kind = "programme" THEN [i \in 1..2 |-> [h |-> 1, m |-> min]] ELSE text.points

\* A text without points is a word in which setCycleTime() misses the colon.
setCycleTime(text, min) ==
  IF text.kind \notin {"cycle", "programme"} \/ Scanned(text, min) = <<>> THEN <<>>
  ELSE Filled(FoldLeft(NextPoint, NoPoints, Scanned(text, min)))

-----------------------------------------------------------------------------
(***************************************************************************)
(* The system time: century, year, month, day, weekday, hour, minute and   *)
(* second in BCD.  The host is in a zone with an hour of summer time.      *)
(***************************************************************************)
Offset(s) == IF s = "summer" THEN 2 ELSE 1

\* Which time the host's zone has at a moment, which is given in the zone's winter time.
SeasonOf(moment) == IF moment.month \in 4..9 THEN "summer" ELSE "winter"

\* C's division; recv is signed, so that 0x80 and more are negative.
bcd2dec(b) == Signed8(b) - Quotient(Signed8(b), 16) * 6
dec2bcd(n) == (n \div 10) * 16 + (n % 10)

getSysTime(bytes) ==
  IF Len(bytes) # 8 THEN Refused
  ELSE [kind   |-> "time",
        at     |-> [year |-> bcd2dec(bytes[1]) * 100 + bcd2dec(bytes[2]),
                    month |-> bcd2dec(bytes[3]), day |-> bcd2dec(bytes[4]),
                    hour |-> bcd2dec(bytes[6]), min |-> bcd2dec(bytes[7]),
                    sec |-> bcd2dec(bytes[8])],
        offset |-> Offset(season)]

Leap(y) == (y % 4 = 0 /\ y % 100 # 0) \/ y % 400 = 0
Days(y, m) == CASE m = 2 -> IF Leap(y) THEN 29 ELSE 28
                [] m \in {4, 6, 9, 11} -> 30
                [] OTHER -> 31

\* The days before a day, from the year 1 on, which began on a Monday.
DayNumber(d) ==
  LET y == d.year - 1
  IN 365 * y + y \div 4 - y \div 100 + y \div 400
     + FoldLeft(LAMBDA n, m : n + Days(d.year, m), 0, [m \in 1..(d.month - 1) |-> m]) + d.day
Weekday(d) == DayNumber(d) % 7

\* The same time on another day.
OnDay(d, year, month, day) ==
  [year |-> year, month |-> month, day |-> day, hour |-> d.hour, min |-> d.min, sec |-> d.sec]

\* strptime() takes 30 February, which mktime() makes 1 or 2 March.
Parsed(d) == /\ d.month \in 1..12 /\ d.day \in 1..31
             /\ d.hour \in 0..23 /\ d.min \in 0..59 /\ d.sec \in 0..59

Normalized(d) ==
  LET days == Days(d.year, d.month)
  IN IF d.day > days THEN OnDay(d, d.year, d.month + 1, d.day - days) ELSE d

NextDay(d) ==
  IF d.day < Days(d.year, d.month) THEN OnDay(d, d.year, d.month, d.day + 1)
  ELSE IF d.month < 12 THEN OnDay(d, d.year, d.month + 1, 1)
  ELSE OnDay(d, d.year + 1, 1, 1)

DayBefore(d) ==
  IF d.day > 1 THEN OnDay(d, d.year, d.month, d.day - 1)
  ELSE IF d.month > 1 THEN OnDay(d, d.year, d.month - 1, Days(d.year, d.month - 1))
  ELSE OnDay(d, d.year - 1, 12, 31)

AtHour(d, hour) == [d EXCEPT !.hour = hour]

\* Hours added to a date, -23 to 23.
AddHours(d, n) ==
  LET day == CASE d.hour + n > 23 -> NextDay(d) [] d.hour + n < 0 -> DayBefore(d) [] OTHER -> d
  IN AtHour(day, (d.hour + n + 24) % 24)

TimeBytes(d) ==
  [i \in 1..8 |-> dec2bcd(<<d.year \div 100, d.year % 100, d.month, d.day, Weekday(d),
                            d.hour, d.min, d.sec>>[i])]

\* The host's present time, when no time is given.
HostTime == [year |-> 2024, month |-> IF season = "summer" THEN 7 ELSE 1, day |-> 14,
             hour |-> 12, min |-> 0, sec |-> 0]

\* Variant: mktime() is not told which of the two times tm_isdst stands for.
setSysTime_NoDst(text) ==
  CASE text.kind = "empty" -> TimeBytes(HostTime)
    [] text.kind = "time" /\ Parsed(text.at) ->
         TimeBytes(AddHours(Normalized(text.at), Offset(season) - text.offset))
    [] OTHER -> <<>>

\* The time given is moved by the host's present offset less the offset given; mktime(),
\* told that it is in the host's present season, moves it again to its own season.
setSysTime(text) ==
  CASE text.kind = "empty" -> TimeBytes(HostTime)
    [] text.kind = "time" /\ Parsed(text.at) ->
         LET moved  == AddHours(Normalized(text.at), Offset(season) - text.offset)
             moment == AddHours(moved, Offset("winter") - Offset(season))
         IN TimeBytes(AddHours(moved, Offset(SeasonOf(moment)) - Offset(season)))
    [] OTHER -> <<>>

-----------------------------------------------------------------------------
\* The error history: a code and a time for each nine bytes.
getErrState(enums, bytes) ==
  LET Entry(i) == [code |-> bytes[9 * i - 8],
                   word |-> enums[bytes2Enum(enums, <<bytes[9 * i - 8]>>)].word,
                   time |-> getSysTime(SubSeq(bytes, 9 * i - 7, 9 * i))]
  IN IF Len(bytes) % 9 # 0 THEN Refused
     ELSE [kind |-> "errors", entries |-> [i \in 1..(Len(bytes) \div 9) |-> Entry(i)]]

Env(u, bytes, value, pbytes) ==
  [bytes |-> Padded(bytes, 16), bitpos |-> u.bit, pbytes |-> Padded(pbytes, 16), value |-> value]

\* The text for the result of a calculation, which is {} for an error.
Shown(texts) == IF texts = {} THEN Refused ELSE CHOOSE text \in texts : TRUE

\* An int may stand for a word; one byte is compared, as for commands of length 1.
IntText(u, n) ==
  LET entry == bytes2Enum(u.enums, <<n % 256>>)
  IN IF u.enums # <<>> /\ entry # 0 THEN Text(u.enums[entry].word) ELSE Hex(n)

\* The numeric types: calc, or else icalc.
GetNumeric(u, bytes) ==
  LET env == Env(u, bytes, FromInt(Numeric(u.type, Padded(bytes, 16))), <<>>)
  IN CASE u.gCalc # <<>> ->
            Shown({Decimal(ToDecimal(erg.v)) : erg \in Calculate(u.gCalc, 1, env)})
       [] u.gCalc = <<>> /\ u.gICalc # <<>> ->
            Shown({IntText(u, ergI.v) : ergI \in CalculateInt(u.gICalc, 1, env)})
       [] OTHER -> Empty

procGetUnit(u, bytes) ==
  CASE u.type = "cycletime" -> getCycleTime(bytes)
    [] u.type = "systime"   -> getSysTime(bytes)
    [] u.type = "errstate"  -> getErrState(u.enums, bytes)
    [] u.type = "enum"      -> IF bytes2Enum(u.enums, bytes) = 0 THEN Refused
                               ELSE Text(u.enums[bytes2Enum(u.enums, bytes)].word)
    [] OTHER                -> GetNumeric(u, bytes)

\* Variant: the host's locale has a decimal comma.
atof_Comma(text) == IF text.kind = "decimal" THEN FromDecimal([text EXCEPT !.micro = 0]) ELSE Zero

\* atof(): what does not begin with a number is 0.  Hex numbers do not come here.
atof(text) == IF text.kind = "decimal" THEN FromDecimal(text) ELSE Zero

\* The value with the width of the type; int copies two bytes but sends four, and uint
\* leaves the length at that of the text.
Stored(u, v, text) ==
  CASE u.type = "int"  -> ToBytes(v, 2) \o <<0, 0>>
    [] u.type = "uint" -> SubSeq(ToBytes(v, 2) \o [i \in 1..14 |-> 0], 1, text.chars)
    [] OTHER           -> ToBytes(v, Width(u.type))

\* The bytes for the result of a calculation, which is {} for an error.
Sent(u, values, text) == IF values = {} THEN <<>> ELSE Stored(u, CHOOSE v \in values : TRUE, text)

\* Variant: the bytes of the pre command are not passed on.
SetNumeric_NoPre(u, text, pbytes) ==
  LET word == text2Enum(u.enums, text)
  IN IF text.kind = "empty" \/ word = <<>> THEN <<>>
     ELSE Sent(u, {ergI.v : ergI \in CalculateInt(u.sICalc, 1, Env(u, word, Zero, <<>>))}, text)

\* calc for set commands; without one, the result is taken for 0.
SetCalc(u, text) ==
  IF u.sCalc = <<>> THEN {0}
  ELSE {Trunc(erg.v) : erg \in Calculate(u.sCalc, 1, Env(u, <<>>, atof(text), <<>>))}

\* icalc, which is done after calc and takes its place.
SetICalc(u, word, pbytes) ==
  IF u.enums # <<>> /\ word = <<>> THEN {}
  ELSE {ergI.v : ergI \in CalculateInt(u.sICalc, 1, Env(u, word, Zero, pbytes))}

\* The numeric types; an error in either calculation is one.
SetNumeric(u, text, pbytes) ==
  LET calc == SetCalc(u, text)
  IN IF text.kind = "empty" THEN <<>>
     ELSE Sent(u, IF calc = {} \/ u.sICalc = <<>> THEN calc
                  ELSE SetICalc(u, text2Enum(u.enums, text), pbytes), text)

\* The bytes to send, or <<>> for an error.
procSetUnit(u, text, pbytes, min) ==
  CASE u.type = "cycletime" -> setCycleTime(text, min)
    [] u.type = "systime"   -> setSysTime(text)
    [] u.type = "enum"      -> text2Enum(u.enums, text)
    [] u.type = "errstate"  -> <<>>
    [] OTHER                -> SetNumeric(u, text, pbytes)

-----------------------------------------------------------------------------
Init ==
  /\ unit \in Unit
  /\ memory \in Memory(unit)
  /\ season \in {"winter", "summer"}
  /\ shown = None
  /\ written = None /\ sets = 0

\* A get command without an error.
Get ==
  /\ shown' = procGetUnit(unit, memory)
  /\ UNCHANGED <<unit, memory, season, written, sets>>

\* interactive(): with a pre command, a blank stands for a parameter that is not given.
Parameter(text) == IF unit.pre /\ text = Empty THEN Blank ELSE text

\* A set command: what was shown last, or what somebody types.  The controller takes as
\* many bytes as the command says it sends.
Set(text) ==
  /\ text.kind \notin {"none", "refused"}
  /\ sets < MaxSets /\ sets' = sets + 1
  /\ \E min \in Rubbish :
       memory' = procSetUnit(unit, Parameter(text), IF unit.pre THEN memory ELSE <<>>, min)
  /\ Len(memory') = unit.len
  /\ written' = [kind |-> "written", text |-> text, before |-> memory, season |-> season]
  /\ UNCHANGED <<unit, season, shown>>

\* The clocks of the host are changed.
SeasonChanges ==
  /\ season' = IF season = "winter" THEN "summer" ELSE "winter"
  /\ UNCHANGED <<unit, memory, shown, written, sets>>

Next == Get \/ SeasonChanges \/ \E text \in Typed(unit) \cup {shown} : Set(text)

Spec == Init /\ [][Next]_vars

-----------------------------------------------------------------------------
\* Whole numbers, halves and tenths are exact enough; hundredths are not.
Exact(u) == u.sCalc \in {<<"V">>, <<"V", "*", "2">>, <<"V", "*", "1", "0">>}

Near(a, b) == /\ a.neg = b.neg
              /\ a.int - b.int \in -1..1
              /\ Abs((a.int - b.int) * Million + a.micro - b.micro) < 10

\* The four pairs that a switching programme has, with what was typed of them, and the
\* minutes in tens.
Completed(points) ==
  LET pairs == 2 * (Len(points) \div 2)
  IN [i \in 1..8 |-> IF i > pairs \/ points[i] = NoPoint THEN NoPoint
                     ELSE [points[i] EXCEPT !.m = @ - (@ % 10)]]

\* A time that has the offset of its time of the year, and a year whose two bytes are
\* not negative as signed char.
OfItsSeason(text) ==
  text.offset = Offset(SeasonOf(AddHours(text.at, Offset("winter") - text.offset)))

Readable(year) == year \in 0..7999 /\ year % 100 < 80

\* A day of the calendar.
IsDate(d) == /\ d.month \in 1..12 /\ d.day \in 1..Days(d.year, d.month)
             /\ d.hour \in 0..23 /\ d.min \in 0..59 /\ d.sec \in 0..59

TimeIsOwed(text) == IsDate(text.at) /\ OfItsSeason(text) /\ Readable(text.at.year)

\* What the next get command shows, "now", is what a set command has set, "text".
ReadBack(text, now) ==
  CASE text.kind = "decimal" -> Exact(unit) => now.kind = "decimal" /\ Near(text, now)
    [] text.kind = "word"  -> unit.enums # <<>> => now = text
    [] text.kind = "cycle" -> now = [kind |-> "programme", points |-> Completed(text.points)]
    [] text.kind = "time"  -> TimeIsOwed(text) => now.at = text.at
    [] OTHER -> TRUE

\* A get command shows what a set command of the same unit has set: the number in the
\* unit's precision, the word, the points that were typed, and of a time what was given in
\* the time of the year that it belongs to - even when the host's clocks have been changed
\* between the text being shown and written back, or since.  This is "the command symmetry"
\* that getSysTime() is written for; a switching programme has none, and nothing is said of
\* one that is written back as it was shown.
SetIsReadBack == written # None => ReadBack(written.text, procGetUnit(unit, memory))

WroteBack == /\ written # None /\ unit.sCalc # <<>>
             /\ written.text.kind = "decimal"
             /\ written.text = procGetUnit(unit, written.before)

\* Where the float that a number becomes is not exact, as with hundredths, cutting it off
\* can lose one of the unit's last digit, though never more, and never away from zero:
\* writing back what was shown does not walk up.
WriteBackNearby ==
  WroteBack =>
    LET old == Numeric(unit.type, written.before)
        new == Numeric(unit.type, memory)
    IN new = old \/ (old > 0 /\ new = old - 1) \/ (old < 0 /\ new = old + 1)

\* A set command that changes one bit of what its pre command has read leaves the other
\* bits as they were.
OneBitSet ==
  written # None /\ unit.pre =>
    \A i \in DOMAIN memory : \A b \in 0..7 :
      (i = 1 /\ b = unit.bit)
      \/ (memory[i] \div 2^b) % 2 = (written.before[i] \div 2^b) % 2
=============================================================================
