------------------------------- MODULE Framer -------------------------------
(***************************************************************************)
(* The P300 protocol of framer.c, spoken by one session that has the link  *)
(* (Sessions) with a Vitotronic controller: switching the controller into  *)
(* P300 mode and back, sending one telegram, reading one answer.           *)
(*                                                                         *)
(* The controller and the cable are the environment.  The controller acts  *)
(* on a message at once; its bytes travel in "transit", may arrive after   *)
(* the program has given up waiting, and then lie on the "wire".  An item  *)
(* of either is a single byte, a whole answer frame, or "junk": some bytes *)
(* whose frame boundaries the reader has lost.                             *)
(***************************************************************************)
EXTENDS Integers, Sequences

CONSTANTS
  Addr,         \* the addresses that commands ask for, as framer.c loads them:
                \* a 16 bit number in the byte order of the host
  DataLens,     \* the numbers of bytes that commands read or write
  AnswerType,   \* type bytes the controller puts into its answers
  MaxTelegrams, \* bound: telegrams sent
  MaxItems      \* bound: items under way

LEADIN       == 65     \* 0x41
RESPONSE     == 1
ERROR_REPORT == 3
READ_DATA    == 1
WRITE_DATA   == 2
ERROR        == 21     \* 0x15
NOT_INIT     == 5
INIT_OK      == 6
ATTEMPTS     == 3
NO_ADDR      == 65535
TimerAddr    == 4129   \* 0x21 0x10, the address of getTimerWWMi

LINK_STATUS(st) == 65024 + st     \* 0xFE00 + st

ASSUME AddrAssumption == Addr \subseteq 0..65535
ASSUME LenAssumption == DataLens \subseteq 1..255
ASSUME BoundAssumption == MaxTelegrams \in Nat /\ MaxItems \in Nat
ASSUME TypeByteAssumption == AnswerType \subseteq 0..127

VARIABLES
  tty,          \* the device is a tty, and no host and port
  pc,           \* where the session is in framer.c
  goal,         \* what framer_close_p300() is called for: "open" or "close"
  openTry,      \* loop counter of framer_open_p300()
  closeTry,     \* loop counter of framer_close_p300()
  pid,          \* framer_pid
  addr,         \* framer_current_addr
  request,      \* the telegram sent last
  result,       \* what came of it
  mode,         \* the controller's mode: "KW" or "P300"
  transit,      \* bytes the controller has sent that have not arrived
  wire,         \* bytes that have arrived and are not read
  late          \* history: something was sent while bytes were still under way

program == <<pc, goal, openTry, closeTry, pid, addr, request, result>>
vars == <<tty, program, mode, transit, wire, late>>

-----------------------------------------------------------------------------
(***************************************************************************)
(* Items                                                                   *)
(***************************************************************************)
Byte(v) == [kind |-> "byte", value |-> v]
Junk    == [kind |-> "junk"]
\* An answer frame.  "cut" frames end before their last byte, "bad" ones have
\* a wrong checksum; of is the telegram the controller answers.
Frame(type, of, cut, bad) ==
  [kind |-> "frame", type |-> type, of |-> of, cut |-> cut, bad |-> bad]

\* leadin, length, type, function, address (2), data length, data, checksum;
\* an error report has one byte of data and the answer to a write has none.
DataLen(f) == IF f.type = ERROR_REPORT THEN 1
              ELSE IF f.of.fct = WRITE_DATA THEN 0 ELSE f.of.len
RespLen(f) == IF f.type = ERROR_REPORT THEN 1 ELSE f.of.len

\* What framer_receive() takes for the length of a frame: the length byte, a
\* signed char, counts everything between itself and the checksum.
SignedChar(n) == ((n + 128) % 256) - 128
Total(f)      == SignedChar(5 + DataLen(f)) + 3

Answers(r) == {Frame(t, r, c, b) : t \in AnswerType, c \in BOOLEAN, b \in BOOLEAN}

\* Variant: my_send() does not throw anything away.
Flushed_Never == wire

\* my_send(): tcflush() throws away what has arrived on a tty, and does nothing to
\* a socket.
Flushed == IF tty THEN <<>> ELSE wire

\* What a message makes of the controller: one of the outcomes, which are pairs
\* of its next mode and the items it sends, unless the message is lost.
Reacts(outcomes) ==
  /\ wire' = Flushed
  /\ late' = (late \/ transit # <<>>)
  /\ \E o \in outcomes \cup {<<mode, <<>>>>} :
       /\ mode' = o[1]
       /\ transit' = transit \o o[2]
       /\ Len(transit') + Len(wire') <= MaxItems

\* The bytes that tell the branches of the code apart.
ByteValues == {0, NOT_INIT, INIT_OK, ERROR, LEADIN}

\* One byte is read into v; a frame of which one byte is read falls apart, and
\* the rest of it may still be under way.
ReadsByte(v) ==
  /\ wire # <<>>
  /\ LET h == Head(wire)
     IN \/ /\ h.kind = "byte" /\ v = h.value
           /\ wire' = Tail(wire) /\ UNCHANGED transit
        \/ /\ h.kind = "frame" /\ v = LEADIN
           /\ \/ wire' = <<Junk>> \o Tail(wire) /\ UNCHANGED transit
              \/ Len(wire) = 1 /\ wire' = <<>> /\ transit' = <<Junk>> \o transit
        \/ /\ h.kind = "junk" /\ v \in {0, NOT_INIT, INIT_OK}
           /\ wire' \in {wire, Tail(wire)} /\ UNCHANGED transit
  /\ UNCHANGED <<mode, late>>

\* receive_nb() gives up after 5 s without a byte.
ReadTimesOut == wire = <<>> /\ UNCHANGED <<wire, transit, mode, late>>

-----------------------------------------------------------------------------
NoRequest == [id |-> 0, addr |-> NO_ADDR, fct |-> 0, len |-> 0]
NoResult  == [kind |-> "none"]

Init ==
  /\ tty \in BOOLEAN
  /\ pc = "closed" /\ goal = "open" /\ openTry = 0 /\ closeTry = 0
  /\ pid = 0 /\ addr = NO_ADDR
  /\ request = NoRequest /\ result = NoResult
  /\ mode \in {"KW", "P300"}       \* an earlier session may have crashed
  /\ transit = <<>> /\ wire = <<>> /\ late = FALSE

(***************************************************************************)
(* framer_openDevice() and framer_closeDevice()                            *)
(***************************************************************************)
framer_openDevice ==
  /\ pc = "closed"
  /\ pc' = "reset" /\ goal' = "open" /\ openTry' = 1 /\ closeTry' = 0
  /\ wire' = <<>>
  /\ result' = NoResult
  /\ UNCHANGED <<pid, addr, request, mode, transit, late>>

framer_closeDevice ==
  /\ pc = "ready"
  /\ pc' = "reset" /\ goal' = "close" /\ closeTry' = 0
  /\ UNCHANGED <<openTry, pid, addr, request, result, mode, transit, wire, late>>

\* The device is closed, by closeDevice() or because open_p300() failed, which
\* leaves framer_pid alone; st is the link status that stays behind.
Closed(st) ==
  /\ pc' = "closed"
  /\ addr' = LINK_STATUS(st)
  /\ pid' = IF goal = "close" THEN 0 ELSE pid
  /\ UNCHANGED <<goal, openTry, closeTry, request, result>>

(***************************************************************************)
(* framer_close_p300(): up to three resets, each with one byte of answer   *)
(***************************************************************************)
SendReset ==
  /\ pc = "reset"
  /\ closeTry < ATTEMPTS
  /\ closeTry' = closeTry + 1
  /\ pc' = "resetAck"
  /\ Reacts({<<"KW", <<>>>>, <<"KW", <<Byte(NOT_INIT)>>>>}
             \cup IF mode = "P300" THEN {<<"KW", <<Byte(INIT_OK)>>>>} ELSE {})
  /\ UNCHANGED <<goal, openTry, pid, addr, request, result>>

ResetsExhausted ==
  /\ pc = "reset"
  /\ closeTry = ATTEMPTS
  /\ Closed(ERROR)
  /\ UNCHANGED <<mode, transit, wire, late>>

ResetAnswered ==
  /\ pc = "resetAck"
  /\ \E v \in ByteValues :
       /\ ReadsByte(v)
       /\ \/ /\ v \notin {INIT_OK, NOT_INIT}       \* continue anyway
             /\ pc' = "reset"
             /\ UNCHANGED <<goal, openTry, closeTry, pid, addr, request, result>>
          \/ /\ v \in {INIT_OK, NOT_INIT}
             /\ goal = "close"
             /\ Closed(NOT_INIT)
          \/ /\ v \in {INIT_OK, NOT_INIT}
             /\ goal = "open"
             /\ pc' = "enable"
             /\ addr' = LINK_STATUS(NOT_INIT)
             /\ UNCHANGED <<goal, openTry, closeTry, pid, request, result>>

(***************************************************************************)
(* framer_open_p300(): up to three times reset and enable                  *)
(***************************************************************************)
SendEnable ==
  /\ pc = "enable"
  /\ pc' = "enableAck"
  /\ Reacts({<<"P300", <<>>>>, <<"P300", <<Byte(INIT_OK)>>>>})
  /\ UNCHANGED <<goal, openTry, closeTry, pid, addr, request, result>>

\* Variants: one attempt too many, any answer taken for OK, attempts not counted.
EnableAnswered_OneMore ==
  /\ pc = "enableAck"
  /\ \E v \in ByteValues :
       /\ ReadsByte(v)
       /\ \/ /\ v = INIT_OK
             /\ pc' = "ready" /\ addr' = NO_ADDR /\ pid' = LEADIN
             /\ UNCHANGED <<goal, openTry, closeTry, request, result>>
          \/ /\ v # INIT_OK /\ openTry <= ATTEMPTS
             /\ pc' = "reset" /\ openTry' = openTry + 1 /\ closeTry' = 0
             /\ UNCHANGED <<goal, pid, addr, request, result>>
          \/ /\ v # INIT_OK /\ openTry > ATTEMPTS
             /\ Closed(ERROR)

EnableAnswered_AnyAck ==
  /\ pc = "enableAck"
  /\ \E v \in ByteValues : ReadsByte(v)
  /\ pc' = "ready" /\ addr' = NO_ADDR /\ pid' = LEADIN
  /\ UNCHANGED <<goal, openTry, closeTry, request, result>>

EnableAnswered_NoCount ==
  /\ pc = "enableAck"
  /\ \E v \in ByteValues :
       /\ ReadsByte(v)
       /\ \/ /\ v = INIT_OK
             /\ pc' = "ready" /\ addr' = NO_ADDR /\ pid' = LEADIN
             /\ UNCHANGED <<goal, openTry, closeTry, request, result>>
          \/ /\ v # INIT_OK
             /\ pc' = "reset" /\ closeTry' = 0
             /\ UNCHANGED <<goal, openTry, pid, addr, request, result>>

EnableAnswered ==
  /\ pc = "enableAck"
  /\ \E v \in ByteValues :
       /\ ReadsByte(v)
       /\ \/ /\ v = INIT_OK
             /\ pc' = "ready"
             /\ addr' = NO_ADDR
             /\ pid' = LEADIN
             /\ UNCHANGED <<goal, openTry, closeTry, request, result>>
          \/ /\ v # INIT_OK /\ openTry < ATTEMPTS
             /\ pc' = "reset" /\ openTry' = openTry + 1 /\ closeTry' = 0
             /\ UNCHANGED <<goal, pid, addr, request, result>>
          \/ /\ v # INIT_OK /\ openTry = ATTEMPTS
             /\ Closed(ERROR)

\* No answer to a reset or to enable: open and close give up at once.
LinkTimesOut ==
  /\ pc \in {"resetAck", "enableAck"}
  /\ ReadTimesOut
  /\ Closed(ERROR)

-----------------------------------------------------------------------------
(***************************************************************************)
(* framer_send(): one telegram and the byte that acknowledges it           *)
(***************************************************************************)
Send(a, fct, len) ==
  /\ pc = "ready"
  /\ request.id < MaxTelegrams
  /\ pc' = "ack"
  /\ request' = [id |-> request.id + 1, addr |-> a, fct |-> fct, len |-> len]
  /\ result' = NoResult
  /\ Reacts(IF mode = "P300"
              THEN {<<mode, <<Byte(INIT_OK)>>>>, <<mode, <<Byte(ERROR)>>>>}
                   \cup {<<mode, <<Byte(INIT_OK), f>>>> : f \in Answers(request')}
                   \cup {<<mode, <<f>>>> : f \in Answers(request')}
              ELSE {})
  /\ UNCHANGED <<goal, openTry, closeTry, pid, addr>>

Fails ==
  /\ pc' = "ready"
  /\ result' = [kind |-> "error"]

SendAnswered ==
  /\ pc = "ack"
  /\ \E v \in ByteValues :
       /\ ReadsByte(v)
       /\ \/ v = INIT_OK /\ pc' = "receive" /\ addr' = request.addr /\ UNCHANGED result
          \/ v # INIT_OK /\ Fails /\ UNCHANGED addr
  /\ UNCHANGED <<goal, openTry, closeTry, pid, request>>

SendTimesOut ==
  /\ pc = "ack"
  /\ ReadTimesOut
  /\ Fails
  /\ UNCHANGED <<goal, openTry, closeTry, pid, addr, request>>

-----------------------------------------------------------------------------
(***************************************************************************)
(* framer_receive(): one answer.  Every way out of it makes the address    *)
(* idle again.                                                             *)
(***************************************************************************)
rLen == IF request.fct = WRITE_DATA THEN 1 ELSE request.len

IsStatus(a) == a \div 512 = 127     \* (a & 0xFE00) == 0xFE00

Failure      == [kind |-> "error"]
Strange      == [kind |-> "strange"]   \* "strange should not happen here"
PresetStatus == [kind |-> "status"]

\* Variants: the address stays active after an error, or after a strange read.
Returns_ErrorKeepsAddr(res) ==
  /\ pc' = "ready"
  /\ addr' = IF res = Failure THEN addr ELSE NO_ADDR
  /\ result' = res
  /\ UNCHANGED <<goal, openTry, closeTry, pid, request>>

Returns_StrangeKeepsAddr(res) ==
  /\ pc' = "ready"
  /\ addr' = IF res = Strange THEN addr ELSE NO_ADDR
  /\ result' = res
  /\ UNCHANGED <<goal, openTry, closeTry, pid, request>>

Returns(res) ==
  /\ pc' = "ready"
  /\ addr' = NO_ADDR
  /\ result' = res
  /\ UNCHANGED <<goal, openTry, closeTry, pid, request>>

\* framer_preset_result(): an address that looks like a link status is taken
\* for one, and nothing is read.
ReceivePreset ==
  /\ pc = "receive"
  /\ IsStatus(addr)
  /\ Returns(PresetStatus)
  /\ UNCHANGED <<mode, transit, wire, late>>

ReceiveTimesOut ==
  /\ pc = "receive"
  /\ ~IsStatus(addr)
  /\ ReadTimesOut
  /\ Returns(Failure)

\* The answer to a write has no data to hand on: its type decides on one byte
\* that is put where the second read ended (two bytes short of the whole), of
\* which the caller looks at the one at the start, zero until then.
WriteOutcome(f) == IF f.type = RESPONSE THEN 0 ELSE 1
SeenByCaller(f) == IF Total(f) - 2 = 0 THEN WriteOutcome(f) ELSE 0

\* Variants: the address is not compared; error reports, and frames with a wrong
\* checksum, are let through.
Verdict_AnyAddr(f) ==
  IF (f.cut /\ f.of.addr # TimerAddr) \/ (f.bad /\ ~f.cut) \/ f.type = ERROR_REPORT
    THEN Failure
  ELSE IF f.of.fct = WRITE_DATA /\ rLen = 1
    THEN [kind |-> "written", frame |-> f, value |-> SeenByCaller(f)]
  ELSE IF rLen = RespLen(f) THEN [kind |-> "data", frame |-> f] ELSE Failure

Verdict_ErrorReports(f) ==
  IF (f.cut /\ f.of.addr # TimerAddr) \/ (f.bad /\ ~f.cut) \/ f.of.addr # addr
    THEN Failure
  ELSE IF rLen = RespLen(f) \/ rLen = 1 THEN [kind |-> "data", frame |-> f] ELSE Failure

Verdict_NoChecksum(f) ==
  IF (f.cut /\ f.of.addr # TimerAddr) \/ f.type = ERROR_REPORT \/ f.of.addr # addr
    THEN Failure
  ELSE IF rLen = RespLen(f) THEN [kind |-> "data", frame |-> f] ELSE Failure

\* The checks of a frame of which everything that will come has been read.
Verdict(f) ==
  IF \/ f.cut /\ f.of.addr # TimerAddr           \* bug of getTimerWWMi
     \/ f.bad /\ ~f.cut
     \/ f.type = ERROR_REPORT
     \/ f.of.addr # addr
    THEN Failure
  ELSE IF f.of.fct = WRITE_DATA /\ rLen = 1
    THEN IF DataLen(f) = 0
           THEN [kind |-> "written", frame |-> f, value |-> SeenByCaller(f)]
           ELSE Failure
  ELSE IF rLen = RespLen(f) THEN [kind |-> "data", frame |-> f] ELSE Failure

\* A frame that starts where the reader expects one, longer than the rLen bytes
\* that are read first; of a cut one, those may be missing already.
ReceiveFrame ==
  /\ pc = "receive"
  /\ ~IsStatus(addr)
  /\ wire # <<>>
  /\ LET f == Head(wire)
     IN /\ f.kind = "frame"
        /\ rLen < Total(f)
        /\ f.cut => Len(wire) = 1
        /\ \/ Returns(Verdict(f))
           \/ f.cut /\ Returns(Failure)
  /\ wire' = Tail(wire)
  /\ UNCHANGED <<mode, transit, late>>

\* A frame no longer than the first rLen bytes: those are the return value, with
\* nothing put into the buffer of the caller and nothing checked.  The read may
\* reach into what follows, or wait for it in vain.
ReceiveShortFrame ==
  /\ pc = "receive"
  /\ ~IsStatus(addr)
  /\ wire # <<>>
  /\ LET f == Head(wire)
     IN /\ f.kind = "frame"
        /\ rLen >= Total(f)
        /\ f.cut => Len(wire) = 1
        /\ \/ /\ ~f.cut /\ Total(f) = rLen
              /\ Returns(Strange)
              /\ wire' = Tail(wire)
           \/ /\ ~f.cut /\ Total(f) < 0       \* the length byte is negative
              /\ Returns(Strange)
              /\ wire' = <<Junk>> \o Tail(wire)
           \/ /\ Len(wire) = 1 /\ (f.cut \/ Total(f) \in 0..(rLen - 1))
              /\ Returns(Failure)
              /\ wire' = <<>>
           \/ /\ Len(wire) > 1 /\ Total(f) \in 0..(rLen - 1)
              /\ Returns(Strange)
              /\ wire' \in {Tail(Tail(wire)), <<Junk>> \o Tail(Tail(wire))}
  /\ UNCHANGED <<mode, transit, late>>

\* Bytes that do not start a whole frame.  What is read from there has no valid
\* leadin, length and checksum, and the reader stops anywhere.
ReceiveMisaligned ==
  /\ pc = "receive"
  /\ ~IsStatus(addr)
  /\ wire # <<>>
  /\ Head(wire).kind = "frame" => Head(wire).cut /\ Len(wire) > 1
  /\ \/ Returns(Failure)
     \/ Returns(Strange)
  /\ \E i \in 1..Len(wire) :
       LET rest == SubSeq(wire, i + 1, Len(wire))
       IN wire' \in {rest, <<Junk>> \o rest}
  /\ UNCHANGED <<mode, transit, late>>

-----------------------------------------------------------------------------
(***************************************************************************)
(* The cable, the controller and the end of the process                    *)
(***************************************************************************)
\* The next item arrives; nobody keeps it while the device is closed.
Arrive ==
  /\ transit # <<>>
  /\ transit' = Tail(transit)
  /\ wire' = IF pc = "closed" THEN wire ELSE Append(wire, Head(transit))
  /\ UNCHANGED <<program, mode, late>>

\* A controller in KW mode announces itself every two seconds.
Announce ==
  /\ mode = "KW"
  /\ Len(transit) + Len(wire) < MaxItems
  /\ transit' = Append(transit, Byte(NOT_INIT))
  /\ UNCHANGED <<program, mode, wire, late>>

\* The session ends without closing the device (a signal, a client gone, exit);
\* the next one is another process.
Crash ==
  /\ pc # "closed"
  /\ pc' = "closed" /\ goal' = "open" /\ openTry' = 0 /\ closeTry' = 0
  /\ pid' = 0 /\ addr' = NO_ADDR /\ result' = NoResult
  /\ wire' = <<>>
  /\ UNCHANGED <<request, mode, transit, late>>

Receive == ReceivePreset \/ ReceiveTimesOut \/ ReceiveFrame
             \/ ReceiveShortFrame \/ ReceiveMisaligned

\* What the program does once it has been asked to open, close or send.
Step == \/ SendReset \/ ResetsExhausted \/ ResetAnswered
        \/ SendEnable \/ EnableAnswered \/ LinkTimesOut
        \/ SendAnswered \/ SendTimesOut \/ Receive

Next ==
  /\ \/ framer_openDevice \/ framer_closeDevice
     \/ \E a \in Addr, fct \in {READ_DATA, WRITE_DATA}, n \in DataLens : Send(a, fct, n)
     \/ Step
     \/ Arrive \/ Announce \/ Crash
  /\ UNCHANGED tty

Spec == Init /\ [][Next]_vars

-----------------------------------------------------------------------------
Request == [id : 0..MaxTelegrams, addr : Addr \cup {NO_ADDR},
            fct : {0, READ_DATA, WRITE_DATA}, len : DataLens \cup {0}]
AFrame  == [kind : {"frame"}, type : AnswerType, of : Request,
            cut : BOOLEAN, bad : BOOLEAN]
Item    == {Junk} \cup {Byte(v) : v \in ByteValues} \cup AFrame
Result  == {NoResult, Failure, Strange, PresetStatus}
             \cup [kind : {"data"}, frame : AFrame]
             \cup [kind : {"written"}, frame : AFrame, value : {0, 1}]

\* Every variable stays in its range: the attempts of open and close within
\* their loops, framer_pid at nothing or P300, and no more items than the bound.
TypeOK ==
  /\ tty \in BOOLEAN
  /\ pc \in {"closed", "reset", "resetAck", "enable", "enableAck",
             "ready", "ack", "receive"}
  /\ goal \in {"open", "close"}
  /\ openTry \in 0..ATTEMPTS /\ closeTry \in 0..ATTEMPTS
  /\ pid \in {0, LEADIN}
  /\ addr \in Addr \cup {NO_ADDR, LINK_STATUS(ERROR), LINK_STATUS(NOT_INIT)}
  /\ request \in Request
  /\ result \in Result
  /\ mode \in {"KW", "P300"}
  /\ \A i \in DOMAIN transit : transit[i] \in Item
  /\ \A i \in DOMAIN wire : wire[i] \in Item
  /\ Len(transit) + Len(wire) <= MaxItems
  /\ late \in BOOLEAN

HasFrame == result.kind \in {"data", "written"}

\* What a command gets is the answer for the address it has asked for, however
\* many answers came late, were lost or were cut up before; and a command gets a
\* link status instead only when its address looks like one (framer.c, the check
\* of framer_current_addr, and the TODO at framer_set_result()).
OnlyOwnAnswers ==
  /\ HasFrame => result.frame.of.addr = request.addr
  /\ result.kind = "status" => IsStatus(request.addr)

\* A stale answer for the same address is not recognised by its address.  On a
\* tty it takes a message that was sent while bytes were still under way: what
\* merely lies unread is thrown away by my_send().
FreshAnswer == tty /\ ~late /\ HasFrame => result.frame.of.id = request.id

\* Data are handed on only from a frame that is no error report, and with its
\* checksum verified, save for the address whose answer lacks its end.
IntactAnswer ==
  HasFrame => /\ result.frame.type # ERROR_REPORT
              /\ result.frame.cut => request.addr = TimerAddr
              /\ result.frame.bad => result.frame.cut

\* framer_current_addr is idle whenever no answer is awaited, whichever way the
\* last command ended: "addr was still active" is never logged, and no status of
\* the link is left to be taken for the answer of a command.
AddrIdle == pc \in {"ready", "ack"} => addr = NO_ADDR

\* On a tty, a device that counts as open talks to a controller in P300 mode, and
\* one that counts as closed leaves it in KW mode for other programs, although
\* the controller's bytes for "not initialised" and "OK" do not say which message
\* they answer - unless something was sent with bytes under way.
ModeIsKnown ==
  tty /\ ~late =>
    /\ pc \in {"ready", "ack", "receive"} => mode = "P300"
    /\ pc = "closed" /\ addr = LINK_STATUS(NOT_INIT) => mode = "KW"

\* framer.c:389: "strange should not happen here", where rLen bytes are reported
\* as read and none is handed on.
NoStrangeRead == ~late => result.kind # "strange"

=============================================================================
