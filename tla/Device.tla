------------------------------- MODULE Device -------------------------------
(***************************************************************************)
(* The device of a session, whichever protocol it is configured for: P300  *)
(* commands through Framer, KW commands, which go over the line unframed,  *)
(* and the lines of a raw command file (readCmdFile()), which are unframed *)
(* under both.  Unframed input is read byte by byte through io.c:          *)
(* receive(), under an alarm of five seconds for each byte, waitfor() on   *)
(* top of it, and receive_nb().                                            *)
(*                                                                         *)
(* A KW command is SEND 04; WAIT 05; the request; RECV of its answer, as   *)
(* the macros of kw/vcontrold.xml write it; a command file has its lines   *)
(* in any order.                                                           *)
(***************************************************************************)
EXTENDS Framer

CONSTANTS
  AnswerLens,   \* the numbers of bytes a request asks for
  Patterns,     \* the bytes WAIT lines ask for
  MaxReads,     \* bound: bytes that waitfor() reads within its five seconds
  MaxRequests   \* bound: requests sent on a device configured for KW

ASSUME AnswerLensAssumption == AnswerLens \subseteq Nat \ {0}
ASSUME PatternAssumption == Patterns \subseteq Seq(Nat) \ {<<>>}
ASSUME MaxReadsAssumption == MaxReads \in Nat \ {0}
ASSUME MaxRequestsAssumption == MaxRequests \in Nat

VARIABLES
  protocol,     \* cfgPtr->devPtr->protoPtr: "P300" or "KW"
  file,         \* "no": commands of a client; a command file "starts" or is "on"
  alarm,        \* an alarm() is set
  io            \* the call of io.c that is under way, with its local variables

deviceVars == <<protocol, file, alarm, io>>
allVars == <<vars, deviceVars>>

-----------------------------------------------------------------------------
NoCall == [fn |-> "none"]

\* waitfor(): the bytes waited for, how many have been recognised and how many
\* read; byte is the one receive() has just put into its buffer.
Waiting(w) == [fn |-> "waitfor", w |-> w, matched |-> 0, reads |-> 0, byte |-> Junk]

\* receive() and receive_nb() of n bytes: what has been read of them.
Reading(fn, n) == [fn |-> fn, n |-> n, got |-> <<>>, byte |-> Junk]

Recognised == [kind |-> "recognised"]
Asked      == [kind |-> "asked"]
Raw(got)   == [kind |-> "raw", got |-> got]

\* Byte i of the controller's answer to the KW request r, with any value.
Data(r, i)  == [kind |-> "data", of |-> r, at |-> i]
OwnBytes(r) == {Data(r, i) : i \in 1..r.len}

\* What reaches the tty of an answer: some of its bytes, in their order (IGNPAR drops
\* the bytes whose parity is wrong, opentty()).
Partly(r) ==
  {s \in UNION {[1..k -> OwnBytes(r)] : k \in 0..r.len} :
     \A i, j \in DOMAIN s : i < j => s[i].at < s[j].at}

\* Bytes of the answer to r, each once and in their order, and after them nothing but
\* announcements.
OwnStream(s, r) ==
  /\ s \in Seq(OwnBytes(r) \cup {Byte(NOT_INIT)})
  /\ \A i, j \in DOMAIN s :
       i < j /\ s[j].kind = "data" => s[i].kind = "data" /\ s[i].at < s[j].at

MayBe(b, v)    == b.kind = "data" \/ b = Byte(v)
MayNotBe(b, v) == b # Byte(v)

\* read() of one byte, which is b.
ReadsOne(b) ==
  \/ b.kind = "byte" /\ ReadsByte(b.value)
  \/ /\ wire # <<>> /\ b = Head(wire) /\ b.kind = "data"
     /\ wire' = Tail(wire)
     /\ UNCHANGED <<mode, transit, late>>

Bytes == {Byte(v) : v \in ByteValues}
           \cup {wire[i] : i \in {j \in DOMAIN wire : wire[j].kind = "data"}}

CableUnchanged == UNCHANGED <<mode, transit, wire, late>>
LinkUnchanged  == UNCHANGED <<tty, goal, openTry, closeTry, pid, addr, protocol, file>>

-----------------------------------------------------------------------------
(***************************************************************************)
(* Opening and closing: only P300 says anything to the controller          *)
(***************************************************************************)
DInit ==
  /\ Init
  /\ protocol \in {"P300", "KW"}
  /\ file = "no" /\ alarm = FALSE /\ io = NoCall

OpenP300 ==
  /\ protocol = "P300"
  /\ framer_openDevice
  /\ file' \in {"no", "starts"}
  /\ UNCHANGED <<tty, protocol, alarm, io>>

OpenKW ==
  /\ protocol = "KW"
  /\ pc = "closed"
  /\ pc' = "ready"
  /\ pid' = 0
  /\ wire' = <<>>
  /\ result' = NoResult
  /\ file' \in {"no", "starts"}
  /\ UNCHANGED <<tty, goal, openTry, closeTry, addr, request, mode, transit, late,
                 protocol, alarm, io>>

CloseP300 ==
  /\ pid = LEADIN
  /\ framer_closeDevice
  /\ UNCHANGED <<tty, deviceVars>>

CloseKW ==
  /\ pid # LEADIN
  /\ pc = "ready"
  /\ pc' = "closed"
  /\ pid' = 0
  /\ CableUnchanged
  /\ UNCHANGED <<tty, goal, openTry, closeTry, addr, request, result, deviceVars>>

\* readCmdFile() empties the queue once it has opened device and file; when it
\* cannot open the file, it closes the device.
FileOpened ==
  /\ pc = "ready" /\ file = "starts"
  /\ file' = "on"
  /\ wire' = Flushed
  /\ UNCHANGED <<tty, program, mode, transit, late, protocol, alarm, io>>

-----------------------------------------------------------------------------
(***************************************************************************)
(* Sending                                                                 *)
(***************************************************************************)
P300Send ==
  /\ protocol = "P300" /\ file = "no"
  /\ \E a \in Addr, fct \in {READ_DATA, WRITE_DATA}, n \in DataLens : Send(a, fct, n)
  /\ UNCHANGED <<tty, deviceVars>>

\* Where the next line of a command or a file is executed unframed.
Unframed == pc = "ready" /\ (file = "on" \/ (protocol = "KW" /\ file = "no"))

\* SEND 04, which puts the controller into KW mode.
SendSync ==
  /\ Unframed
  /\ result' = NoResult
  /\ Reacts({<<"KW", <<>>>>, <<"KW", <<Byte(NOT_INIT)>>>>}
             \cup IF mode = "P300" THEN {<<"KW", <<Byte(INIT_OK)>>>>} ELSE {})
  /\ UNCHANGED <<pc, request, alarm, io>>
  /\ LinkUnchanged

\* A request for n bytes, which a controller in KW mode sends and another refuses.
\* On a device configured for P300 it comes from a command file, and how many of
\* the answer's bytes are read then does not matter.
SendRequest(n) ==
  /\ Unframed
  /\ file = "no" => result = Recognised
  /\ request.id < IF protocol = "KW" THEN MaxRequests ELSE MaxTelegrams
  /\ request' = [id |-> request.id + 1, addr |-> NO_ADDR, fct |-> READ_DATA, len |-> n]
  /\ result' = Asked
  /\ \E answer \in IF mode = "P300" THEN {<<Byte(ERROR)>>}
                    ELSE IF protocol = "P300" THEN {<<Junk>>}
                    ELSE Partly(request') :
       Reacts({<<mode, answer>>})
  /\ UNCHANGED <<pc, alarm, io>>
  /\ LinkUnchanged

\* my_send() fails: execByteCode() gives up, execCmd() exits.
SendFails ==
  /\ Unframed
  /\ wire' = Flushed
  /\ pc' = IF file = "on" THEN "exit" ELSE "ready"
  /\ result' = Failure
  /\ UNCHANGED <<request, mode, transit, late, alarm, io>>
  /\ LinkUnchanged

-----------------------------------------------------------------------------
(***************************************************************************)
(* WAIT and RECV begin                                                     *)
(***************************************************************************)
Begins(place, call) ==
  /\ pc' = place
  /\ io' = call
  /\ result' = NoResult
  /\ CableUnchanged
  /\ UNCHANGED <<request, alarm>>
  /\ LinkUnchanged

WaitFor(w) ==
  /\ Unframed
  /\ file = "no" => w = <<NOT_INIT>>
  /\ Begins("arm", Waiting(w))

\* execCmd() reads with receive(), framer_receive() with receive_nb().
RecvOfFile(n) ==
  /\ Unframed /\ file = "on"
  /\ Begins("arm", Reading("receive", n))

RecvOfCommand ==
  /\ Unframed /\ file = "no"
  /\ result = Asked
  /\ Begins("select", Reading("receive_nb", request.len))

\* A call of io.c returns, and with it the line that made it.
Ends(res) ==
  /\ pc' = "ready"
  /\ io' = NoCall
  /\ result' = res
  /\ UNCHANGED request

\* The process gives up in the middle of a line.
GivesUp ==
  /\ pc' = "exit"
  /\ io' = NoCall
  /\ result' = Failure
  /\ UNCHANGED request

-----------------------------------------------------------------------------
(***************************************************************************)
(* receive(): signal(), setjmp(), alarm(), one byte, alarm(0)              *)
(***************************************************************************)
Arm ==
  /\ pc = "arm"
  /\ pc' = "read"
  /\ alarm' = TRUE
  /\ CableUnchanged
  /\ UNCHANGED <<request, result, io>>
  /\ LinkUnchanged

ReadByte ==
  /\ pc = "read"
  /\ \E b \in Bytes : ReadsOne(b) /\ io' = [io EXCEPT !.byte = b]
  /\ pc' = "disarm"
  /\ UNCHANGED <<request, result, alarm>>
  /\ LinkUnchanged

\* receive() returns -1: waitfor() returns 0 and execCmd() or execByteCode() -1,
\* but a RECV of a file exits.
ReceiveFails == IF io.fn = "waitfor" THEN Ends(Failure) ELSE GivesUp

\* Variant: the error path leaves the alarm running.
ReadFails_KeepsAlarm ==
  /\ pc = "read"
  /\ ReceiveFails
  /\ CableUnchanged
  /\ UNCHANGED alarm
  /\ LinkUnchanged

\* The device has hung up, or its connection is closed.
ReadFails ==
  /\ pc = "read"
  /\ alarm' = FALSE
  /\ ReceiveFails
  /\ CableUnchanged
  /\ LinkUnchanged

\* SIGALRM: sig_alrm() jumps back to setjmp(), also when the byte has been read but
\* alarm(0) not been reached, and the byte is lost.
AlarmGoesOff ==
  /\ alarm
  /\ pc \in {"read", "disarm"}
  /\ alarm' = FALSE
  /\ ReceiveFails
  /\ CableUnchanged
  /\ LinkUnchanged

\* The next byte of the call under way, local variables updated to call.
ReadsOn(call) ==
  /\ pc' = "arm"
  /\ io' = call
  /\ UNCHANGED <<request, result>>

\* waitfor() with the byte that receive() has returned: bytes before the first one
\* that matches are skipped, after that everything has to apply.
Compare ==
  LET v == io.w[io.matched + 1]
      counted == [io EXCEPT !.reads = @ + 1]
  IN \/ /\ MayBe(io.byte, v)
        /\ io.matched + 1 = Len(io.w)
        /\ Ends(Recognised)
     \/ /\ MayBe(io.byte, v)
        /\ io.matched + 1 < Len(io.w)
        /\ ReadsOn([counted EXCEPT !.matched = @ + 1])
     \/ /\ MayNotBe(io.byte, v)
        /\ io.matched = 0
        /\ ReadsOn(counted)
     \/ /\ MayNotBe(io.byte, v)
        /\ io.matched > 0
        /\ GivesUp                           \* "Lost synchronization"

\* Variant: the time that waitfor() has waited is not looked at.
WaitedFor_ForEver ==
  /\ pc = "disarm" /\ io.fn = "waitfor"
  /\ alarm' = FALSE
  /\ \/ io.byte = Byte(io.w[io.matched + 1]) /\ Ends(Recognised)
     \/ io.byte # Byte(io.w[io.matched + 1]) /\ ReadsOn(io)
  /\ CableUnchanged
  /\ LinkUnchanged

\* The clock is looked at after every byte, and before the byte is.
WaitedFor ==
  /\ pc = "disarm" /\ io.fn = "waitfor"
  /\ alarm' = FALSE
  /\ \/ io.reads < MaxReads /\ Compare
     \/ Ends(Failure)                        \* "Timeout wait"
  /\ CableUnchanged
  /\ LinkUnchanged

Received ==
  /\ pc = "disarm" /\ io.fn = "receive"
  /\ alarm' = FALSE
  /\ LET got == Append(io.got, io.byte)
     IN IF Len(got) = io.n THEN Ends(Raw(got)) ELSE ReadsOn([io EXCEPT !.got = got])
  /\ CableUnchanged
  /\ LinkUnchanged

-----------------------------------------------------------------------------
(***************************************************************************)
(* receive_nb(), and framer_receive() around it: under KW, what has been   *)
(* read is handed on as it is                                              *)
(***************************************************************************)
Select ==
  /\ pc = "select"
  /\ \E b \in Bytes :
       /\ ReadsOne(b)
       /\ LET got == Append(io.got, b)
          IN \/ Len(got) = io.n /\ Ends(Raw(got))
             \/ /\ Len(got) < io.n
                /\ io' = [io EXCEPT !.got = got]
                /\ UNCHANGED <<pc, request, result>>
  /\ UNCHANGED alarm
  /\ LinkUnchanged

SelectTimesOut ==
  /\ pc = "select"
  /\ ReadTimesOut
  /\ Ends(Failure)
  /\ addr' = NO_ADDR
  /\ UNCHANGED <<tty, goal, openTry, closeTry, pid, protocol, file, alarm>>

-----------------------------------------------------------------------------
\* The end of the process: exit() in a line, or anything that ends a session.
ProcessEnds ==
  /\ Crash
  /\ file' = "no" /\ alarm' = FALSE /\ io' = NoCall
  /\ UNCHANGED <<tty, protocol>>

FramerStep  == Step /\ UNCHANGED <<tty, deviceVars>>
Environment == (Arrive \/ Announce) /\ UNCHANGED <<tty, deviceVars>>

\* What is asked of the device.
Asks == \/ OpenP300 \/ OpenKW \/ CloseP300 \/ CloseKW \/ FileOpened
            \/ P300Send \/ SendSync \/ SendFails
            \/ \E n \in AnswerLens : SendRequest(n) \/ RecvOfFile(n)
            \/ \E w \in Patterns : WaitFor(w)
            \/ RecvOfCommand

\* What the program does of its own accord once it is asked.
DStep == \/ FramerStep
         \/ Arm \/ ReadByte \/ ReadFails \/ AlarmGoesOff \/ WaitedFor \/ Received
         \/ Select \/ SelectTimesOut
         \/ pc = "exit" /\ ProcessEnds

DNext == Asks \/ DStep \/ Environment \/ ProcessEnds

DSpec == DInit /\ [][DNext]_allVars

\* Every byte is awaited for five seconds at most, by alarm() or by select(), so
\* the program never stops halfway.  Nothing is assumed of cable and controller.
FairSpec == DSpec /\ WF_allVars(DStep)

-----------------------------------------------------------------------------
\* An alarm is running exactly while receive() waits for a byte: no read is without
\* its limit, and no SIGALRM comes later, when sig_alrm() would jump into a call of
\* receive() that has returned.
AlarmOnlyInReceive == alarm <=> pc \in {"read", "disarm"}

\* KW answers carry neither address nor checksum, and receive_nb() waits for as many
\* bytes as were asked for.  On a tty, unless something was sent while bytes were still
\* under way, the bytes that a command takes for its answer are nevertheless bytes of
\* that answer, each once and in their order, filled up by announcements of the
\* controller for those that were lost: never another command's, none out of place,
\* and no announcement while a byte of the answer is still to come.
KWAnswerIsOwn ==
  tty /\ ~late /\ file = "no" /\ pc = "ready" /\ result.kind = "raw" =>
    OwnStream(result.got \o wire \o transit, request)

\* Opening, closing and every line come to an end, whatever the controller answers,
\* fails to answer, or announces.
CallsReturn == pc \notin {"closed", "ready"} ~> pc \in {"closed", "ready"}

=============================================================================
