---------------------------- MODULE DeviceProofs ----------------------------
(***************************************************************************)
(* Theorems about Device for every instance of it: an alarm runs exactly   *)
(* while receive() waits, and an unframed answer is bytes of the command's *)
(* own answer, in their order, and then announcements.                     *)
(***************************************************************************)
EXTENDS Device, FramerProofs, SequenceTheorems

Reads == {"read", "disarm"}

\* The steps of framer.c neither start nor end in receive().
LEMMA FramerOutsideReceive ==
  ASSUME Step
  PROVE  pc \notin Reads /\ pc' \notin Reads
<1>1. CASE SendReset
  BY <1>1 DEF SendReset, Reads
<1>2. CASE ResetsExhausted
  BY <1>2 DEF ResetsExhausted, Closed, Reads
<1>3. CASE ResetAnswered
  BY <1>3 DEF ResetAnswered, Closed, Reads
<1>4. CASE SendEnable
  BY <1>4 DEF SendEnable, Reads
<1>5. CASE EnableAnswered
  BY <1>5 DEF EnableAnswered, Closed, Reads
<1>6. CASE LinkTimesOut
  BY <1>6 DEF LinkTimesOut, Closed, Reads
<1>7. CASE SendAnswered
  BY <1>7 DEF SendAnswered, Fails, Reads
<1>8. CASE SendTimesOut
  BY <1>8 DEF SendTimesOut, Fails, Reads
<1>9. CASE Receive
  <2>1. pc = "receive"
    BY <1>9 DEF Receive, ReceivePreset, ReceiveTimesOut, ReceiveFrame,
                ReceiveShortFrame, ReceiveMisaligned
  <2>2. pc' = "ready"
    <3>1. CASE ReceivePreset
      BY <3>1 DEF ReceivePreset, Returns
    <3>2. CASE ReceiveTimesOut
      BY <3>2 DEF ReceiveTimesOut, Returns
    <3>3. CASE ReceiveFrame
      BY <3>3 DEF ReceiveFrame, Returns
    <3>4. CASE ReceiveShortFrame
      BY <3>4 DEF ReceiveShortFrame, Returns
    <3>5. CASE ReceiveMisaligned
      BY <3>5 DEF ReceiveMisaligned, Returns
    <3>6. QED
      BY <1>9, <3>1, <3>2, <3>3, <3>4, <3>5 DEF Receive
  <2>3. QED
    BY <2>1, <2>2 DEF Reads
<1>10. QED
  BY <1>1, <1>2, <1>3, <1>4, <1>5, <1>6, <1>7, <1>8, <1>9 DEF Step

\* What is asked of the device is asked outside of receive(), and only gets ready
\* for it.
LEMMA AskedOutsideReceive ==
  ASSUME Asks
  PROVE  pc \notin Reads /\ pc' \notin Reads /\ UNCHANGED alarm
<1>1. CASE OpenP300
  BY <1>1 DEF OpenP300, framer_openDevice, Reads
<1>2. CASE OpenKW
  BY <1>2 DEF OpenKW, Reads
<1>3. CASE CloseP300
  BY <1>3 DEF CloseP300, framer_closeDevice, deviceVars, Reads
<1>4. CASE CloseKW
  BY <1>4 DEF CloseKW, deviceVars, Reads
<1>5. CASE FileOpened
  BY <1>5 DEF FileOpened, program, Reads
<1>6. CASE P300Send
  BY <1>6 DEF P300Send, Send, deviceVars, Reads
<1>7. CASE SendSync
  BY <1>7 DEF SendSync, Unframed, Reads
<1>8. CASE SendFails
  BY <1>8 DEF SendFails, Unframed, Reads
<1>9. ASSUME NEW n \in AnswerLens, SendRequest(n)
      PROVE  pc \notin Reads /\ pc' \notin Reads /\ UNCHANGED alarm
  BY <1>9 DEF SendRequest, Unframed, Reads
<1>10. ASSUME NEW n \in AnswerLens, RecvOfFile(n)
       PROVE  pc \notin Reads /\ pc' \notin Reads /\ UNCHANGED alarm
  BY <1>10 DEF RecvOfFile, Begins, Unframed, Reads
<1>11. ASSUME NEW w \in Patterns, WaitFor(w)
       PROVE  pc \notin Reads /\ pc' \notin Reads /\ UNCHANGED alarm
  BY <1>11 DEF WaitFor, Begins, Unframed, Reads
<1>12. CASE RecvOfCommand
  BY <1>12 DEF RecvOfCommand, Begins, Unframed, Reads
<1>13. QED
  BY <1>1, <1>2, <1>3, <1>4, <1>5, <1>6, <1>7, <1>8, <1>9, <1>10, <1>11, <1>12
  DEF Asks

\* Whichever way a byte is dealt with, receive() is left.
LEMMA ComparedOutsideReceive ==
  ASSUME Compare
  PROVE  pc' \notin Reads
BY DEF Compare, Ends, ReadsOn, GivesUp, Reads

\* An alarm runs exactly while receive() waits for a byte (io.c, receive(): every
\* way out of it turns the alarm off or is taken because it has gone off).
THEOREM AlarmIsContained == DSpec => []AlarmOnlyInReceive
<1>1. DInit => AlarmOnlyInReceive
  BY DEF DInit, Init, AlarmOnlyInReceive
<1>2. AlarmOnlyInReceive /\ [DNext]_allVars => AlarmOnlyInReceive'
  <2> SUFFICES ASSUME AlarmOnlyInReceive, [DNext]_allVars
               PROVE  AlarmOnlyInReceive'
    OBVIOUS
  <2> USE DEF AlarmOnlyInReceive
  <2>1. CASE Asks
    BY <2>1, AskedOutsideReceive DEF Reads
  <2>2. CASE FramerStep
    BY <2>2, FramerOutsideReceive DEF FramerStep, deviceVars, Reads
  <2>3. CASE Arm
    BY <2>3 DEF Arm
  <2>4. CASE ReadByte
    BY <2>4 DEF ReadByte
  <2>5. CASE ReadFails
    BY <2>5 DEF ReadFails, ReceiveFails, Ends, GivesUp
  <2>6. CASE AlarmGoesOff
    BY <2>6 DEF AlarmGoesOff, ReceiveFails, Ends, GivesUp
  <2>7. CASE WaitedFor
    BY <2>7, ComparedOutsideReceive DEF WaitedFor, Ends, Reads
  <2>8. CASE Received
    BY <2>8 DEF Received, Ends, ReadsOn
  <2>9. CASE Select
    BY <2>9 DEF Select, Ends
  <2>10. CASE SelectTimesOut
    BY <2>10 DEF SelectTimesOut, Ends
  <2>11. CASE ProcessEnds
    BY <2>11 DEF ProcessEnds, Crash
  <2>12. CASE Environment
    BY <2>12 DEF Environment, Arrive, Announce, program, deviceVars
  <2>13. CASE UNCHANGED allVars
    BY <2>13 DEF allVars, vars, program, deviceVars
  <2>14. QED
    BY <2>1, <2>2, <2>3, <2>4, <2>5, <2>6, <2>7, <2>8, <2>9, <2>10, <2>11, <2>12,
       <2>13 DEF DNext, DStep
<1>3. QED
  BY <1>1, <1>2, PTL DEF DSpec

-----------------------------------------------------------------------------
(***************************************************************************)
(* Where a session is that speaks KW, and the calls of io.c that commands  *)
(* (not command files) make: waitfor() for one byte, receive_nb() for the  *)
(* answer.                                                                 *)
(***************************************************************************)
InReceive == {"arm", "read", "disarm"}
KWPlaces  == {"closed", "ready", "select", "exit"} \cup InReceive

OneWait == [Waiting(<<NOT_INIT>>) EXCEPT !.reads = io.reads, !.byte = io.byte]
OneRead == [Reading("receive_nb", request.len) EXCEPT !.got = io.got]

Places ==
  /\ protocol = "KW" => pid = 0 /\ pc \in KWPlaces
  /\ pc = "select" => protocol = "KW" /\ file = "no" /\ io = OneRead
  /\ pc \in InReceive => \/ file = "on"
                         \/ file = "no" /\ protocol = "KW" /\ io = OneWait

\* A controller that has not heard a SEND 04 refuses what it is sent, and its refusal
\* is not taken for the byte that WAIT 05 waits for.
Refused ==
  Alone /\ protocol = "KW" /\ mode = "P300" =>
    /\ OnLine({Byte(ERROR)})
    /\ file = "no" => /\ result # Recognised
                      /\ pc \in InReceive => io.byte \in {Junk, Byte(ERROR)}

\* From the request on, what has been read, what has arrived and what is under way are
\* one stream.
Answering ==
  \/ pc = "select"
  \/ /\ pc = "ready" /\ file = "no" /\ protocol = "KW"
     /\ result = Asked \/ result.kind = "raw"

Got == IF pc = "select" THEN io.got ELSE IF result.kind = "raw" THEN result.got ELSE <<>>

Items(r) == OwnBytes(r) \cup {Byte(NOT_INIT)}

Streams(got, r) ==
  /\ got \in Seq(Items(r)) /\ OnLine(Items(r))
  /\ OwnStream(got \o wire \o transit, r)

Stream == Alone /\ Answering => Streams(Got, request)

\* Commands whose answer is handed on as it is read are KW commands.
RawIsKW == result.kind = "raw" /\ file = "no" => protocol = "KW"

DInv == Places /\ Refused /\ RawIsKW /\ Stream

-----------------------------------------------------------------------------
\* Bytes and data are read off the line as they are.
LEMMA ReadsItem ==
  ASSUME NEW S, OnLine(S), NEW b \in Bytes, ReadsOne(b),
         \A x \in S : x.kind = "data" \/ \E v : x = Byte(v)
  PROVE  /\ wire # <<>> /\ b = Head(wire) /\ wire' = Tail(wire)
         /\ UNCHANGED <<transit, mode, late>>
<1>1. wire # <<>>
  BY DEF ReadsOne, ReadsByte
<1>2. Head(wire) \in S
  BY <1>1, TailItems DEF OnLine
<1> DEFINE h == Head(wire)
<1>3. CASE b.kind = "byte" /\ ReadsByte(b.value)
  <2>1. h.kind = "data" \/ \E v : h = Byte(v)
    BY <1>2
  <2>2. h.kind = "byte" /\ b.value = h.value /\ wire' = Tail(wire) /\ UNCHANGED transit
    BY <1>3, <2>1 DEF ReadsByte, Byte
  <2>3. \E v : h = Byte(v)
    BY <2>1, <2>2
  <2>4. \E v : b = Byte(v)
    BY <1>3 DEF Bytes, Data
  <2>5. b = h
    BY <2>2, <2>3, <2>4 DEF Byte
  <2> QED
    BY <1>1, <1>3, <2>2, <2>5 DEF ReadsByte
<1>4. CASE ~(b.kind = "byte" /\ ReadsByte(b.value))
  BY <1>1, <1>4 DEF ReadsOne
<1> QED
  BY <1>3, <1>4

LEMMA ReadsOneLate ==
  ASSUME NEW b, ReadsOne(b)
  PROVE  mode' = mode /\ late' = late
BY DEF ReadsOne, ReadsByte

\* What framer.c does is no business of a session that speaks KW.
LEMMA FramerKeeps ==
  ASSUME Step
  PROVE  /\ request' = request
         /\ result' = result \/ result'.kind \in {"error", "strange", "status", "data", "written"}
         /\ pc \in {"reset", "resetAck", "enable", "enableAck", "ack", "receive"}
         /\ pc' \in {"reset", "resetAck", "enable", "enableAck", "ack", "receive", "ready", "closed"}
         /\ ~late' => ~late
<1>1. CASE SendReset
  BY <1>1, ReactsLate DEF SendReset
<1>2. CASE SendEnable
  BY <1>2, ReactsLate DEF SendEnable
<1>3. CASE ResetsExhausted \/ LinkTimesOut \/ SendTimesOut
  BY <1>3 DEF ResetsExhausted, LinkTimesOut, SendTimesOut, ReadTimesOut, Closed, Fails
<1>4. CASE ResetAnswered
  BY <1>4 DEF ResetAnswered, ReadsByte, Closed
<1>5. CASE EnableAnswered
  BY <1>5 DEF EnableAnswered, ReadsByte, Closed
<1>6. CASE SendAnswered
  BY <1>6 DEF SendAnswered, ReadsByte, Fails
<1>7. CASE Receive
  <2>1. ~late' => ~late
    BY <1>7 DEF Receive, ReceivePreset, ReceiveTimesOut, ReadTimesOut, ReceiveFrame,
                ReceiveShortFrame, ReceiveMisaligned
  <2>2. result'.kind \in {"error", "strange", "status", "data", "written"}
    <3>1. CASE ReceiveFrame
      <4>1. \E f : Returns(Verdict(f)) \/ Returns(Failure)
        BY <3>1 DEF ReceiveFrame
      <4> QED
        BY <4>1, VerdictKind DEF Returns, Failure
    <3>2. CASE ReceivePreset \/ ReceiveTimesOut
      BY <3>2 DEF ReceivePreset, ReceiveTimesOut, Returns, PresetStatus, Failure
    <3>3. CASE ReceiveShortFrame \/ ReceiveMisaligned
      <4>1. Returns(Strange) \/ Returns(Failure)
        BY <3>3 DEF ReceiveShortFrame, ReceiveMisaligned
      <4> QED
        BY <4>1 DEF Returns, Strange, Failure
    <3> QED
      BY <1>7, <3>1, <3>2, <3>3 DEF Receive
  <2> QED
    BY <1>7, <2>1, <2>2, ReceiveReturns
<1> QED
  BY <1>1, <1>2, <1>3, <1>4, <1>5, <1>6, <1>7 DEF Step

LEMMA StaysOnDevice ==
  ASSUME [DNext]_allVars
  PROVE  tty' = tty /\ protocol' = protocol /\ (Alone' => Alone)
<1>1. tty' = tty /\ protocol' = protocol
  <2>1. CASE Asks
    BY <2>1 DEF Asks, OpenP300, OpenKW, CloseP300, CloseKW, FileOpened, P300Send, SendSync,
                SendFails, SendRequest, RecvOfFile, WaitFor, RecvOfCommand, Begins,
                LinkUnchanged, deviceVars
  <2>2. CASE DStep
    BY <2>2 DEF DStep, FramerStep, Arm, ReadByte, ReadFails, AlarmGoesOff, WaitedFor, Received,
                Select, SelectTimesOut, ProcessEnds, LinkUnchanged, deviceVars
  <2>3. CASE Environment \/ ProcessEnds \/ UNCHANGED allVars
    BY <2>3 DEF Environment, ProcessEnds, allVars, vars, deviceVars
  <2> QED
    BY <2>1, <2>2, <2>3 DEF DNext
<1>2. ~late' => ~late
  <2>1. CASE P300Send \/ SendSync \/ \E n \in AnswerLens : SendRequest(n)
    BY <2>1, ReactsLate DEF P300Send, Send, SendSync, SendRequest
  <2>2. CASE \/ OpenP300 \/ OpenKW \/ CloseP300 \/ CloseKW \/ FileOpened \/ SendFails
             \/ \E n \in AnswerLens : RecvOfFile(n)
             \/ \E w \in Patterns : WaitFor(w)
             \/ RecvOfCommand
    BY <2>2 DEF OpenP300, framer_openDevice, OpenKW, CloseP300, framer_closeDevice, CloseKW,
                FileOpened, SendFails, RecvOfFile, WaitFor, RecvOfCommand, Begins, CableUnchanged
  <2>3. CASE FramerStep
    BY <2>3, FramerKeeps DEF FramerStep
  <2>4. CASE ReadByte \/ Select
    BY <2>4, ReadsOneLate DEF ReadByte, Select
  <2>5. CASE Arm \/ ReadFails \/ AlarmGoesOff \/ WaitedFor \/ Received \/ SelectTimesOut
    BY <2>5 DEF Arm, ReadFails, AlarmGoesOff, WaitedFor, Received, SelectTimesOut, ReadTimesOut,
                CableUnchanged
  <2>6. CASE Environment \/ ProcessEnds \/ UNCHANGED allVars
    BY <2>6 DEF Environment, Arrive, Announce, ProcessEnds, Crash, allVars, vars
  <2> QED
    BY <2>1, <2>2, <2>3, <2>4, <2>5, <2>6 DEF DNext, Asks, DStep
<1> QED
  BY <1>1, <1>2 DEF Alone

LEMMA AskedPlaces == Places /\ Asks => Places'
<1> SUFFICES ASSUME Places, Asks PROVE Places'
  OBVIOUS
<1> USE DEF Places, KWPlaces, InReceive
<1>1. CASE OpenP300
  BY <1>1 DEF OpenP300, framer_openDevice
<1>2. CASE OpenKW
  BY <1>2 DEF OpenKW
<1>3. CASE CloseP300
  BY <1>3 DEF CloseP300, framer_closeDevice, deviceVars, LEADIN
<1>4. CASE CloseKW
  BY <1>4 DEF CloseKW, deviceVars
<1>5. CASE FileOpened
  BY <1>5 DEF FileOpened, program
<1>6. CASE P300Send
  BY <1>6 DEF P300Send, Send, deviceVars
<1>7. CASE SendSync \/ SendFails \/ \E n \in AnswerLens : SendRequest(n)
  BY <1>7 DEF SendSync, SendFails, SendRequest, Unframed, LinkUnchanged
<1>8. CASE \E n \in AnswerLens : RecvOfFile(n)
  BY <1>8 DEF RecvOfFile, Begins, Unframed, LinkUnchanged
<1>9. CASE \E w \in Patterns : WaitFor(w)
  <2>1. PICK w \in Patterns : WaitFor(w)
    BY <1>9
  <2>2. io' = Waiting(w) /\ (file = "no" => w = <<NOT_INIT>>)
    BY <2>1 DEF WaitFor, Begins
  <2>3. file = "no" => io' = OneWait'
    BY <2>2 DEF OneWait, Waiting
  <2> QED
    BY <2>1, <2>3 DEF WaitFor, Begins, Unframed, LinkUnchanged
<1>10. CASE RecvOfCommand
  <2>1. io' = OneRead'
    BY <1>10 DEF RecvOfCommand, Begins, OneRead, Reading
  <2> QED
    BY <1>10, <2>1 DEF RecvOfCommand, Begins, Unframed, LinkUnchanged
<1> QED
  BY <1>1, <1>2, <1>3, <1>4, <1>5, <1>6, <1>7, <1>8, <1>9, <1>10 DEF Asks

\* waitfor() for one byte, read on in a command.
LEMMA OneWaitGoesOn ==
  ASSUME io = OneWait, Compare
  PROVE  \/ MayBe(io.byte, NOT_INIT) /\ Ends(Recognised)
         \/ pc' = "arm" /\ io' = OneWait' /\ UNCHANGED <<request, result>> /\ io'.byte = io.byte
<1>1. io.w = <<NOT_INIT>> /\ io.matched = 0
  BY DEF OneWait, Waiting
<1>2. io.w[io.matched + 1] = NOT_INIT /\ Len(io.w) = 1
  BY <1>1
<1>3. [io EXCEPT !.reads = @ + 1]
        = [Waiting(<<NOT_INIT>>) EXCEPT !.reads = io.reads + 1, !.byte = io.byte]
  BY DEF OneWait, Waiting
<1>4. \A x : x = [io EXCEPT !.reads = @ + 1] =>
              /\ x = [Waiting(<<NOT_INIT>>) EXCEPT !.reads = x.reads, !.byte = x.byte]
              /\ x.byte = io.byte
  BY <1>3 DEF Waiting
<1>5. \/ MayBe(io.byte, NOT_INIT) /\ Ends(Recognised)
      \/ ReadsOn([io EXCEPT !.reads = @ + 1])
  BY <1>1, <1>2 DEF Compare
<1>6. CASE ReadsOn([io EXCEPT !.reads = @ + 1])
  <2>1. io' = OneWait' /\ io'.byte = io.byte
    BY <1>4, <1>6 DEF ReadsOn, OneWait
  <2> QED
    BY <1>6, <2>1 DEF ReadsOn
<1> QED
  BY <1>5, <1>6

LEMMA StepPlaces == Places /\ DStep => Places'
<1> SUFFICES ASSUME Places, DStep PROVE Places'
  OBVIOUS
<1> USE DEF Places, KWPlaces, InReceive
<1>1. CASE FramerStep
  BY <1>1, FramerKeeps DEF FramerStep, deviceVars
<1>2. CASE Arm
  BY <1>2 DEF Arm, LinkUnchanged, OneWait
<1>3. CASE ReadByte
  <2>1. PICK b : io' = [io EXCEPT !.byte = b]
    BY <1>3 DEF ReadByte
  <2>2. io = OneWait => io' = OneWait'
    <3> SUFFICES ASSUME io = OneWait PROVE io' = OneWait'
      OBVIOUS
    <3>1. io' = [Waiting(<<NOT_INIT>>) EXCEPT !.reads = io.reads, !.byte = b]
      BY <2>1 DEF OneWait, Waiting
    <3> QED
      BY <3>1 DEF OneWait, Waiting
  <2> QED
    BY <1>3, <2>2 DEF ReadByte, LinkUnchanged
<1>4. CASE ReadFails \/ AlarmGoesOff
  BY <1>4 DEF ReadFails, AlarmGoesOff, ReceiveFails, Ends, GivesUp, LinkUnchanged
<1>5. CASE WaitedFor
  <2>1. CASE Ends(Failure)
    BY <1>5, <2>1 DEF WaitedFor, Ends, LinkUnchanged
  <2>2. CASE Compare
    <3>1. CASE io = OneWait
      BY <1>5, <2>2, <3>1, OneWaitGoesOn DEF WaitedFor, Ends, LinkUnchanged
    <3>2. CASE file = "on"
      BY <1>5, <2>2, <3>2 DEF WaitedFor, Compare, Ends, ReadsOn, GivesUp, LinkUnchanged
    <3> QED
      BY <1>5, <3>1, <3>2 DEF WaitedFor
  <2> QED
    BY <1>5, <2>1, <2>2 DEF WaitedFor
<1>6. CASE Received
  <2>1. file = "on"
    BY <1>6 DEF Received, OneWait, Waiting
  <2> QED
    BY <1>6, <2>1 DEF Received, Ends, ReadsOn, LinkUnchanged
<1>7. CASE Select
  <2>1. PICK b \in Bytes :
          \/ Ends(Raw(Append(io.got, b)))
          \/ io' = [io EXCEPT !.got = Append(io.got, b)] /\ UNCHANGED <<pc, request, result>>
    BY <1>7 DEF Select
  <2>2. CASE Ends(Raw(Append(io.got, b)))
    BY <1>7, <2>2 DEF Select, Ends, LinkUnchanged
  <2>3. CASE io' = [io EXCEPT !.got = Append(io.got, b)] /\ UNCHANGED <<pc, request, result>>
    <3>1. io' = [Reading("receive_nb", request.len) EXCEPT !.got = Append(io.got, b)]
      BY <1>7, <2>3 DEF Select, OneRead, Reading
    <3>2. io' = OneRead'
      BY <2>3, <3>1 DEF OneRead, Reading
    <3> QED
      BY <1>7, <2>3, <3>2 DEF Select, LinkUnchanged
  <2> QED
    BY <2>1, <2>2, <2>3
<1>8. CASE SelectTimesOut
  BY <1>8 DEF SelectTimesOut, Ends
<1>9. CASE ProcessEnds
  BY <1>9 DEF ProcessEnds, Crash
<1> QED
  BY <1>1, <1>2, <1>3, <1>4, <1>5, <1>6, <1>7, <1>8, <1>9 DEF DStep

LEMMA PlacesNext == Places /\ [DNext]_allVars => Places'
<1> SUFFICES ASSUME Places, [DNext]_allVars PROVE Places'
  OBVIOUS
<1>1. CASE ProcessEnds
  BY <1>1 DEF ProcessEnds, Crash, Places, KWPlaces, InReceive
<1>2. CASE Environment
  BY <1>2 DEF Environment, Arrive, Announce, program, deviceVars, Places, OneWait, OneRead
<1>3. CASE UNCHANGED allVars
  BY <1>3 DEF allVars, vars, program, deviceVars, Places, OneWait, OneRead
<1> QED
  BY <1>1, <1>2, <1>3, AskedPlaces, StepPlaces DEF DNext

-----------------------------------------------------------------------------
\* A session that speaks KW uses nothing of framer.c's P300.
KWSend == SendSync \/ SendFails \/ FileOpened \/ \E n \in AnswerLens : SendRequest(n)

KWBegin == \/ \E n \in AnswerLens : RecvOfFile(n)
           \/ \E w \in Patterns : WaitFor(w)
           \/ RecvOfCommand

LEMMA KWSteps ==
  ASSUME Places, protocol = "KW", [DNext]_allVars
  PROVE  \/ OpenKW \/ CloseKW \/ KWSend \/ KWBegin
         \/ Arm \/ ReadByte \/ ReadFails \/ AlarmGoesOff \/ WaitedFor \/ Received
         \/ Select \/ SelectTimesOut
         \/ ProcessEnds \/ Environment \/ UNCHANGED allVars
<1>1. ~OpenP300 /\ ~P300Send
  BY DEF OpenP300, P300Send
<1>2. ~CloseP300
  BY DEF CloseP300, Places, LEADIN
<1>3. ~FramerStep
  BY FramerKeeps DEF FramerStep, Places, KWPlaces, InReceive
<1> QED
  BY <1>1, <1>2, <1>3 DEF DNext, Asks, DStep, KWSend, KWBegin

LEMMA ErrorItems ==
  /\ \A x \in {Byte(ERROR)} : x.kind = "data" \/ \E v : x = Byte(v)
  /\ \A r, x : x \in Items(r) => x.kind = "data" \/ \E v : x = Byte(v)
  /\ Byte(ERROR) # Byte(NOT_INIT) /\ Junk # Byte(NOT_INIT)
  /\ \A r, i : Data(r, i) # Byte(NOT_INIT) /\ Data(r, i).kind = "data"
  /\ ~MayBe(Byte(ERROR), NOT_INIT) /\ ~MayBe(Junk, NOT_INIT)
<1>1. /\ \A v : Byte(v).kind = "byte" /\ Byte(v).value = v
      /\ Junk.kind = "junk" /\ \A r, i : Data(r, i).kind = "data"
  BY DEF Byte, Junk, Data
<1>2. ERROR # NOT_INIT
  BY DEF ERROR, NOT_INIT
<1>3. /\ Byte(ERROR) # Byte(NOT_INIT) /\ Junk # Byte(NOT_INIT)
      /\ \A r, i : Data(r, i) # Byte(NOT_INIT)
  BY <1>1, <1>2
<1>4. ~MayBe(Byte(ERROR), NOT_INIT) /\ ~MayBe(Junk, NOT_INIT)
  BY <1>1, <1>3 DEF MayBe
<1>5. \A r, x : x \in Items(r) => x.kind = "data" \/ \E v : x = Byte(v)
  BY <1>1 DEF Items, OwnBytes
<1> QED
  BY <1>1, <1>3, <1>4, <1>5

\* What a session that speaks KW sends to a controller that does not.
LEMMA SendRefused ==
  ASSUME Places, Refused, protocol = "KW", KWSend,
         Alone, Alone', tty' = tty, mode' = "P300"
  PROVE  /\ OnLine({Byte(ERROR)})' /\ pc' \notin InReceive
         /\ file' = "no" => result' # Recognised
<1>0. tty /\ ~late'
  BY DEF Alone
<1>00. <<>> \in Seq({Byte(ERROR)}) /\ <<Byte(ERROR)>> \in Seq({Byte(ERROR)})
       /\ \A q \in Seq({Byte(ERROR)}) : <<>> \o q \in Seq({Byte(ERROR)})
  OBVIOUS
<1>1. pc' \notin InReceive
  BY DEF KWSend, SendSync, SendFails, FileOpened, SendRequest, Unframed, program, InReceive
<1>2. CASE SendSync
  <2> DEFINE out == {<<"KW", <<>>>>, <<"KW", <<Byte(NOT_INIT)>>>>}
                      \cup IF mode = "P300" THEN {<<"KW", <<Byte(INIT_OK)>>>>} ELSE {}
  <2>1. Reacts(out)
    BY <1>2 DEF SendSync
  <2>2. \A o \in out \cup {<<mode, <<>>>>} : o[1] = "KW" \/ o[2] = <<>>
    OBVIOUS
  <2> HIDE DEF out
  <2>3. PICK o \in out \cup {<<mode, <<>>>>} : mode' = o[1] /\ transit' = <<>> \o o[2]
    BY <1>0, <2>1, ReactsAlone
  <2>4. wire' = <<>>
    BY <1>0, <2>1, ReactsAlone
  <2>5. o[2] = <<>>
    BY <2>2, <2>3
  <2>6. OnLine({Byte(ERROR)})'
    BY <1>00, <2>3, <2>4, <2>5 DEF OnLine
  <2> QED
    BY <1>1, <1>2, <2>6 DEF SendSync, NoResult, Recognised
<1>3. ASSUME NEW n \in AnswerLens, SendRequest(n)
      PROVE  OnLine({Byte(ERROR)})' /\ result' # Recognised
  <2>1. PICK reply : /\ Reacts({<<mode, reply>>})
                     /\ mode = "P300" => reply = <<Byte(ERROR)>>
    BY <1>3 DEF SendRequest
  <2>3. PICK o \in {<<mode, reply>>} \cup {<<mode, <<>>>>} :
          mode' = o[1] /\ transit' = <<>> \o o[2]
    BY <1>0, <2>1, ReactsAlone
  <2>4. wire' = <<>>
    BY <1>0, <2>1, ReactsAlone
  <2>5. mode = "P300" /\ o[2] \in {reply, <<>>}
    BY <2>3
  <2>6. reply = <<Byte(ERROR)>>
    BY <2>1, <2>5
  <2>7. transit' \in Seq({Byte(ERROR)})
    BY <1>00, <2>3, <2>5, <2>6
  <2>8. OnLine({Byte(ERROR)})'
    BY <1>00, <2>4, <2>7 DEF OnLine
  <2> QED
    BY <1>3, <2>8 DEF SendRequest, Asked, Recognised
<1>4. CASE SendFails \/ FileOpened
  <2>1. wire' = <<>> /\ UNCHANGED <<transit, mode>>
    BY <1>0, <1>4 DEF SendFails, FileOpened, Flushed
  <2>2. OnLine({Byte(ERROR)})
    BY <2>1 DEF Refused
  <2>3. OnLine({Byte(ERROR)})'
    BY <1>00, <2>1, <2>2 DEF OnLine
  <2>4. file' = "no" => result' # Recognised
    BY <1>4 DEF SendFails, FileOpened, Failure, Recognised
  <2> QED
    BY <1>1, <2>3, <2>4
<1> QED
  BY <1>1, <1>2, <1>3, <1>4 DEF KWSend

\* A refusal is read as it is, and is no announcement.
LEMMA ReadRefused ==
  ASSUME Places, Refused, protocol = "KW", Alone, mode = "P300",
         NEW b \in Bytes, ReadsOne(b)
  PROVE  OnLine({Byte(ERROR)})' /\ b = Byte(ERROR)
<1> PICK S : S = {Byte(ERROR)}
  OBVIOUS
<1>1. OnLine(S)
  BY DEF Refused
<1>2. wire # <<>> /\ b = Head(wire) /\ wire' = Tail(wire) /\ UNCHANGED <<transit, mode, late>>
  BY <1>1, ReadsItem, ErrorItems
<1>3. b \in S /\ Tail(wire) \in Seq(S)
  BY <1>1, <1>2, TailItems DEF OnLine
<1> QED
  BY <1>1, <1>2, <1>3 DEF OnLine

LEMMA RefusedNext == Places /\ Refused /\ [DNext]_allVars => Refused'
<1> SUFFICES ASSUME Places, Refused, [DNext]_allVars, Alone', protocol' = "KW", mode' = "P300"
             PROVE  /\ OnLine({Byte(ERROR)})'
                    /\ file' = "no" => /\ result' # Recognised
                                       /\ pc' \in InReceive => io'.byte \in {Junk, Byte(ERROR)}
  BY DEF Refused
<1>0. tty' = tty /\ protocol = "KW" /\ Alone
  BY StaysOnDevice
<1>00. mode = "P300" =>
         /\ OnLine({Byte(ERROR)})
         /\ file = "no" => /\ result # Recognised
                           /\ pc \in InReceive => io.byte \in {Junk, Byte(ERROR)}
  BY <1>0 DEF Refused
<1>000. <<>> \in Seq({Byte(ERROR)}) /\ NoResult # Recognised /\ Failure # Recognised
        /\ Recognised # Asked /\ \A g : Raw(g) # Recognised
  BY DEF NoResult, Recognised, Failure, Raw, Asked
<1>1. CASE OpenKW \/ ProcessEnds
  <2>1. UNCHANGED <<transit, mode>> /\ wire' = <<>> /\ result' = NoResult /\ pc' \notin InReceive
    BY <1>1 DEF OpenKW, ProcessEnds, Crash, InReceive
  <2> QED
    BY <1>00, <1>000, <2>1 DEF OnLine
<1>2. CASE CloseKW
  <2>1. UNCHANGED <<transit, wire, mode, result, file>> /\ pc' \notin InReceive
    BY <1>2 DEF CloseKW, CableUnchanged, deviceVars, InReceive
  <2> QED
    BY <1>00, <2>1 DEF OnLine
<1>3. CASE KWSend
  BY <1>0, <1>3, SendRefused
<1>4. CASE KWBegin
  <2>1. UNCHANGED <<transit, wire, mode>> /\ result' = NoResult
    BY <1>4 DEF KWBegin, RecvOfFile, WaitFor, RecvOfCommand, Begins, CableUnchanged
  <2>2. io'.byte = Junk
    BY <1>4 DEF KWBegin, RecvOfFile, WaitFor, RecvOfCommand, Begins, Waiting, Reading
  <2> QED
    BY <1>00, <1>000, <2>1, <2>2 DEF OnLine
<1>5. CASE Arm
  <2>1. UNCHANGED <<transit, wire, mode, result, file, io>> /\ pc \in InReceive
    BY <1>5 DEF Arm, CableUnchanged, LinkUnchanged, InReceive
  <2> QED
    BY <1>00, <2>1 DEF OnLine
<1>6. CASE ReadByte
  <2>1. PICK b \in Bytes : ReadsOne(b) /\ io' = [io EXCEPT !.byte = b]
    BY <1>6 DEF ReadByte
  <2>2. mode = "P300" /\ UNCHANGED <<result, file>> /\ pc \in InReceive
    BY <1>6, <2>1, ReadsOneLate DEF ReadByte, LinkUnchanged, InReceive
  <2>3. OnLine({Byte(ERROR)})' /\ b = Byte(ERROR)
    BY <1>0, <2>1, <2>2, ReadRefused
  <2>4. file = "no" => io'.byte = b
    BY <2>1, <2>2 DEF Places, OneWait, Waiting
  <2> QED
    BY <1>00, <2>2, <2>3, <2>4
<1>7. CASE ReadFails \/ AlarmGoesOff \/ SelectTimesOut
  <2>1. /\ UNCHANGED <<transit, wire, mode>> /\ result' = Failure /\ pc' \notin InReceive
    BY <1>7 DEF ReadFails, AlarmGoesOff, SelectTimesOut, ReadTimesOut, ReceiveFails, Ends,
                GivesUp, CableUnchanged, InReceive
  <2> QED
    BY <1>00, <1>000, <2>1 DEF OnLine
<1>8. CASE WaitedFor
  <2>1. UNCHANGED <<transit, wire, mode, file>> /\ pc \in InReceive
    BY <1>8 DEF WaitedFor, CableUnchanged, LinkUnchanged, InReceive
  <2>2. OnLine({Byte(ERROR)})'
    BY <1>00, <2>1 DEF OnLine
  <2>3. CASE Ends(Failure)
    BY <1>000, <2>2, <2>3 DEF Ends, InReceive
  <2>4. CASE file = "no" /\ Compare
    <3>1. io = OneWait /\ io.byte \in {Junk, Byte(ERROR)}
      BY <1>00, <2>1, <2>4 DEF Places
    <3>2. ~MayBe(io.byte, NOT_INIT)
      BY <3>1, ErrorItems
    <3>3. io'.byte = io.byte /\ result' = result
      BY <2>4, <3>1, <3>2, OneWaitGoesOn
    <3> QED
      BY <1>00, <2>1, <2>2, <2>4, <3>1, <3>3
  <2> QED
    BY <1>8, <2>1, <2>2, <2>3, <2>4 DEF WaitedFor
<1>9. CASE Received
  <2>1. UNCHANGED <<transit, wire, mode, file>> /\ pc = "disarm" /\ io.fn = "receive"
    BY <1>9 DEF Received, CableUnchanged, LinkUnchanged
  <2>2. file # "no"
    BY <2>1 DEF Places, InReceive, OneWait, Waiting
  <2> QED
    BY <1>00, <2>1, <2>2 DEF OnLine
<1>10. CASE Select
  <2>1. PICK b \in Bytes : /\ ReadsOne(b)
                           /\ result' \in {result, Raw(Append(io.got, b))}
    BY <1>10 DEF Select, Ends
  <2>2. mode = "P300" /\ file' = file /\ pc' \notin InReceive
    BY <1>10, <2>1, ReadsOneLate DEF Select, Ends, LinkUnchanged, InReceive
  <2>3. OnLine({Byte(ERROR)})'
    BY <1>0, <2>1, <2>2, ReadRefused
  <2> QED
    BY <1>00, <1>000, <2>1, <2>2, <2>3
<1>11. CASE Environment
  <2>1. UNCHANGED <<pc, mode, result, file, io>>
    BY <1>11 DEF Environment, Arrive, Announce, program, deviceVars
  <2>2. Arrive
    BY <1>11, <2>1 DEF Environment, Announce
  <2>3. OnLine({Byte(ERROR)})'
    <3> PICK S : S = {Byte(ERROR)}
      OBVIOUS
    <3>1. OnLine(S)'
      BY <1>00, <2>1, <2>2, ArriveKeepsItems
    <3> QED
      BY <3>1 DEF OnLine
  <2> QED
    BY <1>00, <2>1, <2>3
<1>12. CASE UNCHANGED allVars
  BY <1>00, <1>12 DEF allVars, vars, program, deviceVars, OnLine
<1> QED
  BY <1>0, <1>1, <1>2, <1>3, <1>4, <1>5, <1>6, <1>7, <1>8, <1>9, <1>10, <1>11, <1>12, KWSteps

-----------------------------------------------------------------------------
(***************************************************************************)
(* The stream of bytes that follows a request: reader and cable leave it   *)
(* as it is, and the controller adds announcements to it.                  *)
(***************************************************************************)
\* An item that is taken off a sequence and put at the end of what stands before it.
LEMMA HeadMoves ==
  ASSUME NEW S, NEW g \in Seq(S), NEW w \in Seq(S), NEW t \in Seq(S)
  PROVE  w # <<>> => Append(g, Head(w)) \o Tail(w) \o t = g \o w \o t
<1> SUFFICES ASSUME w # <<>>
             PROVE  Append(g, Head(w)) \o Tail(w) \o t = g \o w \o t
  OBVIOUS
<1>1. /\ Head(w) \in S /\ Tail(w) \in Seq(S) /\ <<Head(w)>> \in Seq(S)
      /\ Append(g, Head(w)) = g \o <<Head(w)>> /\ w = <<Head(w)>> \o Tail(w)
  OBVIOUS
<1>2. (g \o <<Head(w)>>) \o Tail(w) = g \o (<<Head(w)>> \o Tail(w))
  BY <1>1, ConcatAssociative
<1> QED
  BY <1>1, <1>2

LEMMA ReadStream ==
  ASSUME NEW g, NEW r, Streams(g, r), NEW b \in Bytes, ReadsOne(b)
  PROVE  Streams(Append(g, b), r)'
<1> PICK S : S = Items(r)
  OBVIOUS
<1>1. g \in Seq(S) /\ OnLine(S) /\ OwnStream(g \o wire \o transit, r)
  BY DEF Streams
<1>2. wire # <<>> /\ b = Head(wire) /\ wire' = Tail(wire) /\ transit' = transit
  BY <1>1, ReadsItem, ErrorItems
<1>3. b \in S /\ OnLine(S)'
  BY <1>1, <1>2, TailItems DEF OnLine
<1>4. Append(g, b) \in Seq(S)
  BY <1>1, <1>3
<1>5. Append(g, b) \o wire' \o transit' = g \o wire \o transit
  BY <1>1, <1>2, HeadMoves DEF OnLine
<1> QED
  BY <1>1, <1>3, <1>4, <1>5 DEF Streams, OnLine

LEMMA ArriveStream ==
  ASSUME NEW g, NEW r, Streams(g, r), Arrive, pc # "closed"
  PROVE  Streams(g, r)'
<1> PICK S : S = Items(r)
  OBVIOUS
<1>1. g \in Seq(S) /\ OnLine(S) /\ OwnStream(g \o wire \o transit, r)
  BY DEF Streams
<1>2. transit # <<>> /\ transit' = Tail(transit) /\ wire' = Append(wire, Head(transit))
  BY DEF Arrive
<1>3. OnLine(S)'
  BY <1>1, ArriveKeepsItems
<1>4. g \o wire' \o transit' = g \o wire \o transit
  <2> PICK w, t : w = wire /\ t = transit
    OBVIOUS
  <2> PICK h, u : h = <<Head(t)>> /\ u = Tail(t)
    OBVIOUS
  <2>1. g \in Seq(S) /\ w \in Seq(S) /\ t \in Seq(S) /\ t # <<>>
    BY <1>1, <1>2 DEF OnLine
  <2>2. /\ h \in Seq(S) /\ u \in Seq(S) /\ g \o w \in Seq(S)
        /\ Append(w, Head(t)) = w \o h /\ t = h \o u
    BY <2>1
  <2>3. g \o (w \o h) = (g \o w) \o h
    BY SMTT(30), <2>1, <2>2, ConcatAssociative
  <2> PICK q : q = g \o w
    OBVIOUS
  <2>4. q \in Seq(S)
    BY <2>2
  <2>5. (q \o h) \o u = q \o (h \o u)
    BY SMTT(30), <2>2, <2>4, ConcatAssociative
  <2> QED
    BY <1>2, <2>2, <2>3, <2>5
<1> QED
  BY <1>1, <1>3, <1>4 DEF Streams, OnLine

\* An announcement behind the stream leaves it what it is.
LEMMA AnnouncedStream ==
  ASSUME NEW r, NEW s, OwnStream(s, r)
  PROVE  OwnStream(Append(s, Byte(NOT_INIT)), r)
<1> PICK a : a = Append(s, Byte(NOT_INIT))
  OBVIOUS
<1> PICK ni : ni = Byte(NOT_INIT) /\ ni.kind # "data"
  BY DEF Byte
<1>1. /\ s \in Seq(OwnBytes(r) \cup {ni}) /\ a \in Seq(OwnBytes(r) \cup {ni})
      /\ DOMAIN a = 1..(Len(s) + 1) /\ DOMAIN s = 1..Len(s) /\ Len(s) \in Nat
      /\ a[Len(s) + 1] = ni
      /\ \A i \in 1..Len(s) : a[i] = s[i]
  BY DEF OwnStream
<1>2. ASSUME NEW i \in DOMAIN a, NEW j \in DOMAIN a, i < j, a[j].kind = "data"
      PROVE  a[i].kind = "data" /\ a[i].at < a[j].at
  <2>1. j # Len(s) + 1
    BY <1>1, <1>2
  <2>2. i \in 1..Len(s) /\ j \in 1..Len(s)
    BY <1>1, <1>2, <2>1
  <2> QED
    BY <1>1, <1>2, <2>2 DEF OwnStream
<1> QED
  BY <1>1, <1>2 DEF OwnStream

LEMMA AnnounceStream ==
  ASSUME NEW g, NEW r, Streams(g, r), Announce
  PROVE  Streams(g, r)'
<1> PICK S : S = Items(r)
  OBVIOUS
<1> PICK ni : ni = Byte(NOT_INIT)
  OBVIOUS
<1>1. /\ g \in Seq(S) /\ wire \in Seq(S) /\ transit \in Seq(S) /\ ni \in S
      /\ OwnStream(g \o wire \o transit, r)
  BY DEF Streams, OnLine, Items
<1>2. wire' = wire /\ transit' = Append(transit, ni)
  BY DEF Announce
<1>3. transit' \in Seq(S)
  BY <1>1, <1>2
<1>4. g \o wire' \o transit' = Append(g \o wire \o transit, ni)
  BY <1>1, <1>2
<1>5. OwnStream(g \o wire' \o transit', r)
  BY <1>1, <1>4, AnnouncedStream
<1> QED
  BY <1>1, <1>2, <1>3, <1>5 DEF Streams, OnLine

\* What the line leaves of an answer.
LEMMA PartlyStreams ==
  ASSUME NEW r, r.len \in Nat, NEW s \in Partly(r)
  PROVE  s \in Seq(Items(r)) /\ OwnStream(s, r)
<1>1. PICK k \in 0..r.len : s \in [1..k -> OwnBytes(r)]
  BY DEF Partly
<1>2. s \in Seq(OwnBytes(r)) /\ s \in Seq(OwnBytes(r) \cup {Byte(NOT_INIT)})
  BY <1>1
<1>3. \A x \in OwnBytes(r) : x.kind = "data"
  BY DEF OwnBytes, Data
<1>4. \A i \in DOMAIN s : s[i].kind = "data"
  BY <1>2, <1>3
<1>5. \A i, j \in DOMAIN s : i < j => s[i].at < s[j].at
  BY DEF Partly
<1> QED
  BY <1>2, <1>4, <1>5 DEF OwnStream, Items

\* A command's request meets an empty line, and a controller that has heard SEND 04.
LEMMA RequestStream ==
  ASSUME Places, Refused, protocol = "KW", NEW n \in AnswerLens, SendRequest(n), file = "no",
         Alone, Alone', UNCHANGED tty, NEW r, r = request'
  PROVE  Streams(<<>>, r)'
<1> PICK S : S = Items(r)
  OBVIOUS
<1>1. mode # "P300"
  BY DEF Refused, SendRequest
<1>2. PICK answer \in Partly(r) : Reacts({<<mode, answer>>})
  BY <1>1 DEF SendRequest
<1>3. tty /\ ~late'
  BY DEF Alone
<1>4. PICK o \in {<<mode, answer>>} \cup {<<mode, <<>>>>} : transit' = <<>> \o o[2]
  BY <1>2, <1>3, ReactsAlone
<1>5. wire' = <<>>
  BY <1>2, <1>3, ReactsAlone
<1>6. <<>> \in Seq(S) /\ OwnStream(<<>>, r)
  BY DEF OwnStream
<1>7. answer \in Seq(S) /\ OwnStream(answer, r)
  <2>1. r.len \in Nat
    BY AnswerLensAssumption DEF SendRequest
  <2> QED
    BY <2>1, PartlyStreams
<1>8. transit' \in Seq(S) /\ OwnStream(transit', r)
  <2>1. o[2] \in {<<>>, answer} /\ transit' = o[2]
    <3>1. CASE o = <<mode, answer>>
      BY <1>4, <1>7, <3>1
    <3>2. CASE o = <<mode, <<>>>>
      BY <1>4, <3>2
    <3> QED
      BY <3>1, <3>2
  <2> QED
    BY <1>6, <1>7, <2>1
<1>9. <<>> \o wire' \o transit' = transit'
  BY <1>5, <1>8
<1> QED
  BY <1>5, <1>6, <1>8, <1>9 DEF Streams, OnLine

\* Whatever leaves answer and line alone leaves the stream alone.
LEMMA StreamUnchanged ==
  ASSUME NEW g, NEW r, Streams(g, r), UNCHANGED <<wire, transit>>
  PROVE  Streams(g, r)'
BY DEF Streams, OnLine

LEMMA StreamNext == Places /\ Refused /\ Stream /\ [DNext]_allVars => Stream'
<1> SUFFICES ASSUME Places, Refused, Stream, [DNext]_allVars, Alone', Answering'
             PROVE  Streams(Got, request)'
  BY DEF Stream
<1>0. tty' = tty /\ Alone /\ protocol' = protocol
  BY StaysOnDevice
<1>00. protocol = "KW"
  BY <1>0, PlacesNext DEF Answering, Places
<1>000. Answering => Streams(Got, request)
  BY <1>0 DEF Stream
<1> PICK g, r : g = Got' /\ r = request'
  OBVIOUS
<1> SUFFICES Streams(g, r)'
  BY DEF Streams, OnLine
<1>1. CASE \E n \in AnswerLens : SendRequest(n)
  <2>1. PICK n \in AnswerLens : SendRequest(n)
    BY <1>1
  <2>2. file = "no" /\ g = <<>>
    BY <2>1 DEF SendRequest, Unframed, Answering, LinkUnchanged, Got, Asked
  <2> QED
    BY <1>0, <1>00, <2>1, <2>2, RequestStream
<1>2. CASE RecvOfCommand
  <2>1. Answering /\ Got = <<>> /\ g = <<>>
    BY <1>00, <1>2 DEF RecvOfCommand, Begins, Unframed, Answering, Got, Reading, Asked
  <2>2. UNCHANGED <<wire, transit, request>>
    BY <1>2 DEF RecvOfCommand, Begins, CableUnchanged
  <2> QED
    BY <1>000, <2>1, <2>2, StreamUnchanged
<1>3. CASE Select
  <2>1. PICK b \in Bytes :
          /\ ReadsOne(b) /\ request' = request
          /\ \/ pc' = "ready" /\ result' = Raw(Append(io.got, b))
             \/ pc' = pc /\ io' = [io EXCEPT !.got = Append(io.got, b)]
    BY <1>3 DEF Select, Ends
  <2>2. Answering /\ Got = io.got /\ io = OneRead /\ pc = "select"
    BY <1>3 DEF Select, Answering, Got, Places
  <2>3. g = Append(io.got, b)
    <3>1. CASE pc' = "ready" /\ result' = Raw(Append(io.got, b))
      BY <3>1 DEF Got, Raw
    <3>2. CASE pc' = pc /\ io' = [io EXCEPT !.got = Append(io.got, b)]
      BY <2>2, <3>2 DEF Got, OneRead, Reading
    <3> QED
      BY <2>1, <3>1, <3>2
  <2> PICK h : h = io.got
    OBVIOUS
  <2>4. Streams(h, r)
    BY <1>000, <2>1, <2>2
  <2> QED
    BY <2>1, <2>3, <2>4, ReadStream
<1>4. CASE Environment
  <2>1. UNCHANGED <<pc, request, result, protocol, file, io>>
    BY <1>4 DEF Environment, Arrive, Announce, program, deviceVars
  <2>2. Answering /\ Got = g /\ pc # "closed"
    BY <2>1 DEF Answering, Got
  <2>3. Streams(g, r)
    BY <1>000, <2>1, <2>2
  <2> QED
    BY <1>4, <2>2, <2>3, ArriveStream, AnnounceStream DEF Environment
<1>5. CASE UNCHANGED allVars
  <2>1. UNCHANGED <<pc, request, result, protocol, file, io, wire, transit>>
    BY <1>5 DEF allVars, vars, program, deviceVars
  <2>2. Answering /\ Got = g
    BY <2>1 DEF Answering, Got
  <2>3. Streams(g, r) /\ UNCHANGED <<wire, transit>>
    BY <1>000, <2>1, <2>2
  <2> QED
    BY <2>3 DEF Streams, OnLine
<1>6. CASE OpenKW \/ CloseKW \/ ProcessEnds
  BY <1>6 DEF OpenKW, CloseKW, ProcessEnds, Crash, NoResult, Asked, Answering
<1>7. CASE SendSync \/ SendFails \/ FileOpened
  BY <1>7 DEF SendSync, SendFails, FileOpened, Unframed, program, NoResult, Failure, Asked, Answering
<1>8. CASE (\E n \in AnswerLens : RecvOfFile(n)) \/ \E w \in Patterns : WaitFor(w)
  BY <1>8 DEF RecvOfFile, WaitFor, Begins, Answering
<1>9. CASE Arm \/ ReadByte
  BY <1>9 DEF Arm, ReadByte, Answering
<1>10. CASE ReadFails \/ AlarmGoesOff \/ SelectTimesOut
  BY <1>10 DEF ReadFails, AlarmGoesOff, SelectTimesOut, ReceiveFails, Ends, GivesUp, Failure,
               Asked, Answering
<1>11. CASE WaitedFor
  BY <1>11 DEF WaitedFor, Compare, Ends, ReadsOn, GivesUp, Failure, Recognised, Asked, Answering
<1>12. CASE Received
  <2>1. file = "on"
    BY <1>12 DEF Received, Places, InReceive, OneWait, Waiting
  <2> QED
    BY <1>12, <2>1 DEF Received, Ends, ReadsOn, LinkUnchanged, Answering
<1> QED
  BY <1>00, <1>1, <1>2, <1>3, <1>4, <1>5, <1>6, <1>7, <1>8, <1>9, <1>10, <1>11, <1>12, KWSteps
     DEF KWSend, KWBegin

LEMMA RawIsKWNext == Places /\ RawIsKW /\ [DNext]_allVars => RawIsKW'
<1> SUFFICES ASSUME Places, RawIsKW, [DNext]_allVars, file' = "no", result'.kind = "raw"
             PROVE  protocol' = "KW"
  BY DEF RawIsKW
<1>0. protocol' = protocol
  BY StaysOnDevice
<1>1. CASE result' = result /\ file' = file
  BY <1>0, <1>1 DEF RawIsKW
<1>2. CASE Select
  BY <1>0, <1>2 DEF Select, Places
<1>3. CASE \/ OpenP300 \/ OpenKW \/ SendSync \/ SendFails \/ P300Send
           \/ (\E n \in AnswerLens : SendRequest(n)) \/ KWBegin
           \/ ReadFails \/ AlarmGoesOff \/ SelectTimesOut \/ ProcessEnds
  <2>1. result' \in {NoResult, Failure, Asked}
    <3>1. CASE OpenP300 \/ OpenKW \/ ProcessEnds
      BY <3>1 DEF OpenP300, framer_openDevice, OpenKW, ProcessEnds, Crash
    <3>2. CASE SendSync \/ SendFails \/ P300Send \/ \E n \in AnswerLens : SendRequest(n)
      BY <3>2 DEF SendSync, SendFails, P300Send, Send, SendRequest
    <3>3. CASE KWBegin
      BY <3>3 DEF KWBegin, RecvOfFile, WaitFor, RecvOfCommand, Begins
    <3>4. CASE ReadFails \/ AlarmGoesOff \/ SelectTimesOut
      BY <3>4 DEF ReadFails, AlarmGoesOff, SelectTimesOut, ReceiveFails, Ends, GivesUp
    <3> QED
      BY <1>3, <3>1, <3>2, <3>3, <3>4
  <2> QED
    BY <2>1 DEF NoResult, Failure, Asked
<1>4. CASE FileOpened
  BY <1>4 DEF FileOpened
<1>5. CASE CloseP300 \/ CloseKW \/ Arm \/ ReadByte
  BY <1>1, <1>5 DEF CloseP300, framer_closeDevice, CloseKW, Arm, ReadByte, LinkUnchanged, deviceVars
<1>6. CASE FramerStep
  BY <1>1, <1>6, FramerKeeps DEF FramerStep, deviceVars
<1>7. CASE WaitedFor
  BY <1>1, <1>7 DEF WaitedFor, Compare, Ends, ReadsOn, GivesUp, LinkUnchanged, Failure, Recognised
<1>8. CASE Received
  <2>1. file = "on"
    BY <1>8 DEF Received, Places, InReceive, OneWait, Waiting
  <2> QED
    BY <1>8, <2>1 DEF Received, LinkUnchanged
<1>9. CASE Environment \/ UNCHANGED allVars
  BY <1>1, <1>9 DEF Environment, Arrive, Announce, program, deviceVars, allVars, vars
<1> QED
  BY <1>2, <1>3, <1>4, <1>5, <1>6, <1>7, <1>8, <1>9 DEF DNext, Asks, DStep, KWBegin

LEMMA DeviceInit == DInit => DInv
<1> SUFFICES ASSUME DInit PROVE DInv
  OBVIOUS
<1>1. pc = "closed" /\ pid = 0 /\ wire = <<>> /\ transit = <<>> /\ result = NoResult
  BY DEF DInit, Init
<1>2. Places /\ Stream
  BY <1>1 DEF Places, KWPlaces, InReceive, Stream, Answering
<1>3. Refused
  BY <1>1 DEF Refused, OnLine, NoResult, Recognised, InReceive
<1>4. RawIsKW
  BY <1>1 DEF RawIsKW, NoResult
<1> QED
  BY <1>2, <1>3, <1>4 DEF DInv

\* What is read for a KW command and what is on the line is one stream, of the command's
\* own bytes and then of announcements, after a controller that has not heard the SEND 04
\* has refused the rest (DInv).
THEOREM DeviceInvariant == DSpec => []DInv
<1>1. DInv /\ [DNext]_allVars => DInv'
  BY PlacesNext, RefusedNext, StreamNext, RawIsKWNext DEF DInv
<1> QED
  BY <1>1, DeviceInit, PTL DEF DSpec

\* On a tty that may lose any byte of an answer, what a KW command takes for its answer
\* is bytes of that answer, in their order, and then announcements, unless something was
\* sent with bytes under way (receive_nb(), my_send()).
THEOREM UnframedAnswersAreOwn == DSpec => []KWAnswerIsOwn
<1>1. DInv => KWAnswerIsOwn
  <2> SUFFICES ASSUME DInv, tty, ~late, file = "no", pc = "ready", result.kind = "raw"
               PROVE  OwnStream(result.got \o wire \o transit, request)
    BY DEF KWAnswerIsOwn
  <2>1. Alone /\ Answering /\ Got = result.got
    BY DEF DInv, RawIsKW, Alone, Answering, Got
  <2> QED
    BY <2>1 DEF DInv, Stream, Streams
<1> QED
  BY <1>1, DeviceInvariant, PTL
=============================================================================
