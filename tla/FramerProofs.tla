---------------------------- MODULE FramerProofs ----------------------------
(***************************************************************************)
(* Theorems about Framer for every set of addresses and lengths, any tty   *)
(* or network device, any number of telegrams and of bytes under way: what *)
(* framer_receive() hands on belongs to the address it was asked for, on a *)
(* tty also to the very telegram, and the controller's mode is the one the *)
(* program believes in.                                                    *)
(***************************************************************************)
EXTENDS Framer, TLAPS

(***************************************************************************)
(* The inductive invariant.  That the frame handed on is for the requested *)
(* address rests on framer_current_addr, against which it is compared: from*)
(* the acknowledgement of a telegram to the end of its answer it is the    *)
(* address asked for, and a new request is only made when no old result    *)
(* can be taken for its own.                                               *)
(***************************************************************************)
AddrAwaited == pc = "receive" => addr = request.addr

FInv == AddrIdle /\ AddrAwaited /\ OnlyOwnAnswers /\ IntactAnswer

-----------------------------------------------------------------------------
LEMMA FramerInit == Init => FInv
BY DEF Init, NoResult, FInv, AddrIdle, AddrAwaited, OnlyOwnAnswers,
       IntactAnswer, HasFrame

\* A step that leaves the result alone, or clears it, and ends up neither with
\* an open device nor within framer_receive().
LEMMA LinkStep ==
  ASSUME FInv, pc' \notin {"ready", "ack", "receive"},
         request' = request, result' \in {result, NoResult}
  PROVE  FInv'
<1>1. AddrIdle' /\ AddrAwaited'
  BY DEF AddrIdle, AddrAwaited
<1>2. CASE result' = result
  BY <1>1, <1>2 DEF FInv, OnlyOwnAnswers, IntactAnswer, HasFrame
<1>3. CASE result' = NoResult
  BY <1>1, <1>3 DEF FInv, OnlyOwnAnswers, IntactAnswer, HasFrame, NoResult
<1> QED
  BY <1>2, <1>3

\* The checks let through only an intact frame for the awaited address.
LEMMA VerdictSound ==
  ASSUME NEW f, LET v == Verdict(f) IN v.kind \in {"data", "written"}
  PROVE  /\ Verdict(f).frame = f
         /\ f.of.addr = addr
         /\ f.type # ERROR_REPORT
         /\ f.cut => f.of.addr = TimerAddr
         /\ f.bad => f.cut
<1> DEFINE rejected == \/ f.cut /\ f.of.addr # TimerAddr
                       \/ f.bad /\ ~f.cut
                       \/ f.type = ERROR_REPORT
                       \/ f.of.addr # addr
<1>1. rejected => Verdict(f) = Failure
  BY DEF Verdict
<1>2. ~rejected
  BY <1>1 DEF Failure
<1>3. \/ Verdict(f) = Failure
      \/ Verdict(f).frame = f
  BY <1>2 DEF Verdict
<1> QED
  BY <1>2, <1>3 DEF Failure

LEMMA VerdictKind ==
  ASSUME NEW f
  PROVE  Verdict(f).kind \in {"error", "data", "written"}
BY DEF Verdict, Failure

\* framer_receive() comes back with something that is no frame.
LEMMA ReturnsPlain ==
  ASSUME FInv, NEW res, Returns(res), res.kind \in {"error", "strange", "status"},
         res.kind = "status" => IsStatus(request.addr)
  PROVE  FInv'
BY DEF Returns, FInv, AddrIdle, AddrAwaited, OnlyOwnAnswers, IntactAnswer,
       HasFrame

LEMMA FrameStep == FInv /\ ReceiveFrame => FInv'
<1> SUFFICES ASSUME FInv, ReceiveFrame PROVE FInv'
  OBVIOUS
<1> DEFINE f == Head(wire)
<1>1. \/ Returns(Verdict(f))
      \/ Returns(Failure)
  BY DEF ReceiveFrame
<1>2. CASE Returns(Failure)
  BY <1>2, ReturnsPlain DEF Failure
<1>3. CASE Returns(Verdict(f))
  <2> HIDE DEF f
  <2>1. CASE Verdict(f).kind = "error"
    BY <1>3, <2>1, ReturnsPlain
  <2>2. CASE Verdict(f).kind \in {"data", "written"}
    <3>1. result' = Verdict(f) /\ request' = request /\ pc' = "ready" /\ addr' = NO_ADDR
      BY <1>3 DEF Returns
    <3>2. addr = request.addr
      BY DEF FInv, AddrAwaited, ReceiveFrame
    <3>3. /\ Verdict(f).frame = f
          /\ f.of.addr = addr
          /\ f.type # ERROR_REPORT
          /\ f.cut => f.of.addr = TimerAddr
          /\ f.bad => f.cut
      BY <2>2, VerdictSound
    <3>4. OnlyOwnAnswers'
      BY <2>2, <3>1, <3>2, <3>3 DEF OnlyOwnAnswers
    <3>5. IntactAnswer'
      BY <3>1, <3>2, <3>3 DEF IntactAnswer
    <3> QED
      BY <3>1, <3>4, <3>5 DEF FInv, AddrIdle, AddrAwaited
  <2> QED
    BY <2>1, <2>2, VerdictKind
<1> QED
  BY <1>1, <1>2, <1>3

LEMMA ReceiveStep == FInv /\ Receive => FInv'
<1> SUFFICES ASSUME FInv, Receive PROVE FInv'
  OBVIOUS
<1>1. CASE ReceivePreset
  BY <1>1, ReturnsPlain DEF ReceivePreset, PresetStatus, FInv, AddrAwaited
<1>2. CASE ReceiveTimesOut
  BY <1>2, ReturnsPlain DEF ReceiveTimesOut, Failure
<1>3. CASE ReceiveFrame
  BY <1>3, FrameStep
<1>4. CASE ReceiveShortFrame
  <2>1. Returns(Strange) \/ Returns(Failure)
    BY <1>4 DEF ReceiveShortFrame
  <2> QED
    BY <2>1, ReturnsPlain DEF Strange, Failure
<1>5. CASE ReceiveMisaligned
  <2>1. Returns(Strange) \/ Returns(Failure)
    BY <1>5 DEF ReceiveMisaligned
  <2> QED
    BY <2>1, ReturnsPlain DEF Strange, Failure
<1> QED
  BY <1>1, <1>2, <1>3, <1>4, <1>5 DEF Receive

-----------------------------------------------------------------------------
\* A telegram goes out with the old result cleared.
LEMMA SendStep ==
  ASSUME FInv, NEW a, NEW fct, NEW n, Send(a, fct, n)
  PROVE  FInv'
BY DEF Send, NoResult, FInv, AddrIdle, AddrAwaited, OnlyOwnAnswers,
       IntactAnswer, HasFrame

LEMMA AckStep == FInv /\ (SendAnswered \/ SendTimesOut) => FInv'
<1> SUFFICES ASSUME FInv, SendAnswered \/ SendTimesOut PROVE FInv'
  OBVIOUS
<1>1. pc = "ack" /\ addr = NO_ADDR /\ request' = request
  BY DEF SendAnswered, SendTimesOut, FInv, AddrIdle
<1>2. \/ pc' = "receive" /\ addr' = request.addr /\ result' = result
      \/ pc' = "ready" /\ addr' = addr /\ result' = [kind |-> "error"]
  BY DEF SendAnswered, SendTimesOut, Fails
<1>3. CASE pc' = "receive" /\ addr' = request.addr /\ result' = result
  BY <1>1, <1>3 DEF FInv, AddrIdle, AddrAwaited, OnlyOwnAnswers, IntactAnswer, HasFrame
<1>4. CASE pc' = "ready" /\ addr' = addr /\ result' = [kind |-> "error"]
  BY <1>1, <1>4 DEF FInv, AddrIdle, AddrAwaited, OnlyOwnAnswers, IntactAnswer, HasFrame
<1> QED
  BY <1>2, <1>3, <1>4

\* Opening ends with an idle address or with a closed device.
LEMMA OpenStep == FInv /\ EnableAnswered => FInv'
<1> SUFFICES ASSUME FInv, EnableAnswered PROVE FInv'
  OBVIOUS
<1>1. request' = request /\ result' = result
  BY DEF EnableAnswered, Closed
<1>2. \/ pc' = "ready" /\ addr' = NO_ADDR
      \/ pc' \in {"reset", "closed"}
  BY DEF EnableAnswered, Closed
<1>3. CASE pc' = "ready" /\ addr' = NO_ADDR
  BY <1>1, <1>3 DEF FInv, AddrIdle, AddrAwaited, OnlyOwnAnswers, IntactAnswer, HasFrame
<1>4. CASE pc' \in {"reset", "closed"}
  BY <1>1, <1>4, LinkStep
<1> QED
  BY <1>2, <1>3, <1>4

LEMMA FramerNext == FInv /\ [Next]_vars => FInv'
<1> SUFFICES ASSUME FInv, [Next]_vars PROVE FInv'
  OBVIOUS
<1>1. CASE framer_openDevice \/ framer_closeDevice \/ Crash
  BY <1>1, LinkStep DEF framer_openDevice, framer_closeDevice, Crash
<1>2. CASE \E a \in Addr, fct \in {READ_DATA, WRITE_DATA}, n \in DataLens : Send(a, fct, n)
  BY <1>2, SendStep
<1>3. CASE SendReset \/ SendEnable
  BY <1>3, LinkStep DEF SendReset, SendEnable
<1>4. CASE ResetsExhausted \/ LinkTimesOut
  BY <1>4, LinkStep DEF ResetsExhausted, LinkTimesOut, Closed
<1>5. CASE ResetAnswered
  <2>1. pc' \in {"reset", "closed", "enable"} /\ request' = request /\ result' = result
    BY <1>5 DEF ResetAnswered, Closed
  <2> QED
    BY <2>1, LinkStep
<1>6. CASE EnableAnswered
  BY <1>6, OpenStep
<1>7. CASE SendAnswered \/ SendTimesOut
  BY <1>7, AckStep
<1>8. CASE Receive
  BY <1>8, ReceiveStep
<1>9. CASE Arrive \/ Announce \/ UNCHANGED vars
  BY <1>9 DEF Arrive, Announce, vars, program, FInv, AddrIdle, AddrAwaited,
              OnlyOwnAnswers, IntactAnswer, HasFrame
<1> QED
  BY <1>1, <1>2, <1>3, <1>4, <1>5, <1>6, <1>7, <1>8, <1>9 DEF Next, Step

\* The invariant holds in every state of the specification.
THEOREM FramerInvariant == Spec => []FInv
BY FramerInit, FramerNext, PTL DEF Spec

\* What a command gets is the answer for the address it asked for, and a link
\* status only for an address that looks like one (framer_receive()).
THEOREM AnswersAreOwn == Spec => []OnlyOwnAnswers
<1>1. FInv => OnlyOwnAnswers
  BY DEF FInv
<1> QED
  BY <1>1, FramerInvariant, PTL

\* Data are handed on from intact frames only, save for the timer address.
THEOREM AnswersAreIntact == Spec => []IntactAnswer
<1>1. FInv => IntactAnswer
  BY DEF FInv
<1> QED
  BY <1>1, FramerInvariant, PTL

\* Outside an exchange framer_current_addr is idle (framer_set_actaddr()).
THEOREM AddressIdle == Spec => []AddrIdle
<1>1. FInv => AddrIdle
  BY DEF FInv
<1> QED
  BY <1>1, FramerInvariant, PTL
-----------------------------------------------------------------------------
(***************************************************************************)
(* The line.  Reading takes items away, may leave Junk of what it took     *)
(* apart, and never puts anything else there: whatever set the items are   *)
(* in, they stay in it.                                                    *)
(***************************************************************************)
OnLine(S) == wire \in Seq(S) /\ transit \in Seq(S)

LEMMA TailItems ==
  ASSUME NEW S, NEW w \in Seq(S), w # <<>>
  PROVE  Head(w) \in S /\ Tail(w) \in Seq(S) /\ Len(Tail(w)) = Len(w) - 1 /\ Len(w) \in Nat \ {0}
OBVIOUS

LEMMA PrefixItem ==
  ASSUME NEW S, NEW w \in Seq(S), NEW x \in S
  PROVE  <<x>> \o w \in Seq(S) /\ Len(<<x>> \o w) = Len(w) + 1
OBVIOUS

LEMMA ReadKeepsItems ==
  ASSUME NEW S, Junk \in S, OnLine(S), NEW v, ReadsByte(v)
  PROVE  /\ OnLine(S)'
         /\ Len(transit') + Len(wire') <= Len(transit) + Len(wire)
         /\ mode' = mode /\ late' = late
<1> DEFINE h == Head(wire)
<1>0. wire # <<>> /\ mode' = mode /\ late' = late
  BY DEF ReadsByte
<1>1. /\ h \in S /\ Tail(wire) \in Seq(S) /\ Len(Tail(wire)) = Len(wire) - 1
      /\ Len(wire) \in Nat /\ Len(transit) \in Nat
  BY <1>0, TailItems DEF OnLine
<1>2. /\ <<Junk>> \o Tail(wire) \in Seq(S) /\ Len(<<Junk>> \o Tail(wire)) = Len(wire)
      /\ <<Junk>> \o transit \in Seq(S) /\ Len(<<Junk>> \o transit) = Len(transit) + 1
  BY <1>1, PrefixItem DEF OnLine
<1>3. \/ wire' = Tail(wire) /\ transit' = transit
      \/ wire' = <<Junk>> \o Tail(wire) /\ transit' = transit
      \/ wire' = <<>> /\ transit' = <<Junk>> \o transit /\ Len(wire) = 1
      \/ wire' = wire /\ transit' = transit
  BY DEF ReadsByte
<1> HIDE DEF h
<1>4. CASE wire' = Tail(wire) /\ transit' = transit
  BY <1>0, <1>1, <1>4 DEF OnLine
<1>5. CASE wire' = <<Junk>> \o Tail(wire) /\ transit' = transit
  BY <1>0, <1>1, <1>2, <1>5 DEF OnLine
<1>6. CASE wire' = <<>> /\ transit' = <<Junk>> \o transit /\ Len(wire) = 1
  <2>1. wire' \in Seq(S) /\ Len(wire') = 0
    BY <1>6
  <2> QED
    BY <1>0, <1>1, <1>2, <1>6, <2>1 DEF OnLine
<1>7. CASE wire' = wire /\ transit' = transit
  BY <1>0, <1>1, <1>7 DEF OnLine
<1> QED
  BY <1>3, <1>4, <1>5, <1>6, <1>7

\* framer_receive() takes items off the wire and leaves the rest alone.
LEMMA ReceiveKeepsItems ==
  ASSUME NEW S, Junk \in S, OnLine(S), Receive
  PROVE  /\ OnLine(S)'
         /\ Len(transit') + Len(wire') <= Len(transit) + Len(wire)
         /\ mode' = mode /\ late' = late
<1>0. Len(wire) \in Nat /\ Len(transit) \in Nat /\ <<>> \in Seq(S) /\ Len(<<>>) = 0
  BY DEF OnLine
<1>1. CASE ReceivePreset \/ ReceiveTimesOut
  BY <1>0, <1>1 DEF ReceivePreset, ReceiveTimesOut, ReadTimesOut, OnLine
<1>2. CASE ReceiveFrame
  BY <1>0, <1>2, TailItems DEF ReceiveFrame, OnLine
<1>3. CASE ReceiveShortFrame
  <2>1. wire # <<>> /\ mode' = mode /\ late' = late /\ transit' = transit
    BY <1>3 DEF ReceiveShortFrame
  <2>2. \/ wire' = Tail(wire)
        \/ wire' = <<Junk>> \o Tail(wire)
        \/ wire' = <<>>
        \/ Len(wire) > 1 /\ wire' = Tail(Tail(wire))
        \/ Len(wire) > 1 /\ wire' = <<Junk>> \o Tail(Tail(wire))
    BY <1>3 DEF ReceiveShortFrame
  <2>3. Tail(wire) \in Seq(S) /\ Len(Tail(wire)) = Len(wire) - 1
    BY <2>1, TailItems DEF OnLine
  <2>4. <<Junk>> \o Tail(wire) \in Seq(S)
        /\ Len(<<Junk>> \o Tail(wire)) = Len(Tail(wire)) + 1
    BY <2>3, PrefixItem
  <2>5. CASE Len(wire) > 1 /\ wire' \in {Tail(Tail(wire)), <<Junk>> \o Tail(Tail(wire))}
    <3> DEFINE t == Tail(wire)
    <3>0. Len(t) > 0 /\ t \in Seq(S)
      BY <1>0, <2>3, <2>5
    <3> HIDE DEF t
    <3>1. t # <<>>
      BY <3>0
    <3>2. Tail(t) \in Seq(S) /\ Len(Tail(t)) = Len(t) - 1
      BY <3>0, <3>1, TailItems
    <3>3. <<Junk>> \o Tail(t) \in Seq(S) /\ Len(<<Junk>> \o Tail(t)) = Len(Tail(t)) + 1
      BY <3>2, PrefixItem
    <3>4. wire' \in {Tail(t), <<Junk>> \o Tail(t)}
      BY <2>5 DEF t
    <3>5. Len(t) = Len(wire) - 1 /\ Len(t) \in Nat
      BY <2>3, <3>0 DEF t
    <3>6. wire' \in Seq(S) /\ Len(wire') <= Len(t)
      <4>1. CASE wire' = Tail(t)
        BY <3>2, <3>5, <4>1
      <4>2. CASE wire' = <<Junk>> \o Tail(t)
        BY <3>2, <3>3, <3>5, <4>2
      <4> QED
        BY <3>4, <4>1, <4>2
    <3>7. Len(wire') <= Len(wire) /\ Len(wire') \in Nat
      BY <1>0, <3>5, <3>6
    <3> QED
      BY <1>0, <2>1, <3>6, <3>7 DEF OnLine
  <2>6. CASE wire' \in {Tail(wire), <<Junk>> \o Tail(wire), <<>>}
    <3>1. wire' \in Seq(S) /\ Len(wire') \in Nat /\ Len(wire') <= Len(wire)
      <4>1. CASE wire' = Tail(wire)
        BY <1>0, <2>3, <4>1
      <4>2. CASE wire' = <<Junk>> \o Tail(wire)
        BY <1>0, <2>3, <2>4, <4>2
      <4>3. CASE wire' = <<>>
        BY <1>0, <4>3
      <4> QED
        BY <2>6, <4>1, <4>2, <4>3
    <3> QED
      BY <1>0, <2>1, <3>1 DEF OnLine
  <2> QED
    BY <2>2, <2>5, <2>6
<1>4. CASE ReceiveMisaligned
  <2>1. mode' = mode /\ late' = late /\ transit' = transit
    BY <1>4 DEF ReceiveMisaligned
  <2>2. PICK i \in 1..Len(wire) :
          wire' \in {SubSeq(wire, i + 1, Len(wire)), <<Junk>> \o SubSeq(wire, i + 1, Len(wire))}
    BY <1>4 DEF ReceiveMisaligned
  <2> DEFINE rest == SubSeq(wire, i + 1, Len(wire))
  <2>3. rest \in Seq(S) /\ Len(rest) <= Len(wire) - 1 /\ Len(rest) \in Nat
    BY <1>0 DEF OnLine
  <2>4. <<Junk>> \o rest \in Seq(S) /\ Len(<<Junk>> \o rest) = Len(rest) + 1
    BY <2>3, PrefixItem
  <2>5. wire' \in {rest, <<Junk>> \o rest}
    BY <2>2
  <2> HIDE DEF rest
  <2>6. wire' \in Seq(S) /\ Len(wire') \in Nat /\ Len(wire') <= Len(wire)
    <3>1. CASE wire' = rest
      BY <1>0, <2>3, <3>1
    <3>2. CASE wire' = <<Junk>> \o rest
      BY <1>0, <2>3, <2>4, <3>2
    <3> QED
      BY <2>5, <3>1, <3>2
  <2> QED
    BY <1>0, <2>1, <2>6 DEF OnLine
<1> QED
  BY <1>1, <1>2, <1>3, <1>4 DEF Receive

\* What a message leaves on the line of what was there, and what it adds.
LEMMA ReactsKeepsItems ==
  ASSUME NEW S, NEW outcomes, OnLine(S),
         \A o \in outcomes : o[2] \in Seq(S), Reacts(outcomes)
  PROVE  /\ OnLine(S)'
         /\ Len(transit') + Len(wire') <= MaxItems
<1>1. wire' \in Seq(S)
  BY DEF Reacts, Flushed, OnLine
<1>2. PICK o \in outcomes \cup {<<mode, <<>>>>} :
        transit' = transit \o o[2] /\ Len(transit') + Len(wire') <= MaxItems
  BY DEF Reacts
<1>3. o[2] \in Seq(S)
  <2>1. CASE o \in outcomes
    BY <2>1
  <2>2. CASE o = <<mode, <<>>>>
    <3>1. o[2] = <<>>
      BY <2>2
    <3> QED
      BY <3>1
  <2> QED
    BY <2>1, <2>2
<1>4. transit' \in Seq(S)
  BY <1>2, <1>3 DEF OnLine
<1> QED
  BY <1>1, <1>2, <1>4 DEF OnLine

\* A message sent with nothing under way, on a tty, starts with an empty line.
LEMMA ReactsAlone ==
  ASSUME NEW outcomes, tty, ~late', Reacts(outcomes)
  PROVE  /\ ~late /\ wire' = <<>>
         /\ \E o \in outcomes \cup {<<mode, <<>>>>} : mode' = o[1] /\ transit' = <<>> \o o[2]
<1>1. late' = (late \/ transit # <<>>)
  BY DEF Reacts
<1>2. ~late /\ transit = <<>>
  BY <1>1
<1> QED
  BY <1>2 DEF Reacts, Flushed

LEMMA ArriveKeepsItems ==
  ASSUME NEW S, OnLine(S), Arrive
  PROVE  OnLine(S)' /\ Len(transit') + Len(wire') <= Len(transit) + Len(wire)
<1>1. /\ Head(transit) \in S /\ Tail(transit) \in Seq(S) /\ Len(Tail(transit)) = Len(transit) - 1
      /\ Len(transit) \in Nat /\ Len(wire) \in Nat
  BY TailItems DEF Arrive, OnLine
<1>2. Append(wire, Head(transit)) \in Seq(S) /\ Len(Append(wire, Head(transit))) = Len(wire) + 1
  BY <1>1 DEF OnLine
<1> QED
  BY <1>1, <1>2 DEF Arrive, OnLine

-----------------------------------------------------------------------------
(***************************************************************************)
(* Type correctness: the variables of the program, and the line.           *)
(***************************************************************************)
ProgramOK ==
  /\ tty \in BOOLEAN
  /\ pc \in {"closed", "reset", "resetAck", "enable", "enableAck",
             "ready", "ack", "receive"}
  /\ goal \in {"open", "close"}
  /\ openTry \in 0..ATTEMPTS /\ closeTry \in 0..ATTEMPTS
  /\ pid \in {0, LEADIN}
  /\ addr \in Addr \cup {NO_ADDR, LINK_STATUS(ERROR), LINK_STATUS(NOT_INIT)}
  /\ request \in Request
  /\ result \in Result
  /\ mode \in {"KW", "P300"}
  /\ late \in BOOLEAN

LineOK == OnLine(Item) /\ Len(transit) + Len(wire) <= MaxItems

TInv == ProgramOK /\ LineOK

LEMMA ItemsKnown ==
  /\ Junk \in Item
  /\ \A v \in ByteValues : Byte(v) \in Item
  /\ \A r \in Request : Answers(r) \subseteq AFrame
  /\ AFrame \subseteq Item
<1>1. \A r \in Request : Answers(r) \subseteq AFrame
  BY DEF Answers, Frame, AFrame
<1> QED
  BY <1>1 DEF Item

LEMMA ResultsKnown ==
  /\ NoResult \in Result /\ Failure \in Result
  /\ Strange \in Result /\ PresetStatus \in Result
BY DEF Result

\* The checks of framer_receive() hand on a frame that is one.
LEMMA VerdictType ==
  ASSUME NEW f \in AFrame
  PROVE  Verdict(f) \in Result
<1>1. SeenByCaller(f) \in {0, 1}
  BY DEF SeenByCaller, WriteOutcome
<1>2. [kind |-> "written", frame |-> f, value |-> SeenByCaller(f)] \in Result
  BY <1>1 DEF Result
<1>3. [kind |-> "data", frame |-> f] \in Result
  BY DEF Result
<1> QED
  BY <1>2, <1>3, ResultsKnown DEF Verdict

LEMMA FrameItem ==
  ASSUME NEW f \in Item, f.kind = "frame"
  PROVE  f \in AFrame
BY DEF Item, Junk, Byte

LEMMA ReceiveType == ProgramOK /\ OnLine(Item) /\ Receive => result' \in Result
<1> SUFFICES ASSUME ProgramOK, OnLine(Item), Receive PROVE result' \in Result
  OBVIOUS
<1>1. CASE ReceiveFrame
  <2> DEFINE f == Head(wire)
  <2>1. f \in Item /\ f.kind = "frame"
    BY <1>1, TailItems DEF ReceiveFrame, OnLine
  <2>2. Returns(Verdict(f)) \/ Returns(Failure)
    BY <1>1 DEF ReceiveFrame
  <2>3. Verdict(f) \in Result
    BY <2>1, FrameItem, VerdictType
  <2> QED
    BY <2>2, <2>3, ResultsKnown DEF Returns
<1>2. CASE ReceivePreset \/ ReceiveTimesOut
  BY <1>2, ResultsKnown DEF ReceivePreset, ReceiveTimesOut, Returns
<1>3. CASE ReceiveShortFrame
  <2>1. Returns(Strange) \/ Returns(Failure)
    BY <1>3 DEF ReceiveShortFrame
  <2> QED
    BY <2>1, ResultsKnown DEF Returns
<1>4. CASE ReceiveMisaligned
  <2>1. Returns(Strange) \/ Returns(Failure)
    BY <1>4 DEF ReceiveMisaligned
  <2> QED
    BY <2>1, ResultsKnown DEF Returns
<1> QED
  BY <1>1, <1>2, <1>3, <1>4 DEF Receive

\* Every way out of framer_receive().
LEMMA ReceiveReturns ==
  ASSUME Receive
  PROVE  /\ pc = "receive" /\ pc' = "ready" /\ addr' = NO_ADDR
         /\ UNCHANGED <<goal, openTry, closeTry, pid, request>>
<1>1. PICK res : Returns(res) /\ pc = "receive"
  <2>1. CASE ReceivePreset
    BY <2>1 DEF ReceivePreset
  <2>2. CASE ReceiveTimesOut
    BY <2>2 DEF ReceiveTimesOut
  <2>3. CASE ReceiveFrame
    BY <2>3 DEF ReceiveFrame
  <2>4. CASE ReceiveShortFrame
    BY <2>4 DEF ReceiveShortFrame
  <2>5. CASE ReceiveMisaligned
    BY <2>5 DEF ReceiveMisaligned
  <2> QED
    BY <2>1, <2>2, <2>3, <2>4, <2>5 DEF Receive
<1> QED
  BY <1>1 DEF Returns

LEMMA ReadsByteType ==
  ASSUME TInv, NEW v, ReadsByte(v)
  PROVE  LineOK' /\ mode' = mode /\ late' = late
<1>1. /\ OnLine(Item)'
      /\ Len(transit') + Len(wire') <= Len(transit) + Len(wire)
      /\ mode' = mode /\ late' = late
  BY ItemsKnown, ReadKeepsItems DEF TInv, LineOK
<1>2. /\ Len(transit') \in Nat /\ Len(wire') \in Nat /\ Len(transit) \in Nat /\ Len(wire) \in Nat
      /\ MaxItems \in Nat /\ Len(transit) + Len(wire) <= MaxItems
  BY <1>1, BoundAssumption DEF OnLine, TInv, LineOK
<1>3. Len(transit') + Len(wire') <= MaxItems
  BY <1>1, <1>2
<1> QED
  BY <1>1, <1>3 DEF LineOK

LEMMA ReactsType ==
  ASSUME TInv, NEW outcomes, Reacts(outcomes),
         \A o \in outcomes : o[1] \in {"KW", "P300"} /\ o[2] \in Seq(Item)
  PROVE  LineOK' /\ mode' \in {"KW", "P300"} /\ late' \in BOOLEAN
<1>1. LineOK'
  BY ReactsKeepsItems DEF LineOK, TInv
<1>2. mode' \in {"KW", "P300"}
  <2>1. PICK o \in outcomes \cup {<<mode, <<>>>>} : mode' = o[1]
    BY DEF Reacts
  <2>2. o \in outcomes \/ o[1] = mode
    OBVIOUS
  <2> QED
    BY <2>1, <2>2 DEF TInv, ProgramOK
<1>3. late' \in BOOLEAN
  BY DEF Reacts
<1> QED
  BY <1>1, <1>2, <1>3

LEMMA SendType ==
  ASSUME TInv, NEW a \in Addr, NEW fct \in {READ_DATA, WRITE_DATA}, NEW n \in DataLens,
         Send(a, fct, n), UNCHANGED tty
  PROVE  TInv'
<1>1. request' \in Request
  <2>1. request.id + 1 \in 0..MaxTelegrams
    BY BoundAssumption DEF TInv, ProgramOK, Request, Send
  <2> QED
    BY <2>1 DEF Send, Request
<1> DEFINE out == IF mode = "P300"
              THEN {<<mode, <<Byte(INIT_OK)>>>>, <<mode, <<Byte(ERROR)>>>>}
                   \cup {<<mode, <<Byte(INIT_OK), f>>>> : f \in Answers(request')}
                   \cup {<<mode, <<f>>>> : f \in Answers(request')}
              ELSE {}
<1>2. Reacts(out)
  BY DEF Send
<1>3. Byte(INIT_OK) \in Item /\ Byte(ERROR) \in Item /\ Answers(request') \subseteq Item
  BY <1>1, ItemsKnown DEF ByteValues
<1>4. \A o \in out : o[1] \in {"KW", "P300"} /\ o[2] \in Seq(Item)
  <2>1. mode \in {"KW", "P300"}
    BY DEF TInv, ProgramOK
  <2> SUFFICES ASSUME NEW o \in out PROVE o[1] \in {"KW", "P300"} /\ o[2] \in Seq(Item)
    OBVIOUS
  <2>2. \/ o = <<mode, <<Byte(INIT_OK)>>>>
        \/ o = <<mode, <<Byte(ERROR)>>>>
        \/ \E f \in Answers(request') : o = <<mode, <<Byte(INIT_OK), f>>>>
        \/ \E f \in Answers(request') : o = <<mode, <<f>>>>
    OBVIOUS
  <2>3. CASE o \in {<<mode, <<Byte(INIT_OK)>>>>, <<mode, <<Byte(ERROR)>>>>}
    BY <1>3, <2>1, <2>3
  <2>4. CASE \E f \in Answers(request') : o = <<mode, <<Byte(INIT_OK), f>>>>
    BY <1>3, <2>1, <2>4
  <2>5. CASE \E f \in Answers(request') : o = <<mode, <<f>>>>
    BY <1>3, <2>1, <2>5
  <2> QED
    BY <2>2, <2>3, <2>4, <2>5
<1> HIDE DEF out
<1>5. LineOK' /\ mode' \in {"KW", "P300"} /\ late' \in BOOLEAN
  BY <1>2, <1>4, ReactsType
<1>6. pc' = "ack" /\ result' = NoResult /\ UNCHANGED <<goal, openTry, closeTry, pid, addr>>
  BY DEF Send
<1>7. ProgramOK'
  BY <1>1, <1>5, <1>6, ResultsKnown DEF TInv, ProgramOK
<1> QED
  BY <1>5, <1>7 DEF TInv

LEMMA OpenCloseType ==
  ASSUME TInv, UNCHANGED tty,
         SendReset \/ SendEnable \/ ResetsExhausted \/ LinkTimesOut
  PROVE  TInv'
<1>0. Byte(INIT_OK) \in Item /\ Byte(NOT_INIT) \in Item
  BY ItemsKnown DEF ByteValues
<1>01. <<>> \in Seq(Item) /\ <<Byte(NOT_INIT)>> \in Seq(Item) /\ <<Byte(INIT_OK)>> \in Seq(Item)
  BY <1>0
<1>1. CASE SendReset
  <2> DEFINE out == {<<"KW", <<>>>>, <<"KW", <<Byte(NOT_INIT)>>>>}
                      \cup IF mode = "P300" THEN {<<"KW", <<Byte(INIT_OK)>>>>} ELSE {}
  <2>1. Reacts(out)
    BY <1>1 DEF SendReset
  <2>2. \A o \in out : o[1] \in {"KW", "P300"} /\ o[2] \in Seq(Item)
    <3> SUFFICES ASSUME NEW o \in out PROVE o[1] \in {"KW", "P300"} /\ o[2] \in Seq(Item)
      OBVIOUS
    <3>1. o[1] \in {"KW", "P300"} /\ o[2] \in {<<>>, <<Byte(NOT_INIT)>>, <<Byte(INIT_OK)>>}
      OBVIOUS
    <3> HIDE DEF out
    <3> QED
      BY <1>01, <3>1
  <2> HIDE DEF out
  <2>3. LineOK' /\ mode' \in {"KW", "P300"} /\ late' \in BOOLEAN
    BY <2>1, <2>2, ReactsType
  <2>4. closeTry' \in 0..ATTEMPTS
    BY <1>1 DEF SendReset, TInv, ProgramOK, ATTEMPTS
  <2> QED
    BY <1>1, <2>3, <2>4 DEF SendReset, TInv, ProgramOK
<1>2. CASE SendEnable
  <2> DEFINE out == {<<"P300", <<>>>>, <<"P300", <<Byte(INIT_OK)>>>>}
  <2>1. Reacts(out)
    BY <1>2 DEF SendEnable
  <2>2. \A o \in out : o[1] \in {"KW", "P300"} /\ o[2] \in Seq(Item)
    <3> SUFFICES ASSUME NEW o \in out PROVE o[1] \in {"KW", "P300"} /\ o[2] \in Seq(Item)
      OBVIOUS
    <3>1. o[1] \in {"KW", "P300"} /\ o[2] \in {<<>>, <<Byte(NOT_INIT)>>, <<Byte(INIT_OK)>>}
      OBVIOUS
    <3> HIDE DEF out
    <3> QED
      BY <1>01, <3>1
  <2> HIDE DEF out
  <2>3. LineOK' /\ mode' \in {"KW", "P300"} /\ late' \in BOOLEAN
    BY <2>1, <2>2, ReactsType
  <2> QED
    BY <1>2, <2>3 DEF SendEnable, TInv, ProgramOK
<1>3. CASE ResetsExhausted \/ LinkTimesOut
  <2>1. Closed(ERROR) /\ UNCHANGED <<mode, transit, wire, late>>
    BY <1>3 DEF ResetsExhausted, LinkTimesOut, ReadTimesOut
  <2>2. LineOK'
    BY <2>1 DEF TInv, LineOK, OnLine
  <2> QED
    BY <2>1, <2>2 DEF Closed, TInv, ProgramOK
<1> QED
  BY <1>1, <1>2, <1>3

\* The bytes that acknowledge a reset, enable or a telegram.
LEMMA AckType ==
  ASSUME TInv, UNCHANGED tty,
         ResetAnswered \/ EnableAnswered \/ SendAnswered \/ SendTimesOut
  PROVE  TInv'
<1>1. CASE ResetAnswered
  <2>1. PICK v \in ByteValues : ReadsByte(v)
    BY <1>1 DEF ResetAnswered
  <2>2. LineOK' /\ mode' = mode /\ late' = late
    BY <2>1, ReadsByteType
  <2>3. \/ pc' = "reset" /\ UNCHANGED <<goal, openTry, closeTry, pid, addr, request, result>>
        \/ Closed(NOT_INIT)
        \/ /\ pc' = "enable" /\ addr' = LINK_STATUS(NOT_INIT)
           /\ UNCHANGED <<goal, openTry, closeTry, pid, request, result>>
    BY <1>1 DEF ResetAnswered
  <2> QED
    BY <2>2, <2>3 DEF Closed, TInv, ProgramOK
<1>2. CASE EnableAnswered
  <2>1. PICK v \in ByteValues : ReadsByte(v)
    BY <1>2 DEF EnableAnswered
  <2>2. LineOK' /\ mode' = mode /\ late' = late
    BY <2>1, ReadsByteType
  <2>3. \/ /\ pc' = "ready" /\ addr' = NO_ADDR /\ pid' = LEADIN
           /\ UNCHANGED <<goal, openTry, closeTry, request, result>>
        \/ /\ openTry < ATTEMPTS /\ pc' = "reset" /\ openTry' = openTry + 1 /\ closeTry' = 0
           /\ UNCHANGED <<goal, pid, addr, request, result>>
        \/ Closed(ERROR)
    BY <1>2 DEF EnableAnswered
  <2>4. openTry < ATTEMPTS => openTry + 1 \in 0..ATTEMPTS
    BY DEF TInv, ProgramOK, ATTEMPTS
  <2>5. 0 \in 0..ATTEMPTS
    BY DEF ATTEMPTS
  <2> QED
    BY <2>2, <2>3, <2>4, <2>5 DEF Closed, TInv, ProgramOK
<1>3. CASE SendAnswered
  <2>1. PICK v \in ByteValues : ReadsByte(v)
    BY <1>3 DEF SendAnswered
  <2>2. LineOK' /\ mode' = mode /\ late' = late
    BY <2>1, ReadsByteType
  <2>3. /\ UNCHANGED <<goal, openTry, closeTry, pid, request>>
        /\ \/ pc' = "receive" /\ addr' = request.addr /\ result' = result
           \/ pc' = "ready" /\ addr' = addr /\ result' = Failure
    BY <1>3 DEF SendAnswered, Fails, Failure
  <2>4. request.addr \in Addr \cup {NO_ADDR}
    BY DEF TInv, ProgramOK, Request
  <2> QED
    BY <2>2, <2>3, <2>4, ResultsKnown DEF TInv, ProgramOK
<1>4. CASE SendTimesOut
  <2>1. UNCHANGED <<transit, wire>>
    BY <1>4 DEF SendTimesOut, ReadTimesOut
  <2>2. LineOK'
    BY <2>1 DEF TInv, LineOK, OnLine
  <2>3. result' = Failure /\ pc' = "ready"
        /\ UNCHANGED <<mode, late, goal, openTry, closeTry, pid, addr, request>>
    BY <1>4 DEF SendTimesOut, ReadTimesOut, Fails, Failure
  <2> QED
    BY <2>2, <2>3, ResultsKnown DEF TInv, ProgramOK
<1> QED
  BY <1>1, <1>2, <1>3, <1>4

LEMMA ReceiveTypes == ASSUME TInv, UNCHANGED tty, Receive PROVE TInv'
<1>1. OnLine(Item)' /\ Len(transit') + Len(wire') <= Len(transit) + Len(wire)
      /\ mode' = mode /\ late' = late
  BY ItemsKnown, ReceiveKeepsItems DEF TInv, LineOK
<1>2. Len(transit') \in Nat /\ Len(wire') \in Nat /\ Len(transit) \in Nat /\ Len(wire) \in Nat
      /\ MaxItems \in Nat /\ Len(transit) + Len(wire) <= MaxItems
  BY <1>1, BoundAssumption DEF OnLine, TInv, LineOK
<1>3. LineOK'
  BY <1>1, <1>2 DEF LineOK
<1>4. result' \in Result
  BY ReceiveType DEF TInv, LineOK
<1> QED
  BY <1>1, <1>3, <1>4, ReceiveReturns DEF TInv, ProgramOK

\* The cable, and what makes no use of it.
LEMMA CableType ==
  ASSUME TInv, UNCHANGED tty,
         framer_openDevice \/ framer_closeDevice \/ Crash \/ Arrive \/ Announce
  PROVE  TInv'
<1>0. OnLine(Item) /\ Len(transit) + Len(wire) <= MaxItems
      /\ Len(transit) \in Nat /\ Len(wire) \in Nat /\ MaxItems \in Nat
      /\ <<>> \in Seq(Item) /\ Len(<<>>) = 0
  BY BoundAssumption DEF TInv, LineOK, OnLine
<1>1. CASE framer_openDevice \/ Crash
  <2>1. wire' = <<>> /\ UNCHANGED <<transit, mode, late>>
    BY <1>1 DEF framer_openDevice, Crash
  <2>2. LineOK'
    BY <1>0, <2>1 DEF LineOK, OnLine
  <2>3. /\ pc' \in {"reset", "closed"} /\ goal' = "open" /\ openTry' \in 0..ATTEMPTS
        /\ closeTry' = 0 /\ pid' \in {0, pid} /\ addr' \in {NO_ADDR, addr}
        /\ result' = NoResult /\ request' = request
    BY <1>1 DEF framer_openDevice, Crash, ATTEMPTS
  <2>4. 0 \in 0..ATTEMPTS
    BY DEF ATTEMPTS
  <2> QED
    BY <2>1, <2>2, <2>3, <2>4, ResultsKnown DEF TInv, ProgramOK
<1>2. CASE framer_closeDevice
  <2>1. LineOK'
    BY <1>0, <1>2 DEF framer_closeDevice, LineOK, OnLine
  <2>2. 0 \in 0..ATTEMPTS
    BY DEF ATTEMPTS
  <2> QED
    BY <1>2, <2>1, <2>2 DEF framer_closeDevice, TInv, ProgramOK
<1>3. CASE Arrive
  <2>1. OnLine(Item)' /\ Len(transit') + Len(wire') <= Len(transit) + Len(wire)
    BY <1>0, <1>3, ArriveKeepsItems
  <2>2. Len(transit') \in Nat /\ Len(wire') \in Nat
    BY <2>1 DEF OnLine
  <2>3. LineOK'
    BY <1>0, <2>1, <2>2 DEF LineOK
  <2> QED
    BY <1>3, <2>3 DEF Arrive, program, TInv, ProgramOK
<1>4. CASE Announce
  <2>1. Byte(NOT_INIT) \in Item
    BY ItemsKnown DEF ByteValues
  <2>2. transit' \in Seq(Item) /\ Len(transit') = Len(transit) + 1 /\ wire' = wire
    BY <1>0, <1>4, <2>1 DEF Announce, OnLine
  <2>3. Len(transit') + Len(wire') <= MaxItems
    BY <1>0, <1>4, <2>2 DEF Announce
  <2>4. LineOK'
    BY <1>0, <2>2, <2>3 DEF LineOK, OnLine
  <2> QED
    BY <1>4, <2>4 DEF Announce, program, TInv, ProgramOK
<1> QED
  BY <1>1, <1>2, <1>3, <1>4

LEMMA TypeNext == TInv /\ [Next]_vars => TInv'
<1> SUFFICES ASSUME TInv, [Next]_vars PROVE TInv'
  OBVIOUS
<1>1. CASE UNCHANGED vars
  BY <1>1 DEF vars, program, TInv, ProgramOK, LineOK, OnLine
<1>2. CASE Next
  BY <1>2, SendType, OpenCloseType, AckType, ReceiveTypes, CableType DEF Next, Step
<1> QED
  BY <1>1, <1>2

LEMMA TypeInit == Init => TInv
<1> SUFFICES ASSUME Init PROVE TInv
  OBVIOUS
<1>1. LineOK
  BY BoundAssumption DEF Init, LineOK, OnLine
<1>2. NoRequest \in Request
  <2>1. 0 \in 0..MaxTelegrams
    BY BoundAssumption
  <2> QED
    BY <2>1 DEF NoRequest, Request
<1>3. ProgramOK
  <2>1. openTry \in 0..ATTEMPTS /\ closeTry \in 0..ATTEMPTS
    BY DEF Init, ATTEMPTS
  <2> QED
    BY <1>2, <2>1, ResultsKnown, Zenon DEF Init, ProgramOK
<1> QED
  BY <1>1, <1>3 DEF TInv

\* The variables of program and line keep their types, the line's bound included.
THEOREM TypeInvariant == Spec => []TInv
BY TypeInit, TypeNext, PTL DEF Spec

\* The attempts of open and close stay within their loops, framer_pid is nothing or
\* P300, and the line holds no more than the bound, of known items only.
THEOREM TypeCorrect == Spec => []TypeOK
<1>1. TInv => TypeOK
  BY DEF TInv, ProgramOK, LineOK, OnLine, TypeOK
<1> QED
  BY <1>1, TypeInvariant, PTL

-----------------------------------------------------------------------------
(***************************************************************************)
(* Freshness and the mode of the controller.  On a tty, my_send() throws   *)
(* away what has arrived, and as long as nothing was ever sent with bytes  *)
(* under way, the line is empty behind a message.  Then the line holds     *)
(* nothing but what the message itself brought about: while a telegram     *)
(* waits for its answer, no frame but its own; after a lost enable, only   *)
(* the announcements of a controller in KW mode; after a lost reset,       *)
(* nothing at all.                                                         *)
(***************************************************************************)
Alone == tty /\ ~late

Own(r) == {Junk} \cup {Byte(v) : v \in ByteValues} \cup Answers(r)

OnlyOwnOnLine == Alone /\ pc \in {"ack", "receive"} => OnLine(Own(request))

FrameIsOwn == Alone /\ HasFrame => result.frame.of = request

FreshInv == OnlyOwnOnLine /\ FrameIsOwn

ModeInv ==
  Alone =>
    /\ pc = "enableAck" => mode = "P300" \/ OnLine({Byte(NOT_INIT)})
    /\ pc = "resetAck" => mode = "KW" \/ (wire = <<>> /\ transit = <<>>)
    /\ pc \in {"ready", "ack", "receive"} => mode = "P300"
    /\ pc = "closed" /\ addr = LINK_STATUS(NOT_INIT) => mode = "KW"

LEMMA ReactsLate ==
  ASSUME NEW outcomes, Reacts(outcomes), ~late'
  PROVE  ~late
<1>1. late' = (late \/ transit # <<>>)
  BY DEF Reacts
<1> QED
  BY <1>1, Zenon

\* Bytes once left behind are never forgotten.
LEMMA StaysAlone == ASSUME TInv, [Next]_vars, Alone' PROVE Alone
<1>1. tty' = tty
  BY DEF Next, vars
<1>2. ~late' => ~late
  <2>1. CASE SendReset \/ SendEnable
              \/ \E a \in Addr, fct \in {READ_DATA, WRITE_DATA}, n \in DataLens : Send(a, fct, n)
    BY <2>1, ReactsLate DEF SendReset, SendEnable, Send
  <2>2. CASE ResetAnswered \/ EnableAnswered \/ SendAnswered
    BY <2>2 DEF ResetAnswered, EnableAnswered, SendAnswered, ReadsByte
  <2>3. CASE Receive
    BY <2>3, ItemsKnown, ReceiveKeepsItems DEF TInv, LineOK
  <2>4. CASE LinkTimesOut \/ SendTimesOut \/ ResetsExhausted
    BY <2>4 DEF LinkTimesOut, SendTimesOut, ResetsExhausted, ReadTimesOut
  <2>5. CASE \/ framer_openDevice \/ framer_closeDevice \/ Arrive \/ Announce \/ Crash
             \/ UNCHANGED vars
    BY <2>5 DEF framer_openDevice, framer_closeDevice, Arrive, Announce, Crash, vars
  <2> QED
    BY <2>1, <2>2, <2>3, <2>4, <2>5 DEF Next, Step
<1> QED
  BY <1>1, <1>2 DEF Alone

LEMMA OwnItems ==
  ASSUME NEW r
  PROVE  /\ Junk \in Own(r)
         /\ \A v \in ByteValues : Byte(v) \in Own(r)
         /\ Answers(r) \subseteq Own(r)
BY DEF Own

LEMMA OwnFrame ==
  ASSUME NEW r, NEW f \in Own(r), f.kind = "frame"
  PROVE  f.of = r
BY DEF Own, Junk, Byte, Answers, Frame

LEMMA OwnSequences ==
  ASSUME NEW r
  PROVE  /\ <<>> \in Seq(Own(r))
         /\ \A v \in ByteValues : <<Byte(v)>> \in Seq(Own(r))
         /\ \A f \in Answers(r) : <<f>> \in Seq(Own(r)) /\ <<Byte(INIT_OK), f>> \in Seq(Own(r))
<1>1. Byte(INIT_OK) \in Own(r)
  BY OwnItems DEF ByteValues
<1> QED
  BY <1>1, OwnItems

\* A telegram sent alone has an empty line before it.
LEMMA SendFresh ==
  ASSUME NEW a, NEW fct, NEW n, Send(a, fct, n), UNCHANGED tty
  PROVE  FreshInv'
<1>1. FrameIsOwn'
  BY DEF Send, FrameIsOwn, HasFrame, NoResult
<1>2. ASSUME Alone' PROVE OnLine(Own(request))'
  <2> PICK r : r = request'
    OBVIOUS
  <2> DEFINE out == IF mode = "P300"
                    THEN {<<mode, <<Byte(INIT_OK)>>>>, <<mode, <<Byte(ERROR)>>>>}
                         \cup {<<mode, <<Byte(INIT_OK), f>>>> : f \in Answers(r)}
                         \cup {<<mode, <<f>>>> : f \in Answers(r)}
                    ELSE {}
  <2>1. Reacts(out)
    BY DEF Send
  <2>2. \A o \in out \cup {<<mode, <<>>>>} : o[2] \in Seq(Own(r))
    <3> SUFFICES ASSUME NEW o \in out \cup {<<mode, <<>>>>} PROVE o[2] \in Seq(Own(r))
      OBVIOUS
    <3>1. \/ o \in {<<mode, <<>>>>, <<mode, <<Byte(INIT_OK)>>>>, <<mode, <<Byte(ERROR)>>>>}
          \/ \E f \in Answers(r) : o \in {<<mode, <<Byte(INIT_OK), f>>>>, <<mode, <<f>>>>}
      BY Zenon
    <3> HIDE DEF out
    <3>2. CASE o \in {<<mode, <<>>>>, <<mode, <<Byte(INIT_OK)>>>>, <<mode, <<Byte(ERROR)>>>>}
      <4>1. o[2] \in {<<>>, <<Byte(INIT_OK)>>, <<Byte(ERROR)>>}
        BY <3>2
      <4> QED
        BY <4>1, OwnSequences DEF ByteValues
    <3>3. CASE \E f \in Answers(r) : o \in {<<mode, <<Byte(INIT_OK), f>>>>, <<mode, <<f>>>>}
      <4>1. \E f \in Answers(r) : o[2] \in {<<Byte(INIT_OK), f>>, <<f>>}
        BY <3>3
      <4> QED
        BY <4>1, OwnSequences
    <3> QED
      BY <3>1, <3>2, <3>3
  <2> HIDE DEF out
  <2>3. tty /\ ~late'
    BY <1>2 DEF Alone
  <2>4. wire' = <<>> /\ \E o \in out \cup {<<mode, <<>>>>} : transit' = <<>> \o o[2]
    BY <2>1, <2>3, ReactsAlone
  <2>5. transit' \in Seq(Own(r))
    BY <2>2, <2>4
  <2>6. wire' \in Seq(Own(r))
    BY <2>4, OwnSequences
  <2> QED
    BY <2>5, <2>6 DEF OnLine
<1> QED
  BY <1>1, <1>2 DEF FreshInv, OnlyOwnOnLine

\* The frame at the head of the line belongs to the telegram that waits for it.
LEMMA ReceiveFresh ==
  ASSUME FreshInv, Receive, Alone' => Alone
  PROVE  FreshInv'
<1>1. OnlyOwnOnLine'
  BY ReceiveReturns DEF OnlyOwnOnLine
<1>2. ASSUME Alone', HasFrame' PROVE result'.frame.of = request'
  <2>1. Alone /\ pc = "receive" /\ request' = request
    BY <1>2, ReceiveReturns
  <2>2. OnLine(Own(request))
    BY <2>1 DEF FreshInv, OnlyOwnOnLine
  <2>3. CASE ReceiveFrame
    <3> DEFINE f == Head(wire)
    <3>1. wire # <<>> /\ f.kind = "frame" /\ (Returns(Verdict(f)) \/ Returns(Failure))
      BY <2>3 DEF ReceiveFrame
    <3>2. f \in Own(request)
      BY <2>2, <3>1, TailItems DEF OnLine
    <3> HIDE DEF f
    <3>3. f.of = request
      BY <3>1, <3>2, OwnFrame
    <3>4. result' = Verdict(f)
      BY <1>2, <3>1 DEF Returns, HasFrame, Failure
    <3>5. Verdict(f).kind \in {"data", "written"}
      BY <1>2, <3>4 DEF HasFrame
    <3>6. Verdict(f).frame = f
      BY <3>5, VerdictSound
    <3> QED
      BY <2>1, <3>3, <3>4, <3>6
  <2>4. CASE ReceivePreset \/ ReceiveTimesOut
    <3>1. Returns(PresetStatus) \/ Returns(Failure)
      BY <2>4 DEF ReceivePreset, ReceiveTimesOut
    <3> QED
      BY <1>2, <3>1 DEF Returns, HasFrame, PresetStatus, Failure
  <2>5. CASE ReceiveShortFrame \/ ReceiveMisaligned
    <3>1. Returns(Strange) \/ Returns(Failure)
      BY <2>5 DEF ReceiveShortFrame, ReceiveMisaligned
    <3> QED
      BY <1>2, <3>1 DEF Returns, HasFrame, Strange, Failure
  <2> QED
    BY <2>3, <2>4, <2>5 DEF Receive
<1> QED
  BY <1>1, <1>2 DEF FreshInv, FrameIsOwn

\* A step that leaves the result alone, or has no frame to hand on, while the line
\* keeps its items or no telegram waits.
LEMMA FreshFrame ==
  ASSUME FreshInv, Alone' => Alone, request' = request,
         \/ result' = result
         \/ result' \in {NoResult, Failure},
         \/ pc' \notin {"ack", "receive"}
         \/ pc \in {"ack", "receive"} /\ (OnLine(Own(request)) => OnLine(Own(request))')
  PROVE  FreshInv'
<1>1. OnlyOwnOnLine'
  BY DEF FreshInv, OnlyOwnOnLine
<1>2. FrameIsOwn'
  <2>1. CASE result' = result
    BY <2>1 DEF FreshInv, FrameIsOwn, HasFrame
  <2>2. CASE result' \in {NoResult, Failure}
    BY <2>2 DEF FrameIsOwn, HasFrame, NoResult, Failure
  <2> QED
    BY <2>1, <2>2
<1> QED
  BY <1>1, <1>2 DEF FreshInv

LEMMA FreshNext == TInv /\ FreshInv /\ [Next]_vars => FreshInv'
<1> SUFFICES ASSUME TInv, FreshInv, [Next]_vars PROVE FreshInv'
  OBVIOUS
<1>0. (Alone' => Alone) /\ tty' = tty
  BY StaysAlone DEF Next, vars
<1>1. CASE \E a \in Addr, fct \in {READ_DATA, WRITE_DATA}, n \in DataLens : Send(a, fct, n)
  BY <1>0, <1>1, SendFresh
<1>2. CASE Receive
  BY <1>0, <1>2, ReceiveFresh
<1>3. CASE SendAnswered
  <2>1. PICK v \in ByteValues : ReadsByte(v)
    BY <1>3 DEF SendAnswered
  <2>2. request' = request /\ pc = "ack" /\ (result' = result \/ result' = Failure)
    BY <1>3 DEF SendAnswered, Fails, Failure
  <2>3. ASSUME OnLine(Own(request)) PROVE OnLine(Own(request))'
    <3>1. OnLine(Own(request))' <=> (wire' \in Seq(Own(request)) /\ transit' \in Seq(Own(request)))
      BY <2>2 DEF OnLine
    <3> PICK S : S = Own(request)
      OBVIOUS
    <3>2. Junk \in S /\ OnLine(S)
      BY <2>3, OwnItems
    <3>3. OnLine(S)'
      BY <2>1, <3>2, ReadKeepsItems
    <3> QED
      BY <3>1, <3>3 DEF OnLine
  <2> QED
    BY <1>0, <2>2, <2>3, FreshFrame
<1>4. CASE SendTimesOut
  BY <1>0, <1>4, FreshFrame DEF SendTimesOut, Fails, Failure
<1>5. CASE Arrive
  <2>1. UNCHANGED <<pc, request, result>>
    BY <1>5 DEF Arrive, program
  <2>2. ASSUME OnLine(Own(request)) PROVE OnLine(Own(request))'
    <3>1. OnLine(Own(request))' <=> (wire' \in Seq(Own(request)) /\ transit' \in Seq(Own(request)))
      BY <2>1 DEF OnLine
    <3> PICK S : S = Own(request)
      OBVIOUS
    <3>2. OnLine(S)'
      BY <1>5, <2>2, ArriveKeepsItems
    <3> QED
      BY <3>1, <3>2 DEF OnLine
  <2> QED
    BY <1>0, <2>1, <2>2, FreshFrame
<1>6. CASE Announce
  <2>1. UNCHANGED <<pc, request, result>> /\ wire' = wire
        /\ transit' = Append(transit, Byte(NOT_INIT))
    BY <1>6 DEF Announce, program
  <2>2. Byte(NOT_INIT) \in Own(request)
    BY OwnItems DEF ByteValues
  <2>3. ASSUME OnLine(Own(request)) PROVE OnLine(Own(request))'
    BY <2>1, <2>2, <2>3 DEF OnLine
  <2> QED
    BY <1>0, <2>1, <2>3, FreshFrame
<1>7. CASE UNCHANGED vars
  BY <1>0, <1>7, FreshFrame DEF vars, program, OnLine
<1>8. CASE \/ framer_openDevice \/ framer_closeDevice \/ Crash
           \/ SendReset \/ SendEnable \/ ResetsExhausted \/ LinkTimesOut
  BY <1>0, <1>8, FreshFrame
     DEF framer_openDevice, framer_closeDevice, Crash, SendReset, SendEnable,
         ResetsExhausted, LinkTimesOut, Closed
<1>9. CASE ResetAnswered \/ EnableAnswered
  <2>1. request' = request /\ result' = result /\ pc' \notin {"ack", "receive"}
    BY <1>9 DEF ResetAnswered, EnableAnswered, Closed
  <2> QED
    BY <1>0, <2>1, FreshFrame
<1> QED
  BY <1>1, <1>2, <1>3, <1>4, <1>5, <1>6, <1>7, <1>8, <1>9 DEF Next, Step

LEMMA FreshInit == Init => FreshInv
BY DEF Init, FreshInv, OnlyOwnOnLine, FrameIsOwn, HasFrame, NoResult

\* On a tty, an answer handed on is the one to the telegram just sent, unless bytes
\* were still under way when one was sent (framer_send(), framer_receive()).
THEOREM AnswersAreFresh == Spec => []FreshAnswer
<1>1. FreshInv => FreshAnswer
  BY DEF FreshInv, FrameIsOwn, FreshAnswer, Alone
<1>2. Spec => [](TInv /\ FreshInv)
  <2>1. Init => TInv /\ FreshInv
    BY TypeInit, FreshInit
  <2>2. (TInv /\ FreshInv) /\ [Next]_vars => (TInv /\ FreshInv)'
    BY TypeNext, FreshNext
  <2> QED
    BY <2>1, <2>2, PTL DEF Spec
<1> QED
  BY <1>1, <1>2, PTL

-----------------------------------------------------------------------------
\* A controller that has lost the reset, or the enable, says nothing that could be
\* taken for an acknowledgement.
LEMMA ResetMode ==
  ASSUME SendReset, UNCHANGED tty
  PROVE  ModeInv'
<1> SUFFICES ASSUME Alone' PROVE mode' = "KW" \/ (wire' = <<>> /\ transit' = <<>>)
  BY DEF SendReset, ModeInv
<1> DEFINE out == {<<"KW", <<>>>>, <<"KW", <<Byte(NOT_INIT)>>>>}
                    \cup IF mode = "P300" THEN {<<"KW", <<Byte(INIT_OK)>>>>} ELSE {}
<1>1. Reacts(out)
  BY DEF SendReset
<1>2. \A o \in out \cup {<<mode, <<>>>>} : o[1] = "KW" \/ o = <<mode, <<>>>>
  OBVIOUS
<1> HIDE DEF out
<1>3. tty /\ ~late'
  BY DEF Alone
<1>4. PICK o \in out \cup {<<mode, <<>>>>} : mode' = o[1] /\ transit' = <<>> \o o[2]
  BY <1>1, <1>3, ReactsAlone
<1>5. wire' = <<>>
  BY <1>1, <1>3, ReactsAlone
<1>6. CASE o[1] = "KW"
  BY <1>4, <1>6
<1>7. CASE o = <<mode, <<>>>>
  <2>1. o[2] = <<>>
    BY <1>7
  <2> QED
    BY <1>4, <1>5, <2>1
<1> QED
  BY <1>2, <1>6, <1>7

LEMMA EnableMode ==
  ASSUME SendEnable, UNCHANGED tty
  PROVE  ModeInv'
<1> SUFFICES ASSUME Alone' PROVE mode' = "P300" \/ OnLine({Byte(NOT_INIT)})'
  BY DEF SendEnable, ModeInv
<1> DEFINE out == {<<"P300", <<>>>>, <<"P300", <<Byte(INIT_OK)>>>>}
<1>1. Reacts(out)
  BY DEF SendEnable
<1>2. \A o \in out \cup {<<mode, <<>>>>} : o[1] = "P300" \/ o = <<mode, <<>>>>
  OBVIOUS
<1> HIDE DEF out
<1>3. tty /\ ~late'
  BY DEF Alone
<1>4. PICK o \in out \cup {<<mode, <<>>>>} : mode' = o[1] /\ transit' = <<>> \o o[2]
  BY <1>1, <1>3, ReactsAlone
<1>5. wire' = <<>>
  BY <1>1, <1>3, ReactsAlone
<1>6. CASE o[1] = "P300"
  BY <1>4, <1>6
<1>7. CASE o = <<mode, <<>>>>
  <2>1. o[2] = <<>>
    BY <1>7
  <2>2. transit' = <<>>
    BY <1>4, <2>1
  <2> QED
    BY <1>5, <2>2 DEF OnLine
<1> QED
  BY <1>2, <1>6, <1>7

\* A telegram does not change the controller's mode.
LEMMA SendMode ==
  ASSUME ModeInv, NEW a, NEW fct, NEW n, Send(a, fct, n), Alone' => Alone
  PROVE  ModeInv'
<1> DEFINE out == IF mode = "P300"
                  THEN {<<mode, <<Byte(INIT_OK)>>>>, <<mode, <<Byte(ERROR)>>>>}
                       \cup {<<mode, <<Byte(INIT_OK), f>>>> : f \in Answers(request')}
                       \cup {<<mode, <<f>>>> : f \in Answers(request')}
                  ELSE {}
<1>1. Reacts(out)
  BY DEF Send
<1>2. \A o \in out \cup {<<mode, <<>>>>} : o[1] = mode
  OBVIOUS
<1> HIDE DEF out
<1>3. mode' = mode
  BY <1>1, <1>2 DEF Reacts
<1> QED
  BY <1>3 DEF Send, ModeInv

\* Reading the byte that acknowledges a reset: only a controller in KW mode sent it.
LEMMA ResetAckMode ==
  ASSUME ModeInv, ResetAnswered, Alone' => Alone
  PROVE  ModeInv'
<1>1. wire # <<>> /\ mode' = mode
  BY DEF ResetAnswered, ReadsByte
<1>2. pc = "resetAck" /\ pc' \in {"reset", "closed", "enable"}
  BY DEF ResetAnswered, Closed
<1> QED
  BY <1>1, <1>2 DEF ModeInv

\* Reading the byte that acknowledges enable: "OK" is no announcement.
LEMMA EnableAckMode ==
  ASSUME ModeInv, EnableAnswered, Alone' => Alone
  PROVE  ModeInv'
<1>1. PICK v \in ByteValues : ReadsByte(v) /\ (v = INIT_OK \/ pc' # "ready")
  BY DEF EnableAnswered, Closed
<1>2. mode' = mode /\ wire # <<>>
  BY <1>1 DEF ReadsByte
<1>3. pc = "enableAck" /\ pc' \in {"ready", "reset", "closed"}
      /\ (pc' = "closed" => addr' = LINK_STATUS(ERROR))
  BY DEF EnableAnswered, Closed
<1>4. ASSUME v = INIT_OK PROVE ~OnLine({Byte(NOT_INIT)})
  <2> SUFFICES ASSUME OnLine({Byte(NOT_INIT)}) PROVE FALSE
    OBVIOUS
  <2>1. Head(wire) = Byte(NOT_INIT)
    BY <1>2, TailItems DEF OnLine
  <2> QED
    BY <1>1, <1>4, <2>1 DEF ReadsByte, Byte, NOT_INIT, INIT_OK
<1>5. LINK_STATUS(ERROR) # LINK_STATUS(NOT_INIT)
  BY DEF LINK_STATUS, ERROR, NOT_INIT
<1> QED
  BY <1>1, <1>2, <1>3, <1>4, <1>5 DEF ModeInv

LEMMA ModeNext == TInv /\ ModeInv /\ [Next]_vars => ModeInv'
<1> SUFFICES ASSUME TInv, ModeInv, [Next]_vars PROVE ModeInv'
  OBVIOUS
<1>0. (Alone' => Alone) /\ tty' = tty
  BY StaysAlone DEF Next, vars
<1>00. /\ LINK_STATUS(ERROR) # LINK_STATUS(NOT_INIT)
       /\ NO_ADDR # LINK_STATUS(NOT_INIT)
  BY DEF LINK_STATUS, ERROR, NOT_INIT, NO_ADDR
<1>1. CASE \E a \in Addr, fct \in {READ_DATA, WRITE_DATA}, n \in DataLens : Send(a, fct, n)
  BY <1>0, <1>1, SendMode
<1>2. CASE SendReset \/ SendEnable
  BY <1>0, <1>2, ResetMode, EnableMode
<1>3. CASE ResetAnswered \/ EnableAnswered
  BY <1>0, <1>3, ResetAckMode, EnableAckMode
<1>4. CASE SendAnswered \/ SendTimesOut \/ Receive
  <2>1. mode' = mode /\ pc \in {"ack", "receive"} /\ pc' \in {"ready", "receive"}
    <3>1. CASE Receive
      BY <3>1, ReceiveReturns, ReceiveKeepsItems, ItemsKnown DEF TInv, LineOK
    <3>2. CASE SendAnswered
      BY <3>2 DEF SendAnswered, ReadsByte, Fails
    <3>3. CASE SendTimesOut
      BY <3>3 DEF SendTimesOut, ReadTimesOut, Fails
    <3> QED
      BY <1>4, <3>1, <3>2, <3>3
  <2> QED
    BY <1>0, <2>1 DEF ModeInv
<1>5. CASE framer_openDevice \/ framer_closeDevice
  BY <1>5 DEF framer_openDevice, framer_closeDevice, ModeInv
<1>6. CASE ResetsExhausted \/ LinkTimesOut
  BY <1>00, <1>6 DEF ResetsExhausted, LinkTimesOut, Closed, ModeInv
<1>7. CASE Crash
  BY <1>00, <1>7 DEF Crash, ModeInv
<1>8. CASE Arrive
  <2>1. UNCHANGED <<pc, addr, mode>> /\ transit # <<>>
    BY <1>8 DEF Arrive, program
  <2>2. OnLine({Byte(NOT_INIT)}) => OnLine({Byte(NOT_INIT)})'
    <3> PICK S : S = {Byte(NOT_INIT)}
      OBVIOUS
    <3>1. OnLine(S) => OnLine(S)'
      BY <1>8, ArriveKeepsItems
    <3> QED
      BY <3>1 DEF OnLine
  <2> QED
    BY <1>0, <2>1, <2>2 DEF ModeInv
<1>9. CASE Announce
  <2>1. UNCHANGED <<pc, addr, mode>> /\ mode = "KW"
        /\ wire' = wire /\ transit' = Append(transit, Byte(NOT_INIT))
    BY <1>9 DEF Announce, program
  <2>2. OnLine({Byte(NOT_INIT)}) => OnLine({Byte(NOT_INIT)})'
    BY <2>1 DEF OnLine
  <2> QED
    BY <1>0, <2>1, <2>2 DEF ModeInv
<1>10. CASE UNCHANGED vars
  BY <1>0, <1>10 DEF vars, program, ModeInv, OnLine
<1> QED
  BY <1>1, <1>2, <1>3, <1>4, <1>5, <1>6, <1>7, <1>8, <1>9, <1>10 DEF Next, Step

LEMMA ModeInit == Init => ModeInv
BY DEF Init, ModeInv, LINK_STATUS, NOT_INIT, NO_ADDR

\* On a tty a device that counts as open talks to a controller in P300 mode, and one
\* that was closed in good order leaves it in KW mode (framer_open_p300(),
\* framer_close_p300()).
THEOREM ModeFollows == Spec => []ModeIsKnown
<1>1. ModeInv => ModeIsKnown
  BY DEF ModeInv, ModeIsKnown, Alone
<1>2. Spec => [](TInv /\ ModeInv)
  <2>1. Init => TInv /\ ModeInv
    BY TypeInit, ModeInit
  <2>2. (TInv /\ ModeInv) /\ [Next]_vars => (TInv /\ ModeInv)'
    BY TypeNext, ModeNext
  <2> QED
    BY <2>1, <2>2, PTL DEF Spec
<1> QED
  BY <1>1, <1>2, PTL
=============================================================================
