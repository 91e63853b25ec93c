--------------------------- MODULE ByteCodeProofs ---------------------------
(***************************************************************************)
(* Theorems about ByteCode for any set of commands, with any byte code and *)
(* any number of retries, called any number of times; the last one also    *)
(* about the lines of the document that the byte code is compiled from.    *)
(***************************************************************************)
EXTENDS Commands, TLAPS

\* What depends on the command and its parameter alone stays as it is while the
\* call lasts.
LEMMA CallKept ==
  ASSUME call' = call
  PROVE  /\ cPtr' = cPtr /\ Program' = Program /\ HasBytes' = HasBytes
         /\ BytesPos' = BytesPos /\ Given' = Given /\ Limit' = Limit
         /\ sendBuf' = sendBuf /\ Convertible' = Convertible
         /\ \A a : Rejected(a)' = Rejected(a)
BY DEF cPtr, Program, HasBytes, BytesPos, Given, Limit, Rejected, sendBuf, Convertible

-----------------------------------------------------------------------------
(***************************************************************************)
(* Type correctness.  The rounds stay within the retries because the count *)
(* never falls to 0 while a call lasts, unless it starts there; a pre      *)
(* command has no converted result because it executes without units.      *)
(***************************************************************************)
Lengths == {0, 1} \cup ParaLens \cup {Cmd[c].len : c \in Name}

Messages == [round : 1..Limit, at : DOMAIN Program, fixed : Seq(0..255),
             data : Data, len : Nat]

TypeInv ==
  /\ TypeOK
  /\ pc \in {"prepare", "run"} /\ retry = 0 => cPtr.retry = 0
  /\ call.pre => call.hex /\ outcome # "converted"
  /\ pc = "preDone" => call.pre /\ outcome # "none"

LEMMA CommandType ==
  ASSUME NEW c \in Name
  PROVE  /\ Cmd[c] \in Command
         /\ Cmd[c].program \in Seq(CompileNode)
         /\ Len(Cmd[c].program) \in Nat
         /\ DOMAIN Cmd[c].program = 1..Len(Cmd[c].program)
         /\ Cmd[c].len \in Nat /\ Cmd[c].unitLen \in Nat /\ Cmd[c].retry \in Nat
         /\ \A i \in DOMAIN Cmd[c].program :
              /\ Cmd[c].program[i] \in CompileNode
              /\ Cmd[c].program[i].bytes \in Seq(0..255) /\ Cmd[c].program[i].len \in Nat
<1>1. Cmd[c] \in Command
  BY CommandAssumption
<1>2. Cmd[c].program \in Seq(CompileNode)
  BY <1>1 DEF Command
<1>3. \A i \in DOMAIN Cmd[c].program : Cmd[c].program[i] \in CompileNode
  BY <1>2
<1>4. \A i \in DOMAIN Cmd[c].program :
        Cmd[c].program[i].bytes \in Seq(0..255) /\ Cmd[c].program[i].len \in Nat
  BY <1>3 DEF CompileNode
<1> QED
  BY <1>1, <1>2, <1>3, <1>4 DEF Command

LEMMA SomeNameType == SomeName \in Name
BY NameAssumption DEF SomeName

LEMMA LengthsAreNat == Lengths \subseteq Nat
<1>1. ASSUME NEW c \in Name PROVE Cmd[c].len \in Nat
  BY CommandType
<1>2. ASSUME NEW x \in Lengths PROVE x \in Nat
  <2>1. CASE x \in {0, 1} \cup ParaLens
    BY <2>1, ParaAssumption
  <2>2. CASE x \in {Cmd[c].len : c \in Name}
    BY <2>2, <1>1
  <2> QED
    BY <2>1, <2>2 DEF Lengths
<1> QED
  BY <1>2

LEMMA CompiledType == Compiled \in [Name -> [data : Data, len : Nat]]
<1>1. ASSUME NEW n \in Nat PROVE Leftover(n) \in [data : Data, len : Nat]
  BY ParaAssumption DEF Leftover, Data
<1>2. ASSUME NEW c \in Name, HasBytesNode(c)
      PROVE  Cmd[c].program[BytesNodePos(c)].len \in Nat
  <2>1. BytesNodePos(c) \in DOMAIN Cmd[c].program
    BY <1>2 DEF HasBytesNode, BytesNodePos
  <2> QED
    BY <2>1, CommandType
<1>3. ASSUME NEW c \in Name PROVE Compiled[c] \in [data : Data, len : Nat]
  <2>1. CASE HasBytesNode(c)
    BY <2>1, <1>1, <1>2 DEF Compiled
  <2>2. CASE ~HasBytesNode(c)
    BY <2>2, <1>1 DEF Compiled, NoBytes
  <2> QED
    BY <2>1, <2>2
<1> QED
  BY <1>3 DEF Compiled

\* The parts of TypeOK, with the command executing for a parameter.
LEMMA TypeParts ==
  ASSUME TypeOK
  PROVE  /\ call.cmd \in Name /\ call.asked \in Name /\ call.id \in 0..MaxCalls
         /\ call.pre \in BOOLEAN
         /\ cPtr = Cmd[call.cmd] /\ Program = Cmd[call.cmd].program
         /\ cPtr \in Command /\ cPtr.retry \in Nat /\ cPtr.unitLen \in Nat
         /\ Len(Program) \in Nat /\ DOMAIN Program = 1..Len(Program)
         /\ \A i \in DOMAIN Program : Program[i].bytes \in Seq(0..255)
         /\ pos \in Nat /\ pos >= 1 /\ ownLen \in Nat
         /\ retry \in Nat /\ retry <= cPtr.retry
         /\ node \in [data : Data, len : Nat] /\ node.data \in Data /\ node.len \in Nat
         /\ sendBuf \in Data
         /\ sent \subseteq Messages
<1>1. call.cmd \in Name /\ call.asked \in Name /\ call.id \in 0..MaxCalls
  BY DEF TypeOK
<1>1a. call.pre \in BOOLEAN
  BY DEF TypeOK
<1>2. cPtr = Cmd[call.cmd] /\ Program = Cmd[call.cmd].program
  BY DEF cPtr, Program
<1>3. node \in [data : Data, len : Nat]
  BY <1>1 DEF TypeOK, node
<1>4. sendBuf \in Data
  BY <1>1 DEF sendBuf, Data
<1>5. ownLen \in Nat
  BY LengthsAreNat DEF Lengths, TypeOK
<1>6. sent \subseteq Messages
  BY DEF TypeOK, Messages
<1>7. cPtr \in Command /\ cPtr.retry \in Nat /\ cPtr.unitLen \in Nat
  BY <1>1, <1>2, CommandType
<1>8. /\ Len(Program) \in Nat /\ DOMAIN Program = 1..Len(Program)
      /\ \A i \in DOMAIN Program : Program[i].bytes \in Seq(0..255)
  BY <1>1, <1>2, CommandType
<1>9. pos \in Nat /\ pos >= 1
  BY <1>8 DEF TypeOK
<1>10. retry \in Nat /\ retry <= cPtr.retry
  BY <1>7 DEF TypeOK
<1> QED
  BY <1>1, <1>1a, <1>2, <1>3, <1>4, <1>5, <1>6, <1>7, <1>8, <1>9, <1>10

\* What a step has to show when the call goes on.
LEMMA SameCallKeepsType ==
  ASSUME TypeOK, call' = call, UNCHANGED <<sendLen, preOutcome>>, noUnit' \in BOOLEAN,
         bytesNode' \in [Name -> [data : Data, len : Nat]],
         pc' \in {"idle", "prepare", "run", "preDone", "ended"},
         pos' \in 1..(Len(Program) + 1), ownLen' \in {0, ownLen},
         retry' \in 0..cPtr.retry,
         sent' \subseteq Messages,
         answer' \in {"none", "good", "slow", "errStr", "slowErrStr"},
         outcome' \in {"none", "error", "raw", "converted", "nothing"}
  PROVE  TypeOK'
<1>1. Program' = Program /\ cPtr' = cPtr /\ Limit' = Limit
  BY CallKept
<1>2. sent' \subseteq [round : 1..Limit', at : DOMAIN Program', fixed : Seq(0..255),
                       data : Data, len : Nat]
  BY <1>1, Zenon DEF Messages
<1>3. ownLen' \in {0, 1} \cup ParaLens \cup {Cmd[c].len : c \in Name}
  BY DEF TypeOK
<1>4. pos' \in 1..(Len(Program') + 1) /\ retry' \in 0..cPtr'.retry
  BY <1>1
<1>5. UNCHANGED <<sendLen, preOutcome, call>>
  OBVIOUS
<1> HIDE <1>1
<1> QED
  BY <1>2, <1>3, <1>4, <1>5, SMTT(30) DEF TypeOK

\* And when execByteCode() is called.
LEMMA BeginsType ==
  ASSUME NEW c \in Name, Begins(c), call'.cmd = c,
         call' \in [id : 0..MaxCalls, asked : Name, cmd : Name, pre : BOOLEAN,
                    len : {0} \cup ParaLens, good : BOOLEAN, hex : BOOLEAN],
         bytesNode' \in [Name -> [data : Data, len : Nat]],
         sendLen' \in Lengths, noUnit' \in BOOLEAN,
         preOutcome' \in {"none", "error", "raw", "nothing"}
  PROVE  TypeOK'
<1>1. Program' = Cmd[c].program /\ cPtr' = Cmd[c]
  BY DEF Program, cPtr
<1>2. pos' \in 1..(Len(Program') + 1)
  BY <1>1, CommandType DEF Begins
<1>3. retry' \in 0..cPtr'.retry
  BY <1>1, CommandType DEF Begins
<1> QED
  BY <1>2, <1>3 DEF TypeOK, Begins, Lengths

LEMMA TypeInit == Init => TypeInv
<1> SUFFICES ASSUME Init PROVE TypeInv
  OBVIOUS
<1>1. call.cmd = SomeName /\ call.pre = FALSE
  BY DEF Init, NoCall
<1>2. pos \in 1..(Len(Program) + 1) /\ retry \in 0..cPtr.retry
  BY <1>1, SomeNameType, CommandType DEF Init, Program, cPtr
<1>3. call \in [id : 0..MaxCalls, asked : Name, cmd : Name, pre : BOOLEAN,
                len : {0} \cup ParaLens, good : BOOLEAN, hex : BOOLEAN]
  BY SomeNameType, ParaAssumption DEF Init, NoCall
<1>4. TypeOK
  BY <1>2, <1>3, CompiledType DEF Init, TypeOK
<1> QED
  BY <1>1, <1>4 DEF Init, TypeInv

LEMMA ReturnKeepsType ==
  ASSUME TypeInv, NEW v \in {"error", "raw", "converted", "nothing"}, Return(v),
         v = "converted" => ~call.hex,
         bytesNode' \in [Name -> [data : Data, len : Nat]],
         sent' \subseteq Messages,
         answer' \in {"none", "good", "slow", "errStr", "slowErrStr"}
  PROVE  TypeInv'
<1> USE DEF Return
<1>1. TypeOK /\ call' = call
  BY DEF TypeInv
<1>2. /\ pos' \in 1..(Len(Program) + 1) /\ retry' \in 0..cPtr.retry
      /\ noUnit' \in BOOLEAN
  BY <1>1 DEF TypeOK
<1>3. TypeOK'
  BY <1>1, <1>2, SameCallKeepsType
<1> QED
  BY <1>1, <1>3 DEF TypeInv

\* The program counter or the round is all that changes.
LEMMA GoesOnKeepsType ==
  ASSUME TypeInv, pos' \in 1..(Len(Program) + 1), pc = "run",
         UNCHANGED <<sendLen, noUnit, call, pc, preOutcome, ownLen, outcome>>,
         retry' # retry => retry > 1 /\ retry' = retry - 1,
         bytesNode' \in [Name -> [data : Data, len : Nat]],
         sent' \subseteq Messages,
         answer' \in {"none", "good", "slow", "errStr", "slowErrStr"}
  PROVE  TypeInv'
<1>1. TypeOK /\ call' = call /\ cPtr' = cPtr
  BY CallKept DEF TypeInv
<1>2. retry' \in 0..cPtr.retry /\ (retry' = 0 => retry = 0)
  BY <1>1, TypeParts
<1>3. noUnit' \in BOOLEAN /\ outcome' \in {"none", "error", "raw", "converted", "nothing"}
      /\ pc' = "run"
  BY <1>1 DEF TypeOK
<1>4. TypeOK'
  BY <1>1, <1>2, <1>3, SameCallKeepsType
<1> QED
  BY <1>1, <1>2, <1>3, <1>4 DEF TypeInv

LEMMA AdvanceKeepsType ==
  ASSUME TypeInv, NEW to \in 1..(Len(Program) + 1), Advance(to), pc = "run",
         bytesNode' \in [Name -> [data : Data, len : Nat]],
         sent' \subseteq Messages,
         answer' \in {"none", "good", "slow", "errStr", "slowErrStr"}
  PROVE  TypeInv'
<1>1. /\ UNCHANGED <<sendLen, noUnit, call, pc, preOutcome, ownLen, outcome>>
      /\ retry' = retry /\ pos' \in 1..(Len(Program) + 1)
  BY DEF Advance
<1> QED
  BY <1>1, GoesOnKeepsType

\* What has been sent and is being sent.
LEMMA NewMessageType ==
  ASSUME TypeInv, pc = "run", pos \in DOMAIN Program, NEW d \in Data, NEW n \in Nat
  PROVE  [round |-> Round, at |-> pos, fixed |-> Program[pos].bytes,
          data |-> d, len |-> n] \in Messages
<1>1. TypeOK
  BY DEF TypeInv
<1>2. Round \in 1..Limit
  BY <1>1, TypeParts DEF Round, Limit, TypeInv
<1>3. Program[pos].bytes \in Seq(0..255)
  BY <1>1, TypeParts
<1> QED
  BY <1>2, <1>3 DEF Messages

LEMMA TransmitsType ==
  ASSUME TypeInv, pc = "run", pos \in DOMAIN Program,
         NEW d \in Data, NEW n \in Nat, Transmits(pos, d, n)
  PROVE  sent' \subseteq Messages
BY NewMessageType, TypeParts DEF Transmits, TypeInv

LEMMA TypeStep == TypeInv /\ [Next]_vars => TypeInv'
<1> SUFFICES ASSUME TypeInv, [Next]_vars PROVE TypeInv'
  OBVIOUS
<1>0. TypeOK /\ bytesNode \in [Name -> [data : Data, len : Nat]]
      /\ sent \subseteq Messages
      /\ answer \in {"none", "good", "slow", "errStr", "slowErrStr"}
  BY TypeParts DEF TypeInv, TypeOK
<1>1. CASE Unit \/ UNCHANGED vars
  <2>1. UNCHANGED <<bytesNode, sendLen, call, pc, preOutcome, pos, ownLen, retry, sent,
                    answer, outcome>>
    BY <1>1 DEF Unit, vars
  <2>2. noUnit' \in BOOLEAN
    BY <1>0, <1>1, Zenon DEF Unit, vars, TypeOK
  <2>3. TypeOK'
    BY <1>0, <2>1, <2>2, CallKept DEF TypeOK
  <2> QED
    BY <2>1, <2>3, CallKept DEF TypeInv
<1>2. ASSUME NEW c \in Name, NEW n \in {0} \cup ParaLens, NEW good \in BOOLEAN,
             Call(c, n, good)
      PROVE  TypeInv'
  <2> DEFINE first == First(c)
             pre   == HasPre(c)
             hex   == noUnit \/ HasPre(c)
  <2>1. first \in Name
    BY DEF First, HasPre
  <2>2. pre \in BOOLEAN /\ hex \in BOOLEAN
    <3>1. HasPre(c) \in BOOLEAN
      BY DEF HasPre
    <3>2. (noUnit \/ HasPre(c)) \in BOOLEAN
      BY Zenon
    <3> QED
      BY <3>1, <3>2, Zenon
  <2>3. call' = [id |-> call.id + 1, asked |-> c, cmd |-> first, pre |-> pre,
                 len |-> n, good |-> good, hex |-> hex]
    BY <1>2, Zenon DEF Call
  <2>4. call.id + 1 \in 0..MaxCalls
    BY <1>0, <1>2, TypeParts, ParaAssumption, SMTT(30) DEF Call
  <2>5. Begins(first) /\ bytesNode' = bytesNode /\ noUnit' = noUnit /\ preOutcome' = "none"
    BY <1>2 DEF Call
  <2>6. sendLen' \in Lengths
    <3>1. ParameterLen(c, n) \in {n, Cmd[c].len}
      BY DEF ParameterLen, Smaller
    <3> QED
      BY <1>0, <1>2, <3>1 DEF Call, Lengths, TypeOK
  <2>7. pre => hex
    OBVIOUS
  <2> HIDE DEF first, pre, hex
  <2>8. call' \in [id : 0..MaxCalls, asked : Name, cmd : Name, pre : BOOLEAN,
                   len : {0} \cup ParaLens, good : BOOLEAN, hex : BOOLEAN]
    BY <2>1, <2>2, <2>3, <2>4, Zenon
  <2>9. call'.cmd = first /\ call'.pre = pre /\ call'.hex = hex
    BY <2>3
  <2>10. noUnit' \in BOOLEAN
    BY <1>0, <2>5 DEF TypeOK
  <2>11. TypeOK'
    BY <1>0, <2>1, <2>5, <2>6, <2>8, <2>9, <2>10, BeginsType
  <2>12. cPtr' = Cmd[first]
    BY <2>9 DEF cPtr
  <2> QED
    BY <2>5, <2>7, <2>9, <2>11, <2>12 DEF TypeInv, Begins
<1>3. CASE NewSession
  <2>1. call' = [NoCall EXCEPT !.id = call.id]
    BY <1>3 DEF NewSession
  <2>2. call' \in [id : 0..MaxCalls, asked : Name, cmd : Name, pre : BOOLEAN,
                   len : {0} \cup ParaLens, good : BOOLEAN, hex : BOOLEAN]
        /\ call'.cmd = SomeName /\ call'.pre = FALSE
    BY <1>0, <2>1, SomeNameType, TypeParts DEF NoCall
  <2>3. pos' \in 1..(Len(Program') + 1) /\ retry' \in 0..cPtr'.retry
    <3>1. Program' = Cmd[SomeName].program /\ cPtr' = Cmd[SomeName]
      BY <2>2 DEF Program, cPtr
    <3> QED
      BY <1>3, <3>1, SomeNameType, CommandType DEF NewSession, FreshProcess
  <2>4. TypeOK'
    BY <1>3, <2>2, <2>3, CompiledType DEF NewSession, FreshProcess, TypeOK
  <2> QED
    BY <1>3, <2>2, <2>4 DEF NewSession, FreshProcess, TypeInv
<1>4. CASE Refuse
  BY <1>0, <1>4, ReturnKeepsType DEF Refuse
<1>5. CASE Prepare
  <2>1. bytesNode' \in [Name -> [data : Data, len : Nat]]
    <3>1. [data |-> sendBuf, len |-> IF call.hex THEN node.len ELSE cPtr.unitLen]
            \in [data : Data, len : Nat]
      BY <1>0, TypeParts
    <3> QED
      BY <1>0, <1>5, <3>1 DEF Prepare, node
  <2>2. ownLen' \in {0, ownLen}
    BY <1>5 DEF Prepare
  <2>3. pc' = "run" /\ pc = "prepare"
        /\ UNCHANGED <<sendLen, noUnit, call, preOutcome, pos, retry, sent, answer, outcome>>
    BY <1>5 DEF Prepare
  <2>4. /\ noUnit' \in BOOLEAN /\ pos' \in 1..(Len(Program) + 1) /\ retry' \in 0..cPtr.retry
        /\ outcome' \in {"none", "error", "raw", "converted", "nothing"}
    BY <1>0, <2>3 DEF TypeOK
  <2>5. TypeOK'
    BY <1>0, <2>1, <2>2, <2>3, <2>4, SameCallKeepsType
  <2> QED
    BY <2>3, <2>5, CallKept DEF TypeInv
<1>6. CASE WaitOrPause
  <2>1. pc = "run" /\ pos + 1 \in 1..(Len(Program) + 1)
    BY <1>0, <1>6, TypeParts DEF WaitOrPause, At
  <2>2. bytesNode' = bytesNode /\ sent' = sent /\ answer' = answer
    BY <1>6 DEF WaitOrPause
  <2>3. CASE Advance(pos + 1)
    <3>1. /\ bytesNode' \in [Name -> [data : Data, len : Nat]] /\ sent' \subseteq Messages
          /\ answer' \in {"none", "good", "slow", "errStr", "slowErrStr"}
      BY <1>0, <2>2
    <3> QED
      BY <2>1, <2>3, <3>1, AdvanceKeepsType
  <2>4. CASE Return("error")
    BY <1>0, <2>2, <2>4, ReturnKeepsType
  <2> QED
    BY <1>6, <2>3, <2>4 DEF WaitOrPause
<1>7. CASE UnknownToken
  BY <1>0, <1>7, ReturnKeepsType DEF UnknownToken
<1>8. CASE Send
  <2>1. pc = "run" /\ pos \in DOMAIN Program /\ pos + 1 \in 1..(Len(Program) + 1)
    BY <1>0, <1>8, TypeParts DEF Send, At
  <2>2. FollowedByBytes => pos + 2 \in 1..(Len(Program) + 1)
    BY <1>0, <2>1, TypeParts DEF FollowedByBytes
  <2>3. sent' \subseteq Messages /\ bytesNode' = bytesNode /\ answer' = answer
    <3>1. node.data \in Data /\ node.len \in Nat /\ NoBytes.data \in Data
      BY <1>0, TypeParts, ParaAssumption DEF NoBytes, Leftover, Data
    <3> QED
      BY <1>8, <2>1, <3>1, TransmitsType DEF Send
  <2>4. CASE Return("error")
    BY <1>0, <2>3, <2>4, ReturnKeepsType
  <2>5. CASE ~Return("error")
    <3>1. PICK to \in 1..(Len(Program) + 1) : Advance(to)
      BY <1>8, <2>1, <2>2, <2>5 DEF Send
    <3>2. /\ bytesNode' \in [Name -> [data : Data, len : Nat]]
          /\ answer' \in {"none", "good", "slow", "errStr", "slowErrStr"}
      BY <1>0, <2>3
    <3> QED
      BY <2>1, <2>3, <3>1, <3>2, AdvanceKeepsType
  <2> QED
    BY <2>4, <2>5
<1>9. CASE SendBytes
  <2>1. pc = "run" /\ pos \in DOMAIN Program /\ pos + 1 \in 1..(Len(Program) + 1)
    BY <1>0, <1>9, TypeParts DEF SendBytes, At
  <2>2. sent' \subseteq Messages /\ answer' = answer
    <3>1. node.data \in Data /\ node.len \in Nat /\ sendBuf \in Data /\ ownLen \in Nat
      BY <1>0, TypeParts
    <3> QED
      BY <1>0, <1>9, <2>1, <3>1, TransmitsType DEF SendBytes
  <2>3. bytesNode' \in [Name -> [data : Data, len : Nat]]
    <3>1. NoBytes \in [data : Data, len : Nat]
      BY ParaAssumption DEF NoBytes, Leftover, Data
    <3> QED
      BY <1>0, <1>9, <3>1 DEF SendBytes
  <2>4. CASE Return("error")
    BY <2>2, <2>3, <1>0, <2>4, ReturnKeepsType
  <2>5. CASE Advance(pos + 1)
    <3>1. answer' \in {"none", "good", "slow", "errStr", "slowErrStr"}
      BY <1>0, <2>2
    <3> QED
      BY <2>1, <2>2, <2>3, <2>5, <3>1, AdvanceKeepsType
  <2> QED
    BY <1>9, <2>4, <2>5 DEF SendBytes
<1>10. CASE RecvFails
  BY <1>0, <1>10, ReturnKeepsType DEF RecvFails
<1>11. ASSUME NextRound, pc = "run", retry > 1, bytesNode' = bytesNode, sent' = sent,
              answer' \in {"none", "good", "slow", "errStr", "slowErrStr"}
       PROVE  TypeInv'
  <2>1. 1 \in 1..(Len(Program) + 1)
    BY <1>0, TypeParts
  <2> QED
    BY <1>0, <1>11, <2>1, GoesOnKeepsType DEF NextRound
<1>12. CASE RecvRejected
  <2>1. CASE Return("error")
    BY <1>0, <1>12, <2>1, ReturnKeepsType DEF RecvRejected
  <2> QED
    BY <1>11, <1>12, <2>1 DEF RecvRejected, At
<1>13. CASE Recv
  <2>1. /\ answer' \in {"none", "good", "slow", "errStr", "slowErrStr"}
        /\ bytesNode' = bytesNode /\ sent' = sent
    BY <1>13 DEF Recv
  <2>2. CASE Return("converted") /\ ~call.hex
    BY <1>0, <2>1, <2>2, ReturnKeepsType
  <2>3. CASE Return("error") \/ Return("raw")
    BY <1>0, <2>1, <2>3, ReturnKeepsType
  <2> QED
    BY <1>13, <2>2, <2>3 DEF Recv
<1>14. CASE EndOfProgram
  <2>1. CASE Return("nothing")
    BY <1>0, <1>14, <2>1, ReturnKeepsType DEF EndOfProgram
  <2> QED
    BY <1>0, <1>11, <1>14, <2>1 DEF EndOfProgram
<1>15. CASE PreSucceeds
  <2>1. call' = [call EXCEPT !.cmd = call.asked, !.pre = FALSE, !.hex = noUnit]
    BY <1>15 DEF PreSucceeds
  <2>2. call' \in [id : 0..MaxCalls, asked : Name, cmd : Name, pre : BOOLEAN,
                   len : {0} \cup ParaLens, good : BOOLEAN, hex : BOOLEAN]
        /\ call'.cmd = call.asked /\ call'.pre = FALSE /\ call.asked \in Name
    BY <1>0, <2>1 DEF TypeOK
  <2>3. /\ Begins(call.asked) /\ UNCHANGED <<bytesNode, sendLen, noUnit>>
        /\ preOutcome' = outcome /\ pc = "preDone"
    BY <1>15 DEF PreSucceeds
  <2>4. preOutcome' \in {"none", "error", "raw", "nothing"}
    BY <1>0, <2>3 DEF TypeInv, TypeOK
  <2>5. sendLen' \in Lengths /\ noUnit' \in BOOLEAN
    BY <1>0, <2>3 DEF TypeOK, Lengths
  <2>6. TypeOK'
    BY <1>0, <2>2, <2>3, <2>4, <2>5, BeginsType
  <2>7. cPtr' = Cmd[call.asked]
    BY <2>2 DEF cPtr
  <2> QED
    BY <2>2, <2>3, <2>6, <2>7 DEF TypeInv, Begins
<1>16. CASE PreFails
  <2>1. /\ call' = call /\ pc' = "ended"
        /\ UNCHANGED <<bytesNode, sendLen, noUnit, preOutcome, pos, ownLen, retry, sent,
                       answer, outcome>>
    BY <1>16 DEF PreFails
  <2>2. TypeOK'
    BY <1>0, <2>1, CallKept DEF TypeOK
  <2> QED
    BY <2>1, <2>2 DEF TypeInv
<1> QED
  BY <1>1, <1>2, <1>3, <1>4, <1>5, <1>6, <1>7, <1>8, <1>9, <1>10, <1>12, <1>13, <1>14,
     <1>15, <1>16 DEF Next, Step

LEMMA TypeAlways == Spec => []TypeInv
BY TypeInit, TypeStep, PTL DEF Spec

\* The session stays inside the byte code and its retries, and a pre command within the
\* outcomes of a command without units (execByteCode(), interactive()).
THEOREM TypeCorrect == Spec => []TypeOK
<1>1. TypeInv => TypeOK
  BY DEF TypeInv
<1> QED
  BY <1>1, TypeAlways, PTL

-----------------------------------------------------------------------------
(***************************************************************************)
(* A bad parameter sends nothing.  The property needs to know that nothing *)
(* has been sent when the parameter is converted, and that a call whose    *)
(* pre command comes first reaches its command only by way of an outcome   *)
(* that is no error.                                                       *)
(***************************************************************************)
Bad == HasBytes /\ Program[BytesPos].unit # "" /\ ~call.hex /\ ~Convertible

AfterPre == ~call.pre /\ HasPre(call.asked)

ParameterInv ==
  /\ pc = "prepare" => sent = {}
  /\ Bad => sent = {} /\ pc # "run"
  /\ AfterPre /\ (pc \in {"prepare", "run"} \/ sent # {}) =>
       preOutcome \notin {"none", "error"}

LEMMA ParameterKept ==
  ASSUME call' = call
  PROVE  Bad' = Bad /\ AfterPre' = AfterPre
BY CallKept DEF Bad, AfterPre, HasPre

LEMMA ParameterStep == TypeInv /\ ParameterInv /\ [Next]_vars => ParameterInv'
<1> SUFFICES ASSUME TypeInv, ParameterInv, [Next]_vars PROVE ParameterInv'
  OBVIOUS
<1>1. CASE Unit \/ UNCHANGED vars
  BY <1>1, ParameterKept DEF Unit, vars, ParameterInv
<1>2. ASSUME NEW c, NEW n, NEW good, Call(c, n, good) PROVE ParameterInv'
  <2>1. call'.pre = HasPre(c) /\ call'.asked = c
    BY <1>2 DEF Call
  <2>2. ~AfterPre'
    BY <2>1 DEF AfterPre, HasPre
  <2> QED
    BY <1>2, <2>2 DEF Call, Begins, ParameterInv
<1>3. CASE NewSession
  BY <1>3 DEF NewSession, FreshProcess, ParameterInv
<1>4. CASE Refuse
  BY <1>4, ParameterKept DEF Refuse, Return, ParameterInv
<1>5. CASE Prepare
  <2>1. ~Bad
    BY <1>5 DEF Prepare, Refused, UnitRefused, Bad, ParameterInv
  <2>2. /\ pc = "prepare" /\ pc' = "run" /\ call' = call /\ sent' = sent
        /\ preOutcome' = preOutcome
    BY <1>5 DEF Prepare
  <2> QED
    BY <2>1, <2>2, ParameterKept DEF ParameterInv
<1>6. CASE \/ WaitOrPause \/ UnknownToken \/ Send \/ SendBytes
           \/ RecvFails \/ RecvRejected \/ Recv \/ EndOfProgram
  <2>1. /\ pc = "run" /\ pc' \in {"run", "idle", "preDone"}
        /\ call' = call /\ preOutcome' = preOutcome
    BY <1>6 DEF WaitOrPause, UnknownToken, Send, SendBytes, RecvFails, RecvRejected, Recv,
                EndOfProgram, At, Advance, NextRound, Return
  <2> QED
    BY <2>1, ParameterKept DEF ParameterInv
<1>7. CASE PreSucceeds
  BY <1>7 DEF PreSucceeds, Begins, ParameterInv, TypeInv
<1>8. CASE PreFails
  BY <1>8, ParameterKept DEF PreFails, ParameterInv
<1> QED
  BY <1>1, <1>2, <1>3, <1>4, <1>5, <1>6, <1>7, <1>8 DEF Next, Step

\* A parameter that is missing or cannot be converted stops the command before its
\* first byte (the conversion loop at the start of execByteCode()), and nothing is sent
\* after a pre command that has failed (interactive()).
THEOREM BadParameterIsHarmless == Spec => []BadParameterSendsNothing
<1>1. Init => ParameterInv
  BY DEF Init, ParameterInv
<1>2. ParameterInv => BadParameterSendsNothing
  BY DEF ParameterInv, Bad, AfterPre, BadParameterSendsNothing
<1> QED
  BY <1>1, <1>2, ParameterStep, TypeAlways, PTL DEF Spec

-----------------------------------------------------------------------------
(***************************************************************************)
(* Rounds are alike.  While a command runs, every message of it is what    *)
(* its node would send again now: the node and the length are filled once, *)
(* before the first round, and thrown away only with the call.             *)
(***************************************************************************)
ByItself(at) == ownLen > 0 /\ Program[at].token = "BYTES"
WithBytes(at) == \/ Program[at].token = "BYTES"
                 \/ at + 1 \in DOMAIN Program /\ Program[at + 1].token = "BYTES"

\* What the node at the position sends.
DataOf(at) == IF ByItself(at) THEN sendBuf
              ELSE IF WithBytes(at) THEN node.data ELSE NoBytes.data
LenOf(at)  == IF ByItself(at) THEN ownLen
              ELSE IF WithBytes(at) THEN node.len ELSE 0

RoundInv ==
  /\ pc = "prepare" => sent = {}
  /\ pc = "run" => \A m \in sent : m.data = DataOf(m.at) /\ m.len = LenOf(m.at)
  /\ RoundsAlike

LEMMA SentInRound ==
  ASSUME TypeInv, RoundInv, NEW s, pc = "run",
         sent' = sent \/ sent' = sent \cup {s},
         s \in Messages, s.data = DataOf(s.at), s.len = LenOf(s.at), call' = call
  PROVE  /\ RoundsAlike'
         /\ \A m \in sent' : m.data = DataOf(m.at) /\ m.len = LenOf(m.at)
<1>1. \A m \in sent' : m.data = DataOf(m.at) /\ m.len = LenOf(m.at)
  BY DEF RoundInv
<1>2. \A m \in sent' : m.round <= Limit
  BY DEF RoundInv, RoundsAlike, Messages
<1>3. Limit' = Limit
  BY CallKept
<1>4. \A m, n \in sent' : m.at = n.at => m.data = n.data /\ m.len = n.len
  BY <1>1
<1> HIDE DEF Limit
<1> QED
  BY <1>1, <1>2, <1>3, <1>4 DEF RoundsAlike

LEMMA NodeKept ==
  ASSUME call' = call, bytesNode' = bytesNode, ownLen' = ownLen
  PROVE  \A at : DataOf(at)' = DataOf(at) /\ LenOf(at)' = LenOf(at)
BY CallKept DEF DataOf, LenOf, ByItself, WithBytes, node

LEMMA RoundStep == TypeInv /\ RoundInv /\ [Next]_vars => RoundInv'
<1> SUFFICES ASSUME TypeInv, RoundInv, [Next]_vars PROVE RoundInv'
  OBVIOUS
<1>1. CASE Unit \/ UNCHANGED vars
  <2>1. UNCHANGED <<call, bytesNode, ownLen, sent, pc>>
    BY <1>1 DEF Unit, vars
  <2> QED
    BY <2>1, CallKept, NodeKept DEF RoundInv, RoundsAlike
<1>2. CASE \/ \E c \in Name, n \in {0} \cup ParaLens, good \in BOOLEAN : Call(c, n, good)
           \/ NewSession \/ PreSucceeds
  <2>1. sent' = {}
    BY <1>2 DEF Call, NewSession, FreshProcess, PreSucceeds, Begins
  <2> QED
    BY <2>1 DEF RoundInv, RoundsAlike
<1>3. CASE Refuse \/ PreFails \/ RecvFails
  <2>1. pc' \notin {"prepare", "run"} /\ call' = call /\ sent' = sent
    BY <1>3 DEF Refuse, PreFails, RecvFails, Return
  <2> QED
    BY <2>1, CallKept DEF RoundInv, RoundsAlike
<1>4. CASE Prepare
  <2>1. pc' = "run" /\ sent' = {}
    BY <1>4 DEF Prepare, RoundInv
  <2> QED
    BY <2>1 DEF RoundInv, RoundsAlike
<1>5. ASSUME pc = "run", bytesNode' = bytesNode, call' = call, ownLen' = ownLen,
             pc' \in {"run", "idle", "preDone"}, NEW s \in Messages,
             sent' = sent \/ sent' = sent \cup {s},
             s.data = DataOf(s.at), s.len = LenOf(s.at)
      PROVE  RoundInv'
  BY <1>5, SentInRound, NodeKept DEF RoundInv
<1>6. CASE \/ WaitOrPause \/ UnknownToken \/ RecvRejected \/ Recv \/ EndOfProgram
  <2>1. /\ pc = "run" /\ pc' \in {"run", "idle", "preDone"} /\ sent' = sent
        /\ call' = call /\ bytesNode' = bytesNode /\ ownLen' = ownLen
    BY <1>6 DEF WaitOrPause, UnknownToken, RecvRejected, Recv, EndOfProgram, At, Advance,
                NextRound, Return
  <2> QED
    BY <2>1, CallKept, NodeKept DEF RoundInv, RoundsAlike
<1>7. ASSUME NEW d \in Data, NEW n \in Nat, Transmits(pos, d, n), pc = "run",
             pos \in DOMAIN Program, d = DataOf(pos), n = LenOf(pos)
      PROVE  \E s \in Messages : /\ sent' = sent \cup {s}
                                 /\ s.data = DataOf(s.at) /\ s.len = LenOf(s.at)
  <2> DEFINE s == [round |-> Round, at |-> pos, fixed |-> Program[pos].bytes,
                   data |-> d, len |-> n]
  <2>1. sent' = sent \cup {s}
    BY <1>7 DEF Transmits
  <2>2. s \in Messages
    BY <1>7, NewMessageType
  <2>3. s.data = DataOf(s.at) /\ s.len = LenOf(s.at)
    BY <1>7
  <2> QED
    BY <2>1, <2>2, <2>3
<1>8. CASE Send
  <2>1. /\ pc = "run" /\ pos \in DOMAIN Program /\ Program[pos].token # "BYTES"
        /\ pc' \in {"run", "idle", "preDone"}
        /\ call' = call /\ bytesNode' = bytesNode /\ ownLen' = ownLen
    BY <1>8 DEF Send, At, Advance, Return
  <2>2. WithBytes(pos) = FollowedByBytes /\ ~ByItself(pos)
    BY <2>1, Zenon DEF WithBytes, FollowedByBytes, ByItself
  <2>3. CASE FollowedByBytes
    <3>1. node.data = DataOf(pos) /\ node.len = LenOf(pos)
      BY <2>2, <2>3 DEF DataOf, LenOf
    <3>2. node.data \in Data /\ node.len \in Nat
      BY TypeParts DEF TypeInv
    <3>3. Transmits(pos, node.data, node.len)
      BY <1>8, <2>3 DEF Send
    <3> QED
      BY <1>5, <1>7, <2>1, <3>1, <3>2, <3>3
  <2>4. CASE ~FollowedByBytes
    <3>1. NoBytes.data = DataOf(pos) /\ 0 = LenOf(pos)
      BY <2>2, <2>4 DEF DataOf, LenOf
    <3>2. NoBytes.data \in Data
      BY ParaAssumption DEF NoBytes, Leftover, Data
    <3>3. Transmits(pos, NoBytes.data, 0)
      BY <1>8, <2>4 DEF Send
    <3> QED
      BY <1>5, <1>7, <2>1, <3>1, <3>2, <3>3
  <2> QED
    BY <2>3, <2>4
<1>9. CASE SendBytes
  <2>1. /\ pc = "run" /\ pos \in DOMAIN Program /\ Program[pos].token = "BYTES"
        /\ pc' \in {"run", "idle", "preDone"} /\ call' = call /\ ownLen' = ownLen
        /\ ownLen \in Nat
    BY <1>9, TypeParts DEF SendBytes, At, Advance, Return, TypeInv
  <2>2. /\ DataOf(pos) = IF ownLen > 0 THEN sendBuf ELSE node.data
        /\ LenOf(pos) = IF ownLen > 0 THEN ownLen ELSE node.len
    BY <2>1 DEF DataOf, LenOf, ByItself, WithBytes
  <2>3. /\ node.data \in Data /\ node.len \in Nat /\ sendBuf \in Data
    BY TypeParts DEF TypeInv
  <2>4. \/ sent' = sent
        \/ \E s \in Messages : /\ sent' = sent \cup {s}
                               /\ s.data = DataOf(s.at) /\ s.len = LenOf(s.at)
    <3>1. CASE ownLen > 0
      BY <1>7, <1>9, <2>1, <2>2, <2>3, <3>1 DEF SendBytes
    <3>2. CASE ownLen = 0 /\ node.len > 0
      BY <1>7, <1>9, <2>1, <2>2, <2>3, <3>2 DEF SendBytes
    <3>3. CASE ownLen = 0 /\ node.len = 0
      BY <1>9, <3>3 DEF SendBytes
    <3> QED
      BY <2>1, <2>3, <3>1, <3>2, <3>3
  <2>5. CASE bytesNode' = bytesNode
    <3>1. CASE sent' = sent
      BY <2>1, <2>5, <3>1, CallKept, NodeKept DEF RoundInv, RoundsAlike
    <3> QED
      BY <1>5, <2>1, <2>4, <2>5, <3>1
  <2>6. CASE bytesNode' # bytesNode
    <3>1. pc' \in {"idle", "preDone"}
      BY <1>9, <2>6 DEF SendBytes, Return
    <3>2. RoundsAlike'
      <4>1. CASE sent' = sent
        BY <2>1, <4>1, CallKept DEF RoundInv, RoundsAlike
      <4> QED
        BY <2>1, <2>4, <4>1, SentInRound
    <3> QED
      BY <3>1, <3>2 DEF RoundInv
  <2> QED
    BY <2>5, <2>6
<1> QED
  BY <1>1, <1>2, <1>3, <1>4, <1>6, <1>8, <1>9 DEF Next, Step

\* Every round of retries sends the same bytes at the same statement, and there are no
\* more rounds than retries (the loop of execByteCode()).
THEOREM RoundsAreAlike == Spec => []RoundsAlike
<1>1. Init => RoundInv
  BY DEF Init, RoundInv, RoundsAlike
<1>2. RoundInv => RoundsAlike
  BY DEF RoundInv
<1> QED
  BY <1>1, <1>2, RoundStep, TypeAlways, PTL DEF Spec

-----------------------------------------------------------------------------
(***************************************************************************)
(* A rejected answer is no result.  While a round is repeated because of   *)
(* the answer of an earlier one, a RECV lies ahead: the program cannot end *)
(* without a new answer.                                                   *)
(***************************************************************************)
RecvAhead == \E p \in DOMAIN Program : p >= pos /\ Program[p].token = "RECV"

AnswerInv ==
  /\ pc = "prepare" => answer = "none"
  /\ pc = "run" /\ Rejected(answer) => RecvAhead
  /\ RejectedIsNoResult

LEMMA NoneNotRejected == ~Rejected("none")
BY DEF Rejected

LEMMA AnswerInit == Init => AnswerInv
BY NoneNotRejected DEF Init, AnswerInv, RejectedIsNoResult

\* A step over nodes that are no RECV leaves the next RECV ahead.
LEMMA AdvanceKeeps ==
  ASSUME TypeInv, AnswerInv, NEW to \in {pos + 1, pos + 2}, Advance(to), answer' = answer,
         pc = "run",
         pos \in DOMAIN Program => Program[pos].token # "RECV",
         to = pos + 2 => /\ pos + 1 \in DOMAIN Program
                         /\ Program[pos + 1].token # "RECV"
  PROVE  AnswerInv'
<1> USE DEF Advance
<1>1. Program' = Program /\ Rejected(answer)' = Rejected(answer)
  BY CallKept
<1>2. ASSUME Rejected(answer) PROVE RecvAhead'
  <2>1. PICK p \in DOMAIN Program : p >= pos /\ Program[p].token = "RECV"
    BY <1>2 DEF AnswerInv, RecvAhead
  <2>2. p \in Nat /\ pos \in Nat
    BY <2>1, TypeParts DEF TypeInv
  <2>3. p # pos /\ (to = pos + 2 => p # pos + 1)
    BY <2>1
  <2>4. p >= to
    BY <2>1, <2>2, <2>3
  <2> QED
    BY <1>1, <2>1, <2>4 DEF RecvAhead
<1> QED
  BY <1>1, <1>2 DEF AnswerInv, RejectedIsNoResult, Rejected, cPtr

LEMMA ErrorKeeps ==
  ASSUME AnswerInv, Return("error")
  PROVE  AnswerInv'
BY DEF AnswerInv, Return, RejectedIsNoResult

LEMMA NextRoundKeeps ==
  ASSUME TypeInv, AnswerInv, NextRound, pc = "run",
         Rejected(answer)' => RecvAhead
  PROVE  AnswerInv'
<1>1. Program' = Program
  BY CallKept DEF NextRound
<1>2. RecvAhead => RecvAhead'
  <2> SUFFICES ASSUME RecvAhead PROVE RecvAhead'
    OBVIOUS
  <2>1. PICK p \in DOMAIN Program : p >= pos /\ Program[p].token = "RECV"
    BY DEF RecvAhead
  <2>2. p >= 1
    BY <2>1, TypeParts DEF TypeInv
  <2> QED
    BY <1>1, <2>1, <2>2 DEF NextRound, RecvAhead
<1> QED
  BY <1>2 DEF AnswerInv, NextRound, RejectedIsNoResult

LEMMA AnswerStep == TypeInv /\ AnswerInv /\ [Next]_vars => AnswerInv'
<1> SUFFICES ASSUME TypeInv, AnswerInv, [Next]_vars PROVE AnswerInv'
  OBVIOUS
<1>1. CASE Unit \/ UNCHANGED vars
  <2>1. UNCHANGED <<call, pc, pos, answer, outcome>>
    BY <1>1 DEF Unit, vars
  <2> QED
    BY <2>1 DEF AnswerInv, RejectedIsNoResult, Rejected, RecvAhead, Program, cPtr
<1>2. ASSUME NEW c \in Name, NEW n, NEW good, Call(c, n, good) PROVE AnswerInv'
  BY <1>2 DEF Call, Begins, AnswerInv, RejectedIsNoResult
<1>3. CASE NewSession
  <2>1. ~Rejected(answer)'
    BY <1>3 DEF NewSession, FreshProcess, Rejected
  <2> QED
    BY <1>3, <2>1 DEF NewSession, FreshProcess, AnswerInv, RejectedIsNoResult
<1>4. CASE Refuse
  BY <1>4, ErrorKeeps DEF Refuse
<1>5. CASE Prepare
  <2>1. ~Rejected(answer)'
    BY <1>5, NoneNotRejected, CallKept DEF Prepare, AnswerInv, Rejected
  <2> QED
    BY <1>5, <2>1 DEF Prepare, AnswerInv, RejectedIsNoResult
<1>6. CASE WaitOrPause
  <2>1. pc = "run" /\ Program[pos].token # "RECV" /\ answer' = answer
    BY <1>6 DEF WaitOrPause, At
  <2>2. pos + 1 # pos + 2
    BY TypeParts DEF TypeInv
  <2>3. CASE Advance(pos + 1)
    BY <2>1, <2>2, <2>3, AdvanceKeeps
  <2> QED
    BY <1>6, <2>3, ErrorKeeps DEF WaitOrPause
<1>7. CASE Send
  <2>1. pc = "run" /\ Program[pos].token # "RECV" /\ answer' = answer
    BY <1>7 DEF Send, At
  <2>2. pos + 1 # pos + 2
    BY TypeParts DEF TypeInv
  <2>3. CASE FollowedByBytes /\ Advance(pos + 2)
    BY <2>1, <2>3, AdvanceKeeps DEF FollowedByBytes
  <2>4. CASE Advance(pos + 1)
    BY <2>1, <2>2, <2>4, AdvanceKeeps
  <2>5. CASE Return("error")
    BY <2>5, ErrorKeeps
  <2> QED
    BY <1>7, <2>3, <2>4, <2>5 DEF Send
<1>8. CASE SendBytes
  <2>1. pc = "run" /\ Program[pos].token # "RECV" /\ answer' = answer
    BY <1>8 DEF SendBytes, At
  <2>2. pos + 1 # pos + 2
    BY TypeParts DEF TypeInv
  <2>3. CASE Advance(pos + 1)
    BY <2>1, <2>2, <2>3, AdvanceKeeps
  <2>4. CASE Return("error")
    BY <2>4, ErrorKeeps
  <2> QED
    BY <1>8, <2>3, <2>4 DEF SendBytes
<1>9. CASE RecvFails
  BY <1>9, ErrorKeeps DEF RecvFails
<1>10. CASE RecvRejected
  <2>1. CASE Return("error")
    BY <2>1, ErrorKeeps
  <2>2. CASE NextRound
    <3>1. pos \in DOMAIN Program /\ Program[pos].token = "RECV" /\ pc = "run"
      BY <1>10 DEF RecvRejected, At
    <3>2. RecvAhead
      BY <3>1, TypeParts DEF RecvAhead, TypeInv
    <3> QED
      BY <2>2, <3>1, <3>2, NextRoundKeeps
  <2> QED
    BY <1>10, <2>1, <2>2 DEF RecvRejected
<1>11. CASE Recv
  <2>1. ~Rejected(answer)'
    BY <1>11 DEF Recv, Return, Rejected, cPtr
  <2>2. pc' \in {"idle", "preDone"}
    BY <1>11 DEF Recv, Return
  <2> QED
    BY <2>1, <2>2 DEF AnswerInv, RejectedIsNoResult
<1>12. CASE EndOfProgram
  <2>1. pc = "run" /\ pos > Len(Program) /\ answer' = answer /\ call' = call
    BY <1>12 DEF EndOfProgram, NextRound, Return
  <2>2. ~RecvAhead
    BY <2>1, TypeParts DEF RecvAhead, TypeInv
  <2>3. ~Rejected(answer) /\ ~Rejected(answer)'
    BY <2>1, <2>2, CallKept DEF AnswerInv, Rejected
  <2>4. CASE NextRound
    BY <2>1, <2>3, <2>4, NextRoundKeeps
  <2>5. CASE Return("nothing")
    BY <2>3, <2>5 DEF Return, AnswerInv, RejectedIsNoResult
  <2> QED
    BY <1>12, <2>4, <2>5 DEF EndOfProgram
<1>13. CASE UnknownToken
  BY <1>13, ErrorKeeps DEF UnknownToken
<1>14. CASE PreSucceeds
  BY <1>14, NoneNotRejected DEF PreSucceeds, Begins, AnswerInv, RejectedIsNoResult
<1>15. CASE PreFails
  BY <1>15 DEF PreFails, AnswerInv, RejectedIsNoResult
<1> QED
  BY <1>1, <1>2, <1>3, <1>4, <1>5, <1>6, <1>7, <1>8, <1>9, <1>10, <1>11, <1>12, <1>13,
     <1>14, <1>15 DEF Next, Step

\* An answer that came too late or equals the error string is never returned as a
\* result, whatever the byte code (the RECV case of execByteCode()).
THEOREM RejectedAnswersFail == Spec => []RejectedIsNoResult
<1>1. AnswerInv => RejectedIsNoResult
  BY DEF AnswerInv
<1> QED
  BY <1>1, AnswerInit, AnswerStep, TypeAlways, PTL DEF Spec

-----------------------------------------------------------------------------
(***************************************************************************)
(* The whole parameter.  While a command runs, what it will send for its   *)
(* parameter is the parameter: the node, if the call has filled it, or     *)
(* execByteCode()'s own length, if it has not.  That the length belongs to *)
(* this call, although sendLen is never reset, is because interactive()    *)
(* sets it with every parameter, and because "unit on" and "unit off" come *)
(* between the calls and not inside them.                                  *)
(***************************************************************************)
ItsLength == IF call.hex \/ ~cPtr.unit THEN Smaller(call.len, cPtr.len) ELSE cPtr.unitLen

OwnParameter == Given /\ ~call.pre

NodeFilled ==
  HasBytes => IF ownLen > 0
                THEN /\ ownLen = ItsLength
                     /\ BytesPos > 1 => Program[BytesPos - 1].token # "SEND"
                ELSE node.len > 0 => node.data = sendBuf /\ node.len = ItsLength

WholeInv ==
  /\ pc \in {"prepare", "run", "preDone"} /\ Given =>
       sendLen = ParameterLen(call.asked, call.len)
  /\ pc \in {"prepare", "run"} /\ ~call.pre => call.cmd = call.asked /\ call.hex = noUnit
  /\ pc = "prepare" => ownLen = sendLen
  /\ BytesFit(call.cmd) /\ OwnParameter /\ pc = "run" => NodeFilled
  /\ BytesFit(call.cmd) => WholeParameter

LEMMA OwnKept ==
  ASSUME call' = call
  PROVE  /\ ItsLength' = ItsLength /\ OwnParameter' = OwnParameter
         /\ BytesFit(call.cmd)' = BytesFit(call.cmd)
         /\ HasBytes' = HasBytes /\ BytesPos' = BytesPos /\ Program' = Program
         /\ sendBuf' = sendBuf /\ Given' = Given
BY CallKept DEF ItsLength, OwnParameter, BytesFit

\* The only BYTES node of a byte code.
LEMMA BytesNodeIs ==
  ASSUME TypeInv, NEW i \in DOMAIN Program, Program[i].token = "BYTES"
  PROVE  HasBytes /\ BytesPos = i
<1>1. call.cmd \in Name /\ Program = Cmd[call.cmd].program
  BY TypeParts DEF TypeInv
<1>2. HasBytes
  BY <1>1 DEF HasBytes, HasBytesNode
<1>3. BytesPos \in DOMAIN Program /\ Program[BytesPos].token = "BYTES"
  BY <1>1, <1>2 DEF HasBytes, HasBytesNode, BytesPos, BytesNodePos
<1> QED
  BY <1>1, <1>2, <1>3, BytesAssumption

\* The property in the terms of this section, now and while the call is the same.
LEMMA WholeIs ==
  WholeParameter <=>
    (OwnParameter => \A m \in sent : m.len > 0 => m.data = sendBuf /\ m.len = ItsLength)
BY DEF WholeParameter, OwnParameter, ItsLength

LEMMA WholeKept ==
  ASSUME call' = call
  PROVE  WholeParameter' <=>
    (OwnParameter => \A m \in sent' : m.len > 0 => m.data = sendBuf /\ m.len = ItsLength)
BY CallKept DEF WholeParameter, OwnParameter, ItsLength

\* What a conversion that is not refused has prepared.
LEMMA PreparedIsWhole ==
  ASSUME TypeInv, WholeInv, Prepare, OwnParameter, BytesFit(call.cmd)
  PROVE  NodeFilled'
<1>1. /\ call' = call /\ pc = "prepare" /\ ~Refused
      /\ call.cmd \in Name /\ Program = Cmd[call.cmd].program /\ cPtr = Cmd[call.cmd]
      /\ bytesNode \in [Name -> [data : Data, len : Nat]]
      /\ ownLen \in Nat
  BY TypeParts DEF Prepare, TypeInv, TypeOK
<1>2. ownLen = ParameterLen(call.cmd, call.len) /\ call.hex = noUnit
  BY <1>1 DEF WholeInv, OwnParameter
<1>3. HasBytes' = HasBytes /\ BytesPos' = BytesPos /\ Program' = Program
      /\ sendBuf' = sendBuf /\ ItsLength' = ItsLength
  BY <1>1, OwnKept
<1>4. CASE ~HasBytes
  BY <1>3, <1>4 DEF NodeFilled
<1>5. CASE HasBytes
  <2>1. BytesPos \in DOMAIN Program /\ Program[BytesPos].token = "BYTES"
    BY <1>1, <1>5 DEF HasBytes, HasBytesNode, BytesPos, BytesNodePos
  <2>2. /\ cPtr.unit <=> Program[BytesPos].unit # ""
        /\ ~cPtr.unit => /\ cPtr.len > 0
                         /\ BytesPos > 1 => Program[BytesPos - 1].token # "SEND"
    BY <1>1, <2>1 DEF BytesFit
  <2>3. CASE call.hex \/ Program[BytesPos].unit # ""
    <3>1. /\ ownLen' = 0
          /\ node' = [data |-> sendBuf, len |-> IF call.hex THEN node.len ELSE cPtr.unitLen]
      BY <1>1, <1>5, <2>3 DEF Prepare, node
    <3>2. call.hex => node.len = ItsLength
      BY <1>1, <1>2, <1>5 DEF Refused, HexRefused, ParameterLen, ItsLength
    <3>3. ~call.hex => cPtr.unitLen = ItsLength
      BY <2>2, <2>3 DEF ItsLength
    <3> QED
      BY <1>3, <3>1, <3>2, <3>3 DEF NodeFilled
  <2>4. CASE ~(call.hex \/ Program[BytesPos].unit # "")
    <3>1. ownLen' = ownLen /\ ~cPtr.unit
      BY <1>5, <2>2, <2>4 DEF Prepare
    <3>2. ownLen = ItsLength
      BY <1>1, <1>2, <3>1 DEF ParameterLen, ItsLength
    <3>3. ownLen > 0
      <4>1. cPtr.len \in Nat
        BY <1>1, CommandType
      <4>2. call.len \in {0} \cup ParaLens /\ call.len > 0
        BY DEF OwnParameter, Given, TypeInv, TypeOK
      <4> QED
        BY <2>2, <3>1, <3>2, <4>1, <4>2, ParaAssumption DEF ItsLength, Smaller
    <3> QED
      BY <1>3, <2>2, <3>1, <3>2, <3>3 DEF NodeFilled
  <2> QED
    BY <2>3, <2>4
<1> QED
  BY <1>4, <1>5

LEMMA WholeStep == TypeInv /\ WholeInv /\ [Next]_vars => WholeInv'
<1> SUFFICES ASSUME TypeInv, WholeInv, [Next]_vars PROVE WholeInv'
  OBVIOUS
<1>1. CASE Unit \/ UNCHANGED vars
  <2>1. UNCHANGED <<bytesNode, sendLen, call, pc, ownLen, sent>>
    BY <1>1 DEF Unit, vars
  <2>2. pc \in {"prepare", "run", "preDone"} => noUnit' = noUnit
    BY <1>1 DEF Unit, vars
  <2>3. node' = node
    BY <2>1 DEF node
  <2>4. WholeParameter' <=> WholeParameter
    BY <2>1, WholeKept, WholeIs
  <2>5. NodeFilled' <=> NodeFilled
    BY <2>1, <2>3, OwnKept DEF NodeFilled
  <2> HIDE <1>1
  <2> QED
    BY <2>1, <2>2, <2>4, <2>5, OwnKept DEF WholeInv, ParameterLen
<1>2. ASSUME NEW c \in Name, NEW n \in {0} \cup ParaLens, NEW good \in BOOLEAN,
             Call(c, n, good)
      PROVE  WholeInv'
  <2>1. /\ call'.asked = c /\ call'.cmd = First(c) /\ call'.pre = HasPre(c)
        /\ call'.len = n /\ call'.hex = (noUnit \/ HasPre(c))
        /\ noUnit' = noUnit /\ noUnit \in BOOLEAN
        /\ pc' = "prepare" /\ ownLen' = sendLen' /\ sent' = {}
        /\ n > 0 => sendLen' = ParameterLen(c, n)
    BY <1>2 DEF Call, Begins, TypeInv, TypeOK
  <2>2. ParameterLen(call.asked, call.len)' = ParameterLen(c, n)
    BY <2>1 DEF ParameterLen
  <2>3. Given' => n > 0
    BY <2>1 DEF Given
  <2>4. ~call'.pre => call'.cmd = call'.asked /\ call'.hex = noUnit'
    BY <2>1 DEF First
  <2>5. WholeParameter'
    BY <2>1 DEF WholeParameter
  <2> HIDE <1>2
  <2> QED
    BY <2>1, <2>2, <2>3, <2>4, <2>5 DEF WholeInv
<1>3. CASE NewSession
  BY <1>3 DEF NewSession, FreshProcess, WholeInv, WholeParameter
\* The call goes on or ends, and nothing is sent.
<1>4. ASSUME UNCHANGED <<sendLen, noUnit, call, ownLen, sent>>,
             pc' = "run" => pc = "run" /\ bytesNode' = bytesNode,
             pc' \notin {"prepare"},
             pc' = "preDone" => pc \in {"prepare", "run", "preDone"}
      PROVE  WholeInv'
  <2>1. WholeParameter' <=> WholeParameter
    BY <1>4, WholeKept, WholeIs
  <2>2. pc' = "run" => (NodeFilled' <=> NodeFilled)
    BY <1>4, OwnKept DEF NodeFilled, node
  <2> QED
    BY <1>4, <2>1, <2>2, OwnKept DEF WholeInv, ParameterLen
<1>5. CASE Refuse \/ PreFails
  <2>1. /\ UNCHANGED <<sendLen, noUnit, call, ownLen, sent>>
        /\ pc' # "run" /\ pc' # "prepare" /\ (pc' = "preDone" => pc = "prepare")
    BY <1>5 DEF Refuse, PreFails, Return
  <2> QED
    BY <1>4, <2>1
<1>6. CASE Prepare
  <2>1. UNCHANGED <<sendLen, noUnit, call, sent>> /\ pc = "prepare" /\ pc' = "run"
    BY <1>6 DEF Prepare
  <2>2. WholeParameter' <=> WholeParameter
    BY <2>1, WholeKept, WholeIs
  <2> QED
    BY <1>6, <2>1, <2>2, PreparedIsWhole, OwnKept DEF WholeInv, ParameterLen
<1>7. CASE WaitOrPause \/ UnknownToken \/ RecvFails \/ RecvRejected \/ Recv \/ EndOfProgram
  BY <1>4, <1>7 DEF WaitOrPause, UnknownToken, RecvFails, RecvRejected, Recv, EndOfProgram,
     At, Advance, NextRound, Return
\* The call goes on or ends with a message, the node being thrown away at most at the end.
<1>8. ASSUME UNCHANGED <<sendLen, noUnit, call, ownLen>>, pc = "run",
             pc' \in {"run", "idle", "preDone"}, pc' = "run" => bytesNode' = bytesNode,
             NEW d, NEW n, Transmits(pos, d, n),
             BytesFit(call.cmd) /\ OwnParameter /\ n > 0 => d = sendBuf /\ n = ItsLength
      PROVE  WholeInv'
  <2>1. BytesFit(call.cmd) => WholeParameter'
    <3>1. \A m \in sent' : m \in sent \/ (m.data = d /\ m.len = n)
      BY <1>8 DEF Transmits
    <3> QED
      BY <1>8, <3>1, WholeKept, WholeIs DEF WholeInv
  <2>2. pc' = "run" => (NodeFilled' <=> NodeFilled)
    BY <1>8, OwnKept DEF NodeFilled, node
  <2> QED
    BY <1>8, <2>1, <2>2, OwnKept DEF WholeInv, ParameterLen
<1>9. CASE Send
  <2>1. /\ UNCHANGED <<sendLen, noUnit, call, ownLen, bytesNode>> /\ pc = "run"
        /\ pc' \in {"run", "idle", "preDone"}
    BY <1>9 DEF Send, At, Advance, Return
  <2>2. CASE FollowedByBytes
    <3>1. /\ pos \in DOMAIN Program /\ Program[pos].token = "SEND"
          /\ pos \in Nat /\ pos >= 1 /\ ownLen \in Nat
      BY <1>9, TypeParts DEF Send, At, TypeInv
    <3>2. HasBytes /\ BytesPos = pos + 1
      BY <2>2, BytesNodeIs DEF FollowedByBytes
    <3>3. pos + 1 > 1 /\ (pos + 1) - 1 = pos
      BY <3>1
    <3>4. BytesFit(call.cmd) /\ OwnParameter /\ node.len > 0 =>
            node.data = sendBuf /\ node.len = ItsLength
      BY <2>1, <3>1, <3>2, <3>3 DEF WholeInv, NodeFilled
    <3>5. Transmits(pos, node.data, node.len)
      BY <1>9, <2>2 DEF Send
    <3> QED
      BY <1>8, <2>1, <3>4, <3>5
  <2>3. CASE ~FollowedByBytes
    <3>1. Transmits(pos, NoBytes.data, 0)
      BY <1>9, <2>3 DEF Send
    <3> QED
      BY <1>8, <2>1, <3>1
  <2> QED
    BY <2>2, <2>3
<1>10. CASE SendBytes
  <2>1. /\ UNCHANGED <<sendLen, noUnit, call, ownLen>> /\ pc = "run"
        /\ pc' \in {"run", "idle", "preDone"} /\ (pc' = "run" => bytesNode' = bytesNode)
        /\ pos \in DOMAIN Program /\ Program[pos].token = "BYTES"
    BY <1>10 DEF SendBytes, At, Advance, Return
  <2>2. HasBytes /\ (BytesFit(call.cmd) /\ OwnParameter => NodeFilled)
    BY <2>1, BytesNodeIs DEF WholeInv
  <2>3. CASE ownLen > 0
    <3>1. Transmits(pos, sendBuf, ownLen)
      BY <1>10, <2>3 DEF SendBytes
    <3>2. BytesFit(call.cmd) /\ OwnParameter => ownLen = ItsLength
      BY <2>2, <2>3 DEF NodeFilled
    <3> QED
      BY <1>8, <2>1, <3>1, <3>2
  <2>4. CASE ~(ownLen > 0) /\ node.len > 0
    <3>1. Transmits(pos, node.data, node.len)
      BY <1>10, <2>4 DEF SendBytes
    <3>2. BytesFit(call.cmd) /\ OwnParameter =>
            node.data = sendBuf /\ node.len = ItsLength
      BY <2>2, <2>4 DEF NodeFilled
    <3> QED
      BY <1>8, <2>1, <3>1, <3>2
  <2>5. CASE ~(ownLen > 0) /\ ~(node.len > 0)
    BY <1>4, <1>10, <2>1, <2>5 DEF SendBytes
  <2> QED
    BY <2>3, <2>4, <2>5
<1>11. CASE PreSucceeds
  <2>1. /\ call'.asked = call.asked /\ call'.cmd = call.asked /\ call'.len = call.len
        /\ call'.hex = noUnit /\ noUnit' = noUnit /\ sendLen' = sendLen
        /\ pc = "preDone" /\ pc' = "prepare" /\ ownLen' = sendLen' /\ sent' = {}
    BY <1>11 DEF PreSucceeds, Begins, TypeInv, TypeOK
  <2>2. Given' = Given
        /\ ParameterLen(call.asked, call.len)' = ParameterLen(call.asked, call.len)
    BY <2>1 DEF Given, ParameterLen
  <2>3. WholeParameter'
    BY <2>1 DEF WholeParameter
  <2> HIDE <1>11
  <2> QED
    BY <2>1, <2>2, <2>3 DEF WholeInv
<1> QED
  BY <1>1, <1>2, <1>3, <1>5, <1>6, <1>7, <1>9, <1>10, <1>11 DEF Next, Step

\* A command whose BYTES node has the unit of the command, or none and stands alone,
\* sends its own parameter and all of it in every round, whatever other commands the
\* device has and whatever has been called before (interactive() and execByteCode()).
THEOREM FittingParameterIsWhole == Spec => [](BytesFit(call.cmd) => WholeParameter)
<1>1. Init => WholeInv
  BY DEF Init, WholeInv, WholeParameter
<1>2. WholeInv => (BytesFit(call.cmd) => WholeParameter)
  BY DEF WholeInv
<1> QED
  BY <1>1, <1>2, WholeStep, TypeAlways, PTL DEF Spec

\* Where all commands are of that shape, as in the configurations of the repository but
\* for the GWG test commands, no command sends another's parameter, or part of its own.
THEOREM ParameterIsWhole ==
  ASSUME \A c \in Name : BytesFit(c)
  PROVE  Spec => []WholeParameter
<1>1. TypeInv => BytesFit(call.cmd)
  BY DEF TypeInv, TypeOK
<1> QED
  BY <1>1, FittingParameterIsWhole, TypeAlways, PTL

-----------------------------------------------------------------------------
(***************************************************************************)
(* The line as it is written.  A message is told by its place in the byte  *)
(* code, so that what has to be known is that no message before it is left *)
(* out in the same round, that execByteCode() never stands at a parameter  *)
(* that belongs to the message before it, and that the node of such a      *)
(* parameter is never empty.                                               *)
(***************************************************************************)
\* The parameter that a SEND takes along.
Merged(c, i) == /\ i \in DOMAIN Cmd[c].program /\ Cmd[c].program[i].token = "BYTES"
                /\ i > 1 /\ Cmd[c].program[i - 1].token = "SEND"

SentBefore(round, at) ==
  \A i \in 1..(at - 1) :
    IsSend(Program[i]) => \E n \in sent : n.round = round /\ n.at = i

AsInProgram(m) ==
  /\ m.fixed = Program[m.at].bytes
  /\ Program[m.at].token \in {"SEND", "BYTES"}
  /\ IsSend(Program[m.at]) =>
       (m.len > 0 <=> m.at < Len(Program) /\ Program[m.at + 1].token = "BYTES")
  /\ SentBefore(m.round, m.at)

WrittenInv ==
  /\ \A c \in Name : (\E i \in Nat : Merged(c, i)) => bytesNode[c].len > 0
  /\ pc = "prepare" => pos = 1
  /\ pc = "run" => ~Merged(call.cmd, pos) /\ SentBefore(Round, pos)
  /\ \A m \in sent : AsInProgram(m)

LEMMA MergedIs ==
  ASSUME NEW c \in Name, NEW i \in Nat, Merged(c, i)
  PROVE  HasBytesNode(c) /\ BytesNodePos(c) = i
<1>1. HasBytesNode(c)
  BY DEF HasBytesNode, Merged
<1>2. BytesNodePos(c) \in DOMAIN Cmd[c].program
      /\ Cmd[c].program[BytesNodePos(c)].token = "BYTES"
  BY <1>1 DEF HasBytesNode, BytesNodePos
<1> QED
  BY <1>1, <1>2, BytesAssumption DEF Merged

\* As compiled, the nodes have what compileCommand() gives them.
LEMMA CompiledIsFilled ==
  ASSUME NEW c \in Name, BytesHaveLength(c), NEW i \in Nat, Merged(c, i)
  PROVE  Compiled[c].len > 0
<1>1. HasBytesNode(c) /\ BytesNodePos(c) = i
  BY MergedIs
<1>2. Compiled[c].len = Cmd[c].program[i].len
  BY <1>1 DEF Compiled, Leftover
<1>3. Cmd[c].program[i].len > 0
  BY Zenon DEF BytesHaveLength, Merged
<1> QED
  BY <1>2, <1>3

\* Nothing is taken back while the call is the same.
LEMMA SentBeforeKept ==
  ASSUME call' = call, sent \subseteq sent', NEW round, NEW at, SentBefore(round, at)
  PROVE  SentBefore(round, at)'
BY CallKept DEF SentBefore

LEMMA AsInProgramKept ==
  ASSUME call' = call, sent \subseteq sent', NEW m, AsInProgram(m)
  PROVE  AsInProgram(m)'
<1>1. Program' = Program
  BY CallKept
<1>2. SentBefore(m.round, m.at)'
  BY SentBeforeKept DEF AsInProgram
<1> QED
  BY <1>1, <1>2 DEF AsInProgram

\* The next node, or the one behind a parameter.
LEMMA NextNode ==
  ASSUME TypeInv, pos \in DOMAIN Program, SentBefore(Round, pos),
         IsSend(Program[pos]) => \E n \in sent' : n.round = Round /\ n.at = pos,
         call' = call, retry' = retry, sent \subseteq sent',
         pos' = pos + 1 \/ (pos' = pos + 2 /\ FollowedByBytes)
  PROVE  SentBefore(Round, pos)'
<1>1. Program' = Program /\ Round' = Round
  BY CallKept DEF Round
<1>2. pos \in Nat
  BY TypeParts DEF TypeInv
<1>3. ASSUME NEW i \in 1..(pos' - 1), IsSend(Program[i])
      PROVE  \E n \in sent' : n.round = Round /\ n.at = i
  <2>1. i \in 1..(pos - 1) \/ i = pos \/ (i = pos + 1 /\ FollowedByBytes)
    BY <1>2
  <2>2. ~(i = pos + 1 /\ FollowedByBytes)
    BY <1>3 DEF FollowedByBytes, IsSend
  <2> QED
    BY <1>3, <2>1, <2>2 DEF SentBefore
<1> QED
  BY <1>1, <1>3 DEF SentBefore

\* Behind a node that is no SEND, or a SEND that has taken its parameter along, there
\* is no parameter that belongs to another node.
LEMMA NotBehindSend ==
  ASSUME TypeInv, pos \in DOMAIN Program, call' = call,
         \/ pos' = pos + 1 /\ (IsSend(Program[pos]) => ~FollowedByBytes)
         \/ pos' = pos + 2 /\ FollowedByBytes
  PROVE  ~Merged(call.cmd, pos)'
<1>1. pos \in Nat /\ Program = Cmd[call.cmd].program /\ call'.cmd = call.cmd
  BY TypeParts DEF TypeInv
<1>2. CASE pos' = pos + 1 /\ (IsSend(Program[pos]) => ~FollowedByBytes)
  <2>1. pos' - 1 = pos
    BY <1>1, <1>2
  <2> QED
    BY <1>1, <1>2, <2>1 DEF Merged, FollowedByBytes, IsSend
<1>3. CASE pos' = pos + 2 /\ FollowedByBytes
  <2>1. pos' - 1 = pos + 1
    BY <1>1, <1>3
  <2> QED
    BY <1>1, <1>3, <2>1 DEF Merged, FollowedByBytes
<1> QED
  BY <1>2, <1>3

\* The call goes on at the same node or the next, or comes to its end.
LEMMA GoesOnAsWritten ==
  ASSUME TypeInv, WrittenInv, pc = "run", call' = call, retry' = retry,
         pc' \in {"run", "idle", "preDone", "ended"}, sent \subseteq sent',
         \A c \in Name : (\E i \in Nat : Merged(c, i)) => bytesNode'[c].len > 0,
         \A m \in sent' : m \in sent \/ AsInProgram(m)',
         pc' = "run" => ~Merged(call.cmd, pos)' /\ SentBefore(Round, pos)'
  PROVE  WrittenInv'
<1>1. \A m \in sent' : AsInProgram(m)'
  BY AsInProgramKept DEF WrittenInv
<1> QED
  BY <1>1 DEF WrittenInv, Merged

LEMMA NewMessageAsWritten ==
  ASSUME TypeInv, WrittenInv, pc = "run", pos \in DOMAIN Program, call' = call,
         NEW d, NEW n, Transmits(pos, d, n),
         Program[pos].token \in {"SEND", "BYTES"},
         IsSend(Program[pos]) => (n > 0 <=> FollowedByBytes)
  PROVE  /\ sent \subseteq sent'
         /\ \A m \in sent' : m \in sent \/ AsInProgram(m)'
         /\ \E m \in sent' : m.round = Round /\ m.at = pos
<1>1. PICK s : /\ sent' = sent \cup {s}
               /\ s.round = Round /\ s.at = pos /\ s.fixed = Program[pos].bytes /\ s.len = n
  <2> DEFINE t == [round |-> Round, at |-> pos, fixed |-> Program[pos].bytes,
                   data |-> d, len |-> n]
  <2>1. sent' = sent \cup {t}
    BY DEF Transmits
  <2>2. t.round = Round /\ t.at = pos /\ t.fixed = Program[pos].bytes /\ t.len = n
    OBVIOUS
  <2> HIDE DEF t
  <2> QED
    BY <2>1, <2>2, Zenon
<1>2. SentBefore(s.round, s.at)
  BY <1>1 DEF WrittenInv
<1>3. SentBefore(s.round, s.at)'
  BY <1>1, <1>2, SentBeforeKept
<1>4. Program' = Program
  BY CallKept
<1>5. pos + 1 \in DOMAIN Program <=> pos < Len(Program)
  BY TypeParts DEF TypeInv
<1>6. FollowedByBytes <=> pos < Len(Program) /\ Program[pos + 1].token = "BYTES"
  BY <1>5 DEF FollowedByBytes
<1>7. AsInProgram(s)'
  <2>1. s.fixed = Program'[s.at].bytes /\ Program'[s.at].token \in {"SEND", "BYTES"}
    BY <1>1, <1>4
  <2>2. IsSend(Program'[s.at]) =>
          (s.len > 0 <=> s.at < Len(Program') /\ Program'[s.at + 1].token = "BYTES")
    BY <1>1, <1>4, <1>6
  <2> QED
    BY <1>3, <2>1, <2>2 DEF AsInProgram, IsSend
<1> QED
  BY <1>1, <1>7

\* A conversion leaves bytes to send where there were some.
LEMMA PreparedIsFilled ==
  ASSUME TypeInv, WrittenInv, Prepare, \A c \in Name : BytesHaveLength(c)
  PROVE  \A c \in Name : (\E i \in Nat : Merged(c, i)) => bytesNode'[c].len > 0
<1> SUFFICES ASSUME NEW c \in Name, NEW i \in Nat, Merged(c, i)
             PROVE  bytesNode'[c].len > 0
  OBVIOUS
<1>1. bytesNode[c].len > 0
  BY DEF WrittenInv
<1>2. bytesNode \in [Name -> [data : Data, len : Nat]] /\ call.cmd \in Name
  BY DEF TypeInv, TypeOK
<1>3. CASE HasBytes /\ (call.hex \/ Program[BytesPos].unit # "") /\ c = call.cmd
  <2> DEFINE l == IF call.hex THEN node.len ELSE cPtr.unitLen
  <2>1. bytesNode' = [bytesNode EXCEPT ![call.cmd] = [data |-> sendBuf, len |-> l]]
    BY <1>3, Zenon DEF Prepare, node
  <2>2. i \in DOMAIN Program /\ BytesPos = i /\ Program[i].token = "BYTES"
    BY <1>3, MergedIs DEF Merged, Program, cPtr, BytesPos
  <2>3. ~call.hex => cPtr.unitLen > 0
    BY <1>2, <1>3, <2>2, Zenon DEF BytesHaveLength, Program, cPtr
  <2>4. l > 0
    BY <1>1, <1>3, <2>3 DEF node
  <2> HIDE DEF l
  <2> QED
    BY <1>2, <1>3, <2>1, <2>4
<1>4. CASE ~(HasBytes /\ (call.hex \/ Program[BytesPos].unit # ""))
  <2>1. bytesNode' = bytesNode
    BY <1>4, Zenon DEF Prepare
  <2> QED
    BY <1>1, <2>1
<1>5. CASE HasBytes /\ (call.hex \/ Program[BytesPos].unit # "") /\ c # call.cmd
  <2>1. \E v : bytesNode' = [bytesNode EXCEPT ![call.cmd] = v]
    BY <1>5, Zenon DEF Prepare
  <2> QED
    BY <1>1, <1>2, <1>5, <2>1
<1> QED
  BY <1>3, <1>4, <1>5, Zenon

LEMMA WrittenInit ==
  ASSUME \A c \in Name : BytesHaveLength(c)
  PROVE  Init => WrittenInv
<1> SUFFICES ASSUME Init PROVE WrittenInv
  OBVIOUS
<1>1. bytesNode = Compiled /\ pc = "idle" /\ sent = {}
  BY DEF Init
<1> QED
  BY <1>1, CompiledIsFilled DEF WrittenInv

LEMMA WrittenStep ==
  ASSUME \A c \in Name : BytesHaveLength(c)
  PROVE  TypeInv /\ WrittenInv /\ [Next]_vars => WrittenInv'
<1> SUFFICES ASSUME TypeInv, WrittenInv, [Next]_vars PROVE WrittenInv'
  OBVIOUS
<1>0. \A c \in Name : (\E i \in Nat : Merged(c, i)) => bytesNode[c].len > 0
  BY DEF WrittenInv
<1>1. CASE Unit \/ UNCHANGED vars
  <2>1. UNCHANGED <<bytesNode, call, pc, pos, retry, sent>>
    BY <1>1 DEF Unit, vars
  <2>2. Program' = Program /\ Round' = Round
    BY <2>1, CallKept DEF Round
  <2>3. SentBefore(Round, pos)' <=> SentBefore(Round, pos)
    BY <2>1, <2>2 DEF SentBefore
  <2>4. \A m \in sent : AsInProgram(m)'
    BY <2>1, AsInProgramKept DEF WrittenInv
  <2> QED
    BY <2>1, <2>3, <2>4 DEF WrittenInv, Merged
<1>2. CASE \/ \E c \in Name, n \in {0} \cup ParaLens, good \in BOOLEAN : Call(c, n, good)
           \/ PreSucceeds
  <2>1. bytesNode' = bytesNode /\ sent' = {} /\ pc' = "prepare" /\ pos' = 1
    BY <1>2 DEF Call, PreSucceeds, Begins
  <2> QED
    BY <1>0, <2>1 DEF WrittenInv
<1>3. CASE NewSession
  <2>1. bytesNode' = Compiled /\ sent' = {} /\ pc' = "idle"
    BY <1>3 DEF NewSession, FreshProcess
  <2> QED
    BY <2>1, CompiledIsFilled DEF WrittenInv
\* The call ends without a message.
<1>4. ASSUME call' = call, sent' = sent, bytesNode' = bytesNode, pc' \notin {"prepare", "run"}
      PROVE  WrittenInv'
  <2>1. \A m \in sent' : AsInProgram(m)'
    BY <1>4, AsInProgramKept DEF WrittenInv
  <2> QED
    BY <1>0, <1>4, <2>1 DEF WrittenInv
<1>5. CASE Refuse \/ PreFails \/ UnknownToken \/ RecvFails \/ Recv
  <2>1. call' = call /\ sent' = sent /\ bytesNode' = bytesNode /\ pc' \notin {"prepare", "run"}
    BY <1>5 DEF Refuse, PreFails, UnknownToken, RecvFails, Recv, Return
  <2> QED
    BY <1>4, <2>1
<1>6. CASE Prepare
  <2>1. UNCHANGED <<call, pos, retry, sent>> /\ pc = "prepare" /\ pc' = "run" /\ pos = 1
    BY <1>6 DEF Prepare, WrittenInv
  <2>2. \A m \in sent' : AsInProgram(m)'
    BY <2>1, AsInProgramKept DEF WrittenInv
  <2>3. ~Merged(call.cmd, pos)' /\ SentBefore(Round, pos)'
    BY <2>1 DEF Merged, SentBefore
  <2>4. \A c \in Name : (\E i \in Nat : Merged(c, i)) => bytesNode'[c].len > 0
    BY <1>6, PreparedIsFilled
  <2> QED
    BY <2>1, <2>2, <2>3, <2>4 DEF WrittenInv
<1>7. ASSUME NextRound, pc = "run", bytesNode' = bytesNode, sent' = sent
      PROVE  WrittenInv'
  <2>1. call' = call /\ pos' = 1 /\ pc' = "run"
    BY <1>7 DEF NextRound
  <2>2. \A m \in sent' : AsInProgram(m)'
    BY <1>7, <2>1, AsInProgramKept DEF WrittenInv
  <2>3. ~Merged(call.cmd, pos)' /\ SentBefore(Round, pos)'
    BY <2>1 DEF Merged, SentBefore
  <2> QED
    BY <1>0, <1>7, <2>1, <2>2, <2>3 DEF WrittenInv
<1>8. CASE RecvRejected
  <2>1. CASE Return("error")
    BY <1>4, <1>8, <2>1 DEF RecvRejected, Return
  <2> QED
    BY <1>7, <1>8, <2>1 DEF RecvRejected, At
<1>9. CASE EndOfProgram
  <2>1. CASE Return("nothing")
    BY <1>4, <1>9, <2>1 DEF EndOfProgram, Return
  <2> QED
    BY <1>7, <1>9, <2>1 DEF EndOfProgram
<1>10. CASE WaitOrPause
  <2>1. /\ pc = "run" /\ pos \in DOMAIN Program /\ ~IsSend(Program[pos])
        /\ bytesNode' = bytesNode /\ sent' = sent
    BY <1>10 DEF WaitOrPause, At, IsSend
  <2>2. CASE Return("error")
    BY <1>4, <2>1, <2>2 DEF Return
  <2>3. CASE Advance(pos + 1)
    <3>1. call' = call /\ retry' = retry /\ pos' = pos + 1 /\ pc' = "run"
      BY <2>1, <2>3 DEF Advance
    <3>2. SentBefore(Round, pos)'
      BY <2>1, <3>1, NextNode DEF WrittenInv
    <3>3. ~Merged(call.cmd, pos)'
      BY <2>1, <3>1, NotBehindSend
    <3> QED
      BY <1>0, <2>1, <3>1, <3>2, <3>3, GoesOnAsWritten
  <2> QED
    BY <1>10, <2>2, <2>3 DEF WaitOrPause
<1>11. CASE Send
  <2>1. /\ pc = "run" /\ pos \in DOMAIN Program /\ Program[pos].token = "SEND"
        /\ bytesNode' = bytesNode /\ call' = call /\ retry' = retry
        /\ pc' \in {"run", "idle", "preDone"}
    BY <1>11 DEF Send, At, Advance, Return
  <2>2. FollowedByBytes => node.len > 0
    <3>1. pos \in Nat /\ pos >= 1 /\ call.cmd \in Name
      BY TypeParts DEF TypeInv
    <3>2. pos + 1 \in Nat /\ pos + 1 > 1 /\ (pos + 1) - 1 = pos
      BY <3>1
    <3>3. FollowedByBytes => Merged(call.cmd, pos + 1)
      BY <2>1, <3>2 DEF FollowedByBytes, Merged, Program, cPtr
    <3> QED
      BY <1>0, <3>1, <3>2, <3>3 DEF node
  <2>3. \E d, n : Transmits(pos, d, n) /\ (n > 0 <=> FollowedByBytes)
    <3>1. CASE FollowedByBytes
      BY <1>11, <2>2, <3>1 DEF Send
    <3>2. CASE ~FollowedByBytes
      <4>1. Transmits(pos, NoBytes.data, 0)
        BY <1>11, <3>2 DEF Send
      <4> QED
        BY <3>2, <4>1
    <3> QED
      BY <3>1, <3>2
  <2>4. /\ sent \subseteq sent'
        /\ \A m \in sent' : m \in sent \/ AsInProgram(m)'
        /\ \E m \in sent' : m.round = Round /\ m.at = pos
    BY <2>1, <2>3, NewMessageAsWritten
  <2>5. pc' = "run" => \/ pos' = pos + 1 /\ ~FollowedByBytes
                       \/ pos' = pos + 2 /\ FollowedByBytes
    BY <1>11 DEF Send, Advance, Return
  <2>6. pc' = "run" => SentBefore(Round, pos)'
    BY <2>1, <2>4, <2>5, NextNode DEF WrittenInv
  <2>7. pc' = "run" => ~Merged(call.cmd, pos)'
    BY <2>1, <2>5, NotBehindSend
  <2> QED
    BY <1>0, <2>1, <2>4, <2>6, <2>7, GoesOnAsWritten
<1>12. CASE SendBytes
  <2>1. /\ pc = "run" /\ pos \in DOMAIN Program /\ Program[pos].token = "BYTES"
        /\ call' = call /\ retry' = retry
        /\ pc' \in {"run", "idle", "preDone"} /\ (pc' = "run" => pos' = pos + 1)
    BY <1>12 DEF SendBytes, At, Advance, Return
  <2>2. \A c \in Name : (\E i \in Nat : Merged(c, i)) => bytesNode'[c].len > 0
    <3> SUFFICES ASSUME NEW c \in Name, NEW i \in Nat, Merged(c, i)
                 PROVE  bytesNode'[c].len > 0
      OBVIOUS
    <3>1. c # call.cmd
      <4>1. BytesPos = pos /\ ~Merged(call.cmd, pos)
        BY <2>1, BytesNodeIs DEF WrittenInv
      <4> QED
        BY <4>1, MergedIs DEF BytesPos
    <3>2. bytesNode' = bytesNode \/ bytesNode' = [bytesNode EXCEPT ![call.cmd] = NoBytes]
      BY <1>12 DEF SendBytes
    <3> QED
      BY <1>0, <3>1, <3>2 DEF TypeInv, TypeOK
  <2>3. /\ sent \subseteq sent'
        /\ \A m \in sent' : m \in sent \/ AsInProgram(m)'
    <3>1. CASE sent' = sent
      BY <3>1
    <3>2. CASE \E d, n : Transmits(pos, d, n)
      BY <2>1, <3>2, NewMessageAsWritten DEF IsSend
    <3> QED
      BY <1>12, <3>1, <3>2 DEF SendBytes
  <2>4. pc' = "run" => SentBefore(Round, pos)' /\ ~Merged(call.cmd, pos)'
    BY <2>1, <2>3, NextNode, NotBehindSend DEF WrittenInv, IsSend
  <2> QED
    BY <2>1, <2>2, <2>3, <2>4, GoesOnAsWritten
<1> QED
  BY <1>1, <1>2, <1>3, <1>5, <1>6, <1>8, <1>9, <1>10, <1>11, <1>12 DEF Next, Step

\* Where the byte code of every command is that of its document, what goes over the line
\* is what the document says, in its order and nothing left out, and a parameter exactly
\* where the line has one: in every round, in every call, whatever was called, refused or
\* broken off before (execByteCode()).
THEOREM LinesGoAsWritten ==
  ASSUME \A c \in Name : CompiledAsWritten(c) /\ BytesHaveLength(c)
  PROVE  Spec => []RunsAsWritten
<1>1. Init => RoundInv
  BY DEF Init, RoundInv, RoundsAlike
<1>2. TypeInv /\ RoundInv /\ WrittenInv => RunsAsWritten
  <2> SUFFICES ASSUME TypeInv, RoundInv, WrittenInv PROVE RunsAsWritten
    OBVIOUS
  <2>1. Program = Written[call.cmd] /\ DOMAIN Program = 1..Len(Program)
    <3>1. call.cmd \in Name /\ DOMAIN Program = 1..Len(Program)
      BY TypeParts DEF TypeInv
    <3>2. Cmd[call.cmd].program = Written[call.cmd]
      BY <3>1, Zenon DEF CompiledAsWritten
    <3> QED
      BY <3>1, <3>2 DEF Program, cPtr
  <2>2. /\ pos \in 1..(Len(Program) + 1) /\ RoundsAlike
        /\ \A m \in sent : m.at \in DOMAIN Program
    BY TypeParts DEF TypeInv, TypeOK, RoundInv, Messages
  <2>3. \A m \in sent : AsInProgram(m)
    BY DEF WrittenInv
  <2> DEFINE w == Written[call.cmd]
  <2>4. /\ pos \in 1..(Len(w) + 1)
        /\ pos <= Len(w) => Program[pos] = w[pos]
    BY <2>1, <2>2
  <2>5. ASSUME NEW m \in sent
        PROVE  /\ m.at \in DOMAIN w /\ m.fixed = w[m.at].bytes
               /\ w[m.at].token \in {"SEND", "BYTES"}
               /\ IsSend(w[m.at]) =>
                    (m.len > 0 <=> m.at < Len(w) /\ w[m.at + 1].token = "BYTES")
               /\ \A i \in 1..(m.at - 1) :
                    IsSend(w[i]) => \E n \in sent : n.round = m.round /\ n.at = i
    <3>1. m.at \in DOMAIN Program /\ AsInProgram(m)
      BY <2>2, <2>3
    <3> HIDE DEF w
    <3>2. Program = w
      BY <2>1 DEF w
    <3> QED
      BY <3>1, <3>2, Zenon DEF AsInProgram, SentBefore
  <2>6. RoundsAlike
    BY <2>2
  <2> QED
    BY <2>4, <2>5, <2>6 DEF RunsAsWritten
<1>3. Init => WrittenInv
  BY WrittenInit
<1>4. TypeInv /\ WrittenInv /\ [Next]_vars => WrittenInv'
  BY WrittenStep
<1> QED
  BY <1>1, <1>2, <1>3, <1>4, RoundStep, TypeAlways, PTL DEF Spec
=============================================================================
