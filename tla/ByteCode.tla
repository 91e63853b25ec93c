------------------------------ MODULE ByteCode ------------------------------
(***************************************************************************)
(* Commands that a session executes on its open device: interactive()      *)
(* prepares the parameter and execByteCode() of parser.c runs the byte     *)
(* code.  The nodes of the byte code belong to the process and outlive the *)
(* command that fills them; so does interactive()'s length of the          *)
(* parameter.  Commands are called in any order, with and without a        *)
(* parameter, with and without unit conversion, after a pre command where  *)
(* the configuration has one; what framer.c makes of a message or an       *)
(* answer (Framer) is any outcome here.                                    *)
(*                                                                         *)
(* Bytes are not told one by one: data say what they are, and which call's.*)
(***************************************************************************)
EXTENDS Integers, Sequences

CONSTANTS
  Name,        \* the commands of the device
  Cmd,         \* what the configuration says of each
  ParaLens,    \* how many bytes or characters a parameter may have
  MaxCalls     \* bound: calls of commands

\* The nodes of the byte code (Compiler): token, bytes to send or wait for, length, and
\* the name of their unit (uPtr), or "".
TokenType == {"WAIT", "SEND", "RECV", "PAUSE", "BYTES", "unknown"}
CompileNode == [token : TokenType, bytes : Seq(0..255), len : Nat, unit : STRING]

\* len, unit: <len>, and whether there is a <unit>; unitLen: how many bytes the unit
\* makes of a value; noPara: it makes them of no value, too; errStr, timeout, retry:
\* error string, receive timeout, number of retries; pre: the name in <precommand>.
Command == [program : Seq(CompileNode),
            len : Nat, unit : BOOLEAN, unitLen : Nat, noPara : BOOLEAN,
            errStr : BOOLEAN, timeout : BOOLEAN, retry : Nat, pre : STRING]

ASSUME CommandAssumption == Cmd \in [Name -> Command]
ASSUME BytesAssumption ==
  \A c \in Name : \A i, j \in DOMAIN Cmd[c].program :
    Cmd[c].program[i].token = "BYTES" /\ Cmd[c].program[j].token = "BYTES" => i = j
ASSUME NameAssumption == Name # {}
ASSUME ParaAssumption == ParaLens \subseteq Nat \ {0} /\ MaxCalls \in Nat

VARIABLES
  bytesNode,   \* send and len of each command's BYTES node
  sendLen,     \* interactive(): length of the parameter, never reset
  noUnit,      \* interactive(): "unit off"
  call,        \* the call: its number, the command asked for, the one that executes,
               \* whether that is the pre command, the parameter, and supressUnit
  pc,          \* "idle", "prepare", "run", "preDone", or "ended" with the session
  preOutcome,  \* what the pre command of this call has returned
  pos,         \* execByteCode(): the node at which cmpPtr stands
  ownLen,      \* execByteCode(): its own sendLen
  retry,       \* execByteCode(): retry
  sent,        \* messages of this call: round, node and what BYTES added
  answer,      \* what the last RECV of this call got
  outcome      \* the return value of the call

vars == <<bytesNode, sendLen, noUnit, call, pc, preOutcome, pos, ownLen, retry, sent, answer, outcome>>

-----------------------------------------------------------------------------
Data == [what : {"leftover", "zeros", "blank", "param"}, id : 0..MaxCalls]

HasBytesNode(c) == \E i \in DOMAIN Cmd[c].program : Cmd[c].program[i].token = "BYTES"
BytesNodePos(c) == CHOOSE i \in DOMAIN Cmd[c].program : Cmd[c].program[i].token = "BYTES"

\* The BYTES node as compiled has a byte that is none of the command's.
Leftover(len) == [data |-> [what |-> "leftover", id |-> 0], len |-> len]
NoBytes       == Leftover(0)
Compiled      == [c \in Name |-> IF HasBytesNode(c)
                                   THEN Leftover(Cmd[c].program[BytesNodePos(c)].len)
                                   ELSE NoBytes]
SomeName      == CHOOSE c \in Name : TRUE
NoCall        == [id |-> 0, asked |-> SomeName, cmd |-> SomeName, pre |-> FALSE,
                  len |-> 0, good |-> FALSE, hex |-> FALSE]

\* The command that is executing, its byte code and its BYTES node.
cPtr     == Cmd[call.cmd]
Program  == cPtr.program
HasBytes == HasBytesNode(call.cmd)
BytesPos == BytesNodePos(call.cmd)
node     == bytesNode[call.cmd]
Smaller(m, n) == IF m <= n THEN m ELSE n

Given == call.len > 0

\* A pre command that the device does not have is not executed.
HasPre(c) == Cmd[c].pre \in Name
First(c)  == IF HasPre(c) THEN Cmd[c].pre ELSE c

\* sendBuf: zeroed, then the parameter, or a blank for a pre command to set it.
sendBuf == [what |-> IF Given THEN "param"
                     ELSE IF HasPre(call.asked) THEN "blank" ELSE "zeros",
            id   |-> call.id]

FreshProcess ==
  /\ bytesNode' = Compiled
  /\ sendLen' \in {0} \cup ParaLens         \* not initialised
  /\ noUnit' = FALSE
  /\ pc' = "idle" /\ preOutcome' = "none" /\ pos' = 1 /\ ownLen' = 0 /\ retry' = 0
  /\ sent' = {} /\ answer' = "none" /\ outcome' = "none"

Init ==
  /\ bytesNode = Compiled /\ sendLen \in {0} \cup ParaLens /\ noUnit = FALSE
  /\ call = NoCall
  /\ pc = "idle" /\ preOutcome = "none" /\ pos = 1 /\ ownLen = 0 /\ retry = 0
  /\ sent = {} /\ answer = "none" /\ outcome = "none"

(***************************************************************************)
(* interactive()                                                           *)
(***************************************************************************)
Unit ==
  /\ pc = "idle"
  /\ noUnit' = ~noUnit
  /\ UNCHANGED <<bytesNode, sendLen, call, pc, preOutcome, pos, ownLen, retry, sent,
                 answer, outcome>>

\* Variant: too many hex bytes are not cut off.
ParameterLen_Uncut(c, n) == n

\* A parameter is given as hex bytes, of which no more than the command's length
\* are taken, or as text for the unit; n = 0 is no parameter.
ParameterLen(c, n) == IF noUnit \/ ~Cmd[c].unit THEN Smaller(n, Cmd[c].len) ELSE n

\* execByteCode() is called for a command: with the parameter in sendBuf, and sendLen.
Begins(c) ==
  /\ pc' = "prepare" /\ pos' = 1 /\ ownLen' = sendLen' /\ retry' = Cmd[c].retry
  /\ sent' = {} /\ answer' = "none" /\ outcome' = "none"

\* A pre command comes first, always without units; a parameter that is not given is a
\* blank then.
Call(c, n, good) ==
  /\ pc = "idle"
  /\ call.id < MaxCalls
  /\ call' = [id |-> call.id + 1, asked |-> c, cmd |-> First(c), pre |-> HasPre(c),
              len |-> n, good |-> good, hex |-> noUnit \/ HasPre(c)]
  /\ sendLen' = IF n > 0 THEN ParameterLen(c, n)
                ELSE IF HasPre(c) THEN 1 ELSE sendLen
  /\ Begins(First(c))
  /\ preOutcome' = "none"
  /\ UNCHANGED <<bytesNode, noUnit>>

\* Variant: the command is executed whatever has become of its pre command.
PreSucceeds_Unchecked ==
  /\ pc = "preDone"
  /\ call' = [call EXCEPT !.cmd = call.asked, !.pre = FALSE, !.hex = noUnit]
  /\ preOutcome' = outcome
  /\ UNCHANGED <<bytesNode, sendLen, noUnit>>
  /\ Begins(call.asked)

\* The pre command has put what it has received into pRecvBuf; now the command itself.
PreSucceeds ==
  /\ pc = "preDone" /\ outcome # "error"
  /\ call' = [call EXCEPT !.cmd = call.asked, !.pre = FALSE, !.hex = noUnit]
  /\ preOutcome' = outcome
  /\ UNCHANGED <<bytesNode, sendLen, noUnit>>
  /\ Begins(call.asked)

\* An error of the pre command ends the session.
PreFails ==
  /\ pc = "preDone" /\ outcome = "error"
  /\ pc' = "ended"
  /\ UNCHANGED <<bytesNode, sendLen, noUnit, call, preOutcome, pos, ownLen, retry, sent,
                 answer, outcome>>

\* The session ends; the next one is forked from the daemon, whose byte code is as
\* it was compiled.
NewSession ==
  /\ FreshProcess
  /\ call' = [NoCall EXCEPT !.id = call.id]

-----------------------------------------------------------------------------
(***************************************************************************)
(* execByteCode()                                                          *)
(***************************************************************************)
Return(value) ==
  /\ pc' = IF call.pre THEN "preDone" ELSE "idle"
  /\ outcome' = value
  /\ UNCHANGED <<sendLen, noUnit, call, preOutcome, pos, ownLen, retry>>

\* The parameter is converted before anything is sent, "to be sure not to abort
\* right in the middle of it".
HexRefused == call.hex /\ ownLen # node.len

\* Whether the unit can make bytes of what is in sendBuf.
Convertible == IF sendBuf.what = "zeros" THEN cPtr.noPara ELSE call.good

\* Variant: the result of the conversion is not looked at.
UnitRefused_Unchecked ==
  ~call.hex /\ Program[BytesPos].unit # "" /\ sendBuf.what = "zeros" /\ ~cPtr.noPara

UnitRefused == ~call.hex /\ Program[BytesPos].unit # "" /\ ~Convertible

Refused == HasBytes /\ (HexRefused \/ UnitRefused)

Refuse ==
  /\ pc = "prepare"
  /\ Refused
  /\ Return("error")
  /\ UNCHANGED <<bytesNode, sent, answer>>

\* Variant: a node that has bytes to send keeps them.
Prepare_KeepsNode ==
  /\ pc = "prepare"
  /\ ~Refused
  /\ pc' = "run"
  /\ IF HasBytes /\ (call.hex \/ Program[BytesPos].unit # "") /\ node.data.what = "leftover"
       THEN /\ bytesNode' = [bytesNode EXCEPT ![call.cmd] =
                 [data |-> sendBuf, len |-> IF call.hex THEN @.len ELSE cPtr.unitLen]]
            /\ ownLen' = 0
       ELSE bytesNode' = bytesNode /\ ownLen' = 0
  /\ UNCHANGED <<sendLen, noUnit, call, preOutcome, pos, retry, sent, answer, outcome>>

Prepare ==
  /\ pc = "prepare"
  /\ ~Refused
  /\ pc' = "run"
  /\ IF HasBytes /\ (call.hex \/ Program[BytesPos].unit # "")
       THEN /\ bytesNode' = [bytesNode EXCEPT ![call.cmd] =
                 [data |-> sendBuf, len |-> IF call.hex THEN @.len ELSE cPtr.unitLen]]
            /\ ownLen' = 0
       ELSE UNCHANGED <<bytesNode, ownLen>>
  /\ UNCHANGED <<sendLen, noUnit, call, preOutcome, pos, retry, sent, answer, outcome>>

At(token) ==
  /\ pc = "run"
  /\ pos \in DOMAIN Program
  /\ Program[pos].token = token

Advance(to) ==
  /\ pos' = to
  /\ UNCHANGED <<sendLen, noUnit, call, pc, preOutcome, ownLen, retry, outcome>>

Round == cPtr.retry - retry + 1

\* A message leaves, or the attempt fails after some of it has left.
Transmits(at, data, len) ==
  sent' = sent \cup {[round |-> Round, at |-> at, fixed |-> Program[at].bytes,
                      data |-> data, len |-> len]}

WaitOrPause ==
  /\ At("WAIT") \/ At("PAUSE")
  /\ \/ Advance(pos + 1)
     \/ Program[pos].token = "WAIT" /\ Return("error")
  /\ UNCHANGED <<bytesNode, sent, answer>>

\* A statement that parseLine() has not understood.
UnknownToken ==
  /\ At("unknown")
  /\ Return("error")
  /\ UNCHANGED <<bytesNode, sent, answer>>

\* A BYTES node that follows is part of the message, as its node has it.
FollowedByBytes == pos + 1 \in DOMAIN Program /\ Program[pos + 1].token = "BYTES"

Send ==
  /\ At("SEND")
  /\ IF FollowedByBytes THEN Transmits(pos, node.data, node.len)
     ELSE Transmits(pos, NoBytes.data, 0)
  /\ \/ Advance(IF FollowedByBytes THEN pos + 2 ELSE pos + 1)
     \/ Return("error")
  /\ UNCHANGED <<bytesNode, answer>>

\* A BYTES node that is reached by itself: the parameter unconverted, or as its
\* node has it; a failure throws the latter away.
SendBytes ==
  /\ At("BYTES")
  /\ \/ /\ ownLen > 0
        /\ Transmits(pos, sendBuf, ownLen)
        /\ Advance(pos + 1) \/ Return("error")
        /\ UNCHANGED bytesNode
     \/ /\ ownLen = 0 /\ node.len > 0
        /\ Transmits(pos, node.data, node.len)
        /\ \/ Advance(pos + 1) /\ UNCHANGED bytesNode
           \/ Return("error") /\ bytesNode' = [bytesNode EXCEPT ![call.cmd] = NoBytes]
     \/ /\ ownLen = 0 /\ node.len = 0
        /\ Advance(pos + 1)
        /\ UNCHANGED <<bytesNode, sent>>
  /\ UNCHANGED answer

\* Variants: back to before the first node; the retry is not counted.
NextRound_ZeroBased ==
  /\ retry' = retry - 1
  /\ pos' = 0
  /\ UNCHANGED <<sendLen, noUnit, call, pc, preOutcome, ownLen, outcome>>

NextRound_NoCount ==
  /\ retry' = retry
  /\ pos' = 1
  /\ UNCHANGED <<sendLen, noUnit, call, pc, preOutcome, ownLen, outcome>>

\* One more time, please.
NextRound ==
  /\ retry' = retry - 1
  /\ pos' = 1
  /\ UNCHANGED <<sendLen, noUnit, call, pc, preOutcome, ownLen, outcome>>

\* An answer that took too long, or equals the error string, is asked for again.
Rejected(a) == \/ a = "slow" /\ cPtr.timeout
               \/ a \in {"errStr", "slowErrStr"} /\ cPtr.errStr
               \/ a = "slowErrStr" /\ cPtr.timeout

RecvFails ==
  /\ At("RECV")
  /\ Return("error")
  /\ answer' = "none"
  /\ UNCHANGED <<bytesNode, sent>>

\* Variants: one retry too many; the last retry is left to the loop condition, which
\* ends the loop without an error.
RecvRejected_OneMore ==
  /\ At("RECV")
  /\ answer' \in {"slow", "errStr", "slowErrStr"}
  /\ Rejected(answer')
  /\ \/ retry < 1 /\ Return("error")
     \/ retry >= 1 /\ NextRound
  /\ UNCHANGED <<bytesNode, sent>>

RecvRejected_LeftToLoop ==
  /\ At("RECV")
  /\ answer' \in {"slow", "errStr", "slowErrStr"}
  /\ Rejected(answer')
  /\ \/ retry <= 1 /\ Return("nothing")
     \/ retry > 1 /\ NextRound
  /\ UNCHANGED <<bytesNode, sent>>

RecvRejected ==
  /\ At("RECV")
  /\ answer' \in {"slow", "errStr", "slowErrStr"}
  /\ Rejected(answer')
  /\ \/ retry <= 1 /\ Return("error")
     \/ retry > 1 /\ NextRound
  /\ UNCHANGED <<bytesNode, sent>>

Recv ==
  /\ At("RECV")
  /\ answer' \in {"good", "slow", "errStr", "slowErrStr"}
  /\ ~Rejected(answer')
  /\ IF ~call.hex /\ Program[pos].unit # ""
       THEN Return("converted") \/ Return("error")
       ELSE Return("raw")
  /\ UNCHANGED <<bytesNode, sent>>

\* Variant: one round too many.
EndOfProgram_OneMore ==
  /\ pc = "run"
  /\ pos > Len(Program)
  /\ IF (cPtr.errStr \/ cPtr.timeout) /\ retry > 0
       THEN NextRound
       ELSE Return("nothing")
  /\ UNCHANGED <<bytesNode, sent, answer>>

\* The end of the program without RECV.  Where an error string or a timeout is
\* defined, it is run again for as many times as there are retries.
EndOfProgram ==
  /\ pc = "run"
  /\ pos > Len(Program)
  /\ IF (cPtr.errStr \/ cPtr.timeout) /\ retry > 1
       THEN NextRound
       ELSE Return("nothing")
  /\ UNCHANGED <<bytesNode, sent, answer>>

Step == \/ Refuse \/ Prepare \/ WaitOrPause \/ UnknownToken \/ Send \/ SendBytes
        \/ RecvFails \/ RecvRejected \/ Recv \/ EndOfProgram
        \/ PreSucceeds \/ PreFails

Next ==
  \/ Unit
  \/ \E c \in Name, n \in {0} \cup ParaLens, good \in BOOLEAN : Call(c, n, good)
  \/ NewSession
  \/ Step

Spec == Init /\ [][Next]_vars

\* Every wait in framer.c has a timeout.
FairSpec == Spec /\ WF_vars(Step)

-----------------------------------------------------------------------------
Limit == IF cPtr.retry > 1 THEN cPtr.retry ELSE 1

\* The program counter stays in the program, the retries within their number, and
\* nothing that has been sent is of a later call.
TypeOK ==
  /\ bytesNode \in [Name -> [data : Data, len : Nat]]
  /\ sendLen \in {0, 1} \cup ParaLens \cup {Cmd[c].len : c \in Name}
  /\ noUnit \in BOOLEAN
  /\ call \in [id : 0..MaxCalls, asked : Name, cmd : Name, pre : BOOLEAN,
              len : {0} \cup ParaLens, good : BOOLEAN, hex : BOOLEAN]
  /\ pc \in {"idle", "prepare", "run", "preDone", "ended"}
  /\ preOutcome \in {"none", "error", "raw", "nothing"}
  /\ pos \in 1..(Len(Program) + 1)
  /\ ownLen \in {0, 1} \cup ParaLens \cup {Cmd[c].len : c \in Name}
  /\ retry \in 0..cPtr.retry
  /\ sent \subseteq [round : 1..Limit, at : DOMAIN Program, fixed : Seq(0..255),
               data : Data, len : Nat]
  /\ answer \in {"none", "good", "slow", "errStr", "slowErrStr"}
  /\ outcome \in {"none", "error", "raw", "converted", "nothing"}

\* A call sends its own parameter and all of it, in every round: never the bytes
\* that an earlier call has left in the node, nor the length another mode has left
\* there, whatever was converted, refused, retried or switched off before.
WholeParameter ==
  Given /\ ~call.pre =>
    \A m \in sent :
      m.len > 0 => /\ m.data = sendBuf
                   /\ m.len = IF call.hex \/ ~cPtr.unit
                             THEN Smaller(call.len, cPtr.len) ELSE cPtr.unitLen

\* The shapes of a command to which that applies: its BYTES node has a unit if and only
\* if the command has one; without, it has a length, and the node is not merged into a
\* SEND, which would send what was compiled.
BytesFit(c) ==
  \A i \in DOMAIN Cmd[c].program : Cmd[c].program[i].token = "BYTES" =>
    /\ Cmd[c].unit <=> Cmd[c].program[i].unit # ""
    /\ ~Cmd[c].unit => /\ Cmd[c].len > 0
                       /\ i > 1 => Cmd[c].program[i - 1].token # "SEND"

\* A parameter that is missing or cannot be converted stops the command before the
\* first byte ("to be sure not to abort right in the middle of it"), also when an
\* earlier call has left a good value in the node; and so does a pre command that
\* fails or whose answer is rejected, from which the rest of a byte is to come.
BadParameterSendsNothing ==
  /\ HasBytes /\ Program[BytesPos].unit # "" /\ ~call.hex /\ ~Convertible => sent = {}
  /\ ~call.pre /\ HasPre(call.asked) /\ sent # {} => preOutcome \notin {"none", "error"}

\* Every round of retries sends the same bytes again, and there are no more rounds
\* than retries.
RoundsAlike ==
  \A m, n \in sent : /\ m.round <= Limit
                     /\ m.at = n.at => m.data = n.data /\ m.len = n.len

\* An answer that came too late or equals the error string never becomes the result
\* of a command or of a pre command, not even when the retries are used up.
RejectedIsNoResult == pc \in {"idle", "preDone"} /\ Rejected(answer) => outcome = "error"

\* Every command comes to an end, whatever the device answers.
CommandReturns == pc \in {"prepare", "run", "preDone"} ~> pc \in {"idle", "ended"}

\* parser.c:150: that the hex bytes are not as many as the BYTES node has "should
\* never happen" - for as many bytes as the command is long.
HexLengthAgrees ==
  pc = "prepare" /\ call.len = cPtr.len /\ ~call.pre => ~(HasBytes /\ HexRefused)
=============================================================================
