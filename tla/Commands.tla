------------------------------ MODULE Commands ------------------------------
(***************************************************************************)
(* From a document to the line: the commands of a device as vcontrold.xml  *)
(* and vito.xml describe them, compiled (Compiler) and executed (ByteCode).*)
(***************************************************************************)
EXTENDS ByteCode, SendLines

CONSTANTS
  Doc,       \* <command>: addr, len, unit, error string, pre command, and pcmd
  ICmd,      \* <command> of the protocol: the line to send, retry, recvTimeout
  Macro,     \* <macro> of the protocol
  UnitOf     \* <unit>: how many bytes it makes, and whether it needs a value

\* The node of a command as compileCommand() leaves it.
CompiledCommand(d) ==
  LET icmd == ICmd[d.pcmd]
      code == compileCommand(d, [icmd EXCEPT !.send = Text(@)],
                             [m \in DOMAIN Macro |-> Text(Macro[m])])
  IN [program |-> code.program, retry |-> code.retry, timeout |-> code.timeout,
      len |-> d.len, unit |-> d.unit # "", errStr |-> d.errStr, pre |-> d.pre,
      unitLen |-> IF d.unit = "" THEN 0 ELSE UnitOf[d.unit].len,
      noPara  |-> d.unit # "" /\ UnitOf[d.unit].noPara]

FromDocument == [c \in Name |-> CompiledCommand(Doc[c])]

ASSUME CompiledAssumption == Cmd = FromDocument

-----------------------------------------------------------------------------
Written == [c \in Name |-> Meaning(ICmd[Doc[c].pcmd].send, Doc[c], Macro)]

IsSend(n) == n.token = "SEND"

\* What goes over the line is what the document says: the session stands at the
\* statement it has come to by its own count, every message has the bytes of a SEND
\* line - variables and macros put in - and a parameter exactly where the line has
\* one, no message is left out before it, and every round of retries is like the first.
RunsAsWritten ==
  LET w == Written[call.cmd]
  IN /\ pc = "run" => /\ pos \in 1..(Len(w) + 1)
                      /\ pos <= Len(w) => Program[pos] = w[pos]
     /\ \A m \in sent :
          /\ m.at \in DOMAIN w /\ m.fixed = w[m.at].bytes
          /\ w[m.at].token \in {"SEND", "BYTES"}
          /\ IsSend(w[m.at]) =>
               (m.len > 0 <=> m.at < Len(w) /\ w[m.at + 1].token = "BYTES")
          /\ \A i \in 1..(m.at - 1) :
               IsSend(w[i]) => \E n \in sent : n.round = m.round /\ n.at = i
     /\ RoundsAlike

\* The byte code of a command is what its document says, as the first line of the
\* property shows where the commands run; and neither its BYTES node nor the unit of
\* that node is empty.
CompiledAsWritten(c) == Cmd[c].program = Written[c]
BytesHaveLength(c) ==
  \A i \in DOMAIN Cmd[c].program : Cmd[c].program[i].token = "BYTES" =>
    /\ Cmd[c].program[i].len > 0
    /\ Cmd[c].program[i].unit # "" => Cmd[c].unitLen > 0
=============================================================================
