----------------------------- MODULE SendLines -----------------------------
(***************************************************************************)
(* What the <send> lines of vcontrold.xml mean, for comparison with what   *)
(* Compiler makes of them: a line is a sequence of statements, a statement *)
(* a sequence of words, and a macro a line of its own.                     *)
(***************************************************************************)
EXTENDS Compiler
LOCAL INSTANCE SequencesExt

\* How a line is written.
Joined(parts, separator) ==
  FlattenSeq([i \in DOMAIN parts |-> IF i = 1 THEN parts[i] ELSE <<separator>> \o parts[i]])
Text(line) ==
  Joined([i \in DOMAIN line |-> Joined([j \in DOMAIN line[i] |-> <<line[i][j]>>], Blank)],
         Semicolon)

-----------------------------------------------------------------------------
\* The words that a variable stands for.
Words(v, cmd) ==
  CASE v = "addr"   -> [i \in DOMAIN cmd.addr |-> Numeral(Hex(cmd.addr[i]))]
    [] v = "len"    -> <<Numeral(Decimal(cmd.len))>>
    [] v = "hexlen" -> <<Numeral(Hex(cmd.len))>>
    [] v = "unit"   -> IF cmd.unit = "" THEN <<>> ELSE <<Word(cmd.unit)>>

Filled(statement, cmd) ==
  FlattenSeq([i \in DOMAIN statement |->
    IF statement[i].kind = "variable" THEN Words(statement[i].name, cmd)
    ELSE <<statement[i]>>])

\* A macro at the beginning of a statement: its last statement is continued by the
\* words that follow.
Unfolded(statement, macro) ==
  IF Head(statement).kind = "word" /\ Head(statement).name \in DOMAIN macro
    THEN LET m == macro[Head(statement).name]
         IN Front(m) \o <<Last(m) \o Tail(statement)>>
    ELSE <<statement>>

Node(token, unit, bytes, len) ==
  [token |-> token, unit |-> unit, bytes |-> bytes, len |-> len]
UnitIn(words) == IF words = <<>> THEN "" ELSE words[1].name

\* SEND and WAIT with their bytes, SEND BYTES with a unit, RECV with a number and a
\* unit, PAUSE with a number.
Instruction(statement) ==
  LET verb == IF Head(statement).kind = "word" THEN Head(statement).name ELSE ""
      rest == Tail(statement)
      hex  == [i \in DOMAIN rest |-> Value(rest[i].digits, 16)]
  IN CASE verb = "SEND" /\ rest # <<>> /\ rest[1] = Word("BYTES") ->
            Node("BYTES", UnitIn(Tail(rest)), <<>>, 1)
       [] verb \in {"SEND", "WAIT"} /\ (rest # <<>> => rest[1] # Word("BYTES")) ->
            Node(verb, "", hex, Len(hex))
       [] verb = "RECV"  -> Node(verb, UnitIn(Tail(rest)), <<>>, Value(rest[1].digits, 10))
       [] verb = "PAUSE" -> Node(verb, "", <<>>, Value(rest[1].digits, 10))
       [] OTHER -> Node("unknown", "", <<>>, 0)

Meaning(line, cmd, macro) ==
  LET statements == FlattenSeq([i \in DOMAIN line |-> Unfolded(Filled(line[i], cmd), macro)])
  IN [i \in DOMAIN statements |-> Instruction(statements[i])]
=============================================================================
