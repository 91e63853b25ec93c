------------------------------ MODULE Compiler ------------------------------
(***************************************************************************)
(* compileCommand() of parser.c: expand() puts the values of a command and *)
(* the macros of the protocol into the <send> line of a protocol command,  *)
(* buildByteCode() cuts the result at the semicolons and makes a node of   *)
(* each piece.                                                             *)
(*                                                                         *)
(* A text is a sequence of tokens: words, numerals, variables, blanks and  *)
(* semicolons.  Numerals are digits, which the code reads as hexadecimal   *)
(* or as decimal, depending on where they stand.                           *)
(***************************************************************************)
EXTENDS Integers, Sequences
LOCAL INSTANCE SequencesExt

Word(w)     == [kind |-> "word", name |-> w]
Variable(v) == [kind |-> "variable", name |-> v]
Numeral(d)  == [kind |-> "numeral", digits |-> d]
Blank       == [kind |-> "separator", name |-> " "]
Semicolon   == [kind |-> "separator", name |-> ";"]

-----------------------------------------------------------------------------
(***************************************************************************)
(* Numbers: "%d" and "%02X" for the lengths a command can have, hex2chr()  *)
(* and atoi()                                                              *)
(***************************************************************************)
Decimal(n) == IF n < 10 THEN <<n>>
              ELSE IF n < 100 THEN <<n \div 10, n % 10>>
              ELSE <<n \div 100, (n \div 10) % 10, n % 10>>
Hex(n)     == <<n \div 16, n % 16>>

Value(digits, base) ==
  LET v[i \in 0..Len(digits)] == IF i = 0 THEN 0 ELSE base * v[i - 1] + digits[i]
  IN v[Len(digits)]

hex2chr(t) == Value(t.digits, 16) % 256

\* atoi() ends at the first character that is no decimal digit.
atoi(t) ==
  IF t.kind # "numeral" THEN 0
  ELSE LET n == CHOOSE n \in 0..Len(t.digits) :
                  /\ \A i \in 1..n : t.digits[i] < 10
                  /\ n < Len(t.digits) => t.digits[n + 1] >= 10
       IN Value(SubSeq(t.digits, 1, n), 10)

-----------------------------------------------------------------------------
(***************************************************************************)
(* expand()                                                                *)
(***************************************************************************)
\* What stands for a variable.  The address goes byte by byte; no unit is nothing.
Substitute(v, cmd) ==
  CASE v = "addr"   -> FlattenSeq([i \in DOMAIN cmd.addr |->
                         IF i = 1 THEN <<Numeral(Hex(cmd.addr[i]))>>
                         ELSE <<Blank, Numeral(Hex(cmd.addr[i]))>>])
    [] v = "len"    -> <<Numeral(Decimal(cmd.len))>>
    [] v = "hexlen" -> <<Numeral(Hex(cmd.len))>>
    [] v = "unit"   -> IF cmd.unit = "" THEN <<>> ELSE <<Word(cmd.unit)>>

\* The first character of the line is not looked at.
ReplaceVariables(text, cmd) ==
  FlattenSeq([i \in DOMAIN text |->
    IF i > 1 /\ text[i].kind = "variable" THEN Substitute(text[i].name, cmd)
    ELSE <<text[i]>>])

\* Where the piece that begins at i ends: at the next of the given separators, were
\* it not the first character.
PieceEnd(text, i, ends) ==
  CHOOSE j \in (i + 1)..(Len(text) + 1) :
    /\ j <= Len(text) => text[j] \in ends
    /\ \A k \in (i + 1)..(j - 1) : text[k] \notin ends

\* The separator at j, unless the text ends there.
Separator(text, j) == IF j <= Len(text) THEN <<text[j]>> ELSE <<>>

\* Variant: only a whole statement can be a macro.
ReplaceMacros_Statement(text, macro) ==
  LET from[i \in 1..(Len(text) + 2)] ==
        IF i > Len(text) THEN <<>>
        ELSE LET j    == PieceEnd(text, i, {Semicolon})
                 name == SubSeq(text, i, j - 1)
             IN IF Len(name) = 1 /\ name[1].kind = "word" /\ name[1].name \in DOMAIN macro
                  THEN macro[name[1].name] \o Separator(text, j) \o from[j + 1]
                  ELSE name \o Separator(text, j) \o from[j + 1]
  IN from[1]

\* A piece between separators that is the name of a macro is replaced by its text,
\* in which no macros are looked for.
ReplaceMacros(text, macro) ==
  LET from[i \in 1..(Len(text) + 2)] ==
        IF i > Len(text) THEN <<>>
        ELSE LET j    == PieceEnd(text, i, {Blank, Semicolon})
                 name == SubSeq(text, i, j - 1)
             IN IF Len(name) = 1 /\ name[1].kind = "word" /\ name[1].name \in DOMAIN macro
                  THEN macro[name[1].name] \o Separator(text, j) \o from[j + 1]
                  ELSE name \o Separator(text, j) \o from[j + 1]
  IN from[1]

expand(text, cmd, macro) == ReplaceMacros(ReplaceVariables(text, cmd), macro)

-----------------------------------------------------------------------------
(***************************************************************************)
(* buildByteCode()                                                         *)
(***************************************************************************)
Pieces(text) ==
  LET from[i \in 1..(Len(text) + 2)] ==
        IF i > Len(text) THEN <<>>
        ELSE LET j == PieceEnd(text, i, {Semicolon})
             IN <<SubSeq(text, i, j - 1)>> \o from[j + 1]
  IN from[1]

Token(line) ==
  CASE Len(line) >= 3 /\ SubSeq(line, 1, 3) = <<Word("SEND"), Blank, Word("BYTES")>> -> "BYTES"
    [] line[1] \in {Word(w) : w \in {"WAIT", "SEND", "RECV", "PAUSE"}} -> line[1].name
    [] OTHER -> "unknown"

\* The words behind the first blank.  A BYTES node counts its own second word as a
\* byte, and is given whatever lies in the buffer; RECV and PAUSE have a number.
parseLine(line) ==
  LET token == Token(line)
      args  == SelectSeq(SubSeq(line, 2, Len(line)), LAMBDA t : t # Blank)
      \* the unit behind the number, or behind BYTES
      unit  == IF token \in {"RECV", "BYTES"} /\ Len(args) > 1 THEN args[2].name ELSE ""
  IN [token |-> token,
      unit  |-> unit,
      bytes |-> IF token \in {"SEND", "WAIT"}
                  THEN [i \in DOMAIN args |-> hex2chr(args[i])] ELSE <<>>,
      len   |-> CASE token = "unknown" \/ args = <<>> -> 0
                  [] token \in {"SEND", "WAIT"} -> Len(args)
                  [] token = "BYTES" -> 1
                  [] OTHER -> atoi(args[1])]

buildByteCode(text) == LET p == Pieces(text) IN [i \in DOMAIN p |-> parseLine(p[i])]

\* The byte code of a command, with what the protocol command says of its execution.
compileCommand(cmd, icmd, macro) ==
  [program |-> buildByteCode(expand(icmd.send, cmd, macro)),
   retry   |-> icmd.retry,
   timeout |-> icmd.timeout]
=============================================================================
