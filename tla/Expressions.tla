---------------------------- MODULE Expressions ----------------------------
(***************************************************************************)
(* What the text of an <icalc> means: a grammar, apart from the way that   *)
(* arithmetic.c (Arithmetic) takes to evaluate it.                         *)
(*                                                                         *)
(*   expression  =  [sign] term | expression sign term       sign: + - ~   *)
(*   term        =  factor | term op factor        op: * / % & | ^ << >>   *)
(*   factor      =  number | byte | "(" expression ")" | "~" factor        *)
(*                                                                         *)
(* A text is taken apart at its last sign or operator outside parentheses; *)
(* its meaning is a set: {} if it is no expression, or else its one value. *)
(***************************************************************************)
EXTENDS Arithmetic

Depth(t, p) == Cardinality({i \in 1..(p - 1) : t[i] = "("})
             - Cardinality({i \in 1..(p - 1) : t[i] = ")"})

EndsOperand(token) == token \notin Signs \cup Multiplicative \cup {"("}

SignPositions(t) ==
  {p \in DOMAIN t : t[p] \in Signs /\ Depth(t, p) = 0 /\ (p = 1 \/ EndsOperand(t[p - 1]))}

OpPositions(t) == {p \in DOMAIN t : t[p] \in Multiplicative /\ Depth(t, p) = 0}

Before(t, p) == SubSeq(t, 1, p - 1)
After(t, p)  == SubSeq(t, p + 1, Len(t))

RECURSIVE Meaning(_, _), TermMeaning(_, _), FactorMeaning(_, _)

Meaning(t, env) ==
  IF SignPositions(t) = {} THEN TermMeaning(t, env)
  ELSE LET p == Max(SignPositions(t))
       IN {a + Signed(t[p], b) : a \in IF p = 1 THEN {0} ELSE Meaning(Before(t, p), env),
                                 b \in TermMeaning(After(t, p), env)}

TermMeaning(t, env) ==
  IF OpPositions(t) = {} THEN FactorMeaning(t, env)
  ELSE LET p == Max(OpPositions(t))
       IN {Apply(t[p], a, b) : a \in TermMeaning(Before(t, p), env),
                               b \in FactorMeaning(After(t, p), env)}

FactorMeaning(t, env) ==
  CASE t = <<>> -> {}
    [] Len(t) > 1 /\ t[1] = "(" /\ t[Len(t)] = ")" -> Meaning(SubSeq(t, 2, Len(t) - 1), env)
    [] t[1] = "~" -> {-v - 1 : v \in FactorMeaning(Tail(t), env)}
    [] t[1] = "0x" /\ Len(t) > 1 /\ \A i \in 2..Len(t) : IsHexDigit(t[i]) -> {HexValue(t, 2, Len(t) + 1)}
    [] \A i \in DOMAIN t : IsDigit(t[i]) -> {DigitsValue(t, 1, Len(t) + 1)}
    [] t = <<"BP">> -> {env.bitpos}
    [] Len(t) = 1 /\ t[1] \in ToSet(ByteToken) -> {env.bytes[ValueIn(ByteToken, t[1])]}
    [] Len(t) = 1 /\ t[1] \in ToSet(PByteToken) -> {env.pbytes[ValueIn(PByteToken, t[1])]}
    [] OTHER -> {}
=============================================================================
