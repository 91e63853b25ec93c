----------------------------- MODULE Arithmetic -----------------------------
(***************************************************************************)
(* The calculations <calc> and <icalc> of a unit: the two recursive        *)
(* descents of arithmetic.c, over float and over int.                      *)
(*                                                                         *)
(* A text is a sequence of the tokens that nextToken() finds in it.  What  *)
(* is behind the end of a text, where a parenthesis that is not closed     *)
(* makes arithmetic.c read, is not modelled; it is taken for the end.      *)
(***************************************************************************)
EXTENDS Float32, SequencesExt, Bitwise

Nibble == <<"0", "1", "2", "3", "4", "5", "6", "7", "8", "9", "A", "B", "C", "D", "E", "F">>
Digit    == [i \in 0..9 |-> Nibble[i + 1]]
HexDigit == <<"a", "b", "c", "d", "e", "f">>
ByteToken  == [i \in 1..16 |-> "B" \o Nibble[i]]     \* B0 to BF: the bytes received
PByteToken == [i \in 1..16 |-> "P" \o Nibble[i]]     \* P0 to PF: those of the pre command

ValueIn(tokens, token) == CHOOSE i \in DOMAIN tokens : tokens[i] = token
Digits    == ToSet(SubSeq(Nibble, 1, 10))
HexDigits == Digits \cup ToSet(HexDigit)
IsDigit(token)    == token \in Digits
IsHexDigit(token) == token \in HexDigits

\* nextToken() at p; pushBack() is to stay at p.
nextToken(t, p) == IF p \in DOMAIN t THEN t[p] ELSE "END"

\* What a text says from p on is a set: {}, which stands for an error and makes every
\* caller give up, or the one value and where reading it stopped.
Read(v, p) == [v |-> v, p |-> p]

\* The end of the run of tokens of a kind from p on.
RunEnd(t, p, kind) ==
  CHOOSE q \in p..(Len(t) + 1) :
    (q = Len(t) + 1 \/ t[q] \notin kind) /\ \A i \in p..(q - 1) : t[i] \in kind

DigitsValue(t, p, q) ==
  FoldLeft(LAMBDA n, d : 10 * n + ValueIn(Digit, d), 0, SubSeq(t, p, q - 1))

HexValue(t, p, q) ==
  FoldLeft(LAMBDA n, d : 16 * n + IF IsDigit(d) THEN ValueIn(Digit, d) ELSE 9 + ValueIn(HexDigit, d),
           0, SubSeq(t, p, q - 1))

\* A number: digits, and a point with more of them; six decimals are enough.
Number(t, p) ==
  LET q == RunEnd(t, p, Digits)
      r == IF nextToken(t, q) = "." THEN RunEnd(t, q + 1, Digits) ELSE q
  IN [int   |-> DigitsValue(t, p, q),
      micro |-> IF r = q THEN 0 ELSE DigitsValue(t, q + 1, r) * 10^(6 - (r - q - 1)),
      neg   |-> FALSE, end |-> r]

-----------------------------------------------------------------------------
(***************************************************************************)
(* int: the operators of C, on words of which the values that occur leave  *)
(* the two highest bits unused.                                            *)
(***************************************************************************)
Word == 2^30
AsWord(n)   == n % Word
FromWord(n) == IF n >= Word \div 2 THEN n - Word ELSE n

Multiplicative == {"*", "/", "%", "&", "|", "^", "<<", ">>"}

Apply(op, a, b) ==
  CASE op = "*"  -> a * b
    [] op = "/"  -> Quotient(a, b)
    [] op = "%"  -> a - b * Quotient(a, b)
    [] op = "&"  -> FromWord(AsWord(a) & AsWord(b))
    [] op = "|"  -> FromWord(AsWord(a) | AsWord(b))
    [] op = "^"  -> FromWord(AsWord(a) ^^ AsWord(b))
    [] op = "<<" -> a * 2^b
    [] op = ">>" -> a \div 2^b

\* A term with its sign; ~ is a sign like the others.
Signed(sign, n) == CASE sign = "-" -> -n [] sign = "~" -> -n - 1 [] OTHER -> n
Signs == {"+", "-", "~"}

RECURSIVE execIExpression(_, _, _), MoreITerms(_, _, _), execITerm(_, _, _),
          MoreIFactors(_, _, _), execIFactor(_, _, _)

execIExpression(t, p, env) ==
  LET sign == nextToken(t, p)
  IN UNION {MoreITerms(t, Read(Signed(sign, first.v), first.p), env) :
              first \in execITerm(t, IF sign \in Signs THEN p + 1 ELSE p, env)}

\* The loop of execIExpression(): term1 so far.
MoreITerms(t, term1, env) ==
  LET sign == nextToken(t, term1.p)
  IN IF sign \notin Signs THEN {term1}
     ELSE UNION {MoreITerms(t, Read(term1.v + Signed(sign, term2.v), term2.p), env) :
                   term2 \in execITerm(t, term1.p + 1, env)}

\* Variant: the token that ends a term is not pushed back.
execITerm_NoPushBack(t, p, env) ==
  UNION {{[term EXCEPT !.p = IF @ > Len(t) THEN @ ELSE @ + 1] : term \in MoreIFactors(t, factor1, env)} :
           factor1 \in execIFactor(t, p, env)}

execITerm(t, p, env) ==
  UNION {MoreIFactors(t, factor1, env) : factor1 \in execIFactor(t, p, env)}

\* The loop of execITerm(): all its operators are of one precedence.
MoreIFactors(t, factor1, env) ==
  LET op == nextToken(t, factor1.p)
  IN IF op \notin Multiplicative THEN {factor1}
     ELSE UNION {MoreIFactors(t, Read(Apply(op, factor1.v, factor2.v), factor2.p), env) :
                   factor2 \in execIFactor(t, factor1.p + 1, env)}

\* BP and the bytes of the pre command are known to int calculations only.
execIFactor(t, p, env) ==
  LET token == nextToken(t, p)
  IN CASE token \in ToSet(ByteToken)  -> {Read(env.bytes[ValueIn(ByteToken, token)], p + 1)}
       [] token = "BP"                -> {Read(env.bitpos, p + 1)}
       [] token \in ToSet(PByteToken) -> {Read(env.pbytes[ValueIn(PByteToken, token)], p + 1)}
       [] token = "0x"                -> {Read(HexValue(t, p + 1, q), q) : q \in {RunEnd(t, p + 1, HexDigits)}}
       [] IsDigit(token)              -> {Read(n.int, n.end) : n \in {Number(t, p)}}
       [] token = "("                 -> {Read(inner.v, inner.p + 1) :
                                            inner \in {e \in execIExpression(t, p + 1, env) :
                                                         nextToken(t, e.p) = ")"}}
       [] token = "~"                 -> {Read(-f.v - 1, f.p) : f \in execIFactor(t, p + 1, env)}
       [] OTHER                       -> {}

-----------------------------------------------------------------------------
(***************************************************************************)
(* float: + - * / only, and V, the value of the bytes as the type has it.  *)
(***************************************************************************)
RECURSIVE execExpression(_, _, _), MoreTerms(_, _, _), execTerm(_, _, _),
          MoreFactors(_, _, _), execFactor(_, _, _)

SignedFloat(sign, a) == IF sign = "-" THEN Negated(a) ELSE a

ApplyFloat(op, a, b) == IF op = "*" THEN Mul(a, b) ELSE Div(a, b)

execExpression(t, p, env) ==
  LET sign == nextToken(t, p)
  IN UNION {MoreTerms(t, Read(SignedFloat(sign, first.v), first.p), env) :
              first \in execTerm(t, IF sign \in {"+", "-"} THEN p + 1 ELSE p, env)}

MoreTerms(t, term1, env) ==
  LET sign == nextToken(t, term1.p)
  IN IF sign \notin {"+", "-"} THEN {term1}
     ELSE UNION {MoreTerms(t, Read(Add(term1.v, SignedFloat(sign, term2.v)), term2.p), env) :
                   term2 \in execTerm(t, term1.p + 1, env)}

execTerm(t, p, env) ==
  UNION {MoreFactors(t, factor1, env) : factor1 \in execFactor(t, p, env)}

MoreFactors(t, factor1, env) ==
  LET op == nextToken(t, factor1.p)
  IN IF op \notin {"*", "/"} THEN {factor1}
     ELSE UNION {MoreFactors(t, Read(ApplyFloat(op, factor1.v, factor2.v), factor2.p), env) :
                   factor2 \in execFactor(t, factor1.p + 1, env)}

execFactor(t, p, env) ==
  LET token == nextToken(t, p)
  IN CASE token \in ToSet(ByteToken) -> {Read(FromInt(env.bytes[ValueIn(ByteToken, token)]), p + 1)}
       [] token = "V"                -> {Read(env.value, p + 1)}
       [] token = "0x"               -> {Read(FromInt(HexValue(t, p + 1, q)), q) :
                                           q \in {RunEnd(t, p + 1, HexDigits)}}
       [] IsDigit(token)             -> {Read(FromDecimal(n), n.end) : n \in {Number(t, p)}}
       [] token = "("                -> {Read(inner.v, inner.p + 1) :
                                           inner \in {e \in execExpression(t, p + 1, env) :
                                                        nextToken(t, e.p) = ")"}}
       [] OTHER                      -> {}
=============================================================================
