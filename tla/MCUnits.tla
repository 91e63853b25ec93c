------------------------------ MODULE MCUnits ------------------------------
(***************************************************************************)
(* Instances of Units for TLC: units of the configurations under xml/,     *)
(* each with bytes and texts that reach its edges, and as calculations     *)
(* some thousands of texts.                                                *)
(***************************************************************************)
EXTENDS Calculated

Plain == [type |-> "short", gCalc |-> <<>>, sCalc |-> <<>>, gICalc |-> <<>>, sICalc |-> <<>>,
          enums |-> <<>>, len |-> 2, bit |-> 0, pre |-> FALSE]

Scaled(type, len, get, set) ==
  [Plain EXCEPT !.type = type, !.len = len, !.gCalc = get, !.sCalc = set]

Whole == <<"V">>
Half  == <<"V", "/", "2">>             Twice  == <<"V", "*", "2">>
Tenth == <<"V", "/", "1", "0">>        Tenfold == <<"V", "*", "1", "0">>
Hundredth == <<"V", "/", "1", "0", "0">>   Hundredfold == <<"V", "*", "1", "0", "0">>

E(bytes, word) == [bytes |-> bytes, word |-> word]

BetriebsArt == <<E(<<0>>, "WW"), E(<<1>>, "RED"), E(<<2>>, "NORM"), E(<<4>>, "H+WW"),
                 E(<<3>>, "H+WW"), E(<<5>>, "ABSCHALT"), E(<<>>, "UNKNOWN")>>
DeviceType  == <<E(<<32, 83, 1, 43>>, "V200WB2"), E(<<32, 152>>, "V200KW2"),
                 E(<<32, 203, 3, 74, 0, 0, 1, 10>>, "VScotHO1"), E(<<>>, "UNKNOWN")>>
HeatingCircuit == <<E(<<0>>, "stufig"), E(<<1>>, "drehzahlgeregelt"), E(<<>>, "UNKNOWN")>>
ErrorTexts  == <<E(<<0>>, "Regelbetrieb"), E(<<16>>, "Kurzschluss"), E(<<>>, "UNKNOWN")>>

\* (B0 & (0x01<<BP))>>BP, and to set the bit in what the pre command has read
GetBit == <<"(", "B0", "&", "(", "0x", "0", "1", "<<", "BP", ")", ")", ">>", "BP">>
SetBit == <<"(", "P0", "&", "~", "(", "0x", "0", "1", "<<", "BP", ")", ")", "|", "(", "B0",
            "<<", "BP", ")">>

\* P0 ^ (0x01<<BP): the bit is switched, whatever it is
ToggleBit == <<"P0", "^", "(", "0x", "0", "1", "<<", "BP", ")">>

Numbers == {Scaled("short", 2, Tenth, Tenfold), Scaled("short", 2, Hundredth, Hundredfold),
            Scaled("char", 1, Half, Twice), Scaled("uchar", 1, Half, Twice),
            Scaled("ushort", 2, Whole, Whole), Scaled("int", 4, Whole, Whole),
            Scaled("uint", 4, Whole, Whole)}

Others == {[Plain EXCEPT !.type = "enum", !.len = 1, !.enums = BetriebsArt],
           [Plain EXCEPT !.type = "enum", !.len = 8, !.enums = DeviceType],
           [Plain EXCEPT !.type = "cycletime", !.len = 8],
           [Plain EXCEPT !.type = "systime", !.len = 8],
           [Plain EXCEPT !.type = "errstate", !.len = 9, !.enums = ErrorTexts]}
          \cup {[Plain EXCEPT !.type = "char", !.len = 1, !.gICalc = GetBit, !.sICalc = SetBit,
                              !.enums = HeatingCircuit, !.bit = b, !.pre = TRUE] : b \in {0, 3, 6}}
          \cup {[Plain EXCEPT !.type = "uchar", !.len = 1, !.gICalc = <<"B0">>,
                              !.sICalc = ToggleBit, !.bit = 7, !.pre = TRUE]}

\* Texts of the grammar with parentheses and chains of operators; what C does not define,
\* a division by zero or a shift by a negative number, is kept out on the right.
TextMemory == <<5, 3>>

Join(A, ops, B) == {a \o <<op>> \o b : a \in A, op \in ops, b \in B}
Signed1(A, signs) == {<<sign>> \o a : sign \in signs, a \in A}
InParentheses(A) == {<<"(">> \o a \o <<")">> : a \in A}

Atoms == {<<"B0">>, <<"2">>, <<"0x", "0", "c">>}
Sums(A, signs) == Join(A, signs, A) \cup Signed1(A, signs)
Factors == Atoms \cup InParentheses(Sums({<<"B0">>, <<"2">>}, Signs)) \cup Signed1(Atoms, {"~"})
Numerals == Atoms \ {<<"B0">>}
Chains  == Join(Join(Atoms, Multiplicative, Numerals), Multiplicative, Numerals)
Short   == Join({<<"B0">>, <<"2">>}, {"*", "&", "<<"}, {<<"2">>})
Products == Join(Factors, {"*"}, Factors) \cup Join(Factors, {"/", ">>"}, Numerals)

IntTexts == Products \cup Chains \cup Signed1(Products, Signs)
            \cup Join(Short, Signs, Short) \cup Join(Atoms, Signs, Join(Atoms, Signs, {<<"2">>}))
            \cup Join(Chains, {"-"}, {<<"B0">>}) \cup Join({<<"B0">>}, {"-"}, Chains)
            \cup Join(InParentheses(Sums(Short, Signs)), {"*", "%"}, Numerals)

FloatFactors == {<<"B0">>, <<"2">>}
                \cup InParentheses(Sums({<<"B0">>, <<"B1">>}, {"+", "-"}))
FloatTexts   == Sums(FloatFactors \cup Join(FloatFactors, {"*"}, {<<"B0">>}), {"+", "-"})

SerialNumber == <<"(", "(", "B0", "-", "4", "8", ")", "*", "1", "0", ")", "+",
                  "(", "B1", "-", "4", "8", ")">>
BothBytes    == <<"(", "B1", "*", "1", "0", "0", ")", "+", "B0">>

Calculations == {[Plain EXCEPT !.gICalc = t] : t \in IntTexts \cup {SerialNumber}}
                \cup {[Plain EXCEPT !.gCalc = t] : t \in FloatTexts \cup {BothBytes}}

AllUnits == Numbers \cup Others \cup Calculations

-----------------------------------------------------------------------------
Edges(n) == {0, 1, 2, 9, 10, 29, 57, 115, 127, 128, 129, 213, 254, 255} \cap 0..n
Words16 == {<<l, h>> : l \in Edges(255), h \in {0, 1, 3, 127, 128, 255}}

At(y, mo, d, h) == [year |-> y, month |-> mo, day |-> d, hour |-> h, min |-> 30, sec |-> 59]
Dates == {At(2024, 2, 29, 23), At(2023, 2, 28, 0), At(2000, 1, 1, 0), At(1999, 12, 31, 23),
          At(2024, 7, 31, 23), At(2079, 7, 1, 0), At(2024, 3, 31, 23), At(2024, 4, 1, 1),
         At(2024, 9, 30, 23), At(2024, 10, 1, 0)}

MemoryOf(u) ==
  CASE u.gCalc # <<>> /\ u.sCalc = <<>> -> {TextMemory}
    [] u.gICalc # <<>> /\ u.sICalc = <<>> -> {TextMemory, <<49, 57>>} \cap
         (IF u.gICalc = SerialNumber THEN {<<49, 57>>} ELSE {TextMemory})
    [] u.type \in {"short", "ushort"} -> Words16
    [] u.type \in {"int", "uint"} -> {w \o <<0, 0>> : w \in Words16}
    [] u.type \in {"char", "uchar"} -> {<<b>> : b \in Edges(255)}
    [] u.type = "enum" /\ u.len = 1 -> {<<b>> : b \in 0..6}
    [] u.type = "enum" /\ u.len = 8 -> {<<32, 203, 3, 74, 0, 0, 1, 10>>, <<32, 203, 3, 74, 0, 0, 1, 11>>}
    [] u.type = "cycletime" ->
         {<<48, 176, 255, 255, 255, 255, 255, 255>>, <<0, 53, 54, 189, 48, 49, 50, 192>>,
          <<255, 255, 255, 255, 255, 255, 255, 255>>}
    [] u.type = "systime" -> {TimeBytes(d) : d \in Dates}
    [] u.type = "errstate" -> {<<16>> \o TimeBytes(At(2024, 2, 29, 23)),
                               <<17>> \o TimeBytes(At(2024, 7, 31, 23))}

\* 21.5, -3.3, 0.1 and 12; what is no number
Number6(neg, int, micro, chars) ==
  [kind |-> "decimal", neg |-> neg, int |-> int, micro |-> micro, chars |-> chars]

\* 0 and 22, and what makes 255 of the hour 1
Minutes == {0, 22, 2470}

P(h, m) == [h |-> h, m |-> m]
Points(s) == [kind |-> "cycle", points |-> s]

TypedFor(u) ==
  CASE u.sCalc = Tenfold -> {Number6(FALSE, 21, 500000, 4), Number6(TRUE, 3, 300000, 4),
                             Number6(FALSE, 0, 100000, 3), Text("warm")}
    [] u.sCalc = Twice   -> {Number6(FALSE, 21, 500000, 4), Number6(FALSE, 0, 500000, 3)}
    [] u.sCalc = Whole   -> {Number6(FALSE, 720, 0, 4), Number6(FALSE, 12, 0, 2), Empty}
    [] u.enums # <<>> /\ u.type # "errstate" -> {Text(u.enums[i].word) : i \in DOMAIN u.enums}
    [] u.type = "cycletime" ->
         {Points(<<P(6, 5), P(24, 0)>>), Points(<<P(5, 30), P(8, 10), P(16, 0)>>),
          Points(<<P(6, 0), P(8, 0), NoPoint, NoPoint, P(16, 0), P(23, 50)>>), Text("06")}
    [] u.type = "systime" -> {Empty, Text("now")} \cup
         {[kind |-> "time", at |-> at, offset |-> offset] :
            at \in {At(2024, 2, 29, 23), At(2023, 2, 31, 23), At(2024, 10, 1, 0), At(2085, 1, 1, 0)},
            offset \in {1, 2}}
    [] OTHER -> {Empty}
=============================================================================
