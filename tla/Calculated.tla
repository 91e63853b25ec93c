----------------------------- MODULE Calculated -----------------------------
(***************************************************************************)
(* Units with the calculations of arithmetic.c, which Calculate and        *)
(* CalculateInt are to be: execExpression and execIExpression.  What they  *)
(* make of a text is compared with what the text means (Expressions).      *)
(***************************************************************************)
EXTENDS Units, Expressions

MeansWhatItShows(env, now) ==
  /\ unit.gCalc = <<>> /\ unit.gICalc # <<>> => {now} = {Hex(n) : n \in Meaning(unit.gICalc, env)}
  /\ unit.gCalc # <<>> /\ ToSet(unit.gCalc) \cap {"V", "/"} = {} =>
       {now} = {Decimal(ToDecimal(FromInt(n))) : n \in Meaning(unit.gCalc, env)}

\* The value of a calculation is what its text means: the last sign outside parentheses
\* joins the rest, the last operator outside parentheses its term; nothing is skipped or
\* read twice where one level of the descent hands over to the next.
ShowsMeaning ==
  unit.enums = <<>> => MeansWhatItShows(Env(unit, memory, Zero, <<>>), procGetUnit(unit, memory))
=============================================================================
