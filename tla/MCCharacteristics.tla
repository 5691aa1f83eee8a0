-------------------------- MODULE MCCharacteristics --------------------------
(***************************************************************************)
(* Searches over one and two lines for Characteristics: the first list     *)
(* fails or not, stably or not, and its pieces do if they were tried.      *)
(***************************************************************************)
EXTENDS Characteristics, TLC

CONSTANTS a, b, f, api, enter

Passing(lines)  == [lines |-> lines, failure |-> NoFail, stable |-> FALSE]
Flaky(lines)    == [lines |-> lines, failure |-> f, stable |-> FALSE]
Failing(lines)  == [lines |-> lines, failure |-> f, stable |-> TRUE]
Outcomes(lines) == {Passing(lines), Failing(lines)}

SomePartial == {<<Failing({a, b})>>, <<Failing({a, b}), Failing({b})>>}

SomeSearches ==
  SomePartial
  \cup {<<Passing({a, b})>>, <<Flaky({a, b})>>}
  \cup {<<Failing({a, b}), x, y>> : x \in Outcomes({b}), y \in Outcomes({a})}
  \cup {<<Failing({a})>>, <<Failing({a}), Passing({a})>>}

IdsAreAlike == Permutations(Ids)

SomeInterceptions == {{}, {enter}, {api, enter}}
=============================================================================
