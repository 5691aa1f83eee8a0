---------------------------- MODULE MCCorrelation ----------------------------
(***************************************************************************)
(* Small reports and traces for Correlation.  The project is one whose     *)
(* package prefix is org.apache, so that Maven's frames begin with it.     *)
(***************************************************************************)
EXTENDS Correlation

CONSTANTS own1, own2, own3, mvn, lib

SomeChars ==
  [f \in Frames \cup {Message} |->
     CASE f = own1 -> 1 [] f = own2 -> 2 [] f = own3 -> 4 [] OTHER -> 3]

SomeTexts ==
  [at : {TRUE}, frames : {<<>>, <<own1>>, <<mvn, lib>>, <<lib, own2, mvn, own1>>}]
  \cup {[at |-> FALSE, frames |-> <<>>]}

Case(a, e, f, err) == [attempts |-> a, errors |-> e, failures |-> f, err |-> err]

SomeReports ==
  {<<Case(<<t>>, <<>>, <<>>, <<>>)>> : t \in SomeTexts}
  \cup {<<Case(<<>>, <<>>, <<t>>, <<[at |-> FALSE, frames |-> <<>>]>>)>> : t \in SomeTexts}
  \cup {<<Case(<<>>, <<t>>, <<[at |-> TRUE, frames |-> <<own2>>]>>, <<>>)>> : t \in SomeTexts}
  \cup {<<Case(<<t>>, <<>>, <<>>, <<>>), Case(<<>>, <<>>, <<>>, <<[at |-> TRUE, frames |-> <<own2>>]>>)>> : t \in SomeTexts}
  \cup {<<>>}

SomeTraces ==
  UNION {[1 .. n -> {own1, own2, own3}] : n \in 1 .. 3} \cup [1 .. 4 -> {own1, own2}]
=============================================================================
