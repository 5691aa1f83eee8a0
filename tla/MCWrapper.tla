------------------------------ MODULE MCWrapper ------------------------------
(***************************************************************************)
(* Small JVMs for Wrapper.  There are three interception sites on two      *)
(* lines, so that a line can be hit for two causes and a cause has two     *)
(* lines; threads created at the one trace tr share their id as soon as    *)
(* there are more of them than NonceRange.                                 *)
(***************************************************************************)
EXTENDS Wrapper

CONSTANTS c1, c2, l1, l2, tr, t1, t2

TwoCauses == {<<c1, l1>>, <<c2, l1>>, <<c1, l2>>}
OneCause  == {<<c1, l1>>, <<c1, l2>>}
BothLines == {l1, l2}
StartSite == <<c1, l1>>
FirstId   == <<tr, 0>>
=============================================================================
