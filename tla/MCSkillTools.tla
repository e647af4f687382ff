---------------------------- MODULE MCSkillTools ----------------------------
(***************************************************************************)
(* Small evaluation sets and iterations for the skill tools.               *)
(***************************************************************************)
EXTENDS SkillTools

Yes(q) == [query |-> q, should |-> TRUE]
No(q) == [query |-> q, should |-> FALSE]

(* A split with a query of each kind in it, no hold-out, one text with two *)
(* expectations, one text in both sets, and a train set that is empty.     *)
MCSetups ==
  {[items |-> <<Yes("a"), Yes("b"), No("c")>>, runs |-> 1, holdout |-> <<2, 5>>],
   [items |-> <<Yes("a")>>, runs |-> 3, holdout |-> <<0, 5>>],
   [items |-> <<Yes("a"), No("a")>>, runs |-> 1, holdout |-> <<0, 5>>],
   [items |-> <<Yes("a"), Yes("a")>>, runs |-> 1, holdout |-> <<2, 5>>],
   [items |-> <<Yes("a"), No("b")>>, runs |-> 1, holdout |-> <<2, 5>>]}

MCThreshold == <<1, 2>>
MCConfigs == <<"with_skill", "without_skill">>
=============================================================================
