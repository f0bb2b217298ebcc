----------------------------- MODULE MCActionLog ----------------------------
(* ActionLog with three owners, three actions and a page.  Owners and        *)
(* actions are interchangeable; every property is one of states or steps.    *)
EXTENDS ActionLog, TLC

Symmetry == Permutations(Owners) \union Permutations(Actions)
=============================================================================
