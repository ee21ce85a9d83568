--------------------------- MODULE MCContextHandoff ---------------------------
(* Model checking ContextHandoff: idents and values have no order.          *)
EXTENDS ContextHandoff, TLC

Symmetry == Permutations(Idents) \union Permutations(Values)
=============================================================================
