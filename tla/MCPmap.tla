------------------------------- MODULE MCPmap -------------------------------
(***************************************************************************)
(* TLC instance of Pmap.  Pages are interchangeable: page_init may leave   *)
(* them in any order, and no action looks at which page it has.            *)
(***************************************************************************)
EXTENDS Pmap, TLC

PageSymmetry == Permutations(Page)
=============================================================================
