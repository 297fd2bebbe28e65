----------------------------- MODULE MCSmpBoot ------------------------------
(***************************************************************************)
(* TLC instances of SmpBoot: tables of up to four processors with entries  *)
(* of other types before and after, for a cpus[] of three.                 *)
(***************************************************************************)
EXTENDS SmpBoot

Proc(a, b) == [type |-> "proc", apicid |-> a, boot |-> b]

Other == [type |-> "other"]
Unknown == [type |-> "unknown"]

(* Processors listed in the order of their ids, as QEMU's BIOS does; the   *)
(* boot processor anywhere, also where cpus[] has no room for it.          *)
OrderedTables ==
  {<<>>} \cup
  {[k \in 1 .. x[1] |-> Proc(k - 1, k - 1 = x[2])] \o tail :
     x \in {y \in (1 .. 4) \X (0 .. 3) : y[2] < y[1]},
     tail \in {<<>>, <<Other>>, <<Other, Unknown>>}}

ASSUME OrderedTablesInOrder == \A t \in OrderedTables : InOrder(t)

(* The boot processor has id 1 and is listed first. *)
ReorderedTables == {<<Proc(1, TRUE), Proc(0, FALSE), Proc(2, FALSE)>>}
=============================================================================
