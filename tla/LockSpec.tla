------------------------------ MODULE LockSpec ------------------------------
(***************************************************************************)
(* What kern/spinlock.h promises its callers: lock_kernel() returns on one *)
(* CPU at a time, and the CPU inside stays inside until it calls           *)
(* unlock_kernel().  "inside" is the set of CPUs between the two calls.    *)
(***************************************************************************)
CONSTANT CPU

VARIABLE inside

LInit == inside = {}

(* lock_kernel() returns on CPU c: nobody else is inside. *)
Acquire(c) == inside = {} /\ inside' = {c}

(* unlock_kernel() lets go of the lock on CPU c, which was inside. *)
Release(c) == inside = {c} /\ inside' = {}

LNext == \E c \in CPU : Acquire(c) \/ Release(c)

LSpec == LInit /\ [][LNext]_inside
=============================================================================
