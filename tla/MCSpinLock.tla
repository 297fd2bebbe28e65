----------------------------- MODULE MCSpinLock -----------------------------
(* TLC instance of SpinLock: three CPUs, any sequence of calls by each. *)
EXTENDS SpinLock
=============================================================================
