------------------------------- MODULE Routine -------------------------------
(***************************************************************************)
(* The parts of the kernel that run on one processor, undisturbed, from a  *)
(* call to its return: job names the one that runs, st holds its locals    *)
(* and the data it works on, st.pc where it is.  Each module that extends  *)
(* this one adds one job.                                                  *)
(***************************************************************************)
EXTENDS Integers

VARIABLES job, st

routineVars == <<job, st>>

(* The job is name, and has reached the place pc. *)
At(name, pc) == job = name /\ st.pc = pc

(* The job goes on with s as its state. *)
Becomes(s) == st' = s /\ UNCHANGED job

(* The routine has returned, or panicked. *)
Returned == st.pc = "done"

Idle == Returned /\ UNCHANGED routineVars

RoundUp(n, size) == ((n + size - 1) \div size) * size
RoundDown(n, size) == (n \div size) * size
=============================================================================
