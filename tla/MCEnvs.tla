------------------------------- MODULE MCEnvs -------------------------------
(* TLC instance of Envs.  The pages directories are put in are alike. *)
EXTENDS Envs, TLC

FrameSymmetry == Permutations(Frame)
=============================================================================
