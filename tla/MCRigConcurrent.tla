-------------------------- MODULE MCRigConcurrent --------------------------
(* RigConcurrent on a small instance. *)
EXTENDS RigConcurrent

AllFaults == {"setup", "poison", "spawn", "read", "dereg", "output"}
=============================================================================
