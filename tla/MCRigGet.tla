------------------------------ MODULE MCRigGet ------------------------------
(* The experiments of the rig probe on small instances. *)
EXTENDS RigProbe

AllFaults == {"info", "build", "throw", "push", "setup", "read", "dereg", "output"}
=============================================================================
