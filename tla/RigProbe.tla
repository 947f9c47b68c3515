------------------------------ MODULE RigProbe ------------------------------
(***************************************************************************)
(* main() of the rig probe: it runs one of its experiments, diag or        *)
(* rt-guard (RigGet) or exit (RigExit).  RigConcurrent has the experiment  *)
(* c.                                                                      *)
(***************************************************************************)
EXTENDS RigGet

CONSTANTS Deadline, Grace

ASSUME ExitAssumption == Deadline \in Nat \ {0} /\ Grace \in Nat \ {0}

VARIABLES which, parent, now, until, child, status, abrupt, ignored, killed, output, complete, returned, result

Exit == INSTANCE RigExit

exitVars == <<parent, now, until, child, status, abrupt, ignored, killed, output, complete, returned, result>>
probeVars == <<vars, which, exitVars>>

\* Options that the experiment does not look at have one value.
ProbeInit ==
    /\ which \in {"single", "exit"}
    /\ Init /\ Exit!Init
    /\ which = "single" => ~abrupt /\ ~ignored
    /\ which = "exit" => ~guard

SingleStep(A) == which = "single" /\ A /\ UNCHANGED <<which, exitVars>>
ExitStep(A) == which = "exit" /\ A /\ UNCHANGED <<which, vars>>

ProbeNext == SingleStep(Next) \/ ExitStep(Exit!Next)

\* Callbacks and the experiments are running code, and time passes; cuObjGet returns
\* and raw_http_get is bounded by its 30 s deadline.  The child process may hang.
ProbeSpec ==
    /\ ProbeInit /\ [][ProbeNext]_probeVars
    /\ WF_probeVars(SingleStep(Experiment))
    /\ \A i \in Calls : WF_probeVars(SingleStep(Callback(i)))
    /\ WF_probeVars(ExitStep(Exit!Parent)) /\ WF_probeVars(ExitStep(Exit!Tick))

-----------------------------------------------------------------------------
(* Properties of the exit experiment, and of all. *)

\* See RigExit: PASS rests on a complete GET and a normal return, not on a kill.
ExitPassEarned == Exit!ExitPassEarned

\* See RigExit: no child with a live registration is left behind by the parent.
NoChildLeft == Exit!NoChildLeft

\* The probe comes to an end, whatever the child process does.
ProbeEnds == <>(exp = "done" \/ parent \in {"done", "aborted"})
=============================================================================
