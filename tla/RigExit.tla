------------------------------ MODULE RigExit ------------------------------
(***************************************************************************)
(* The exit experiment of the rig probe (exp_exit and exp_exit_child in    *)
(* probe/rig_probe_main.cpp): a child process makes one GET and ends while *)
(* its registration is live; the parent polls for it up to a deadline,     *)
(* kills it, polls for a grace time more, and judges.                      *)
(*                                                                         *)
(* The child's GET is reduced to whether it is known complete; RigGet has  *)
(* the callbacks.  The child may crash or hang anywhere, and a child stuck *)
(* in the kernel may survive SIGKILL for any time.                         *)
(***************************************************************************)
EXTENDS Integers

CONSTANTS
    Deadline,  \* --deadline-s, in ticks
    Grace      \* the 5 s for reaping, in ticks

VARIABLES
    parent,    \* where exp_exit is
    now,       \* ticks since fork
    until,     \* end of the grace time
    child,     \* where exp_exit_child is; "zombie": ended, "gone": reaped
    status,    \* exit status of the child, chosen or final, or "signal"
    abrupt,    \* --abrupt
    ignored,   \* SIGCHLD is inherited as ignored: nothing is left to reap
    killed,    \* SIGKILL: "no", "sent", or "failed" where kill() failed
    output,    \* jsonl_output_failed() of the parent and of the child
    complete,  \* history: the child's GET was known complete
    returned,  \* history: the child's finalizers ran to the end
    result     \* the verdict

vars == <<parent, now, until, child, status, abrupt, ignored, killed, output, complete, returned, result>>

Init ==
    /\ parent = "start" /\ now = 0 /\ until = 0
    /\ child = "none" /\ status = "none"
    /\ abrupt \in BOOLEAN /\ ignored \in BOOLEAN
    /\ killed = "no" /\ output = [parent |-> FALSE, child |-> FALSE]
    /\ complete = FALSE /\ returned = FALSE /\ result = "none"

-----------------------------------------------------------------------------
(* The child. *)

Running == {"exec", "setup", "get", "final"}

\* The process ends.
End(s) == child' = (IF ignored THEN "gone" ELSE "zombie") /\ status' = s

\* main() returns s, and the process finalizers run.
Returns(s) == child' = "final" /\ status' = s

ChildExec ==
    /\ child = "exec" /\ killed # "sent"
    /\ \/ child' = "setup" /\ UNCHANGED status
       \/ End("127")
    /\ UNCHANGED <<parent, now, until, abrupt, ignored, killed, output, complete, returned, result>>

ChildSetup ==
    /\ child = "setup" /\ killed # "sent"
    /\ \/ child' = "get" /\ UNCHANGED status
       \/ Returns("3")
    /\ UNCHANGED <<parent, now, until, abrupt, ignored, killed, output, complete, returned, result>>

\* The GET, its records and the choice of the exit path; an exception ends in main()
\* with 3.
ChildGet ==
    /\ child = "get" /\ killed # "sent"
    /\ \/ /\ complete' \in BOOLEAN
          /\ output' \in {output, [output EXCEPT !.child = TRUE]}
          /\ LET s == IF output'.child THEN "5" ELSE IF complete' THEN "0" ELSE "1"
             IN  IF complete' /\ abrupt THEN End(s) ELSE Returns(s)
       \/ Returns("3") /\ UNCHANGED <<complete, output>>
    /\ UNCHANGED <<parent, now, until, abrupt, ignored, killed, returned, result>>

ChildFinalizes ==
    /\ child = "final" /\ killed # "sent"
    /\ End(status)
    /\ returned' = TRUE
    /\ UNCHANGED <<parent, now, until, abrupt, ignored, killed, output, complete, result>>

\* A crash, an abort of CUDA_CHECK, or SIGKILL taking effect.
ChildDies ==
    /\ child \in Running
    /\ End("signal")
    /\ UNCHANGED <<parent, now, until, abrupt, ignored, killed, output, complete, returned, result>>

Child == ChildExec \/ ChildSetup \/ ChildGet \/ ChildFinalizes \/ ChildDies

-----------------------------------------------------------------------------
(* The parent. *)

\* finish: a PASS with incomplete output is no PASS.  main() calls exp_exit
\* outside of its try block: a record that throws ends the parent without a result.
Finish(v) ==
    \/ /\ parent' = "done"
       /\ output' \in {output, [output EXCEPT !.parent = TRUE]}
       /\ result' = IF output'.parent /\ v = "PASS" THEN "INCONCLUSIVE" ELSE v
    \/ parent' = "aborted" /\ UNCHANGED <<output, result>>

\* readlink and fork.
Fork ==
    /\ parent = "start"
    /\ \/ parent' = "wait" /\ child' = "exec" /\ UNCHANGED <<output, result>>
       \/ Finish("ENV_ERROR") /\ UNCHANGED child
    /\ UNCHANGED <<now, until, status, abrupt, ignored, killed, complete, returned>>

\* Time past the limit that the parent waits for makes no difference.
Tick ==
    /\ (parent = "wait" /\ now < Deadline) \/ (parent = "reap" /\ now < until)
    /\ now' = now + 1
    /\ UNCHANGED <<parent, until, child, status, abrupt, ignored, killed, output, complete, returned, result>>

\* Mutant: any other status 0 is a PASS.
JudgeAbruptToo ==
    CASE status \in {"127", "3"} -> "ENV_ERROR"
      [] status \in {"1", "5"} -> "INCONCLUSIVE"
      [] status = "0" -> "PASS"
      [] OTHER -> "FAIL"

Judge ==
    CASE status \in {"127", "3"} -> "ENV_ERROR"
      [] status \in {"1", "5"} -> "INCONCLUSIVE"
      [] status = "0" -> IF abrupt THEN "INCONCLUSIVE" ELSE "PASS"
      [] OTHER -> "FAIL"

\* waitpid finds the child, or an error because nothing is left to wait for.
Poll ==
    /\ parent = "wait" /\ now < Deadline
    /\ \/ child = "zombie" /\ child' = "gone" /\ Finish(Judge)
       \/ child = "gone" /\ UNCHANGED child /\ Finish("ENV_ERROR")
    /\ UNCHANGED <<now, until, status, abrupt, ignored, killed, complete, returned>>

\* Mutant: the deadline is reported without a kill.
KillForgotten ==
    /\ parent = "wait" /\ now >= Deadline
    /\ Finish("FAIL")
    /\ UNCHANGED <<now, until, child, status, abrupt, ignored, killed, complete, returned>>

\* kill() fails where no process is left, or where it is not permitted; the parent
\* records that and waits for the child all the same.
Kill ==
    /\ parent = "wait" /\ now >= Deadline
    /\ parent' = "reap"
    /\ killed' \in IF child = "gone" THEN {"failed"} ELSE {"sent", "failed"}
    /\ until' = now + Grace
    /\ UNCHANGED <<now, child, status, abrupt, ignored, output, complete, returned, result>>

\* Reaped, nothing to reap, or the grace time is over: FAIL in any case.
Reap ==
    /\ parent = "reap"
    /\ \/ now < until /\ child \in {"zombie", "gone"} /\ child' = "gone"
       \/ now >= until /\ UNCHANGED child
    /\ Finish("FAIL")
    /\ UNCHANGED <<now, until, status, abrupt, ignored, killed, complete, returned>>

Parent == Fork \/ Poll \/ Kill \/ Reap

Next == Parent \/ Child \/ Tick

-----------------------------------------------------------------------------
(* Properties. *)

\* PASS means that the child's GET was known complete, that the child left through a
\* normal return and its finalizers, by itself and before the deadline, and that
\* neither process lost output.
ExitPassEarned ==
    result = "PASS" =>
        /\ complete /\ returned /\ ~abrupt /\ killed = "no"
        /\ child = "gone" /\ status = "0"
        /\ output = [parent |-> FALSE, child |-> FALSE]

\* The parent leaves no child behind with its registration live, except one that it
\* has tried to kill and that was still there at the end of the whole grace time.
NoChildLeft ==
    parent \in {"done", "aborted"} /\ child \in Running =>
        killed # "no" /\ now >= until /\ until >= Deadline + Grace
=============================================================================
