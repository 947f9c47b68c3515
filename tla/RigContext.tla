----------------------------- MODULE RigContext -----------------------------
(***************************************************************************)
(* The RigContext that the callbacks of one GET of the rig probe leave     *)
(* (probe/rig_probe_main.cpp), as far as the experiment c looks at it.     *)
(* RigConcurrent takes a GET to end with any of Ends; RigGet has the       *)
(* callbacks themselves, and shows that they leave nothing else.           *)
(***************************************************************************)

\* recorded: attempts is not empty.  native: one invocation, and its attempt is
\* qualified_complete.  agree: completed = submitted.
NoContext ==
    [recorded |-> FALSE, native |-> FALSE, agree |-> TRUE, unknown |-> FALSE, lost |-> FALSE, local |-> FALSE]

\* What callbacks leave behind.  Latch and local failure are not read once a
\* record is lost, and have one value then.
Ends ==
    LET Flags == [recorded : BOOLEAN, native : {FALSE}, agree : BOOLEAN, unknown : BOOLEAN, lost : BOOLEAN, local : BOOLEAN]
    IN  {[recorded |-> TRUE, native |-> TRUE, agree |-> TRUE, unknown |-> FALSE, lost |-> FALSE, local |-> FALSE]}
        \cup {c \in Flags : /\ c.recorded \/ c.lost
                            /\ c.unknown => ~c.agree
                            /\ c.lost => ~c.local /\ (c.unknown <=> ~c.agree)}
=============================================================================
