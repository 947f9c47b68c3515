------------------------------- MODULE RigGet -------------------------------
(***************************************************************************)
(* One measured GET of the rig probe (probe/rig_probe_main.cpp): the       *)
(* callback rig_callback with the atomics of its RigContext, and the       *)
(* experiments diag and rt-guard (exp_single_get) that decide whether the  *)
(* registered landing memory may be read and released.                     *)
(*                                                                         *)
(* cuObjGet (external) calls the callback up to MaxCalls times, on any of  *)
(* Threads, also concurrently.  The server (external) may write into the   *)
(* landing memory from the moment any byte of a request is on the wire,    *)
(* and is only known to have stopped when a qualified receipt has come.    *)
(* A callback is named by its invocation number.  Loads and stores of the  *)
(* atomics submitted, completed and unknown are steps of their own, but    *)
(* for the catch block of the wrapper.                                     *)
(***************************************************************************)
EXTENDS Integers, Sequences, FiniteSets, RigContext

CONSTANTS
    MaxCalls,   \* bound: how often cuObjGet invokes the callback
    MaxOverlapping,  \* bound: the invocations before this one may come on different threads
    Threads,    \* threads cuObjGet calls from
    Guards,     \* values of RigContext::guard: TRUE for rt-guard, FALSE for diag
    Faults      \* what else goes wrong in the probe or the SDK

ASSUME RigAssumption ==
    /\ MaxCalls \in Nat \ {0} /\ MaxOverlapping \in Nat
    /\ Guards \subseteq BOOLEAN
    /\ Faults \subseteq {"info", "build", "throw", "push", "setup", "read", "dereg", "output"}

VARIABLES
    pc,            \* invocation -> where that callback is
    at,            \* invocation -> its Attempt record
    invocations, active, submitted, completed, unknown, evidence_lost, local_failure,  \* RigContext
    attempts,      \* RigContext::attempts: invocation numbers in the order of push
    loaded,        \* invocation -> a value it has loaded and not used yet
    guard,         \* RigContext::guard
    exp,           \* where exp_single_get is
    sdk,           \* SdkReturn of cuObjGet
    fixture,       \* state of the Fixture
    read,          \* Fixture::read_
    seen,          \* what the read of the landing found
    landing,       \* content of the landing span (external): "poison", "object" (the bytes
                   \* that --expect-sha is the digest of) or "other"
    intact,        \* whether the poison around it is intact (external)
    output_failed, \* jsonl_output_failed()
    verdict

ctxVars == <<invocations, active, submitted, completed, unknown, evidence_lost, local_failure, attempts>>
expVars == <<exp, sdk, fixture, read, seen, verdict>>
vars == <<pc, at, ctxVars, loaded, guard, expVars, landing, intact, output_failed>>

Calls == 0..(MaxCalls - 1)

\* wire says how much of the request the socket has accepted.  later: t_begin is
\* after the end marker of invocation 0.  same: callback size and offset are
\* those of invocation 0.  returned0: invocation 0 had returned to the SDK when
\* this one was entered (history).
NoAttempt ==
    [thread |-> "none", overlap |-> FALSE, later |-> FALSE, same |-> TRUE, returned0 |-> FALSE,
     guarded |-> FALSE, wire |-> "none", qualified |-> FALSE, injected |-> FALSE]

Emitted == {i \in Calls : at[i].wire # "none"}
InFlight == {i \in Emitted : ~at[i].qualified}

Init ==
    /\ pc = [i \in Calls |-> "none"]
    /\ at = [i \in Calls |-> NoAttempt]
    /\ invocations = 0 /\ active = 0 /\ submitted = 0 /\ completed = 0
    /\ unknown = FALSE /\ evidence_lost = FALSE /\ local_failure = FALSE
    /\ attempts = <<>>
    /\ loaded = [i \in Calls |-> 0]
    /\ guard \in Guards
    /\ exp = "setup"
    /\ sdk = [present |-> FALSE, value |-> "none"]
    /\ fixture = "new"
    /\ read = FALSE
    /\ seen = [digest |-> "none", intact |-> FALSE]
    /\ landing = "poison"
    /\ intact = TRUE
    /\ output_failed = FALSE
    /\ verdict = "none"

Goto(i, where) == pc' = [pc EXCEPT ![i] = where]

-----------------------------------------------------------------------------
(* The callback. *)

\* cuObjGet calls the callback on an idle thread.  Invocation number and overlap
\* are taken in one section under entry_mu.  later and same are looked at under the
\* guard only, and vary only there.
Enter(t) ==
    LET i == invocations
        ended0 == i > 0 /\ pc[0] \in {"push", "leave", "left", "returned"}
    IN  /\ exp = "get"
        /\ i < MaxCalls
        /\ i >= MaxOverlapping => \A j \in 0..(i - 1) : at[j].thread = t
        /\ \A j \in 0..(i - 1) : at[j].thread = t => pc[j] = "returned"
        /\ invocations' = i + 1
        /\ active' = active + 1
        /\ \E later \in IF guard /\ ended0 THEN BOOLEAN ELSE {FALSE},
              same \in IF guard /\ i > 0 THEN BOOLEAN ELSE {TRUE} :
              at' = [at EXCEPT ![i] = [NoAttempt EXCEPT !.thread = t, !.overlap = active > 0, !.later = later,
                                                        !.same = same, !.returned0 = (i > 0 /\ pc[0] = "returned")]]
        /\ Goto(i, "check")
        /\ UNCHANGED <<submitted, completed, unknown, evidence_lost, local_failure, attempts, loaded, guard,
                       expVars, landing, intact, output_failed>>

\* RigContext::push keeps the record or, out of memory, only the fact of the loss.
Push(i) ==
    \/ /\ attempts' = Append(attempts, i)
       /\ UNCHANGED evidence_lost
    \/ /\ "push" \in Faults
       /\ evidence_lost' = TRUE
       /\ UNCHANGED attempts

\* Mutant: the latch looks at the guard only.
GuardedOnlyByGuard(i) == i >= 1 /\ guard

\* Mutant: the guard also needs an unknown completion.
GuardedOnlyIfUnknown(i) == i >= 1 /\ guard /\ unknown

Guarded(i) == i >= 1 /\ (guard \/ unknown)

\* Mutant: under the latch a later invocation waits for the completion.
CheckWaits(i) ==
    /\ pc[i] = "check"
    /\ i >= 1 => ~unknown
    /\ Goto(i, "build")
    /\ UNCHANGED <<at, ctxVars, loaded, guard, expVars, landing, intact, output_failed>>

\* A callback without RDMA info leaves no record.  A later invocation under the
\* guard or the unknown-completion latch emits nothing.
Check(i) ==
    /\ pc[i] = "check"
    /\ \/ /\ "info" \in Faults
          /\ Goto(i, "leave")
          /\ UNCHANGED <<at, attempts, evidence_lost>>
       \/ /\ Guarded(i)
          /\ at' = [at EXCEPT ![i].guarded = TRUE]
          /\ Push(i)
          /\ Goto(i, "leave")
       \/ /\ ~Guarded(i)
          /\ Goto(i, "build")
          /\ UNCHANGED <<at, attempts, evidence_lost>>
    /\ UNCHANGED <<invocations, active, submitted, completed, unknown, local_failure, loaded, guard,
                   expVars, landing, intact, output_failed>>

\* Token, target and headers; a failure is recorded and nothing is sent.
Build(i) ==
    /\ pc[i] = "build"
    /\ \/ /\ Goto(i, "submit")
          /\ UNCHANGED <<local_failure, attempts, evidence_lost>>
       \/ /\ "build" \in Faults
          /\ local_failure' = TRUE
          /\ Push(i)
          /\ Goto(i, "leave")
    /\ UNCHANGED <<at, invocations, active, submitted, completed, unknown, loaded, guard,
                   expVars, landing, intact, output_failed>>

Submit(i) ==
    /\ pc[i] = "submit"
    /\ submitted' = submitted + 1
    /\ Goto(i, "latch")
    /\ UNCHANGED <<at, invocations, active, completed, unknown, evidence_lost, local_failure, attempts, loaded,
                   guard, expVars, landing, intact, output_failed>>

Latch(i) ==
    /\ pc[i] = "latch"
    /\ unknown' = TRUE
    /\ Goto(i, "send")
    /\ UNCHANGED <<at, invocations, active, submitted, completed, evidence_lost, local_failure, attempts, loaded,
                   guard, expVars, landing, intact, output_failed>>

\* raw_http_get: the request is refused or cannot be connected, and no byte is
\* accepted; or it is accepted in part, or as a whole, with or without a token.
Send(i) ==
    /\ pc[i] = "send"
    /\ \/ /\ Goto(i, "takeback")
          /\ local_failure' = TRUE
          /\ UNCHANGED at
       \/ /\ \E w \in {"partial", "sent", "tokenless"} : at' = [at EXCEPT ![i].wire = w]
          /\ Goto(i, "receive")
          /\ UNCHANGED local_failure
    /\ UNCHANGED <<invocations, active, submitted, completed, unknown, evidence_lost, attempts, loaded,
                   guard, expVars, landing, intact, output_failed>>

\* Nothing was written: submitted.fetch_sub, then unknown is cleared if the
\* counters agree.
TakeBack(i) ==
    /\ pc[i] = "takeback"
    /\ submitted' = submitted - 1
    /\ Goto(i, "tb_submitted")
    /\ UNCHANGED <<at, invocations, active, completed, unknown, evidence_lost, local_failure, attempts, loaded,
                   guard, expVars, landing, intact, output_failed>>

LoadSubmitted(i) ==
    /\ pc[i] = "tb_submitted"
    /\ loaded' = [loaded EXCEPT ![i] = submitted]
    /\ Goto(i, "tb_completed")
    /\ UNCHANGED <<at, ctxVars, guard, expVars, landing, intact, output_failed>>

\* Mutant: an attempt taken back leaves the latch set.
LoadCompletedNeverClears(i) ==
    /\ pc[i] = "tb_completed"
    /\ Goto(i, "push")
    /\ UNCHANGED <<at, ctxVars, loaded, guard, expVars, landing, intact, output_failed>>

LoadCompleted(i) ==
    /\ pc[i] = "tb_completed"
    /\ Goto(i, IF loaded[i] = completed THEN "tb_clear" ELSE "push")
    /\ UNCHANGED <<at, ctxVars, loaded, guard, expVars, landing, intact, output_failed>>

\* The receipt of request i: qualified (completion_authority), or not.  Only a
\* complete token-bearing request gets a qualified one, and the server sends it
\* after its last write; what it has written, if anything, the receipt does not say.
Receive(i) ==
    /\ pc[i] = "receive"
    /\ \/ /\ at[i].wire = "sent"
          /\ at' = [at EXCEPT ![i].qualified = TRUE]
          /\ Goto(i, "q_test")
       \/ /\ Goto(i, "push")
          /\ UNCHANGED at
    /\ UNCHANGED <<ctxVars, loaded, guard, expVars, landing, intact, output_failed>>

\* A qualified receipt counts only for the single submission.
TestSingle(i) ==
    /\ pc[i] = "q_test"
    /\ Goto(i, IF submitted = 1 THEN "q_count" ELSE "push")
    /\ UNCHANGED <<at, ctxVars, loaded, guard, expVars, landing, intact, output_failed>>

CountCompleted(i) ==
    /\ pc[i] = "q_count"
    /\ completed' = completed + 1
    /\ Goto(i, "q_clear")
    /\ UNCHANGED <<at, invocations, active, submitted, unknown, evidence_lost, local_failure, attempts, loaded,
                   guard, expVars, landing, intact, output_failed>>

ClearUnknown(i) ==
    /\ pc[i] \in {"q_clear", "tb_clear"}
    /\ unknown' = FALSE
    /\ Goto(i, "push")
    /\ UNCHANGED <<at, invocations, active, submitted, completed, evidence_lost, local_failure, attempts, loaded,
                   guard, expVars, landing, intact, output_failed>>

\* Under the guard the result of the first, qualified transfer is replaced.
Record(i) ==
    /\ pc[i] = "push"
    /\ at' = [at EXCEPT ![i].injected = guard /\ i = 0 /\ at[i].qualified]
    /\ Push(i)
    /\ Goto(i, "leave")
    /\ UNCHANGED <<invocations, active, submitted, completed, unknown, local_failure, loaded, guard,
                   expVars, landing, intact, output_failed>>

\* An exception in raw_http_get, or while its result is copied, ends in the
\* wrapper's catch block.
Throw(i) ==
    /\ "throw" \in Faults
    /\ pc[i] \in {"send", "receive", "q_test", "push"}
    /\ pc[i] = "push" => ~at[i].qualified
    /\ unknown' = (unknown \/ submitted > completed)
    /\ evidence_lost' = TRUE
    /\ Goto(i, "leave")
    /\ UNCHANGED <<at, invocations, active, submitted, completed, local_failure, attempts, loaded, guard,
                   expVars, landing, intact, output_failed>>

\* ~Leave, then the return into the SDK.
Leave(i) ==
    /\ pc[i] = "leave"
    /\ active' = active - 1
    /\ Goto(i, "left")
    /\ UNCHANGED <<at, invocations, submitted, completed, unknown, evidence_lost, local_failure, attempts, loaded,
                   guard, expVars, landing, intact, output_failed>>

Return(i) ==
    /\ pc[i] = "left"
    /\ Goto(i, "returned")
    /\ UNCHANGED <<at, ctxVars, loaded, guard, expVars, landing, intact, output_failed>>

Callback(i) ==
    \/ Check(i) \/ Build(i) \/ Submit(i) \/ Latch(i) \/ Send(i) \/ TakeBack(i) \/ LoadSubmitted(i)
    \/ LoadCompleted(i) \/ Receive(i) \/ TestSingle(i) \/ CountCompleted(i) \/ ClearUnknown(i)
    \/ Record(i) \/ Throw(i) \/ Leave(i) \/ Return(i)

\* The server writes for a request that may have reached it: the object or, if it is
\* wrong, other bytes or beside the landing span.
ServerWrites ==
    /\ \E i \in InFlight : at[i].wire # "tokenless"
    /\ landing' \in {"object", "other"}
    /\ intact' \in {intact, FALSE}
    /\ UNCHANGED <<pc, at, ctxVars, loaded, guard, expVars, output_failed>>

-----------------------------------------------------------------------------
(* exp_single_get. *)

\* cuObjGet returns when no callback of it is running, with any value, or throws.
SdkReturns ==
    /\ exp = "get"
    /\ \A i \in Calls : pc[i] \in {"none", "returned"}
    /\ sdk' \in [present : {TRUE}, value : {"expected", "short", "negative"}]
                \cup {[present |-> FALSE, value |-> "none"]}
    /\ exp' = "gate"
    /\ UNCHANGED <<pc, at, ctxVars, loaded, guard, fixture, read, seen, verdict, landing, intact, output_failed>>

\* Mutant: the result does not look at the output.
FinishUncapped(v) ==
    /\ exp' = "done"
    /\ verdict' = v

\* finish: a PASS with incomplete output is no PASS.
Finish(v) ==
    /\ exp' = "done"
    /\ verdict' = IF output_failed /\ v = "PASS" THEN "INCONCLUSIVE" ELSE v

\* Fixture, registration, callback capacity and poison.  After a failure, before
\* anything was sent, the fixture is released, or retained where that fails and
\* where the poison collides with the expected digest.
Setup ==
    /\ exp = "setup"
    /\ \/ /\ exp' = "get"
          /\ fixture' = "registered"
          /\ UNCHANGED verdict
       \/ /\ "setup" \in Faults
          /\ fixture' \in {"released", "retained"}
          /\ Finish("ENV_ERROR")
    /\ UNCHANGED <<pc, at, ctxVars, loaded, guard, sdk, read, seen, landing, intact, output_failed>>

\* Mutant: the gate trusts the latch alone.
HoldUnknownOnly == submitted > 0 /\ (unknown \/ evidence_lost \/ ~sdk.present)

Hold == submitted > 0 /\ (unknown \/ evidence_lost \/ ~sdk.present \/ completed # submitted)

\* The gate before any read or release.  --neg-class unknown holds in any case.
Gate ==
    /\ exp = "gate"
    /\ \E declaredUnknown \in BOOLEAN :
          \/ /\ declaredUnknown \/ Hold
             /\ fixture' = "retained"
             /\ Finish("INCONCLUSIVE")
          \/ /\ ~declaredUnknown /\ ~Hold
             /\ exp' = "read"
             /\ UNCHANGED <<fixture, verdict>>
    /\ UNCHANGED <<pc, at, ctxVars, loaded, guard, sdk, read, seen, landing, intact, output_failed>>

ReadLanding ==
    /\ exp = "read"
    /\ read' = TRUE
    /\ \/ /\ seen' = [digest |-> landing, intact |-> intact]
          /\ exp' = "release"
          /\ UNCHANGED <<fixture, verdict>>
       \/ /\ "read" \in Faults
          /\ fixture' = "retained"
          /\ Finish("ENV_ERROR")
          /\ UNCHANGED seen
    /\ UNCHANGED <<pc, at, ctxVars, loaded, guard, sdk, landing, intact, output_failed>>

\* Fixture::release: deregistration, and only if it succeeds the end of sessions
\* and arena; else everything is retained.
Release ==
    /\ exp = "release"
    /\ \/ /\ fixture' = "released"
          /\ exp' = "judge"
          /\ UNCHANGED verdict
       \/ /\ "dereg" \in Faults
          /\ fixture' = "retained"
          /\ Finish("FAIL")
    /\ UNCHANGED <<pc, at, ctxVars, loaded, guard, sdk, read, seen, landing, intact, output_failed>>

HttpAttempts == Cardinality({i \in Calls : at[i].wire = "sent"})

\* Mutant: only the overlap flags are looked at.
GuardWitnessOverlapOnly ==
    /\ Len(attempts) >= 2
    /\ \A k \in DOMAIN attempts : ~at[attempts[k]].overlap
    /\ at[attempts[1]].injected
    /\ \A k \in 2..Len(attempts) : at[attempts[k]].guarded

\* guard_witness over the pushed records.
GuardWitness ==
    /\ Len(attempts) >= 2
    /\ \A k \in DOMAIN attempts : ~at[attempts[k]].overlap /\ at[attempts[k]].wire # "partial"
    /\ at[attempts[1]].injected /\ ~at[attempts[1]].guarded /\ at[attempts[1]].wire = "sent"
    /\ Cardinality({k \in DOMAIN attempts : at[attempts[k]].wire = "sent"}) = 1
    /\ \A k \in 2..Len(attempts) :
          LET a == at[attempts[k]]
          IN  a.guarded /\ a.later /\ a.thread = at[attempts[1]].thread /\ a.same

\* The verdict of rt-guard; sha: --expect-sha was given.
JudgeGuard(sha) ==
    IF evidence_lost \/ attempts = <<>> THEN "INCONCLUSIVE"
    ELSE IF ~at[attempts[1]].injected \/ invocations < 2 THEN "INCONCLUSIVE"
    ELSE IF HttpAttempts > 1 \/ (sdk.present /\ sdk.value # "negative") \/ ~seen.intact THEN "FAIL"
    ELSE IF GuardWitness /\ sha /\ seen.digest = "object" THEN "PASS"
    ELSE "INCONCLUSIVE"

\* The verdict of diag.
JudgeDiag(sha) ==
    IF evidence_lost \/ ~sha THEN "INCONCLUSIVE"
    ELSE IF invocations = 1 /\ sdk = [present |-> TRUE, value |-> "expected"] /\ seen = [digest |-> "object", intact |-> TRUE]
         THEN "PASS" ELSE "FAIL"

Judge ==
    /\ exp = "judge"
    /\ \E sha \in BOOLEAN : Finish(IF guard THEN JudgeGuard(sha) ELSE JudgeDiag(sha))
    /\ UNCHANGED <<pc, at, ctxVars, loaded, guard, sdk, fixture, read, seen, landing, intact, output_failed>>

\* Writing a record fails; or throws, and the experiment unwinds: ~Fixture
\* retains what is not released, main() reports ENV_ERROR.
OutputFails ==
    /\ "output" \in Faults
    /\ exp \in {"gate", "read", "release", "judge"}
    /\ output_failed' = TRUE
    /\ \/ UNCHANGED <<exp, fixture, verdict>>
       \/ /\ exp' = "done"
          /\ fixture' = IF fixture = "released" THEN "released" ELSE "retained"
          /\ verdict' = "ENV_ERROR"
    /\ UNCHANGED <<pc, at, ctxVars, loaded, guard, sdk, read, seen, landing, intact>>

Experiment == Setup \/ SdkReturns \/ Gate \/ ReadLanding \/ Release \/ Judge

Next ==
    \/ \E t \in Threads : Enter(t)
    \/ \E i \in Calls : Callback(i)
    \/ ServerWrites \/ Experiment \/ OutputFails

-----------------------------------------------------------------------------
(* Properties. *)

\* The landing memory is neither read nor given back while a request that may
\* have reached the server has no qualified receipt: the gate of
\* exp_single_get, whatever the callbacks did to the counters and the latch
\* concurrently, and on every error path.
NoUseInFlight == (read \/ fixture = "released") => InFlight = {}

\* PASS is earned: one message left the probe, its receipt is qualified, the
\* object is in the landing span and nothing beside it changed, the memory was
\* given back, and no record and no output line was lost.
PassEarned ==
    verdict = "PASS" =>
        /\ Cardinality(Emitted) = 1 /\ InFlight = {}
        /\ landing = "object" /\ intact
        /\ fixture = "released"
        /\ ~evidence_lost /\ ~output_failed

\* Under rt-guard only the first invocation ever emits, however the SDK
\* schedules its callbacks.
GuardEmitsOnce == guard => Emitted \subseteq {0}

\* When guard_witness accepts, the SDK had received the injected return before
\* it entered any later callback on record.
WitnessSound ==
    GuardWitness => \A k \in 2..Len(attempts) : at[attempts[k]].returned0

\* As long as callbacks do not overlap, none puts a request on the wire while an
\* earlier one is on the wire without a qualified receipt ("Any later invocation -
\* intentional guard or an unknown-completion latch - emits nothing ..., whatever
\* else happens", rig_probe_main.cpp:413).
LatchHolds ==
    [][\A i \in Calls : at[i].wire = "none" /\ at'[i].wire # "none" /\ (\A j \in Calls : ~at[j].overlap)
            => InFlight \ {i} = {}]_vars

\* The RigContext in the terms of RigContext.
Left ==
    LET agree == completed = submitted
    IN  [recorded |-> attempts # <<>>,
         native |-> invocations = 1 /\ attempts # <<>> /\ at[attempts[1]].qualified,
         agree |-> agree,
         unknown |-> IF evidence_lost THEN ~agree ELSE unknown,
         lost |-> evidence_lost,
         local |-> local_failure /\ ~evidence_lost]

\* Once all callbacks of a GET have returned, they leave one of the contexts that
\* the experiment c is modelled with, however they were interleaved and whichever
\* step failed: the latch is never left set with counters that agree, a GET with a
\* single qualified receipt leaves nothing against it, and where no record is left
\* nothing was sent.  Where the counters agree, as the gates of both experiments
\* want it, no request is in flight.
ContextCovered ==
    (\A i \in Calls : pc[i] \in {"none", "returned"}) =>
        /\ Left \in Ends \cup {NoContext}
        /\ Left.agree => InFlight = {}
=============================================================================
