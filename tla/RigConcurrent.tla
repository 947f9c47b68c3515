--------------------------- MODULE RigConcurrent ---------------------------
(***************************************************************************)
(* The experiment "c" of the rig probe (exp_concurrent in                  *)
(* probe/rig_probe_main.cpp): one registered arena with a cell for each    *)
(* slot, one session per slot, a serial pass that takes a reference digest *)
(* of every slot, and then rounds in which one thread per slot GETs.       *)
(*                                                                         *)
(* A GET is reduced to the span of its callbacks and to the RigContext it  *)
(* leaves (RigContext); RigGet has the callbacks themselves.  The gateway  *)
(* (external) may go on writing for a request without counted completion;  *)
(* what it writes then is left open, because no such cell is read.         *)
(* The payload of slot k is k; a wrong one is Stray, for any slot.         *)
(***************************************************************************)
EXTENDS Integers, FiniteSets, FiniteSetsExt, RigContext

CONSTANTS
    W,           \* --slots
    Iterations,  \* --iterations
    Faults       \* what goes wrong in the probe

ASSUME ConcurrentAssumption ==
    /\ W \in Nat \ {0} /\ Iterations \in Nat
    /\ Faults \subseteq {"setup", "poison", "spawn", "read", "dereg", "output"}

Slots == 0..(W - 1)

VARIABLES
    main,     \* where exp_concurrent is
    cur,      \* slot of the serial pass
    it,       \* round
    get,      \* slot -> where its cuObjGet is
    ctx,      \* slot -> its RigContext
    rc,       \* slot -> its SdkReturn: "S", "other", or "none" if not present
    span,     \* slot -> first t_begin and last t_end of its callbacks
    clock,    \* steady_clock; events may share a reading
    cell,     \* slot -> payload span, and whether the poison around it is intact
    ref,      \* slot -> reference digest
    round_max, max_overlap, failures, failing_round_overlap,
    fixture,  \* "undereg": retained because deregistration failed
    output_failed,
    verdict,
    flight,      \* slots with a request on which the gateway may still act (external)
    overlapped,  \* history: two GETs of this round were inside callbacks at once
    witnessed    \* history: the same for any round

getVars == <<get, ctx, rc, span, clock, cell, flight, overlapped>>
tally == <<round_max, max_overlap, failures, failing_round_overlap>>
vars == <<main, cur, it, getVars, ref, tally, fixture, output_failed, verdict, witnessed>>

NoSpan == [b |-> 0, e |-> 0]
Poison == -1
Stray == W
Poisoned == [data |-> Poison, intact |-> TRUE]

Init ==
    /\ main = "setup" /\ cur = 0 /\ it = 0
    /\ get = [k \in Slots |-> "idle"]
    /\ ctx = [k \in Slots |-> NoContext]
    /\ rc = [k \in Slots |-> "none"]
    /\ span = [k \in Slots |-> NoSpan]
    /\ clock = 0
    /\ cell = [k \in Slots |-> Poisoned]
    /\ ref = [k \in Slots |-> Poison]
    /\ round_max = 0 /\ max_overlap = 0 /\ failures = 0 /\ failing_round_overlap = 0
    /\ fixture = "new" /\ output_failed = FALSE /\ verdict = "none"
    /\ flight = {} /\ overlapped = FALSE /\ witnessed = FALSE

-----------------------------------------------------------------------------
(* The ends of the experiment. *)

\* finish, and terminal_fallback: a PASS with incomplete output is no PASS.
Finish(v) ==
    /\ main' = "done"
    /\ verdict' = IF output_failed' /\ v = "PASS" THEN "INCONCLUSIVE" ELSE v

\* The result record outside of a try block may throw; main() then reports
\* ENV_ERROR.
FinishOrThrow(v) == Finish(v) \/ ("output" \in Faults /\ Finish("ENV_ERROR"))

retain_all(v) == fixture' = "retained" /\ FinishOrThrow(v)

release_or_retain(v) ==
    /\ fixture' \in {"released"} \cup (IF "dereg" \in Faults THEN {"undereg"} ELSE {})
    /\ FinishOrThrow(v)

\* Geometry, visibility, fixture, registration, callback capacity.
Setup ==
    /\ main = "setup"
    /\ \/ main' = "ref" /\ fixture' = "registered" /\ UNCHANGED <<output_failed, verdict>>
       \/ "setup" \in Faults /\ UNCHANGED output_failed /\ release_or_retain("ENV_ERROR")
    /\ UNCHANGED <<cur, it, getVars, ref, tally, witnessed>>

-----------------------------------------------------------------------------
(* cuObjGet of slot k, in the main thread or in the slot's thread. *)

\* The first callback reads the clock; the first of all begins is time 0.
Enter(k) ==
    /\ get[k] = "called"
    /\ get' = [get EXCEPT ![k] = "inside"]
    /\ clock' \in IF \E j \in Slots : get[j] = "inside" \/ ctx[j].recorded THEN {clock, clock + 1} ELSE {clock}
    /\ span' = [span EXCEPT ![k].b = clock']
    /\ overlapped' = (overlapped \/ \E j \in Slots : get[j] = "inside")
    /\ UNCHANGED <<main, cur, it, ctx, rc, cell, ref, tally, fixture, output_failed, verdict,
                   flight, witnessed>>

\* The last callback reads the clock, and cuObjGet returns or throws.  What has
\* landed is the payload, or, from a wrong backend, nothing, something else or
\* something beside the span; the cell of any other end is never read.
GetReturns(k) ==
    /\ get[k] = "inside"
    /\ get' = [get EXCEPT ![k] = "returned"]
    /\ clock' \in {clock, clock + 1}
    /\ \E c \in Ends, r \in {"S", "other", "none"} :
          /\ ctx' = [ctx EXCEPT ![k] = c]
          /\ rc' = [rc EXCEPT ![k] = r]
          /\ span' = [span EXCEPT ![k] = IF c.recorded THEN [@ EXCEPT !.e = clock'] ELSE NoSpan]
          /\ flight' = IF c.agree THEN flight ELSE flight \cup {k}
          /\ cell' \in IF c.native
                       THEN {[cell EXCEPT ![k].data = d] : d \in {k, Poison, Stray}}
                            \cup {[cell EXCEPT ![k] = [data |-> k, intact |-> FALSE]]}
                       ELSE {cell}
    /\ UNCHANGED <<main, cur, it, ref, tally, fixture, output_failed, verdict, overlapped, witnessed>>

\* cuObjGet returns or throws without a callback that leaves a record (one
\* without RDMA info does not).
GetUncalled(k) ==
    /\ get[k] = "called"
    /\ get' = [get EXCEPT ![k] = "returned"]
    /\ rc' \in {[rc EXCEPT ![k] = r] : r \in {"S", "other", "none"}}
    /\ UNCHANGED <<main, cur, it, ctx, span, clock, cell, ref, tally, fixture, output_failed, verdict,
                   flight, overlapped, witnessed>>

\* Mutant: the counters are not compared.
UnresolvedByLatch(k) == ctx[k].unknown \/ ctx[k].lost \/ rc[k] = "none"

Unresolved(k) == ctx[k].unknown \/ ctx[k].lost \/ rc[k] = "none" \/ ~ctx[k].agree

native_ok(k) == rc[k] = "S" /\ ctx[k].native

slot_ok(k) == native_ok(k) /\ cell[k].intact

-----------------------------------------------------------------------------
(* The serial pass. *)

\* setup and poison for the slots in S; their GETs are called.
Prepare(S) ==
    /\ cell' = [k \in Slots |-> IF k \in S THEN Poisoned ELSE cell[k]]
    /\ ctx' = [k \in Slots |-> IF k \in S THEN NoContext ELSE ctx[k]]
    /\ rc' = [k \in Slots |-> IF k \in S THEN "none" ELSE rc[k]]
    /\ span' = [k \in Slots |-> NoSpan]
    /\ clock' = 0
    /\ overlapped' = FALSE
    /\ UNCHANGED flight

PoisonFails(verdicts) ==
    /\ "poison" \in Faults
    /\ \E v \in verdicts : retain_all(v)
    /\ UNCHANGED getVars

RefStart ==
    /\ main = "ref"
    /\ UNCHANGED output_failed
    /\ \/ /\ Prepare({cur})
          /\ get' = [k \in Slots |-> IF k = cur THEN "called" ELSE "idle"]
          /\ main' = "ref_get"
          /\ UNCHANGED <<fixture, verdict>>
       \/ PoisonFails({"ENV_ERROR"})
    /\ UNCHANGED <<cur, it, ref, tally, witnessed>>

RefGate ==
    /\ main = "ref_get"
    /\ get[cur] = "returned"
    /\ UNCHANGED output_failed
    /\ \/ Unresolved(cur) /\ retain_all("INCONCLUSIVE")
       \/ ~Unresolved(cur) /\ ctx[cur].local /\ release_or_retain("ENV_ERROR")
       \/ /\ ~Unresolved(cur) /\ ~ctx[cur].local
          /\ main' = "ref_read"
          /\ UNCHANGED <<fixture, verdict>>
    /\ UNCHANGED <<cur, it, getVars, ref, tally, witnessed>>

\* The digest becomes the reference.  After the last slot all digests must differ.
RefRead ==
    /\ main = "ref_read"
    /\ UNCHANGED output_failed
    /\ \/ "read" \in Faults /\ retain_all("ENV_ERROR") /\ UNCHANGED <<cur, ref>>
       \/ /\ ~slot_ok(cur) \/ cell[cur].data = Poison
          /\ release_or_retain("ENV_ERROR")
          /\ UNCHANGED <<cur, ref>>
       \/ /\ slot_ok(cur) /\ cell[cur].data # Poison
          /\ ref' = [ref EXCEPT ![cur] = cell[cur].data]
          /\ cur' = cur + 1
          /\ IF cur' < W THEN main' = "ref" /\ UNCHANGED <<fixture, verdict>>
             ELSE IF \E a, b \in Slots : a < b /\ ref'[a] = ref'[b] THEN release_or_retain("INCONCLUSIVE")
             ELSE main' = "round" /\ UNCHANGED <<fixture, verdict>>
    /\ UNCHANGED <<it, getVars, tally, witnessed>>

-----------------------------------------------------------------------------
(* The rounds. *)

\* All cells are poisoned and one thread per slot is created; or only n are.
RoundStart ==
    /\ main = "round" /\ it < Iterations
    /\ UNCHANGED output_failed
    /\ \/ /\ Prepare(Slots)
          /\ \E n \in IF "spawn" \in Faults THEN 0..W ELSE {W} :
                /\ get' = [k \in Slots |-> IF k < n THEN "called" ELSE "idle"]
                /\ main' = IF n = W THEN "join" ELSE "join_failed"
          /\ UNCHANGED <<fixture, verdict>>
       \/ PoisonFails({"ENV_ERROR", "INCONCLUSIVE"})
    /\ UNCHANGED <<cur, it, ref, tally, witnessed>>

Joined == \A k \in Slots : get[k] \in {"idle", "returned"}

SpawnFailed ==
    /\ main = "join_failed" /\ Joined
    /\ UNCHANGED output_failed
    /\ retain_all("ENV_ERROR")
    /\ UNCHANGED <<cur, it, getVars, ref, tally, witnessed>>

\* Mutant: at equal times begins are counted before ends.
SweepBeginsFirst ==
    LET entered == {k \in Slots : ctx[k].recorded}
        at(t) == Cardinality({k \in entered : span[k].b <= t}) - Cardinality({k \in entered : span[k].e < t})
    IN  Max({0} \cup {at(span[k].b) : k \in entered})

\* The sweep over the sorted begins and ends: at equal times ends come first.
Sweep ==
    LET entered == {k \in Slots : ctx[k].recorded}
        at(t) == Cardinality({k \in entered : span[k].b <= t}) - Cardinality({k \in entered : span[k].e <= t})
    IN  Max({0} \cup {at(span[k].b) : k \in entered})

observed_failure == \E k \in Slots : ~ctx[k].lost /\ ~ctx[k].local /\ rc[k] = "other"

\* The joint gate: one unresolved slot ends the experiment without a read.  The
\* spans are not used after the sweep.
RoundGate ==
    /\ main = "join" /\ Joined
    /\ UNCHANGED output_failed
    /\ round_max' = Sweep
    /\ max_overlap' = Max({max_overlap, round_max'})
    /\ witnessed' = (witnessed \/ overlapped)
    /\ \/ /\ \E k \in Slots : Unresolved(k)
          /\ fixture' = "retained"
          /\ Finish(IF observed_failure /\ round_max' >= 2 THEN "FAIL" ELSE "INCONCLUSIVE")
       \/ /\ \A k \in Slots : ~Unresolved(k)
          /\ main' = "judge"
          /\ UNCHANGED <<fixture, verdict>>
    /\ span' = [k \in Slots |-> NoSpan] /\ clock' = 0
    /\ UNCHANGED <<cur, it, get, ctx, rc, cell, flight, overlapped, ref, failures, failing_round_overlap>>

\* Pass 1 looks at the returns of all slots, pass 2 at the landings of the first
\* n; it fails before slot n if n < W.
JudgeRound ==
    /\ main = "judge"
    /\ UNCHANGED output_failed
    /\ \E n \in IF {"read", "output"} \cap Faults # {} THEN 0..W ELSE {W} :
          LET backend == {k \in Slots : ~ctx[k].local}
              bad == {k \in backend : ~native_ok(k)}
                     \cup {k \in backend : k < n /\ ~(slot_ok(k) /\ cell[k].data = ref[k])}
          IN  /\ failures' = failures + Cardinality(bad)
              /\ \/ /\ bad # {}
                    /\ failing_round_overlap' = round_max
                    /\ main' = "final"
                    /\ UNCHANGED <<it, fixture, verdict>>
                 \/ /\ bad = {}
                    /\ UNCHANGED failing_round_overlap
                    /\ \/ n < W /\ retain_all("ENV_ERROR") /\ UNCHANGED it
                       \/ /\ n = W /\ backend # Slots
                          /\ \/ release_or_retain("ENV_ERROR")
                             \/ "output" \in Faults /\ retain_all("ENV_ERROR")
                          /\ UNCHANGED it
                       \/ /\ n = W /\ backend = Slots
                          /\ it' = it + 1
                          /\ main' = "round"
                          /\ UNCHANGED <<fixture, verdict>>
    /\ UNCHANGED <<cur, getVars, ref, round_max, max_overlap, witnessed>>

RoundsOver ==
    /\ main = "round" /\ it = Iterations
    /\ main' = "final"
    /\ UNCHANGED <<cur, it, getVars, ref, tally, fixture, output_failed, verdict, witnessed>>

\* Mutant: the best round's overlap qualifies a failure.
ReadingByMaxOverlap ==
    IF failures > 0 THEN IF max_overlap >= 2 THEN "FAIL" ELSE "INCONCLUSIVE"
    ELSE IF max_overlap < 2 THEN "INCONCLUSIVE" ELSE "PASS"

\* The terminal reading.
Reading ==
    IF failures > 0 THEN IF failing_round_overlap >= 2 THEN "FAIL" ELSE "INCONCLUSIVE"
    ELSE IF max_overlap < 2 THEN "INCONCLUSIVE" ELSE "PASS"

\* After failures the graph is kept; a failing release replaces the reading.
\* Output that fails here cannot change it, but for a PASS.
Conclude ==
    /\ main = "final"
    /\ output_failed' \in {output_failed} \cup (IF "output" \in Faults THEN {TRUE} ELSE {})
    /\ \/ failures > 0 /\ fixture' = "retained" /\ Finish(Reading)
       \/ failures = 0 /\ fixture' = "released" /\ Finish(Reading)
       \/ failures = 0 /\ "dereg" \in Faults /\ fixture' = "undereg" /\ Finish("FAIL")
    /\ UNCHANGED <<cur, it, getVars, ref, tally, witnessed>>

\* Writing a record fails; or throws before the round is judged, and ~Fixture
\* retains while main() reports ENV_ERROR (as the catch block of the serial pass
\* does).
OutputFails ==
    /\ "output" \in Faults
    /\ main \in {"ref_get", "ref_read", "join", "judge"} /\ Joined
    /\ output_failed' = TRUE
    /\ \/ UNCHANGED <<main, fixture, verdict>>
       \/ main # "judge" /\ retain_all("ENV_ERROR")
    /\ UNCHANGED <<cur, it, getVars, ref, tally, witnessed>>

Next ==
    \/ Setup \/ RefStart \/ RefGate \/ RefRead
    \/ RoundStart \/ SpawnFailed \/ RoundGate \/ JudgeRound \/ RoundsOver \/ Conclude \/ OutputFails
    \/ \E k \in Slots : Enter(k) \/ GetReturns(k) \/ GetUncalled(k)

Spec == Init /\ [][Next]_vars

-----------------------------------------------------------------------------
(* Properties. *)

\* No cell is poisoned or read, and the arena is not given back, while the
\* gateway may still act on a request of any slot: the gates of the serial pass
\* and of the rounds hold for all slots together, on every error path.
NoReuseInFlight ==
    main \in {"ref", "ref_read", "round", "judge"} \/ fixture = "released" => flight = {}

\* PASS is earned: in some round two GETs really ran at once, though the probe
\* only compares clock readings that may be equal; every slot holds its own
\* reference; the arena was given back and no output was lost.
PassEarned ==
    verdict = "PASS" =>
        /\ witnessed
        /\ \A k \in Slots : cell[k] = [data |-> ref[k], intact |-> TRUE]
        /\ \A j, k \in Slots : j # k => ref[j] # ref[k]
        /\ fixture = "released" /\ ~output_failed

\* FAIL is a finding about concurrent GETs: unless the release failed, two GETs of
\* the last round really ran at once, and in it a slot without any failure of the
\* probe returned, was answered or landed wrongly ("G8 is qualified only by the
\* failing round's overlap", rig_probe_main.cpp:1180).
FailIsConcurrent ==
    verdict = "FAIL" /\ fixture # "undereg" =>
        /\ overlapped
        /\ \E k \in Slots :
              /\ ~ctx[k].lost /\ ~ctx[k].local
              /\ ~native_ok(k) \/ cell[k] # [data |-> ref[k], intact |-> TRUE]
=============================================================================
