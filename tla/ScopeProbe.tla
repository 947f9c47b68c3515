----------------------------- MODULE ScopeProbe -----------------------------
(***************************************************************************)
(* The scope probe (probe/scope_probe_main.cpp): one process measures one  *)
(* case, that is which session registered which part of an arena, and      *)
(* where in it a GET lands.  Memory is byte by byte: byte i of the object  *)
(* is i.  The product under test (gateway and SDK, external) is open: it   *)
(* may refuse a registration, split a GET, write anywhere in the           *)
(* registration, and write after the client has given the answer up.  It   *)
(* is assumed to write one run of object bytes per GET, and no more once   *)
(* it has answered.                                                        *)
(***************************************************************************)
EXTENDS ScopeLayout

CONSTANTS Any, None

ASSUME NoneAssumption ==
    /\ None \notin {"PASS", "FAIL", "INCONCLUSIVE", "ENV_ERROR", "1", "2", "3", "STOP"}
    /\ None \notin [rc : Int, callbacks : Int]

VARIABLES
    o,           \* Options, the size of the object, and whether GPU writes are visible
    pc,          \* where main() is
    mem,         \* the arena
    registered,  \* sessions with a live registration
    token,       \* a slice token is out (case m)
    got,         \* session -> its GetResult
    svs,         \* session -> its SlotVerdict
    verdict,     \* of the result event
    able,        \* what the product supports, or Any (external)
    pending,     \* session -> the write of its GET that may still come (external)
    landed,      \* history: session -> the write its GET made
    fault        \* history: sessions whose GET the probe's own callback made fail

vars == <<o, pc, mem, registered, token, got, svs, verdict, able, pending, landed, fault>>

Cases == {"b0", "i0", "s0", "si", "r", "p", "m"}
Sessions == {"A", "B"}

\* parse_options: sizes are positive, --concurrent goes with si only.
\* expect_sha is no digest, that of the object's first xfer bytes, that of the
\* poison, or that of bytes that appear nowhere (the digest of another object); an
\* object shorter than xfer has none of the second kind.
Options ==
    {x \in [exp : Cases, xfer : SizeT \ {0}, guard : SizeT \ {0}, arena_bytes : SizeT,
            concurrent : {0, 2}, expect_sha : {"none", "object", "poison", "other"},
            trustworthy : BOOLEAN, object : SizeT \ {0}] :
        x.concurrent > 0 => x.exp = "si"}

Poison == -1
Guard == -2
Unset == -3
NoWrite == [at |-> 0, n |-> 0]

\* Session w GETs, or registers.
Getters == {w \in Sessions : IF w = "A" THEN o.exp \notin {"s0", "si"} ELSE o.exp \in {"s0", "si", "r", "p"}}
Registrars == IF o.exp \in {"r", "p"} THEN Sessions ELSE {"A"}

Layout == build_layout(o.xfer, o.guard)
Arena == arena_bytes(o.exp, Layout, o.arena_bytes)

Registration(w) ==
    IF o.exp # "p" THEN Span(0, Arena)
    ELSE IF w = "A" THEN Span(0, p_half(Arena)) ELSE Span(p_half(Arena), Arena - p_half(Arena))

\* Session w lands in a registration of its own, or in that of A.
LandsIn(w) == IF w \in Registrars THEN Registration(w) ELSE Registration("A")

SlotOf(w) ==
    CASE o.exp \in {"b0", "s0"} -> base_slot(Layout)
      [] o.exp = "p" -> half_slot(Layout, Registration(w).offset)
      [] o.exp = "r" /\ w = "B" -> interior_slot(Layout, 1, Arena)
      [] OTHER -> interior_slot(Layout, 0, Arena)

Landing(w) == [at |-> SlotOf(w).payload.offset, n |-> o.xfer]

\* A process that starts with options x.
Start(x) ==
    [o |-> x, pc |-> "setup", mem |-> <<>>, registered |-> {}, token |-> FALSE,
     got |-> [w \in Sessions |-> None], svs |-> [w \in Sessions |-> None], verdict |-> None,
     pending |-> [w \in Sessions |-> NoWrite], landed |-> [w \in Sessions |-> NoWrite],
     fault |-> {}]

-----------------------------------------------------------------------------
(* Ends of the process. *)

Result(v) == pc' = "done" /\ verdict' = v

\* deregister_memory by the sessions W on the way out.
Exit(W, v) == registered' = registered \ W /\ Result(v)

-----------------------------------------------------------------------------
(* main() up to the arena. *)

\* Bad protocol options, or no usable answer to HEAD.
HeadFails ==
    /\ pc = "setup"
    /\ Result("ENV_ERROR")
    /\ UNCHANGED <<o, mem, registered, token, got, svs, able, pending, landed, fault>>

\* Mutant: the poison is not compared with the digest.
UnusableUncompared == \/ o.object < o.xfer /\ o.expect_sha # "none"
                      \/ Arena' = Overflow

\* The object is too short for its digest, the poison has that digest, or the
\* layout does not fit.
Unusable ==
    \/ o.object < o.xfer /\ o.expect_sha # "none"
    \/ o.expect_sha = "poison"
    \/ Arena' = Overflow

Setup ==
    /\ pc = "setup"
    /\ o' = IF o.object < o.xfer THEN [o EXCEPT !.xfer = o.object] ELSE o
    /\ IF Unusable
       THEN Result("ENV_ERROR") /\ UNCHANGED mem
       ELSE pc' = "register" /\ mem' = [x \in 0..(Arena' - 1) |-> Unset] /\ UNCHANGED verdict
    /\ UNCHANGED <<registered, token, got, svs, able, pending, landed, fault>>

-----------------------------------------------------------------------------
(* Registration, callback capacity, slice token. *)

\* What the product has to support for a case.
Needs(exp) ==
    CASE exp = "b0" -> {} [] exp \in {"i0", "m"} -> {"interior"} [] exp = "s0" -> {"cross"}
      [] exp = "si" -> {"interior", "cross"} [] exp = "r" -> {"interior", "double"}
      [] exp = "p" -> {"interior", "slice"}

Accepted ==
    IF able = Any THEN SUBSET Registrars
    ELSE {IF Needs(o.exp) \cap {"double", "slice"} \subseteq able THEN Registrars ELSE {"A"}}

Register ==
    /\ pc = "register"
    /\ registered' \in Accepted
    /\ pc' = IF registered' = Registrars THEN "registered" ELSE "refused"
    /\ UNCHANGED <<o, mem, token, got, svs, verdict, able, pending, landed, fault>>

\* Cases r and p give back what was registered, the others had nothing.
Refused ==
    /\ pc = "refused"
    /\ \/ o.exp \in {"r", "p"} /\ Exit({w \in Sessions : w \in registered}, "FAIL")
       \/ o.exp \notin {"r", "p"} /\ Exit({}, "FAIL")
    /\ UNCHANGED <<o, mem, token, got, svs, able, pending, landed, fault>>

SlotsExist == \A w \in Getters : SlotOf(w) # NoSlot

Caps == {0, o.xfer - 1, o.xfer}

callback_gate(cap) == cap > 0 /\ o.xfer <= cap

\* The registered arena may be used, or the sessions W give up.
GoOrExit(ok, W) ==
    IF ok THEN pc' = "prepare" /\ UNCHANGED <<registered, verdict>> ELSE Exit(W, "ENV_ERROR")

\* Mutant: the early returns of case p deregister only the first session.
GateForgetsB ==
    /\ pc = "registered"
    /\ \E cap, cap_b \in Caps :
         \/ o.exp \in {"b0", "i0", "s0", "si"} /\ GoOrExit(callback_gate(cap) /\ SlotsExist, {"A"})
         \/ o.exp = "r" /\ GoOrExit(callback_gate(cap) /\ SlotsExist, {"A", "B"})
         \/ o.exp = "p" /\ GoOrExit(callback_gate(cap) /\ callback_gate(cap_b), {"A"})
    /\ UNCHANGED <<o, mem, token, got, svs, able, pending, landed, fault>>

\* callback_gate at the base of the registration (in case p of each of them), and
\* the choice of the slots; each block of main() has its own early returns.
Gate ==
    /\ pc = "registered"
    /\ \E cap, cap_b \in Caps :
         \/ o.exp \in {"b0", "i0", "s0", "si"} /\ GoOrExit(callback_gate(cap) /\ SlotsExist, {"A"})
         \/ o.exp = "r" /\ GoOrExit(callback_gate(cap) /\ SlotsExist, {"A", "B"})
         \/ o.exp = "p" /\ GoOrExit(callback_gate(cap) /\ callback_gate(cap_b), {"A", "B"})
    /\ UNCHANGED <<o, mem, token, got, svs, able, pending, landed, fault>>

\* Case m: cuMemObjGetRDMAToken.
SliceToken ==
    /\ pc = "registered"
    /\ o.exp = "m"
    /\ IF ~SlotsExist
       THEN Exit({"A"}, "ENV_ERROR") /\ UNCHANGED token
       ELSE \/ pc' = "prepare" /\ token' = TRUE /\ UNCHANGED <<registered, verdict>>
            \/ Exit({"A"}, "INCONCLUSIVE") /\ UNCHANGED token
    /\ UNCHANGED <<o, mem, got, svs, able, pending, landed, fault>>

-----------------------------------------------------------------------------
(* GET and landing. *)

\* prepare_slot for every slot of the case.
Prepare ==
    /\ pc = "prepare"
    /\ pc' = "get"
    /\ mem' = [x \in DOMAIN mem |->
                 IF \E w \in Getters : x \in Bytes(SlotOf(w).payload) THEN Poison
                 ELSE IF \E w \in Getters : x \in SlotBytes(SlotOf(w)) THEN Guard
                 ELSE mem[x]]
    /\ UNCHANGED <<o, registered, token, got, svs, verdict, able, pending, landed, fault>>

\* Case m: the request cannot be built; put_token, deregister_memory.
ManualBuildFails ==
    /\ pc = "get"
    /\ o.exp = "m"
    /\ token' = FALSE
    /\ Exit({"A"}, "ENV_ERROR")
    /\ UNCHANGED <<o, mem, got, svs, able, pending, landed, fault>>

\* Writes of object bytes, one short, exact or one too many, into the registration.
Writes(w) ==
    {NoWrite} \cup {x \in [at : Bytes(LandsIn(w)), n : {o.xfer - 1, o.xfer, o.xfer + 1}] :
                      x.n > 0 /\ x.at + x.n - 1 \in Bytes(LandsIn(w))}

Written(x) == [i \in DOMAIN mem |-> IF i \in x.at .. (x.at + x.n - 1) THEN i - x.at ELSE mem[i]]

End(rc, callbacks, now, later) ==
    [rc |-> rc, callbacks |-> callbacks, now |-> now, later |-> later, ours |-> FALSE]

\* How a GET ends: no callback; callbacks whose answer came, good or bad; or
\* a callback that gave the answer up, with rc -1.
ProductEnd(w) ==
    {End(-1, 0, NoWrite, NoWrite)}
    \cup {End(rc, n, x, NoWrite) : rc \in {-1, 0, o.xfer}, n \in {1, 2}, x \in Writes(w)}
    \cup {End(-1, n, NoWrite, x) : n \in {1, 2}, x \in Writes(w)}

\* The callback fails by itself: the request cannot be built, or an exception ends
\* it before or after the answer.  It returns -1 for the GET, as for a refusal.
OwnEnd(w) ==
    {[e EXCEPT !.ours = TRUE] : e \in {x \in ProductEnd(w) : x.rc = -1 /\ x.callbacks > 0}}

AnyEnd(w) == ProductEnd(w) \cup OwnEnd(w)

\* Case m has one request and no callback; its status stands for rc.
ManualEnd(w) == {e \in ProductEnd(w) : e.callbacks = 1 /\ e.rc # 0}

\* A product of known abilities: a supported landing is exact unless the SDK
\* splits it, any other is refused.
KnownEnd(w) ==
    IF Needs(o.exp) \subseteq able
    THEN {End(o.xfer, 1, Landing(w), NoWrite)}
         \cup IF o.exp = "m" THEN {} ELSE {End(o.xfer, 2, Landing(w), NoWrite)}
    ELSE {End(-1, 1, NoWrite, NoWrite)}

Ends(w) == IF able # Any THEN KnownEnd(w) ELSE IF o.exp = "m" THEN ManualEnd(w) ELSE AnyEnd(w)

\* issue_get, first for A and then for B.
IssueGet(w) ==
    /\ pc = "get"
    /\ w \in Getters /\ got[w] = None
    /\ w = "B" /\ "A" \in Getters => got["A"] # None
    /\ \E e \in IF Registration(w).offset <= SlotOf(w).payload.offset
                THEN Ends(w) ELSE {End(-1, 0, NoWrite, NoWrite)} :
         /\ got' = [got EXCEPT ![w] = [rc |-> e.rc, callbacks |-> e.callbacks]]
         /\ mem' = Written(e.now)
         /\ pending' = [pending EXCEPT ![w] = e.later]
         /\ landed' = [landed EXCEPT ![w] = e.now]
         /\ fault' = IF e.ours THEN fault \cup {w} ELSE fault
    /\ pc' = IF \A v \in Getters \ {w} : got[v] # None THEN "verify" ELSE "get"
    /\ UNCHANGED <<o, registered, token, svs, verdict, able>>

LateWrite(w) ==
    /\ pc \in {"get", "verify"}
    /\ pending[w] # NoWrite
    /\ mem' = Written(pending[w])
    /\ landed' = [landed EXCEPT ![w] = pending[w]]
    /\ pending' = [pending EXCEPT ![w] = NoWrite]
    /\ UNCHANGED <<o, pc, registered, token, got, svs, verdict, able, fault>>

-----------------------------------------------------------------------------
(* Verdicts. *)

guards_intact(s) == \A i \in Bytes(s.lead_guard) \cup Bytes(s.trail_guard) : mem[i] = Guard

digest_match(s) ==
    /\ o.expect_sha # "other"
    /\ \A i \in Bytes(s.payload) :
        mem[i] = IF o.expect_sha = "poison" THEN Poison ELSE i - s.payload.offset

\* The part of the verdict that rests on memory.
landing(w) ==
    IF ~o.trustworthy THEN "INCONCLUSIVE"
    ELSE IF ~guards_intact(SlotOf(w)) THEN "FAIL"
    ELSE IF o.expect_sha = "none" THEN "INCONCLUSIVE"
    ELSE IF got[w].rc # o.xfer \/ ~digest_match(SlotOf(w)) THEN "FAIL"
    ELSE "PASS"

\* Mutant: the return code is looked at first.
verify_slot_rc_first(w) ==
    IF got[w].rc < 0 THEN "FAIL" ELSE IF got[w].callbacks # 1 THEN "INCONCLUSIVE" ELSE landing(w)

\* verify_slot, and the chain of case m, which has the same order.
verify_slot(w) ==
    IF got[w].callbacks # 1 THEN "INCONCLUSIVE" ELSE IF got[w].rc < 0 THEN "FAIL" ELSE landing(w)

Verify(w) ==
    /\ pc = "verify"
    /\ w \in Getters /\ svs[w] = None
    /\ w = "B" /\ "A" \in Getters => svs["A"] # None
    /\ svs' = [svs EXCEPT ![w] = verify_slot(w)]
    /\ UNCHANGED <<o, pc, mem, registered, token, got, verdict, able, pending, landed, fault>>

\* FAIL dominates, then INCONCLUSIVE.
fold ==
    LET V == {svs[w] : w \in Getters}
    IN  IF "FAIL" \in V THEN "FAIL" ELSE IF "INCONCLUSIVE" \in V THEN "INCONCLUSIVE" ELSE "PASS"

\* The end of each block of main().
Finish ==
    /\ pc = "verify"
    /\ \A w \in Getters : svs[w] # None
    /\ \/ /\ o.exp \in {"b0", "i0", "s0", "si"}
          /\ Exit({"A"}, IF o.concurrent > 0 /\ fold = "PASS" THEN "INCONCLUSIVE" ELSE fold)
          /\ UNCHANGED token
       \/ o.exp \in {"r", "p"} /\ Exit({"A", "B"}, fold) /\ UNCHANGED token
       \/ o.exp = "m" /\ token' = FALSE /\ Exit({"A"}, fold)
    /\ UNCHANGED <<o, mem, got, svs, able, pending, landed, fault>>

ProbeNext ==
    \/ HeadFails \/ Setup \/ Register \/ Refused \/ Gate \/ SliceToken \/ Prepare
    \/ ManualBuildFails \/ Finish
    \/ \E w \in Sessions : IssueGet(w) \/ LateWrite(w) \/ Verify(w)

-----------------------------------------------------------------------------
(* Properties. *)

\* The slot of w, with its guard on both sides of the payload (at the base of the
\* arena behind it only), lies in the registration it is used through.
SlotFits(w) ==
    LET s == SlotOf(w)
        end == s.payload.offset + s.payload.len
    IN  /\ s # NoSlot
        /\ SlotBytes(s) \subseteq Bytes(LandsIn(w)) \cap 0..(Arena - 1)
        /\ s.payload.len = o.xfer
        /\ end .. (end + o.guard - 1) \subseteq Bytes(s.trail_guard)
        /\ o.exp \notin {"b0", "s0"} =>
             Bytes(s.lead_guard) = (s.payload.offset - o.guard) .. (s.payload.offset - 1)

SlotsDisjoint ==
    \A v, w \in Getters : v # w => SlotBytes(SlotOf(v)) \cap SlotBytes(SlotOf(w)) = {}

\* Whatever sizes main() accepts, every slot fits and two slots are disjoint: the
\* checked arithmetic of the layout lets no sum wrap around.
SlotsSound ==
    pc \in {"register", "get"} =>
        (\A w \in Getters : SlotFits(w)) /\ SlotsDisjoint

Exact(w) == got[w] = [rc |-> o.xfer, callbacks |-> 1] /\ landed[w] = Landing(w)

\* A PASS means that the bytes of the object were written to the payloads of the
\* case and nowhere else, that each GET was one callback with the exact count, that
\* the product has nothing left to write, and that visibility, digest and a serial run
\* were given.  With two GETs of one object the two writes may be exchanged.
PassEarned ==
    verdict = "PASS" =>
        /\ o.trustworthy /\ o.expect_sha = "object" /\ o.concurrent = 0
        /\ \A w \in Sessions : pending[w] = NoWrite
        /\ \A w \in Getters : got[w] = [rc |-> o.xfer, callbacks |-> 1]
        /\ {landed[w] : w \in Getters} = {Landing(w) : w \in Getters}

\* The GET of w was one callback that went wrong at the product, or it wrote outside
\* of its payload.
ProductFaulty(w) ==
    \/ got[w].callbacks = 1 /\ w \notin fault /\ ~Exact(w)
    \/ ~(landed[w].at .. (landed[w].at + landed[w].n - 1) \subseteq Bytes(SlotOf(w).payload))

\* A FAIL has one of four causes: the product refused a registration; a GET of one
\* callback was not exact, or one wrote outside of its payload; the probe's own callback
\* failed in a GET of one callback; or --expect-sha is the digest of something else.
\* Invisible writes, a missing digest or a split request never make one by themselves.
FailHasCause ==
    verdict = "FAIL" =>
        \/ \A w \in Sessions : got[w] = None
        \/ \E w \in Getters : ProductFaulty(w)
        \/ \E w \in Getters \cap fault : got[w].callbacks = 1
        \/ o.expect_sha = "other"

\* Every registration of the case, and in case m the token, is held from the first GET
\* to the last look at memory, and on every way out of main() all have been given back.
HeldWhileUsed ==
    /\ pc \in {"prepare", "get", "verify"} => registered = Registrars /\ (token <=> o.exp = "m")
    /\ pc = "done" => registered = {} /\ ~token
=============================================================================
