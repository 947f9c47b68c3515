------------------------ MODULE RigConcurrentProofs -------------------------
(***************************************************************************)
(* The verdicts of the concurrency experiment, for any number of slots,    *)
(* rounds and faults.                                                      *)
(*                                                                         *)
(* The probe has no view of whether two GETs really ran at once: it        *)
(* compares clock readings, which may be equal, and counts begins and ends *)
(* (Sweep).  The argument is the other way round: as long as no GET has    *)
(* entered its callbacks while another was inside, the spans of the round  *)
(* are disjoint up to their end points (Spans), and then the sweep counts  *)
(* at most one (SweepFacts).                                               *)
(***************************************************************************)
EXTENDS RigConcurrent, FiniteSetTheorems, TLAPS

Context ==
    [recorded : BOOLEAN, native : BOOLEAN, agree : BOOLEAN, unknown : BOOLEAN, lost : BOOLEAN, local : BOOLEAN]

Interval == [b : Nat, e : Nat]
Content == [data : Int, intact : BOOLEAN]

\* The phases in which a GET may be under way.
Calling == {"ref_get", "join", "join_failed"}

Types ==
    /\ main \in {"setup", "ref", "ref_read", "round", "judge", "final", "done"} \cup Calling
    /\ cur \in Nat /\ (main \in {"setup", "ref", "ref_get", "ref_read"} => cur \in Slots)
    /\ get \in [Slots -> {"idle", "called", "inside", "returned"}]
    /\ ctx \in [Slots -> Context]
    /\ rc \in [Slots -> {"S", "other", "none"}]
    /\ span \in [Slots -> Interval]
    /\ clock \in Nat
    /\ cell \in [Slots -> Content]
    /\ ref \in [Slots -> Int]
    /\ flight \subseteq Slots
    /\ overlapped \in BOOLEAN /\ witnessed \in BOOLEAN /\ output_failed \in BOOLEAN

\* The spans read by the sweep are ordered, and disjoint unless GETs have overlapped.
Spans ==
    /\ \A k \in Slots :
          /\ ctx[k].recorded => span[k].b <= span[k].e /\ span[k].e <= clock
          /\ get[k] = "inside" => span[k].b <= clock
          /\ get[k] \in {"called", "inside"} => ~ctx[k].recorded
    /\ ~overlapped => \A j, k \in Slots : j # k =>
          /\ ~(get[j] = "inside" /\ get[k] = "inside")
          /\ get[k] = "inside" /\ ctx[j].recorded => span[j].e <= span[k].b
          /\ ctx[j].recorded /\ ctx[k].recorded => span[j].e <= span[k].b \/ span[k].e <= span[j].b

\* A request on which the gateway may still act belongs to a slot that no gate has passed.
Flight ==
    /\ main \notin Calling => Joined
    /\ main = "ref_get" => \A k \in Slots : k # cur => get[k] = "idle"
    /\ main \notin Calling \cup {"done"} => flight = {}
    /\ main \in Calling => \A k \in flight : get[k] = "returned" /\ ~ctx[k].agree
    /\ fixture = "released" => main = "done" /\ flight = {}

CellRight(k) == cell[k] = [data |-> ref[k], intact |-> TRUE]

CellsRight == \A k \in Slots : CellRight(k)

RefsDiffer == \A j, k \in Slots : j # k => ref[j] # ref[k]

SomeWrong ==
    \E k \in Slots : /\ ~ctx[k].lost /\ ~ctx[k].local
                     /\ ~native_ok(k) \/ ~CellRight(k)

\* What the counters have seen in each phase.
Counters ==
    /\ main # "done" => verdict = "none"
    /\ witnessed \/ max_overlap \in {0, 1}
    /\ main \in {"setup", "ref", "ref_get", "ref_read"} => max_overlap = 0
    /\ main \notin {"final", "done"} => failures = 0
    /\ main \in {"round", "join", "join_failed", "judge", "final"} => RefsDiffer
    /\ main = "round" => max_overlap = 0 \/ CellsRight
    /\ main = "judge" => (\A k \in Slots : ~Unresolved(k)) /\ (overlapped \/ round_max \in {0, 1})
    /\ main = "final" => failures \in Nat
    /\ main = "final" /\ failures = 0 => max_overlap = 0 \/ CellsRight
    /\ main = "final" /\ failures # 0 => SomeWrong /\ (overlapped \/ failing_round_overlap \in {0, 1})

CInv == Types /\ Spans /\ Flight /\ Counters /\ PassEarned /\ FailIsConcurrent

-----------------------------------------------------------------------------
(* The sweep. *)

\* The slots are finitely many integers.
LEMMA SlotsFinite == IsFiniteSet(Slots) /\ Slots \subseteq Int /\ W \in Nat /\ W > 0
BY ConcurrentAssumption, FS_Interval DEF Slots

\* A set of integers with 0 and without anything above 1 has its maximum in {0, 1}.
LEMMA MaxFacts == ASSUME NEW S, 0 \in S, S \subseteq Int, \A x \in S : x <= 1 PROVE Max(S) \in {0, 1}
<1>1. \E x \in S : \A y \in S : x >= y
  <2>1. CASE 1 \in S
    BY <2>1, Zenon
  <2>2. CASE 1 \notin S
    <3>1. \A y \in S : 0 >= y
      BY <2>2
    <3> QED
      BY <3>1, Zenon
  <2> QED
    BY <2>1, <2>2, Zenon
<1>2. Max(S) \in S /\ \A y \in S : Max(S) >= y
  BY <1>1, Zenon DEF Max
<1> DEFINE m == Max(S)
<1> HIDE DEF m
<1>3. m \in S /\ \A y \in S : m >= y
  BY <1>2, Zenon DEF m
<1>4. m \in {0, 1}
  BY <1>3
<1> QED
  BY <1>4, Zenon DEF m

\* Taking away a part that leaves at most one element.
LEMMA AtMostOne ==
    ASSUME NEW A, NEW B, IsFiniteSet(A), B \subseteq A, \A x, y \in A \ B : x = y
    PROVE  Cardinality(A) \in Int /\ Cardinality(B) \in Int /\ Cardinality(A) - Cardinality(B) <= 1
<1>1. IsFiniteSet(B) /\ Cardinality(A) \in Nat /\ Cardinality(B) \in Nat
  BY FS_Subset, FS_CardinalityType, Zenon
<1>2. CASE A \ B = {}
  BY <1>1, <1>2
<1>3. CASE A \ B # {}
  <2>1. PICK x : x \in A \ B
    BY <1>3, Zenon
  <2>2. A = B \cup {x} /\ x \notin B
    BY <2>1, Zenon
  <2>3. Cardinality(B \cup {x}) = Cardinality(B) + 1
    BY <1>1, <2>2, FS_AddElement, Zenon
  <2> QED
    BY <1>1, <2>2, <2>3
<1> QED
  BY <1>2, <1>3, Zenon

\* If no two GETs of the round were inside their callbacks at once, then the sweep finds an
\* overlap of at most one, although begins and ends may have the same clock reading.
LEMMA SweepFacts == ASSUME Types, Spans, ~overlapped PROVE Sweep \in {0, 1}
<1> DEFINE entered == {k \in Slots : ctx[k].recorded}
           A(t) == {k \in entered : span[k].b <= t}
           B(t) == {k \in entered : span[k].e <= t}
           at(t) == Cardinality(A(t)) - Cardinality(B(t))
           S == {0} \cup {at(span[k].b) : k \in entered}
<1>1. \A k \in Slots : span[k].b \in Nat /\ span[k].e \in Nat
  BY Zenon DEF Types, Interval
<1>2. ASSUME NEW t \in Nat PROVE at(t) \in Int /\ at(t) <= 1
  <2>1. IsFiniteSet(A(t))
    BY SlotsFinite, FS_Subset, Zenon
  <2>2. B(t) \subseteq A(t)
    BY <1>1, <1>2 DEF Spans
  <2>3. ASSUME NEW j \in A(t) \ B(t), NEW k \in A(t) \ B(t), j # k PROVE FALSE
    <3>1. /\ j \in Slots /\ k \in Slots /\ ctx[j].recorded /\ ctx[k].recorded
          /\ span[j].b <= t /\ span[k].b <= t /\ ~(span[j].e <= t) /\ ~(span[k].e <= t)
      BY <2>3, Zenon
    <3>2. span[j].e <= span[k].b \/ span[k].e <= span[j].b
      BY <2>3, <3>1, Zenon DEF Spans
    <3> QED
      BY <1>1, <1>2, <3>1, <3>2
  <2> HIDE DEF A, B
  <2>4. \A x, y \in A(t) \ B(t) : x = y
    BY <2>3, Zenon
  <2> QED
    BY <2>1, <2>2, <2>4, AtMostOne
<1> HIDE DEF at
<1>3. \A k \in entered : at(span[k].b) \in Int /\ at(span[k].b) <= 1
  BY <1>1, <1>2, Zenon
<1>4. 0 \in S /\ S \subseteq Int /\ \A x \in S : x <= 1
  BY <1>3
<1>5. Sweep = Max(S)
  BY Zenon DEF Sweep, at
<1> HIDE DEF S
<1> QED
  BY <1>4, <1>5, MaxFacts, Zenon

-----------------------------------------------------------------------------
(* The invariant: the beginning, and what a step leaves alone. *)

\* What the callbacks of a GET leave is a context.
LEMMA EndsFacts == NoContext \in Context /\ Ends \subseteq Context
<1>1. NoContext \in Context
  BY Zenon DEF NoContext, Context
<1>2. [recorded |-> TRUE, native |-> TRUE, agree |-> TRUE, unknown |-> FALSE, lost |-> FALSE, local |-> FALSE] \in Context
  BY Zenon DEF Context
<1>3. [recorded : BOOLEAN, native : {FALSE}, agree : BOOLEAN, unknown : BOOLEAN, lost : BOOLEAN, local : BOOLEAN]
         \subseteq Context
  <2> SUFFICES ASSUME NEW c \in [recorded : BOOLEAN, native : {FALSE}, agree : BOOLEAN, unknown : BOOLEAN,
                                 lost : BOOLEAN, local : BOOLEAN]
               PROVE  c \in Context
    BY Zenon
  <2> QED
    BY Zenon DEF Context
<1> QED
  BY <1>1, <1>2, <1>3, Zenon DEF Ends

\* The experiment begins with nothing under way.
LEMMA InitInv == Init => CInv
<1> SUFFICES ASSUME Init PROVE CInv
  BY Zenon
<1>1. NoContext \in Context /\ ~NoContext.recorded
  BY EndsFacts, Zenon DEF NoContext
<1>2. NoSpan \in Interval /\ Poisoned \in Content /\ Poison \in Int
  BY DEF NoSpan, Poisoned, Poison, Interval, Content
<1>3. Types
  <2>1. ctx \in [Slots -> Context] /\ span \in [Slots -> Interval] /\ cell \in [Slots -> Content] /\ ref \in [Slots -> Int]
    BY <1>1, <1>2, Zenon DEF Init
  <2>2. overlapped \in BOOLEAN /\ witnessed \in BOOLEAN /\ output_failed \in BOOLEAN
    BY Zenon DEF Init
  <2> QED
    <3>1. cur \in Nat /\ cur \in Slots
      BY SlotsFinite DEF Init, Slots
    <3> QED
      BY <2>1, <2>2, <3>1, Zenon DEF Init, Types, Calling
<1>4. Spans
  BY <1>1, Zenon DEF Init, Spans
<1>5. Flight
  BY Zenon DEF Init, Flight, Calling, Joined
<1>6. Counters /\ PassEarned /\ FailIsConcurrent
  BY Zenon DEF Init, Counters, PassEarned, FailIsConcurrent
<1> QED
  BY <1>3, <1>4, <1>5, <1>6, Zenon DEF CInv

\* A step that touches no GET keeps the spans.
LEMMA SpansKept == ASSUME Spans, UNCHANGED <<get, ctx, span, clock, overlapped>> PROVE Spans'
BY Zenon DEF Spans

\* Without GETs under way, a terminal step with this verdict.
LEMMA EndInv ==
    ASSUME CInv, main' = "done", Joined, UNCHANGED <<cur, getVars, ref, witnessed, max_overlap>>,
           output_failed' \in BOOLEAN, fixture' = "released" => flight = {},
           PassEarned', FailIsConcurrent'
    PROVE  CInv'
<1>1. UNCHANGED <<get, ctx, rc, span, clock, cell, flight, overlapped>>
  BY Zenon DEF getVars
<1>2. Types'
  BY <1>1, Zenon DEF CInv, Types
<1>3. Spans'
  BY <1>1, SpansKept, Zenon DEF CInv
<1>4. Flight'
  BY <1>1, Zenon DEF Flight, Joined, Calling
<1>5. Counters'
  BY Zenon DEF CInv, Counters
<1> QED
  BY <1>2, <1>3, <1>4, <1>5, Zenon DEF CInv

\* The terminal verdicts that need no more evidence.
LEMMA PlainEndInv ==
    ASSUME CInv, main # "done", main' = "done", Joined, UNCHANGED <<cur, getVars, ref, witnessed, max_overlap>>,
           output_failed' \in BOOLEAN, fixture' = "released" => flight = {},
           verdict' \in {"ENV_ERROR", "INCONCLUSIVE"}
    PROVE  CInv'
<1>1. PassEarned' /\ FailIsConcurrent'
  BY Zenon DEF PassEarned, FailIsConcurrent
<1> QED
  BY <1>1, EndInv, Zenon

\* retain_all and release_or_retain give the verdict they were given, or ENV_ERROR.
LEMMA TerminalFacts ==
    ASSUME NEW v \in {"ENV_ERROR", "INCONCLUSIVE"}, retain_all(v) \/ release_or_retain(v)
    PROVE  /\ main' = "done" /\ verdict' \in {"ENV_ERROR", "INCONCLUSIVE"}
           /\ retain_all(v) => fixture' # "released"
BY Zenon DEF retain_all, release_or_retain, FinishOrThrow, Finish

-----------------------------------------------------------------------------
(* The steps of a GET. *)

\* A step of a GET is taken in a phase in which no verdict is given.
LEMMA SlotInv ==
    ASSUME CInv, NEW k \in Slots, get[k] \in {"called", "inside"},
           UNCHANGED <<main, cur, it, ref, tally, fixture, output_failed, verdict, witnessed>>, Types', Spans', Flight'
    PROVE  CInv'
<1>1. main \in Calling
  BY Zenon DEF CInv, Flight, Joined
<1>2. Counters'
  BY <1>1, Zenon DEF CInv, Counters, Calling, RefsDiffer, tally
<1>3. PassEarned' /\ FailIsConcurrent'
  BY <1>1, Zenon DEF CInv, Counters, Calling, PassEarned, FailIsConcurrent
<1> QED
  BY <1>2, <1>3, Zenon DEF CInv

\* What the flight lemma needs of a step of a GET.
LEMMA SlotFlight ==
    ASSUME CInv, NEW k \in Slots, get[k] \in {"called", "inside"}, get'[k] \in {"inside", "returned"},
           \A j \in Slots : j # k => get'[j] = get[j] /\ ctx'[j] = ctx[j],
           UNCHANGED <<main, cur, fixture>>,
           flight' \subseteq flight \cup {k},
           k \in flight' => get'[k] = "returned" /\ ~ctx'[k].agree
    PROVE  Flight'
<1>1. main \in Calling /\ Types /\ Flight
  BY Zenon DEF CInv, Flight, Joined
<1>2. main = "ref_get" => k = cur
  BY <1>1, Zenon DEF Flight
<1>3. \A j \in flight' : get'[j] = "returned" /\ ~ctx'[j].agree
  BY <1>1, Zenon DEF Flight, Types
<1> QED
  BY <1>1, <1>2, <1>3, Zenon DEF Flight, Calling

\* The first callback of a GET.
LEMMA EnterInv == ASSUME CInv, NEW k \in Slots, Enter(k) PROVE CInv'
<1>1. Types /\ Spans /\ get[k] = "called"
  BY Zenon DEF CInv, Enter
<1>2. /\ get' = [get EXCEPT ![k] = "inside"] /\ span' = [span EXCEPT ![k].b = clock']
      /\ overlapped' = (overlapped \/ \E j \in Slots : get[j] = "inside")
      /\ UNCHANGED <<main, cur, it, ctx, rc, cell, ref, tally, fixture, output_failed, verdict, flight, witnessed>>
  BY Zenon DEF Enter
<1>3. clock' \in Nat /\ clock <= clock'
  BY <1>1 DEF Enter, Types
<1>4. /\ get' \in [Slots -> {"idle", "called", "inside", "returned"}]
      /\ get'[k] = "inside" /\ \A j \in Slots : j # k => get'[j] = get[j]
  BY <1>1, <1>2, Zenon DEF Types
<1>5. /\ span' \in [Slots -> Interval] /\ span'[k].b = clock'
      /\ \A j \in Slots : j # k => span'[j] = span[j]
  <2>1. span[k] \in Interval
    BY <1>1, Zenon DEF Types
  <2>2. LET y == [span[k] EXCEPT !.b = clock'] IN y \in Interval /\ y.b = clock'
    BY <1>3, <2>1, Zenon DEF Interval
  <2> QED
    BY <1>1, <1>2, <2>2, Zenon DEF Types
<1>6. \A j \in Slots : span[j].b \in Nat /\ span[j].e \in Nat
  BY <1>1, Zenon DEF Types, Interval
<1>7. overlapped' \in BOOLEAN
  BY <1>1, <1>2, Zenon DEF Types
<1>8. Types'
  BY <1>1, <1>2, <1>3, <1>4, <1>5, <1>7, Zenon DEF Types
<1>9. Spans'
  <2>1. ASSUME NEW j \in Slots
        PROVE  /\ ctx'[j].recorded => span'[j].b <= span'[j].e /\ span'[j].e <= clock'
               /\ get'[j] = "inside" => span'[j].b <= clock'
               /\ get'[j] \in {"called", "inside"} => ~ctx'[j].recorded
    <3>1. CASE j = k
      BY <1>1, <1>2, <1>3, <1>5, <3>1 DEF Spans
    <3>2. CASE j # k
      BY <1>1, <1>2, <1>3, <1>4, <1>5, <1>6, <3>2 DEF Spans, Types
    <3> QED
      BY <3>1, <3>2, Zenon
  <2>2. ASSUME ~overlapped', NEW i \in Slots, NEW j \in Slots, i # j
        PROVE  /\ ~(get'[i] = "inside" /\ get'[j] = "inside")
               /\ get'[j] = "inside" /\ ctx'[i].recorded => span'[i].e <= span'[j].b
               /\ ctx'[i].recorded /\ ctx'[j].recorded => span'[i].e <= span'[j].b \/ span'[j].e <= span'[i].b
    <3>1. ~overlapped /\ \A m \in Slots : get[m] # "inside"
      BY <1>2, <2>2, Zenon
    <3>2. ~ctx[k].recorded
      BY <1>1, Zenon DEF Spans
    <3>3. ctx[i].recorded => span'[i] = span[i] /\ span[i].e <= clock
      BY <1>1, <1>5, <3>2, Zenon DEF Spans
    <3>4. get'[j] = "inside" => j = k /\ span'[j].b = clock'
      BY <1>4, <1>5, <3>1, Zenon
    <3>5. get'[j] = "inside" /\ ctx[i].recorded => span'[i].e <= span'[j].b
      BY <1>1, <1>3, <1>6, <3>3, <3>4 DEF Types
    <3>6. ctx[i].recorded /\ ctx[j].recorded => span'[i] = span[i] /\ span'[j] = span[j]
      BY <1>5, <3>2, Zenon
    <3>7. ~(get'[i] = "inside" /\ get'[j] = "inside")
      BY <1>4, <2>2, <3>1, Zenon
    <3> QED
      BY <1>1, <1>2, <2>2, <3>1, <3>5, <3>6, <3>7, Zenon DEF Spans
  <2> QED
    BY <2>1, <2>2, Zenon DEF Spans
<1>10. Flight'
  <2>1. \A j \in Slots : j # k => ctx'[j] = ctx[j]
    BY <1>2, Zenon
  <2>2. k \notin flight
    BY <1>1, Zenon DEF CInv, Flight, Joined
  <2> QED
    BY <1>1, <1>2, <1>4, <2>1, <2>2, SlotFlight, Zenon
<1> QED
  BY <1>1, <1>2, <1>8, <1>9, <1>10, SlotInv, Zenon

\* A GET that returns without a record.
LEMMA UncalledInv == ASSUME CInv, NEW k \in Slots, GetUncalled(k) PROVE CInv'
<1>1. Types /\ Spans /\ get[k] = "called"
  BY Zenon DEF CInv, GetUncalled
<1>2. /\ get' = [get EXCEPT ![k] = "returned"]
      /\ UNCHANGED <<main, cur, it, ctx, span, clock, cell, ref, tally, fixture, output_failed, verdict,
                     flight, overlapped, witnessed>>
  BY Zenon DEF GetUncalled
<1>3. rc' \in [Slots -> {"S", "other", "none"}]
  BY <1>1, Zenon DEF GetUncalled, Types
<1>4. /\ get' \in [Slots -> {"idle", "called", "inside", "returned"}]
      /\ get'[k] = "returned" /\ \A j \in Slots : j # k => get'[j] = get[j]
  BY <1>1, <1>2, Zenon DEF Types
<1>5. Types'
  BY <1>1, <1>2, <1>3, <1>4, Zenon DEF Types
<1>6. Spans'
  BY <1>1, <1>2, <1>4, Zenon DEF Spans
<1>7. Flight'
  <2>1. \A j \in Slots : j # k => ctx'[j] = ctx[j]
    BY <1>2, Zenon
  <2>2. k \notin flight
    BY <1>1, Zenon DEF CInv, Flight, Joined
  <2> QED
    BY <1>1, <1>2, <1>4, <2>1, <2>2, SlotFlight, Zenon
<1> QED
  BY <1>1, <1>2, <1>5, <1>6, <1>7, SlotInv, Zenon

\* The last callback of a GET, and its return.
LEMMA ReturnsInv == ASSUME CInv, NEW k \in Slots, GetReturns(k) PROVE CInv'
<1>1. Types /\ Spans /\ get[k] = "inside"
  BY Zenon DEF CInv, GetReturns
<1>2. /\ get' = [get EXCEPT ![k] = "returned"] /\ clock' \in {clock, clock + 1}
      /\ UNCHANGED <<main, cur, it, ref, tally, fixture, output_failed, verdict, overlapped, witnessed>>
  BY Zenon DEF GetReturns
<1>3. PICK c \in Ends, s \in {"S", "other", "none"} :
          /\ ctx' = [ctx EXCEPT ![k] = c]
          /\ rc' = [rc EXCEPT ![k] = s]
          /\ span' = [span EXCEPT ![k] = IF c.recorded THEN [@ EXCEPT !.e = clock'] ELSE NoSpan]
          /\ flight' = IF c.agree THEN flight ELSE flight \cup {k}
          /\ cell' \in IF c.native
                       THEN {[cell EXCEPT ![k].data = d] : d \in {k, Poison, Stray}}
                            \cup {[cell EXCEPT ![k] = [data |-> k, intact |-> FALSE]]}
                       ELSE {cell}
  BY Zenon DEF GetReturns
<1>4. clock' \in Nat /\ clock <= clock' /\ c \in Context /\ k \in Int
  BY <1>1, <1>2, EndsFacts, SlotsFinite DEF Types
<1>5. /\ get' \in [Slots -> {"idle", "called", "inside", "returned"}]
      /\ get'[k] = "returned" /\ \A j \in Slots : j # k => get'[j] = get[j]
  BY <1>1, <1>2, Zenon DEF Types
<1>6. ctx' \in [Slots -> Context] /\ ctx'[k] = c /\ \A j \in Slots : j # k => ctx'[j] = ctx[j]
  BY <1>1, <1>3, <1>4, Zenon DEF Types
<1>7. \A j \in Slots : span[j] \in Interval /\ span[j].b \in Nat /\ span[j].e \in Nat
  BY <1>1, Zenon DEF Types, Interval
<1>8. /\ span' \in [Slots -> Interval] /\ \A j \in Slots : j # k => span'[j] = span[j]
      /\ c.recorded => span'[k].b = span[k].b /\ span'[k].e = clock'
  <2> DEFINE y == IF c.recorded THEN [span[k] EXCEPT !.e = clock'] ELSE NoSpan
  <2>1. y \in Interval /\ (c.recorded => y.b = span[k].b /\ y.e = clock')
    BY <1>4, <1>7, Zenon DEF Interval, NoSpan
  <2>2. span' = [span EXCEPT ![k] = y]
    BY <1>3, Zenon
  <2> HIDE DEF y
  <2> QED
    BY <1>1, <2>1, <2>2, Zenon DEF Types
<1>9. cell' \in [Slots -> Content]
  <2>1. cell \in [Slots -> Content] /\ cell[k] \in Content /\ Poison \in Int /\ Stray \in Int
    BY <1>1, SlotsFinite DEF Types, Poison, Stray
  <2>2. \A d \in Int : [cell[k] EXCEPT !.data = d] \in Content
    BY <2>1, Zenon DEF Content
  <2>3. [data |-> k, intact |-> FALSE] \in Content
    BY <1>4, Zenon DEF Content
  <2>4. \A x \in Content : [cell EXCEPT ![k] = x] \in [Slots -> Content]
    BY <2>1, Zenon
  <2>5. \A d \in {k, Poison, Stray} : [cell EXCEPT ![k].data = d] \in [Slots -> Content]
    BY <1>4, <2>1, <2>2, <2>4, Zenon
  <2> QED
    BY <1>3, <2>1, <2>3, <2>4, <2>5, Zenon
<1>10. flight' \subseteq flight \cup {k} /\ (k \in flight' => k \in flight \/ ~c.agree)
  BY <1>3, Zenon
<1>11. Types'
  <2>1. rc' \in [Slots -> {"S", "other", "none"}]
    BY <1>1, <1>3, Zenon DEF Types
  <2> QED
    BY <1>1, <1>2, <1>4, <1>5, <1>6, <1>8, <1>9, <1>10, <2>1, Zenon DEF Types
<1>12. Spans'
  <2>1. ASSUME NEW j \in Slots
        PROVE  /\ ctx'[j].recorded => span'[j].b <= span'[j].e /\ span'[j].e <= clock'
               /\ get'[j] = "inside" => span'[j].b <= clock'
               /\ get'[j] \in {"called", "inside"} => ~ctx'[j].recorded
    <3>1. CASE j = k
      BY <1>1, <1>4, <1>5, <1>6, <1>7, <1>8, <3>1 DEF Spans, Types
    <3>2. CASE j # k
      <4>1. ctx'[j] = ctx[j] /\ span'[j] = span[j] /\ get'[j] = get[j] /\ clock \in Nat
        BY <1>1, <1>5, <1>6, <1>8, <3>2, Zenon DEF Types
      <4>2. /\ ctx[j].recorded => span[j].b <= span[j].e /\ span[j].e <= clock
            /\ get[j] = "inside" => span[j].b <= clock
            /\ get[j] \in {"called", "inside"} => ~ctx[j].recorded
        BY <1>1, Zenon DEF Spans
      <4>3. span[j].b \in Nat /\ span[j].e \in Nat /\ clock' \in Nat /\ clock <= clock'
        BY <1>4, <1>7, Zenon
      <4>4. ctx[j].recorded => span[j].b <= span[j].e /\ span[j].e <= clock'
        BY <4>1, <4>2, <4>3
      <4>5. get[j] = "inside" => span[j].b <= clock'
        BY <4>1, <4>2, <4>3
      <4> QED
        BY <4>1, <4>2, <4>4, <4>5, Zenon
    <3> QED
      BY <3>1, <3>2, Zenon
  <2>2. ASSUME ~overlapped', NEW i \in Slots, NEW j \in Slots, i # j
        PROVE  /\ ~(get'[i] = "inside" /\ get'[j] = "inside")
               /\ get'[j] = "inside" /\ ctx'[i].recorded => span'[i].e <= span'[j].b
               /\ ctx'[i].recorded /\ ctx'[j].recorded => span'[i].e <= span'[j].b \/ span'[j].e <= span'[i].b
    <3>1. ~overlapped /\ \A m \in Slots : m # k => get'[m] # "inside"
      BY <1>1, <1>2, <1>5, <2>2, Zenon DEF Spans
    <3>2. get'[i] # "inside" /\ get'[j] # "inside"
      BY <1>5, <3>1, Zenon
    <3>3. CASE i = k
      <4>1. ctx[j].recorded => span[j].e <= span[k].b
        BY <1>1, <2>2, <3>1, <3>3, Zenon DEF Spans
      <4>2. ctx'[j] = ctx[j] /\ span'[j] = span[j] /\ (ctx'[k].recorded => span'[k].b = span[k].b)
        BY <1>6, <1>8, <2>2, <3>3, Zenon
      <4> QED
        BY <3>2, <3>3, <4>1, <4>2, Zenon
    <3>4. CASE j = k
      <4>1. ctx[i].recorded => span[i].e <= span[k].b
        BY <1>1, <2>2, <3>1, <3>4, Zenon DEF Spans
      <4>2. ctx'[i] = ctx[i] /\ span'[i] = span[i] /\ (ctx'[k].recorded => span'[k].b = span[k].b)
        BY <1>6, <1>8, <2>2, <3>4, Zenon
      <4> QED
        BY <3>2, <3>4, <4>1, <4>2, Zenon
    <3>5. CASE i # k /\ j # k
      <4>1. ctx'[i] = ctx[i] /\ span'[i] = span[i] /\ ctx'[j] = ctx[j] /\ span'[j] = span[j]
        BY <1>6, <1>8, <3>5, Zenon
      <4> QED
        BY <1>1, <2>2, <3>1, <3>2, <4>1, Zenon DEF Spans
    <3> QED
      BY <3>3, <3>4, <3>5, Zenon
  <2> QED
    BY <2>1, <2>2, Zenon DEF Spans
<1>13. Flight'
  <2>1. k \notin flight
    BY <1>1, Zenon DEF CInv, Flight, Joined
  <2> QED
    BY <1>1, <1>2, <1>5, <1>6, <1>10, <2>1, SlotFlight, Zenon
<1> QED
  BY <1>1, <1>2, <1>11, <1>12, <1>13, SlotInv, Zenon

-----------------------------------------------------------------------------
(* The serial pass and the rounds. *)

\* A step that gives no verdict keeps the properties about verdicts.
LEMMA StayInv ==
    ASSUME main # "done", CInv, UNCHANGED verdict, Types', Spans', Flight', Counters'
    PROVE  CInv'
BY Zenon DEF CInv, Counters, PassEarned, FailIsConcurrent

\* An error path that ends the experiment before its reading.
LEMMA ErrorInv ==
    ASSUME CInv, main \notin Calling \/ Joined, main # "done", NEW v \in {"ENV_ERROR", "INCONCLUSIVE"},
           retain_all(v) \/ (release_or_retain(v) /\ flight = {}),
           UNCHANGED <<cur, getVars, ref, witnessed, max_overlap>>, output_failed' \in BOOLEAN
    PROVE  CInv'
<1>1. Joined
  BY Zenon DEF CInv, Flight
<1>2. /\ main' = "done" /\ verdict' \in {"ENV_ERROR", "INCONCLUSIVE"}
      /\ retain_all(v) => fixture' # "released"
  BY TerminalFacts, Zenon
<1>3. fixture' = "released" => flight = {}
  BY <1>2, Zenon
<1> QED
  BY <1>1, <1>2, <1>3, PlainEndInv, Zenon

\* setup() leaves the arena registered, or gives up.
LEMMA SetupInv == ASSUME CInv, Setup PROVE CInv'
<1>1. main = "setup" /\ main \notin Calling /\ Types /\ flight = {} /\ UNCHANGED <<cur, it, getVars, ref, tally, witnessed>>
  BY Zenon DEF CInv, Setup, Flight, Calling
<1>2. CASE main' = "ref" /\ fixture' = "registered" /\ UNCHANGED <<output_failed, verdict>>
  <2>1. UNCHANGED <<get, ctx, rc, span, clock, cell, flight, overlapped, round_max, max_overlap, failures>>
    BY <1>1, Zenon DEF getVars, tally
  <2>2. Types'
    <3>1. cur \in Slots
      BY <1>1, Zenon DEF Types
    <3> QED
      BY <1>1, <1>2, <2>1, <3>1, Zenon DEF Types, Calling
  <2>3. Spans'
    BY <2>1, SpansKept, Zenon DEF CInv
  <2>4. Flight'
    BY <1>1, <1>2, <2>1, Zenon DEF CInv, Flight, Calling, Joined
  <2>5. Counters'
    BY <1>1, <1>2, <2>1, Zenon DEF CInv, Counters
  <2> QED
    BY <1>1, <1>2, <2>2, <2>3, <2>4, <2>5, StayInv, Zenon
<1>3. CASE UNCHANGED output_failed /\ release_or_retain("ENV_ERROR")
  BY <1>1, <1>3, ErrorInv, Zenon DEF tally, Types
<1> QED
  BY <1>2, <1>3, Zenon DEF Setup

\* What setup and poison leave, for any slots and any GETs that are then called.
LEMMA PrepareFacts ==
    ASSUME NEW S, Types, Prepare(S), flight = {}
    PROVE  /\ ctx' \in [Slots -> Context] /\ rc' \in [Slots -> {"S", "other", "none"}]
           /\ span' \in [Slots -> Interval] /\ clock' \in Nat /\ cell' \in [Slots -> Content]
           /\ flight' = {} /\ overlapped' \in BOOLEAN
           /\ \A k \in S \cap Slots : ~ctx'[k].recorded
           /\ \A k \in Slots : span'[k].b = 0 /\ span'[k].e = 0
           /\ clock' = 0
<1>1. NoContext \in Context /\ ~NoContext.recorded
  BY EndsFacts, Zenon DEF NoContext
<1>2. NoSpan \in Interval /\ Poisoned \in Content /\ NoSpan.b = 0 /\ NoSpan.e = 0
  BY DEF NoSpan, Poisoned, Poison, Interval, Content
<1>3. overlapped' \in BOOLEAN
  BY Zenon DEF Prepare
<1> QED
  BY <1>1, <1>2, <1>3, Zenon DEF Prepare, Types

\* The spans after a preparation: no GET is inside, and only prepared ones are called.
LEMMA PrepareSpans ==
    ASSUME NEW S, Types, Prepare(S), flight = {}, get' \in [Slots -> {"idle", "called"}],
           \A k \in Slots : get'[k] = "called" => k \in S
    PROVE  Spans'
<1>1. /\ \A k \in S \cap Slots : ~ctx'[k].recorded
      /\ \A k \in Slots : span'[k].b = 0 /\ span'[k].e = 0
      /\ clock' = 0
  BY PrepareFacts, Zenon
<1> QED
  BY <1>1 DEF Spans

\* A serial GET is set up, poisoned and called.
LEMMA RefStartInv == ASSUME CInv, RefStart PROVE CInv'
<1>1. main = "ref" /\ main \notin Calling /\ cur \in Slots /\ Types /\ flight = {} /\ fixture # "released"
  BY Zenon DEF CInv, RefStart, Flight, Calling, Types
<1>2. UNCHANGED <<output_failed, cur, it, ref, tally, witnessed>>
  BY Zenon DEF RefStart
<1>3. CASE /\ Prepare({cur})
           /\ get' = [k \in Slots |-> IF k = cur THEN "called" ELSE "idle"]
           /\ main' = "ref_get"
           /\ UNCHANGED <<fixture, verdict>>
  <2>1. Types'
    BY <1>1, <1>2, <1>3, PrepareFacts, Zenon DEF Types, Calling
  <2>2. Spans'
    BY <1>1, <1>3, PrepareSpans, Zenon
  <2>3. Flight'
    BY <1>1, <1>2, <1>3, Zenon DEF Flight, Prepare, Calling
  <2>4. Counters'
    BY <1>1, <1>2, <1>3, Zenon DEF CInv, Counters, tally
  <2> QED
    BY <1>1, <1>3, <2>1, <2>2, <2>3, <2>4, StayInv, Zenon
<1>4. CASE PoisonFails({"ENV_ERROR"})
  BY <1>1, <1>2, <1>4, ErrorInv, Zenon DEF tally, Types, PoisonFails
<1> QED
  BY <1>3, <1>4, Zenon DEF RefStart

\* The gate of the serial pass: what it lets through has nothing in flight.
LEMMA RefGateInv == ASSUME CInv, RefGate PROVE CInv'
<1>1. main = "ref_get" /\ cur \in Slots /\ Types /\ get[cur] = "returned"
  BY Zenon DEF CInv, RefGate, Types
<1>2. UNCHANGED <<output_failed, cur, it, getVars, ref, tally, witnessed>>
  BY Zenon DEF RefGate
<1>3. Joined
  BY <1>1, Zenon DEF CInv, Flight, Joined
<1>4. ~Unresolved(cur) => flight = {}
  <2>1. ASSUME NEW k \in flight PROVE Unresolved(cur)
    <3>1. k \in Slots /\ get[k] = "returned" /\ ~ctx[k].agree
      BY <1>1, <2>1, Zenon DEF CInv, Flight, Calling, Types
    <3>2. k = cur
      BY <1>1, <3>1, Zenon DEF CInv, Flight
    <3> QED
      BY <3>1, <3>2, Zenon DEF Unresolved
  <2> QED
    BY <2>1, Zenon
<1>5. CASE ~Unresolved(cur) /\ main' = "ref_read" /\ UNCHANGED <<fixture, verdict>>
  <2>1. UNCHANGED <<get, ctx, rc, span, clock, cell, flight, overlapped, round_max, max_overlap, failures>>
    BY <1>2, Zenon DEF getVars, tally
  <2>2. Types'
    BY <1>1, <1>2, <1>5, <2>1, Zenon DEF Types, Calling
  <2>3. Spans'
    BY <2>1, SpansKept, Zenon DEF CInv
  <2>4. Flight'
    BY <1>1, <1>3, <1>4, <1>5, <2>1, Zenon DEF CInv, Flight, Calling, Joined
  <2>5. Counters'
    BY <1>1, <1>5, <2>1, Zenon DEF CInv, Counters
  <2> QED
    BY <1>1, <1>5, <2>2, <2>3, <2>4, <2>5, StayInv, Zenon
<1>6. CASE retain_all("INCONCLUSIVE")
  BY <1>1, <1>2, <1>3, <1>6, ErrorInv, Zenon DEF tally, Types
<1>7. CASE ~Unresolved(cur) /\ release_or_retain("ENV_ERROR")
  <2>1. UNCHANGED max_overlap /\ output_failed' \in BOOLEAN
    BY <1>1, <1>2, Zenon DEF tally, Types
  <2> QED
    BY <1>1, <1>2, <1>3, <1>4, <1>7, <2>1, ErrorInv, Zenon
<1> QED
  BY <1>5, <1>6, <1>7, Zenon DEF RefGate

\* The references: after the last slot they differ, or the experiment ends.
LEMMA RefReadInv == ASSUME CInv, RefRead PROVE CInv'
<1>1. main = "ref_read" /\ main \notin Calling /\ cur \in Slots /\ Types /\ flight = {} /\ fixture # "released"
  BY Zenon DEF CInv, RefRead, Flight, Calling, Types
<1>2. UNCHANGED <<output_failed, it, getVars, tally, witnessed>>
  BY Zenon DEF RefRead
<1>3. CASE retain_all("ENV_ERROR") /\ UNCHANGED <<cur, ref>>
  BY <1>1, <1>2, <1>3, ErrorInv, Zenon DEF tally, Types
<1>4. CASE release_or_retain("ENV_ERROR") /\ UNCHANGED <<cur, ref>>
  BY <1>1, <1>2, <1>4, ErrorInv, Zenon DEF tally, Types
<1>5. CASE /\ ref' = [ref EXCEPT ![cur] = cell[cur].data]
           /\ cur' = cur + 1
           /\ IF cur' < W THEN main' = "ref" /\ UNCHANGED <<fixture, verdict>>
              ELSE IF \E a, b \in Slots : a < b /\ ref'[a] = ref'[b] THEN release_or_retain("INCONCLUSIVE")
              ELSE main' = "round" /\ UNCHANGED <<fixture, verdict>>
  <2>1. UNCHANGED <<get, ctx, rc, span, clock, cell, flight, overlapped, round_max, max_overlap, failures>>
    BY <1>2, Zenon DEF getVars, tally
  <2>2. ref' \in [Slots -> Int] /\ cur' \in Nat
    BY <1>1, <1>5 DEF Types, Content
  <2>3. Spans'
    BY <2>1, SpansKept, Zenon DEF CInv
  <2>4. CASE cur' < W /\ main' = "ref" /\ UNCHANGED <<fixture, verdict>>
    <3>1. Types'
      <4>1. cur' \in Slots
        BY <2>2, <2>4, SlotsFinite DEF Slots
      <4> QED
        BY <1>1, <1>2, <2>1, <2>2, <2>4, <4>1, Zenon DEF Types, Calling
    <3>2. Flight'
      BY <1>1, <2>1, <2>4, Zenon DEF CInv, Flight, Calling, Joined
    <3>3. Counters'
      BY <1>1, <2>1, <2>4, Zenon DEF CInv, Counters
    <3> QED
      BY <1>1, <2>3, <2>4, <3>1, <3>2, <3>3, StayInv, Zenon
  <2>5. CASE /\ ~\E a, b \in Slots : a < b /\ ref'[a] = ref'[b]
             /\ main' = "round" /\ UNCHANGED <<fixture, verdict>>
    <3>1. Types'
      BY <1>1, <1>2, <2>1, <2>2, <2>5, Zenon DEF Types, Calling
    <3>2. Flight'
      BY <1>1, <2>1, <2>5, Zenon DEF CInv, Flight, Calling, Joined
    <3>3. RefsDiffer'
      <4>1. ASSUME NEW j \in Slots, NEW k \in Slots, j # k PROVE ref'[j] # ref'[k]
        <5>1. j < k \/ k < j
          BY <4>1, SlotsFinite
        <5> QED
          BY <2>5, <5>1, Zenon
      <4> QED
        BY <4>1, Zenon DEF RefsDiffer
    <3>4. Counters'
      BY <1>1, <2>1, <2>5, <3>3, Zenon DEF CInv, Counters
    <3> QED
      BY <1>1, <2>3, <2>5, <3>1, <3>2, <3>4, StayInv, Zenon
  <2>6. CASE release_or_retain("INCONCLUSIVE")
    <3>1. main' = "done" /\ verdict' \in {"ENV_ERROR", "INCONCLUSIVE"}
      BY <2>6, TerminalFacts, Zenon
    <3>2. Types'
      BY <1>1, <1>2, <2>1, <2>2, <3>1, Zenon DEF Types
    <3>3. Flight'
      BY <1>1, <2>1, <3>1, Zenon DEF CInv, Flight, Calling, Joined
    <3>4. Counters'
      BY <1>1, <1>2, <2>1, <3>1, Zenon DEF CInv, Counters
    <3>5. PassEarned' /\ FailIsConcurrent'
      BY <3>1, Zenon DEF PassEarned, FailIsConcurrent
    <3> QED
      BY <2>3, <3>2, <3>3, <3>4, <3>5, Zenon DEF CInv
  <2> QED
    BY <1>5, <2>4, <2>5, <2>6, Zenon
<1> QED
  BY <1>3, <1>4, <1>5, Zenon DEF RefRead

\* All slots are set up and poisoned, and their threads created.
LEMMA RoundStartInv == ASSUME CInv, RoundStart PROVE CInv'
<1>1. main = "round" /\ main \notin Calling /\ Types /\ flight = {} /\ fixture # "released"
  BY Zenon DEF CInv, RoundStart, Flight, Calling, Types
<1>2. UNCHANGED <<output_failed, cur, it, ref, tally, witnessed>>
  BY Zenon DEF RoundStart
<1>3. ASSUME Prepare(Slots), NEW n, get' = [k \in Slots |-> IF k < n THEN "called" ELSE "idle"],
             main' = IF n = W THEN "join" ELSE "join_failed", UNCHANGED <<fixture, verdict>>
      PROVE  CInv'
  <2>1. main' \in {"join", "join_failed"} /\ get' \in [Slots -> {"idle", "called"}]
    BY <1>3, Zenon
  <2>2. Types'
    BY <1>1, <1>2, <1>3, <2>1, PrepareFacts, Zenon DEF Types, Calling
  <2>3. Spans'
    BY <1>1, <1>3, <2>1, PrepareSpans, Zenon
  <2>4. Flight'
    BY <1>1, <1>3, <2>1, Zenon DEF Flight, Prepare, Calling
  <2>5. Counters'
    BY <1>1, <1>2, <1>3, <2>1, Zenon DEF CInv, Counters, tally, RefsDiffer
  <2> QED
    BY <1>1, <1>3, <2>2, <2>3, <2>4, <2>5, StayInv, Zenon
<1>4. CASE PoisonFails({"ENV_ERROR", "INCONCLUSIVE"})
  <2>1. PICK v \in {"ENV_ERROR", "INCONCLUSIVE"} : retain_all(v)
    BY <1>4, Zenon DEF PoisonFails
  <2> QED
    BY <1>1, <1>2, <1>4, <2>1, ErrorInv, Zenon DEF tally, Types, PoisonFails
<1> QED
  BY <1>3, <1>4, Zenon DEF RoundStart

\* The threads that were created are joined, and the arena is kept.
LEMMA SpawnFailedInv == ASSUME CInv, SpawnFailed PROVE CInv'
<1>1. UNCHANGED max_overlap /\ output_failed' \in BOOLEAN
  BY Zenon DEF CInv, Types, SpawnFailed, tally
<1> QED
  BY <1>1, ErrorInv, Zenon DEF SpawnFailed

\* The larger of two overlaps.
LEMMA MaxOfTwo == ASSUME NEW a \in {0, 1}, NEW b \in {0, 1} PROVE Max({a, b}) \in {0, 1}
<1> DEFINE S == {a, b}
<1>1. \E x \in S : \A y \in S : x >= y
  BY DEF S
<1>2. Max(S) \in S
  BY <1>1, Zenon DEF Max
<1> QED
  BY <1>2, Zenon

\* The joint gate: an overlap of two or more is real, and what is let through has nothing in
\* flight.
LEMMA RoundGateInv == ASSUME CInv, RoundGate PROVE CInv'
<1>1. main = "join" /\ Joined /\ Types /\ Spans
  BY Zenon DEF CInv, RoundGate
<1>2. /\ UNCHANGED <<output_failed, cur, it, get, ctx, rc, cell, flight, overlapped, ref, failures,
                     failing_round_overlap>>
      /\ span' = [k \in Slots |-> NoSpan] /\ clock' = 0
  BY Zenon DEF RoundGate
<1>3. overlapped \/ round_max' \in {0, 1}
  BY <1>1, SweepFacts, Zenon DEF RoundGate
<1>4. witnessed' \in BOOLEAN /\ (overlapped => witnessed') /\ (witnessed => witnessed')
  BY <1>1, Zenon DEF RoundGate, Types
<1>5. witnessed' \/ max_overlap' \in {0, 1}
  <2>1. max_overlap' = Max({max_overlap, round_max'})
    BY Zenon DEF RoundGate
  <2>2. witnessed \/ max_overlap \in {0, 1}
    BY Zenon DEF CInv, Counters
  <2> QED
    BY <1>3, <1>4, <2>1, <2>2, MaxOfTwo, Zenon
<1>6. (\A k \in Slots : ~Unresolved(k)) => flight = {}
  BY <1>1, Zenon DEF CInv, Flight, Calling, Types, Unresolved
<1>7. NoSpan \in Interval /\ NoSpan.b = 0 /\ NoSpan.e = 0
  BY Zenon DEF NoSpan, Interval
<1>8. Spans'
  <2>1. \A k \in Slots : get'[k] \notin {"called", "inside"} /\ span'[k].b = 0 /\ span'[k].e = 0
    BY <1>1, <1>2, <1>7, Zenon DEF Joined
  <2>2. \A k \in Slots : span'[k].b <= span'[k].e /\ span'[k].e <= clock'
    BY <1>2, <2>1
  <2>3. \A j, k \in Slots : span'[j].e <= span'[k].b
    BY <2>1
  <2> QED
    BY <2>1, <2>2, <2>3, Zenon DEF Spans
<1>9. CASE (\A k \in Slots : ~Unresolved(k)) /\ main' = "judge" /\ UNCHANGED <<fixture, verdict>>
  <2>1. Types'
    BY <1>1, <1>2, <1>4, <1>7, <1>9, Zenon DEF Types, Calling
  <2>2. Flight'
    BY <1>1, <1>2, <1>6, <1>9, Zenon DEF CInv, Flight, Calling, Joined
  <2>3. Counters'
    <3>1. RefsDiffer' /\ failures' = 0 /\ \A k \in Slots : ~Unresolved(k)'
      BY <1>1, <1>2, <1>9, Zenon DEF CInv, Counters, RefsDiffer, Unresolved
    <3> QED
      BY <1>1, <1>2, <1>3, <1>5, <1>9, <3>1, Zenon DEF CInv, Counters
  <2> QED
    BY <1>1, <1>8, <1>9, <2>1, <2>2, <2>3, StayInv, Zenon
<1>10. CASE /\ fixture' = "retained"
            /\ Finish(IF observed_failure /\ round_max' >= 2 THEN "FAIL" ELSE "INCONCLUSIVE")
  <2>1. /\ main' = "done" /\ verdict' \in {"FAIL", "INCONCLUSIVE"}
        /\ verdict' = "FAIL" => observed_failure /\ round_max' >= 2
    BY <1>10, Zenon DEF Finish
  <2>2. Types'
    BY <1>1, <1>2, <1>4, <1>7, <2>1, Zenon DEF Types
  <2>3. Flight'
    BY <1>1, <1>2, <1>10, <2>1, Zenon DEF Flight, Calling, Joined
  <2>4. Counters'
    BY <1>5, <2>1, Zenon DEF Counters
  <2>5. PassEarned'
    BY <2>1, Zenon DEF PassEarned
  <2>6. FailIsConcurrent'
    <3>1. SUFFICES ASSUME verdict' = "FAIL" PROVE overlapped' /\ SomeWrong'
      BY Zenon DEF FailIsConcurrent, SomeWrong, CellRight
    <3>2. overlapped
      BY <1>3, <2>1, <3>1
    <3>3. PICK k \in Slots : ~ctx[k].lost /\ ~ctx[k].local /\ rc[k] = "other"
      BY <2>1, <3>1, Zenon DEF observed_failure
    <3>4. SomeWrong'
      BY <1>2, <3>3, Zenon DEF SomeWrong, native_ok, CellRight
    <3> QED
      BY <1>2, <3>2, <3>4, Zenon
  <2> QED
    BY <1>8, <2>2, <2>3, <2>4, <2>5, <2>6, Zenon DEF CInv
<1> QED
  BY <1>9, <1>10, Zenon DEF RoundGate

\* A cell with the payload d and intact poison.
LEMMA CellIs == ASSUME NEW c \in Content, NEW d, c.intact, c.data = d PROVE c = [data |-> d, intact |-> TRUE]
BY Zenon DEF Content

\* A wrong slot stays wrong while nothing is prepared.
LEMMA WrongKept ==
    ASSUME NEW k \in Slots, ~ctx[k].lost, ~ctx[k].local,
           ~native_ok(k) \/ ~CellRight(k), UNCHANGED <<ctx, rc, cell, ref>>
    PROVE  SomeWrong'
<1>1. ~ctx'[k].lost /\ ~ctx'[k].local /\ (~native_ok(k)' \/ ~CellRight(k)')
  BY Zenon DEF native_ok, CellRight
<1> QED
  BY <1>1, Zenon DEF SomeWrong

\* A round is judged after its gate: what is counted is wrong, and what is not is right.
LEMMA JudgeInv == ASSUME CInv, JudgeRound PROVE CInv'
<1>1. /\ main = "judge" /\ main \notin Calling /\ Types /\ flight = {} /\ fixture # "released"
      /\ failures = 0 /\ RefsDiffer /\ (overlapped \/ round_max \in {0, 1})
      /\ \A k \in Slots : ~Unresolved(k)
  BY Zenon DEF CInv, JudgeRound, Flight, Calling, Counters
<1>2. UNCHANGED <<output_failed, cur, getVars, ref, round_max, max_overlap, witnessed>>
  BY Zenon DEF JudgeRound
<1>3. UNCHANGED <<get, ctx, rc, span, clock, cell, flight, overlapped>>
  BY <1>2, Zenon DEF getVars
<1>4. Spans'
  BY <1>3, SpansKept, Zenon DEF CInv
<1> DEFINE backend == {k \in Slots : ~ctx[k].local}
           bad(n) == {k \in backend : ~native_ok(k)}
                     \cup {k \in backend : k < n /\ ~(slot_ok(k) /\ cell[k].data = ref[k])}
<1>5. PICK n \in IF {"read", "output"} \cap Faults # {} THEN 0..W ELSE {W} :
          /\ failures' = failures + Cardinality(bad(n))
          /\ \/ /\ bad(n) # {}
                /\ failing_round_overlap' = round_max
                /\ main' = "final"
                /\ UNCHANGED <<it, fixture, verdict>>
             \/ /\ bad(n) = {}
                /\ UNCHANGED failing_round_overlap
                /\ \/ n < W /\ retain_all("ENV_ERROR") /\ UNCHANGED it
                   \/ /\ n = W /\ backend # Slots
                      /\ \/ release_or_retain("ENV_ERROR")
                         \/ "output" \in Faults /\ retain_all("ENV_ERROR")
                      /\ UNCHANGED it
                   \/ /\ n = W /\ backend = Slots
                      /\ it' = it + 1
                      /\ main' = "round"
                      /\ UNCHANGED <<fixture, verdict>>
  BY Zenon DEF JudgeRound
<1>6. Cardinality(bad(n)) \in Nat /\ (Cardinality(bad(n)) = 0 <=> bad(n) = {})
  <2>1. IsFiniteSet(bad(n))
    BY SlotsFinite, FS_Subset, Zenon
  <2> HIDE DEF bad
  <2> QED
    BY <2>1, FS_CardinalityType, FS_EmptySet, Zenon
<1>7. failures' = Cardinality(bad(n))
  <2>1. failures' = failures + Cardinality(bad(n))
    BY <1>5, Zenon
  <2> HIDE DEF bad
  <2> QED
    BY <1>1, <1>6, <2>1
<1>8. CASE bad(n) # {} /\ failing_round_overlap' = round_max /\ main' = "final" /\ UNCHANGED <<fixture, verdict>>
  <2>1. Types'
    BY <1>1, <1>2, <1>3, <1>8, Zenon DEF Types, Calling
  <2>2. Flight'
    BY <1>1, <1>3, <1>8, Zenon DEF CInv, Flight, Calling, Joined
  <2>3. SomeWrong'
    <3>1. PICK k \in Slots : ~ctx[k].local /\ (~native_ok(k) \/ ~(slot_ok(k) /\ cell[k].data = ref[k]))
      BY <1>8, Zenon
    <3>2. ~ctx[k].lost
      BY <1>1, Zenon DEF Unresolved
    <3>3. ~native_ok(k) \/ ~CellRight(k)
      BY <3>1 DEF slot_ok, CellRight
    <3> QED
      BY <1>2, <1>3, <3>1, <3>2, <3>3, WrongKept, Zenon
  <2>4. Counters'
    <3>1. RefsDiffer' /\ failures' \in Nat /\ failures' # 0
      BY <1>1, <1>2, <1>6, <1>7, <1>8, Zenon DEF RefsDiffer
    <3> HIDE DEF bad, backend
    <3> QED
      BY <1>1, <1>2, <1>3, <1>8, <2>3, <3>1, Zenon DEF CInv, Counters
  <2> QED
    BY <1>1, <1>4, <1>8, <2>1, <2>2, <2>4, StayInv, Zenon
<1>9. CASE retain_all("ENV_ERROR") \/ release_or_retain("ENV_ERROR")
  <2>1. UNCHANGED max_overlap /\ output_failed' \in BOOLEAN
    BY <1>1, <1>2, Zenon DEF Types
  <2> QED
    BY <1>1, <1>2, <1>9, <2>1, ErrorInv, Zenon
<1>10. CASE bad(n) = {} /\ n = W /\ backend = Slots /\ main' = "round" /\ UNCHANGED <<fixture, verdict>>
  <2>1. Types'
    BY <1>1, <1>2, <1>3, <1>10, Zenon DEF Types, Calling
  <2>2. Flight'
    BY <1>1, <1>3, <1>10, Zenon DEF CInv, Flight, Calling, Joined
  <2>3. CellsRight
    <3>1. ASSUME NEW k \in Slots PROVE CellRight(k)
      <4>1. k < W
        BY SlotsFinite DEF Slots
      <4>2. slot_ok(k) /\ cell[k].data = ref[k]
        BY <1>10, <4>1, Zenon
      <4>3. cell[k] \in Content
        BY <1>1, Zenon DEF Types
      <4> QED
        BY <4>2, <4>3, CellIs, Zenon DEF slot_ok, CellRight
    <3> QED
      BY <3>1, Zenon DEF CellsRight
  <2>4. Counters'
    <3>1. RefsDiffer' /\ CellsRight' /\ failures' = 0
      BY <1>1, <1>2, <1>3, <1>6, <1>7, <1>10, <2>3, Zenon DEF RefsDiffer, CellsRight, CellRight
    <3> HIDE DEF bad, backend
    <3> QED
      BY <1>1, <1>2, <1>3, <1>10, <3>1, Zenon DEF CInv, Counters
  <2> QED
    BY <1>1, <1>4, <1>10, <2>1, <2>2, <2>4, StayInv, Zenon
<1> QED
  <2> HIDE DEF bad, backend
  <2> QED
    BY <1>5, <1>8, <1>9, <1>10, Zenon

\* All rounds were right.
LEMMA RoundsOverInv == ASSUME CInv, RoundsOver PROVE CInv'
<1>1. /\ main = "round" /\ main' = "final" /\ Types
      /\ UNCHANGED <<cur, it, getVars, ref, tally, fixture, output_failed, verdict, witnessed>>
  BY Zenon DEF CInv, RoundsOver
<1>2. UNCHANGED <<get, ctx, rc, span, clock, cell, flight, overlapped, round_max, max_overlap, failures>>
  BY <1>1, Zenon DEF getVars, tally
<1>3. Types'
  BY <1>1, <1>2, Zenon DEF Types, Calling
<1>4. Spans'
  BY <1>2, SpansKept, Zenon DEF CInv
<1>5. Flight'
  BY <1>1, <1>2, Zenon DEF CInv, Flight, Calling, Joined
<1>6. Counters'
  <2>1. /\ verdict = "none" /\ (witnessed \/ max_overlap \in {0, 1}) /\ failures = 0 /\ RefsDiffer
        /\ max_overlap = 0 \/ CellsRight
    BY <1>1, Zenon DEF CInv, Counters
  <2>2. RefsDiffer' /\ (CellsRight => CellsRight')
    BY <1>1, <1>2, <2>1, Zenon DEF RefsDiffer, CellsRight, CellRight
  <2> QED
    BY <1>1, <1>2, <2>1, <2>2, Zenon DEF Counters
<1> QED
  BY <1>1, <1>3, <1>4, <1>5, <1>6, StayInv, Zenon

\* The reading: PASS needs an overlap of two and no failure, FAIL one in the failing round.
LEMMA ConcludeInv == ASSUME CInv, Conclude PROVE CInv'
<1>1. main = "final" /\ Types /\ Joined /\ flight = {} /\ UNCHANGED <<cur, it, getVars, ref, tally, witnessed>>
  BY Zenon DEF CInv, Conclude, Flight, Calling
<1>2. output_failed' \in BOOLEAN
  BY <1>1, Zenon DEF Types, Conclude
<1>3. UNCHANGED <<get, ctx, rc, span, clock, cell, flight, overlapped, max_overlap, failures, failing_round_overlap>>
  BY <1>1, Zenon DEF getVars, tally
<1>4. failures \in Nat /\ RefsDiffer /\ (witnessed \/ max_overlap \in {0, 1})
      /\ (failures = 0 => max_overlap = 0 \/ CellsRight)
      /\ (failures # 0 => SomeWrong /\ (overlapped \/ failing_round_overlap \in {0, 1}))
  BY <1>1, Zenon DEF CInv, Counters
<1>5. main' = "done"
  BY Zenon DEF Conclude, Finish
<1>6. PassEarned'
  <2>1. SUFFICES ASSUME verdict' = "PASS"
                 PROVE  witnessed /\ CellsRight /\ RefsDiffer /\ fixture' = "released" /\ ~output_failed'
    BY <1>1, <1>3, Zenon DEF PassEarned, CellsRight, RefsDiffer, CellRight
  <2>2. Reading = "PASS" /\ ~output_failed'
    BY <2>1, Zenon DEF Conclude, Finish
  <2>3. failures = 0 /\ max_overlap # 0 /\ max_overlap # 1
    BY <1>4, <2>2 DEF Reading
  <2>4. fixture' = "released"
    BY <2>1, <2>3 DEF Conclude, Finish
  <2> QED
    BY <1>4, <2>2, <2>3, <2>4, Zenon
<1>7. FailIsConcurrent'
  <2>1. SUFFICES ASSUME verdict' = "FAIL", fixture' # "undereg" PROVE overlapped /\ SomeWrong
    BY <1>1, <1>3, Zenon DEF FailIsConcurrent, SomeWrong, native_ok, CellRight
  <2>2. Reading = "FAIL"
    BY <2>1, Zenon DEF Conclude, Finish
  <2>3. failures # 0 /\ failing_round_overlap \notin {0, 1}
    BY <1>4, <2>2 DEF Reading
  <2> QED
    BY <1>4, <2>3, Zenon
<1> QED
  BY <1>1, <1>2, <1>3, <1>5, <1>6, <1>7, EndInv, Zenon

\* Output may fail between the steps, or end the experiment.
LEMMA OutputInv == ASSUME CInv, OutputFails PROVE CInv'
<1>1. /\ main \in {"ref_get", "ref_read", "join", "judge"} /\ Joined /\ output_failed' = TRUE
      /\ UNCHANGED <<cur, it, getVars, ref, tally, witnessed>>
  BY Zenon DEF OutputFails
<1>2. UNCHANGED <<get, ctx, rc, span, clock, cell, flight, overlapped, round_max, max_overlap, failures>>
  BY <1>1, Zenon DEF getVars, tally
<1>3. output_failed' \in BOOLEAN
  BY <1>1, Zenon
<1>4. CASE UNCHANGED <<main, fixture, verdict>>
  <2>1. Types'
    BY <1>1, <1>2, <1>3, <1>4, Zenon DEF CInv, Types
  <2>2. Spans'
    BY <1>2, SpansKept, Zenon DEF CInv
  <2>3. Flight'
    BY <1>1, <1>2, <1>4, Zenon DEF CInv, Flight, Joined
  <2>4. Counters'
    <3>1. (RefsDiffer' <=> RefsDiffer) /\ \A k \in Slots : Unresolved(k)' <=> Unresolved(k)
      BY <1>1, <1>2, Zenon DEF RefsDiffer, Unresolved
    <3> QED
      BY <1>1, <1>2, <1>4, <3>1, Zenon DEF CInv, Counters
  <2> QED
    BY <1>1, <1>4, <2>1, <2>2, <2>3, <2>4, StayInv, Zenon
<1>5. CASE retain_all("ENV_ERROR")
  BY <1>1, <1>2, <1>3, <1>5, ErrorInv, Zenon
<1> QED
  BY <1>4, <1>5, Zenon DEF OutputFails

-----------------------------------------------------------------------------
(* The theorems. *)

\* Every step of the experiment preserves the invariant.
LEMMA NextInv == CInv /\ [Next]_vars => CInv'
<1> SUFFICES ASSUME CInv, [Next]_vars PROVE CInv'
  BY Zenon
<1>1. CASE UNCHANGED vars
  <2>1. UNCHANGED <<main, cur, it, get, ctx, rc, span, clock, cell, flight, overlapped, ref, round_max, max_overlap,
                    failures, failing_round_overlap, fixture, output_failed, verdict, witnessed>>
    BY <1>1, Zenon DEF vars, getVars, tally
  <2>a. Types'
    BY <2>1, Zenon DEF CInv, Types
  <2>b. Spans'
    BY <2>1, Zenon DEF CInv, Spans
  <2>c. Flight'
    BY <2>1, Zenon DEF CInv, Flight, Joined
  <2>2. Types' /\ Spans' /\ Flight'
    BY <2>a, <2>b, <2>c, Zenon
  <2>3. Counters'
    BY <2>1, Zenon DEF CInv, Counters, RefsDiffer, CellsRight, SomeWrong, native_ok, Unresolved, CellRight
  <2>4. PassEarned' /\ FailIsConcurrent'
    BY <2>1, Zenon DEF CInv, PassEarned, FailIsConcurrent, native_ok
  <2> QED
    BY <2>2, <2>3, <2>4, Zenon DEF CInv
<1>2. CASE Setup \/ RefStart \/ RefGate \/ RefRead
  BY <1>2, SetupInv, RefStartInv, RefGateInv, RefReadInv, Zenon
<1>3. CASE RoundStart \/ SpawnFailed \/ RoundGate \/ JudgeRound
  BY <1>3, RoundStartInv, SpawnFailedInv, RoundGateInv, JudgeInv, Zenon
<1>4. CASE RoundsOver \/ Conclude \/ OutputFails
  BY <1>4, RoundsOverInv, ConcludeInv, OutputInv, Zenon
<1>5. CASE \E k \in Slots : Enter(k) \/ GetReturns(k) \/ GetUncalled(k)
  BY <1>5, EnterInv, ReturnsInv, UncalledInv, Zenon
<1> QED
  BY <1>1, <1>2, <1>3, <1>4, <1>5, Zenon DEF Next

\* CInv is an invariant of the experiment.
LEMMA Invariance == Spec => []CInv
BY InitInv, NextInv, PTL DEF Spec

\* For any number of slots and rounds, and whatever fails in the probe: exp_concurrent does not
\* poison, read or give back the arena while the gateway may still act on a request of any slot.
THEOREM NoReuse == Spec => []NoReuseInFlight
<1>1. CInv => NoReuseInFlight
  BY Zenon DEF CInv, Flight, NoReuseInFlight, Calling
<1> QED
  BY <1>1, Invariance, PTL

\* A PASS of the experiment is earned: GETs really overlapped, although the sweep only compares
\* clock readings, every slot holds its own reference, and nothing was kept or lost.
THEOREM PassIsEarned == Spec => []PassEarned
<1>1. CInv => PassEarned
  BY Zenon DEF CInv
<1> QED
  BY <1>1, Invariance, PTL

\* A FAIL of the experiment is about GETs that really overlapped in the failing round, unless
\* the release failed.
THEOREM FailOfOverlap == Spec => []FailIsConcurrent
<1>1. CInv => FailIsConcurrent
  BY Zenon DEF CInv
<1> QED
  BY <1>1, Invariance, PTL
=============================================================================
