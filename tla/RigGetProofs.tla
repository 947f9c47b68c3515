---------------------------- MODULE RigGetProofs ----------------------------
(***************************************************************************)
(* The properties of a measured GET of the rig probe, for any number of    *)
(* callbacks and threads, and of its exit experiment, for any deadline.    *)
(*                                                                         *)
(* The gate of exp_single_get compares two counters, and the callbacks     *)
(* change them at different moments, concurrently.  That it may be trusted *)
(* rests on two inequalities: submitted is at least the number of requests *)
(* on the wire or on the way to it (Own), and completed is at most the     *)
(* number of qualified receipts (Qualified), which are receipts of those   *)
(* requests.  Neither counter is exact: an exception leaves submitted too  *)
(* high, and a receipt next to a second submission is not counted.         *)
(*                                                                         *)
(* The parent of the exit experiment sees of the child what waitpid says;  *)
(* ExitInv ties that to what the child has done.                           *)
(***************************************************************************)
EXTENDS RigProbe, FiniteSetTheorems, TLAPS

Where ==
    {"none", "check", "build", "submit", "latch", "send", "takeback", "tb_submitted", "tb_completed", "tb_clear",
     "receive", "q_test", "q_count", "q_clear", "push", "leave", "left", "returned"}

\* A callback here has put nothing on the wire.
Silent == {"none", "check", "build", "submit", "latch", "send", "takeback", "tb_submitted", "tb_completed", "tb_clear"}

\* A callback here is inside of rig_callback: Leave has not been run.
Inside == Where \ {"none", "left", "returned"}

Attempt ==
    [thread : Threads \cup {"none"}, overlap : BOOLEAN, later : BOOLEAN, same : BOOLEAN, returned0 : BOOLEAN,
     guarded : BOOLEAN, wire : {"none", "partial", "sent", "tokenless"}, qualified : BOOLEAN, injected : BOOLEAN]

Types ==
    /\ pc \in [Calls -> Where] /\ at \in [Calls -> Attempt]
    /\ invocations \in 0..MaxCalls /\ active \in Int /\ submitted \in Int /\ completed \in Int
    /\ unknown \in BOOLEAN /\ evidence_lost \in BOOLEAN /\ attempts \in Seq(Calls)
    /\ guard \in BOOLEAN

\* What the place of a callback says about its record.
Local(i) ==
    /\ pc[i] \in Silent => at[i].wire = "none"
    /\ at[i].qualified => at[i].wire = "sent"
    /\ pc[i] \in {"q_test", "q_count", "q_clear"} => at[i].qualified
    /\ pc[i] = "receive" => ~at[i].qualified
    /\ pc[i] = "none" <=> i >= invocations
    /\ guard /\ i >= 1 => pc[i] \in {"none", "check", "leave", "left", "returned"} /\ at[i].wire = "none"

\* What the records kept for the verdict say about the invocations.
Witnessed ==
    /\ \A k \in 1..Len(attempts) : attempts[k] < invocations
    /\ \A i \in Calls :
          /\ at[i].guarded => i >= 1
          /\ at[i].injected => i = 0
          /\ i >= 1 /\ i < invocations /\ at[i].thread = at[0].thread => at[i].returned0

Own == {i \in Calls : at[i].wire # "none" \/ pc[i] \in {"latch", "send", "takeback"}}
Qualified == {i \in Calls : at[i].qualified /\ pc[i] \notin {"q_test", "q_count"}}

\* What the counters promise.
Counters == Cardinality(Own) <= submitted /\ completed <= Cardinality(Qualified)

\* What is settled at each place of exp_single_get.
Phases ==
    /\ exp \in {"setup", "get", "gate", "read", "release", "judge", "done"}
    /\ exp = "setup" => invocations = 0
    /\ exp # "get" => \A i \in Calls : pc[i] \in {"none", "returned"}
    /\ exp \in {"setup", "get", "gate"} => ~read /\ fixture # "released"
    /\ exp \in {"read", "release", "judge"} => InFlight = {}
    /\ exp \in {"release", "judge"} => seen = [digest |-> landing, intact |-> intact]
    /\ exp = "judge" => fixture = "released"
    /\ verdict = "PASS" => exp = "done"
    /\ landing = "object" => Emitted # {}

\* The inductive invariant of the safety properties.
RInv ==
    /\ Types /\ (\A i \in Calls : Local(i)) /\ Witnessed /\ Counters /\ Phases
    /\ NoUseInFlight /\ PassEarned

InsideSet == {i \in Calls : pc[i] \in Inside}

\* The inductive invariant of the latch: as long as no callback has met another one
\* inside, the latch is set whenever a request is in flight, and a callback that has
\* passed the check is alone with its own request.
Alone ==
    /\ \A i, j \in InsideSet : i = j
    /\ InFlight # {} => unknown
    /\ \A i \in Calls :
          /\ pc[i] = "send" => unknown
          /\ pc[i] \in {"build", "submit", "latch", "send", "takeback", "tb_submitted", "tb_completed", "tb_clear",
                        "q_count", "q_clear"} => InFlight = {}
          /\ pc[i] \in {"receive", "q_test"} => InFlight \subseteq {i}
    /\ 0 \in InsideSet /\ pc[0] = "check" => InFlight = {}

Sequential == \A j \in Calls : ~at[j].overlap

SInv ==
    /\ active = Cardinality(InsideSet)
    /\ \A i \in Calls : pc[i] = "none" => ~at[i].overlap
    /\ Sequential => Alone

-----------------------------------------------------------------------------
(* A step of a callback. *)

\* What every step of a callback has in common: it moves itself only, forward, keeps
\* who it is, and never takes back what it sent or received.
Moved(i) ==
    /\ \A j \in Calls : j # i => pc'[j] = pc[j] /\ at'[j] = at[j]
    /\ pc[i] \notin {"none", "returned"} /\ pc'[i] # "none"
    /\ at'[i].thread = at[i].thread /\ at'[i].overlap = at[i].overlap /\ at'[i].returned0 = at[i].returned0
    /\ at[i].wire # "none" => at'[i].wire = at[i].wire
    /\ at[i].qualified => at'[i].qualified
    /\ at'[i].guarded => at[i].guarded \/ i >= 1
    /\ at'[i].injected => i = 0
    /\ landing' = landing
    /\ attempts' = attempts \/ attempts' = Append(attempts, i)
    /\ UNCHANGED <<invocations, guard, exp, sdk, fixture, read, seen, verdict, intact, output_failed>>

\* A push keeps the types.
LEMMA PushTypes ==
    ASSUME Types, NEW i \in Calls, Push(i)
    PROVE  /\ attempts' \in Seq(Calls) /\ evidence_lost' \in BOOLEAN
           /\ attempts' = attempts \/ attempts' = Append(attempts, i)
<1>1. Append(attempts, i) \in Seq(Calls)
  BY DEF Types
<1>2. attempts \in Seq(Calls) /\ evidence_lost \in BOOLEAN
  BY Zenon DEF Types
<1> QED
  BY <1>1, <1>2, Zenon DEF Push

\* Each step is of that form, and keeps the types.
LEMMA CallbackMoves ==
    ASSUME Types, NEW i \in Calls, Callback(i), Local(i), at[i].injected => i = 0
    PROVE  Types' /\ Moved(i)
<1>0. at[i] \in Attempt /\ at \in [Calls -> Attempt]
  BY Zenon DEF Types
<1>1. CASE Check(i)
  <2>1. \/ at' = at
        \/ i >= 1 /\ at' = [at EXCEPT ![i] = [at[i] EXCEPT !.guarded = TRUE]]
    BY <1>1, Zenon DEF Check, Guarded
  <2>2. [at[i] EXCEPT !.guarded = TRUE] \in Attempt
    BY <1>0, Zenon DEF Attempt
  <2>3. at' \in [Calls -> Attempt]
    BY <1>0, <2>1, <2>2, Zenon
  <2>4. Types'
    <3>1. attempts' \in Seq(Calls) /\ evidence_lost' \in BOOLEAN
      BY <1>1, PushTypes, Zenon DEF Check, Types
    <3>2. pc' \in [Calls -> Where]
      BY <1>1, Zenon DEF Types, Check, Goto, Where
    <3> QED
      BY <1>1, <2>3, <3>1, <3>2, Zenon DEF Types, Check
  <2> QED
    BY <1>0, <1>1, <2>1, <2>4, PushTypes DEF Types, Moved, Check, Goto, Attempt, expVars
<1>2. CASE Build(i)
  <2>1. attempts' \in Seq(Calls) /\ evidence_lost' \in BOOLEAN
    BY <1>2, PushTypes, Zenon DEF Build, Types
  <2>2. pc' \in [Calls -> Where]
    BY <1>2, Zenon DEF Types, Build, Goto, Where
  <2>3. Types'
    BY <1>2, <2>1, <2>2, Zenon DEF Types, Build
  <2> QED
    BY <1>2, <2>3, PushTypes, Zenon DEF Types, Moved, Build, Goto, expVars
<1>3. CASE Submit(i)
  BY <1>3 DEF Types, Moved, Submit, Goto, Where, Attempt, ctxVars, expVars
<1>4. CASE Latch(i)
  BY <1>4, Zenon DEF Types, Moved, Latch, Goto, Where, Attempt, ctxVars, expVars
<1>5. CASE Send(i)
  <2>1. \/ at' = at
        \/ \E w \in {"partial", "sent", "tokenless"} : at' = [at EXCEPT ![i] = [at[i] EXCEPT !.wire = w]]
    BY <1>5, Zenon DEF Send
  <2>2. \A w \in {"partial", "sent", "tokenless"} : [at[i] EXCEPT !.wire = w] \in Attempt
    BY <1>0, Zenon DEF Attempt
  <2>3. at' \in [Calls -> Attempt]
    BY <1>0, <2>1, <2>2, Zenon
  <2>4. Types'
    BY <1>5, <2>3, Zenon DEF Types, Send, Goto, Where, expVars
  <2>5. pc[i] = "send" /\ at[i].wire = "none"
    BY <1>5, Zenon DEF Send, Local, Silent
  <2> QED
    BY <1>0, <1>5, <2>1, <2>4, <2>5 DEF Types, Moved, Send, Goto, Attempt, expVars
<1>6. CASE TakeBack(i)
  BY <1>6 DEF Types, Moved, TakeBack, Goto, Where, Attempt, ctxVars, expVars
<1>7. CASE LoadSubmitted(i)
  BY <1>7, Zenon DEF Types, Moved, LoadSubmitted, Goto, Where, Attempt, ctxVars, expVars
<1>8. CASE LoadCompleted(i)
  BY <1>8, Zenon DEF Types, Moved, LoadCompleted, Goto, Where, Attempt, ctxVars, expVars
<1>9. CASE Receive(i)
  <2>1. \/ at' = at
        \/ at' = [at EXCEPT ![i] = [at[i] EXCEPT !.qualified = TRUE]]
    BY <1>9, Zenon DEF Receive
  <2>2. [at[i] EXCEPT !.qualified = TRUE] \in Attempt
    BY <1>0, Zenon DEF Attempt
  <2>3. at' \in [Calls -> Attempt]
    BY <1>0, <2>1, <2>2, Zenon
  <2>4. Types'
    BY <1>9, <2>3, Zenon DEF Types, Receive, Goto, Where, ctxVars, expVars
  <2> QED
    BY <1>0, <1>9, <2>1, <2>4 DEF Types, Moved, Receive, Goto, Attempt, ctxVars, expVars
<1>10. CASE TestSingle(i)
  BY <1>10, Zenon DEF Types, Moved, TestSingle, Goto, Where, Attempt, ctxVars, expVars
<1>11. CASE CountCompleted(i)
  BY <1>11 DEF Types, Moved, CountCompleted, Goto, Where, Attempt, ctxVars, expVars
<1>12. CASE ClearUnknown(i)
  BY <1>12, Zenon DEF Types, Moved, ClearUnknown, Goto, Where, Attempt, ctxVars, expVars
<1>13. CASE Record(i)
  <2>1. PICK b \in BOOLEAN :
          (b => i = 0) /\ at' = [at EXCEPT ![i] = [at[i] EXCEPT !.injected = b]]
    BY <1>0, <1>13, Zenon DEF Record
  <2>2. [at[i] EXCEPT !.injected = b] \in Attempt
    BY <1>0, Zenon DEF Attempt
  <2>3. at' \in [Calls -> Attempt]
    BY <1>0, <2>1, <2>2, Zenon
  <2>4. Types'
    <3>1. attempts' \in Seq(Calls) /\ evidence_lost' \in BOOLEAN
      BY <1>13, PushTypes, Zenon DEF Record
    <3>2. pc' \in [Calls -> Where]
      BY <1>13, Zenon DEF Types, Record, Goto, Where
    <3> QED
      BY <1>13, <2>3, <3>1, <3>2, Zenon DEF Types, Record
  <2>5. /\ at'[i].thread = at[i].thread /\ at'[i].overlap = at[i].overlap /\ at'[i].returned0 = at[i].returned0
        /\ at'[i].wire = at[i].wire /\ at'[i].qualified = at[i].qualified /\ at'[i].guarded = at[i].guarded
    BY <1>0, <2>1 DEF Attempt
  <2>6. at'[i].injected => i = 0
    <3>1. at'[i].injected = b
      BY <1>0, <2>1 DEF Attempt
    <3> QED
      BY <2>1, <3>1, Zenon
  <2>7. /\ \A j \in Calls : j # i => pc'[j] = pc[j] /\ at'[j] = at[j]
        /\ pc[i] \notin {"none", "returned"} /\ pc'[i] # "none"
    BY <1>0, <1>13, <2>1 DEF Record, Goto
  <2>8. /\ landing' = landing /\ (attempts' = attempts \/ attempts' = Append(attempts, i))
        /\ UNCHANGED <<invocations, guard, exp, sdk, fixture, read, seen, verdict, intact, output_failed>>
    BY <1>13, PushTypes, Zenon DEF Record, Push, expVars
  <2> QED
    BY <2>4, <2>5, <2>6, <2>7, <2>8, Zenon DEF Moved
<1>14. CASE Throw(i)
  BY <1>14, Zenon DEF Types, Moved, Throw, Goto, Where, Attempt, ctxVars, expVars
<1>15. CASE Leave(i)
  BY <1>15 DEF Types, Moved, Leave, Goto, Where, Attempt, ctxVars, expVars
<1>16. CASE Return(i)
  BY <1>16, Zenon DEF Types, Moved, Return, Goto, Where, Attempt, ctxVars, expVars
<1> QED
  BY <1>1, <1>2, <1>3, <1>4, <1>5, <1>6, <1>7, <1>8, <1>9, <1>10, <1>11, <1>12, <1>13, <1>14, <1>15, <1>16, Zenon DEF Callback

SameRecord(i) == at'[i].wire = at[i].wire /\ at'[i].qualified = at[i].qualified
SameCounters == submitted' = submitted /\ completed' = completed

\* What a step does to the place, the request, the counters and the latch.
Effect(i) ==
    LET from(P, q) == pc[i] \in P /\ pc'[i] = q
    IN  \/ /\ SameRecord(i) /\ SameCounters /\ unknown' = unknown /\ active' = active
           /\ \/ from({"check"}, "build") /\ ~Guarded(i)
              \/ from({"check", "build", "push"}, "leave")
              \/ from({"build"}, "submit") \/ from({"send"}, "takeback")
              \/ from({"tb_submitted"}, "tb_completed") \/ from({"tb_completed"}, "tb_clear")
              \/ from({"tb_completed", "receive", "q_test"}, "push")
              \/ from({"q_test"}, "q_count") \/ from({"left"}, "returned")
        \/ /\ from({"submit"}, "latch")
           /\ SameRecord(i) /\ submitted' = submitted + 1 /\ UNCHANGED <<completed, unknown, active>>
        \/ /\ from({"latch"}, "send")
           /\ SameRecord(i) /\ SameCounters /\ unknown' /\ active' = active
        \/ /\ from({"send"}, "receive") /\ at'[i].wire # "none" /\ at'[i].qualified = at[i].qualified
           /\ SameCounters /\ UNCHANGED <<unknown, active>>
        \/ /\ from({"takeback"}, "tb_submitted")
           /\ SameRecord(i) /\ submitted' = submitted - 1 /\ UNCHANGED <<completed, unknown, active>>
        \/ /\ from({"receive"}, "q_test") /\ at[i].wire = "sent" /\ at'[i].wire = "sent" /\ at'[i].qualified
           /\ SameCounters /\ UNCHANGED <<unknown, active>>
        \/ /\ from({"q_count"}, "q_clear")
           /\ SameRecord(i) /\ completed' = completed + 1 /\ UNCHANGED <<submitted, unknown, active>>
        \/ /\ from({"q_clear", "tb_clear"}, "push")
           /\ SameRecord(i) /\ SameCounters /\ active' = active
        \/ /\ from({"send", "receive", "q_test", "push"}, "leave")
           /\ SameRecord(i) /\ SameCounters /\ (unknown => unknown') /\ active' = active
        \/ /\ from({"leave"}, "left")
           /\ SameRecord(i) /\ SameCounters /\ unknown' = unknown /\ active' = active - 1

\* Each step is one of those.
LEMMA CallbackEffect ==
    ASSUME Types, NEW i \in Calls, Callback(i)
    PROVE  Effect(i)
<1>0. at[i] \in Attempt /\ at \in [Calls -> Attempt] /\ pc \in [Calls -> Where]
  BY Zenon DEF Types
<1>1. CASE Check(i)
  BY <1>0, <1>1 DEF Effect, SameRecord, SameCounters, Check, Goto, Attempt
<1>2. CASE Build(i)
  BY <1>0, <1>2, Zenon DEF Effect, SameRecord, SameCounters, Build, Goto, Attempt
<1>3. CASE Submit(i)
  BY <1>0, <1>3, Zenon DEF Effect, SameRecord, SameCounters, Submit, Goto, Attempt
<1>4. CASE Latch(i)
  BY <1>0, <1>4, Zenon DEF Effect, SameRecord, SameCounters, Latch, Goto, Attempt
<1>5. CASE Send(i)
  BY <1>0, <1>5 DEF Effect, SameRecord, SameCounters, Send, Goto, Attempt
<1>6. CASE TakeBack(i)
  BY <1>0, <1>6, Zenon DEF Effect, SameRecord, SameCounters, TakeBack, Goto, Attempt
<1>7. CASE LoadSubmitted(i)
  BY <1>0, <1>7, Zenon DEF Effect, SameRecord, SameCounters, LoadSubmitted, Goto, Attempt, ctxVars
<1>8. CASE LoadCompleted(i)
  BY <1>0, <1>8, Zenon DEF Effect, SameRecord, SameCounters, LoadCompleted, Goto, Attempt, ctxVars
<1>9. CASE Receive(i)
  BY <1>0, <1>9 DEF Effect, SameRecord, SameCounters, Receive, Goto, Attempt, ctxVars
<1>10. CASE TestSingle(i)
  BY <1>0, <1>10, Zenon DEF Effect, SameRecord, SameCounters, TestSingle, Goto, Attempt, ctxVars
<1>11. CASE CountCompleted(i)
  BY <1>0, <1>11, Zenon DEF Effect, SameRecord, SameCounters, CountCompleted, Goto, Attempt
<1>12. CASE ClearUnknown(i)
  BY <1>0, <1>12, Zenon DEF Effect, SameRecord, SameCounters, ClearUnknown, Goto, Attempt
<1>13. CASE Record(i)
  BY <1>0, <1>13, Zenon DEF Effect, SameRecord, SameCounters, Record, Goto, Attempt
<1>14. CASE Throw(i)
  BY <1>0, <1>14, Zenon DEF Effect, SameRecord, SameCounters, Throw, Goto, Attempt
<1>15. CASE Leave(i)
  BY <1>0, <1>15, Zenon DEF Effect, SameRecord, SameCounters, Leave, Goto, Attempt
<1>16. CASE Return(i)
  BY <1>0, <1>16, Zenon DEF Effect, SameRecord, SameCounters, Return, Goto, Attempt, ctxVars
<1> QED
  BY <1>1, <1>2, <1>3, <1>4, <1>5, <1>6, <1>7, <1>8, <1>9, <1>10, <1>11, <1>12, <1>13, <1>14, <1>15, <1>16, Zenon DEF Callback

\* Hence the place of every callback goes on to fit its record.
LEMMA CallbackLocal ==
    ASSUME Types, NEW i \in Calls, Callback(i), \A j \in Calls : Local(j), at[i].injected => i = 0
    PROVE  \A j \in Calls : Local(j)'
<1>1. Types' /\ Moved(i) /\ Effect(i) /\ Local(i)
  BY CallbackMoves, CallbackEffect, Zenon
<1>2. \A j \in Calls : j # i => Local(j)'
  <2> SUFFICES ASSUME NEW j \in Calls, j # i PROVE Local(j)'
    BY Zenon
  <2>1. pc'[j] = pc[j] /\ at'[j] = at[j] /\ invocations' = invocations /\ guard' = guard
    BY <1>1, Zenon DEF Moved
  <2>2. Local(j)
    BY Zenon
  <2> QED
    BY <2>1, <2>2, Zenon DEF Local
<1>3. i \in Nat /\ invocations' = invocations /\ invocations \in Nat /\ guard' = guard
  BY <1>1 DEF Moved, Types, Calls
<1>4. /\ pc'[i] \in Silent => at'[i].wire = "none"
      /\ at'[i].qualified => at'[i].wire = "sent"
      /\ pc'[i] \in {"q_test", "q_count", "q_clear"} => at'[i].qualified
      /\ pc'[i] = "receive" => ~at'[i].qualified
  BY <1>1, Zenon DEF Effect, SameRecord, Local, Silent
<1>5. pc'[i] = "none" <=> i >= invocations'
  BY <1>1, <1>3, Zenon DEF Moved, Local
<1>6. guard' /\ i >= 1 => pc'[i] \in {"none", "check", "leave", "left", "returned"} /\ at'[i].wire = "none"
  BY <1>1, <1>3, Zenon DEF Effect, SameRecord, Local, Guarded
<1> QED
  BY <1>2, <1>4, <1>5, <1>6, Zenon DEF Local

-----------------------------------------------------------------------------
(* The counters. *)

\* There are finitely many calls.
LEMMA CallsFinite ==
    ASSUME RigAssumption
    PROVE  IsFiniteSet(Calls) /\ Calls \subseteq Nat /\ 0 \in Calls
<1>1. MaxCalls - 1 \in Nat
  BY DEF RigAssumption
<1>2. IsFiniteSet(0..(MaxCalls - 1))
  BY <1>1, FS_Interval
<1> QED
  BY <1>1, <1>2 DEF Calls

\* So are the requests and the receipts, before and after a step.
LEMMA RequestsFinite ==
    ASSUME RigAssumption
    PROVE  /\ IsFiniteSet(Own) /\ IsFiniteSet(Qualified) /\ IsFiniteSet(InsideSet) /\ IsFiniteSet(Emitted)
           /\ Cardinality(Own) \in Nat /\ Cardinality(Qualified) \in Nat /\ Cardinality(InsideSet) \in Nat
<1>1. Own \subseteq Calls /\ Qualified \subseteq Calls /\ InsideSet \subseteq Calls /\ Emitted \subseteq Calls
  BY Zenon DEF Own, Qualified, InsideSet, Emitted
<1>2. IsFiniteSet(Own) /\ IsFiniteSet(Qualified) /\ IsFiniteSet(InsideSet) /\ IsFiniteSet(Emitted)
  BY <1>1, CallsFinite, FS_Subset, Zenon
<1> QED
  BY <1>2, FS_CardinalityType, Zenon

LEMMA RequestsFinitePrimed ==
    ASSUME RigAssumption
    PROVE  /\ IsFiniteSet(Own') /\ IsFiniteSet(Qualified') /\ IsFiniteSet(InsideSet') /\ IsFiniteSet(Emitted')
           /\ Cardinality(Own') \in Nat /\ Cardinality(Qualified') \in Nat /\ Cardinality(InsideSet') \in Nat
<1>1. Own' \subseteq Calls /\ Qualified' \subseteq Calls /\ InsideSet' \subseteq Calls /\ Emitted' \subseteq Calls
  BY Zenon DEF Own, Qualified, InsideSet, Emitted, Calls
<1>2. IsFiniteSet(Own') /\ IsFiniteSet(Qualified') /\ IsFiniteSet(InsideSet') /\ IsFiniteSet(Emitted')
  BY <1>1, CallsFinite, FS_Subset, Zenon
<1> QED
  BY <1>2, FS_CardinalityType, Zenon

\* What a step of a callback does to submitted and to the requests it stands for.
LEMMA OwnMoves ==
    ASSUME RigAssumption, Types, NEW i \in Calls, Callback(i), \A j \in Calls : Local(j),
           at[i].injected => i = 0
    PROVE  /\ pc[i] = "submit" => submitted' = submitted + 1 /\ Cardinality(Own') = Cardinality(Own) + 1
           /\ pc[i] = "takeback" => submitted' = submitted - 1 /\ Cardinality(Own') = Cardinality(Own) - 1
           /\ pc[i] \notin {"submit", "takeback"} => submitted' = submitted /\ Own' \subseteq Own
           /\ pc[i] \notin {"submit", "takeback"} /\ pc'[i] # "leave" => Own' = Own
           /\ pc[i] \notin {"submit", "takeback", "send"} => Own' = Own
<1>1. Types' /\ Moved(i) /\ Effect(i) /\ Local(i) /\ Local(i)'
  BY CallbackMoves, CallbackEffect, CallbackLocal, Zenon
<1>2. \A j \in Calls : j # i => (j \in Own' <=> j \in Own)
  BY <1>1, Zenon DEF Moved, Own
<1>3. Own \subseteq Calls /\ Own' \subseteq Calls
  BY Zenon DEF Own, Calls
<1>4. CASE pc[i] = "submit"
  <2>1. i \notin Own /\ i \in Own' /\ submitted' = submitted + 1
    BY <1>1, <1>4, Zenon DEF Effect, SameRecord, Local, Own, Silent
  <2>2. Own' = Own \cup {i}
    BY <1>2, <1>3, <2>1, Zenon
  <2>3. Cardinality(Own') = Cardinality(Own) + 1
    BY <2>1, <2>2, RequestsFinite, FS_AddElement, Zenon
  <2> QED
    BY <1>4, <2>1, <2>3, Zenon
<1>5. CASE pc[i] = "takeback"
  <2>1. i \in Own /\ i \notin Own' /\ submitted' = submitted - 1
    BY <1>1, <1>5, Zenon DEF Effect, SameRecord, Local, Own, Silent
  <2>2. Own' = Own \ {i}
    BY <1>2, <1>3, <2>1, Zenon
  <2>3. Cardinality(Own') = Cardinality(Own) - 1
    BY <2>1, <2>2, RequestsFinite, FS_RemoveElement, Zenon
  <2> QED
    BY <1>5, <2>1, <2>3, Zenon
<1>6. CASE pc[i] \notin {"submit", "takeback"}
  <2>1. submitted' = submitted
    BY <1>1, <1>6, Zenon DEF Effect, SameCounters
  <2>2. at'[i].wire = at[i].wire \/ (pc[i] = "send" /\ at'[i].wire # "none")
    BY <1>1, <1>6, Zenon DEF Effect, SameRecord
  <2>3. /\ pc'[i] \in {"latch", "send", "takeback"} => pc[i] \in {"latch", "send"}
        /\ pc[i] = "latch" => pc'[i] = "send"
        /\ pc[i] = "send" => pc'[i] \in {"takeback", "leave"} \/ at'[i].wire # "none"
    BY <1>1, <1>6, Zenon DEF Effect
  <2>4. i \in Own' => i \in Own
    BY <2>2, <2>3, Zenon DEF Own
  <2>5. pc'[i] # "leave" \/ pc[i] # "send" => (i \in Own => i \in Own')
    <3>1. i \in Own => at[i].wire # "none" \/ pc[i] = "latch" \/ pc[i] = "send"
      BY <1>6, Zenon DEF Own
    <3>2. at'[i].wire # "none" \/ pc'[i] = "send" \/ pc'[i] = "takeback" => i \in Own'
      BY Zenon DEF Own
    <3> QED
      BY <2>2, <2>3, <3>1, <3>2, Zenon
  <2>6. Own' \subseteq Own /\ (pc'[i] # "leave" \/ pc[i] # "send" => Own \subseteq Own')
    BY <1>2, <1>3, <2>4, <2>5, Zenon
  <2> QED
    BY <1>6, <2>1, <2>6, Zenon
<1> QED
  BY <1>4, <1>5, <1>6, Zenon

\* A step of a callback keeps what the counters promise.
LEMMA CallbackCounters ==
    ASSUME RigAssumption, Types, NEW i \in Calls, Callback(i), \A j \in Calls : Local(j),
           at[i].injected => i = 0, Counters
    PROVE  Counters'
<1>1. Types' /\ Moved(i) /\ Effect(i) /\ Local(i) /\ Local(i)'
  BY CallbackMoves, CallbackEffect, CallbackLocal, Zenon
<1>2. submitted \in Int /\ completed \in Int
  BY Zenon DEF Types
<1>3. \A j \in Calls : j # i => (j \in Qualified' <=> j \in Qualified)
  BY <1>1, Zenon DEF Moved, Qualified
<1>4. Qualified \subseteq Calls /\ Qualified' \subseteq Calls
  BY Zenon DEF Qualified, Calls
<1>5. Cardinality(Own') <= submitted'
  <2>1. CASE pc[i] \in {"submit", "takeback"}
    BY <1>2, <2>1, OwnMoves, RequestsFinite DEF Counters
  <2>2. CASE pc[i] \notin {"submit", "takeback"}
    <3>1. Own' \subseteq Own /\ submitted' = submitted
      BY <2>2, OwnMoves, Zenon
    <3>2. Cardinality(Own') <= Cardinality(Own)
      BY <3>1, RequestsFinite, FS_Subset, Zenon
    <3> QED
      BY <1>2, <3>1, <3>2, RequestsFinite, RequestsFinitePrimed DEF Counters
  <2> QED
    BY <2>1, <2>2, Zenon
<1>6. completed' <= Cardinality(Qualified')
  <2>1. CASE pc[i] = "q_count"
    <3>1. i \notin Qualified /\ i \in Qualified' /\ completed' = completed + 1
      BY <1>1, <2>1, Zenon DEF Effect, SameRecord, Local, Qualified
    <3>2. Qualified' = Qualified \cup {i}
      BY <1>3, <1>4, <3>1, Zenon
    <3>3. Cardinality(Qualified') = Cardinality(Qualified) + 1
      BY <3>1, <3>2, RequestsFinite, FS_AddElement, Zenon
    <3> QED
      BY <1>2, <3>1, <3>3, RequestsFinite DEF Counters
  <2>2. CASE pc[i] # "q_count"
    <3>1. (i \in Qualified => i \in Qualified') /\ completed' = completed
      BY <1>1, <2>2, Zenon DEF Effect, SameRecord, SameCounters, Local, Qualified, Silent
    <3>2. Qualified \subseteq Qualified'
      BY <1>3, <1>4, <3>1, Zenon
    <3>3. Cardinality(Qualified) <= Cardinality(Qualified')
      BY <3>2, RequestsFinitePrimed, FS_Subset, Zenon
    <3> QED
      BY <1>2, <3>1, <3>3, RequestsFinite, RequestsFinitePrimed DEF Counters
  <2> QED
    BY <2>1, <2>2, Zenon
<1> QED
  BY <1>5, <1>6, Zenon DEF Counters

\* The counters are never the wrong way round, and differ while a callback is on its way
\* to the wire.
LEMMA CountersApart ==
    ASSUME RigAssumption, Types, \A j \in Calls : Local(j), Counters
    PROVE  /\ Qualified \subseteq Own /\ Cardinality(Qualified) <= Cardinality(Own) /\ completed <= submitted
           /\ \A i \in Calls : pc[i] \in {"latch", "send", "takeback"} => completed < submitted
<1>1. submitted \in Int /\ completed \in Int /\ Cardinality(Own) <= submitted /\ completed <= Cardinality(Qualified)
  BY Zenon DEF Types, Counters
<1>2. Qualified \subseteq Own
  BY Zenon DEF Qualified, Own, Local
<1>3. Cardinality(Qualified) <= Cardinality(Own)
  BY <1>2, RequestsFinite, FS_Subset, Zenon
<1>4. ASSUME NEW i \in Calls, pc[i] \in {"latch", "send", "takeback"}
      PROVE  completed < submitted
  <2>1. i \in Own /\ i \notin Qualified
    BY <1>4, Zenon DEF Own, Qualified, Local, Silent
  <2>2. Qualified \subseteq Own /\ Qualified # Own
    BY <1>2, <2>1, Zenon
  <2>3. Cardinality(Qualified) < Cardinality(Own)
    BY <1>3, <2>2, RequestsFinite, FS_Subset
  <2> QED
    BY <1>1, <2>3, RequestsFinite
<1> QED
  BY <1>1, <1>2, <1>3, <1>4, RequestsFinite

\* With equal counters every request on the wire has its receipt.
LEMMA EqualSound ==
    ASSUME RigAssumption, Types, \A j \in Calls : Local(j), Counters, completed = submitted
    PROVE  InFlight = {}
<1>1. Cardinality(Own) = Cardinality(Qualified)
  BY CountersApart, RequestsFinite DEF Types, Counters
<1>2. Own = Qualified
  BY <1>1, CountersApart, RequestsFinite, FS_Subset, Zenon
<1> QED
  BY <1>2, Zenon DEF Own, Qualified, InFlight, Emitted

\* Where the gate opens, nothing is in flight: the counters are equal, or nothing was
\* submitted and so no request is on the wire.
LEMMA GateSound ==
    ASSUME RigAssumption, Types, \A j \in Calls : Local(j), Counters, ~Hold
    PROVE  InFlight = {}
<1>1. CASE submitted > 0
  BY <1>1, EqualSound, Zenon DEF Hold
<1>2. CASE ~(submitted > 0)
  <2>1. Cardinality(Own) = 0
    BY <1>2, RequestsFinite DEF Types, Counters
  <2>2. Own = {}
    BY <2>1, RequestsFinite, FS_EmptySet, Zenon
  <2> QED
    BY <2>2, Zenon DEF Own, InFlight, Emitted
<1> QED
  BY <1>1, <1>2, Zenon

-----------------------------------------------------------------------------
(* Every step keeps the invariant. *)

LEMMA InitRInv == RigAssumption /\ Init => RInv
<1> SUFFICES ASSUME RigAssumption, Init PROVE RInv
  BY Zenon
<1>1. NoAttempt \in Attempt /\ NoAttempt.wire = "none" /\ NoAttempt.qualified = FALSE
      /\ NoAttempt.guarded = FALSE /\ NoAttempt.injected = FALSE
  BY Zenon DEF NoAttempt, Attempt
<1>2. \A i \in Calls : i \in Nat /\ pc[i] = "none" /\ at[i] = NoAttempt
  BY CallsFinite, Zenon DEF Init
<1>3. Types
  <2>1. <<>> \in Seq(Calls) /\ guard \in BOOLEAN /\ 0 \in 0..MaxCalls
    BY DEF Init, RigAssumption
  <2>2. pc \in [Calls -> Where] /\ at \in [Calls -> Attempt]
    BY <1>1, Zenon DEF Init, Where
  <2>3. invocations \in 0..MaxCalls /\ active \in Int /\ submitted \in Int /\ completed \in Int
    BY <2>1 DEF Init
  <2>4. unknown \in BOOLEAN /\ evidence_lost \in BOOLEAN /\ attempts \in Seq(Calls)
    BY <2>1, Zenon DEF Init
  <2> QED
    BY <2>1, <2>2, <2>3, <2>4, Zenon DEF Types
<1>4. \A i \in Calls : Local(i)
  BY <1>1, <1>2 DEF Init, Local
<1>5. Witnessed
  BY <1>1, <1>2 DEF Init, Witnessed
<1>6. Own = {} /\ Qualified = {} /\ Emitted = {} /\ InFlight = {}
  BY <1>1, <1>2, Zenon DEF Own, Qualified, Emitted, InFlight
<1>7. Counters
  BY <1>6, FS_EmptySet DEF Init, Counters
<1> QED
  BY <1>2, <1>3, <1>4, <1>5, <1>6, <1>7, Zenon DEF Init, RInv, Phases, NoUseInFlight, PassEarned

\* A new callback, which has sent nothing.
LEMMA EnterRInv ==
    ASSUME RigAssumption, RInv, NEW t \in Threads, Enter(t)
    PROVE  RInv'
<1> DEFINE i == invocations
<1>1. Types /\ (\A j \in Calls : Local(j)) /\ Witnessed /\ Counters /\ Phases
  BY Zenon DEF RInv
<1>2. i \in Calls /\ i \in Nat /\ exp = "get"
  BY <1>1 DEF Enter, Types, Calls, RigAssumption
<1> DEFINE met == active > 0
           back == i > 0 /\ pc[0] = "returned"
<1>3. PICK later \in BOOLEAN, same \in BOOLEAN :
        at' = [at EXCEPT ![i] = [NoAttempt EXCEPT !.thread = t, !.overlap = met, !.later = later,
                                                  !.same = same, !.returned0 = back]]
  BY Zenon DEF Enter
<1> DEFINE a == [NoAttempt EXCEPT !.thread = t, !.overlap = met, !.later = later,
                                  !.same = same, !.returned0 = back]
<1>4. /\ a \in Attempt /\ a.wire = "none" /\ a.qualified = FALSE /\ a.guarded = FALSE /\ a.injected = FALSE
      /\ a.thread = t /\ a.returned0 = back
  <2>1. met \in BOOLEAN /\ back \in BOOLEAN
    OBVIOUS
  <2> HIDE DEF met, back
  <2>2. a \in Attempt
    BY <2>1, Zenon DEF NoAttempt, Attempt
  <2>3. a.wire = "none" /\ a.qualified = FALSE /\ a.guarded = FALSE
    BY <2>1, Zenon DEF NoAttempt
  <2>4. a.injected = FALSE /\ a.thread = t /\ a.returned0 = back
    BY <2>1, Zenon DEF NoAttempt
  <2> QED
    BY <2>2, <2>3, <2>4, Zenon
<1> HIDE DEF a
<1>5. /\ at' = [at EXCEPT ![i] = a] /\ at \in [Calls -> Attempt] /\ at' \in [Calls -> Attempt]
      /\ pc' = [pc EXCEPT ![i] = "check"] /\ pc \in [Calls -> Where] /\ pc' \in [Calls -> Where]
  BY <1>1, <1>2, <1>3, <1>4, Zenon DEF a, Enter, Goto, Types, Where
<1>6. /\ invocations' = i + 1 /\ active' = active + 1 /\ i < MaxCalls
      /\ \A j \in 0..(i - 1) : at[j].thread = t => pc[j] = "returned"
      /\ UNCHANGED <<submitted, completed, unknown, evidence_lost, attempts, guard,
                     exp, fixture, read, seen, verdict, landing, intact, output_failed>>
  BY Zenon DEF Enter, expVars
<1>7. /\ at'[i] = a /\ pc'[i] = "check" /\ pc[i] = "none" /\ at[i].wire = "none" /\ ~at[i].qualified
      /\ \A j \in Calls : j # i => at'[j] = at[j] /\ pc'[j] = pc[j]
  BY <1>1, <1>2, <1>5 DEF Local, Silent
<1>8. Types'
  <2>1. invocations' \in 0..MaxCalls
    BY <1>2, <1>6, RigAssumption
  <2>2. active' \in Int
    BY <1>1, <1>6 DEF Types
  <2> QED
    BY <1>1, <1>5, <1>6, <2>1, <2>2, Zenon DEF Types
<1>9. \A j \in Calls : Local(j)'
  <2> SUFFICES ASSUME NEW j \in Calls PROVE Local(j)'
    BY Zenon
  <2>1. j \in Nat /\ Local(j)
    BY <1>1, CallsFinite, Zenon
  <2>2. CASE j = i
    <3>1. ~(j >= invocations')
      BY <1>2, <1>6, <2>2
    <3>2. pc'[j] = "check" /\ at'[j].wire = "none" /\ at'[j].qualified = FALSE
      BY <1>4, <1>7, <2>2, Zenon
    <3> QED
      BY <3>1, <3>2, Zenon DEF Local
  <2>3. CASE j # i
    <3>1. (j >= invocations') <=> (j >= invocations)
      BY <1>2, <1>6, <2>1, <2>3
    <3>2. pc'[j] = pc[j] /\ at'[j] = at[j] /\ guard' = guard
      BY <1>6, <1>7, <2>3, Zenon
    <3> QED
      BY <2>1, <3>1, <3>2, Zenon DEF Local
  <2> QED
    BY <2>2, <2>3, Zenon
<1>10. Witnessed'
  <2>1. \A k \in 1..Len(attempts') : attempts'[k] < invocations'
    <3>1. \A k \in 1..Len(attempts) : attempts[k] \in Nat /\ attempts[k] < i
      BY <1>1, CallsFinite DEF Types, Witnessed
    <3> QED
      BY <1>2, <1>6, <3>1
  <2>2. ASSUME NEW j \in Calls
        PROVE  /\ at'[j].guarded => j >= 1
               /\ at'[j].injected => j = 0
    BY <1>1, <1>4, <1>7, Zenon DEF Witnessed
  <2>3. ASSUME NEW j \in Calls, j >= 1, j < invocations', at'[j].thread = at'[0].thread
        PROVE  at'[j].returned0
    <3>1. j \in Nat /\ 0 \in Calls
      BY CallsFinite, Zenon
    <3>2. CASE j = i
      <4>1. at'[0] = at[0] /\ 0 \in 0..(i - 1) /\ i > 0
        <5>1. 0 \in 0..(i - 1) /\ i > 0 /\ 0 # i
          BY <1>2, <2>3, <3>1, <3>2
        <5> QED
          BY <1>7, <3>1, <5>1, Zenon
      <4>2. pc[0] = "returned"
        BY <1>4, <1>6, <1>7, <2>3, <3>2, <4>1, Zenon
      <4> QED
        BY <1>4, <1>7, <3>2, <4>1, <4>2, Zenon
    <3>3. CASE j # i
      <4>1. j < i /\ 0 # i /\ at'[j] = at[j] /\ at'[0] = at[0]
        BY <1>2, <1>6, <1>7, <2>3, <3>1, <3>3
      <4> QED
        BY <1>1, <2>3, <4>1, Zenon DEF Witnessed
    <3> QED
      BY <3>2, <3>3, Zenon
  <2> QED
    BY <2>1, <2>2, <2>3, Zenon DEF Witnessed
<1>11. Own' = Own /\ Qualified' = Qualified /\ Emitted' = Emitted /\ InFlight' = InFlight
  <2>1. /\ at'[i].wire = "none" /\ at[i].wire = "none" /\ ~at'[i].qualified /\ ~at[i].qualified
        /\ pc'[i] = "check" /\ pc[i] = "none"
    BY <1>4, <1>7, Zenon
  <2>2. Emitted' = Emitted
    BY <1>7, <2>1, Zenon DEF Emitted
  <2>3. InFlight' = InFlight
    BY <1>7, <2>1, <2>2, Zenon DEF InFlight, Emitted
  <2>4. Qualified' = Qualified
    BY <1>7, <2>1, Zenon DEF Qualified
  <2>5. Own' = Own
    BY <1>7, <2>1, Zenon DEF Own
  <2> QED
    BY <2>2, <2>3, <2>4, <2>5, Zenon
<1>12. Counters'
  BY <1>1, <1>6, <1>11, Zenon DEF Counters
<1>13. Phases' /\ NoUseInFlight' /\ PassEarned'
  BY <1>1, <1>2, <1>6, <1>11, Zenon DEF Phases, NoUseInFlight, PassEarned
<1> QED
  BY <1>8, <1>9, <1>10, <1>12, <1>13, Zenon DEF RInv

LEMMA UpToNext == ASSUME NEW n \in Nat, NEW m, m = n + 1 PROVE \A k \in 1..m : k \in 1..n \/ k = n + 1
  OBVIOUS

\* A step of a callback happens inside of cuObjGet only.
LEMMA CallbackRInv ==
    ASSUME RigAssumption, RInv, NEW i \in Calls, Callback(i)
    PROVE  RInv'
<1>1. Types /\ (\A j \in Calls : Local(j)) /\ Witnessed /\ Counters /\ Phases
  BY Zenon DEF RInv
<1>2. at[i].injected => i = 0
  BY <1>1, Zenon DEF Witnessed
<1>3. Types' /\ Moved(i) /\ (\A j \in Calls : Local(j)') /\ Counters'
  BY <1>1, <1>2, CallbackMoves, CallbackLocal, CallbackCounters, Zenon
<1>4. exp = "get"
  BY <1>1, <1>3, Zenon DEF Moved, Phases
<1>5. i < invocations /\ invocations \in Nat /\ i \in Nat
  <2>1. i \in Nat /\ invocations \in Nat
    BY <1>1, CallsFinite DEF Types
  <2>2. pc[i] # "none" /\ (pc[i] = "none" <=> i >= invocations)
    BY <1>1, <1>3, Zenon DEF Moved, Local
  <2> QED
    BY <2>1, <2>2
<1>6. Witnessed'
  <2>1. \A k \in 1..Len(attempts') : attempts'[k] < invocations'
    <3>1. attempts \in Seq(Calls) /\ \A k \in 1..Len(attempts) : attempts[k] < invocations
      BY <1>1, Zenon DEF Types, Witnessed
    <3>2. CASE attempts' = Append(attempts, i)
      <4>1. /\ Len(attempts') = Len(attempts) + 1 /\ Len(attempts) \in Nat
            /\ \A k \in 1..Len(attempts) : attempts'[k] = attempts[k]
            /\ attempts'[Len(attempts) + 1] = i
        BY <3>1, <3>2
      <4>2. \A k \in 1..Len(attempts') : k \in 1..Len(attempts) \/ k = Len(attempts) + 1
        BY <4>1, UpToNext, Zenon
      <4>3. invocations' = invocations
        BY <1>3, Zenon DEF Moved
      <4> QED
        BY <1>5, <3>1, <4>1, <4>2, <4>3, Zenon
    <3>3. CASE attempts' = attempts
      BY <1>3, <3>1, <3>3, Zenon DEF Moved
    <3> QED
      BY <1>3, <3>2, <3>3, Zenon DEF Moved
  <2>2. \A j \in Calls : (at'[j].guarded => j >= 1) /\ (at'[j].injected => j = 0)
    BY <1>1, <1>3, Zenon DEF Moved, Witnessed
  <2>3. \A j \in Calls : at'[j].thread = at[j].thread /\ at'[j].returned0 = at[j].returned0
    BY <1>3, Zenon DEF Moved
  <2>4. 0 \in Calls /\ invocations' = invocations
    BY <1>3, CallsFinite, Zenon DEF Moved
  <2> QED
    BY <1>1, <2>1, <2>2, <2>3, <2>4, Zenon DEF Witnessed
<1>7. landing' = "object" => Emitted' # {}
  <2>1. Emitted \subseteq Emitted'
    BY <1>3, Zenon DEF Moved, Emitted
  <2> QED
    BY <1>1, <1>3, <2>1, Zenon DEF Moved, Phases
<1>8. Phases' /\ NoUseInFlight' /\ PassEarned'
  BY <1>1, <1>3, <1>4, <1>7, Zenon DEF Moved, Phases, NoUseInFlight, PassEarned
<1> QED
  BY <1>3, <1>6, <1>8, Zenon DEF RInv

\* A step of the experiment leaves the callbacks and the memory as they are.
LEMMA StillFacts ==
    ASSUME RInv, UNCHANGED <<pc, at, ctxVars, guard>>
    PROVE  /\ Types' /\ (\A j \in Calls : Local(j)') /\ Witnessed' /\ Counters'
           /\ Emitted' = Emitted /\ InFlight' = InFlight
<1>1. Types /\ (\A j \in Calls : Local(j)) /\ Witnessed /\ Counters
  BY Zenon DEF RInv
<1>2. Types' /\ Emitted' = Emitted /\ InFlight' = InFlight /\ Own' = Own /\ Qualified' = Qualified
  BY <1>1, Zenon DEF ctxVars, Types, Emitted, InFlight, Own, Qualified
<1>3. (\A j \in Calls : Local(j)') /\ Witnessed'
  BY <1>1, Zenon DEF ctxVars, Local, Witnessed
<1> QED
  BY <1>1, <1>2, <1>3, Zenon DEF ctxVars, Counters

\* The server writes only for a request in flight, and then the memory is in use.
LEMMA ServerRInv ==
    ASSUME RInv, ServerWrites
    PROVE  RInv'
<1>1. InFlight # {} /\ Emitted # {}
  BY Zenon DEF ServerWrites, InFlight
<1>2. /\ Types' /\ (\A j \in Calls : Local(j)') /\ Witnessed' /\ Counters'
      /\ Emitted' = Emitted /\ InFlight' = InFlight
  BY StillFacts, Zenon DEF ServerWrites
<1>3. exp \notin {"read", "release", "judge"} /\ verdict # "PASS" /\ ~read /\ fixture # "released"
  BY <1>1, Zenon DEF RInv, Phases, NoUseInFlight, PassEarned
<1>4. Phases'
  BY <1>1, <1>2, <1>3, Zenon DEF RInv, Phases, ServerWrites, expVars, ctxVars
<1>5. NoUseInFlight' /\ PassEarned'
  BY <1>3, Zenon DEF NoUseInFlight, PassEarned, ServerWrites, expVars
<1> QED
  BY <1>2, <1>4, <1>5, Zenon DEF RInv

\* A PASS of the experiment rests on one request.  Under the guard no later
\* invocation emits; in diag there was one invocation; and the object that was read
\* got there by a request.
LEMMA JudgeRInv ==
    ASSUME RigAssumption, RInv, Judge
    PROVE  RInv'
<1>1. /\ Types' /\ (\A j \in Calls : Local(j)') /\ Witnessed' /\ Counters'
      /\ Emitted' = Emitted /\ InFlight' = InFlight
  BY StillFacts, Zenon DEF Judge
<1>2. /\ exp = "judge" /\ exp' = "done" /\ InFlight = {} /\ fixture = "released"
      /\ seen = [digest |-> landing, intact |-> intact]
      /\ landing = "object" => Emitted # {}
      /\ UNCHANGED <<pc, fixture, read, landing, intact, seen, output_failed, evidence_lost, invocations>>
  BY Zenon DEF RInv, Phases, Judge, Finish, ctxVars
<1>3. Phases'
  BY <1>1, <1>2, Zenon DEF RInv, Phases
<1>4. NoUseInFlight'
  BY <1>1, <1>2, Zenon DEF NoUseInFlight
<1>5. PassEarned'
  <2> SUFFICES ASSUME verdict' = "PASS" PROVE PassEarned'
    BY Zenon DEF PassEarned
  <2>1. PICK sha \in BOOLEAN : (IF guard THEN JudgeGuard(sha) ELSE JudgeDiag(sha)) = "PASS" /\ ~output_failed
    BY Zenon DEF Judge, Finish
  <2>2. ~evidence_lost /\ landing = "object" /\ intact /\ (guard \/ invocations = 1)
    <3>1. CASE guard
      BY <1>2, <2>1, <3>1, Zenon DEF JudgeGuard
    <3>2. CASE ~guard
      BY <1>2, <2>1, <3>2, Zenon DEF JudgeDiag
    <3> QED
      BY <3>1, <3>2, Zenon
  <2>3. Emitted \subseteq {0}
    <3> SUFFICES ASSUME NEW i \in Calls, i # 0 PROVE at[i].wire = "none"
      BY Zenon DEF Emitted
    <3>1. i \in Nat /\ i >= 1 /\ Local(i)
      BY CallsFinite DEF RInv
    <3>2. CASE guard
      BY <3>1, <3>2, Zenon DEF Local
    <3>3. CASE invocations = 1
      BY <3>1, <3>3, Zenon DEF Local, Silent
    <3> QED
      BY <2>2, <3>2, <3>3, Zenon
  <2>4. Emitted = {0}
    BY <1>2, <2>2, <2>3, Zenon
  <2>5. Cardinality(Emitted) = 1
    BY <2>4, FS_Singleton, Zenon
  <2> QED
    BY <1>1, <1>2, <2>1, <2>2, <2>5, Zenon DEF PassEarned
<1> QED
  BY <1>1, <1>3, <1>4, <1>5, Zenon DEF RInv

\* The other steps of the experiment: nothing was sent before Setup ends, and the gate
\* opens only where nothing is in flight.
LEMMA ExperimentRInv ==
    ASSUME RigAssumption, RInv, Setup \/ SdkReturns \/ Gate \/ ReadLanding \/ Release \/ OutputFails
    PROVE  RInv'
<1>1. /\ Types' /\ (\A j \in Calls : Local(j)') /\ Witnessed' /\ Counters'
      /\ Emitted' = Emitted /\ InFlight' = InFlight
  <2>1. UNCHANGED <<pc, at, ctxVars, guard>>
    BY Zenon DEF Setup, SdkReturns, Gate, ReadLanding, Release, OutputFails
  <2> QED
    BY <2>1, StillFacts, Zenon
<1>2. Phases /\ NoUseInFlight /\ PassEarned /\ Types /\ Counters /\ \A j \in Calls : Local(j)
  BY Zenon DEF RInv
<1>3. UNCHANGED <<pc, landing, intact, evidence_lost, invocations>>
  BY Zenon DEF Setup, SdkReturns, Gate, ReadLanding, Release, OutputFails, ctxVars
<1>4. verdict # "PASS" /\ verdict' # "PASS"
  BY <1>2, Zenon DEF Phases, Setup, SdkReturns, Gate, ReadLanding, Release, OutputFails, Finish
<1>5. PassEarned'
  BY <1>4, Zenon DEF PassEarned
<1>6. CASE Setup
  <2>1. InFlight = {}
    <3>1. \A i \in Calls : i \in Nat /\ at[i].wire = "none"
      <4>1. exp = "setup" /\ \A i \in Calls : Local(i)
        BY <1>2, <1>6, Zenon DEF Setup
      <4>2. invocations = 0 /\ \A i \in Calls : i \in Nat
        BY <1>2, <4>1, CallsFinite, Zenon DEF Phases
      <4>3. \A i \in Calls : pc[i] = "none"
        BY <4>1, <4>2 DEF Local
      <4> QED
        BY <4>1, <4>2, <4>3, Zenon DEF Local, Silent
    <3> QED
      BY <3>1, Zenon DEF InFlight, Emitted
  <2>2. Phases' /\ NoUseInFlight'
    BY <1>1, <1>2, <1>3, <1>4, <1>6, <2>1, Zenon DEF Setup, Finish, Phases, NoUseInFlight
  <2> QED
    BY <1>1, <1>5, <2>2, Zenon DEF RInv
<1>7. CASE SdkReturns
  <2>1. Phases' /\ NoUseInFlight'
    BY <1>1, <1>2, <1>3, <1>4, <1>7, Zenon DEF SdkReturns, Phases, NoUseInFlight
  <2> QED
    BY <1>1, <1>5, <2>1, Zenon DEF RInv
<1>8. CASE Gate
  <2>1. ~Hold => InFlight = {}
    BY <1>2, GateSound, Zenon
  <2>2. Phases' /\ NoUseInFlight'
    BY <1>1, <1>2, <1>3, <1>4, <1>8, <2>1, Zenon DEF Gate, Finish, Phases, NoUseInFlight
  <2> QED
    BY <1>1, <1>5, <2>2, Zenon DEF RInv
<1>9. CASE ReadLanding
  <2>1. Phases' /\ NoUseInFlight'
    BY <1>1, <1>2, <1>3, <1>4, <1>9, Zenon DEF ReadLanding, Finish, Phases, NoUseInFlight
  <2> QED
    BY <1>1, <1>5, <2>1, Zenon DEF RInv
<1>10. CASE Release
  <2>1. Phases' /\ NoUseInFlight'
    BY <1>1, <1>2, <1>3, <1>4, <1>10, Zenon DEF Release, Finish, Phases, NoUseInFlight
  <2> QED
    BY <1>1, <1>5, <2>1, Zenon DEF RInv
<1>11. CASE OutputFails
  <2>1. Phases' /\ NoUseInFlight'
    BY <1>1, <1>2, <1>3, <1>4, <1>11, Zenon DEF OutputFails, Phases, NoUseInFlight
  <2> QED
    BY <1>1, <1>5, <2>1, Zenon DEF RInv
<1> QED
  BY <1>6, <1>7, <1>8, <1>9, <1>10, <1>11, Zenon

-----------------------------------------------------------------------------
(* The latch. *)

LEMMA InitSInv == RigAssumption /\ Init => SInv
<1> SUFFICES ASSUME RigAssumption, Init PROVE SInv
  BY Zenon
<1>1. \A i \in Calls : pc[i] = "none" /\ at[i].wire = "none" /\ at[i].overlap = FALSE
  BY Zenon DEF Init, NoAttempt
<1>2. InsideSet = {} /\ InFlight = {}
  BY <1>1, Zenon DEF InsideSet, Inside, InFlight, Emitted
<1>3. active = Cardinality(InsideSet)
  BY <1>2, FS_EmptySet, Zenon DEF Init
<1> QED
  BY <1>1, <1>2, <1>3, Zenon DEF SInv, Alone

\* A new callback has sent nothing, and its overlap flag says whether somebody is inside.
LEMMA EnterFacts ==
    ASSUME RigAssumption, Types, \A j \in Calls : Local(j), NEW t \in Threads, Enter(t)
    PROVE  LET i == invocations
           IN  /\ i \in Calls /\ i \in Nat
               /\ at'[i].wire = "none" /\ at'[i].qualified = FALSE /\ (at'[i].overlap <=> active > 0)
               /\ pc'[i] = "check" /\ pc[i] = "none" /\ at[i].wire = "none"
               /\ \A j \in Calls : j # i => at'[j] = at[j] /\ pc'[j] = pc[j]
<1> DEFINE i == invocations
           met == active > 0
           back == i > 0 /\ pc[0] = "returned"
<1>1. i \in Calls /\ i \in Nat /\ pc \in [Calls -> Where] /\ at \in [Calls -> Attempt]
  BY DEF Enter, Types, Calls, RigAssumption
<1>2. PICK later \in BOOLEAN, same \in BOOLEAN :
        at' = [at EXCEPT ![i] = [NoAttempt EXCEPT !.thread = t, !.overlap = met, !.later = later,
                                                  !.same = same, !.returned0 = back]]
  BY Zenon DEF Enter
<1>3. at'[i].wire = "none" /\ at'[i].qualified = FALSE /\ at'[i].overlap = met /\ \A j \in Calls : j # i => at'[j] = at[j]
  <2> HIDE DEF met, back
  <2> QED
    BY <1>1, <1>2, Zenon DEF NoAttempt
<1>4. pc' = [pc EXCEPT ![i] = "check"] /\ pc[i] = "none" /\ at[i].wire = "none"
  BY <1>1 DEF Enter, Goto, Local, Silent
<1> QED
  BY <1>1, <1>3, <1>4, Zenon

\* A callback that meets nobody comes when nobody is inside.
LEMMA EnterSInv ==
    ASSUME RigAssumption, RInv, SInv, NEW t \in Threads, Enter(t)
    PROVE  SInv'
<1> DEFINE i == invocations
<1>1. Types /\ (\A j \in Calls : Local(j))
  BY Zenon DEF RInv
<1>2. i \in Calls /\ i \in Nat
  BY <1>1, EnterFacts, Zenon
<1>4. /\ at'[i].wire = "none" /\ (at'[i].overlap <=> active > 0)
      /\ pc'[i] = "check" /\ pc[i] = "none" /\ at[i].wire = "none"
      /\ \A j \in Calls : j # i => at'[j] = at[j] /\ pc'[j] = pc[j]
  BY <1>1, EnterFacts, Zenon
<1>5. active' = active + 1 /\ unknown' = unknown
  BY Zenon DEF Enter
<1>6. InsideSet' = InsideSet \cup {i} /\ i \notin InsideSet /\ InFlight' = InFlight
  <2>1. "check" \in Inside /\ "none" \notin Inside
    BY Zenon DEF Inside, Where
  <2>2. i \notin InsideSet
    BY <1>4, <2>1, Zenon DEF InsideSet
  <2>3. InsideSet' = InsideSet \cup {i}
    BY <1>2, <1>4, <2>1, Zenon DEF InsideSet
  <2>4. InFlight' = InFlight
    BY <1>2, <1>4, Zenon DEF InFlight, Emitted
  <2> QED
    BY <2>2, <2>3, <2>4, Zenon
<1>7. active' = Cardinality(InsideSet')
  BY <1>5, <1>6, RequestsFinite, FS_AddElement, Zenon DEF SInv
<1>8. \A j \in Calls : pc'[j] = "none" => ~at'[j].overlap
  BY <1>4, Zenon DEF SInv
<1>9. ASSUME Sequential'
      PROVE  Alone'
  <2>1. ~(active > 0)
    BY <1>2, <1>4, <1>9, Zenon DEF Sequential
  <2>2. Sequential
    BY <1>2, <1>4, <1>9, Zenon DEF Sequential, SInv
  <2>3. Alone
    BY <2>2, Zenon DEF SInv
  <2>4. Cardinality(InsideSet) = 0
    BY <2>1, RequestsFinite DEF SInv
  <2>5. InsideSet = {}
    BY <2>4, RequestsFinite, FS_EmptySet, Zenon
  <2>6. \A j \in Calls : j # i => pc'[j] \notin Inside
    BY <1>4, <2>5, Zenon DEF InsideSet
  <2>7. i = 0 => InFlight = {}
    <3>1. i = 0 => \A j \in Calls : pc[j] = "none"
      <4>1. \A j \in Calls : j \in Nat
        BY CallsFinite, Zenon
      <4>2. \A j \in Calls : pc[j] = "none" <=> j >= i
        BY <1>1, Zenon DEF Local
      <4> QED
        BY <4>1, <4>2
    <3>2. \A j \in Calls : pc[j] = "none" => at[j].wire = "none"
      BY <1>1, Zenon DEF Local, Silent
    <3> QED
      BY <3>1, <3>2, Zenon DEF InFlight, Emitted
  <2>8. InsideSet' = {i}
    BY <1>6, <2>5, Zenon
  <2>9. InFlight' # {} => unknown'
    BY <1>5, <1>6, <2>3, Zenon DEF Alone
  <2>10. \A j \in Calls : j # i => pc'[j] \in {"none", "left", "returned"}
    BY <1>1, <1>4, <2>6, Zenon DEF Types, Inside
  <2> QED
    BY <1>4, <1>6, <2>7, <2>8, <2>9, <2>10, Zenon DEF Alone
<1> QED
  BY <1>7, <1>8, <1>9, Zenon DEF SInv

\* A callback that is alone inside finds the latch set by whatever is in flight.
LEMMA CallbackSInv ==
    ASSUME RigAssumption, RInv, SInv, NEW i \in Calls, Callback(i)
    PROVE  SInv'
<1>1. Types /\ (\A j \in Calls : Local(j)) /\ (at[i].injected => i = 0)
  BY Zenon DEF RInv, Witnessed
<1>2. Types' /\ Moved(i) /\ Effect(i) /\ Local(i) /\ Local(i)'
  BY <1>1, CallbackMoves, CallbackEffect, CallbackLocal, Zenon
<1>3. \A j \in Calls : j # i => pc'[j] = pc[j] /\ at'[j] = at[j]
  BY <1>2, Zenon DEF Moved
<1>4. pc[i] \in Where /\ pc'[i] \in Where
  BY <1>1, <1>2, Zenon DEF Types
<1>5. active' = Cardinality(InsideSet')
  <2>1. CASE pc[i] = "leave"
    <3>1. active' = active - 1 /\ pc'[i] = "left"
      BY <1>2, <2>1, Zenon DEF Effect
    <3>2. InsideSet' = InsideSet \ {i} /\ i \in InsideSet
      BY <1>3, <2>1, <3>1, Zenon DEF InsideSet, Inside, Where
    <3> QED
      BY <3>1, <3>2, RequestsFinite, FS_RemoveElement, Zenon DEF SInv
  <2>2. CASE pc[i] # "leave"
    <3>1. active' = active /\ (pc[i] \in Inside <=> pc'[i] \in Inside)
      BY <1>2, <2>2, Zenon DEF Effect, Inside, Where
    <3>2. InsideSet' = InsideSet
      BY <1>3, <3>1, Zenon DEF InsideSet
    <3> QED
      BY <3>1, <3>2, Zenon DEF SInv
  <2> QED
    BY <2>1, <2>2, Zenon
<1>6. \A j \in Calls : pc'[j] = "none" => ~at'[j].overlap
  BY <1>2, <1>3, Zenon DEF SInv, Moved
<1>7. ASSUME Sequential'
      PROVE  Alone'
  <2>1. Alone
    <3>1. Sequential
      BY <1>2, <1>3, <1>7, Zenon DEF Sequential, Moved
    <3> QED
      BY <3>1, Zenon DEF SInv
  <2>2. CASE pc[i] = "left"
    <3>1. pc'[i] = "returned" /\ SameRecord(i) /\ unknown' = unknown
      BY <1>2, <2>2, Zenon DEF Effect
    <3>2. InFlight' = InFlight /\ InsideSet' = InsideSet
      <4>1. \A j \in Calls : at'[j].wire = at[j].wire /\ at'[j].qualified = at[j].qualified
        BY <1>3, <3>1, Zenon DEF SameRecord
      <4>2. InFlight' = InFlight
        BY <4>1, Zenon DEF InFlight, Emitted
      <4>3. \A j \in Calls : pc'[j] \in Inside <=> pc[j] \in Inside
        BY <1>3, <2>2, <3>1, Zenon DEF Inside
      <4> QED
        BY <4>2, <4>3, Zenon DEF InsideSet
    <3>3. \A j \in Calls : pc'[j] = pc[j] \/ pc'[j] = "returned"
      BY <1>3, <3>1, Zenon
    <3>4. 0 \in Calls
      BY CallsFinite, Zenon
    <3> QED
      BY <2>1, <3>1, <3>2, <3>3, <3>4, Zenon DEF Alone
  <2>3. CASE pc[i] # "left"
    <3>1. i \in InsideSet
      BY <1>2, <1>4, <2>3, Zenon DEF Moved, InsideSet, Inside
    <3>2. \A j \in Calls : j # i => pc'[j] \in {"none", "left", "returned"}
      <4>1. \A j \in Calls : j # i => j \notin InsideSet
        BY <2>1, <3>1, Zenon DEF Alone
      <4> QED
        BY <1>1, <1>3, <4>1, Zenon DEF InsideSet, Inside, Types
    <3>3. \A j, k \in InsideSet' : j = k
      BY <3>2, Zenon DEF InsideSet, Inside
    <3>4. \A j \in Calls : j # i => (j \in InFlight' <=> j \in InFlight)
      BY <1>3, Zenon DEF InFlight, Emitted
    <3>5. i \in InFlight <=> at[i].wire # "none" /\ ~at[i].qualified
      BY Zenon DEF InFlight, Emitted
    <3>6. i \in InFlight' <=> at'[i].wire # "none" /\ ~at'[i].qualified
      BY Zenon DEF InFlight, Emitted
    <3>7. InFlight \subseteq Calls /\ InFlight' \subseteq Calls
      BY Zenon DEF InFlight, Emitted, Calls
    <3>8. SameRecord(i) => InFlight' = InFlight
      BY <3>4, <3>5, <3>6, <3>7 DEF SameRecord
    <3>9. /\ pc[i] = "send" => unknown
          /\ pc[i] \in {"build", "submit", "latch", "send", "takeback", "tb_submitted", "tb_completed", "tb_clear",
                         "q_count", "q_clear"} => InFlight = {}
          /\ pc[i] \in {"receive", "q_test"} => InFlight \subseteq {i}
          /\ InFlight # {} => unknown
      BY <2>1, Zenon DEF Alone
    <3>10. pc[i] = "check" /\ ~Guarded(i) => InFlight = {}
      <4>1. i = 0 /\ pc[i] = "check" => InFlight = {}
        BY <2>1, <3>1, Zenon DEF Alone
      <4>2. i \in Nat
        BY CallsFinite, Zenon
      <4> QED
        BY <3>9, <4>1, <4>2 DEF Guarded
    <3>11. pc[i] = "q_test" => InFlight = {}
      BY <1>2, <3>5, <3>9, Zenon DEF Local
    <3>12. pc'[i] # "check"
      BY <1>2, Zenon DEF Effect
    <3> DEFINE Past == {"build", "submit", "latch", "send", "takeback", "tb_submitted", "tb_completed", "tb_clear",
                        "q_count", "q_clear"}
    <3>13. ASSUME InFlight' # {} => unknown', pc'[i] = "send" => unknown', pc'[i] \in Past => InFlight' = {},
                  pc'[i] \in {"receive", "q_test"} => InFlight' \subseteq {i}
           PROVE  Alone'
      <4>1. ~(0 \in InsideSet' /\ pc'[0] = "check")
        BY <3>2, <3>12, Zenon DEF InsideSet
      <4>2. ASSUME NEW j \in Calls
            PROVE  /\ pc'[j] = "send" => unknown'
                   /\ pc'[j] \in Past => InFlight' = {}
                   /\ pc'[j] \in {"receive", "q_test"} => InFlight' \subseteq {j}
        <5>1. CASE j = i
          BY <3>13, <5>1, Zenon
        <5>2. CASE j # i
          BY <3>2, <5>2, Zenon
        <5> QED
          BY <5>1, <5>2, Zenon
      <4> QED
        BY <3>3, <3>13, <4>1, <4>2, Zenon DEF Alone
    <3>14. CASE SameRecord(i)
      <4>1. InFlight' # {} => unknown'
        BY <1>2, <3>8, <3>9, <3>14, Zenon DEF Effect
      <4>2. pc'[i] = "send" => unknown'
        BY <1>2, Zenon DEF Effect
      <4>3. pc'[i] \in Past => InFlight' = {}
        BY <1>2, <3>8, <3>9, <3>10, <3>11, <3>14, Zenon DEF Effect
      <4>4. pc'[i] \in {"receive", "q_test"} => InFlight' \subseteq {i}
        BY <1>2, <3>8, <3>9, <3>14, Zenon DEF Effect
      <4> QED
        BY <3>13, <4>1, <4>2, <4>3, <4>4, Zenon
    <3>15. CASE pc[i] = "send" /\ pc'[i] = "receive" /\ unknown' = unknown
      <4>1. InFlight' \subseteq {i} /\ unknown'
        BY <3>4, <3>7, <3>9, <3>15, Zenon
      <4> QED
        BY <3>13, <3>15, <4>1, Zenon
    <3>16. CASE pc[i] = "receive" /\ pc'[i] = "q_test" /\ at'[i].qualified /\ unknown' = unknown
      <4>1. InFlight' = {}
        BY <3>4, <3>6, <3>7, <3>9, <3>16, Zenon
      <4> QED
        BY <3>13, <3>16, <4>1, Zenon
    <3> QED
      BY <1>2, <3>14, <3>15, <3>16, Zenon DEF Effect
  <2> QED
    BY <2>2, <2>3, Zenon
<1> QED
  BY <1>5, <1>6, <1>7, Zenon DEF SInv

\* Every other step leaves the callbacks and the latch alone.
LEMMA StillSInv ==
    ASSUME SInv, UNCHANGED <<pc, at, ctxVars>>
    PROVE  SInv'
<1>1. InsideSet' = InsideSet /\ InFlight' = InFlight /\ UNCHANGED <<active, unknown>>
  BY Zenon DEF ctxVars, InsideSet, InFlight, Emitted
<1> QED
  BY <1>1, Zenon DEF SInv, Alone, Sequential

-----------------------------------------------------------------------------
(* The theorems. *)

\* One step of the probe, whichever experiment runs.
LEMMA NextRInv ==
    ASSUME RigAssumption, RInv, SInv, [ProbeNext]_probeVars
    PROVE  RInv' /\ SInv'
<1>1. CASE UNCHANGED vars
  <2>1. RInv'
    <3>1. UNCHANGED <<pc, at, ctxVars, guard>> /\ UNCHANGED <<expVars, landing, intact, output_failed>>
      BY <1>1, Zenon DEF vars
    <3>2. /\ Types' /\ (\A j \in Calls : Local(j)') /\ Witnessed' /\ Counters'
          /\ Emitted' = Emitted /\ InFlight' = InFlight
      BY <3>1, StillFacts, Zenon
    <3> QED
      BY <3>1, <3>2, Zenon DEF RInv, Phases, NoUseInFlight, PassEarned, expVars, ctxVars
  <2> QED
    BY <1>1, <2>1, StillSInv, Zenon DEF vars
<1>2. ASSUME NEW t \in Threads, Enter(t)
      PROVE  RInv' /\ SInv'
  BY <1>2, EnterRInv, EnterSInv, Zenon
<1>3. ASSUME NEW i \in Calls, Callback(i)
      PROVE  RInv' /\ SInv'
  BY <1>3, CallbackRInv, CallbackSInv, Zenon
<1>4. CASE ServerWrites
  BY <1>4, ServerRInv, StillSInv, Zenon DEF ServerWrites
<1>5. CASE Experiment \/ OutputFails
  <2>1. RInv'
    BY <1>5, ExperimentRInv, JudgeRInv, Zenon DEF Experiment
  <2>2. UNCHANGED <<pc, at, ctxVars>>
    BY <1>5, Zenon DEF Experiment, Setup, SdkReturns, Gate, ReadLanding, Release, Judge, OutputFails
  <2> QED
    BY <2>1, <2>2, StillSInv, Zenon
<1> QED
  BY <1>1, <1>2, <1>3, <1>4, <1>5, Zenon DEF ProbeNext, SingleStep, ExitStep, Next, probeVars

LEMMA ProbeInv == RigAssumption => (ProbeSpec => [](RInv /\ SInv))
<1> SUFFICES ASSUME RigAssumption PROVE ProbeSpec => [](RInv /\ SInv)
  BY Zenon
<1>1. ProbeInit => RInv /\ SInv
  BY InitRInv, InitSInv, Zenon DEF ProbeInit
<1>2. RInv /\ SInv /\ [ProbeNext]_probeVars => RInv' /\ SInv'
  BY NextRInv, Zenon
<1> QED
  BY <1>1, <1>2, PTL DEF ProbeSpec

\* The landing memory is neither read nor given back while a request that may have
\* reached the server has no qualified receipt, for any number of concurrent
\* callbacks and any of the faults (the gate of exp_single_get).
THEOREM MemorySafe == ProbeSpec => []NoUseInFlight
<1>1. RInv => NoUseInFlight
  BY Zenon DEF RInv
<1> QED
  BY <1>1, ProbeInv, RigAssumption, PTL

\* A PASS of diag or rt-guard rests on one request with a qualified receipt, on the
\* object in place with intact surroundings, and on complete records.
THEOREM SinglePassEarned == ProbeSpec => []PassEarned
<1>1. RInv => PassEarned
  BY Zenon DEF RInv
<1> QED
  BY <1>1, ProbeInv, RigAssumption, PTL

\* Under rt-guard only the first invocation emits.
THEOREM GuardHolds == ProbeSpec => []GuardEmitsOnce
<1>1. RInv => GuardEmitsOnce
  <2> SUFFICES ASSUME RInv, guard, NEW i \in Calls, i # 0 PROVE at[i].wire = "none"
    BY Zenon DEF GuardEmitsOnce, Emitted
  <2>1. i >= 1
    BY CallsFinite, RigAssumption
  <2>2. Local(i)
    BY Zenon DEF RInv
  <2> QED
    BY <2>1, <2>2, Zenon DEF Local
<1> QED
  BY <1>1, ProbeInv, RigAssumption, PTL

\* What guard_witness accepts proves that the SDK had the injected return before it
\* entered a later callback: the record at the front is that of invocation 0, and the
\* others came on its thread.
THEOREM WitnessProves == ProbeSpec => []WitnessSound
<1>1. RInv => WitnessSound
  <2> SUFFICES ASSUME RInv, GuardWitness, NEW k \in 2..Len(attempts)
               PROVE  at[attempts[k]].returned0
    BY Zenon DEF WitnessSound
  <2>1. attempts \in Seq(Calls) /\ Witnessed
    BY Zenon DEF RInv, Types
  <2>2. Len(attempts) \in Nat /\ k \in 1..Len(attempts) /\ 1 \in 1..Len(attempts)
    BY <2>1
  <2>3. attempts[k] \in Calls /\ attempts[1] \in Calls
    BY <2>1, <2>2
  <2>4. attempts[1] = 0
    BY <2>1, <2>3, Zenon DEF GuardWitness, Witnessed
  <2>5. at[attempts[k]].guarded /\ at[attempts[k]].thread = at[0].thread
    BY <2>4, Zenon DEF GuardWitness
  <2>6. attempts[k] >= 1 /\ attempts[k] < invocations
    BY <2>1, <2>2, <2>3, <2>5, Zenon DEF Witnessed
  <2> QED
    BY <2>1, <2>3, <2>5, <2>6, Zenon DEF Witnessed
<1> QED
  BY <1>1, ProbeInv, RigAssumption, PTL

\* As long as callbacks do not overlap, none puts a request on the wire while an earlier
\* one is in flight: the latch is set by whatever is in flight, and an exception or an
\* attempt taken back does not clear it.
THEOREM LatchKeeps == ProbeSpec => LatchHolds
<1>1. ASSUME RInv, SInv, [ProbeNext]_probeVars
      PROVE  [\A i \in Calls : at[i].wire = "none" /\ at'[i].wire # "none" /\ (\A j \in Calls : ~at[j].overlap)
                   => InFlight \ {i} = {}]_vars
  <2> SUFFICES ASSUME NEW i \in Calls, at[i].wire = "none", at'[i].wire # "none", Sequential
               PROVE  InFlight \ {i} = {}
    BY Zenon DEF Sequential
  <2>1. at' # at
    BY Zenon
  <2>2. (\E t \in Threads : Enter(t)) \/ (\E j \in Calls : Callback(j))
    BY <1>1, <2>1, Zenon DEF ProbeNext, SingleStep, ExitStep, Next, probeVars, vars, ServerWrites, Experiment, OutputFails,
                      Setup, SdkReturns, Gate, ReadLanding, Release, Judge
  <2>3. ASSUME NEW t \in Threads, Enter(t)
        PROVE  FALSE
    <3>1. Types /\ \A j \in Calls : Local(j)
      BY <1>1, Zenon DEF RInv
    <3>2. at'[invocations].wire = "none" /\ \A j \in Calls : j # invocations => at'[j] = at[j]
      BY <2>3, <3>1, EnterFacts, RigAssumption, Zenon
    <3> QED
      BY <3>2, Zenon
  <2>4. ASSUME NEW j \in Calls, Callback(j)
        PROVE  InFlight = {}
    <3>1. Types /\ Local(j) /\ (at[j].injected => j = 0)
      BY <1>1, Zenon DEF RInv, Witnessed
    <3>2. Moved(j) /\ Effect(j)
      BY <2>4, <3>1, CallbackMoves, CallbackEffect, Zenon
    <3>3. j = i
      BY <3>2, Zenon DEF Moved
    <3>4. pc[i] = "send"
      BY <3>2, <3>3, <3>1, Zenon DEF Effect, SameRecord
    <3> QED
      BY <1>1, <3>4, Zenon DEF SInv, Alone
  <2> QED
    BY <2>2, <2>3, <2>4, Zenon
<1> QED
  BY <1>1, ProbeInv, RigAssumption, PTL DEF ProbeSpec, LatchHolds

-----------------------------------------------------------------------------
(* What a GET leaves in its RigContext. *)

\* About to clear the latch.
Clearing(i) ==
    \/ pc[i] \in {"tb_submitted", "tb_clear", "q_clear"}
    \/ pc[i] = "tb_completed" /\ loaded[i] = completed

\* While the counters agree, a set latch is about to be cleared.
LatchBacked == unknown /\ submitted = completed => \E i \in Calls : Clearing(i)

\* Without a lost record, submitted is exact.
Exact == ~evidence_lost => submitted = Cardinality(Own)

Leaving == {"leave", "left", "returned"}
TakingBack == {"takeback", "tb_submitted", "tb_completed", "tb_clear", "push"}

\* Without any record, nobody who left has sent anything, and who failed is about to
\* leave a record.
Unrecorded ==
    ~evidence_lost /\ attempts = <<>> =>
        /\ \A i \in Calls : pc[i] \in Leaving => at[i].wire = "none"
        /\ local_failure => \E i \in Calls : pc[i] \in TakingBack

\* The first callback, as long as there is no other.
Single ==
    invocations <= 1 =>
        /\ pc[0] \notin TakingBack \cup Leaving => ~local_failure
        /\ pc[0] \notin Leaving => attempts = <<>> /\ ~evidence_lost
        /\ evidence_lost => attempts = <<>>
        /\ at[0].qualified /\ ~evidence_lost =>
              /\ pc[0] = "q_clear" => completed = 1
              /\ pc[0] \in {"push", "leave", "left", "returned"} => completed = 1 /\ ~unknown /\ ~local_failure

CInv == loaded \in [Calls -> Int] /\ completed >= 0 /\ LatchBacked /\ Exact /\ Unrecorded /\ Single

\* What a step of a callback does to the evidence, the latch and the loaded value.
Evidence(i) ==
    /\ loaded' \in [Calls -> Int] /\ \A j \in Calls : j # i => loaded'[j] = loaded[j]
    /\ pc'[i] = "tb_completed" => loaded'[i] = submitted
    /\ pc[i] = "tb_completed" => pc'[i] = IF loaded[i] = completed THEN "tb_clear" ELSE "push"
    /\ pc[i] = "q_test" /\ submitted = 1 => pc'[i] # "push"
    /\ pc'[i] # "leave" => attempts' = attempts /\ evidence_lost' = evidence_lost
    /\ (evidence_lost => evidence_lost') /\ (attempts # <<>> => attempts' # <<>>)
    /\ evidence_lost' /\ ~evidence_lost => attempts' = attempts
    /\ pc'[i] = "leave" => \/ evidence_lost'
                           \/ pc[i] = "check"
                           \/ pc[i] \in {"check", "build", "push"} /\ attempts' # <<>>
    /\ local_failure' => local_failure \/ pc'[i] = "takeback" \/ (pc[i] = "build" /\ pc'[i] = "leave")
    /\ unknown' => unknown \/ pc[i] = "latch" \/ submitted > completed
    /\ pc[i] \in {"tb_clear", "q_clear"} => ~unknown'
    /\ pc'[i] \in Leaving /\ ~evidence_lost' => unknown' = unknown

\* A push leaves a record or the fact of a loss.
LEMMA PushEvidence ==
    ASSUME Types, NEW i \in Calls, Push(i)
    PROVE  /\ (evidence_lost => evidence_lost') /\ (attempts # <<>> => attempts' # <<>>)
           /\ evidence_lost' /\ ~evidence_lost => attempts' = attempts
           /\ evidence_lost' \/ attempts' # <<>>
<1>1. Append(attempts, i) # <<>>
  BY DEF Types
<1>2. CASE attempts' = Append(attempts, i) /\ UNCHANGED evidence_lost
  BY <1>1, <1>2, Zenon
<1>3. CASE evidence_lost' = TRUE /\ UNCHANGED attempts
  BY <1>3, Zenon
<1> QED
  BY <1>2, <1>3, Zenon DEF Push

\* Each step is of that form.
LEMMA CallbackEvidence ==
    ASSUME Types, loaded \in [Calls -> Int], NEW i \in Calls, Callback(i)
    PROVE  Evidence(i)
<1>0. pc \in [Calls -> Where] /\ submitted \in Int /\ completed \in Int
  BY Zenon DEF Types
<1>1. CASE Check(i)
  <2>1. /\ pc[i] = "check" /\ (pc'[i] = "build" \/ pc'[i] = "leave")
        /\ UNCHANGED <<loaded, local_failure, unknown>>
        /\ (attempts' = attempts /\ evidence_lost' = evidence_lost) \/ (Push(i) /\ pc'[i] = "leave")
    BY <1>0, <1>1, Zenon DEF Check, Goto
  <2> QED
    BY <2>1, PushEvidence DEF Evidence, Leaving
<1>2. CASE Build(i)
  <2>1. /\ pc[i] = "build" /\ UNCHANGED <<loaded, unknown>>
        /\ \/ pc'[i] = "submit" /\ UNCHANGED <<attempts, evidence_lost, local_failure>>
           \/ pc'[i] = "leave" /\ Push(i)
    BY <1>0, <1>2, Zenon DEF Build, Goto
  <2> QED
    BY <2>1, PushEvidence DEF Evidence, Leaving
<1>3. CASE Submit(i)
  <2>1. pc[i] = "submit" /\ pc'[i] = "latch" /\ UNCHANGED <<loaded, unknown, attempts, evidence_lost, local_failure>>
    BY <1>0, <1>3, Zenon DEF Submit, Goto
  <2> QED
    BY <2>1, Zenon DEF Evidence, Leaving
<1>4. CASE Latch(i)
  <2>1. pc[i] = "latch" /\ pc'[i] = "send" /\ UNCHANGED <<loaded, attempts, evidence_lost, local_failure>>
    BY <1>0, <1>4, Zenon DEF Latch, Goto
  <2> QED
    BY <2>1, Zenon DEF Evidence, Leaving
<1>5. CASE Send(i)
  <2>1. /\ pc[i] = "send" /\ UNCHANGED <<loaded, attempts, evidence_lost, unknown>>
        /\ pc'[i] = "takeback" \/ (pc'[i] = "receive" /\ UNCHANGED local_failure)
    BY <1>0, <1>5, Zenon DEF Send, Goto
  <2> QED
    BY <2>1 DEF Evidence, Leaving
<1>6. CASE TakeBack(i)
  <2>1. pc[i] = "takeback" /\ pc'[i] = "tb_submitted" /\ UNCHANGED <<loaded, unknown, attempts, evidence_lost, local_failure>>
    BY <1>0, <1>6, Zenon DEF TakeBack, Goto
  <2> QED
    BY <2>1, Zenon DEF Evidence, Leaving
<1>7. CASE LoadSubmitted(i)
  <2>1. /\ pc[i] = "tb_submitted" /\ pc'[i] = "tb_completed" /\ UNCHANGED <<unknown, attempts, evidence_lost, local_failure>>
        /\ loaded' = [loaded EXCEPT ![i] = submitted]
    BY <1>0, <1>7, Zenon DEF LoadSubmitted, Goto, ctxVars
  <2>2. loaded' \in [Calls -> Int] /\ loaded'[i] = submitted /\ \A j \in Calls : j # i => loaded'[j] = loaded[j]
    BY <1>0, <2>1, Zenon
  <2> QED
    BY <2>1, <2>2, Zenon DEF Evidence, Leaving
<1>8. CASE LoadCompleted(i)
  <2>1. /\ pc[i] = "tb_completed" /\ UNCHANGED <<loaded, unknown, attempts, evidence_lost, local_failure>>
        /\ pc'[i] = IF loaded[i] = completed THEN "tb_clear" ELSE "push"
    BY <1>0, <1>8, Zenon DEF LoadCompleted, Goto, ctxVars
  <2> QED
    BY <2>1, Zenon DEF Evidence, Leaving
<1>9. CASE Receive(i)
  <2>1. /\ pc[i] = "receive" /\ UNCHANGED <<loaded, unknown, attempts, evidence_lost, local_failure>>
        /\ pc'[i] = "q_test" \/ pc'[i] = "push"
    BY <1>0, <1>9, Zenon DEF Receive, Goto, ctxVars
  <2> QED
    BY <2>1, Zenon DEF Evidence, Leaving
<1>10. CASE TestSingle(i)
  <2>1. /\ pc[i] = "q_test" /\ UNCHANGED <<loaded, unknown, attempts, evidence_lost, local_failure>>
        /\ pc'[i] = IF submitted = 1 THEN "q_count" ELSE "push"
    BY <1>0, <1>10, Zenon DEF TestSingle, Goto, ctxVars
  <2> QED
    BY <2>1, Zenon DEF Evidence, Leaving
<1>11. CASE CountCompleted(i)
  <2>1. pc[i] = "q_count" /\ pc'[i] = "q_clear" /\ UNCHANGED <<loaded, unknown, attempts, evidence_lost, local_failure>>
    BY <1>0, <1>11, Zenon DEF CountCompleted, Goto
  <2> QED
    BY <2>1, Zenon DEF Evidence, Leaving
<1>12. CASE ClearUnknown(i)
  <2>1. /\ pc[i] = "q_clear" \/ pc[i] = "tb_clear"
        /\ pc'[i] = "push" /\ unknown' = FALSE /\ UNCHANGED <<loaded, attempts, evidence_lost, local_failure>>
    BY <1>0, <1>12, Zenon DEF ClearUnknown, Goto
  <2> QED
    BY <2>1, Zenon DEF Evidence, Leaving
<1>13. CASE Record(i)
  <2>1. pc[i] = "push" /\ pc'[i] = "leave" /\ Push(i) /\ UNCHANGED <<loaded, unknown, local_failure>>
    BY <1>0, <1>13, Zenon DEF Record, Goto
  <2> QED
    BY <2>1, PushEvidence, Zenon DEF Evidence, Leaving
<1>14. CASE Throw(i)
  <2>1. /\ pc[i] \in {"send", "receive", "q_test", "push"} /\ pc'[i] = "leave" /\ evidence_lost' = TRUE
        /\ unknown' = (unknown \/ submitted > completed) /\ UNCHANGED <<loaded, attempts, local_failure>>
    BY <1>0, <1>14, Zenon DEF Throw, Goto
  <2>2. unknown' => unknown \/ submitted > completed
    BY <2>1, Zenon
  <2> QED
    BY <2>1, <2>2, Zenon DEF Evidence, Leaving
<1>15. CASE Leave(i)
  <2>1. pc[i] = "leave" /\ pc'[i] = "left" /\ UNCHANGED <<loaded, unknown, attempts, evidence_lost, local_failure>>
    BY <1>0, <1>15, Zenon DEF Leave, Goto
  <2> QED
    BY <2>1, Zenon DEF Evidence, Leaving
<1>16. CASE Return(i)
  <2>1. pc[i] = "left" /\ pc'[i] = "returned" /\ UNCHANGED <<loaded, unknown, attempts, evidence_lost, local_failure>>
    BY <1>0, <1>16, Zenon DEF Return, Goto, ctxVars
  <2> QED
    BY <2>1, Zenon DEF Evidence, Leaving
<1> QED
  BY <1>1, <1>2, <1>3, <1>4, <1>5, <1>6, <1>7, <1>8, <1>9, <1>10, <1>11, <1>12, <1>13, <1>14, <1>15, <1>16, Zenon DEF Callback

\* A set latch with agreeing counters always has somebody who clears it.
LEMMA CallbackLatchBacked ==
    ASSUME RigAssumption, RInv, CInv, NEW i \in Calls, Callback(i), Effect(i), Moved(i), Evidence(i)
    PROVE  LatchBacked'
<1>a. SUFFICES ASSUME unknown' /\ submitted' = completed' PROVE \E j \in Calls : Clearing(j)'
  BY Zenon DEF LatchBacked
<1>0. submitted' = completed'
  BY <1>a, Zenon
<1>1. /\ submitted \in Int /\ completed \in Int /\ completed <= submitted
      /\ pc[i] = "latch" => completed < submitted
  BY CountersApart, Zenon DEF RInv, Types
<1>2. CASE pc'[i] \in {"tb_submitted", "tb_clear", "q_clear"}
  BY <1>2, Zenon DEF Clearing
<1>3. CASE pc'[i] = "tb_completed"
  <2>1. submitted' = submitted /\ completed' = completed /\ loaded'[i] = submitted
    BY <1>3, Zenon DEF Effect, SameCounters, Evidence
  <2> QED
    BY <1>0, <1>3, <2>1, Zenon DEF Clearing
<1>4. CASE pc[i] = "latch"
  <2>1. submitted' = submitted /\ completed' = completed
    BY <1>4, Zenon DEF Effect, SameCounters
  <2>2. submitted # completed
    BY <1>1, <1>4
  <2> QED
    BY <1>0, <2>1, <2>2, Zenon
<1>5. CASE pc[i] = "submit"
  <2>1. submitted' = submitted + 1 /\ completed' = completed
    BY <1>5, Zenon DEF Effect
  <2>2. submitted + 1 # completed
    BY <1>1
  <2> QED
    BY <1>0, <2>1, <2>2, Zenon
<1>6. CASE pc'[i] \notin {"tb_submitted", "tb_clear", "q_clear", "tb_completed"} /\ pc[i] \notin {"latch", "submit"}
  <2>0. SameCounters
    BY <1>6, Zenon DEF Effect
  <2>1. submitted' = submitted /\ completed' = completed
    BY <2>0, Zenon DEF SameCounters
  <2>2. unknown /\ submitted = completed
    <3>0. submitted = completed
      BY <1>0, <2>1, Zenon
    <3>1. submitted = completed /\ ~(submitted > completed)
      BY <1>1, <3>0
    <3>2. pc[i] # "latch"
      BY <1>6, Zenon
    <3> QED
      BY <1>a, <3>1, <3>2, Zenon DEF Evidence
  <2>3. PICK w \in Calls : Clearing(w)
    BY <2>2, Zenon DEF CInv, LatchBacked
  <2>4. w # i
    <3> SUFFICES ASSUME Clearing(i) PROVE FALSE
      BY <2>3, Zenon
    <3>1. pc[i] # "tb_clear" /\ pc[i] # "q_clear"
      <4>1. ~(pc[i] \in {"tb_clear", "q_clear"})
        BY <1>a, Zenon DEF Evidence
      <4> QED
        BY <4>1, Zenon
    <3>2. pc[i] = "tb_submitted" => pc'[i] = "tb_completed"
      BY Zenon DEF Effect
    <3>3. pc[i] = "tb_completed" /\ loaded[i] = completed => pc'[i] = "tb_clear"
      BY Zenon DEF Evidence
    <3> QED
      BY <1>6, <3>1, <3>2, <3>3, Zenon DEF Clearing
  <2>5. pc'[w] = pc[w] /\ loaded'[w] = loaded[w]
    BY <2>3, <2>4, Zenon DEF Moved, Evidence
  <2> QED
    BY <2>1, <2>3, <2>5, Zenon DEF Clearing
<1> QED
  BY <1>2, <1>3, <1>4, <1>5, <1>6, Zenon

\* Without a lost record every submission is accounted for.
LEMMA CallbackExact ==
    ASSUME RigAssumption, RInv, CInv, NEW i \in Calls, Callback(i), Evidence(i)
    PROVE  Exact'
<1> SUFFICES ASSUME ~evidence_lost' PROVE submitted' = Cardinality(Own')
  BY Zenon DEF Exact
<1>1. submitted = Cardinality(Own)
  BY Zenon DEF Evidence, CInv, Exact
<1>2. (\A j \in Calls : Local(j)) /\ Types /\ (at[i].injected => i = 0)
  BY Zenon DEF RInv, Witnessed
<1>3. CASE pc[i] \in {"submit", "takeback"}
  BY <1>1, <1>2, <1>3, OwnMoves, Zenon
<1>4. CASE pc[i] \notin {"submit", "takeback"}
  <2>1. ~(pc[i] = "send" /\ pc'[i] = "leave")
    BY Zenon DEF Evidence
  <2> QED
    BY <1>1, <1>2, <1>4, <2>1, OwnMoves
<1> QED
  BY <1>3, <1>4, Zenon

\* Who leaves after an attempt leaves a record.
LEMMA CallbackUnrecorded ==
    ASSUME RInv, CInv, NEW i \in Calls, Effect(i), Moved(i), Evidence(i)
    PROVE  Unrecorded'
<1> SUFFICES ASSUME ~evidence_lost', attempts' = <<>>
             PROVE  /\ \A j \in Calls : pc'[j] \in Leaving => at'[j].wire = "none"
                    /\ local_failure' => \E j \in Calls : pc'[j] \in TakingBack
  BY Zenon DEF Unrecorded
<1>1. ~evidence_lost /\ attempts = <<>>
  BY Zenon DEF Evidence
<1>2. /\ \A j \in Calls : pc[j] \in Leaving => at[j].wire = "none"
      /\ local_failure => \E j \in Calls : pc[j] \in TakingBack
  BY <1>1, Zenon DEF CInv, Unrecorded
<1>3. \A j \in Calls : j # i => pc'[j] = pc[j] /\ at'[j] = at[j]
  BY Zenon DEF Moved
<1>4. pc'[i] = "leave" => pc[i] = "check"
  BY Zenon DEF Evidence
<1>5. pc'[i] \in Leaving => at'[i].wire = "none"
  <2> SUFFICES ASSUME pc'[i] \in Leaving PROVE at'[i].wire = "none"
    BY Zenon
  <2>1. pc[i] = "check" \/ pc[i] \in Leaving
    BY <1>4, Zenon DEF Effect, Leaving
  <2>2. at[i].wire = "none"
    <3>1. pc[i] = "check" => at[i].wire = "none"
      BY Zenon DEF RInv, Local, Silent
    <3> QED
      BY <1>2, <2>1, <3>1, Zenon
  <2>3. pc[i] \in {"check", "leave", "left", "returned"}
    BY <2>1, Zenon DEF Leaving
  <2>4. SameRecord(i)
    BY <2>3, Zenon DEF Effect
  <2> QED
    BY <2>2, <2>4, Zenon DEF SameRecord
<1>6. ASSUME local_failure' PROVE \E j \in Calls : pc'[j] \in TakingBack
  <2>1. CASE local_failure
    <3>1. PICK w \in Calls : pc[w] \in TakingBack
      BY <1>2, <2>1, Zenon
    <3>2. CASE w = i
      <4>1. pc'[i] \in TakingBack
        BY <1>4, <3>1, <3>2, Zenon DEF Effect, TakingBack
      <4> QED
        BY <4>1, Zenon
    <3>3. CASE w # i
      BY <1>3, <3>1, <3>3, Zenon
    <3> QED
      BY <3>2, <3>3, Zenon
  <2>2. CASE ~local_failure
    <3>1. pc'[i] = "takeback"
      BY <1>4, <1>6, <2>2, Zenon DEF Evidence
    <3>2. pc'[i] \in TakingBack
      BY <3>1, Zenon DEF TakingBack
    <3> QED
      BY <3>2, Zenon
  <2> QED
    BY <2>1, <2>2, Zenon
<1> QED
  BY <1>2, <1>3, <1>5, <1>6, Zenon

\* With one invocation there is at most one request.
LEMMA OneRequest ==
    ASSUME RigAssumption, RInv, invocations <= 1
    PROVE  /\ Own \subseteq {0} /\ \A j \in Calls : pc[j] # "none" => j = 0
           /\ at[0].wire # "none" => Cardinality(Own) = 1
           /\ pc[0] \in {"q_test", "q_count"} => Cardinality(Qualified) = 0
<1>1. \A j \in Calls : j \in Nat /\ Local(j)
  BY CallsFinite, Zenon DEF RInv
<1>2. invocations \in Nat /\ 0 \in Calls
  BY CallsFinite DEF RInv, Types
<1>3. \A j \in Calls : j # 0 => pc[j] = "none"
  BY <1>1, <1>2 DEF Local
<1>4. \A j \in Calls : j # 0 => j \notin Own
  BY <1>1, <1>3, Zenon DEF Local, Own, Silent
<1>5. Own \subseteq {0}
  BY <1>4, Zenon DEF Own
<1>6. ASSUME at[0].wire # "none" PROVE Cardinality(Own) = 1
  <2>1. Own = {0}
    BY <1>2, <1>5, <1>6, Zenon DEF Own
  <2> QED
    BY <2>1, FS_Singleton, Zenon
<1>7. ASSUME pc[0] \in {"q_test", "q_count"} PROVE Cardinality(Qualified) = 0
  <2>1. Qualified \subseteq Own /\ 0 \notin Qualified
    BY <1>7, CountersApart, Zenon DEF RInv, Qualified
  <2>2. Qualified = {}
    BY <1>5, <2>1, Zenon
  <2> QED
    BY <2>2, FS_EmptySet, Zenon
<1> QED
  BY <1>3, <1>5, <1>6, <1>7, Zenon

\* The first callback, while it is the only one: its qualified receipt is counted, and
\* the latch cleared.
LEMMA CallbackSingle ==
    ASSUME RigAssumption, RInv, CInv, NEW i \in Calls, Effect(i), Moved(i), Evidence(i)
    PROVE  Single'
<1> SUFFICES ASSUME invocations' <= 1 PROVE Single'
  BY Zenon DEF Single
<1>1. invocations <= 1 /\ i = 0 /\ pc[0] # "none"
  <2>1. invocations <= 1 /\ pc[i] # "none"
    BY Zenon DEF Moved
  <2> QED
    BY <2>1, OneRequest, Zenon
<1>2. /\ pc[0] \notin TakingBack \cup Leaving => ~local_failure
      /\ pc[0] \notin Leaving => attempts = <<>> /\ ~evidence_lost
      /\ evidence_lost => attempts = <<>>
      /\ at[0].qualified /\ ~evidence_lost =>
            /\ pc[0] = "q_clear" => completed = 1
            /\ pc[0] \in {"push", "leave", "left", "returned"} => completed = 1 /\ ~unknown /\ ~local_failure
  BY <1>1, Zenon DEF CInv, Single
<1>3. Local(0) /\ submitted \in Int /\ completed \in Int /\ completed >= 0 /\ completed <= Cardinality(Qualified)
  BY <1>1, Zenon DEF RInv, Types, CInv, Counters
<1>4. pc'[0] \notin TakingBack \cup Leaving => ~local_failure'
  <2>1. pc'[0] \notin TakingBack \cup Leaving => pc[0] \notin TakingBack \cup Leaving /\ pc'[0] # "takeback"
    BY <1>1, Zenon DEF Effect, TakingBack, Leaving
  <2>2. pc'[0] \notin TakingBack \cup Leaving => pc'[0] # "leave"
    BY Zenon DEF Leaving
  <2> QED
    BY <1>1, <1>2, <2>1, <2>2, Zenon DEF Evidence
<1>5. pc'[0] \notin Leaving => attempts' = <<>> /\ ~evidence_lost'
  <2>1. pc'[0] \notin Leaving => pc[0] \notin Leaving /\ pc'[0] # "leave"
    BY <1>1, Zenon DEF Effect, Leaving
  <2> QED
    BY <1>1, <1>2, <2>1, Zenon DEF Evidence
<1>6. evidence_lost' => attempts' = <<>>
  <2>1. CASE pc[0] \in Leaving
    <3>1. pc'[0] # "leave"
      BY <1>1, <2>1, Zenon DEF Effect, Leaving
    <3> QED
      BY <1>1, <1>2, <3>1, Zenon DEF Evidence
  <2>2. CASE pc[0] \notin Leaving
    BY <1>1, <1>2, <2>2, Zenon DEF Evidence
  <2> QED
    BY <2>1, <2>2, Zenon
<1>7. ASSUME at'[0].qualified, ~evidence_lost', pc'[0] = "q_clear"
      PROVE  completed' = 1
  <2>1. pc[0] = "q_count" /\ completed' = completed + 1
    BY <1>1, <1>7, Zenon DEF Effect
  <2>2. completed = 0
    BY <1>1, <1>3, <2>1, OneRequest
  <2> QED
    BY <2>1, <2>2
<1>8. ASSUME at'[0].qualified, ~evidence_lost', pc'[0] \in {"push", "leave", "left", "returned"}
      PROVE  completed' = 1 /\ ~unknown' /\ ~local_failure'
  <2>0. ~evidence_lost
    BY <1>8, Zenon DEF Evidence
  <2>1. CASE pc'[0] = "push"
    <3>a. pc[0] \in {"tb_completed", "receive", "q_test", "q_clear", "tb_clear"}
      BY <1>1, <2>1, Zenon DEF Effect
    <3>b. SameRecord(0) /\ SameCounters
      BY <1>1, <2>1, Zenon DEF Effect
    <3>1. pc[0] \in {"tb_completed", "receive", "q_test", "q_clear", "tb_clear"} /\ SameRecord(0) /\ SameCounters
      BY <3>a, <3>b, Zenon
    <3>2. at[0].qualified /\ pc[0] \notin {"tb_completed", "tb_clear", "receive"}
      BY <1>3, <1>8, <3>1, Zenon DEF SameRecord, Local, Silent
    <3>3. pc[0] # "q_test"
      <4>1. pc[0] = "q_test" => submitted = 1
        <5>1. at[0].wire # "none"
          BY <1>3, <3>2, Zenon DEF Local
        <5>2. Cardinality(Own) = 1
          BY <1>1, <5>1, OneRequest, Zenon
        <5> QED
          BY <2>0, <5>2, Zenon DEF CInv, Exact
      <4> QED
        BY <1>1, <2>1, <4>1, Zenon DEF Evidence
    <3>4. pc[0] = "q_clear"
      BY <3>1, <3>2, <3>3, Zenon
    <3>5. completed = 1 /\ ~local_failure
      BY <1>2, <2>0, <3>2, <3>4, Zenon DEF TakingBack, Leaving
    <3>6. ~unknown' /\ ~local_failure'
      BY <1>1, <2>1, <3>4, <3>5, Zenon DEF Evidence
    <3> QED
      BY <3>1, <3>5, <3>6, Zenon DEF SameCounters
  <2>2. CASE pc'[0] = "leave"
    <3>1. pc[0] \in {"check", "build", "push"}
      BY <1>1, <1>8, <2>2, Zenon DEF Evidence
    <3>2. SameRecord(0) /\ SameCounters
      BY <1>1, <2>2, Zenon DEF Effect
    <3>3. at[0].qualified /\ pc[0] = "push"
      BY <1>3, <1>8, <3>1, <3>2, Zenon DEF SameRecord, Local, Silent
    <3>4. completed = 1 /\ ~unknown /\ ~local_failure
      BY <1>2, <2>0, <3>3, Zenon
    <3>5. ~unknown' /\ ~local_failure'
      BY <1>1, <1>8, <2>2, <3>3, <3>4 DEF Evidence, Leaving
    <3> QED
      BY <3>2, <3>4, <3>5, Zenon DEF SameCounters
  <2>3. CASE pc'[0] \in {"left", "returned"}
    <3>1. pc[0] \in {"leave", "left"} /\ SameRecord(0) /\ SameCounters /\ unknown' = unknown
      BY <1>1, <2>3, Zenon DEF Effect
    <3>2. completed = 1 /\ ~unknown /\ ~local_failure
      BY <1>2, <1>8, <2>0, <3>1, Zenon DEF SameRecord
    <3>3. ~local_failure'
      BY <1>1, <2>3, <3>2, Zenon DEF Evidence
    <3> QED
      BY <3>1, <3>2, <3>3, Zenon DEF SameCounters
  <2> QED
    BY <1>8, <2>1, <2>2, <2>3, Zenon
<1> QED
  BY <1>4, <1>5, <1>6, <1>7, <1>8, Zenon DEF Single

LEMMA CallbackCInv ==
    ASSUME RigAssumption, RInv, CInv, NEW i \in Calls, Callback(i)
    PROVE  CInv'
<1>1. Types /\ Local(i) /\ (at[i].injected => i = 0)
  BY Zenon DEF RInv, Witnessed
<1>2. Moved(i) /\ Effect(i) /\ Evidence(i)
  <2>1. loaded \in [Calls -> Int]
    BY Zenon DEF CInv
  <2> QED
    BY <1>1, <2>1, CallbackMoves, CallbackEffect, CallbackEvidence, Zenon
<1>3. completed' >= 0
  <2>1. completed \in Int /\ completed >= 0
    BY <1>1, Zenon DEF Types, CInv
  <2>2. completed' = completed \/ completed' = completed + 1
    BY <1>2, Zenon DEF Effect, SameCounters
  <2> QED
    BY <2>1, <2>2
<1>4. loaded' \in [Calls -> Int]
  BY <1>2, Zenon DEF Evidence
<1>5. LatchBacked' /\ Exact' /\ Unrecorded' /\ Single'
  BY <1>2, CallbackLatchBacked, CallbackExact, CallbackUnrecorded, CallbackSingle, Zenon
<1> QED
  BY <1>3, <1>4, <1>5, Zenon DEF CInv

\* A new callback has done nothing yet.
LEMMA EnterCInv ==
    ASSUME RigAssumption, RInv, CInv, NEW t \in Threads, Enter(t)
    PROVE  CInv'
<1> DEFINE i == invocations
<1>1. Types /\ \A j \in Calls : Local(j)
  BY Zenon DEF RInv
<1>2. /\ i \in Calls /\ i \in Nat /\ at'[i].wire = "none" /\ at'[i].qualified = FALSE
      /\ pc'[i] = "check" /\ pc[i] = "none" /\ at[i].wire = "none"
      /\ \A j \in Calls : j # i => at'[j] = at[j] /\ pc'[j] = pc[j]
  BY <1>1, EnterFacts, Zenon
<1>3. UNCHANGED <<submitted, completed, unknown, evidence_lost, local_failure, attempts, loaded>>
  BY Zenon DEF Enter
<1>4. invocations' = i + 1
  BY Zenon DEF Enter
<1> HIDE DEF i
<1>5. Own' = Own
  <2>1. i \notin Own /\ i \notin Own'
    BY <1>2, Zenon DEF Own
  <2>2. ASSUME NEW j \in Calls PROVE j \in Own' <=> j \in Own
    <3>1. j # i => at'[j] = at[j] /\ pc'[j] = pc[j]
      BY <1>2, Zenon
    <3> QED
      BY <2>1, <3>1, Zenon DEF Own
  <2>3. Own \subseteq Calls /\ Own' \subseteq Calls
    BY Zenon DEF Own
  <2> QED
    BY <2>2, <2>3, Zenon
<1>6. LatchBacked'
  <2> SUFFICES ASSUME unknown /\ submitted = completed PROVE \E j \in Calls : Clearing(j)'
    BY <1>3, Zenon DEF LatchBacked
  <2>1. PICK w \in Calls : Clearing(w)
    BY Zenon DEF CInv, LatchBacked
  <2>2. w # i
    BY <1>2, <2>1, Zenon DEF Clearing
  <2> QED
    BY <1>2, <1>3, <2>1, <2>2, Zenon DEF Clearing
<1>7. Exact'
  BY <1>3, <1>5, Zenon DEF CInv, Exact
<1>8. Unrecorded'
  <2> SUFFICES ASSUME ~evidence_lost /\ attempts = <<>>
               PROVE  /\ \A j \in Calls : pc'[j] \in Leaving => at'[j].wire = "none"
                      /\ local_failure => \E j \in Calls : pc'[j] \in TakingBack
    BY <1>3, Zenon DEF Unrecorded
  <2>1. /\ \A j \in Calls : pc[j] \in Leaving => at[j].wire = "none"
        /\ local_failure => \E j \in Calls : pc[j] \in TakingBack
    BY Zenon DEF CInv, Unrecorded
  <2>2. pc[i] \notin TakingBack
    BY <1>2, Zenon DEF TakingBack
  <2> QED
    BY <1>2, <2>1, <2>2, Zenon
<1>9. Single'
  <2> SUFFICES ASSUME invocations' <= 1 PROVE Single'
    BY Zenon DEF Single
  <2>1. i = 0 /\ invocations <= 1
    <3>1. i = 0
      BY <1>2, <1>4
    <3> QED
      BY <3>1 DEF i
  <2>2. pc[0] = "none" /\ pc'[0] = "check" /\ at'[0].qualified = FALSE
    BY <1>2, <2>1, Zenon
  <2>3. pc[0] \notin TakingBack \cup Leaving /\ pc[0] \notin Leaving
    BY <2>2, Zenon DEF TakingBack, Leaving
  <2>4. ~local_failure /\ attempts = <<>> /\ ~evidence_lost
    BY <2>1, <2>3, Zenon DEF CInv, Single
  <2> QED
    BY <1>3, <2>2, <2>4, Zenon DEF Single
<1> QED
  BY <1>3, <1>6, <1>7, <1>8, <1>9, Zenon DEF CInv

\* The rest of the probe leaves the callbacks and their context alone.
LEMMA StillCInv ==
    ASSUME CInv, UNCHANGED <<pc, at, ctxVars, loaded>>
    PROVE  CInv'
<1>1. /\ UNCHANGED <<pc, at, loaded, invocations, submitted, completed, unknown>>
      /\ UNCHANGED <<evidence_lost, local_failure, attempts>>
  BY Zenon DEF ctxVars
<1>2. Own' = Own /\ \A i \in Calls : Clearing(i)' <=> Clearing(i)
  BY <1>1, Zenon DEF Own, Clearing
<1>3. LatchBacked' /\ Exact' /\ Unrecorded'
  BY <1>1, <1>2, Zenon DEF CInv, LatchBacked, Exact, Unrecorded
<1>4. Single'
  BY <1>1, Zenon DEF CInv, Single
<1> QED
  BY <1>1, <1>3, <1>4, Zenon DEF CInv

LEMMA InitCInv == RigAssumption /\ Init => CInv
<1> SUFFICES ASSUME RigAssumption, Init PROVE CInv
  BY Zenon
<1>1. Own = {}
  BY Zenon DEF Init, Own, NoAttempt
<1>2. Exact
  BY <1>1, FS_EmptySet, Zenon DEF Init, Exact
<1>3. loaded \in [Calls -> Int] /\ completed >= 0
  BY DEF Init
<1>4. LatchBacked /\ Unrecorded
  BY Zenon DEF Init, LatchBacked, Unrecorded, Leaving, NoAttempt
<1>5. Single
  <2>1. 0 \in Calls
    BY CallsFinite, Zenon
  <2>2. ~local_failure /\ attempts = <<>> /\ ~evidence_lost
    BY Zenon DEF Init
  <2>3. ~at[0].qualified
    BY <2>1, Zenon DEF Init, NoAttempt
  <2> QED
    BY <2>2, <2>3, Zenon DEF Single
<1> QED
  BY <1>2, <1>3, <1>4, <1>5, Zenon DEF CInv

LEMMA NextCInv ==
    ASSUME RigAssumption, RInv, CInv, [ProbeNext]_probeVars
    PROVE  CInv'
<1>1. CASE UNCHANGED vars
  BY <1>1, StillCInv, Zenon DEF vars
<1>2. ASSUME NEW t \in Threads, Enter(t)
      PROVE  CInv'
  BY <1>2, EnterCInv, Zenon
<1>3. ASSUME NEW i \in Calls, Callback(i)
      PROVE  CInv'
  BY <1>3, CallbackCInv, Zenon
<1>4. CASE ServerWrites
  BY <1>4, StillCInv, Zenon DEF ServerWrites
<1>5. CASE Experiment \/ OutputFails
  <2>1. UNCHANGED <<pc, at, ctxVars, loaded>>
    BY <1>5, Zenon DEF Experiment, Setup, SdkReturns, Gate, ReadLanding, Release, Judge, OutputFails
  <2> QED
    BY <2>1, StillCInv, Zenon
<1> QED
  BY <1>1, <1>2, <1>3, <1>4, <1>5, Zenon DEF ProbeNext, SingleStep, ExitStep, Next, probeVars

\* A context with the flags of Ends is one of them.
LEMMA FlagsEnd ==
    ASSUME NEW r \in BOOLEAN, NEW a \in BOOLEAN, NEW u \in BOOLEAN, NEW l \in BOOLEAN, NEW f \in BOOLEAN,
           r \/ l, u => ~a, l => ~f /\ (u <=> ~a)
    PROVE  [recorded |-> r, native |-> FALSE, agree |-> a, unknown |-> u, lost |-> l, local |-> f] \in Ends
  BY Zenon DEF Ends

\* The context of a GET whose only callback has a qualified receipt.
LEMMA NativeEnd ==
    [recorded |-> TRUE, native |-> TRUE, agree |-> TRUE, unknown |-> FALSE, lost |-> FALSE, local |-> FALSE] \in Ends
  BY Zenon DEF Ends

\* Without a record nothing was submitted, and the context is as good as new.
LEMMA NothingLeft ==
    ASSUME RigAssumption, RInv, CInv, \A i \in Calls : pc[i] \in {"none", "returned"},
           ~evidence_lost, attempts = <<>>
    PROVE  completed = submitted /\ ~local_failure
<1>1. \A i \in Calls : pc[i] \in Leaving => at[i].wire = "none"
  BY Zenon DEF CInv, Unrecorded
<1>2. ~local_failure
  <2>1. \A i \in Calls : pc[i] \notin TakingBack
    BY Zenon DEF TakingBack
  <2> QED
    BY <2>1, Zenon DEF CInv, Unrecorded
<1>3. \A i \in Calls : at[i].wire = "none" /\ pc[i] \notin {"latch", "send", "takeback"}
  <2> SUFFICES ASSUME NEW i \in Calls PROVE at[i].wire = "none" /\ pc[i] \notin {"latch", "send", "takeback"}
    BY Zenon
  <2>1. pc[i] = "none" \/ pc[i] = "returned"
    BY Zenon
  <2>2. pc[i] = "none" => at[i].wire = "none"
    BY Zenon DEF RInv, Local, Silent
  <2> QED
    BY <1>1, <2>1, <2>2, Zenon DEF Leaving
<1>4. Own = {}
  BY <1>3, Zenon DEF Own
<1>5. submitted = 0
  BY <1>4, FS_EmptySet, Zenon DEF CInv, Exact
<1>6. completed <= submitted /\ completed \in Int /\ completed >= 0
  BY CountersApart, Zenon DEF RInv, Types, CInv
<1> QED
  BY <1>2, <1>5, <1>6

\* However the callbacks of a GET were interleaved and whichever step failed, they
\* leave one of the contexts that the experiment c is modelled with: the latch of
\* rig_callback_impl is never left set with counters that agree, a single qualified
\* receipt leaves nothing against it, and where there is no record nothing was sent.
\* Counters that agree mean that no request is in flight.
THEOREM ContextsCovered == ProbeSpec => []ContextCovered
<1>1. RInv /\ CInv => ContextCovered
  <2> SUFFICES ASSUME RInv, CInv, \A i \in Calls : pc[i] \in {"none", "returned"}
               PROVE  Left \in Ends \cup {NoContext} /\ (Left.agree => InFlight = {})
    BY Zenon DEF ContextCovered
  <2> DEFINE a == completed = submitted
             n == invocations = 1 /\ attempts # <<>> /\ at[attempts[1]].qualified
             r == attempts # <<>>
             u == IF evidence_lost THEN ~a ELSE unknown
             f == local_failure /\ ~evidence_lost
  <2>a. Left = [recorded |-> r, native |-> n, agree |-> a, unknown |-> u, lost |-> evidence_lost, local |-> f]
    BY Zenon DEF Left
  <2>b. r \in BOOLEAN /\ n \in BOOLEAN /\ a \in BOOLEAN /\ f \in BOOLEAN
    BY Zenon
  <2>0. Types /\ (\A j \in Calls : Local(j)) /\ Counters /\ Witnessed
    BY Zenon DEF RInv
  <2>1. Left.agree => InFlight = {}
    BY <2>0, EqualSound, RigAssumption, Zenon DEF Left
  <2>2. unknown => ~a
    <3>1. \A i \in Calls : ~Clearing(i)
      BY Zenon DEF Clearing
    <3> QED
      BY <3>1, Zenon DEF CInv, LatchBacked
  <2>3. unknown \in BOOLEAN /\ evidence_lost \in BOOLEAN
    BY <2>0, Zenon DEF Types
  <2>4. CASE evidence_lost
    <3>1. ~n
      <4>1. invocations = 1 => attempts = <<>>
        <5>1. invocations = 1 => invocations <= 1
          OBVIOUS
        <5> QED
          BY <2>4, <5>1, Zenon DEF CInv, Single
      <4> QED
        BY <4>1, Zenon
    <3>2. n = FALSE /\ u = ~a /\ evidence_lost = TRUE /\ f = FALSE
      BY <2>3, <2>4, <3>1, Zenon
    <3> HIDE DEF r, n, a, u, f
    <3>3. Left = [recorded |-> r, native |-> FALSE, agree |-> a, unknown |-> ~a, lost |-> TRUE, local |-> FALSE]
      BY <2>a, <3>2, Zenon
    <3>4. Left \in Ends
      BY <2>b, <3>3, FlagsEnd, Zenon
    <3> QED
      BY <2>1, <3>4, Zenon
  <2>5. CASE ~evidence_lost /\ attempts = <<>>
    <3>1. a /\ ~local_failure
      BY <2>5, NothingLeft, RigAssumption, Zenon
    <3>2. ~unknown
      BY <2>2, <3>1, Zenon
    <3>3. r = FALSE /\ n = FALSE /\ a = TRUE /\ u = FALSE /\ evidence_lost = FALSE /\ f = FALSE
      BY <2>3, <2>5, <3>1, <3>2, Zenon
    <3> HIDE DEF r, n, a, u, f
    <3>4. Left = NoContext
      BY <2>a, <3>3, Zenon DEF NoContext
    <3> QED
      BY <2>1, <3>4, Zenon
  <2>6. CASE ~evidence_lost /\ n
    <3>1. invocations = 1 /\ attempts # <<>> /\ at[0].qualified
      <4>1. attempts[1] \in Calls /\ attempts[1] < invocations
        BY <2>0, <2>6 DEF Types, Witnessed
      <4>2. attempts[1] = 0
        BY <2>6, <4>1, CallsFinite, RigAssumption
      <4> QED
        BY <2>6, <4>2, Zenon
    <3>2. 0 \in Calls /\ pc[0] = "returned" /\ at[0].wire # "none"
      <4>1. 0 \in Calls
        BY CallsFinite, RigAssumption, Zenon
      <4>2. pc[0] = "none" \/ pc[0] = "returned"
        BY <4>1, Zenon
      <4> QED
        BY <2>0, <3>1, <4>1, <4>2, Zenon DEF Local, Silent
    <3>3. completed = 1 /\ ~unknown /\ ~local_failure
      <4>1. invocations <= 1
        BY <3>1
      <4>2. pc[0] \in {"push", "leave", "left", "returned"}
        BY <3>2, Zenon
      <4> QED
        BY <2>6, <3>1, <4>1, <4>2, Zenon DEF CInv, Single
    <3>4. submitted = 1
      <4>1. Cardinality(Own) = 1
        BY <3>1, <3>2, OneRequest, RigAssumption
      <4> QED
        BY <2>6, <4>1, Zenon DEF CInv, Exact
    <3>5. a
      BY <3>3, <3>4, Zenon
    <3>6. r = TRUE /\ n = TRUE /\ a = TRUE /\ u = FALSE /\ evidence_lost = FALSE /\ f = FALSE
      BY <2>3, <2>6, <3>3, <3>5, Zenon
    <3> HIDE DEF r, n, a, u, f
    <3>7. Left \in Ends
      BY <2>a, <3>6, NativeEnd, Zenon
    <3> QED
      BY <2>1, <3>7, Zenon
  <2>7. CASE ~evidence_lost /\ attempts # <<>> /\ ~n
    <3>1. r = TRUE /\ n = FALSE /\ u = unknown /\ evidence_lost = FALSE
      BY <2>3, <2>7, Zenon
    <3> HIDE DEF r, n, a, u, f
    <3>2. Left = [recorded |-> TRUE, native |-> FALSE, agree |-> a, unknown |-> unknown, lost |-> FALSE, local |-> f]
      BY <2>a, <3>1, Zenon
    <3>3. Left \in Ends
      BY <2>2, <2>3, <2>b, <3>2, FlagsEnd, Zenon
    <3> QED
      BY <2>1, <3>3, Zenon
  <2> QED
    BY <2>4, <2>5, <2>6, <2>7, Zenon
<1>2. ProbeInit => CInv
  BY InitCInv, RigAssumption, Zenon DEF ProbeInit
<1>3. RInv /\ CInv /\ [ProbeNext]_probeVars => CInv'
  BY NextCInv, RigAssumption, Zenon
<1> QED
  BY <1>1, <1>2, <1>3, ProbeInv, RigAssumption, PTL DEF ProbeSpec

-----------------------------------------------------------------------------
(* The exit experiment. *)

\* What the parent has done, and how far a child with status 0 has come.
ExitInv ==
    /\ abrupt \in BOOLEAN /\ output \in [parent : BOOLEAN, child : BOOLEAN]
    /\ parent = "start" => child = "none"
    /\ now \in Nat
    /\ parent \in {"start", "wait"} => killed = "no"
    /\ parent = "reap" => killed # "no" /\ until >= Deadline + Grace
    /\ status = "0" => complete /\ ~output.child /\ child \in {"final", "zombie", "gone"}
    /\ status = "0" /\ child # "final" => returned \/ abrupt
    /\ result = "PASS" => parent = "done"
    /\ ExitPassEarned
    /\ NoChildLeft

\* Init establishes what the exit experiment relies on.
LEMMA ExitInitInv == ProbeInit => ExitInv
BY DEF ProbeInit, Exit!Init, ExitInv, ExitPassEarned, NoChildLeft, Exit!ExitPassEarned, Exit!NoChildLeft

\* A record that could not be written sets the flag of its own process only.
LEMMA OutputKept ==
    ASSUME NEW o \in [parent : BOOLEAN, child : BOOLEAN], NEW n
    PROVE  /\ n \in {o, [o EXCEPT !.parent = TRUE]} => n \in [parent : BOOLEAN, child : BOOLEAN] /\ n.child = o.child
           /\ n \in {o, [o EXCEPT !.child = TRUE]} => n \in [parent : BOOLEAN, child : BOOLEAN]
<1> DEFINE p == [o EXCEPT !.parent = TRUE]
           c == [o EXCEPT !.child = TRUE]
<1>1. p \in [parent : BOOLEAN, child : BOOLEAN]
  BY Zenon
<1>2. p.child = o.child
  BY Zenon
<1>3. c \in [parent : BOOLEAN, child : BOOLEAN]
  BY Zenon
<1> HIDE DEF p, c
<1>4. /\ n \in {o, p} => n \in [parent : BOOLEAN, child : BOOLEAN] /\ n.child = o.child
      /\ n \in {o, c} => n \in [parent : BOOLEAN, child : BOOLEAN]
  BY <1>1, <1>2, <1>3, Zenon
<1> QED
  BY <1>4, Zenon DEF p, c

\* Every step of the child keeps it: only the whole of main() leads to status 0.
LEMMA ChildInv == ASSUME ExitInv, Exit!Child PROVE ExitInv'
<1> USE DEF ExitInv, ExitPassEarned, NoChildLeft, Exit!ExitPassEarned, Exit!NoChildLeft, Exit!Running
<1>1. CASE Exit!ChildExec
  BY <1>1, Zenon DEF Exit!ChildExec, Exit!End
<1>2. CASE Exit!ChildSetup
  BY <1>2, Zenon DEF Exit!ChildSetup, Exit!Returns
<1>3. CASE Exit!ChildGet
  <2>1. CASE Exit!Returns("3") /\ UNCHANGED <<complete, output>>
    BY <1>3, <2>1, Zenon DEF Exit!ChildGet, Exit!Returns
  <2>2. CASE /\ complete' \in BOOLEAN /\ output' \in {output, [output EXCEPT !.child = TRUE]}
             /\ status' = IF output'.child THEN "5" ELSE IF complete' THEN "0" ELSE "1"
             /\ child' \in {"final", "zombie", "gone"} /\ (child' # "final" => abrupt)
    <3>1. output' \in [parent : BOOLEAN, child : BOOLEAN] /\ result # "PASS"
      BY <1>3, <2>2, OutputKept, Zenon DEF Exit!ChildGet
    <3>2. status' = "0" => complete' /\ ~output'.child
      BY <2>2, <3>1, Zenon
    <3> QED
      BY <1>3, <2>2, <3>1, <3>2, Zenon DEF Exit!ChildGet
  <2> QED
    BY <1>3, <2>1, <2>2, Zenon DEF Exit!ChildGet, Exit!Returns, Exit!End
<1>4. CASE Exit!ChildFinalizes
  BY <1>4, Zenon DEF Exit!ChildFinalizes, Exit!End
<1>5. CASE Exit!ChildDies
  BY <1>5, Zenon DEF Exit!ChildDies, Exit!End
<1> QED
  BY <1>1, <1>2, <1>3, <1>4, <1>5, Zenon DEF Exit!Child

\* finish(v) loses no output of the child, and gives PASS only for PASS and whole output.
LEMMA FinishFacts ==
    ASSUME NEW v, Exit!Finish(v), output \in [parent : BOOLEAN, child : BOOLEAN]
    PROVE  /\ output' \in [parent : BOOLEAN, child : BOOLEAN] /\ output'.child = output.child
           /\ \/ parent' = "done" /\ (result' = "PASS" => v = "PASS" /\ ~output'.parent)
              \/ parent' = "aborted" /\ result' = result /\ output' = output
<1>1. CASE parent' = "aborted" /\ UNCHANGED <<output, result>>
  BY <1>1, Zenon
<1>2. CASE parent' = "done" /\ output' \in {output, [output EXCEPT !.parent = TRUE]}
           /\ result' = IF output'.parent /\ v = "PASS" THEN "INCONCLUSIVE" ELSE v
  <2>1. output' \in [parent : BOOLEAN, child : BOOLEAN] /\ output'.child = output.child
    BY <1>2, OutputKept, Zenon
  <2>2. result' = "PASS" => v = "PASS" /\ ~output'.parent
    BY <1>2, <2>1, Zenon
  <2> QED
    BY <1>2, <2>1, <2>2, Zenon
<1> QED
  BY <1>1, <1>2, Zenon DEF Exit!Finish

\* Two processes that lost no output.
LEMMA NoOutputLost ==
    ASSUME NEW o \in [parent : BOOLEAN, child : BOOLEAN], ~o.parent, ~o.child
    PROVE  o = [parent |-> FALSE, child |-> FALSE]
BY Zenon

\* Every step of the parent, and time, keep it.
LEMMA ParentInv == ASSUME ExitAssumption, ExitInv, Exit!Parent \/ Exit!Tick PROVE ExitInv'
<1> USE DEF ExitInv, ExitPassEarned, NoChildLeft, Exit!ExitPassEarned, Exit!NoChildLeft, Exit!Running
<1>1. CASE Exit!Fork
  <2>1. CASE Exit!Finish("ENV_ERROR") /\ UNCHANGED child
    BY <1>1, <2>1, FinishFacts, Zenon DEF Exit!Fork
  <2> QED
    BY <1>1, <2>1, Zenon DEF Exit!Fork
<1>2. CASE Exit!Poll
  <2>1. CASE child = "zombie" /\ child' = "gone" /\ Exit!Finish(Exit!Judge)
    <3>1. Exit!Judge = "PASS" => status = "0" /\ ~abrupt
      BY Zenon DEF Exit!Judge
    <3>2. result' = "PASS" => output' = [parent |-> FALSE, child |-> FALSE]
      BY <1>2, <2>1, <3>1, FinishFacts, NoOutputLost, Zenon DEF Exit!Poll
    <3> QED
      BY <1>2, <2>1, <3>1, <3>2, FinishFacts, Zenon DEF Exit!Poll
  <2>2. CASE child = "gone" /\ UNCHANGED child /\ Exit!Finish("ENV_ERROR")
    BY <1>2, <2>2, FinishFacts, Zenon DEF Exit!Poll
  <2> QED
    BY <1>2, <2>1, <2>2, Zenon DEF Exit!Poll
<1>3. CASE Exit!Kill
  <2>1. until' >= Deadline + Grace
    BY <1>3 DEF Exit!Kill, ExitAssumption
  <2>2. killed' # "no"
    BY <1>3, Zenon DEF Exit!Kill
  <2> QED
    BY <1>3, <2>1, <2>2, Zenon DEF Exit!Kill
<1>4. CASE Exit!Reap
  BY <1>4, FinishFacts, Zenon DEF Exit!Reap
<1>5. CASE Exit!Tick
  <2>1. now' \in Nat
    BY <1>5 DEF Exit!Tick
  <2>2. parent \in {"wait", "reap"}
    BY <1>5, Zenon DEF Exit!Tick
  <2> QED
    BY <1>5, <2>1, <2>2, Zenon DEF Exit!Tick
<1> QED
  BY <1>1, <1>2, <1>3, <1>4, <1>5, Zenon DEF Exit!Parent

\* The exit experiment's invariant holds in every state of the probe.
LEMMA ExitInvariance == ProbeSpec => []ExitInv
<1>1. ASSUME ExitInv, [ProbeNext]_probeVars PROVE ExitInv'
  <2>1. CASE UNCHANGED exitVars
    BY <1>1, <2>1, Zenon DEF exitVars, ExitInv, ExitPassEarned, NoChildLeft, Exit!ExitPassEarned, Exit!NoChildLeft
  <2>2. CASE Exit!Next
    BY <1>1, <2>2, ChildInv, ParentInv, ExitAssumption, Zenon DEF Exit!Next
  <2> QED
    BY <1>1, <2>1, <2>2, Zenon DEF ProbeNext, SingleStep, ExitStep, probeVars
<1> QED
  BY <1>1, ExitInitInv, PTL DEF ProbeSpec

\* The verdict PASS of exp_exit is earned: the child's GET was known complete, and the
\* child came to its end by itself, through a normal return and its finalizers.
THEOREM ExitPass == ProbeSpec => []ExitPassEarned
<1>1. ExitInv => ExitPassEarned
  BY Zenon DEF ExitInv
<1> QED
  BY <1>1, ExitInvariance, PTL

\* exp_exit leaves no child behind whose registration is live, except one that it tried
\* to kill and that is still there at the end of the whole grace time.
THEOREM ChildReaped == ProbeSpec => []NoChildLeft
<1>1. ExitInv => NoChildLeft
  BY Zenon DEF ExitInv
<1> QED
  BY <1>1, ExitInvariance, PTL
=============================================================================
