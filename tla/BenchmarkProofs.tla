-------------------------- MODULE BenchmarkProofs ---------------------------
(***************************************************************************)
(* What the benchmark may rely on about its buffers, its byte counts, its  *)
(* dump and its barrier, for any number of workers, objects and GETs.      *)
(*                                                                         *)
(* A buffer has one owner, the worker of its thread, and the only other    *)
(* writer is a transfer that the client has given up.  Such a transfer     *)
(* ends the worker, because a failed GET leaves its loop; the invariant    *)
(* says who may be where in each phase of main().  What a worker has       *)
(* credited to itself is compared with what it has begun.                  *)
(***************************************************************************)
EXTENDS Benchmark, FiniteSetTheorems, WellFoundedInduction, TLAPS

\* The phases in which the buffers are registered.
Active == {"warmup", "ready", "sleep", "join"}

ThreadResult == [total_bytes : Int, iters : Int, ok : BOOLEAN]

Types ==
    /\ args \in Options
    /\ wpc \in [Threads -> {"none", "new", "spin", "loop", "get", "done"}]
    /\ results \in [Threads -> ThreadResult]
    /\ iter \in [Threads -> Nat]
    /\ warm \in Nat /\ warm <= Len(Sizes)

\* Workers exist between Discover and the join, and their buffers are registered then.
Phases ==
    /\ main \in Active => registered = Threads
    /\ main \notin Active => \A t \in Threads : wpc[t] \in {"none", "done"}

\* A transfer is given up by a worker that has failed, or by the warm-up.
Given == \A x \in late : x.to \in Threads /\ (x.warmup \/ ~results[x.to].ok)

\* A worker that has failed does nothing more.
Stopped == \A t \in Threads : ~results[t].ok => wpc[t] = "done"

BInv == Types /\ Phases /\ Given /\ Stopped

-----------------------------------------------------------------------------

\* What the command line may be.
LEMMA ArgsFacts ==
    ASSUME args \in Options
    PROVE  N \in Nat /\ N > 0 /\ RangeSize \in Nat /\ Base64 \in BOOLEAN /\ 0 \in Threads /\ Threads \subseteq Nat
<1>1. args \in [threads : Nat \ {0}, range_size : Nat, base64 : BOOLEAN]
  BY BenchmarkAssumption
<1>2. N \in Nat /\ N > 0 /\ RangeSize \in Nat /\ Base64 \in BOOLEAN
  BY <1>1 DEF N, RangeSize, Base64
<1> QED
  BY <1>2 DEF Threads

\* A GET of an object asks for a positive number of bytes.
LEMMA TransferSize ==
    ASSUME args \in Options, NEW o \in 1..Len(Sizes)
    PROVE  xfer_size(o) \in Nat
<1>1. Sizes[o] \in Nat
  BY BenchmarkAssumption
<1> QED
  BY <1>1, ArgsFacts DEF xfer_size

\* i % Len(objects) names an object.
LEMMA ObjectOf == ASSUME NEW i \in Nat PROVE Obj(i) \in 1..Len(Sizes)
<1>1. Len(Sizes) \in Nat /\ Len(Sizes) > 0
  BY BenchmarkAssumption
<1>2. i % Len(Sizes) \in 0..(Len(Sizes) - 1)
  BY <1>1
<1> QED
  BY <1>1, <1>2 DEF Obj

\* The transfer of object o into buffer t that is given up.
GivenUp(t, o) == [to |-> t, obj |-> o, len |-> xfer_size(o), warmup |-> main = "warmup"]

\* What get_registered returns is at most what was asked for, and only a GET that is given
\* up leaves a transfer behind.
LEMMA GetFacts ==
    ASSUME args \in Options, NEW t \in Threads, NEW o \in 1..Len(Sizes),
           NEW ret \in -1..max_size, NEW real \in 0..max_size, GetEnds(t, o, ret, real)
    PROVE  /\ ret \in Int /\ xfer_size(o) \in Nat
           /\ ret <= xfer_size(o)
           /\ \/ late' = late
              \/ /\ ret < 0
                 /\ late' = late \cup {GivenUp(t, o)}
<1>1. ret \in Int /\ xfer_size(o) \in Nat
  BY TransferSize
<1>2. \A c \in 0..xfer_size(o) : Returned(xfer_size(o), c) \in Int /\ Returned(xfer_size(o), c) <= xfer_size(o)
  BY <1>1 DEF Returned
<1>3. xfer_size(o) \in 0..xfer_size(o)
  BY <1>1
<1>4. \/ (\E c \in 0..xfer_size(o) : ret = Returned(xfer_size(o), c)) /\ late' = late
      \/ ret = -1 /\ late' = late
      \/ /\ ret = -1
         /\ late' = late \cup {GivenUp(t, o)}
  BY <1>3, Zenon DEF GetEnds, GivenUp
<1> QED
  BY <1>1, <1>2, <1>4

\* Nothing has happened at the start.
LEMMA InitInv == Init => BInv
<1> SUFFICES ASSUME Init PROVE BInv
  OBVIOUS
<1>1. args \in Options /\ 0 <= Len(Sizes)
  BY BenchmarkAssumption DEF Init
<1>2. \A t \in Threads : wpc[t] = "none" /\ results[t] = [total_bytes |-> 0, iters |-> 0, ok |-> TRUE]
  BY DEF Init
<1>3. [total_bytes |-> 0, iters |-> 0, ok |-> TRUE] \in ThreadResult
  BY DEF ThreadResult
<1>4. Types
  <2>1. results \in [Threads -> ThreadResult]
    BY <1>3 DEF Init
  <2> QED
    BY <1>1, <2>1 DEF Types, Init
<1>5. Phases /\ Given /\ Stopped
  BY <1>2 DEF Phases, Given, Stopped, Init, Active
<1> QED
  BY <1>4, <1>5 DEF BInv

\* A worker that only changes its place.
LEMMA PlaceInv ==
    ASSUME BInv, NEW t \in Threads, wpc' = [wpc EXCEPT ![t] = wpc'[t]],
           wpc'[t] \in {"new", "spin", "loop", "get", "done"}, main \in Active, main' \in Active, results[t].ok,
           UNCHANGED <<args, warm, iter, results, registered, late>>
    PROVE  BInv'
<1>1. Threads' = Threads /\ Base64' = Base64
  BY DEF Threads, N, Base64
<1>2. Types' /\ Phases'
  <2>1. \A p \in {"new", "spin", "loop", "get", "done"} :
            [wpc EXCEPT ![t] = p] \in [Threads -> {"none", "new", "spin", "loop", "get", "done"}]
    BY DEF BInv, Types
  <2>2. wpc' \in [Threads -> {"none", "new", "spin", "loop", "get", "done"}]
    BY <2>1, Zenon
  <2> QED
    BY <1>1, <2>2, Zenon DEF BInv, Types, Phases
<1>3. Given' /\ Stopped'
  BY <1>1 DEF BInv, Given, Stopped, Types
<1> QED
  BY <1>2, <1>3 DEF BInv

\* The steps of a worker outside of a GET.
LEMMA WorkerInv == ASSUME BInv, NEW t \in Threads, CountIn(t) \/ SeeGo(t) \/ Loop(t) PROVE BInv'
<1>1. wpc[t] \in {"new", "spin", "loop"} /\ UNCHANGED <<args, main, warm, iter, results, registered, late>>
  BY DEF CountIn, SeeGo, Loop
<1>2. main \in Active /\ results[t].ok
  BY <1>1 DEF BInv, Phases, Stopped
<1>3. wpc' = [wpc EXCEPT ![t] = wpc'[t]] /\ wpc'[t] \in {"new", "spin", "loop", "get", "done"}
  BY DEF CountIn, SeeGo, Loop, BInv, Types
<1> QED
  BY <1>1, <1>2, <1>3, PlaceInv

\* A GET: counted with what it returned, or the end of its worker.
LEMMA GetInv == ASSUME BInv, NEW t \in Threads, Get(t) PROVE BInv'
<1>1. Types /\ Phases /\ Given /\ Stopped
  BY DEF BInv
<1>2. wpc[t] = "get" /\ UNCHANGED <<args, main, warm, registered>>
  BY DEF Get
<1>3. main \in Active /\ results[t].ok
  BY <1>1, <1>2 DEF Phases, Stopped
<1>4. Threads' = Threads /\ Base64' = Base64 /\ Phases'
  BY <1>1, <1>2, <1>3 DEF Threads, N, Base64, Phases
<1>5. Obj(iter[t]) \in 1..Len(Sizes)
  BY <1>1, ObjectOf DEF Types
<1>6. PICK ret \in -1..max_size, real \in 0..max_size :
          /\ GetEnds(t, Obj(iter[t]), ret, real)
          /\ \/ ret < 0 /\ Failed(t)
             \/ /\ ret >= 0
                /\ results' = Counted(t, ret)
                /\ iter' = [iter EXCEPT ![t] = @ + 1]
                /\ wpc' = [wpc EXCEPT ![t] = "loop"]
  BY DEF Get
<1>7. /\ ret \in Int
      /\ \/ late' = late
         \/ ret < 0 /\ \E x : x.to = t /\ late' = late \cup {x}
  <2>1. args \in Options
    BY <1>1, Zenon DEF Types
  <2>2. /\ ret \in Int
        /\ late' = late \/ (ret < 0 /\ late' = late \cup {GivenUp(t, Obj(iter[t]))})
    BY <1>5, <1>6, <2>1, GetFacts, Zenon
  <2>3. GivenUp(t, Obj(iter[t])).to = t
    BY Zenon DEF GivenUp
  <2> QED
    BY <2>2, <2>3, Zenon
<1>8. CASE ret < 0 /\ Failed(t)
  <2> DEFINE y == [results[t] EXCEPT !.ok = FALSE]
  <2>1. results' = [results EXCEPT ![t] = y] /\ wpc' = [wpc EXCEPT ![t] = "done"] /\ UNCHANGED iter
    BY <1>8, Zenon DEF Failed
  <2>2. y \in ThreadResult /\ ~y.ok /\ y.total_bytes = results[t].total_bytes
    <3>1. results[t] \in ThreadResult
      BY <1>1 DEF Types
    <3> QED
      BY <3>1, Zenon DEF ThreadResult
  <2> HIDE DEF y
  <2>3. /\ results' \in [Threads -> ThreadResult] /\ ~results'[t].ok
        /\ \A u \in Threads : /\ u # t => results'[u] = results[u]
                              /\ results'[u].total_bytes = results[u].total_bytes
    BY <1>1, <2>1, <2>2 DEF Types
  <2>4. Types'
    BY <1>1, <1>2, <1>4, <2>1, <2>3 DEF Types
  <2>5. Given'
    BY <1>1, <1>4, <1>7, <2>3 DEF Given
  <2>6. Stopped'
    BY <1>1, <1>4, <2>1, <2>3 DEF Stopped, Types
  <2> QED
    BY <1>4, <2>4, <2>5, <2>6 DEF BInv
<1>9. CASE /\ ret >= 0
           /\ results' = Counted(t, ret)
           /\ iter' = [iter EXCEPT ![t] = @ + 1]
           /\ wpc' = [wpc EXCEPT ![t] = "loop"]
  <2> DEFINE n == results[t].total_bytes + ret
             y == [total_bytes |-> n, iters |-> iter[t] + 1, ok |-> results[t].ok]
  <2>1. results' = [results EXCEPT ![t] = y]
    BY <1>9, Zenon DEF Counted
  <2>2. y \in ThreadResult /\ y.total_bytes = n /\ y.ok = results[t].ok
    <3>1. results[t] \in ThreadResult /\ results[t].total_bytes \in Int /\ iter[t] + 1 \in Int
      BY <1>1 DEF Types, ThreadResult
    <3>2. n \in Int
      BY <1>7, <3>1
    <3> HIDE DEF n
    <3> QED
      BY <3>1, <3>2, Zenon DEF ThreadResult
  <2> HIDE DEF y
  <2>3. /\ results' \in [Threads -> ThreadResult]
        /\ results'[t].total_bytes = results[t].total_bytes + ret /\ results'[t].ok = results[t].ok
        /\ \A u \in Threads : u # t => results'[u] = results[u]
    BY <1>1, <2>1, <2>2 DEF Types
  <2>4. Types'
    <3>1. iter' \in [Threads -> Nat]
      BY <1>1, <1>7, <1>9 DEF Types
    <3>2. wpc' \in [Threads -> {"none", "new", "spin", "loop", "get", "done"}]
      BY <1>1, <1>9 DEF Types
    <3> QED
      BY <1>1, <1>2, <1>4, <2>3, <3>1, <3>2 DEF Types
  <2>5. late' = late /\ \A u \in Threads : results'[u].ok = results[u].ok
    BY <1>7, <1>9, <2>3
  <2>6. Given' /\ Stopped'
    <3>1. Given'
      BY <1>1, <1>4, <2>5 DEF Given
    <3>2. ASSUME NEW u \in Threads, ~results[u].ok PROVE wpc'[u] = "done"
      BY <1>1, <1>3, <1>9, <3>2 DEF Stopped, Types
    <3> QED
      BY <1>4, <2>5, <3>1, <3>2 DEF Stopped
  <2> QED
    BY <1>4, <2>4, <2>6 DEF BInv
<1> QED
  BY <1>6, <1>8, <1>9

\* A step of main() that changes no worker.
LEMMA PhaseInv ==
    ASSUME BInv, UNCHANGED <<args, wpc, iter, results>>, Phases', Given',
           warm' \in Nat, warm' <= Len(Sizes)
    PROVE  BInv'
<1>1. Threads' = Threads /\ Base64' = Base64
  BY DEF Threads, N, Base64
<1> QED
  BY <1>1 DEF BInv, Types, Stopped

\* Every step of main() and every late write keeps the invariant.
LEMMA MainInv == ASSUME BInv, Main \/ LateWrite \/ UNCHANGED vars PROVE BInv'
<1>1. Types /\ Phases /\ Given /\ Stopped
  BY DEF BInv
<1>2. Threads' = Threads
  BY DEF Main, LateWrite, vars, Discover, WarmUp, Spawn, SetGo, SetStop, JoinReportCleanup, Finish, Threads, N
<1>3. CASE Discover
  <2>1. \A t \in Threads : wpc[t] \in {"none", "done"}
    BY <1>1, <1>3 DEF Phases, Discover, Active
  <2> QED
    BY <1>1, <1>2, <1>3, <2>1, PhaseInv DEF Discover, Phases, Given, Types, Active
<1>4. CASE WarmUp
  <2>1. PICK ret \in -1..max_size, real \in 0..max_size : GetEnds(0, warm + 1, ret, real)
    BY <1>4 DEF WarmUp
  <2>2. warm + 1 \in 1..Len(Sizes) /\ 0 \in Threads /\ Len(Sizes) \in Nat
    <3>1. Len(Sizes) \in Nat
      BY BenchmarkAssumption
    <3>2. 0 \in Threads
      BY <1>1, ArgsFacts DEF Types
    <3>3. warm \in Nat /\ warm < Len(Sizes)
      BY <1>1, <1>4 DEF WarmUp, Types
    <3> QED
      BY <3>1, <3>2, <3>3
  <2>3. late' = late \/ \E x : x.to = 0 /\ x.warmup /\ late' = late \cup {x}
    <3>1. args \in Options /\ main = "warmup"
      BY <1>1, <1>4, Zenon DEF Types, WarmUp
    <3>2. late' = late \/ late' = late \cup {GivenUp(0, warm + 1)}
      BY <2>1, <2>2, <3>1, GetFacts, Zenon
    <3>3. GivenUp(0, warm + 1).to = 0 /\ GivenUp(0, warm + 1).warmup
      BY <3>1, Zenon DEF GivenUp
    <3> QED
      BY <3>2, <3>3, Zenon
  <2>4. UNCHANGED <<args, main, wpc, iter, results, registered>> /\ warm' = warm + 1
    BY <1>4 DEF WarmUp
  <2>5. Given' /\ Phases'
    BY <1>1, <1>2, <2>2, <2>3, <2>4 DEF Given, Phases
  <2> QED
    BY <2>2, <2>4, <2>5, PhaseInv
<1>5. ASSUME NEW t \in Threads, Spawn(t) PROVE BInv'
  <2>1. results[t].ok /\ main \in Active /\ main' \in Active
    BY <1>1, <1>5 DEF Stopped, Spawn, Active
  <2>2. wpc' = [wpc EXCEPT ![t] = wpc'[t]] /\ wpc'[t] = "new"
    BY <1>1, <1>5 DEF Types, Spawn
  <2> QED
    <3>1. UNCHANGED <<args, warm, iter, results, registered, late>>
      BY <1>5 DEF Spawn
    <3>2. wpc'[t] \in {"new", "spin", "loop", "get", "done"}
      BY <2>2
    <3> QED
      BY <2>1, <2>2, <3>1, <3>2, PlaceInv, Zenon
<1>6. CASE SetGo \/ SetStop
  BY <1>1, <1>2, <1>6, PhaseInv DEF SetGo, SetStop, Phases, Given, Types, Active
<1>7. CASE JoinReportCleanup \/ Finish
  BY <1>1, <1>2, <1>7, PhaseInv DEF JoinReportCleanup, Finish, Phases, Given, Types, Active
<1>8. CASE LateWrite
  <2>1. UNCHANGED <<args, main, warm, wpc, iter, results, registered>> /\ late' \subseteq late
    BY <1>8 DEF LateWrite
  <2> QED
    BY <1>1, <1>2, <2>1, PhaseInv DEF Phases, Given, Types
<1>9. CASE UNCHANGED vars
  BY <1>1, <1>2, <1>9, PhaseInv DEF vars, Phases, Given, Types
<1> QED
  BY <1>3, <1>4, <1>5, <1>6, <1>7, <1>8, <1>9 DEF Main

\* The invariant holds in every state of the benchmark.
LEMMA Invariance == Spec => []BInv
<1>1. ASSUME BInv, [Next]_vars PROVE BInv'
  BY <1>1, MainInv, WorkerInv, GetInv DEF Next, Worker
<1> QED
  BY <1>1, InitInv, PTL DEF Spec

-----------------------------------------------------------------------------
(* The report: what a worker has credited to itself against what it has      *)
(* begun.  A GET is begun before it is credited, so the two differ while it  *)
(* runs, and by the failed GET of a worker that has failed.                  *)

\* The GET of worker t that is begun and not credited.
Pending(t) == IF wpc[t] = "get" \/ ~results[t].ok THEN 1 ELSE 0

\* The bytes that the running GET of worker t has asked for.
InFlight(t) == IF wpc[t] = "get" THEN xfer_size(Obj(iter[t])) ELSE 0

Account(t) ==
    /\ issued[t] \in Int /\ asked[t] \in Int
    /\ results[t].iters = iter[t]
    /\ issued[t] = iter[t] + Pending(t)
    /\ results[t].total_bytes + InFlight(t) <= asked[t]

\* The exit status is given at the end, and 0 only if no worker has failed.
Exits ==
    /\ main # "end" => exit = -1
    /\ main = "end" => exit \in {0, 1}
    /\ exit = 0 => \A t \in Threads : results[t].ok

RInv ==
    /\ DOMAIN issued = Threads /\ DOMAIN asked = Threads
    /\ \A t \in Threads : Account(t)
    /\ Exits

\* Nothing is begun or credited at the start.
LEMMA InitReport == Init => RInv
<1> SUFFICES ASSUME Init PROVE RInv
  OBVIOUS
<1>1. ASSUME NEW t \in Threads PROVE Account(t)
  <2>1. /\ wpc[t] = "none" /\ results[t] = [total_bytes |-> 0, iters |-> 0, ok |-> TRUE]
        /\ iter[t] = 0 /\ issued[t] = 0 /\ asked[t] = 0
    BY DEF Init
  <2>2. Pending(t) = 0 /\ InFlight(t) = 0
    BY <2>1 DEF Pending, InFlight
  <2> QED
    BY <2>1, <2>2 DEF Account
<1>2. Exits
  BY DEF Exits, Init
<1>3. DOMAIN issued = Threads /\ DOMAIN asked = Threads
  BY Zenon DEF Init
<1> QED
  BY <1>1, <1>2, <1>3, Zenon DEF RInv

\* The account of a worker that is not in a GET before or after.
LEMMA SameAccount ==
    ASSUME NEW t \in Threads, Account(t), wpc'[t] = wpc[t] \/ (wpc[t] # "get" /\ wpc'[t] # "get"), args' = args,
           results'[t] = results[t], iter'[t] = iter[t], issued'[t] = issued[t], asked'[t] = asked[t]
    PROVE  Account(t)'
<1>1. Pending(t)' = Pending(t) /\ InFlight(t)' = InFlight(t)
  BY Zenon DEF Pending, InFlight, xfer_size, RangeSize, Obj
<1> QED
  BY <1>1, Zenon DEF Account

\* A worker begins a GET.
LEMMA BeginAccount ==
    ASSUME BInv, RInv, NEW t \in Threads, Loop(t), wpc'[t] = "get"
    PROVE  Account(t)' /\ DOMAIN issued' = Threads /\ DOMAIN asked' = Threads
<1> DEFINE s == xfer_size(Obj(iter[t]))
<1>1. /\ wpc[t] = "loop" /\ wpc' = [wpc EXCEPT ![t] = "get"] /\ UNCHANGED <<args, iter, results>>
      /\ issued' = [issued EXCEPT ![t] = @ + 1] /\ asked' = [asked EXCEPT ![t] = @ + s]
  <2>1. wpc'[t] # "done"
    OBVIOUS
  <2>2. t \in DOMAIN wpc
    BY Zenon DEF BInv, Types
  <2> QED
    BY <2>1, <2>2, Zenon DEF Loop
<1>2. issued'[t] = issued[t] + 1 /\ asked'[t] = asked[t] + s /\ DOMAIN issued' = Threads /\ DOMAIN asked' = Threads
  BY <1>1, Zenon DEF RInv
<1>3. results[t].ok /\ results[t] \in ThreadResult /\ iter[t] \in Nat /\ args \in Options
  <2>1. wpc[t] # "done"
    BY <1>1
  <2> QED
    BY <2>1, Zenon DEF BInv, Stopped, Types
<1>4. s \in Nat
  BY <1>3, ObjectOf, TransferSize, Zenon
<1>5. Pending(t) = 0 /\ InFlight(t) = 0
  BY <1>1, <1>3 DEF Pending, InFlight
<1>6. Pending(t)' = 1 /\ InFlight(t)' = s
  BY <1>1, Zenon DEF Pending, InFlight, xfer_size, RangeSize, Obj
<1>7. /\ issued[t] \in Int /\ asked[t] \in Int /\ results[t].total_bytes \in Int
      /\ results[t].iters = iter[t] /\ issued[t] = iter[t] /\ results[t].total_bytes <= asked[t]
  BY <1>3, <1>5 DEF RInv, Account, ThreadResult
<1> HIDE DEF s
<1>8. /\ issued'[t] \in Int /\ asked'[t] \in Int
      /\ issued'[t] = iter'[t] + Pending(t)' /\ results'[t].total_bytes + InFlight(t)' <= asked'[t]
  BY <1>1, <1>2, <1>3, <1>4, <1>6, <1>7
<1> QED
  BY <1>1, <1>2, <1>7, <1>8, Zenon DEF Account

\* A GET ends: it is credited, or its worker has failed.
LEMMA GetAccount ==
    ASSUME BInv, RInv, NEW t \in Threads, Get(t)
    PROVE  /\ Account(t)'
           /\ \A u \in Threads : u # t => results'[u] = results[u] /\ iter'[u] = iter[u] /\ wpc'[u] = wpc[u]
<1> DEFINE s == xfer_size(Obj(iter[t]))
<1>1. wpc[t] = "get" /\ UNCHANGED <<args, issued, asked>>
  BY Zenon DEF Get
<1>2. results[t].ok /\ results[t] \in ThreadResult /\ iter[t] \in Nat /\ args \in Options
  <2>1. wpc[t] # "done"
    BY <1>1
  <2> QED
    BY <2>1, Zenon DEF BInv, Stopped, Types
<1>3. /\ wpc \in [Threads -> {"none", "new", "spin", "loop", "get", "done"}]
      /\ results \in [Threads -> ThreadResult] /\ iter \in [Threads -> Nat]
  BY Zenon DEF BInv, Types
<1>4. Obj(iter[t]) \in 1..Len(Sizes)
  BY <1>2, ObjectOf, Zenon
<1>5. PICK ret \in -1..max_size, real \in 0..max_size :
          /\ GetEnds(t, Obj(iter[t]), ret, real)
          /\ \/ ret < 0 /\ Failed(t)
             \/ /\ ret >= 0
                /\ results' = Counted(t, ret)
                /\ iter' = [iter EXCEPT ![t] = @ + 1]
                /\ wpc' = [wpc EXCEPT ![t] = "loop"]
  BY Zenon DEF Get
<1>6. ret \in Int /\ s \in Nat /\ ret <= s
  BY <1>2, <1>4, <1>5, GetFacts
<1>7. Pending(t) = 1 /\ InFlight(t) = s
  BY <1>1, Zenon DEF Pending, InFlight
<1> HIDE DEF s
<1>8. /\ issued[t] \in Int /\ asked[t] \in Int /\ results[t].total_bytes \in Int
      /\ results[t].iters = iter[t] /\ issued[t] = iter[t] + 1 /\ results[t].total_bytes + s <= asked[t]
  <2>1. results[t].total_bytes \in Int
    BY <1>2, Zenon DEF ThreadResult
  <2> QED
    BY <1>7, <2>1, Zenon DEF RInv, Account
<1>9. CASE ret < 0 /\ Failed(t)
  <2> DEFINE y == [results[t] EXCEPT !.ok = FALSE]
  <2>1. results' = [results EXCEPT ![t] = y] /\ wpc' = [wpc EXCEPT ![t] = "done"] /\ iter' = iter
    BY <1>9, Zenon DEF Failed
  <2>2. y.iters = results[t].iters /\ y.total_bytes = results[t].total_bytes /\ ~y.ok
    BY <1>2, Zenon DEF ThreadResult
  <2> HIDE DEF y
  <2>3. /\ results'[t].iters = results[t].iters /\ results'[t].total_bytes = results[t].total_bytes
        /\ ~results'[t].ok /\ wpc'[t] = "done"
        /\ \A u \in Threads : u # t => results'[u] = results[u] /\ iter'[u] = iter[u] /\ wpc'[u] = wpc[u]
    BY <1>3, <2>1, <2>2, Zenon
  <2>4. Pending(t)' = 1 /\ InFlight(t)' = 0
    BY <2>3 DEF Pending, InFlight
  <2>5. results'[t].total_bytes + InFlight(t)' <= asked'[t]
    BY <1>1, <1>6, <1>8, <2>3, <2>4
  <2> QED
    BY <1>1, <1>8, <2>1, <2>3, <2>4, <2>5, Zenon DEF Account
<1>10. CASE /\ ret >= 0
            /\ results' = Counted(t, ret)
            /\ iter' = [iter EXCEPT ![t] = @ + 1]
            /\ wpc' = [wpc EXCEPT ![t] = "loop"]
  <2> DEFINE y == [total_bytes |-> results[t].total_bytes + ret, iters |-> iter[t] + 1, ok |-> results[t].ok]
  <2>1. results' = [results EXCEPT ![t] = y]
    BY <1>10, Zenon DEF Counted
  <2>2. y.iters = iter[t] + 1 /\ y.total_bytes = results[t].total_bytes + ret /\ y.ok = results[t].ok
    BY Zenon
  <2> HIDE DEF y
  <2>3. /\ results'[t].iters = iter[t] + 1 /\ results'[t].total_bytes = results[t].total_bytes + ret
        /\ results'[t].ok = results[t].ok /\ wpc'[t] = "loop" /\ iter'[t] = iter[t] + 1
        /\ \A u \in Threads : u # t => results'[u] = results[u] /\ iter'[u] = iter[u] /\ wpc'[u] = wpc[u]
    BY <1>3, <1>10, <2>1, <2>2, Zenon
  <2>4. Pending(t)' = 0 /\ InFlight(t)' = 0
    <3>1. results'[t].ok /\ wpc'[t] # "get"
      BY <1>2, <2>3
    <3> QED
      BY <3>1, Zenon DEF Pending, InFlight
  <2>5. issued'[t] = iter'[t] + Pending(t)' /\ results'[t].total_bytes + InFlight(t)' <= asked'[t]
    BY <1>1, <1>2, <1>6, <1>8, <2>3, <2>4
  <2> QED
    BY <1>1, <1>8, <2>3, <2>5, Zenon DEF Account
<1> QED
  BY <1>5, <1>9, <1>10, Zenon

\* Every step keeps the accounts and the exit status.
LEMMA NextReport == ASSUME BInv, RInv, [Next]_vars PROVE RInv'
<1>1. Threads' = Threads
  <2>1. args' = args
    BY Zenon DEF Next, Main, LateWrite, vars, Discover, WarmUp, Spawn, SetGo, SetStop, JoinReportCleanup, Finish,
                 Worker, CountIn, SeeGo, Loop, Get
  <2> QED
    BY <2>1, Zenon DEF Threads, N
<1>2. (\A t \in Threads : Account(t)) /\ DOMAIN issued = Threads /\ DOMAIN asked = Threads /\ Exits
  BY Zenon DEF RInv
<1>3. wpc \in [Threads -> {"none", "new", "spin", "loop", "get", "done"}]
  BY Zenon DEF BInv, Types
<1>4. ASSUME NEW t \in Threads, CountIn(t) \/ SeeGo(t) \/ Loop(t) PROVE RInv'
  <2>1. UNCHANGED <<args, main, iter, results, exit>> /\ \A u \in Threads : u # t => wpc'[u] = wpc[u]
    BY <1>3, <1>4, Zenon DEF CountIn, SeeGo, Loop
  <2>2. CASE wpc'[t] = "get"
    <3>1. Loop(t)
      BY <1>3, <1>4, <2>2 DEF CountIn, SeeGo
    <3>2. Account(t)' /\ DOMAIN issued' = Threads /\ DOMAIN asked' = Threads
      BY <2>2, <3>1, BeginAccount
    <3>3. ASSUME NEW u \in Threads, u # t PROVE Account(u)'
      <4>1. issued'[u] = issued[u] /\ asked'[u] = asked[u]
        BY <1>2, <3>1, <3>3, Zenon DEF Loop
      <4> QED
        BY <1>2, <2>1, <3>3, <4>1, SameAccount, Zenon
    <3> QED
      BY <1>1, <1>2, <2>1, <3>2, <3>3, Zenon DEF RInv, Exits
  <2>3. CASE wpc'[t] # "get"
    <3>1. UNCHANGED <<issued, asked>> /\ wpc[t] # "get"
      BY <1>3, <1>4, <2>3 DEF CountIn, SeeGo, Loop
    <3>2. ASSUME NEW u \in Threads PROVE Account(u)'
      <4>1. wpc'[u] = wpc[u] \/ (wpc[u] # "get" /\ wpc'[u] # "get")
        BY <2>1, <2>3, <3>1, Zenon
      <4> QED
        BY <1>2, <2>1, <3>1, <4>1, SameAccount, Zenon
    <3> QED
      BY <1>1, <1>2, <2>1, <3>1, <3>2, Zenon DEF RInv, Exits
  <2> QED
    BY <2>2, <2>3, Zenon
<1>5. ASSUME NEW t \in Threads, Get(t) PROVE RInv'
  <2>1. wpc[t] = "get" /\ UNCHANGED <<args, main, issued, asked, exit>>
    BY <1>5, Zenon DEF Get
  <2>2. main # "end"
    BY <2>1 DEF BInv, Phases, Active
  <2>3. exit # 0
    BY <1>2, <2>2 DEF Exits
  <2>4. ASSUME NEW u \in Threads PROVE Account(u)'
    BY <1>2, <1>5, <2>1, GetAccount, SameAccount, Zenon
  <2> QED
    BY <1>1, <1>2, <2>1, <2>2, <2>3, <2>4, Zenon DEF RInv, Exits
<1>6. ASSUME NEW t \in Threads, Spawn(t) PROVE RInv'
  <2>1. /\ UNCHANGED <<args, iter, results, issued, asked, exit>> /\ wpc[t] = "none"
        /\ wpc' = [wpc EXCEPT ![t] = "new"] /\ main # "end" /\ main' # "end"
    BY <1>6 DEF Spawn
  <2>2. ASSUME NEW u \in Threads PROVE Account(u)'
    <3>1. wpc'[u] = wpc[u] \/ (wpc[u] # "get" /\ wpc'[u] # "get")
      BY <1>3, <2>1
    <3> QED
      BY <1>2, <2>1, <3>1, SameAccount, Zenon
  <2> QED
    BY <1>1, <1>2, <2>1, <2>2, Zenon DEF RInv, Exits
<1>7. CASE Discover \/ WarmUp \/ SetGo \/ SetStop \/ JoinReportCleanup \/ Finish \/ LateWrite \/ UNCHANGED vars
  <2>1. UNCHANGED <<args, wpc, iter, results, issued, asked>>
    BY <1>7, Zenon DEF Discover, WarmUp, SetGo, SetStop, JoinReportCleanup, Finish, LateWrite, vars
  <2>2. \A u \in Threads : Account(u)'
    BY <1>2, <2>1, SameAccount, Zenon
  <2>3. Exits'
    <3>1. CASE Finish
      <4>1. main' = "end" /\ exit' = IF \A t \in Threads : results[t].ok THEN 0 ELSE 1
        BY <3>1, Zenon DEF Finish
      <4>2. exit' \in {0, 1} /\ (exit' = 0 => \A t \in Threads : results[t].ok)
        BY <4>1
      <4> QED
        BY <1>1, <2>1, <4>1, <4>2, Zenon DEF Exits
    <3>2. CASE Discover
      <4>1. (main' # "end" /\ exit' = exit) \/ (main' = "end" /\ exit' = 1)
        BY <3>2 DEF Discover
      <4>2. main # "end" /\ exit = -1
        BY <1>2, <3>2 DEF Discover, Exits
      <4> QED
        BY <4>1, <4>2 DEF Exits
    <3>3. CASE WarmUp \/ SetGo \/ SetStop \/ JoinReportCleanup
      <4>1. main # "end" /\ main' # "end" /\ exit' = exit
        BY <3>3 DEF WarmUp, SetGo, SetStop, JoinReportCleanup
      <4> QED
        BY <1>1, <1>2, <2>1, <4>1, Zenon DEF Exits
    <3>4. CASE LateWrite \/ UNCHANGED vars
      <4>1. UNCHANGED <<main, exit>>
        BY <3>4, Zenon DEF LateWrite, vars
      <4> QED
        BY <1>1, <1>2, <2>1, <4>1, Zenon DEF Exits
    <3> QED
      BY <1>7, <3>1, <3>2, <3>3, <3>4, Zenon
  <2> QED
    BY <1>1, <1>2, <2>1, <2>2, <2>3, Zenon DEF RInv
<1> QED
  BY <1>4, <1>5, <1>6, <1>7, Zenon DEF Next, Main, Worker

\* Both invariants hold in every state of the benchmark.
LEMMA ReportInvariance == Spec => [](BInv /\ RInv)
<1>1. BInv /\ RInv /\ [Next]_vars => RInv'
  BY NextReport, Zenon
<1> QED
  BY <1>1, InitReport, Invariance, PTL DEF Spec

\* A transfer that a worker has given up is met by no worker that still runs: a failed GET
\* is the last one of its worker, and the program can only end with status 1.  So a buffer
\* is shared, if at all, with transfers of the warm-up.
THEOREM LateAfterFailure == Spec => []LateOnlyAfterFailure
<1>1. BInv /\ RInv => LateOnlyAfterFailure
  <2> SUFFICES ASSUME BInv, RInv PROVE LateOnlyAfterFailure
    OBVIOUS
  <2>1. ASSUME NEW x \in late, ~x.warmup
        PROVE  ~results[x.to].ok /\ wpc[x.to] = "done" /\ (main = "end" => exit = 1)
    <3>1. x.to \in Threads /\ ~results[x.to].ok /\ wpc[x.to] = "done"
      BY <2>1, Zenon DEF BInv, Given, Stopped
    <3>2. exit # 0 /\ (main = "end" => exit \in {0, 1})
      BY <3>1, Zenon DEF RInv, Exits
    <3> QED
      BY <3>1, <3>2
  <2>2. ASSUME NEW t \in Threads, wpc[t] = "get"
        PROVE  t \in registered /\ \A x \in late : x.to = t => x.warmup
    <3>1. t \in registered /\ wpc[t] # "done"
      BY <2>2 DEF BInv, Phases
    <3> QED
      BY <2>1, <3>1, Zenon
  <2> QED
    BY <2>1, <2>2, Zenon DEF LateOnlyAfterFailure
<1> QED
  BY <1>1, ReportInvariance, PTL

\* main() reports finished work only: every GET begun by a worker is credited, but for the one
\* that made it fail, with at most the bytes asked for, and status 0 means that none failed.
THEOREM ReportIsFinished == Spec => []ReportOfFinishedWork
<1>1. BInv /\ RInv => ReportOfFinishedWork
  <2> SUFFICES ASSUME BInv, RInv, main = "finish" \/ exit = 0, NEW t \in Threads
               PROVE  /\ results[t].iters = IF results[t].ok THEN issued[t] ELSE issued[t] - 1
                      /\ results[t].total_bytes <= asked[t]
                      /\ exit = 0 => results[t].ok
    BY Zenon DEF ReportOfFinishedWork
  <2>1. main \notin Active
    BY DEF RInv, Exits, Active
  <2>2. wpc[t] # "get"
    BY <2>1 DEF BInv, Phases
  <2>3. InFlight(t) = 0 /\ Pending(t) = IF results[t].ok THEN 0 ELSE 1
    BY <2>2, Zenon DEF InFlight, Pending
  <2>4. iter[t] \in Nat /\ results[t].total_bytes \in Int
    BY DEF BInv, Types, ThreadResult
  <2>5. Account(t) /\ (exit = 0 => results[t].ok)
    BY Zenon DEF RInv, Exits
  <2>6. CASE results[t].ok
    BY <2>3, <2>4, <2>5, <2>6 DEF Account
  <2>7. CASE ~results[t].ok
    BY <2>3, <2>4, <2>5, <2>7 DEF Account
  <2> QED
    BY <2>6, <2>7, Zenon
<1> QED
  BY <1>1, ReportInvariance, PTL

-----------------------------------------------------------------------------
(* The dump.  When a GET that succeeds has brought all it asked for, the     *)
(* buffer of a worker starts with the object of its last GET, and that is    *)
(* what main() writes for --out.                                             *)

\* The object of the last GET of worker t.
Last(t) == Obj(iter[t] - 1)

\* Buffer t holds what the last GET of its worker asked for.
HoldsLast(t) == \A k \in 1..xfer_size(Last(t)) : buf[t][k] = Last(t)

\* The dump has the length of the last object, and starts with what was asked of it.
DumpStartsWithLast ==
    dump # <<>> /\ gaveUp = {} => /\ dump \in [1..Sizes[Last(0)] -> 0..Len(Sizes)]
                                  /\ \A k \in 1..xfer_size(Last(0)) : dump[k] = Last(0)

\* What buffers may hold.
Buffers == [Threads -> [1..max_size -> 0..Len(Sizes)]]

\* What has been written where, as long as no transfer is given up.
Contents ==
    gaveUp = {} => /\ late = {}
                   /\ buf \in Buffers
                   /\ \A t \in Threads : results[t].ok /\ iter[t] > 0 => HoldsLast(t)

\* A worker begins after the warm-up, and counts its GETs.
Begun ==
    /\ main = "discover" => warm = 0
    /\ warm < Len(Sizes) => \A t \in Threads : wpc[t] = "none"
    /\ \A t \in Threads : wpc[t] = "none" => iter[t] = 0

Tallies == \A t \in Threads : results[t].iters = iter[t] /\ (iter[t] = 0 => results[t].total_bytes = 0)

DInv ==
    /\ Contents /\ Begun /\ Tallies
    /\ main # "end" => dump = <<>>
    /\ DumpStartsWithLast

\* A set of natural numbers has a least element.
LEMMA LeastNatural ==
    ASSUME NEW T, T \subseteq Nat, T # {}
    PROVE  \E x \in T : \A y \in T : x <= y
<1> DEFINE R == OpToRel(<, Nat)
<1>1. R = {ss \in Nat \X Nat : ss[1] < ss[2]}
  BY Zenon DEF OpToRel
<1>2. IsWellFoundedOn(R, Nat)
  BY <1>1, NatLessThanWellFounded, Zenon DEF OpToRel
<1> HIDE DEF R
<1>3. \E x \in T : \A y \in T : ~ (<<y, x>> \in R)
  BY <1>2, WFMin, Zenon
<1>4. \A x \in T, y \in T : ~ (<<y, x>> \in R) => x <= y
  BY <1>1
<1> QED
  BY <1>3, <1>4, Zenon

\* Induction on a set of numbers: what holds of 0 and passes from n to n + 1 up to k
\* holds of k.
LEMMA UpTo ==
    ASSUME NEW S, NEW k \in Nat, 0 \in S, \A n \in Nat : n < k /\ n \in S => n + 1 \in S
    PROVE  k \in S
<1> DEFINE Bad == (0..k) \ S
<1> SUFFICES ASSUME Bad # {} PROVE FALSE
  OBVIOUS
<1>1. Bad \subseteq Nat
  OBVIOUS
<1>2. \E n \in Bad : \A m \in Bad : n <= m
  <2> HIDE DEF Bad
  <2> QED
    BY <1>1, LeastNatural, Zenon
<1>3. PICK n \in Bad : \A m \in Bad : n <= m
  BY <1>2, Zenon
<1>4. n \in Nat /\ n <= k /\ n \notin S /\ n # 0
  OBVIOUS
<1>5. n - 1 \in Nat /\ n - 1 < k /\ (n - 1) + 1 = n /\ n - 1 \in 0..k /\ ~(n <= n - 1)
  BY <1>4
<1>6. n - 1 \in S
  BY <1>3, <1>5
<1> QED
  BY <1>4, <1>5, <1>6

\* There is a size that no object exceeds.
LEMMA SizesBounded == \E b \in Nat : \A i \in 1..Len(Sizes) : Sizes[i] <= b
<1> DEFINE Bounded(n) == \E b \in Nat : \A i \in 1..n : Sizes[i] <= b
           S == {n \in Nat : Bounded(n)}
<1>1. Len(Sizes) \in Nat /\ \A i \in 1..Len(Sizes) : Sizes[i] \in Nat
  BY BenchmarkAssumption
<1>2. Bounded(0)
  BY \A i \in 1..0 : FALSE
<1>3. ASSUME NEW n \in Nat, n < Len(Sizes), Bounded(n) PROVE Bounded(n + 1)
  <2>1. PICK b \in Nat : \A i \in 1..n : Sizes[i] <= b
    BY <1>3, Zenon
  <2>2. n + 1 \in 1..Len(Sizes)
    BY <1>1, <1>3
  <2> DEFINE c == Sizes[n + 1]
  <2>3. c \in Nat
    BY <1>1, <2>2, Zenon
  <2>4. ASSUME NEW i \in 1..(n + 1) PROVE Sizes[i] <= b + c
    <3>1. CASE i = n + 1
      <4>1. Sizes[i] = c
        BY <3>1, Zenon
      <4> HIDE DEF c
      <4> QED
        BY <2>3, <4>1
    <3>2. CASE i # n + 1
      <4>1. i \in 1..n /\ i \in 1..Len(Sizes)
        BY <1>1, <1>3, <3>2
      <4>2. Sizes[i] \in Nat /\ Sizes[i] <= b
        BY <1>1, <2>1, <4>1, Zenon
      <4> HIDE DEF c
      <4> QED
        BY <2>3, <4>2
    <3> QED
      BY <3>1, <3>2, Zenon
  <2>5. b + c \in Nat
    <3> HIDE DEF c
    <3> QED
      BY <2>3
  <2> QED
    BY <2>4, <2>5, Zenon
<1> HIDE DEF Bounded
<1>4. 0 \in S /\ \A n \in Nat : n < Len(Sizes) /\ n \in S => n + 1 \in S
  BY <1>2, <1>3
<1>5. Len(Sizes) \in S
  <2> HIDE DEF S
  <2> QED
    BY <1>1, <1>4, UpTo, Zenon
<1>6. Bounded(Len(Sizes))
  BY <1>5, Zenon
<1> QED
  BY <1>6, Zenon DEF Bounded

\* max_size is the size of the largest object.
LEMMA LargestObject ==
    /\ max_size \in Nat
    /\ \A o \in 1..Len(Sizes) : Sizes[o] <= max_size
<1> DEFINE Bounds == {b \in Nat : \A i \in 1..Len(Sizes) : Sizes[i] <= b}
<1>1. /\ Len(Sizes) \in Nat /\ DOMAIN Sizes = 1..Len(Sizes) /\ 1 \in 1..Len(Sizes)
      /\ \A i \in 1..Len(Sizes) : Sizes[i] \in Nat /\ Sizes[i] > 0
  BY BenchmarkAssumption
<1>2. Bounds # {} /\ Bounds \subseteq Nat
  BY SizesBounded, Zenon
<1>3. \E m \in Bounds : \A b \in Bounds : m <= b
  <2> HIDE DEF Bounds
  <2> QED
    BY <1>2, LeastNatural, Zenon
<1>4. PICK m \in Bounds : \A b \in Bounds : m <= b
  BY <1>3, Zenon
<1>5. m \in Nat /\ \A i \in 1..Len(Sizes) : Sizes[i] <= m
  BY <1>4, Zenon
<1>6. \E i \in 1..Len(Sizes) : Sizes[i] = m
  <2> SUFFICES ASSUME \A i \in 1..Len(Sizes) : Sizes[i] # m PROVE FALSE
    BY Zenon
  <2>1. m - 1 \in Nat /\ \A i \in 1..Len(Sizes) : Sizes[i] <= m - 1
    BY <1>1, <1>5
  <2>2. m - 1 \in Bounds
    BY <2>1, Zenon
  <2>3. m <= m - 1
    BY <1>4, <2>2, Zenon
  <2> QED
    BY <1>5, <2>3
<1>7. \E x \in {Sizes[i] : i \in DOMAIN Sizes} : \A i \in DOMAIN Sizes : Sizes[i] <= x
  BY <1>1, <1>5, <1>6, Zenon
<1>8. max_size \in {Sizes[i] : i \in DOMAIN Sizes} /\ \A i \in DOMAIN Sizes : Sizes[i] <= max_size
  BY <1>7, Zenon DEF max_size
<1> QED
  BY <1>1, <1>8, Zenon
\* What a GET asks of an object fits into the object and into the buffer.
LEMMA FitsBuffer ==
    ASSUME args \in Options, NEW o \in 1..Len(Sizes)
    PROVE  /\ xfer_size(o) \in Nat /\ xfer_size(o) <= Sizes[o] /\ Sizes[o] \in Nat /\ Sizes[o] <= max_size
           /\ max_size \in Nat
           /\ RangeSize = 0 => xfer_size(o) = Sizes[o]
<1>1. Sizes[o] \in Nat
  BY BenchmarkAssumption
<1>2. max_size \in Nat /\ Sizes[o] <= max_size
  BY LargestObject, Zenon
<1>3. RangeSize \in Nat
  BY ArgsFacts, Zenon
<1> QED
  BY <1>1, <1>2, <1>3 DEF xfer_size

\* The buffer after a write, for a buffer of that shape.
LEMMA LandFacts ==
    ASSUME NEW t \in Threads, NEW o \in 1..Len(Sizes), NEW len,
           buf \in Buffers
    PROVE  /\ Land(t, o, len) \in Buffers
           /\ \A u \in Threads : u # t => Land(t, o, len)[u] = buf[u]
           /\ \A k \in 1..max_size : k <= len => Land(t, o, len)[t][k] = o
<1> DEFINE y == [k \in 1..max_size |-> IF k <= len THEN o ELSE buf[t][k]]
<1>1. Land(t, o, len) = [buf EXCEPT ![t] = y]
  BY Zenon DEF Land
<1>2. o \in 0..Len(Sizes)
  BY BenchmarkAssumption
<1>3. y \in [1..max_size -> 0..Len(Sizes)]
  <2>1. \A k \in 1..max_size : buf[t][k] \in 0..Len(Sizes)
    BY Zenon DEF Buffers
  <2> QED
    BY <1>2, <2>1, Zenon
<1>4. \A k \in 1..max_size : k <= len => y[k] = o
  BY Zenon
<1> HIDE DEF y
<1>5. Land(t, o, len) \in Buffers
  BY <1>1, <1>3, Zenon DEF Buffers
<1>6. Land(t, o, len)[t] = y /\ \A u \in Threads : u # t => Land(t, o, len)[u] = buf[u]
  BY <1>1, Zenon DEF Buffers
<1> QED
  BY <1>4, <1>5, <1>6, Zenon

\* What a GET does to the buffers when a GET that succeeds is complete.
LEMMA GetWrites ==
    ASSUME "claimed" \notin Outcomes, args \in Options, args' = args, Contents, gaveUp' = {},
           NEW t \in Threads, NEW o \in 1..Len(Sizes),
           NEW ret \in -1..max_size, NEW real \in 0..max_size, GetEnds(t, o, ret, real)
    PROVE  /\ gaveUp = {} /\ late' = {}
           /\ buf' \in Buffers
           /\ \A u \in Threads : u # t => buf'[u] = buf[u]
           /\ ret >= 0 => \A k \in 1..xfer_size(o) : buf'[t][k] = o
<1> DEFINE size == xfer_size(o)
<1>1. /\ ret \in Int /\ real \in Int
      /\ size \in Nat /\ \A k \in 1..size : k \in 1..max_size /\ k <= size
  BY FitsBuffer
<1>2. \/ ret >= 0 /\ buf' = Land(t, o, size) /\ UNCHANGED <<late, gaveUp>>
      \/ ret = -1 /\ buf' = Land(t, o, real) /\ UNCHANGED <<late, gaveUp>>
  <2>1. "claimed" \notin Outcomes
    OBVIOUS
  <2>2. gaveUp' # gaveUp \cup {t}
    BY Zenon
  <2>3. Returned(size, size) = size
    BY Zenon DEF Returned
  <2> HIDE DEF size
  <2> QED
    BY <1>1, <2>1, <2>2, <2>3 DEF GetEnds, size
<1>3. gaveUp = {} /\ late' = {} /\ buf \in Buffers
  BY <1>2, Zenon DEF Contents
<1> HIDE DEF size
<1>4. /\ buf' \in Buffers
      /\ \A u \in Threads : u # t => buf'[u] = buf[u]
  <2>1. PICK len : buf' = Land(t, o, len)
    BY <1>2, Zenon
  <2>2. Land(t, o, len) \in Buffers /\ \A u \in Threads : u # t => Land(t, o, len)[u] = buf[u]
    BY <1>3, LandFacts
  <2> QED
    BY <2>1, <2>2, Zenon
<1>5. ASSUME ret >= 0, NEW k \in 1..size PROVE buf'[t][k] = o
  <2>1. buf' = Land(t, o, size)
    BY <1>1, <1>2, <1>5
  <2>2. k \in 1..max_size /\ k <= size
    BY <1>1
  <2>3. Land(t, o, size)[t][k] = o
    BY <1>3, <2>2, LandFacts
  <2> QED
    BY <2>1, <2>3, Zenon
<1> QED
  BY <1>3, <1>4, <1>5, Zenon DEF size

\* At the start nothing has been fetched or dumped.
LEMMA InitDump == Init => DInv
<1> SUFFICES ASSUME Init PROVE DInv
  OBVIOUS
<1>1. \A t \in Threads : wpc[t] = "none" /\ results[t] = [total_bytes |-> 0, iters |-> 0, ok |-> TRUE] /\ iter[t] = 0
  BY Zenon DEF Init
<1>2. warm = 0 /\ late = {} /\ dump = <<>> /\ main = "discover"
  BY Zenon DEF Init
<1>3. buf \in Buffers
  <2>1. Junk \in 0..Len(Sizes)
    BY BenchmarkAssumption DEF Junk
  <2> QED
    BY <2>1, Zenon DEF Init, Buffers
<1>4. Contents
  BY <1>1, <1>2, <1>3 DEF Contents
<1>5. Begun /\ Tallies
  BY <1>1, <1>2 DEF Begun, Tallies
<1> QED
  BY <1>2, <1>4, <1>5, Zenon DEF DInv, DumpStartsWithLast

\* A step that fetches nothing and dumps nothing.
LEMMA QuietDump ==
    ASSUME DInv, Begun', UNCHANGED <<args, iter, results, buf, late, gaveUp, dump>>, main = "end" => main' = "end"
    PROVE  DInv'
<1>1. Threads' = Threads /\ (\A o : xfer_size(o)' = xfer_size(o)) /\ \A t : Last(t)' = Last(t)
  BY Zenon DEF Threads, N, xfer_size, RangeSize, Last
<1>2. Buffers' = Buffers /\ \A t : HoldsLast(t)' <=> HoldsLast(t)
  BY <1>1, Zenon DEF HoldsLast, Last, Obj, Buffers
<1>3. Contents'
  BY <1>1, <1>2, Zenon DEF DInv, Contents
<1>4. Tallies' /\ (main' # "end" => dump' = <<>>)
  BY <1>1, Zenon DEF DInv, Tallies
<1>5. DumpStartsWithLast'
  BY <1>1, Zenon DEF DInv, DumpStartsWithLast, Last, Obj
<1> QED
  BY <1>3, <1>4, <1>5, Zenon DEF DInv
\* A GET of a worker: its buffer starts with the object it counts as its last.
LEMMA GetDump ==
    ASSUME "claimed" \notin Outcomes, BInv, DInv, NEW t \in Threads, Get(t)
    PROVE  DInv'
<1>1. Types /\ Contents /\ Begun /\ Tallies
  BY Zenon DEF BInv, DInv
<1>2. wpc[t] = "get" /\ UNCHANGED <<args, main, warm, dump>>
  BY Zenon DEF Get
<1>3. /\ Threads' = Threads /\ Buffers' = Buffers /\ \A o : xfer_size(o)' = xfer_size(o)
  BY <1>2, Zenon DEF Threads, N, xfer_size, RangeSize, Buffers
<1>4. main # "end" /\ dump = <<>>
  <2>1. main # "end"
    BY <1>2 DEF BInv, Phases, Active
  <2> QED
    BY <2>1, Zenon DEF DInv
<1>5. ~(warm < Len(Sizes))
  BY <1>1, <1>2 DEF Begun
<1>6. Obj(iter[t]) \in 1..Len(Sizes) /\ args \in Options /\ iter[t] \in Nat
  <2>1. iter[t] \in Nat /\ args \in Options
    BY <1>1, Zenon DEF Types
  <2> QED
    BY <2>1, ObjectOf, Zenon
<1>7. PICK ret \in -1..max_size, real \in 0..max_size :
          /\ GetEnds(t, Obj(iter[t]), ret, real)
          /\ \/ ret < 0 /\ Failed(t)
             \/ /\ ret >= 0
                /\ results' = Counted(t, ret)
                /\ iter' = [iter EXCEPT ![t] = @ + 1]
                /\ wpc' = [wpc EXCEPT ![t] = "loop"]
  BY DEF Get
<1>8. ASSUME gaveUp' = {}
      PROVE  /\ gaveUp = {} /\ late' = {} /\ buf' \in Buffers
             /\ \A u \in Threads : u # t => buf'[u] = buf[u]
             /\ ret >= 0 => \A k \in 1..xfer_size(Obj(iter[t])) : buf'[t][k] = Obj(iter[t])
  BY <1>1, <1>2, <1>6, <1>7, <1>8, GetWrites
\* The other workers.
<1>9. ASSUME NEW u \in Threads, u # t, gaveUp' = {}, results'[u] = results[u], iter'[u] = iter[u],
             results'[u].ok, iter'[u] > 0
      PROVE  HoldsLast(u)'
  <2>1. HoldsLast(u) /\ buf'[u] = buf[u]
    BY <1>1, <1>8, <1>9, Zenon DEF Contents
  <2> QED
    BY <1>3, <1>9, <2>1, Zenon DEF HoldsLast, Last, Obj
<1>10. CASE ret < 0 /\ Failed(t)
  <2>1. /\ iter' = iter /\ wpc'[t] = "done" /\ ~results'[t].ok
        /\ results'[t].iters = results[t].iters /\ results'[t].total_bytes = results[t].total_bytes
        /\ \A u \in Threads : u # t => results'[u] = results[u] /\ wpc'[u] = wpc[u]
    <3> DEFINE y == [results[t] EXCEPT !.ok = FALSE]
    <3>1. results' = [results EXCEPT ![t] = y] /\ wpc' = [wpc EXCEPT ![t] = "done"] /\ iter' = iter
      BY <1>10, Zenon DEF Failed
    <3>2. y.iters = results[t].iters /\ y.total_bytes = results[t].total_bytes /\ ~y.ok
      <4>1. results[t] \in ThreadResult
        BY <1>1, Zenon DEF Types
      <4> QED
        BY <4>1, Zenon DEF ThreadResult
    <3> HIDE DEF y
    <3> QED
      BY <1>1, <3>1, <3>2, Zenon DEF Types
  <2>2. Contents'
    <3> SUFFICES ASSUME gaveUp' = {}, NEW u \in Threads, results'[u].ok, iter'[u] > 0 PROVE HoldsLast(u)'
      BY <1>3, <1>8, Zenon DEF Contents
    <3>1. u # t
      BY <2>1, Zenon
    <3> QED
      BY <1>9, <2>1, <3>1, Zenon
  <2>3. Begun'
    <3>1. \A u \in Threads : wpc'[u] = "none" => iter'[u] = 0
      BY <1>1, <2>1 DEF Begun
    <3> QED
      BY <1>1, <1>2, <1>3, <1>5, <3>1, Zenon DEF Begun
  <2>4. Tallies'
    BY <1>1, <1>3, <2>1, Zenon DEF Tallies
  <2> QED
    BY <1>2, <1>4, <2>2, <2>3, <2>4, Zenon DEF DInv, DumpStartsWithLast
<1>11. CASE /\ ret >= 0
            /\ results' = Counted(t, ret)
            /\ iter' = [iter EXCEPT ![t] = @ + 1]
            /\ wpc' = [wpc EXCEPT ![t] = "loop"]
  <2>1. /\ iter'[t] = iter[t] + 1 /\ wpc'[t] = "loop" /\ results'[t].iters = iter[t] + 1
        /\ \A u \in Threads : u # t => results'[u] = results[u] /\ wpc'[u] = wpc[u] /\ iter'[u] = iter[u]
    <3> DEFINE y == [total_bytes |-> results[t].total_bytes + ret, iters |-> iter[t] + 1, ok |-> results[t].ok]
    <3>1. results' = [results EXCEPT ![t] = y]
      BY <1>11, Zenon DEF Counted
    <3>2. y.iters = iter[t] + 1
      BY Zenon
    <3> HIDE DEF y
    <3> QED
      BY <1>1, <1>11, <3>1, <3>2, Zenon DEF Types
  <2>2. Last(t)' = Obj(iter[t]) /\ iter'[t] # 0
    <3>1. iter'[t] - 1 = iter[t] /\ iter'[t] # 0
      BY <1>6, <2>1
    <3> QED
      BY <3>1, Zenon DEF Last, Obj
  <2>3. Contents'
    <3> SUFFICES ASSUME gaveUp' = {}, NEW u \in Threads, results'[u].ok, iter'[u] > 0 PROVE HoldsLast(u)'
      BY <1>3, <1>8, Zenon DEF Contents
    <3>1. CASE u = t
      <4>1. \A k \in 1..xfer_size(Obj(iter[t])) : buf'[t][k] = Obj(iter[t])
        BY <1>8, <1>11, Zenon
      <4>2. HoldsLast(t)' <=> \A k \in 1..xfer_size(Last(t))' : buf'[t][k] = Last(t)'
        BY Zenon DEF HoldsLast
      <4>3. xfer_size(Last(t))' = xfer_size(Obj(iter[t]))
        BY <1>2, <2>2, Zenon DEF xfer_size, RangeSize
      <4> QED
        BY <2>2, <3>1, <4>1, <4>2, <4>3, Zenon
    <3>2. CASE u # t
      BY <1>9, <2>1, <3>2, Zenon
    <3> QED
      BY <3>1, <3>2, Zenon
  <2>4. Begun'
    <3>1. \A u \in Threads : wpc'[u] = "none" => iter'[u] = 0
      BY <1>1, <2>1 DEF Begun
    <3> QED
      BY <1>1, <1>2, <1>3, <1>5, <3>1, Zenon DEF Begun
  <2>5. Tallies'
    <3>1. \A u \in Threads : results'[u].iters = iter'[u] /\ (iter'[u] = 0 => results'[u].total_bytes = 0)
      BY <1>1, <2>1, <2>2, Zenon DEF Tallies
    <3> QED
      BY <1>3, <3>1, Zenon DEF Tallies
  <2> QED
    BY <1>2, <1>4, <2>3, <2>4, <2>5, Zenon DEF DInv, DumpStartsWithLast
<1> QED
  BY <1>7, <1>10, <1>11, Zenon

\* A GET of the warm-up comes before any that is counted.
LEMMA WarmUpDump ==
    ASSUME "claimed" \notin Outcomes, BInv, DInv, WarmUp
    PROVE  DInv'
<1>1. Types /\ Contents /\ Begun /\ Tallies
  BY Zenon DEF BInv, DInv
<1>2. main = "warmup" /\ warm < Len(Sizes) /\ warm' = warm + 1 /\ UNCHANGED <<args, main, wpc, iter, results, dump>>
  BY Zenon DEF WarmUp
<1>3. Threads' = Threads /\ Buffers' = Buffers
  BY <1>2, Zenon DEF Threads, N, Buffers
<1>4. \A u \in Threads : wpc[u] = "none" /\ iter[u] = 0
  BY <1>1, <1>2, Zenon DEF Begun
<1>5. dump = <<>>
  BY <1>2 DEF DInv
<1>6. warm + 1 \in 1..Len(Sizes) /\ 0 \in Threads /\ args \in Options
  <2>1. Len(Sizes) \in Nat
    BY BenchmarkAssumption
  <2>2. 0 \in Threads /\ warm \in Nat /\ args \in Options
    BY <1>1, ArgsFacts DEF Types
  <2> QED
    BY <1>2, <2>1, <2>2
<1>7. PICK ret \in -1..max_size, real \in 0..max_size : GetEnds(0, warm + 1, ret, real)
  BY Zenon DEF WarmUp
<1>8. ASSUME gaveUp' = {} PROVE gaveUp = {} /\ late' = {} /\ buf' \in Buffers
  BY <1>1, <1>2, <1>6, <1>7, <1>8, GetWrites
<1>9. Contents'
  <2>1. \A u \in Threads : ~(iter'[u] > 0)
    BY <1>2, <1>4
  <2> QED
    BY <1>3, <1>8, <2>1, Zenon DEF Contents
<1>10. Begun' /\ Tallies'
  <2>1. main' # "discover"
    BY <1>2
  <2> QED
    BY <1>1, <1>2, <1>3, <1>4, <2>1, Zenon DEF Begun, Tallies
<1> QED
  BY <1>2, <1>5, <1>9, <1>10, Zenon DEF DInv, DumpStartsWithLast
\* The dump is cut from buffer 0, to the size of the object of the last GET.
LEMMA FinishDump == ASSUME BInv, DInv, Finish PROVE DInv'
<1>1. Types /\ Contents /\ Begun /\ Tallies
  BY Zenon DEF BInv, DInv
<1>2. UNCHANGED <<args, warm, wpc, iter, results, buf, late, gaveUp>> /\ main' = "end"
  BY Zenon DEF Finish
<1>3. Threads' = Threads /\ Buffers' = Buffers /\ (\A o : xfer_size(o)' = xfer_size(o)) /\ \A t : Last(t)' = Last(t)
  BY <1>2, Zenon DEF Threads, N, xfer_size, RangeSize, Last, Buffers
<1>4. \A t : HoldsLast(t)' <=> HoldsLast(t)
  BY <1>2, <1>3, Zenon DEF HoldsLast, Last, Obj
<1>5. Contents' /\ Tallies'
  BY <1>1, <1>2, <1>3, <1>4, Zenon DEF Contents, Tallies
<1>6. Begun'
  <2>1. main' # "discover"
    BY <1>2
  <2> QED
    BY <1>1, <1>2, <1>3, <2>1, Zenon DEF Begun
<1>7. ASSUME dump' # <<>>, gaveUp = {}
      PROVE  dump' \in [1..Sizes[Last(0)] -> 0..Len(Sizes)] /\ \A k \in 1..xfer_size(Last(0)) : dump'[k] = Last(0)
  <2>1. /\ exit' = 0 /\ results[0].total_bytes > 0
        /\ dump' = SubSeq(buf[0], 1, Sizes[LastObject(results[0].iters)])
    BY <1>7, Zenon DEF Finish
  <2>2. 0 \in Threads /\ args \in Options
    BY <1>1, ArgsFacts, Zenon DEF Types
  <2>3. results[0].ok
    <3>1. exit' = IF \A t \in Threads : results[t].ok THEN 0 ELSE 1
      BY Zenon DEF Finish
    <3>2. exit' # 1
      BY <2>1
    <3> QED
      BY <2>2, <3>1, <3>2, Zenon
  <2>4. iter[0] \in Nat /\ iter[0] > 0 /\ results[0].iters = iter[0]
    <3>1. results[0].total_bytes # 0
      BY <2>1
    <3>2. iter[0] \in Nat /\ iter[0] # 0 /\ results[0].iters = iter[0]
      BY <1>1, <2>2, <3>1, Zenon DEF Types, Tallies
    <3> QED
      BY <3>2
  <2> DEFINE o == Last(0)
  <2>5. dump' = SubSeq(buf[0], 1, Sizes[o])
    BY <2>1, <2>4, Zenon DEF LastObject, Last
  <2>6. o \in 1..Len(Sizes)
    <3>1. iter[0] - 1 \in Nat
      BY <2>4
    <3> QED
      BY <3>1, ObjectOf, Zenon DEF Last
  <2>7. buf[0] \in [1..max_size -> 0..Len(Sizes)] /\ \A k \in 1..xfer_size(o) : buf[0][k] = o
    BY <1>1, <1>7, <2>2, <2>3, <2>4, Zenon DEF Contents, Buffers, HoldsLast
  <2> HIDE DEF o
  <2>8. /\ xfer_size(o) \in Nat /\ xfer_size(o) <= Sizes[o] /\ Sizes[o] \in Nat /\ Sizes[o] <= max_size
        /\ max_size \in Nat
    BY <2>2, <2>6, FitsBuffer, Zenon
  <2>9. dump' \in [1..Sizes[o] -> 0..Len(Sizes)] /\ \A k \in 1..Sizes[o] : dump'[k] = buf[0][k]
    <3> DEFINE b == buf[0]
               n == Sizes[o]
               S == 0..Len(Sizes)
    <3>1. b \in [1..max_size -> S] /\ n \in Nat /\ n <= max_size
      BY <2>7, <2>8, Zenon
    <3> HIDE DEF b, n, S
    <3>2. b \in Seq(S) /\ Len(b) = max_size
      BY <2>8, <3>1
    <3>3. SubSeq(b, 1, n) = [k \in 1..n |-> b[k]]
      BY <2>8, <3>1, <3>2
    <3>4. dump' = [k \in 1..n |-> b[k]]
      BY <2>5, <3>3, Zenon DEF b, n
    <3>5. \A k \in 1..n : b[k] \in S
      BY <2>8, <3>1
    <3> QED
      BY <3>4, <3>5, Zenon DEF b, n, S
  <2>10. \A k \in 1..xfer_size(o) : k \in 1..Sizes[o]
    BY <2>8
  <2> QED
    BY <2>7, <2>9, <2>10, Zenon DEF o
<1>8. DumpStartsWithLast'
  BY <1>2, <1>3, <1>7, Zenon DEF DumpStartsWithLast, Last, Obj
<1> QED
  BY <1>2, <1>5, <1>6, <1>8, Zenon DEF DInv

\* Every step keeps it.
LEMMA NextDump ==
    ASSUME "claimed" \notin Outcomes, BInv, DInv, [Next]_vars
    PROVE  DInv'
<1>1. Types /\ Begun
  BY Zenon DEF BInv, DInv
<1>2. CASE \E t \in Threads : CountIn(t) \/ SeeGo(t) \/ Loop(t)
  <2>1. PICK t \in Threads : CountIn(t) \/ SeeGo(t) \/ Loop(t)
    BY <1>2, Zenon
  <2>2. wpc[t] # "none" /\ UNCHANGED <<args, main, warm, iter, results, buf, late, gaveUp, dump>>
    BY <2>1 DEF CountIn, SeeGo, Loop
  <2>3. \A u \in Threads : wpc'[u] = "none" => wpc[u] = "none"
    BY <1>1, <2>1, <2>2 DEF CountIn, SeeGo, Loop, Types
  <2>4. Threads' = Threads
    BY <2>2, Zenon DEF Threads, N
  <2>5. Begun'
    BY <1>1, <2>2, <2>3, <2>4, Zenon DEF Begun
  <2> QED
    BY <2>2, <2>5, QuietDump, Zenon
<1>3. CASE \E t \in Threads : Spawn(t)
  <2>1. PICK t \in Threads : Spawn(t)
    BY <1>3, Zenon
  <2>2. /\ main = "warmup" /\ warm = Len(Sizes)
        /\ wpc' = [wpc EXCEPT ![t] = "new"] /\ main' = IF t = N - 1 THEN "ready" ELSE main
        /\ UNCHANGED <<args, warm, iter, results, buf, late, gaveUp, dump>>
    BY <2>1, Zenon DEF Spawn
  <2>3. \A u \in Threads : wpc'[u] = "none" => wpc[u] = "none"
    BY <1>1, <2>2 DEF Types
  <2>4. Threads' = Threads
    BY <2>2, Zenon DEF Threads, N
  <2>5. main' # "discover" /\ main # "end"
    BY <2>2
  <2>6. ~(warm < Len(Sizes))
    <3>1. Len(Sizes) \in Nat
      BY BenchmarkAssumption
    <3> QED
      BY <2>2, <3>1
  <2>7. Begun'
    BY <1>1, <2>2, <2>3, <2>4, <2>5, <2>6, Zenon DEF Begun
  <2> QED
    BY <2>2, <2>5, <2>7, QuietDump, Zenon
<1>4. CASE Discover \/ SetGo \/ SetStop \/ JoinReportCleanup
  <2>1. UNCHANGED <<args, warm, wpc, iter, results, buf, late, gaveUp, dump>> /\ main # "end" /\ main' # "discover"
    BY <1>4 DEF Discover, SetGo, SetStop, JoinReportCleanup
  <2>2. Threads' = Threads
    BY <2>1, Zenon DEF Threads, N
  <2>3. Begun'
    BY <1>1, <2>1, <2>2, Zenon DEF Begun
  <2> QED
    BY <2>1, <2>3, QuietDump, Zenon
<1>5. CASE LateWrite
  <2>1. UNCHANGED <<args, main, warm, wpc, iter, results, gaveUp, dump>> /\ late # {}
    BY <1>5, Zenon DEF LateWrite
  <2>2. gaveUp # {}
    BY <2>1, Zenon DEF DInv, Contents
  <2>3. Threads' = Threads
    BY <2>1, Zenon DEF Threads, N
  <2>4. Begun' /\ Tallies'
    BY <2>1, <2>3, Zenon DEF DInv, Begun, Tallies
  <2> QED
    BY <2>1, <2>2, <2>4, Zenon DEF DInv, Contents, DumpStartsWithLast
<1>6. CASE UNCHANGED vars
  <2>1. UNCHANGED <<args, main, warm, wpc, iter, results, buf, late, gaveUp, dump>>
    BY <1>6, Zenon DEF vars
  <2>2. Threads' = Threads
    BY <2>1, Zenon DEF Threads, N
  <2>3. Begun'
    BY <1>1, <2>1, <2>2, Zenon DEF Begun
  <2> QED
    BY <2>1, <2>3, QuietDump, Zenon
<1> QED
  BY <1>2, <1>3, <1>4, <1>5, <1>6, GetDump, WarmUpDump, FinishDump, Zenon DEF Next, Main, Worker

\* Provided that a GET which succeeds has brought all it asked for, the file that --out
\* writes has the size of the last object and starts with the bytes asked of it, for any
\* objects, range size and number of GETs; without --range-size it is that object, as
\* internals.md:79 says.  The violation of DumpIsLastObject is thus all there is: a
\* range smaller than the object, or an answer that declares what did not land.
THEOREM DumpOfWholeObjects ==
    ASSUME "claimed" \notin Outcomes
    PROVE  Spec => [](DumpStartsWithLast /\ (RangeSize = 0 => DumpIsLastObject))
<1>1. ASSUME BInv, DInv PROVE DumpStartsWithLast /\ (RangeSize = 0 => DumpIsLastObject)
  <2>1. DumpStartsWithLast /\ args \in Options
    BY <1>1, Zenon DEF DInv, BInv, Types
  <2> SUFFICES ASSUME RangeSize = 0, dump # <<>>, gaveUp = {}
               PROVE  dump = [k \in 1..Sizes[Last(0)] |-> Last(0)]
    BY <2>1, Zenon DEF DumpIsLastObject, Last
  <2>2. dump \in [1..Sizes[Last(0)] -> 0..Len(Sizes)] /\ \A k \in 1..xfer_size(Last(0)) : dump[k] = Last(0)
    BY <2>1, Zenon DEF DumpStartsWithLast
  <2>3. xfer_size(Last(0)) = Sizes[Last(0)]
    BY DEF xfer_size
  <2> QED
    BY <2>2, <2>3
<1>2. ASSUME BInv, DInv, [Next]_vars PROVE DInv'
  BY <1>2, NextDump
<1>3. BInv /\ DInv /\ [Next]_vars => DInv'
  BY <1>2
<1>4. BInv /\ DInv => DumpStartsWithLast /\ (RangeSize = 0 => DumpIsLastObject)
  BY <1>1
<1> QED
  BY <1>3, <1>4, InitDump, Invariance, PTL DEF Spec
-----------------------------------------------------------------------------
(* The barrier.  Main and workers wait for each other on ready, go, stop and *)
(* the join; as long as the program has not ended, one of them is not held   *)
(* up.                                                                       *)

\* The workers that have counted themselves in.
CountedIn == {t \in Threads : wpc[t] \notin {"none", "new"}}

\* What main() has done so far, and what its workers have.
Barrier ==
    /\ main \in {"discover", "warmup", "ready", "sleep", "join", "finish", "end"}
    /\ ready = Cardinality(CountedIn)
    /\ main \in {"discover", "warmup"} => wpc[N - 1] = "none"
    /\ main \in {"ready", "sleep", "join"} => \A t \in Threads : wpc[t] # "none"
    /\ main \in {"sleep", "join"} => go /\ \A t \in Threads : wpc[t] # "new"
    /\ main = "join" => stop

\* Main has a step to take that waits for nobody, or a worker has.  The disjuncts are
\* the conditions under which main() or a worker goes on, in the order of main().
NeverBlocked ==
    \/ main \in {"discover", "sleep", "finish", "end"}
    \/ main = "warmup" /\ warm < Len(Sizes)
    \/ main = "warmup" /\ \E t \in Threads : wpc[t] = "none" /\ \A u \in 0..(t - 1) : wpc[u] # "none"
    \/ main = "ready" /\ (ready >= N \/ \E t \in Threads : wpc[t] = "new")
    \/ main = "join" /\ \A t \in Threads : wpc[t] = "done"
    \/ main = "join" /\ \E t \in Threads : \/ wpc[t] = "spin" /\ go
                                           \/ wpc[t] = "loop" /\ stop
                                           \/ wpc[t] = "get"

\* The workers that have counted themselves in are finitely many, and no more than N.
LEMMA CountedInFinite ==
    ASSUME args \in Options
    PROVE  /\ IsFiniteSet(CountedIn) /\ Cardinality(CountedIn) \in Nat
           /\ Cardinality(CountedIn) >= N => CountedIn = Threads
           /\ CountedIn = Threads => Cardinality(CountedIn) = N
           /\ N - 1 \in Threads
<1>1. N \in Nat /\ N > 0
  BY ArgsFacts, Zenon
<1>2. IsFiniteSet(Threads) /\ Cardinality(Threads) = N /\ N - 1 \in Threads
  BY <1>1, FS_Interval DEF Threads
<1>3. CountedIn \in SUBSET Threads
  BY Zenon DEF CountedIn
<1>4. /\ IsFiniteSet(CountedIn) /\ Cardinality(CountedIn) <= N
      /\ N = Cardinality(CountedIn) => Threads = CountedIn
  BY <1>2, <1>3, FS_Subset, Zenon
<1>5. Cardinality(CountedIn) \in Nat
  BY <1>4, FS_CardinalityType, Zenon
<1>6. Cardinality(CountedIn) >= N => N = Cardinality(CountedIn)
  BY <1>1, <1>4, <1>5
<1> QED
  BY <1>2, <1>4, <1>5, <1>6, Zenon

\* Nobody has counted itself in at the start.
LEMMA InitBarrier == Init => Barrier
<1> SUFFICES ASSUME Init PROVE Barrier
  OBVIOUS
<1>1. \A t \in Threads : wpc[t] = "none"
  BY Zenon DEF Init
<1>2. CountedIn = {}
  BY <1>1 DEF CountedIn
<1>3. ready = Cardinality(CountedIn)
  BY <1>2, FS_EmptySet, Zenon DEF Init
<1>4. wpc[N - 1] = "none"
  BY <1>1, CountedInFinite, Zenon DEF Init
<1>5. main = "discover"
  BY Zenon DEF Init
<1> QED
  BY <1>3, <1>4, <1>5 DEF Barrier

\* A worker that goes on after it has counted itself in.
LEMMA CountedInStep ==
    ASSUME BInv, Barrier, NEW t \in Threads, SeeGo(t) \/ Loop(t) \/ Get(t)
    PROVE  Barrier'
<1>1. /\ wpc[t] \in {"spin", "loop", "get"} /\ wpc' = [wpc EXCEPT ![t] = wpc'[t]] /\ wpc'[t] \in {"loop", "get", "done"}
      /\ UNCHANGED <<args, main, ready, go, stop>>
  <2>1. wpc \in [Threads -> {"none", "new", "spin", "loop", "get", "done"}]
    BY Zenon DEF BInv, Types
  <2> QED
    BY <2>1 DEF SeeGo, Loop, Get, Failed
<1>2. Threads' = Threads /\ N' = N
  BY <1>1, Zenon DEF Threads, N
<1>3. wpc[t] \notin {"none", "new"} /\ wpc'[t] \notin {"none", "new"}
  BY <1>1
<1>4. \A u \in Threads : /\ wpc'[u] \in {"none", "new"} <=> wpc[u] \in {"none", "new"}
                         /\ u # t => wpc'[u] = wpc[u]
  <2>1. \A u \in Threads : u # t => wpc'[u] = wpc[u]
    BY <1>1, Zenon DEF BInv, Types
  <2> QED
    BY <1>3, <2>1, Zenon
<1>5. CountedIn' = CountedIn
  BY <1>2, <1>4, Zenon DEF CountedIn
<1>6. \A u \in Threads : (wpc'[u] = "none" <=> wpc[u] = "none") /\ (wpc'[u] = "new" <=> wpc[u] = "new")
  BY <1>3, <1>4, Zenon
<1>7. N - 1 \in Threads
  BY CountedInFinite, Zenon DEF BInv, Types
<1> QED
  BY <1>1, <1>2, <1>5, <1>6, <1>7, Zenon DEF Barrier

\* A worker counts itself in.
LEMMA CountInStep ==
    ASSUME BInv, Barrier, NEW t \in Threads, CountIn(t)
    PROVE  Barrier'
<1>1. wpc[t] = "new" /\ ready' = ready + 1 /\ wpc' = [wpc EXCEPT ![t] = "spin"] /\ UNCHANGED <<args, main, go, stop>>
  BY Zenon DEF CountIn
<1>2. Threads' = Threads /\ N' = N
  BY <1>1, Zenon DEF Threads, N
<1>3. wpc'[t] = "spin" /\ \A u \in Threads : u # t => wpc'[u] = wpc[u]
  BY <1>1, Zenon DEF BInv, Types
<1>4. CountedIn' = CountedIn \cup {t} /\ t \notin CountedIn
  BY <1>1, <1>2, <1>3 DEF CountedIn
<1>5. Cardinality(CountedIn') = Cardinality(CountedIn) + 1
  BY <1>4, CountedInFinite, FS_AddElement, Zenon DEF BInv, Types
<1>6. ready' = Cardinality(CountedIn)'
  BY <1>1, <1>5, Zenon DEF Barrier
<1>7. \A u \in Threads : wpc'[u] \in {"none", "new"} => wpc'[u] = wpc[u]
  BY <1>3
<1>8. main \in {"discover", "warmup"} => wpc'[N - 1] = "none"
  <2>1. wpc[t] # "none"
    BY <1>1
  <2>2. N - 1 \in Threads
    BY CountedInFinite, Zenon DEF BInv, Types
  <2> QED
    BY <1>3, <2>1, <2>2, Zenon DEF Barrier
<1>9. \A u \in Threads : (wpc'[u] = "none" => wpc[u] = "none") /\ (wpc'[u] = "new" => wpc[u] = "new")
  BY <1>7, Zenon
<1> QED
  BY <1>1, <1>2, <1>6, <1>8, <1>9, Zenon DEF Barrier

\* Main starts the next worker, the last of them before it waits for ready.
LEMMA SpawnStep ==
    ASSUME BInv, Barrier, NEW t \in Threads, Spawn(t)
    PROVE  Barrier'
<1>1. /\ main = "warmup" /\ wpc[t] = "none" /\ wpc' = [wpc EXCEPT ![t] = "new"]
      /\ main' = IF t = N - 1 THEN "ready" ELSE main
      /\ UNCHANGED <<args, ready, go, stop>>
  BY Zenon DEF Spawn
<1>2. Threads' = Threads /\ N' = N /\ N - 1 \in Threads
  <2>1. N - 1 \in Threads
    BY CountedInFinite, Zenon DEF BInv, Types
  <2> QED
    BY <1>1, <2>1, Zenon DEF Threads, N
<1>3. wpc'[t] = "new" /\ \A u \in Threads : u # t => wpc'[u] = wpc[u]
  BY <1>1, Zenon DEF BInv, Types
<1>4. CountedIn' = CountedIn
  BY <1>1, <1>2, <1>3 DEF CountedIn
<1>5. ready' = Cardinality(CountedIn)'
  BY <1>1, <1>4, Zenon DEF Barrier
<1>6. CASE t = N - 1
  <2>1. \A u \in Threads : u # t => wpc[u] # "none"
    <3>1. \A u \in 0..(t - 1) : wpc[u] # "none"
      BY Zenon DEF Spawn
    <3>2. \A u \in Threads : u # t => u \in 0..(t - 1)
      <4>1. N \in Nat
        BY ArgsFacts, Zenon DEF BInv, Types
      <4> QED
        BY <1>6, <4>1 DEF Threads
    <3> QED
      BY <3>1, <3>2, Zenon
  <2>2. \A u \in Threads : wpc'[u] # "none"
    BY <1>3, <2>1
  <2>3. main' = "ready"
    BY <1>1, <1>6, Zenon
  <2> QED
    BY <1>2, <1>5, <2>2, <2>3 DEF Barrier
<1>7. CASE t # N - 1
  <2>1. wpc'[N - 1] = "none" /\ main' = "warmup"
    BY <1>1, <1>2, <1>3, <1>7, Zenon DEF Barrier
  <2> QED
    BY <1>2, <1>5, <2>1 DEF Barrier
<1> QED
  BY <1>6, <1>7, Zenon

\* The other steps of main().
LEMMA MainStep ==
    ASSUME BInv, Barrier, Discover \/ WarmUp \/ SetGo \/ SetStop \/ JoinReportCleanup \/ Finish \/ LateWrite \/ UNCHANGED vars
    PROVE  Barrier'
<1>1. UNCHANGED <<args, wpc, ready>>
  BY DEF Discover, WarmUp, SetGo, SetStop, JoinReportCleanup, Finish, LateWrite, vars
<1>2. Threads' = Threads /\ N' = N /\ CountedIn' = CountedIn
  BY <1>1, Zenon DEF Threads, N, CountedIn
<1>3. ready' = Cardinality(CountedIn)'
  BY <1>1, <1>2, Zenon DEF Barrier
<1>4. CASE Discover
  <2>1. main = "discover" /\ main' \in {"warmup", "end"} /\ UNCHANGED <<go, stop>>
    BY <1>4 DEF Discover
  <2> QED
    BY <1>1, <1>2, <1>3, <2>1 DEF Barrier
<1>5. CASE WarmUp \/ LateWrite \/ UNCHANGED vars
  <2>1. UNCHANGED <<main, go, stop>>
    BY <1>5, Zenon DEF WarmUp, LateWrite, vars
  <2> QED
    BY <1>1, <1>2, <1>3, <2>1, Zenon DEF Barrier
<1>6. CASE SetGo
  <2>1. main = "ready" /\ ready >= N /\ go' /\ main' = "sleep"
    BY <1>6, Zenon DEF SetGo
  <2>2. CountedIn = Threads
    BY <2>1, CountedInFinite, Zenon DEF BInv, Types, Barrier
  <2>3. \A t \in Threads : wpc[t] # "none" /\ wpc[t] # "new"
    BY <2>2 DEF CountedIn
  <2> QED
    BY <1>1, <1>2, <1>3, <2>1, <2>3 DEF Barrier
<1>7. CASE SetStop
  <2>1. main = "sleep" /\ stop' /\ main' = "join" /\ go' = go
    BY <1>7, Zenon DEF SetStop
  <2>2. go /\ \A t \in Threads : wpc[t] # "none" /\ wpc[t] # "new"
    BY <2>1 DEF Barrier
  <2> QED
    BY <1>1, <1>2, <1>3, <2>1, <2>2 DEF Barrier
<1>8. CASE JoinReportCleanup \/ Finish
  <2>1. main' \in {"finish", "end"}
    BY <1>8, Zenon DEF JoinReportCleanup, Finish
  <2> QED
    BY <1>1, <1>2, <1>3, <2>1 DEF Barrier
<1> QED
  BY <1>4, <1>5, <1>6, <1>7, <1>8, Zenon

\* Nobody waits for somebody who waits: while the benchmark runs, main() or one of its
\* workers can go on, for any number of threads.  The barrier of ready and go opens,
\* and after stop every worker is on its way to the join.
THEOREM BarrierNeverBlocks == Spec => []NeverBlocked
<1>1. ASSUME BInv, Barrier PROVE NeverBlocked
  <2> USE <1>1
  <2>1. /\ args \in Options /\ wpc \in [Threads -> {"none", "new", "spin", "loop", "get", "done"}]
        /\ warm \in Nat /\ warm <= Len(Sizes)
    BY Zenon DEF BInv, Types
  <2>2. CASE main = "warmup"
    <3> DEFINE S == {t \in Threads : wpc[t] = "none"}
    <3>1. S # {} /\ S \subseteq Nat
      <4>1. N - 1 \in S
        BY <2>1, <2>2, CountedInFinite DEF Barrier
      <4>2. Threads \subseteq Nat
        BY <2>1, ArgsFacts, Zenon
      <4> QED
        BY <4>1, <4>2, Zenon
    <3>2. PICK t \in S : \A u \in S : t <= u
      <4> HIDE DEF S
      <4> QED
        BY <3>1, LeastNatural, Zenon
    <3>3. t \in Threads /\ wpc[t] = "none"
      BY <3>2, Zenon
    <3>4. ASSUME NEW u \in 0..(t - 1) PROVE wpc[u] # "none"
      <4>1. N \in Nat
        BY <2>1, ArgsFacts, Zenon
      <4>2. u \in Threads /\ ~(t <= u)
        BY <3>3, <4>1 DEF Threads
      <4> QED
        BY <3>2, <4>2, Zenon
    <3> QED
      BY <2>2, <3>3, <3>4, Zenon DEF NeverBlocked
  <2>3. CASE main = "ready"
    <3> SUFFICES ASSUME \A t \in Threads : wpc[t] # "new" PROVE ready >= N
      BY <2>3, Zenon DEF NeverBlocked
    <3>1. \A t \in Threads : wpc[t] # "none"
      BY <2>3 DEF Barrier
    <3>2. CountedIn = Threads
      BY <3>1 DEF CountedIn
    <3>3. ready = N /\ N \in Nat
      BY <2>1, <3>2, CountedInFinite, ArgsFacts, Zenon DEF Barrier
    <3> QED
      BY <3>3
  <2>4. CASE main = "join"
    <3>1. go /\ stop /\ \A t \in Threads : wpc[t] # "none" /\ wpc[t] # "new"
      BY <2>4 DEF Barrier
    <3>2. \A t \in Threads : wpc[t] = "spin" \/ wpc[t] = "loop" \/ wpc[t] = "get" \/ wpc[t] = "done"
      BY <2>1, <3>1
    <3> QED
      BY <2>4, <3>1, <3>2, Zenon DEF NeverBlocked
  <2>5. main \in {"discover", "sleep", "finish", "end"} => NeverBlocked
    BY Zenon DEF NeverBlocked
  <2> QED
    BY <2>2, <2>3, <2>4, <2>5 DEF Barrier
<1>2. ASSUME BInv, Barrier, [Next]_vars PROVE Barrier'
  BY <1>2, CountedInStep, CountInStep, SpawnStep, MainStep, Zenon DEF Next, Main, Worker
<1>3. BInv /\ Barrier => NeverBlocked
  BY <1>1
<1>4. BInv /\ Barrier /\ [Next]_vars => Barrier'
  BY <1>2
<1> QED
  BY <1>3, <1>4, InitBarrier, Invariance, PTL DEF Spec
=============================================================================
