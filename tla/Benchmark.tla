----------------------------- MODULE Benchmark ------------------------------
(***************************************************************************)
(* The benchmark client: main() and run_benchmark of client/main.cpp with  *)
(* the GET of client/s3_client.cpp.  The main thread discovers, warms up,  *)
(* releases the workers with ready/go, ends them with stop, reports,       *)
(* deregisters and dumps; worker t does GET after GET into buffer t.       *)
(*                                                                         *)
(* Every GET of the benchmark starts at offset 0, so a buffer is described *)
(* by which object each of its positions was last written from.  The       *)
(* endpoint need not be this gateway: an answer may declare any count up   *)
(* to what was asked for, whatever has landed.  A GET whose answer does    *)
(* not come (a timeout of httplib) fails in the client while the endpoint  *)
(* still writes, and lands later.                                          *)
(***************************************************************************)
EXTENDS Integers, FiniteSets, Sequences

CONSTANTS
    Sizes,      \* sizes of the objects, in the order of the command line
    Options,    \* command lines to consider: --threads, --range-size (0 for whole
                \* objects), legacy (base64) or verbatim token encoding
    Outcomes,   \* how a GET may end: "ok", "claimed", "error", "lost"
    MaxIters    \* bound: GETs of a worker before the duration is over

ASSUME BenchmarkAssumption ==
    /\ Sizes \in Seq(Nat \ {0}) /\ Len(Sizes) > 0
    /\ Options \subseteq [threads : Nat \ {0}, range_size : Nat, base64 : BOOLEAN]
    /\ Outcomes \subseteq {"ok", "claimed", "error", "lost"}
    /\ MaxIters \in Nat

VARIABLES
    args,        \* the command line
    main,        \* where main() is
    warm,        \* objects warmed up so far
    ready, go, stop,
    wpc,         \* thread -> "none", "new", "spin", "loop", "get" or "done"
    iter,        \* thread -> GETs finished
    results,     \* thread -> ThreadResult
    buf,         \* thread -> content of its buffer (external)
    registered,  \* threads whose buffer is registered
    late,        \* transfers the client has given up and the endpoint has not
    issued,      \* thread -> GETs it has begun (history variable)
    asked,       \* thread -> bytes these have asked for (history variable)
    gaveUp,      \* threads into whose buffer a transfer was given up (history variable)
    dump, exit

vars == <<args, main, warm, ready, go, stop, wpc, iter, results, buf, registered, late, issued, asked, gaveUp, dump, exit>>

N == args.threads
RangeSize == args.range_size
Base64 == args.base64

Threads == 0..(N - 1)
max_size == CHOOSE m \in {Sizes[i] : i \in DOMAIN Sizes} : \A i \in DOMAIN Sizes : Sizes[i] <= m
Junk == 0

xfer_size(o) == IF RangeSize > 0 /\ RangeSize < Sizes[o] THEN RangeSize ELSE Sizes[o]

\* The object of the GET with 0-based number i.
Obj(i) == (i % Len(Sizes)) + 1

Init ==
    /\ args \in Options
    /\ main = "discover"
    /\ warm = 0
    /\ ready = 0 /\ go = FALSE /\ stop = FALSE
    /\ wpc = [t \in Threads |-> "none"]
    /\ iter = [t \in Threads |-> 0]
    /\ results = [t \in Threads |-> [total_bytes |-> 0, iters |-> 0, ok |-> TRUE]]
    /\ buf = [t \in Threads |-> [k \in 1..max_size |-> Junk]]
    /\ registered = {}
    /\ late = {}
    /\ issued = [t \in Threads |-> 0]
    /\ asked = [t \in Threads |-> 0]
    /\ gaveUp = {}
    /\ dump = <<>>
    /\ exit = -1

-----------------------------------------------------------------------------
(* One GET into buffer t: get_registered, get_callback and the endpoint. *)

Land(t, o, len) == [buf EXCEPT ![t] = [k \in 1..max_size |-> IF k <= len THEN o ELSE @[k]]]

\* What get_callback returns for a 200 or 206 that declares this count; verbatim
\* takes no declaration for zero.
Returned(size, count) == IF Base64 THEN size ELSE count

\* How the GET of object o into buffer t ends.  ret is what get_registered
\* returns, real the number of bytes that landed.
GetEnds(t, o, ret, real) ==
    LET size == xfer_size(o)
    IN  /\ real <= size
        /\ \/ /\ "ok" \in Outcomes
              /\ real = size /\ ret = Returned(size, size)
              /\ buf' = Land(t, o, size)
              /\ UNCHANGED <<late, gaveUp>>
           \/ /\ "claimed" \in Outcomes
              /\ \E count \in 0..size : ret = Returned(size, count)
              /\ buf' = Land(t, o, real)
              /\ UNCHANGED <<late, gaveUp>>
           \/ /\ "error" \in Outcomes
              /\ ret = -1
              /\ buf' = Land(t, o, real)
              /\ UNCHANGED <<late, gaveUp>>
           \/ /\ "lost" \in Outcomes
              /\ ret = -1 /\ real = 0
              /\ late' = late \cup {[to |-> t, obj |-> o, len |-> size, warmup |-> main = "warmup"]}
              /\ gaveUp' = gaveUp \cup {t}
              /\ UNCHANGED buf

\* A transfer that the client has given up lands, or the endpoint drops it.
LateWrite ==
    /\ \E x \in late :
          /\ late' = late \ {x}
          /\ buf' \in {buf, Land(x.to, x.obj, x.len)}
    /\ UNCHANGED <<args, main, warm, ready, go, stop, wpc, iter, results, registered, issued, asked, gaveUp, dump, exit>>

-----------------------------------------------------------------------------
(* A worker. *)

CountIn(t) ==
    /\ wpc[t] = "new"
    /\ ready' = ready + 1
    /\ wpc' = [wpc EXCEPT ![t] = "spin"]
    /\ UNCHANGED <<args, main, warm, go, stop, iter, results, buf, registered, late, issued, asked, gaveUp, dump, exit>>

SeeGo(t) ==
    /\ wpc[t] = "spin"
    /\ go
    /\ wpc' = [wpc EXCEPT ![t] = "loop"]
    /\ UNCHANGED <<args, main, warm, ready, go, stop, iter, results, buf, registered, late, issued, asked, gaveUp, dump, exit>>

\* The test of stop: one more GET, or the end.
Loop(t) ==
    /\ wpc[t] = "loop"
    /\ \/ /\ stop
          /\ wpc' = [wpc EXCEPT ![t] = "done"]
          /\ UNCHANGED <<issued, asked>>
       \/ /\ ~stop /\ iter[t] < MaxIters
          /\ wpc' = [wpc EXCEPT ![t] = "get"]
          /\ issued' = [issued EXCEPT ![t] = @ + 1]
          /\ asked' = [asked EXCEPT ![t] = @ + xfer_size(Obj(iter[t]))]
    /\ UNCHANGED <<args, main, warm, ready, go, stop, iter, results, buf, registered, late, gaveUp, dump, exit>>

\* r.total_bytes += n; r.iters = ++iter.
Counted(t, n) == [results EXCEPT ![t] = [total_bytes |-> @.total_bytes + n, iters |-> iter[t] + 1, ok |-> @.ok]]

\* Mutant: a failed GET is skipped and the worker goes on.
FailedGoesOn(t) ==
    /\ wpc' = [wpc EXCEPT ![t] = "loop"]
    /\ UNCHANGED <<results, iter>>

\* n < 0: r.ok = false; break.
Failed(t) ==
    /\ results' = [results EXCEPT ![t].ok = FALSE]
    /\ wpc' = [wpc EXCEPT ![t] = "done"]
    /\ UNCHANGED iter

\* get_registered returns.
Get(t) ==
    /\ wpc[t] = "get"
    /\ \E ret \in -1..max_size, real \in 0..max_size :
          /\ GetEnds(t, Obj(iter[t]), ret, real)
          /\ \/ ret < 0 /\ Failed(t)
             \/ /\ ret >= 0
                /\ results' = Counted(t, ret)
                /\ iter' = [iter EXCEPT ![t] = @ + 1]
                /\ wpc' = [wpc EXCEPT ![t] = "loop"]
    /\ UNCHANGED <<args, main, warm, ready, go, stop, registered, issued, asked, dump, exit>>

Worker(t) == CountIn(t) \/ SeeGo(t) \/ Loop(t) \/ Get(t)

-----------------------------------------------------------------------------
(* main(). *)

\* HEAD each object, then buffers, clients and registrations; a HEAD that fails
\* ends the program, a failed registration aborts it.
Discover ==
    /\ main = "discover"
    /\ \/ /\ main' = "warmup"
          /\ registered' = Threads
          /\ UNCHANGED exit
       \/ /\ main' = "end"
          /\ exit' = 1
          /\ UNCHANGED registered
    /\ UNCHANGED <<args, warm, ready, go, stop, wpc, iter, results, buf, late, issued, asked, gaveUp, dump>>

\* One GET per object into buffer 0; its result is not looked at.
WarmUp ==
    /\ main = "warmup"
    /\ warm < Len(Sizes)
    /\ warm' = warm + 1
    /\ \E ret \in -1..max_size, real \in 0..max_size : GetEnds(0, warm + 1, ret, real)
    /\ UNCHANGED <<args, main, ready, go, stop, wpc, iter, results, registered, issued, asked, dump, exit>>

\* The threads are started one after the other.
Spawn(t) ==
    /\ main = "warmup"
    /\ warm = Len(Sizes)
    /\ wpc[t] = "none" /\ \A u \in 0..(t - 1) : wpc[u] # "none"
    /\ wpc' = [wpc EXCEPT ![t] = "new"]
    /\ main' = IF t = N - 1 THEN "ready" ELSE main
    /\ UNCHANGED <<args, warm, ready, go, stop, iter, results, buf, registered, late, issued, asked, gaveUp, dump, exit>>

SetGo ==
    /\ main = "ready"
    /\ ready >= N
    /\ go' = TRUE
    /\ main' = "sleep"
    /\ UNCHANGED <<args, warm, ready, stop, wpc, iter, results, buf, registered, late, issued, asked, gaveUp, dump, exit>>

\* Mutant: stop is never stored.
SetStopForgotten ==
    /\ main = "sleep"
    /\ main' = "join"
    /\ UNCHANGED <<args, warm, ready, go, stop, wpc, iter, results, buf, registered, late, issued, asked, gaveUp, dump, exit>>

\* The duration is over.
SetStop ==
    /\ main = "sleep"
    /\ stop' = TRUE
    /\ main' = "join"
    /\ UNCHANGED <<args, warm, ready, go, wpc, iter, results, buf, registered, late, issued, asked, gaveUp, dump, exit>>

\* Mutant: the report does not wait for the workers.
ReportUnjoined ==
    /\ main = "join"
    /\ main' = "finish"
    /\ registered' = {}
    /\ UNCHANGED <<args, warm, ready, go, stop, wpc, iter, results, buf, late, issued, asked, gaveUp, dump, exit>>

\* All workers are joined; the report; cleanup() deregisters the buffers.
JoinReportCleanup ==
    /\ main = "join"
    /\ \A t \in Threads : wpc[t] = "done"
    /\ main' = "finish"
    /\ registered' = {}
    /\ UNCHANGED <<args, warm, ready, go, stop, wpc, iter, results, buf, late, issued, asked, gaveUp, dump, exit>>

LastObject(iters) == Obj(iters - 1)

\* The exit status, and with one thread the dump for --out.
Finish ==
    /\ main = "finish"
    /\ main' = "end"
    /\ exit' = IF \A t \in Threads : results[t].ok THEN 0 ELSE 1
    /\ dump' = IF exit' = 0 /\ N = 1 /\ results[0].total_bytes > 0
               THEN SubSeq(buf[0], 1, Sizes[LastObject(results[0].iters)])
               ELSE <<>>
    /\ UNCHANGED <<args, warm, ready, go, stop, wpc, iter, results, buf, registered, late, issued, asked, gaveUp>>

Main == Discover \/ WarmUp \/ (\E t \in Threads : Spawn(t)) \/ SetGo \/ SetStop \/ JoinReportCleanup \/ Finish

Next == Main \/ LateWrite \/ \E t \in Threads : Worker(t)

Spec == Init /\ [][Next]_vars

\* Threads are scheduled, and every GET returns (httplib has its timeouts).
FairSpec ==
    /\ Spec
    /\ WF_vars(Main)
    /\ \A t \in UNION {0..(o.threads - 1) : o \in Options} : WF_vars(t \in Threads /\ Worker(t))

-----------------------------------------------------------------------------
(* Properties. *)

\* A worker shares its buffer with no transfer that it gave up: a GET whose answer
\* did not come is the last of its worker, and while its transfer may still land
\* nobody reuses the buffer and the program can only end with status 1.  What a
\* worker writes to is registered.  Only transfers of the warm-up, whose failures
\* are not looked at, can meet a measured GET.
LateOnlyAfterFailure ==
    /\ \A x \in late : ~x.warmup => /\ ~results[x.to].ok /\ wpc[x.to] = "done"
                                    /\ main = "end" => exit = 1
    /\ \A t \in Threads : wpc[t] = "get" => t \in registered /\ \A x \in late : x.to = t => x.warmup

\* main() reports finished work only: when it reads the results, every GET that a
\* worker has begun is in them, but for the one that made it fail; no worker has
\* been credited with more bytes than it asked for, whatever counts were declared;
\* and status 0 means that no measured GET has failed.
ReportOfFinishedWork ==
    main = "finish" \/ exit = 0 =>
        \A t \in Threads :
            /\ results[t].iters = IF results[t].ok THEN issued[t] ELSE issued[t] - 1
            /\ results[t].total_bytes <= asked[t]
            /\ exit = 0 => results[t].ok

\* The dump is the last fetched object (internals.md:79), unless a transfer that
\* was given up may still have been writing into the buffer.
DumpIsLastObject ==
    dump # <<>> /\ gaveUp = {} =>
        LET o == Obj(iter[0] - 1)
        IN  dump = [k \in 1..Sizes[o] |-> o]

\* The benchmark comes to its end.
BenchmarkEnds == <>(main = "end")
=============================================================================
