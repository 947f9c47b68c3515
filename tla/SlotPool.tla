------------------------------ MODULE SlotPool ------------------------------
(***************************************************************************)
(* The RDMA slot pool of the fake-S3 gateway: acquire_slot, create_slot    *)
(* and release_slot of server/s3_server.cpp, called by the worker threads  *)
(* of the HTTP server, together with the shutdown that frees the pool.     *)
(*                                                                         *)
(* A critical section under pool_mu_ is one action.  The condition         *)
(* variable pool_cv_ is the set of handlers at "waiting"; a notified (or   *)
(* spuriously woken) handler is at "woken" until it has the mutex again    *)
(* and re-evaluates the predicate of the wait.                             *)
(***************************************************************************)
EXTENDS Naturals, Sequences, FiniteSets

CONSTANTS
    Handlers,         \* worker threads of the HTTP server's thread pool
    MaxConcurrency,   \* Config::max_concurrency
    ThreadCap,        \* the 256 of min(max_concurrency, 256)
    Channels,         \* channel ids cuObjServer can hand out; a slot is named by its channel
    NoSlot,           \* "no slot held"
    CreateThrowsAt,   \* calls of create_slot() that may throw: "channel" (allocateChannelId), "buffer" (a later one)
    TransferMayThrow  \* whether code between acquire_slot() and release_slot() may throw

\* main() refuses --max-concurrency 0 (parse_u32); run() sizes the thread pool.
ASSUME PoolAssumption ==
    /\ MaxConcurrency \in Nat \ {0}
    /\ ThreadCap \in Nat \ {0}
    /\ IsFiniteSet(Handlers)
    /\ Cardinality(Handlers) = IF MaxConcurrency < ThreadCap THEN MaxConcurrency ELSE ThreadCap
    /\ NoSlot \notin Channels
    /\ CreateThrowsAt \subseteq {"channel", "buffer"}
    /\ TransferMayThrow \in BOOLEAN

VARIABLES
    pc,            \* where each handler is
    slot,          \* the RdmaSlot a handler holds
    pool_,         \* free slots, used as a stack
    total_slots_,  \* slots counted against MaxConcurrency
    allocated,     \* channels handed out by cuObjServer and not freed (external)
    lost,          \* slots whose holder unwound without release_slot (history variable)
    server         \* life of the S3Server object

vars == <<pc, slot, pool_, total_slots_, allocated, lost, server>>

PC == {"idle", "request", "acquire", "creating", "waiting", "woken", "holding", "notify"}

At(where) == {h \in Handlers : pc[h] \in where}
Free == {pool_[i] : i \in 1..Len(pool_)}

Init ==
    /\ pc = [h \in Handlers |-> "idle"]
    /\ slot = [h \in Handlers |-> NoSlot]
    /\ pool_ = <<>>
    /\ total_slots_ = 0
    /\ allocated = {}
    /\ lost = {}
    /\ server = "serving"

Goto(h, where) == pc' = [pc EXCEPT ![h] = where]

\* notify_one: h moves on and, if anybody waits, one waiter becomes runnable.
GotoAndNotifyOne(h, where) ==
    IF At({"waiting"}) = {}
    THEN Goto(h, where)
    ELSE \E w \in At({"waiting"}) : pc' = [pc EXCEPT ![h] = where, ![w] = "woken"]

\* Mutant: pool_.back() without pop_back().
PopSlotNoPop(h) ==
    /\ pool_ # <<>>
    /\ slot' = [slot EXCEPT ![h] = pool_[Len(pool_)]]
    /\ Goto(h, "holding")
    /\ UNCHANGED <<pool_, total_slots_, allocated, lost, server>>

\* pool_.back() and pop_back().
PopSlot(h) ==
    /\ pool_ # <<>>
    /\ slot' = [slot EXCEPT ![h] = pool_[Len(pool_)]]
    /\ pool_' = SubSeq(pool_, 1, Len(pool_) - 1)
    /\ Goto(h, "holding")
    /\ UNCHANGED <<total_slots_, allocated, lost, server>>

-----------------------------------------------------------------------------
(* One request of the HTTP server. *)

\* A worker takes a request.  Once stop() has closed the listening socket
\* httplib starts no further one.
Receive(h) ==
    /\ server = "serving"
    /\ pc[h] = "idle"
    /\ Goto(h, "request")
    /\ UNCHANGED <<slot, pool_, total_slots_, allocated, lost, server>>

\* It is answered before acquire_slot() is called.
EarlyReturn(h) ==
    /\ pc[h] = "request"
    /\ Goto(h, "idle")
    /\ UNCHANGED <<slot, pool_, total_slots_, allocated, lost, server>>

\* A GET got through the early returns and calls acquire_slot().
Begin(h) ==
    /\ pc[h] = "request"
    /\ Goto(h, "acquire")
    /\ UNCHANGED <<slot, pool_, total_slots_, allocated, lost, server>>

AcquireReuse(h) ==
    /\ pc[h] = "acquire"
    /\ PopSlot(h)

\* Mutant: the new slot is not counted.
AcquireGrowUncounted(h) ==
    /\ pc[h] = "acquire"
    /\ pool_ = <<>>
    /\ total_slots_ < MaxConcurrency
    /\ Goto(h, "creating")
    /\ UNCHANGED <<slot, pool_, total_slots_, allocated, lost, server>>

AcquireGrow(h) ==
    /\ pc[h] = "acquire"
    /\ pool_ = <<>>
    /\ total_slots_ < MaxConcurrency
    /\ total_slots_' = total_slots_ + 1
    /\ Goto(h, "creating")
    /\ UNCHANGED <<slot, pool_, allocated, lost, server>>

AcquireWait(h) ==
    /\ pc[h] = "acquire"
    /\ pool_ = <<>>
    /\ total_slots_ >= MaxConcurrency
    /\ Goto(h, "waiting")
    /\ UNCHANGED <<slot, pool_, total_slots_, allocated, lost, server>>

\* create_slot() runs outside pool_mu_.  A failed buffer allocation or
\* registration aborts the process, which ends the behaviour.
CreateSlot(h) ==
    /\ pc[h] = "creating"
    /\ \E c \in Channels \ allocated :
          /\ allocated' = allocated \cup {c}
          /\ slot' = [slot EXCEPT ![h] = c]
    /\ Goto(h, "holding")
    /\ UNCHANGED <<pool_, total_slots_, lost, server>>

\* Mutant: the catch block keeps the count.
CreateThrowsKeepsCount(h) ==
    /\ "channel" \in CreateThrowsAt
    /\ pc[h] = "creating"
    /\ GotoAndNotifyOne(h, "idle")
    /\ UNCHANGED <<slot, pool_, total_slots_, allocated, lost, server>>

\* The catch block: give the count back, notify one waiter, rethrow.  httplib
\* turns the exception into a 500 and the worker is idle again.  A throw after
\* allocateChannelId leaves the channel without an owner.
CreateThrows(h) ==
    /\ pc[h] = "creating"
    /\ \/ /\ "channel" \in CreateThrowsAt
          /\ UNCHANGED allocated
       \/ /\ "buffer" \in CreateThrowsAt
          /\ \E c \in Channels \ allocated : allocated' = allocated \cup {c}
    /\ total_slots_' = total_slots_ - 1
    /\ GotoAndNotifyOne(h, "idle")
    /\ UNCHANGED <<slot, pool_, lost, server>>

\* pool_cv_.wait may return without a notification.
SpuriousWakeup(h) ==
    /\ pc[h] = "waiting"
    /\ Goto(h, "woken")
    /\ UNCHANGED <<slot, pool_, total_slots_, allocated, lost, server>>

WaitTake(h) ==
    /\ pc[h] = "woken"
    /\ PopSlot(h)

\* The predicate of the wait is only !pool_.empty().
WaitAgain(h) ==
    /\ pc[h] = "woken"
    /\ pool_ = <<>>
    /\ Goto(h, "waiting")
    /\ UNCHANGED <<slot, pool_, total_slots_, allocated, lost, server>>

\* Mutant: an early return of handle_get without release_slot.
ReleaseForgotten(h) ==
    /\ pc[h] = "holding"
    /\ slot' = [slot EXCEPT ![h] = NoSlot]
    /\ Goto(h, "idle")
    /\ UNCHANGED <<pool_, total_slots_, allocated, lost, server>>

\* Every return of handle_get after acquire_slot(): push under the mutex ...
Release(h) ==
    /\ pc[h] = "holding"
    /\ pool_' = Append(pool_, slot[h])
    /\ slot' = [slot EXCEPT ![h] = NoSlot]
    /\ Goto(h, "notify")
    /\ UNCHANGED <<total_slots_, allocated, lost, server>>

\* Mutant: release_slot without notify_one.
NotifyNobody(h) ==
    /\ pc[h] = "notify"
    /\ Goto(h, "idle")
    /\ UNCHANGED <<slot, pool_, total_slots_, allocated, lost, server>>

\* ... and notify_one after it has been unlocked.
Notify(h) ==
    /\ pc[h] = "notify"
    /\ GotoAndNotifyOne(h, "idle")
    /\ UNCHANGED <<slot, pool_, total_slots_, allocated, lost, server>>

\* The construction of the RDMA thread (or a call of the last chunk) throws:
\* handle_get unwinds, the RdmaSlot is a plain struct and nothing releases it.
TransferThrows(h) ==
    /\ TransferMayThrow
    /\ pc[h] = "holding"
    /\ lost' = lost \cup {slot[h]}
    /\ slot' = [slot EXCEPT ![h] = NoSlot]
    /\ Goto(h, "idle")
    /\ UNCHANGED <<pool_, total_slots_, allocated, server>>

-----------------------------------------------------------------------------
(* Life of the server object. *)

\* SIGINT or SIGTERM: on_signal -> S3Server::stop -> httplib::Server::stop.
Stop ==
    /\ server = "serving"
    /\ server' = "stopping"
    /\ UNCHANGED <<pc, slot, pool_, total_slots_, allocated, lost>>

\* listen() joins the worker threads, run() returns, the destructor
\* deregisters and frees every slot that is in pool_.
Destroy ==
    /\ server = "stopping"
    /\ \A h \in Handlers : pc[h] = "idle"
    /\ server' = "closed"
    /\ allocated' = allocated \ Free
    /\ pool_' = <<>>
    /\ UNCHANGED <<pc, slot, total_slots_, lost>>

AcquireSlot(h) ==
    AcquireReuse(h) \/ AcquireGrow(h) \/ AcquireWait(h) \/ CreateSlot(h) \/ WaitTake(h) \/ WaitAgain(h)

ReleaseSlot(h) == Release(h) \/ Notify(h)

Next ==
    \/ \E h \in Handlers :
          \/ Receive(h)
          \/ EarlyReturn(h)
          \/ Begin(h)
          \/ AcquireSlot(h)
          \/ ReleaseSlot(h)
          \/ CreateThrows(h)
          \/ SpuriousWakeup(h)
          \/ TransferThrows(h)
    \/ Stop
    \/ Destroy

Spec == Init /\ [][Next]_vars

-----------------------------------------------------------------------------
(* Properties. *)

\* Types of the pool's state; the unsigned total_slots_ never wraps below zero.
TypeOK ==
    /\ pc \in [Handlers -> PC]
    /\ slot \in [Handlers -> Channels \cup {NoSlot}]
    /\ pool_ \in Seq(Channels)
    /\ total_slots_ \in Nat
    /\ allocated \in SUBSET Channels
    /\ lost \in SUBSET Channels
    /\ server \in {"serving", "stopping", "closed"}

\* A slot has one owner: it is free once, or held by one handler that is past
\* acquire_slot(), or lost; so no two GETs ever share a channel or a staging buffer.
SlotsExclusive ==
    /\ \A h \in Handlers : slot[h] # NoSlot <=> pc[h] = "holding"
    /\ \A g, h \in Handlers : slot[g] = slot[h] /\ slot[h] # NoSlot => g = h
    /\ \A i, j \in 1..Len(pool_) : pool_[i] = pool_[j] => i = j
    /\ \A h \in Handlers : slot[h] \notin Free \cup lost
    /\ Free \cap lost = {}

\* total_slots_ counts every slot that exists or is being built, no more and no
\* less, on every path of acquire_slot() including the throwing one, and stays
\* within max_concurrency.
SlotAccounting ==
    server # "closed" =>
        /\ total_slots_ = Len(pool_) + Cardinality(At({"creating", "holding"})) + Cardinality(lost)
        /\ total_slots_ <= MaxConcurrency

\* The thread pool has at most max_concurrency workers, so as long as every GET
\* releases its slot the wait at the end of acquire_slot() is never reached: what
\* holds requests back is the thread pool, not the slots, as internals.md:127 and the
\* comment at s3_server.cpp:341 have it.
NoHandlerWaits == lost = {} => At({"waiting", "woken"}) = {}

\* No lost wake-up: while somebody sleeps on pool_cv_, every free slot has a
\* woken handler or an outstanding notify_one that will claim it.
NoLostWakeup ==
    At({"waiting"}) # {} => Len(pool_) <= Cardinality(At({"woken", "notify"}))

\* The destructor returns every channel to cuObjServer.
AllChannelsFreed == server = "closed" => allocated = {}

\* "Acquires a slot, transfers data [...], releases slot" (s3_server.hpp:65):
\* every channel in use is back in pool_ or in the hands of a running GET.
EverySlotReleased ==
    server # "closed" => allocated = Free \cup {slot[h] : h \in At({"holding"})}
=============================================================================
