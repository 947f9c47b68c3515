------------------------------- MODULE Server -------------------------------
(***************************************************************************)
(* The gateway as its clients see it: the routing of S3Server::run and the *)
(* early returns of handle_get, composed with the FD cache (FdCache) and   *)
(* the slot pool (SlotPool).  A worker takes a request, routes it, looks   *)
(* the file up, validates the range against the cached size, and for a     *)
(* transfer goes through acquire_slot and release_slot.  The transfer      *)
(* itself is RangeGet; only its outcome matters here.                      *)
(***************************************************************************)
EXTENDS Naturals, FiniteSets

CONSTANTS
    Handlers, MaxConcurrency, ThreadCap, Channels, NoSlot, CreateThrowsAt, TransferMayThrow,
    Paths, Sizes, MaxFd, None,
    Requests      \* [method, valid_path, path, token, range]; see RequestShape

VARIABLES
    pool_pc, slot, pool_, total_slots_, allocated, lost, server,            \* SlotPool
    fd_pc, path, result, fd_cache_, opened, last_fd, file, first, alive,    \* FdCache
    rq,        \* the request a worker serves, or None
    status,    \* its HTTP status, 0 while it is being served
    headSize   \* path -> size some HEAD has announced (history variable)

Pool == INSTANCE SlotPool WITH pc <- pool_pc
Fds == INSTANCE FdCache WITH pc <- fd_pc

poolVars == <<pool_pc, slot, pool_, total_slots_, allocated, lost, server>>
fdVars == <<fd_pc, path, result, fd_cache_, opened, last_fd, file, first, alive>>
vars == <<poolVars, fdVars, rq, status, headSize>>

\* What the handlers tell apart in a request: the method; whether the path has
\* the form /bucket/object; the object; the token header (missing, not a
\* descriptor, or a descriptor); and the range, whole (<<>>), not parsable
\* (<<1, 0>>) or <<first, last>>.
RequestShape ==
    [method : {"GET", "HEAD", "PUT"}, valid_path : BOOLEAN, path : Paths,
     token : {"none", "bad", "ok"}, range : {<<>>} \cup (Nat \X Nat)]

ASSUME ServerAssumption ==
    /\ Pool!PoolAssumption
    /\ Fds!FdCacheAssumption
    /\ Requests \subseteq RequestShape /\ None \notin Requests

Init ==
    /\ Pool!Init
    /\ Fds!Init
    /\ rq = [h \in Handlers |-> None]
    /\ status = [h \in Handlers |-> 0]
    /\ headSize = [p \in Paths |-> None]

Answer(h, code) == status' = [status EXCEPT ![h] = code]

\* The request of h is answered without a slot.
AnswerEarly(h, code) == Pool!EarlyReturn(h) /\ Answer(h, code)

\* Worker h has a request that has not reached acquire_slot().
Serving(h) == pool_pc[h] = "request"

-----------------------------------------------------------------------------

Receive(h, r) ==
    /\ rq[h] = None
    /\ Pool!Receive(h)
    /\ rq' = [rq EXCEPT ![h] = r]
    /\ UNCHANGED <<fdVars, status, headSize>>

\* Put, Post and Delete are answered by reject, a GET or HEAD with a bad path or
\* a GET without a token by the Get handler.
Reject(h) ==
    /\ Serving(h)
    /\ fd_pc[h] = "idle"
    /\ \/ rq[h].method = "PUT" /\ AnswerEarly(h, 405)
       \/ rq[h].method # "PUT" /\ ~rq[h].valid_path /\ AnswerEarly(h, 400)
       \/ rq[h].method = "GET" /\ rq[h].valid_path /\ rq[h].token = "none" /\ AnswerEarly(h, 400)
    /\ UNCHANGED <<fdVars, rq, headSize>>

\* HEAD and GET call get_fd.
Lookup(h) ==
    /\ Serving(h)
    /\ rq[h].valid_path
    /\ rq[h].method = "HEAD" \/ (rq[h].method = "GET" /\ rq[h].token # "none")
    /\ Fds!Call(h, rq[h].path)
    /\ UNCHANGED <<poolVars, rq, status, headSize>>

LookupStep(h) ==
    /\ Fds!Step(h)
    /\ UNCHANGED <<poolVars, rq, status, headSize>>

NotFound(h) ==
    /\ Serving(h)
    /\ fd_pc[h] = "returned"
    /\ result[h] = None
    /\ AnswerEarly(h, 404)
    /\ UNCHANGED <<fdVars, rq, headSize>>

HeadReply(h) ==
    /\ Serving(h)
    /\ fd_pc[h] = "returned"
    /\ result[h] # None
    /\ rq[h].method = "HEAD"
    /\ headSize' = [headSize EXCEPT ![rq[h].path] = result[h][2]]
    /\ AnswerEarly(h, 200)
    /\ UNCHANGED <<fdVars, rq>>

\* parse_range: a range is refused, never clamped.
RangeOk(range, size) == range # <<>> => (range[1] <= range[2] /\ range[2] < size)

\* The early returns of handle_get after get_fd.
Refuse(h) ==
    /\ Serving(h)
    /\ fd_pc[h] = "returned"
    /\ result[h] # None
    /\ rq[h].method = "GET"
    /\ \/ ~RangeOk(rq[h].range, result[h][2]) /\ AnswerEarly(h, 416)
       \/ RangeOk(rq[h].range, result[h][2]) /\ rq[h].token = "bad" /\ AnswerEarly(h, 500)
    /\ UNCHANGED <<fdVars, rq, headSize>>

\* Mutant: acquire_slot before the descriptor is checked.
StartTransferUnchecked(h) ==
    /\ Serving(h)
    /\ fd_pc[h] = "returned"
    /\ rq[h].method = "GET"
    /\ Pool!Begin(h)
    /\ UNCHANGED <<fdVars, rq, status, headSize>>

StartTransfer(h) ==
    /\ Serving(h)
    /\ fd_pc[h] = "returned"
    /\ result[h] # None
    /\ rq[h].method = "GET"
    /\ RangeOk(rq[h].range, result[h][2])
    /\ rq[h].token = "ok"
    /\ Pool!Begin(h)
    /\ UNCHANGED <<fdVars, rq, status, headSize>>

AcquireStep(h) ==
    /\ Pool!AcquireSlot(h)
    /\ UNCHANGED <<fdVars, rq, status, headSize>>

\* Nothing makes a spurious wake-up happen: it is not a step of Serve.
SpuriousWakeup(h) ==
    /\ Pool!SpuriousWakeup(h)
    /\ UNCHANGED <<fdVars, rq, status, headSize>>

\* Success, or one of the 500s of handle_get.
TransferEnds(h) ==
    /\ Pool!Release(h)
    /\ Answer(h, IF rq[h].range = <<>> THEN 200 ELSE 206) \/ Answer(h, 500)
    /\ UNCHANGED <<fdVars, rq, headSize>>

NotifyStep(h) ==
    /\ Pool!Notify(h)
    /\ UNCHANGED <<fdVars, rq, status, headSize>>

\* An exception leaves handle_get; httplib answers 500.
Throws(h) ==
    /\ Pool!CreateThrows(h) \/ Pool!TransferThrows(h)
    /\ Answer(h, 500)
    /\ UNCHANGED <<fdVars, rq, headSize>>

\* Mutant: the handler closes the descriptor it was given.
RespondCloses(h) ==
    /\ status[h] # 0
    /\ pool_pc[h] = "idle"
    /\ fd_pc' = [fd_pc EXCEPT ![h] = "idle"]
    /\ result' = [result EXCEPT ![h] = None]
    /\ opened' = IF result[h] = None THEN opened ELSE opened \ {result[h][1]}
    /\ rq' = [rq EXCEPT ![h] = None]
    /\ status' = [status EXCEPT ![h] = 0]
    /\ UNCHANGED <<poolVars, path, fd_cache_, last_fd, file, first, alive, headSize>>

\* The response is sent and the worker is free.
Respond(h) ==
    /\ status[h] # 0
    /\ pool_pc[h] = "idle"
    /\ \/ Fds!Done(h)
       \/ fd_pc[h] = "idle" /\ UNCHANGED fdVars
    /\ rq' = [rq EXCEPT ![h] = None]
    /\ status' = [status EXCEPT ![h] = 0]
    /\ UNCHANGED <<poolVars, headSize>>

Stop ==
    /\ Pool!Stop
    /\ UNCHANGED <<fdVars, rq, status, headSize>>

\* run() returns when the workers are joined; the destructor closes the cached
\* descriptors and frees the pooled slots.
Destroy ==
    /\ \A h \in Handlers : rq[h] = None
    /\ Pool!Destroy
    /\ Fds!Destroy
    /\ UNCHANGED <<rq, status, headSize>>

FileChanges ==
    /\ \E p \in Paths : Fds!FileChanges(p)
    /\ UNCHANGED <<poolVars, rq, status, headSize>>

Serve(h) ==
    \/ Reject(h) \/ Lookup(h) \/ LookupStep(h) \/ NotFound(h) \/ HeadReply(h) \/ Refuse(h)
    \/ StartTransfer(h) \/ AcquireStep(h) \/ TransferEnds(h) \/ NotifyStep(h) \/ Respond(h)

Next ==
    \/ \E h \in Handlers : Serve(h) \/ SpuriousWakeup(h) \/ Throws(h) \/ \E r \in Requests : Receive(h, r)
    \/ Stop \/ Destroy \/ FileChanges

Spec == Init /\ [][Next]_vars

\* Workers are scheduled and transfers end.
FairSpec == Spec /\ (\A h \in Handlers : WF_vars(Serve(h))) /\ WF_vars(Destroy)

-----------------------------------------------------------------------------
(* Properties. *)

\* RDMA resources are only ever spent on a GET whose descriptor is open and whose
\* range lies inside the size that the transfer will use.
SlotOnlyForValidGet ==
    \A h \in Handlers : pool_pc[h] \notin {"idle", "request"} =>
        /\ rq[h].method = "GET"
        /\ rq[h].token = "ok"
        /\ result[h] # None /\ result[h][1] \in opened
        /\ rq[h].range # <<>> => rq[h].range[2] < result[h][2]

\* What a HEAD has announced stays true for GETs, whatever happens to the file:
\* a lookup that finds the object finds it with the announced size, and a range
\* inside that size is never refused.  The client sizes its ranges with one HEAD.
HeadPromiseKept ==
    \A h \in Handlers : rq[h] # None /\ headSize[rq[h].path] # None /\ result[h] # None =>
        /\ result[h][2] = headSize[rq[h].path]
        /\ status[h] = 416 => rq[h].range[1] > rq[h].range[2] \/ rq[h].range[2] >= headSize[rq[h].path]

\* See FdCache: however many workers miss at once, a path has one descriptor.
OneFdPerPath == Fds!OneFdPerPath

\* A worker that has answered holds no slot, and the destructor leaves no
\* descriptor behind and no channel but those of slots that an exception lost.
NothingLeft ==
    /\ \A h \in Handlers : status[h] # 0 => slot[h] = NoSlot
    /\ ~alive => opened = {} /\ allocated = lost

\* Nobody uses what has been freed or is somebody else's: while a worker is in get_fd or
\* past it the server object is alive, the descriptor it was given stays open though
\* others who share it come and go and the destructor closes it, and its slot is an
\* allocated channel that no other worker and not the pool has.
NothingUsedAfterFree ==
    \A h \in Handlers :
        /\ pool_pc[h] # "idle" \/ fd_pc[h] # "idle" => alive
        /\ result[h] # None => result[h][1] \in opened
        /\ slot[h] # NoSlot => /\ slot[h] \in allocated \ Pool!Free
                              /\ \A g \in Handlers \ {h} : slot[g] # slot[h]

\* Every request is answered as long as no exception has lost a slot.
EveryRequestAnswered == \A h \in Handlers : rq[h] # None ~> rq[h] = None \/ lost # {}

\* After a signal the server comes down, under the same condition.
ShutdownCompletes == server = "stopping" ~> ~alive \/ lost # {}
=============================================================================
