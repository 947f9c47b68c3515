---------------------------- MODULE ServerProofs ----------------------------
(***************************************************************************)
(* Proofs about the gateway for any number of workers, slots, paths and    *)
(* descriptors: the FD cache by itself, that nothing is used after it was  *)
(* given back, and what clients are promised.  The steps of the gateway    *)
(* are steps of cache and pool, which carries their invariants over.       *)
(***************************************************************************)
EXTENDS Server, TLAPS

-----------------------------------------------------------------------------
(* The FD cache by itself.  The two properties that the handlers rely on   *)
(* are not inductive: that a handed descriptor is open follows from the    *)
(* cache owning every open descriptor and from no entry ever being         *)
(* replaced, that is from a handed answer being the entry; and that        *)
(* nothing is in hand when the destructor closes.                          *)

\* Entries of the cache are those first handed out, hold descriptors the kernel
\* has handed out, each its own, and are all that is open.
CacheInv ==
    /\ \A p \in Paths : fd_cache_[p] = first[p]
    /\ \A p \in Fds!Cached : fd_cache_[p][1] \in 1..last_fd
    /\ \A p, q \in Fds!Cached : fd_cache_[p][1] = fd_cache_[q][1] => p = q
    /\ opened = IF alive THEN {fd_cache_[p][1] : p \in Fds!Cached} ELSE {}

\* A result is the entry of its path and is there only while its handler uses it;
\* once the destructor has run every handler is idle.
HandInv ==
    \A h \in Handlers :
        /\ ~alive => fd_pc[h] = "idle"
        /\ result[h] # None => fd_pc[h] = "returned" /\ result[h] = fd_cache_[path[h]]

\* The inductive invariant of the cache.
FdInv == Fds!TypeOK /\ CacheInv /\ HandInv

-----------------------------------------------------------------------------

\* A cache entry is not None, and its parts have their types.
LEMMA EntryFacts ==
    ASSUME NEW e \in Fds!Entries
    PROVE  e # None /\ e[1] \in 1..MaxFd /\ e[2] \in Sizes
  BY ServerAssumption DEF Fds!FdCacheAssumption, Fds!Entries

\* Init of the cache establishes it.
LEMMA FdInitInv == Fds!Init => FdInv
  BY ServerAssumption, SMT DEF Fds!FdCacheAssumption, Fds!Init, FdInv, Fds!TypeOK, CacheInv, HandInv, Fds!Cached, Fds!Entries

\* Steps of get_fd that change neither cache nor descriptors keep it.
LEMMA FdLookupInv ==
    ASSUME FdInv, NEW h \in Handlers,
           \/ Fds!SharedHit(h) \/ Fds!SharedMiss(h) \/ Fds!ExclusiveHit(h) \/ Fds!OpenFails(h) \/ Fds!Done(h)
           \/ \E p \in Paths : Fds!Call(h, p)
    PROVE  FdInv'
<1>1. Fds!TypeOK'
  <2>1. CASE Fds!SharedHit(h) \/ Fds!ExclusiveHit(h)
    BY <2>1, Zenon DEF FdInv, Fds!TypeOK, Fds!SharedHit, Fds!ExclusiveHit, Fds!Return, Fds!cacheVars
  <2>2. CASE Fds!SharedMiss(h) \/ Fds!Done(h)
    BY <2>2, Zenon DEF FdInv, Fds!TypeOK, Fds!SharedMiss, Fds!Done, Fds!cacheVars
  <2>3. CASE Fds!OpenFails(h)
    BY <2>3, Zenon DEF FdInv, Fds!TypeOK, Fds!OpenFails, Fds!Return, Fds!cacheVars
  <2>4. CASE \E p \in Paths : Fds!Call(h, p)
    BY <2>4 DEF FdInv, Fds!TypeOK, Fds!Call, Fds!cacheVars
  <2> QED
    BY <2>1, <2>2, <2>3, <2>4, Zenon
<1>2. CacheInv'
  BY DEF FdInv, CacheInv, Fds!Cached, Fds!SharedHit, Fds!SharedMiss, Fds!ExclusiveHit,
         Fds!OpenFails, Fds!Done, Fds!Call, Fds!Return, Fds!cacheVars
<1>3. HandInv'
  BY DEF FdInv, Fds!TypeOK, HandInv, Fds!SharedHit, Fds!SharedMiss, Fds!ExclusiveHit,
         Fds!OpenFails, Fds!Done, Fds!Call, Fds!Return, Fds!cacheVars
<1> QED
  BY <1>1, <1>2, <1>3, Zenon DEF FdInv

\* open() and the insertion keep it: the descriptor is new, and the path had no entry.
LEMMA FdOpenInv ==
    ASSUME FdInv, NEW h \in Handlers, Fds!Open(h)
    PROVE  FdInv'
<1> DEFINE p == path[h]
           fd == last_fd + 1
           e == <<fd, file[p]>>
<1>0. /\ p \in Paths /\ fd \in 1..MaxFd /\ e \in Fds!Entries
      /\ fd_pc[h] = "exclusive" /\ fd_cache_[p] = None /\ first[p] = None
  BY ServerAssumption DEF Fds!FdCacheAssumption, FdInv, Fds!TypeOK, CacheInv, Fds!Open, Fds!Entries
<1>1. /\ p \in Paths /\ fd \in 1..MaxFd /\ e \in Fds!Entries
      /\ fd_pc[h] = "exclusive" /\ fd_cache_[p] = None
      /\ last_fd' = fd /\ opened' = opened \cup {fd}
      /\ fd_cache_' = [fd_cache_ EXCEPT ![p] = e]
      /\ first' = [first EXCEPT ![p] = e]
      /\ fd_pc' = [fd_pc EXCEPT ![h] = "returned"] /\ result' = [result EXCEPT ![h] = e]
      /\ UNCHANGED <<path, file, alive>>
  BY <1>0, Zenon DEF FdInv, Fds!TypeOK, Fds!Open, Fds!Return
<1>2. e # None /\ e[1] = fd
  BY <1>1, EntryFacts, Zenon
<1> HIDE DEF p, fd, e
<1>3. Fds!TypeOK'
  BY <1>1 DEF FdInv, Fds!TypeOK
<1>4. Fds!Cached' = Fds!Cached \cup {p} /\ p \notin Fds!Cached
  BY <1>1, <1>2, Zenon DEF FdInv, Fds!TypeOK, Fds!Cached
<1>5. \A q \in Fds!Cached : q # p /\ fd_cache_'[q] = fd_cache_[q] /\ fd_cache_[q][1] \in 1..last_fd
  BY <1>1, <1>4, Zenon DEF FdInv, Fds!TypeOK, CacheInv, Fds!Cached
<1>6. fd_cache_'[p] = e
  BY <1>1, Zenon DEF FdInv, Fds!TypeOK
<1>7. last_fd \in Nat /\ fd = last_fd + 1
  BY DEF FdInv, Fds!TypeOK, fd
<1>8. alive
  BY <1>1, Zenon DEF FdInv, HandInv
<1>9. CacheInv'
  <2>1. \A q \in Paths : fd_cache_'[q] = first'[q]
    BY <1>1, Zenon DEF FdInv, Fds!TypeOK, CacheInv
  <2>2. \A q \in Fds!Cached' : fd_cache_'[q][1] \in 1..last_fd'
    BY <1>1, <1>2, <1>4, <1>5, <1>6, <1>7
  <2>3. \A q, r \in Fds!Cached' : fd_cache_'[q][1] = fd_cache_'[r][1] => q = r
    <3>1. \A q \in Fds!Cached : fd_cache_'[q][1] # fd
      BY <1>5, <1>7
    <3> QED
      BY <3>1, <1>2, <1>4, <1>5, <1>6 DEF FdInv, CacheInv
  <2>4. opened' = {fd_cache_'[q][1] : q \in Fds!Cached'}
    BY <1>1, <1>2, <1>4, <1>5, <1>6, <1>8 DEF FdInv, CacheInv
  <2> QED
    BY <2>1, <2>2, <2>3, <2>4, <1>1, <1>8, Zenon DEF CacheInv
<1>10. HandInv'
  <2> SUFFICES ASSUME NEW g \in Handlers
               PROVE  /\ ~alive' => fd_pc'[g] = "idle"
                      /\ result'[g] # None => fd_pc'[g] = "returned" /\ result'[g] = fd_cache_'[path'[g]]
    BY Zenon DEF HandInv
  <2>1. CASE g = h
    BY <2>1, <1>1, <1>6, <1>8, Zenon DEF FdInv, Fds!TypeOK, p
  <2>2. CASE g # h
    BY <2>2, <1>1, <1>8, Zenon DEF FdInv, Fds!TypeOK, HandInv
  <2> QED
    BY <2>1, <2>2, Zenon
<1> QED
  BY <1>3, <1>9, <1>10, Zenon DEF FdInv

\* The destructor keeps it: no handler has a result, and the cache owns what is open.
LEMMA FdDestroyInv == ASSUME FdInv, Fds!Destroy PROVE FdInv'
<1>1. Fds!TypeOK' /\ HandInv'
  BY Zenon DEF FdInv, Fds!TypeOK, HandInv, Fds!Destroy
<1>2. opened' = {}
  BY Zenon DEF FdInv, CacheInv, Fds!Destroy
<1>3. CacheInv'
  BY <1>2, Zenon DEF FdInv, CacheInv, Fds!Cached, Fds!Destroy
<1> QED
  BY <1>1, <1>3, Zenon DEF FdInv

\* Every step of the cache keeps the invariant.
LEMMA FdNextInv == ASSUME FdInv, [Fds!Next]_(Fds!vars) PROVE FdInv'
<1>1. CASE \E h \in Handlers : Fds!Step(h) \/ Fds!Done(h) \/ \E p \in Paths : Fds!Call(h, p)
  BY <1>1, FdLookupInv, FdOpenInv, Zenon DEF Fds!Step
<1>2. CASE \E p \in Paths : Fds!FileChanges(p)
  BY <1>2 DEF FdInv, Fds!TypeOK, CacheInv, HandInv, Fds!Cached, Fds!FileChanges, Fds!cacheVars
<1>3. CASE Fds!Destroy
  BY <1>3, FdDestroyInv, Zenon
<1>4. CASE UNCHANGED Fds!vars
  BY <1>4 DEF FdInv, Fds!TypeOK, CacheInv, HandInv, Fds!Cached, Fds!vars, Fds!cacheVars
<1> QED
  BY <1>1, <1>2, <1>3, <1>4, Zenon DEF Fds!Next


\* The invariant of the cache holds throughout.
LEMMA FdInvariance == Fds!Spec => []FdInv
<1>1. Fds!Init => FdInv
  BY FdInitInv, Zenon
<1>2. FdInv /\ [Fds!Next]_(Fds!vars) => FdInv'
  BY FdNextInv, Zenon
<1> QED
  BY <1>1, <1>2, PTL DEF Fds!Spec

\* A descriptor that get_fd has returned is open as long as its handler uses it, up to
\* and including the destructor of the server.
THEOREM HandedOpen == Fds!Spec => []Fds!HandedFdOpen
<1>1. FdInv => Fds!HandedFdOpen
  BY DEF FdInv, Fds!TypeOK, CacheInv, HandInv, Fds!HandedFdOpen, Fds!Cached
<1> QED
  BY <1>1, FdInvariance, PTL

\* All handlers, HEAD and GET, ever get one descriptor and one size for a path.
THEOREM AllAgree == Fds!Spec => []Fds!AnswersAgree
<1>1. FdInv => Fds!AnswersAgree
  BY Zenon DEF FdInv, Fds!TypeOK, CacheInv, HandInv, Fds!AnswersAgree
<1> QED
  BY <1>1, FdInvariance, PTL

-----------------------------------------------------------------------------
(* The composition implements its components. *)

\* Every step of the server is a step of the pool, or leaves the pool alone.
LEMMA StepPool == [Next]_vars => [Pool!Next]_(Pool!vars)
<1> SUFFICES ASSUME Next PROVE [Pool!Next]_(Pool!vars)
  BY Zenon DEF vars, poolVars, Pool!vars
<1>1. ASSUME NEW h \in Handlers, Serve(h)
      PROVE  [Pool!Next]_(Pool!vars)
  <2>1. CASE Reject(h) \/ NotFound(h) \/ HeadReply(h) \/ Refuse(h)
    <3>1. Pool!EarlyReturn(h)
      BY <2>1 DEF Reject, NotFound, HeadReply, Refuse, AnswerEarly
    <3> QED
      BY <3>1, Zenon DEF Pool!Next
  <2>2. CASE Lookup(h) \/ LookupStep(h) \/ Respond(h)
    BY <2>2, Zenon DEF Lookup, LookupStep, Respond, poolVars, Pool!vars
  <2>3. CASE StartTransfer(h) \/ AcquireStep(h) \/ TransferEnds(h) \/ NotifyStep(h)
    BY <2>3, Zenon DEF StartTransfer, AcquireStep, TransferEnds, NotifyStep, Pool!Next, Pool!ReleaseSlot
  <2> QED
    BY <1>1, <2>1, <2>2, <2>3, Zenon DEF Serve
<1>2. ASSUME NEW h \in Handlers, SpuriousWakeup(h) \/ Throws(h) \/ \E r \in Requests : Receive(h, r)
      PROVE  [Pool!Next]_(Pool!vars)
  BY <1>2, Zenon DEF SpuriousWakeup, Throws, Receive, Pool!Next
<1>3. CASE Stop \/ Destroy
  BY <1>3, Zenon DEF Stop, Destroy, Pool!Next
<1>4. CASE FileChanges
  BY <1>4, Zenon DEF FileChanges, poolVars, Pool!vars
<1> QED
  BY <1>1, <1>2, <1>3, <1>4, Zenon DEF Next

\* Worker h moves between these places of the pool; others at most wake up.
Moves(h, from, to) ==
    /\ pool_pc[h] \in from /\ pool_pc'[h] \in to
    /\ \A g \in Handlers \ {h} : \/ pool_pc'[g] = pool_pc[g]
                                 \/ pool_pc[g] = "waiting" /\ pool_pc'[g] = "woken"

\* notify_one moves its caller and at most one waiter.
LEMMA NotifyMoves ==
    ASSUME Pool!TypeOK, NEW h \in Handlers, NEW from, pool_pc[h] \in from, pool_pc[h] # "waiting",
           NEW to, Pool!GotoAndNotifyOne(h, to)
    PROVE  Moves(h, from, {to})
<1>0. DOMAIN pool_pc = Handlers
  BY Zenon DEF Pool!TypeOK
<1>1. CASE Pool!Goto(h, to)
  BY <1>0, <1>1, Zenon DEF Pool!Goto, Moves
<1>2. CASE \E w \in Pool!At({"waiting"}) : pool_pc' = [pool_pc EXCEPT ![h] = to, ![w] = "woken"]
  <2>1. PICK w \in Handlers : pool_pc[w] = "waiting" /\ pool_pc' = [pool_pc EXCEPT ![h] = to, ![w] = "woken"]
    BY <1>2, Zenon DEF Pool!At
  <2> QED
    BY <1>0, <2>1, Zenon DEF Moves
<1> QED
  BY <1>1, <1>2, Zenon DEF Pool!GotoAndNotifyOne

\* How each operation of the pool moves its worker.
LEMMA PoolMoves ==
    ASSUME Pool!TypeOK, NEW h \in Handlers
    PROVE  /\ Pool!Receive(h) => Moves(h, {"idle"}, {"request"})
           /\ Pool!EarlyReturn(h) => Moves(h, {"request"}, {"idle"})
           /\ Pool!Begin(h) => Moves(h, {"request"}, {"acquire"})
           /\ Pool!AcquireSlot(h) \/ Pool!SpuriousWakeup(h) =>
                 Moves(h, {"acquire", "creating", "waiting", "woken"}, {"creating", "waiting", "woken", "holding"})
           /\ Pool!Release(h) => Moves(h, {"holding"}, {"notify"})
           /\ Pool!Notify(h) => Moves(h, {"notify"}, {"idle"})
           /\ Pool!CreateThrows(h) \/ Pool!TransferThrows(h) => Moves(h, {"creating", "holding"}, {"idle"})
<1>0. DOMAIN pool_pc = Handlers
  BY Zenon DEF Pool!TypeOK
<1>1. /\ Pool!Receive(h) => Moves(h, {"idle"}, {"request"})
      /\ Pool!EarlyReturn(h) => Moves(h, {"request"}, {"idle"})
      /\ Pool!Begin(h) => Moves(h, {"request"}, {"acquire"})
      /\ Pool!Release(h) => Moves(h, {"holding"}, {"notify"})
      /\ Pool!TransferThrows(h) => Moves(h, {"creating", "holding"}, {"idle"})
  BY <1>0, Zenon DEF Pool!Receive, Pool!EarlyReturn, Pool!Begin, Pool!Release, Pool!TransferThrows, Pool!Goto, Moves
<1>2. Pool!AcquireSlot(h) \/ Pool!SpuriousWakeup(h) =>
          Moves(h, {"acquire", "creating", "waiting", "woken"}, {"creating", "waiting", "woken", "holding"})
  BY <1>0, Zenon DEF Pool!AcquireSlot, Pool!AcquireReuse, Pool!AcquireGrow, Pool!AcquireWait, Pool!CreateSlot,
              Pool!WaitTake, Pool!WaitAgain, Pool!SpuriousWakeup, Pool!PopSlot, Pool!Goto, Moves
<1>3. Pool!Notify(h) => Moves(h, {"notify"}, {"idle"})
  BY NotifyMoves, Zenon DEF Pool!Notify
<1>4. Pool!CreateThrows(h) => Moves(h, {"creating", "holding"}, {"idle"})
  BY NotifyMoves, Zenon DEF Pool!CreateThrows
<1> QED
  BY <1>1, <1>2, <1>3, <1>4, Zenon

-----------------------------------------------------------------------------
(* Which request a worker serves; this makes the path it looks up one of Paths. *)

\* A worker that has left idle serves a request.
RequestInv ==
    /\ rq \in [Handlers -> Requests \cup {None}]
    /\ \A h \in Handlers : rq[h] = None => pool_pc[h] = "idle"

\* Every step keeps it.
LEMMA StepRequest == ASSUME Pool!TypeOK, RequestInv, [Next]_vars PROVE RequestInv'
<1>1. ASSUME NEW h \in Handlers, Reject(h) \/ NotFound(h) \/ HeadReply(h) \/ Refuse(h) \/ StartTransfer(h)
                                 \/ AcquireStep(h) \/ SpuriousWakeup(h) \/ TransferEnds(h) \/ NotifyStep(h) \/ Throws(h)
      PROVE  RequestInv'
  <2>1. rq' = rq
    BY <1>1, Zenon DEF Reject, NotFound, HeadReply, Refuse, StartTransfer, AcquireStep, SpuriousWakeup, TransferEnds, NotifyStep, Throws
  <2>2. \/ Pool!EarlyReturn(h) \/ Pool!Begin(h) \/ Pool!AcquireSlot(h) \/ Pool!SpuriousWakeup(h)
        \/ Pool!Release(h) \/ Pool!Notify(h) \/ Pool!CreateThrows(h) \/ Pool!TransferThrows(h)
    BY <1>1 DEF Reject, NotFound, HeadReply, Refuse, StartTransfer, AcquireStep, SpuriousWakeup, TransferEnds, NotifyStep, Throws,
                AnswerEarly
  <2>3. \A g \in Handlers : pool_pc[g] = "idle" => pool_pc'[g] = "idle"
    BY <2>2, PoolMoves, Zenon DEF Moves
  <2> QED
    BY <2>1, <2>3, Zenon DEF RequestInv
<1>2. ASSUME NEW h \in Handlers, NEW r \in Requests, Receive(h, r)
      PROVE  RequestInv'
  <2>1. Moves(h, {"idle"}, {"request"}) /\ rq' = [rq EXCEPT ![h] = r]
    BY <1>2, PoolMoves, Zenon DEF Receive
  <2> QED
    BY <2>1, ServerAssumption, Zenon DEF RequestInv, Moves
<1>3. ASSUME NEW h \in Handlers, Respond(h)
      PROVE  RequestInv'
  BY <1>3, Zenon DEF RequestInv, Respond, poolVars
<1>4. CASE \/ \E h \in Handlers : Lookup(h) \/ LookupStep(h)
           \/ Stop \/ Destroy \/ FileChanges \/ UNCHANGED vars
  BY <1>4, Zenon DEF RequestInv, Lookup, LookupStep, Stop, Pool!Stop, Destroy, Pool!Destroy, FileChanges, vars, poolVars
<1> QED
  BY <1>1, <1>2, <1>3, <1>4, Zenon DEF Next, Serve

\* Every step of the server is a step of the FD cache, or leaves the cache alone.
LEMMA StepFds == ASSUME RequestInv, [Next]_vars PROVE [Fds!Next]_(Fds!vars)
<1> USE DEF fdVars, Fds!vars, Fds!cacheVars
<1>1. ASSUME NEW h \in Handlers, Lookup(h)
      PROVE  Fds!Next
  <2>1. rq[h] \in RequestShape
    BY <1>1, ServerAssumption, Zenon DEF RequestInv, Lookup, Serving
  <2> QED
    BY <1>1, <2>1, Zenon DEF Lookup, RequestShape, Fds!Next
<1>2. ASSUME NEW h \in Handlers, LookupStep(h)
      PROVE  Fds!Next
  BY <1>2, Zenon DEF LookupStep, Fds!Next
<1>3. ASSUME NEW h \in Handlers, Respond(h)
      PROVE  [Fds!Next]_(Fds!vars)
  BY <1>3, Zenon DEF Respond, Fds!Next
<1>4. ASSUME NEW h \in Handlers, Reject(h) \/ NotFound(h) \/ HeadReply(h) \/ Refuse(h) \/ StartTransfer(h)
                                 \/ AcquireStep(h) \/ SpuriousWakeup(h) \/ TransferEnds(h) \/ NotifyStep(h) \/ Throws(h)
                                 \/ \E r \in Requests : Receive(h, r)
      PROVE  UNCHANGED Fds!vars
  BY <1>4, Zenon DEF Reject, NotFound, HeadReply, Refuse, StartTransfer, AcquireStep, SpuriousWakeup, TransferEnds, NotifyStep, Throws, Receive
<1>5. CASE Destroy \/ FileChanges
  BY <1>5, Zenon DEF Destroy, FileChanges, Fds!Next
<1>6. CASE Stop \/ UNCHANGED vars
  BY <1>6, Zenon DEF Stop, vars
<1> QED
  BY <1>1, <1>2, <1>3, <1>4, <1>5, <1>6, Zenon DEF Next, Serve

-----------------------------------------------------------------------------
(* What clients are promised. *)

\* Where worker h is in its request: it has looked up the path it was asked for; past
\* acquire_slot() it has a descriptor and a range inside its size; it is done with its
\* slot when it has a status; and 416 means a range outside the size.
WorkerInv(h) ==
    /\ rq[h] = None => fd_pc[h] = "idle" /\ status[h] = 0
    /\ fd_pc[h] # "idle" => path[h] = rq[h].path
    /\ pool_pc[h] \notin {"idle", "request"} =>
          /\ fd_pc[h] = "returned" /\ result[h] # None
          /\ rq[h].method = "GET" /\ rq[h].token = "ok" /\ RangeOk(rq[h].range, result[h][2])
    /\ status[h] # 0 => pool_pc[h] \in {"idle", "notify"}
    /\ status[h] = 416 =>
          /\ pool_pc[h] = "idle" /\ fd_pc[h] = "returned" /\ result[h] # None
          /\ ~RangeOk(rq[h].range, result[h][2])

\* What a HEAD has announced is the size in the cache; the parts of the server
\* object are destroyed together.
SharedInv ==
    /\ status \in [Handlers -> Nat]
    /\ headSize \in [Paths -> Sizes \cup {None}]
    /\ \A p \in Paths : headSize[p] # None => fd_cache_[p] # None /\ headSize[p] = fd_cache_[p][2]
    /\ alive <=> server # "closed"

\* The inductive invariant of the composition, on top of those of its parts.
ServerInv == SharedInv /\ \A h \in Handlers : WorkerInv(h)

\* The invariants of the parts.
PartsInv == Pool!TypeOK /\ FdInv /\ RequestInv

\* Worker g is not touched, or at most woken up.
Same(g) ==
    /\ pool_pc'[g] = pool_pc[g] \/ (pool_pc[g] = "waiting" /\ pool_pc'[g] = "woken")
    /\ fd_pc'[g] = fd_pc[g] /\ path'[g] = path[g] /\ result'[g] = result[g]
    /\ rq'[g] = rq[g] /\ status'[g] = status[g]

\* Such a step keeps what is said of g.
LEMMA SameKeeps == ASSUME NEW g \in Handlers, WorkerInv(g), Same(g) PROVE WorkerInv(g)'
  BY DEF WorkerInv, Same, RangeOk

\* Steps of worker h that leave the FD cache alone, and that are steps of the pool.
PoolSide(h) ==
    \/ Reject(h) \/ NotFound(h) \/ HeadReply(h) \/ Refuse(h) \/ StartTransfer(h)
    \/ AcquireStep(h) \/ SpuriousWakeup(h) \/ TransferEnds(h) \/ NotifyStep(h) \/ Throws(h) \/ \E r \in Requests : Receive(h, r)

\* Steps of worker h that leave the pool alone.
CacheSide(h) == Lookup(h) \/ LookupStep(h) \/ Respond(h)

\* Those are all.
LEMMA Sides ==
    ASSUME NEW h \in Handlers, Serve(h) \/ SpuriousWakeup(h) \/ Throws(h) \/ \E r \in Requests : Receive(h, r)
    PROVE  PoolSide(h) \/ CacheSide(h)
  BY Zenon DEF Serve, PoolSide, CacheSide

\* A step on the pool's side is an operation of the pool and leaves the cache alone.
LEMMA PoolSideFacts ==
    ASSUME NEW h \in Handlers, PoolSide(h)
    PROVE  /\ UNCHANGED fdVars
           /\ \/ Pool!Receive(h) \/ Pool!EarlyReturn(h) \/ Pool!Begin(h) \/ Pool!AcquireSlot(h)
              \/ Pool!SpuriousWakeup(h) \/ Pool!Release(h) \/ Pool!Notify(h) \/ Pool!CreateThrows(h)
              \/ Pool!TransferThrows(h)
<1>1. UNCHANGED fdVars
  BY Zenon DEF PoolSide, Reject, NotFound, HeadReply, Refuse, StartTransfer, AcquireStep, SpuriousWakeup, TransferEnds,
         NotifyStep, Throws, Receive
<1>2. \/ Pool!Receive(h) \/ Pool!EarlyReturn(h) \/ Pool!Begin(h) \/ Pool!AcquireSlot(h) \/ Pool!SpuriousWakeup(h)
      \/ Pool!Release(h) \/ Pool!Notify(h) \/ Pool!CreateThrows(h) \/ Pool!TransferThrows(h)
  <2>1. CASE Reject(h) \/ NotFound(h) \/ HeadReply(h) \/ Refuse(h)
    BY <2>1, Zenon DEF Reject, NotFound, HeadReply, Refuse, AnswerEarly
  <2>2. CASE StartTransfer(h) \/ AcquireStep(h) \/ SpuriousWakeup(h) \/ TransferEnds(h)
    BY <2>2, Zenon DEF StartTransfer, AcquireStep, SpuriousWakeup, TransferEnds, AnswerEarly
  <2>3. CASE NotifyStep(h) \/ Throws(h) \/ \E r \in Requests : Receive(h, r)
    BY <2>3, Zenon DEF NotifyStep, Throws, Receive, AnswerEarly
  <2> QED
    BY <2>1, <2>2, <2>3, Zenon DEF PoolSide
<1> QED
  BY <1>1, <1>2, Zenon

\* Answer sets the status of its worker and of no other.
LEMMA AnswerSets ==
    ASSUME NEW h \in Handlers, NEW code, Answer(h, code), DOMAIN status = Handlers
    PROVE  /\ status'[h] = code
           /\ \A g \in Handlers \ {h} : status'[g] = status[g]
           /\ status \in [Handlers -> Nat] /\ code \in Nat => status' \in [Handlers -> Nat]
  BY Zenon DEF Answer

\* A step on the pool's side leaves the statuses alone or answers its own worker.
LEMMA PoolSideAnswers ==
    ASSUME NEW h \in Handlers, PoolSide(h), status \in [Handlers -> Nat]
    PROVE  /\ status' \in [Handlers -> Nat]
           /\ \A g \in Handlers \ {h} : status'[g] = status[g]
<1>1. Reject(h) \/ NotFound(h) \/ HeadReply(h) \/ Refuse(h) =>
          Answer(h, 200) \/ Answer(h, 400) \/ Answer(h, 404) \/ Answer(h, 405) \/ Answer(h, 416) \/ Answer(h, 500)
  BY Zenon DEF Reject, NotFound, HeadReply, Refuse, AnswerEarly
<1>2. TransferEnds(h) \/ Throws(h) => Answer(h, 200) \/ Answer(h, 206) \/ Answer(h, 500)
  BY Zenon DEF TransferEnds, Throws
<1>3. StartTransfer(h) \/ AcquireStep(h) \/ SpuriousWakeup(h) \/ NotifyStep(h) \/ (\E r \in Requests : Receive(h, r)) => status' = status
  BY Zenon DEF StartTransfer, AcquireStep, SpuriousWakeup, NotifyStep, Receive
<1>4. DOMAIN status = Handlers
  BY Zenon
<1>5. CASE Reject(h) \/ NotFound(h) \/ HeadReply(h) \/ Refuse(h)
  BY <1>1, <1>4, <1>5, AnswerSets
<1>6. CASE TransferEnds(h) \/ Throws(h)
  BY <1>2, <1>4, <1>6, AnswerSets
<1>7. CASE StartTransfer(h) \/ AcquireStep(h) \/ SpuriousWakeup(h) \/ NotifyStep(h) \/ \E r \in Requests : Receive(h, r)
  BY <1>3, <1>7, Zenon
<1> QED
  BY <1>5, <1>6, <1>7, Zenon DEF PoolSide

\* A step of worker h does not touch another worker.
LEMMA OthersSame ==
    ASSUME PartsInv, ServerInv, NEW h \in Handlers, NEW g \in Handlers, g # h, PoolSide(h) \/ CacheSide(h)
    PROVE  Same(g)
<1>0. /\ DOMAIN fd_pc = Handlers /\ DOMAIN path = Handlers /\ DOMAIN result = Handlers
      /\ DOMAIN rq = Handlers /\ DOMAIN status = Handlers
  BY Zenon DEF PartsInv, FdInv, Fds!TypeOK, RequestInv, ServerInv, SharedInv
<1>1. CASE PoolSide(h)
  <2>1. UNCHANGED fdVars
    BY <1>1, PoolSideFacts, Zenon
  <2>3. pool_pc'[g] = pool_pc[g] \/ (pool_pc[g] = "waiting" /\ pool_pc'[g] = "woken")
    BY <1>1, PoolSideFacts, PoolMoves, Zenon DEF PartsInv, Moves
  <2>4. \/ rq' = rq
        \/ \E r \in Requests : rq' = [rq EXCEPT ![h] = r]
    BY <1>1, Zenon DEF PoolSide, Reject, NotFound, HeadReply, Refuse, StartTransfer, AcquireStep, SpuriousWakeup, TransferEnds,
                NotifyStep, Throws, Receive
  <2>5. status'[g] = status[g]
    BY <1>1, PoolSideAnswers, Zenon DEF ServerInv, SharedInv
  <2>6. rq'[g] = rq[g]
    BY <1>0, <2>4, Zenon
  <2>7. fd_pc'[g] = fd_pc[g] /\ path'[g] = path[g] /\ result'[g] = result[g]
    BY <2>1, Zenon DEF fdVars
  <2> QED
    BY <2>3, <2>5, <2>6, <2>7, Zenon DEF Same
<1>2. CASE CacheSide(h)
  <2>1. UNCHANGED pool_pc
    BY <1>2, Zenon DEF CacheSide, Lookup, LookupStep, Respond, poolVars
  <2>2. fd_pc'[g] = fd_pc[g] /\ path'[g] = path[g] /\ result'[g] = result[g]
    <3>1. CASE Lookup(h)
      BY <1>0, <3>1, Zenon DEF Lookup, Fds!Call
    <3>2. CASE LookupStep(h)
      BY <1>0, <3>2, Zenon DEF LookupStep, Fds!Step, Fds!SharedHit, Fds!SharedMiss, Fds!ExclusiveHit, Fds!Open,
                        Fds!OpenFails, Fds!Return
    <3>3. CASE Respond(h)
      BY <1>0, <3>3, Zenon DEF Respond, Fds!Done, fdVars
    <3> QED
      BY <1>2, <3>1, <3>2, <3>3, Zenon DEF CacheSide
  <2>3. rq'[g] = rq[g] /\ status'[g] = status[g]
    BY <1>0, <1>2, Zenon DEF CacheSide, Lookup, LookupStep, Respond
  <2> QED
    BY <2>1, <2>2, <2>3, Zenon DEF Same
<1> QED
  BY <1>1, <1>2, Zenon

\* A worker whose request is answered and who is past acquire_slot() keeps its invariant.
LEMMA IdleOwn ==
    ASSUME NEW h \in Handlers, WorkerInv(h), rq[h] = None => pool_pc[h] = "idle",
           NEW from, Moves(h, from, {"idle"}), "idle" \notin from,
           UNCHANGED <<rq, fd_pc, path, result>>,
           status'[h] = 416 => /\ fd_pc[h] = "returned" /\ result[h] # None
                               /\ ~RangeOk(rq[h].range, result[h][2])
    PROVE  WorkerInv(h)'
<1>1. pool_pc[h] # "idle" /\ pool_pc'[h] = "idle"
  BY Zenon DEF Moves
<1>2. rq[h] # None /\ (fd_pc[h] # "idle" => path[h] = rq[h].path)
  BY <1>1, Zenon DEF WorkerInv
<1>3. rq'[h] = rq[h] /\ fd_pc'[h] = fd_pc[h] /\ path'[h] = path[h] /\ result'[h] = result[h]
  BY Zenon
<1>4. ~RangeOk(rq[h].range, result[h][2]) => ~RangeOk(rq[h].range, result[h][2])'
  BY <1>3, Zenon DEF RangeOk
<1> QED
  BY <1>1, <1>2, <1>3, <1>4, Zenon DEF WorkerInv

\* So does one between acquire_slot() and the notification that ends release_slot().
LEMMA SlotOwn ==
    ASSUME NEW h \in Handlers, WorkerInv(h), rq[h] = None => pool_pc[h] = "idle",
           UNCHANGED <<rq, fd_pc, path, result>>,
           pool_pc[h] # "idle",
           pool_pc'[h] \notin {"idle", "request"},
           pool_pc'[h] = "notify" \/ status'[h] = 0,
           status'[h] # 416,
           fd_pc[h] = "returned", result[h] # None,
           rq[h].method = "GET", rq[h].token = "ok", RangeOk(rq[h].range, result[h][2])
    PROVE  WorkerInv(h)'
<1>2. rq[h] # None /\ path[h] = rq[h].path
  BY Zenon DEF WorkerInv
<1>3. rq'[h] = rq[h] /\ fd_pc'[h] = fd_pc[h] /\ path'[h] = path[h] /\ result'[h] = result[h]
  BY Zenon
<1>4. RangeOk(rq[h].range, result[h][2])'
  BY <1>3, Zenon DEF RangeOk
<1> QED
  BY <1>2, <1>3, <1>4, Zenon DEF WorkerInv

\* A worker keeps its own invariant on the way through the pool.
LEMMA PoolSideOwn ==
    ASSUME PartsInv, ServerInv, NEW h \in Handlers, PoolSide(h)
    PROVE  WorkerInv(h)'
<1>0. /\ WorkerInv(h) /\ DOMAIN rq = Handlers /\ DOMAIN status = Handlers
      /\ rq[h] = None => pool_pc[h] = "idle"
  BY Zenon DEF PartsInv, RequestInv, ServerInv, SharedInv
<1>1. ASSUME NEW r \in Requests, Receive(h, r)
      PROVE  WorkerInv(h)'
  <2>1. Moves(h, {"idle"}, {"request"}) /\ rq'[h] = r /\ rq[h] = None /\ UNCHANGED <<fd_pc, status>>
    BY <1>0, <1>1, PoolMoves, Zenon DEF PartsInv, Receive, fdVars
  <2> QED
    BY <1>0, <2>1, ServerAssumption, Zenon DEF WorkerInv, Moves
<1>2. CASE Reject(h) \/ NotFound(h) \/ HeadReply(h)
  <2>1. Moves(h, {"request"}, {"idle"}) /\ UNCHANGED <<rq, fd_pc, path, result>>
    <3>1. Pool!EarlyReturn(h) /\ UNCHANGED <<rq, fdVars>>
      BY <1>2, Zenon DEF Reject, NotFound, HeadReply, AnswerEarly
    <3> QED
      BY <3>1, PoolMoves, Zenon DEF PartsInv, fdVars
  <2>2. Answer(h, 200) \/ Answer(h, 400) \/ Answer(h, 404) \/ Answer(h, 405)
    BY <1>2, Zenon DEF Reject, NotFound, HeadReply, AnswerEarly
  <2>3. status'[h] # 416
    BY <1>0, <2>2, AnswerSets
  <2> QED
    BY <1>0, <2>1, <2>3, IdleOwn, Zenon
<1>3. CASE Refuse(h)
  <2>1. Moves(h, {"request"}, {"idle"}) /\ UNCHANGED <<rq, fd_pc, path, result>>
    <3>1. Pool!EarlyReturn(h) /\ UNCHANGED <<rq, fdVars>>
      BY <1>3, Zenon DEF Refuse, AnswerEarly
    <3> QED
      BY <3>1, PoolMoves, Zenon DEF PartsInv, fdVars
  <2>2. /\ fd_pc[h] = "returned" /\ result[h] # None
        /\ Answer(h, 500) \/ (Answer(h, 416) /\ ~RangeOk(rq[h].range, result[h][2]))
    BY <1>3, Zenon DEF Refuse, AnswerEarly
  <2>3. status'[h] = 416 => ~RangeOk(rq[h].range, result[h][2])
    BY <1>0, <2>2, AnswerSets
  <2> QED
    BY <1>0, <2>1, <2>2, <2>3, IdleOwn
<1>4. CASE StartTransfer(h)
  <2>1. Moves(h, {"request"}, {"acquire"}) /\ UNCHANGED <<rq, status, fd_pc, path, result>>
    BY <1>4, PoolMoves, Zenon DEF PartsInv, StartTransfer, fdVars
  <2>2. /\ fd_pc[h] = "returned" /\ result[h] # None
        /\ rq[h].method = "GET" /\ rq[h].token = "ok" /\ RangeOk(rq[h].range, result[h][2])
    BY <1>4, Zenon DEF StartTransfer
  <2>3. pool_pc[h] = "request" /\ pool_pc'[h] = "acquire"
    BY <2>1, Zenon DEF Moves
  <2>4. status[h] = 0
    BY <1>0, <2>3, Zenon DEF WorkerInv
  <2> QED
    BY <1>0, <2>1, <2>2, <2>3, <2>4, SlotOwn
<1>5. CASE AcquireStep(h) \/ SpuriousWakeup(h)
  <2>1. /\ Moves(h, {"acquire", "creating", "waiting", "woken"}, {"creating", "waiting", "woken", "holding"})
        /\ UNCHANGED <<rq, status, fd_pc, path, result>>
    BY <1>5, PoolMoves, Zenon DEF PartsInv, AcquireStep, SpuriousWakeup, fdVars
  <2>2. pool_pc[h] \notin {"idle", "request", "notify"} /\ pool_pc'[h] \notin {"idle", "request", "notify"}
    BY <2>1, Zenon DEF Moves
  <2>3. status[h] = 0
    BY <1>0, <2>2, Zenon DEF WorkerInv
  <2> QED
    BY <1>0, <2>1, <2>2, <2>3, SlotOwn, Zenon DEF WorkerInv
<1>6. CASE TransferEnds(h)
  <2>1. Moves(h, {"holding"}, {"notify"}) /\ UNCHANGED <<rq, fd_pc, path, result>>
    <3>1. Pool!Release(h) /\ UNCHANGED <<rq, fdVars>>
      BY <1>6, Zenon DEF TransferEnds
    <3> QED
      BY <3>1, PoolMoves, Zenon DEF PartsInv, fdVars
  <2>2. Answer(h, 200) \/ Answer(h, 206) \/ Answer(h, 500)
    BY <1>6, Zenon DEF TransferEnds
  <2>3. status'[h] # 416
    BY <1>0, <2>2, AnswerSets
  <2>4. pool_pc[h] = "holding" /\ pool_pc'[h] = "notify"
    BY <2>1, Zenon DEF Moves
  <2> QED
    BY <1>0, <2>1, <2>3, <2>4, SlotOwn, Zenon DEF WorkerInv
<1>7. CASE NotifyStep(h)
  <2>1. Moves(h, {"notify"}, {"idle"}) /\ UNCHANGED <<rq, status, fd_pc, path, result>>
    BY <1>7, PoolMoves, Zenon DEF PartsInv, NotifyStep, fdVars
  <2>2. status'[h] # 416
    BY <1>0, <2>1, Zenon DEF WorkerInv, Moves
  <2> QED
    BY <1>0, <2>1, <2>2, IdleOwn
<1>8. CASE Throws(h)
  <2>1. Moves(h, {"creating", "holding"}, {"idle"}) /\ UNCHANGED <<rq, fd_pc, path, result>>
    <3>1. (Pool!CreateThrows(h) \/ Pool!TransferThrows(h)) /\ UNCHANGED <<rq, fdVars>>
      BY <1>8, Zenon DEF Throws
    <3> QED
      BY <3>1, PoolMoves, Zenon DEF PartsInv, fdVars
  <2>2. Answer(h, 500)
    BY <1>8, Zenon DEF Throws
  <2>3. status'[h] # 416
    BY <1>0, <2>2, AnswerSets
  <2>4. pool_pc'[h] = "idle" /\ pool_pc[h] # "idle"
    BY <2>1, Zenon DEF Moves
  <2> QED
    BY <1>0, <2>1, <2>3, <2>4, IdleOwn, Zenon
<1> QED
  BY <1>1, <1>2, <1>3, <1>4, <1>5, <1>6, <1>7, <1>8, Zenon DEF PoolSide

\* A worker keeps its own invariant on the way through get_fd and when it responds.
LEMMA CacheSideOwn ==
    ASSUME PartsInv, ServerInv, NEW h \in Handlers, CacheSide(h)
    PROVE  WorkerInv(h)'
<1>0. /\ WorkerInv(h) /\ DOMAIN rq = Handlers /\ DOMAIN status = Handlers
      /\ DOMAIN fd_pc = Handlers /\ DOMAIN path = Handlers /\ DOMAIN result = Handlers
      /\ rq[h] = None => pool_pc[h] = "idle"
  BY Zenon DEF PartsInv, RequestInv, FdInv, Fds!TypeOK, ServerInv, SharedInv
<1>1. CASE Lookup(h)
  <2>1. /\ pool_pc[h] = "request" /\ fd_pc[h] = "idle" /\ fd_pc'[h] = "shared" /\ path'[h] = rq[h].path
        /\ UNCHANGED <<pool_pc, rq, status>>
    BY <1>0, <1>1, Zenon DEF Lookup, Serving, Fds!Call, poolVars
  <2> QED
    BY <1>0, <2>1, Zenon DEF WorkerInv
<1>2. CASE LookupStep(h)
  <2>1. /\ fd_pc[h] \in {"shared", "exclusive"} /\ fd_pc'[h] # "idle"
        /\ UNCHANGED <<path, pool_pc, rq, status>>
    BY <1>0, <1>2, Zenon DEF LookupStep, Fds!Step, Fds!SharedHit, Fds!SharedMiss, Fds!ExclusiveHit, Fds!Open,
                      Fds!OpenFails, Fds!Return, poolVars
  <2> QED
    BY <1>0, <2>1 DEF WorkerInv
<1>3. CASE Respond(h)
  <2>1. pool_pc'[h] = "idle" /\ fd_pc'[h] = "idle" /\ rq'[h] = None /\ status'[h] = 0
    BY <1>0, <1>3, Zenon DEF Respond, Fds!Done, fdVars, poolVars
  <2> QED
    BY <2>1 DEF WorkerInv
<1> QED
  BY <1>1, <1>2, <1>3, Zenon DEF CacheSide

\* A step of get_fd never changes an entry of the cache.
LEMMA EntriesStay ==
    ASSUME PartsInv, [Fds!Next]_(Fds!vars)
    PROVE  \A p \in Paths : fd_cache_[p] # None => fd_cache_'[p] = fd_cache_[p]
<1>1. ASSUME NEW h \in Handlers, Fds!Open(h)
      PROVE  \A p \in Paths : fd_cache_[p] # None => fd_cache_'[p] = fd_cache_[p]
  BY <1>1, Zenon DEF PartsInv, FdInv, Fds!TypeOK, Fds!Open
<1>2. CASE \/ \E h \in Handlers : \/ Fds!SharedHit(h) \/ Fds!SharedMiss(h) \/ Fds!ExclusiveHit(h) \/ Fds!OpenFails(h)
                                  \/ Fds!Done(h) \/ \E p \in Paths : Fds!Call(h, p)
           \/ (\E p \in Paths : Fds!FileChanges(p)) \/ Fds!Destroy \/ UNCHANGED Fds!vars
  BY <1>2, Zenon DEF Fds!SharedHit, Fds!SharedMiss, Fds!ExclusiveHit, Fds!OpenFails, Fds!Done, Fds!Call, Fds!FileChanges,
              Fds!Destroy, Fds!vars, Fds!cacheVars
<1> QED
  BY <1>1, <1>2, Zenon DEF Fds!Next, Fds!Step

\* The answer of get_fd that a worker has in hand is the entry of the path it was asked for.
LEMMA HandFacts ==
    ASSUME PartsInv, ServerInv, NEW h \in Handlers, result[h] # None
    PROVE  /\ fd_pc[h] = "returned" /\ path[h] = rq[h].path /\ path[h] \in Paths
           /\ result[h] = fd_cache_[path[h]] /\ result[h] \in Fds!Entries
<1>1. fd_pc[h] = "returned" /\ result[h] = fd_cache_[path[h]]
  BY Zenon DEF PartsInv, FdInv, HandInv
<1>2. WorkerInv(h)
  BY Zenon DEF ServerInv
<1>3. path[h] = rq[h].path
  BY <1>1, <1>2, Zenon DEF WorkerInv
<1>4. path[h] \in Paths
  BY Zenon DEF PartsInv, FdInv, Fds!TypeOK
<1>5. result[h] \in Fds!Entries
  BY Zenon DEF PartsInv, FdInv, Fds!TypeOK
<1> QED
  BY <1>1, <1>3, <1>4, <1>5, Zenon

\* Only HEAD announces, and it announces the size in the cache.
LEMMA SharedKept ==
    ASSUME PartsInv, ServerInv, [Next]_vars
    PROVE  SharedInv'
<1>1. status' \in [Handlers -> Nat]
  <2>1. ASSUME NEW h \in Handlers, PoolSide(h)
        PROVE  status' \in [Handlers -> Nat]
    BY <2>1, PoolSideAnswers, Zenon DEF ServerInv, SharedInv
  <2>2. ASSUME NEW h \in Handlers, CacheSide(h)
        PROVE  status' \in [Handlers -> Nat]
    <3>1. status' = status \/ status' = [status EXCEPT ![h] = 0]
      BY <2>2, Zenon DEF CacheSide, Lookup, LookupStep, Respond
    <3>2. status \in [Handlers -> Nat]
      BY Zenon DEF ServerInv, SharedInv
    <3> QED
      BY <3>1, <3>2
  <2>3. CASE Stop \/ Destroy \/ FileChanges \/ UNCHANGED vars
    BY <2>3, Zenon DEF Stop, Destroy, FileChanges, vars, ServerInv, SharedInv
  <2> QED
    BY <2>1, <2>2, <2>3, Sides, Zenon DEF Next
<1>2. /\ headSize' \in [Paths -> Sizes \cup {None}]
      /\ \A p \in Paths : headSize'[p] # None => fd_cache_'[p] # None /\ headSize'[p] = fd_cache_'[p][2]
  <2>1. ASSUME NEW h \in Handlers, HeadReply(h)
        PROVE  /\ headSize' \in [Paths -> Sizes \cup {None}]
               /\ \A p \in Paths : headSize'[p] # None => fd_cache_'[p] # None /\ headSize'[p] = fd_cache_'[p][2]
    <3>1. /\ fd_pc[h] = "returned" /\ result[h] # None /\ UNCHANGED fd_cache_
          /\ headSize' = [headSize EXCEPT ![rq[h].path] = result[h][2]]
      BY <2>1, Zenon DEF HeadReply, fdVars
    <3>2. path[h] = rq[h].path /\ path[h] \in Paths /\ result[h] = fd_cache_[path[h]] /\ result[h] \in Fds!Entries
      BY <3>1, HandFacts, Zenon
    <3>3. result[h][2] \in Sizes
      BY <3>2, EntryFacts, Zenon
    <3> QED
      BY <3>1, <3>2, <3>3, Zenon DEF ServerInv, SharedInv
  <2>2. CASE UNCHANGED headSize
    <3>1. [Fds!Next]_(Fds!vars)
      BY StepFds, Zenon DEF PartsInv
    <3> QED
      BY <2>2, <3>1, EntriesStay, Zenon DEF ServerInv, SharedInv
  <2>3. (\E h \in Handlers : HeadReply(h)) \/ UNCHANGED headSize
    <3>1. ASSUME NEW h \in Handlers, PoolSide(h)
          PROVE  HeadReply(h) \/ UNCHANGED headSize
      BY <3>1, Zenon DEF PoolSide, Reject, NotFound, Refuse, StartTransfer, AcquireStep, SpuriousWakeup, TransferEnds,
                         NotifyStep, Throws, Receive
    <3>2. ASSUME NEW h \in Handlers, CacheSide(h)
          PROVE  UNCHANGED headSize
      BY <3>2, Zenon DEF CacheSide, Lookup, LookupStep, Respond
    <3>3. CASE Stop \/ Destroy \/ FileChanges \/ UNCHANGED vars
      BY <3>3, Zenon DEF Stop, Destroy, FileChanges, vars
    <3> QED
      BY <3>1, <3>2, <3>3, Sides, Zenon DEF Next
  <2> QED
    BY <2>1, <2>2, <2>3, Zenon
<1>3. alive' <=> server' # "closed"
  <2>1. CASE Destroy
    BY <2>1, Zenon DEF Destroy, Pool!Destroy, Fds!Destroy
  <2>2. CASE Stop
    BY <2>2, Zenon DEF Stop, Pool!Stop, fdVars, ServerInv, SharedInv
  <2>3. ASSUME NEW h \in Handlers, PoolSide(h)
        PROVE  UNCHANGED <<alive, server>>
    <3>1. UNCHANGED alive
      BY <2>3, PoolSideFacts, Zenon DEF fdVars
    <3>3. UNCHANGED server
      BY <2>3, PoolSideFacts, Zenon DEF Pool!Receive, Pool!EarlyReturn, Pool!Begin, Pool!AcquireSlot, Pool!AcquireReuse, Pool!AcquireGrow,
                  Pool!AcquireWait, Pool!CreateSlot, Pool!WaitTake, Pool!WaitAgain, Pool!PopSlot,
                  Pool!SpuriousWakeup, Pool!Release, Pool!Notify, Pool!CreateThrows, Pool!TransferThrows
    <3> QED
      BY <3>1, <3>3, Zenon
  <2>4. ASSUME NEW h \in Handlers, CacheSide(h)
        PROVE  UNCHANGED <<alive, server>>
    BY <2>4, Zenon DEF CacheSide, Lookup, LookupStep, Respond, poolVars, fdVars, Fds!Call, Fds!Done, Fds!Step,
                Fds!SharedHit, Fds!SharedMiss, Fds!ExclusiveHit, Fds!Open, Fds!OpenFails
  <2>5. CASE FileChanges \/ UNCHANGED vars
    BY <2>5 DEF FileChanges, Fds!FileChanges, poolVars, fdVars, vars, ServerInv, SharedInv
  <2> QED
    BY <2>1, <2>2, <2>3, <2>4, <2>5, Sides, Zenon DEF Next, ServerInv, SharedInv
<1> QED
  BY <1>1, <1>2, <1>3, Zenon DEF SharedInv

\* Every step keeps the invariant of the composition.
LEMMA StepServer == ASSUME PartsInv, ServerInv, [Next]_vars PROVE ServerInv'
<1>1. ASSUME NEW h \in Handlers, PoolSide(h) \/ CacheSide(h)
      PROVE  \A g \in Handlers : WorkerInv(g)'
  <2>1. WorkerInv(h)'
    BY <1>1, PoolSideOwn, CacheSideOwn, Zenon
  <2>2. ASSUME NEW g \in Handlers, g # h
        PROVE  WorkerInv(g)'
    BY <1>1, <2>2, OthersSame, SameKeeps, Zenon DEF ServerInv
  <2> QED
    BY <2>1, <2>2, Zenon
<1>2. ASSUME Stop \/ FileChanges \/ Destroy \/ UNCHANGED vars
      PROVE  \A g \in Handlers : WorkerInv(g)'
  <2>1. UNCHANGED <<pool_pc, fd_pc, path, result, rq, status>>
    BY <1>2, Zenon DEF Stop, Pool!Stop, FileChanges, Fds!FileChanges, Destroy, Pool!Destroy, Fds!Destroy, vars, poolVars, fdVars
  <2>2. ASSUME NEW g \in Handlers
        PROVE  WorkerInv(g)'
    BY <2>1, SameKeeps, Zenon DEF ServerInv, Same
  <2> QED
    BY <2>2, Zenon
<1>3. \A g \in Handlers : WorkerInv(g)'
  BY <1>1, <1>2, Sides, Zenon DEF Next
<1> QED
  BY <1>3, SharedKept, Zenon DEF ServerInv

-----------------------------------------------------------------------------
(* The theorems.  The invariant of the pool comes from SlotPoolProofs. *)

PoolProofs == INSTANCE SlotPoolProofs WITH pc <- pool_pc

\* What SlotPoolProofs proves of the pool besides its types.
PoolInv == PoolProofs!SlotsExclusive /\ PoolProofs!Conservation

\* It holds of the gateway, because the gateway implements the pool.
LEMMA PoolInvariance == Spec => [](Pool!TypeOK /\ PoolInv)
<1>1. Init => PoolProofs!Init
  BY Zenon DEF Init, Pool!Init, PoolProofs!Init
<1>2. [Next]_vars => [PoolProofs!Next]_(PoolProofs!vars)
  <2>1. Pool!vars = PoolProofs!vars /\ Pool!vars' = PoolProofs!vars'
    BY Zenon DEF Pool!vars, PoolProofs!vars
  <2>2. Pool!Next => PoolProofs!Next
    BY Zenon DEF Pool!Next, Pool!Receive, Pool!EarlyReturn, Pool!Begin, Pool!AcquireSlot, Pool!AcquireReuse,
           Pool!AcquireGrow, Pool!AcquireWait, Pool!CreateSlot, Pool!WaitTake, Pool!WaitAgain, Pool!ReleaseSlot,
           Pool!Release, Pool!Notify, Pool!CreateThrows, Pool!SpuriousWakeup, Pool!TransferThrows, Pool!Stop,
           Pool!Destroy, Pool!PopSlot, Pool!Goto, Pool!GotoAndNotifyOne, Pool!At, Pool!Free,
           PoolProofs!Next, PoolProofs!Receive, PoolProofs!EarlyReturn, PoolProofs!Begin, PoolProofs!AcquireSlot,
           PoolProofs!AcquireReuse, PoolProofs!AcquireGrow, PoolProofs!AcquireWait, PoolProofs!CreateSlot,
           PoolProofs!WaitTake, PoolProofs!WaitAgain, PoolProofs!ReleaseSlot, PoolProofs!Release,
           PoolProofs!Notify, PoolProofs!CreateThrows, PoolProofs!SpuriousWakeup, PoolProofs!TransferThrows,
           PoolProofs!Stop, PoolProofs!Destroy, PoolProofs!PopSlot, PoolProofs!Goto,
           PoolProofs!GotoAndNotifyOne, PoolProofs!At, PoolProofs!Free
  <2> QED
    BY StepPool, <2>1, <2>2, Zenon
<1>3. PoolProofs!Spec => []PoolProofs!IInv
  <2>1. /\ IsFiniteSet(Handlers) <=> Pool!IsFiniteSet(Handlers)
        /\ IsFiniteSet(Handlers) <=> PoolProofs!IsFiniteSet(Handlers)
    BY Zenon DEF IsFiniteSet, Pool!IsFiniteSet, PoolProofs!IsFiniteSet
  <2>2. /\ Cardinality(Handlers) = Pool!Cardinality(Handlers)
        /\ Cardinality(Handlers) = PoolProofs!Cardinality(Handlers)
    BY Zenon DEF Cardinality, Pool!Cardinality, PoolProofs!Cardinality
  <2>3. PoolProofs!PoolAssumption
    BY ServerAssumption, <2>1, <2>2, Zenon DEF Pool!PoolAssumption, PoolProofs!PoolAssumption
  <2> QED
    BY <2>3, PoolProofs!Invariance, Zenon DEF PoolProofs!PoolAssumption
<1>4. Spec => PoolProofs!Spec
  BY <1>1, <1>2, PTL DEF Spec, PoolProofs!Spec
<1>5. PoolProofs!IInv => Pool!TypeOK /\ PoolInv
  BY Zenon DEF PoolProofs!IInv, PoolProofs!TypeOK, PoolProofs!PC, Pool!TypeOK, Pool!PC, PoolInv
<1> QED
  BY <1>3, <1>4, <1>5, PTL

\* It holds throughout.
LEMMA RequestInvariance == Spec => []RequestInv
<1>1. Init => RequestInv
  BY Zenon DEF Init, Pool!Init, RequestInv
<1>2. Pool!TypeOK /\ RequestInv /\ [Next]_vars => RequestInv'
  BY StepRequest, Zenon
<1> QED
  BY <1>1, <1>2, PoolInvariance, PTL DEF Spec

\* The gateway uses the FD cache as FdCache has it: handlers look objects of the data
\* directory up, use what they are given, and never close it.
LEMMA FdCacheRefined == Spec => Fds!Spec
<1>1. Init => Fds!Init
  BY Zenon DEF Init
<1>2. RequestInv /\ [Next]_vars => [Fds!Next]_(Fds!vars)
  BY StepFds, Zenon
<1> QED
  BY <1>1, <1>2, RequestInvariance, PTL DEF Spec, Fds!Spec

\* So the cache's invariant holds of the gateway.
LEMMA GatewayFdInv == Spec => []FdInv
  BY FdCacheRefined, FdInvariance, PTL

\* In the gateway, too, descriptors never leak: each open one belongs to exactly one path,
\* however many workers miss at once under the shared lock of get_fd.
THEOREM OneFdEach == Spec => []OneFdPerPath
<1>1. FdInv => OneFdPerPath
  BY DEF FdInv, CacheInv, OneFdPerPath, Fds!OneFdPerPath
<1> QED
  BY <1>1, GatewayFdInv, PTL

\* The invariants hold throughout.
LEMMA ServerInvariance == Spec => [](PartsInv /\ PoolInv /\ ServerInv)
<1>1. Init => ServerInv
  <2> SUFFICES ASSUME Init PROVE ServerInv
    BY Zenon
  <2>1. SharedInv
    <3>1. status \in [Handlers -> Nat] /\ headSize \in [Paths -> Sizes \cup {None}]
      BY Zenon DEF Init
    <3>2. alive /\ server = "serving"
      BY Zenon DEF Init, Pool!Init, Fds!Init
    <3> QED
      BY <3>1, <3>2, Zenon DEF Init, SharedInv
  <2>2. ASSUME NEW h \in Handlers
        PROVE  WorkerInv(h)
    <3>1. rq[h] = None /\ status[h] = 0 /\ pool_pc[h] = "idle" /\ fd_pc[h] = "idle"
      BY Zenon DEF Init, Pool!Init, Fds!Init
    <3> QED
      BY <3>1 DEF WorkerInv
  <2> QED
    BY <2>1, <2>2, Zenon DEF ServerInv
<1>2. PartsInv /\ ServerInv /\ [Next]_vars => ServerInv'
  BY StepServer, Zenon
<1> QED
  BY <1>1, <1>2, PoolInvariance, GatewayFdInv, RequestInvariance, PTL DEF Spec, PartsInv

\* RDMA resources are only ever spent on a GET whose descriptor is open and whose range
\* lies inside the size that the transfer will use (the early returns of handle_get).
THEOREM SlotsWellSpent == Spec => []SlotOnlyForValidGet
<1>1. PartsInv /\ ServerInv => SlotOnlyForValidGet
  <2> SUFFICES ASSUME PartsInv, ServerInv, NEW h \in Handlers, pool_pc[h] \notin {"idle", "request"}
               PROVE  /\ rq[h].method = "GET" /\ rq[h].token = "ok"
                      /\ result[h] # None /\ result[h][1] \in opened
                      /\ rq[h].range # <<>> => rq[h].range[2] < result[h][2]
    BY Zenon DEF SlotOnlyForValidGet
  <2>1. /\ fd_pc[h] = "returned" /\ result[h] # None
        /\ rq[h].method = "GET" /\ rq[h].token = "ok" /\ RangeOk(rq[h].range, result[h][2])
    BY Zenon DEF ServerInv, WorkerInv
  <2>2. result[h][1] \in opened
    <3>1. path[h] \in Fds!Cached /\ result[h] = fd_cache_[path[h]]
      BY <2>1, HandFacts, Zenon DEF Fds!Cached
    <3>2. alive
      BY <2>1, Zenon DEF PartsInv, FdInv, HandInv
    <3>3. opened = {fd_cache_[p][1] : p \in Fds!Cached}
      BY <3>2, Zenon DEF PartsInv, FdInv, CacheInv
    <3> QED
      BY <3>1, <3>3, Zenon
  <2> QED
    BY <2>1, <2>2, Zenon DEF RangeOk
<1> QED
  BY <1>1, ServerInvariance, PTL

\* What a HEAD has announced stays true for GETs while the file changes: the size found is
\* the one announced, and 416 is only answered to a range outside it.
THEOREM HeadKept == Spec => []HeadPromiseKept
<1>1. PartsInv /\ ServerInv => HeadPromiseKept
  <2> SUFFICES ASSUME PartsInv, ServerInv, NEW h \in Handlers,
                      rq[h] # None, headSize[rq[h].path] # None, result[h] # None
               PROVE  /\ result[h][2] = headSize[rq[h].path]
                      /\ status[h] = 416 => rq[h].range[1] > rq[h].range[2]
                                            \/ rq[h].range[2] >= headSize[rq[h].path]
    BY DEF HeadPromiseKept
  <2>1. /\ fd_pc[h] = "returned" /\ path[h] = rq[h].path /\ path[h] \in Paths
        /\ result[h] = fd_cache_[path[h]] /\ result[h] \in Fds!Entries
    BY HandFacts, Zenon
  <2>2. result[h][2] = headSize[rq[h].path]
    BY <2>1, Zenon DEF ServerInv, SharedInv
  <2>3. ASSUME status[h] = 416
        PROVE  rq[h].range[1] > rq[h].range[2] \/ rq[h].range[2] >= result[h][2]
    <3>1. ~RangeOk(rq[h].range, result[h][2])
      <4>1. WorkerInv(h)
        BY Zenon DEF ServerInv
      <4> QED
        BY <2>3, <4>1, Zenon DEF WorkerInv
    <3>2. rq[h].range \in {<<>>} \cup (Nat \X Nat)
      BY ServerAssumption, Zenon DEF PartsInv, RequestInv, RequestShape
    <3>3. result[h][2] \in Nat
      <4>1. result[h][2] \in Sizes
        BY <2>1, EntryFacts, Zenon
      <4>2. Sizes \subseteq Nat
        BY ServerAssumption, Zenon DEF Fds!FdCacheAssumption
      <4> QED
        BY <4>1, <4>2, Zenon
    <3> QED
      BY <3>1, <3>2, <3>3 DEF RangeOk
  <2> QED
    BY <2>2, <2>3, Zenon
<1> QED
  BY <1>1, ServerInvariance, PTL

\* A worker that has answered holds no slot; the destructor leaves no descriptor behind, and
\* no channel but those of slots that an exception lost, provided that create_slot() does not
\* throw once it has its channel.
THEOREM NothingLeftBehind ==
    ASSUME "buffer" \notin CreateThrowsAt
    PROVE  Spec => []NothingLeft
<1>1. PartsInv /\ PoolInv /\ ServerInv => NothingLeft
  <2> SUFFICES ASSUME PartsInv, PoolInv, ServerInv
               PROVE  NothingLeft
    BY Zenon
  <2>1. ASSUME NEW h \in Handlers, status[h] # 0
        PROVE  slot[h] = NoSlot
    BY <2>1, Zenon DEF PoolInv, PoolProofs!SlotsExclusive, ServerInv, WorkerInv
  <2>2. ASSUME ~alive
        PROVE  opened = {} /\ allocated = lost
    BY <2>2, Zenon DEF PartsInv, FdInv, CacheInv, PoolInv, PoolProofs!Conservation, ServerInv, SharedInv
  <2> QED
    BY <2>1, <2>2, Zenon DEF NothingLeft
<1> QED
  BY <1>1, ServerInvariance, PTL

\* Nobody uses what has been freed or is somebody else's: a worker past get_fd reads from a
\* descriptor that is still open, and one past acquire_slot() has an allocated channel of its
\* own, through every interleaving of workers, exceptions and the destructor.
THEOREM NoUseAfterFree == Spec => []NothingUsedAfterFree
<1>1. PartsInv /\ PoolInv /\ ServerInv => NothingUsedAfterFree
  <2> SUFFICES ASSUME PartsInv, PoolInv, ServerInv, NEW h \in Handlers
               PROVE  /\ pool_pc[h] # "idle" \/ fd_pc[h] # "idle" => alive
                      /\ result[h] # None => result[h][1] \in opened
                      /\ slot[h] # NoSlot => /\ slot[h] \in allocated \ Pool!Free
                                            /\ \A g \in Handlers \ {h} : slot[g] # slot[h]
    BY Zenon DEF NothingUsedAfterFree
  <2>1. /\ ~alive => fd_pc[h] = "idle" /\ pool_pc[h] = "idle"
        /\ server # "closed" => PoolProofs!Owned \subseteq allocated
    BY Zenon DEF PartsInv, FdInv, HandInv, PoolInv, PoolProofs!Conservation, ServerInv, SharedInv
  <2>2. ASSUME result[h] # None
        PROVE  result[h][1] \in opened
    <3>1. fd_pc[h] = "returned" /\ path[h] \in Fds!Cached /\ result[h] = fd_cache_[path[h]]
      BY <2>2, HandFacts, Zenon DEF Fds!Cached
    <3>2. opened = {fd_cache_[p][1] : p \in Fds!Cached}
      BY <2>1, <3>1, Zenon DEF PartsInv, FdInv, CacheInv
    <3> QED
      BY <3>1, <3>2, Zenon
  <2>3. ASSUME slot[h] # NoSlot
        PROVE  /\ slot[h] \in allocated \ Pool!Free
               /\ \A g \in Handlers \ {h} : slot[g] # slot[h]
    <3>1. pool_pc[h] = "holding" /\ slot[h] \notin PoolProofs!Free
      BY <2>3, Zenon DEF PoolInv, PoolProofs!SlotsExclusive
    <3>2. server # "closed"
      BY <2>1, <3>1, Zenon DEF ServerInv, SharedInv
    <3>3. slot[h] \in PoolProofs!Owned
      BY <3>1, Zenon DEF PoolProofs!Owned, PoolProofs!At
    <3>4. Pool!Free = PoolProofs!Free
      BY Zenon DEF Pool!Free, PoolProofs!Free
    <3> QED
      BY <2>1, <2>3, <3>1, <3>2, <3>3, <3>4, Zenon DEF PoolInv, PoolProofs!SlotsExclusive
  <2> QED
    BY <2>1, <2>2, <2>3, Zenon
<1> QED
  BY <1>1, ServerInvariance, PTL
=============================================================================
