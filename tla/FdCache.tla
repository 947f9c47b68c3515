------------------------------ MODULE FdCache -------------------------------
(***************************************************************************)
(* The FD cache of the gateway: S3Server::get_fd of server/s3_server.cpp,  *)
(* called by concurrent GET and HEAD handlers, over a file system that     *)
(* other processes change.  A section under fd_mu_, shared or exclusive,   *)
(* is one action.                                                          *)
(***************************************************************************)
EXTENDS Naturals, FiniteSets

CONSTANTS
    Handlers,      \* worker threads of the HTTP server
    Paths,         \* object paths under data_dir
    Sizes,         \* sizes a file may have
    MaxFd,         \* bound: file descriptors the process may have open
    None           \* "not there", for a file, a cache entry and a result

\* Assumed of the constants, by the composition (Server) and by the proofs.
FdCacheAssumption ==
    /\ IsFiniteSet(Handlers)
    /\ Sizes \subseteq Nat
    /\ MaxFd \in Nat
    /\ None \notin Sizes \cup (Nat \X Sizes)

VARIABLES
    pc,         \* where each handler is in get_fd
    path,       \* the path it asked for
    result,     \* what get_fd returned to it: <<fd, file_size>>, or None for -1
    fd_cache_,  \* path -> <<fd_direct, size>> or None
    opened,     \* open file descriptors (external)
    last_fd,    \* the last descriptor the kernel handed out (external)
    file,       \* path -> size of the file now, or None (external)
    first,      \* path -> first answer get_fd gave for it (history variable)
    alive       \* FALSE once the destructor has run

cacheVars == <<fd_cache_, opened, last_fd, first>>
vars == <<pc, path, result, cacheVars, file, alive>>

Entries == (1..MaxFd) \X Sizes
Cached == {p \in Paths : fd_cache_[p] # None}

Init ==
    /\ pc = [h \in Handlers |-> "idle"]
    /\ path \in [Handlers -> Paths]
    /\ result = [h \in Handlers |-> None]
    /\ fd_cache_ = [p \in Paths |-> None]
    /\ opened = {}
    /\ last_fd = 0
    /\ file \in [Paths -> Sizes \cup {None}]
    /\ first = [p \in Paths |-> None]
    /\ alive = TRUE

\* A handler calls get_fd.
Call(h, p) ==
    /\ alive
    /\ pc[h] = "idle"
    /\ pc' = [pc EXCEPT ![h] = "shared"]
    /\ path' = [path EXCEPT ![h] = p]
    /\ UNCHANGED <<result, cacheVars, file, alive>>

\* get_fd returns the answer a to h.
Return(h, a) ==
    /\ pc' = [pc EXCEPT ![h] = "returned"]
    /\ result' = [result EXCEPT ![h] = a]

\* The section under the shared lock.
SharedHit(h) ==
    /\ pc[h] = "shared"
    /\ fd_cache_[path[h]] # None
    /\ Return(h, fd_cache_[path[h]])
    /\ UNCHANGED <<path, cacheVars, file, alive>>

SharedMiss(h) ==
    /\ pc[h] = "shared"
    /\ fd_cache_[path[h]] = None
    /\ pc' = [pc EXCEPT ![h] = "exclusive"]
    /\ UNCHANGED <<path, result, cacheVars, file, alive>>

\* The section under the exclusive lock: somebody else was faster ...
ExclusiveHit(h) ==
    /\ pc[h] = "exclusive"
    /\ fd_cache_[path[h]] # None
    /\ Return(h, fd_cache_[path[h]])
    /\ UNCHANGED <<path, cacheVars, file, alive>>

\* Mutant: the second lookup is left out.
OpenUnchecked(h) ==
    LET p == path[h]
        e == <<last_fd + 1, file[p]>>
    IN  /\ pc[h] = "exclusive"
        /\ file[p] # None
        /\ last_fd < MaxFd
        /\ last_fd' = last_fd + 1
        /\ opened' = opened \cup {last_fd + 1}
        /\ fd_cache_' = [fd_cache_ EXCEPT ![p] = e]
        /\ first' = [first EXCEPT ![p] = IF @ = None THEN e ELSE @]
        /\ Return(h, e)
        /\ UNCHANGED <<path, file, alive>>

\* ... or open(), fstat() and insert.
Open(h) ==
    LET p == path[h]
        e == <<last_fd + 1, file[p]>>
    IN  /\ pc[h] = "exclusive"
        /\ fd_cache_[p] = None
        /\ file[p] # None
        /\ last_fd < MaxFd
        /\ last_fd' = last_fd + 1
        /\ opened' = opened \cup {last_fd + 1}
        /\ fd_cache_' = [fd_cache_ EXCEPT ![p] = e]
        /\ first' = [first EXCEPT ![p] = IF @ = None THEN e ELSE @]
        /\ Return(h, e)
        /\ UNCHANGED <<path, file, alive>>

\* open() fails, because there is no file or for another reason, or fstat()
\* fails and the descriptor is closed again: -1, and nothing is cached.
OpenFails(h) ==
    /\ pc[h] = "exclusive"
    /\ fd_cache_[path[h]] = None
    /\ Return(h, None)
    /\ UNCHANGED <<path, cacheVars, file, alive>>

\* The handler is done with the descriptor; it never closes it.
Done(h) ==
    /\ pc[h] = "returned"
    /\ pc' = [pc EXCEPT ![h] = "idle"]
    /\ result' = [result EXCEPT ![h] = None]
    /\ UNCHANGED <<path, cacheVars, file, alive>>

\* Another process creates, resizes, replaces or removes a file.
FileChanges(p) ==
    /\ file' \in {[file EXCEPT ![p] = s] : s \in Sizes \cup {None}}
    /\ UNCHANGED <<pc, path, result, cacheVars, alive>>

\* The destructor, after the workers have been joined, closes what is cached.
Destroy ==
    /\ alive
    /\ \A h \in Handlers : pc[h] = "idle"
    /\ alive' = FALSE
    /\ opened' = opened \ {fd_cache_[p][1] : p \in Cached}
    /\ UNCHANGED <<pc, path, result, fd_cache_, last_fd, first, file>>

Step(h) == SharedHit(h) \/ SharedMiss(h) \/ ExclusiveHit(h) \/ Open(h) \/ OpenFails(h)

Next ==
    \/ \E h \in Handlers : Step(h) \/ Done(h) \/ \E p \in Paths : Call(h, p)
    \/ \E p \in Paths : FileChanges(p)
    \/ Destroy

Spec == Init /\ [][Next]_vars

-----------------------------------------------------------------------------
(* Properties. *)

\* Types of the cache's state.
TypeOK ==
    /\ pc \in [Handlers -> {"idle", "shared", "exclusive", "returned"}]
    /\ path \in [Handlers -> Paths]
    /\ result \in [Handlers -> Entries \cup {None}]
    /\ fd_cache_ \in [Paths -> Entries \cup {None}]
    /\ opened \subseteq 1..MaxFd
    /\ last_fd \in 0..MaxFd
    /\ file \in [Paths -> Sizes \cup {None}]
    /\ first \in [Paths -> Entries \cup {None}]
    /\ alive \in BOOLEAN

\* However many handlers miss at once, a path is opened once: every open
\* descriptor belongs to exactly one entry of the cache, so none leaks.
OneFdPerPath ==
    \A fd \in opened : \E p \in Cached : /\ fd_cache_[p][1] = fd
                                         /\ \A q \in Cached : fd_cache_[q][1] = fd => q = p

\* A descriptor that get_fd has returned stays open while the handler uses it.
HandedFdOpen ==
    \A h \in Handlers : result[h] # None => result[h][1] \in opened

\* All handlers ever get the same descriptor and the same size for a path: HEAD
\* and GET agree about an object, even while its file changes.
AnswersAgree ==
    \A h \in Handlers : result[h] # None => result[h] = first[path[h]]
=============================================================================
