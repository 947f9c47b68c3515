------------------------------ MODULE Transfer ------------------------------
(***************************************************************************)
(* One GET of the gateway after acquire_slot(): the ping-pong loop of      *)
(* S3Server::handle_get in server/s3_server.cpp.  The RDMA thread sends    *)
(* staging buffer cur, byte by byte, while the handler's own pread_full    *)
(* fills the other one.                                                    *)
(*                                                                         *)
(* A byte of the object is named by its offset in the file.  The staging   *)
(* buffers of a slot start with whatever an earlier GET left there, and    *)
(* the client's buffer with Empty.  Align and the chunk sizes are small;   *)
(* the 4096 and chunk_size of the code stand in the same relation.         *)
(***************************************************************************)
EXTENDS Integers, FiniteSets

CONSTANTS
    Align,      \* kAlign
    Configs,    \* chunk_size and direct_io of the Configs to consider
    Requests,   \* what the GETs ask for, as the lines before acquire_slot() leave it
    Faults,     \* which of "pread", "truncate", "thread", "rdma", "short" can happen
    Empty,      \* a byte of the client's buffer before it is written
    Stale       \* a byte an earlier GET left in a staging buffer

\* main() refuses a chunk size of 0 (parse_size_kib), so the test of handle_get
\* for it never succeeds.  handle_get refuses a range that is not inside the file.
ASSUME TransferAssumption ==
    /\ Align \in Nat \ {0}
    /\ Configs \subseteq [chunk_size : Nat \ {0}, direct_io : BOOLEAN]
    /\ Empty \notin Int /\ Stale \notin Int /\ Empty # Stale
    /\ Requests \subseteq [offset : Nat, length : Nat, size : Nat, is_range : BOOLEAN]
    /\ \A r \in Requests : r.offset + r.length <= r.size

VARIABLES
    cfg_,           \* the Config of the server
    pc,             \* where the handler is
    req,            \* offset, length, cached file size, is_range
    file_len,       \* the file's length now; the cached size may be stale
    remaining, file_off, remote_off, cur, cur_c, next_c, total_written, \* locals of handle_get
    staging,        \* the two staging buffers of the slot
    rd,             \* the pread_full in progress: bytes read so far, or its result
    wr,             \* the handleGetObject in progress: bytes sent so far, or its result
    remote,         \* the client's buffer, from remote_base
    status,         \* the HTTP status, 0 while the GET runs
    faulty          \* whether a fault happened (history variable)

locals == <<remaining, file_off, remote_off, cur, cur_c, next_c, total_written>>
vars == <<cfg_, pc, req, file_len, locals, staging, rd, wr, remote, status, faulty>>

Chunk == cfg_.chunk_size
DirectIO == cfg_.direct_io

align_down(v, a) == v - (v % a)
align_up(v, a) == align_down(v + a - 1, a)

MinOf(a, b) == IF a < b THEN a ELSE b

\* Mutant: the length of the read is not aligned up.
PlanChunkNoAlignUp(off, left) ==
    LET piece == MinOf(left, Chunk)
        local == IF DirectIO THEN off - align_down(off, Align) ELSE 0
    IN  [read_off |-> off - local, read_len |-> MinOf(piece + local, Chunk), local_off |-> local, piece |-> piece]

plan_chunk(off, left) ==
    LET piece == MinOf(left, Chunk)
        local == IF DirectIO THEN off - align_down(off, Align) ELSE 0
    IN  [read_off  |-> off - local,
         read_len  |-> IF DirectIO THEN MinOf(align_up(piece + local, Align), Chunk) ELSE piece,
         local_off |-> local,
         piece     |-> piece]

\* next_c{} of an iteration that has no next chunk.
NoChunk == [read_off |-> 0, read_len |-> 0, local_off |-> 0, piece |-> 0]

Idle == [st |-> "idle", n |-> 0]
Running == [st |-> "run", n |-> 0]
Returned(n) == [st |-> "ret", n |-> n]

Init ==
    /\ cfg_ \in Configs
    /\ req \in Requests
    /\ pc = "prefill"
    /\ file_len = req.size
    /\ remaining = req.length
    /\ file_off = req.offset
    /\ remote_off = 0
    /\ cur = 0
    /\ cur_c = plan_chunk(req.offset, req.length)
    /\ next_c = NoChunk
    /\ total_written = 0
    /\ staging = [b \in {0, 1} |-> [k \in 0..(Chunk - 1) |-> Stale]]
    /\ rd = Running
    /\ wr = Idle
    /\ remote = [i \in 0..(req.length - 1) |-> Empty]
    /\ status = 0
    /\ faulty = FALSE

\* release_slot() and return.  What the RDMA thread does is not changed by it.
Finish(code) ==
    /\ pc' = "done"
    /\ status' = code
    /\ rd' = Idle
    /\ UNCHANGED <<cfg_, req, file_len, locals, staging, wr, remote, faulty>>

-----------------------------------------------------------------------------
(* pread_full: into buffer 0 before the loop, into the other buffer inside it. *)

\* Mutant: the loop reads into the buffer that is being sent.
FillBufferSame == IF pc = "prefill" THEN 0 ELSE cur

FillBuffer == IF pc = "prefill" THEN 0 ELSE 1 - cur
FillPlan == IF pc = "prefill" THEN cur_c ELSE next_c

\* O_DIRECT refuses a length that is not a multiple of the block size.
Misaligned == DirectIO /\ FillPlan.read_len % Align # 0

\* One more byte arrives, in this pread() or in the retry after a short one.
PreadByte ==
    /\ rd.st = "run"
    /\ ~Misaligned
    /\ rd.n < FillPlan.read_len
    /\ FillPlan.read_off + rd.n < file_len
    /\ staging' = [staging EXCEPT ![FillBuffer][rd.n] = FillPlan.read_off + rd.n]
    /\ rd' = [rd EXCEPT !.n = @ + 1]
    /\ UNCHANGED <<cfg_, pc, req, file_len, locals, wr, remote, status, faulty>>

\* Mutant: pread() returning 0 does not end the loop of pread_full.
PreadEndNoEof ==
    /\ rd.st = "run"
    /\ ~Misaligned
    /\ rd.n = FillPlan.read_len
    /\ rd' = Returned(rd.n)
    /\ UNCHANGED <<cfg_, pc, req, file_len, locals, staging, wr, remote, status, faulty>>

\* All bytes are there, or end of file.
PreadEnd ==
    /\ rd.st = "run"
    /\ ~Misaligned
    /\ rd.n = FillPlan.read_len \/ FillPlan.read_off + rd.n >= file_len
    /\ rd' = Returned(rd.n)
    /\ UNCHANGED <<cfg_, pc, req, file_len, locals, staging, wr, remote, status, faulty>>

\* pread() fails with EINVAL, as O_DIRECT has it.
PreadRefused ==
    /\ rd.st = "run"
    /\ Misaligned
    /\ rd' = Returned(-1)
    /\ UNCHANGED <<cfg_, pc, req, file_len, locals, staging, wr, remote, status, faulty>>

\* pread() fails with something other than EINTR.
PreadFails ==
    /\ "pread" \in Faults
    /\ rd.st = "run"
    /\ rd' = Returned(-1)
    /\ faulty' = TRUE
    /\ UNCHANGED <<cfg_, pc, req, file_len, locals, staging, wr, remote, status>>

\* nread < 0 || nread < local_off + piece, for the first chunk and for the next one.
ReadEnough == rd.n >= FillPlan.local_off + FillPlan.piece

-----------------------------------------------------------------------------
(* handleGetObject (external): an RDMA_WRITE of the current buffer. *)

\* Reads past the staging buffer see bytes that are not this object's.
StagingByte(k) == IF k < Chunk THEN staging[cur][k] ELSE Stale

RdmaByte ==
    /\ wr.st = "run"
    /\ wr.n < cur_c.piece
    /\ remote' = [remote EXCEPT ![remote_off + wr.n] = StagingByte(cur_c.local_off + wr.n)]
    /\ wr' = [wr EXCEPT !.n = @ + 1]
    /\ UNCHANGED <<cfg_, pc, req, file_len, locals, staging, rd, status, faulty>>

RdmaEnd ==
    /\ wr.st = "run"
    /\ wr.n = cur_c.piece
    /\ wr' = Returned(wr.n)
    /\ UNCHANGED <<cfg_, pc, req, file_len, locals, staging, rd, remote, status, faulty>>

\* It returns early, with the number of bytes that landed or with an error.
RdmaFails ==
    /\ wr.st = "run"
    /\ \/ "short" \in Faults /\ wr.n < cur_c.piece /\ wr' = Returned(wr.n)
       \/ "rdma" \in Faults /\ wr' = Returned(-1)
    /\ faulty' = TRUE
    /\ UNCHANGED <<cfg_, pc, req, file_len, locals, staging, rd, remote, status>>

-----------------------------------------------------------------------------
(* The handler. *)

Prefilled ==
    /\ pc = "prefill"
    /\ rd.st = "ret"
    /\ IF ReadEnough
       THEN /\ pc' = "loop"
            /\ rd' = Idle
            /\ UNCHANGED <<cfg_, req, file_len, locals, staging, wr, remote, status, faulty>>
       ELSE Finish(500)

\* There is a next chunk: plan it, start the RDMA thread, start the pread.
StartOverlap ==
    /\ pc = "loop"
    /\ remaining - cur_c.piece > 0
    /\ next_c' = plan_chunk(file_off + cur_c.piece, remaining - cur_c.piece)
    /\ pc' = "overlap"
    /\ wr' = Running
    /\ rd' = Running
    /\ UNCHANGED <<cfg_, req, file_len, remaining, file_off, remote_off, cur, cur_c, total_written,
                   staging, remote, status, faulty>>

\* The constructor of std::thread throws: handle_get unwinds, httplib answers 500.
ThreadThrows ==
    /\ "thread" \in Faults
    /\ pc = "loop"
    /\ remaining - cur_c.piece > 0
    /\ pc' = "done"
    /\ status' = 500
    /\ faulty' = TRUE
    /\ UNCHANGED <<cfg_, req, file_len, locals, staging, rd, wr, remote>>

\* The last chunk is sent by the handler itself.
StartLast ==
    /\ pc = "loop"
    /\ remaining > 0
    /\ remaining - cur_c.piece = 0
    /\ next_c' = NoChunk
    /\ pc' = "last"
    /\ wr' = Running
    /\ UNCHANGED <<cfg_, req, file_len, remaining, file_off, remote_off, cur, cur_c, total_written,
                   staging, rd, remote, status, faulty>>

\* The end of an iteration of the loop.
Advance ==
    /\ total_written' = total_written + wr.n
    /\ remaining' = remaining - cur_c.piece
    /\ file_off' = file_off + cur_c.piece
    /\ remote_off' = remote_off + cur_c.piece
    /\ cur' = 1 - cur
    /\ cur_c' = next_c
    /\ pc' = "loop"
    /\ rd' = Idle
    /\ wr' = Idle
    /\ UNCHANGED <<cfg_, req, file_len, next_c, staging, remote, status, faulty>>

\* Mutant: a short read is answered before the join.
JoinedTooLate ==
    /\ pc = "overlap"
    /\ rd.st = "ret"
    /\ IF ~ReadEnough
       THEN Finish(500)
       ELSE wr.st = "ret" /\ IF wr.n < 0 THEN Finish(500) ELSE Advance

\* join() after the pread, then the two error tests.
Joined ==
    /\ pc = "overlap"
    /\ rd.st = "ret"
    /\ wr.st = "ret"
    /\ IF wr.n < 0 \/ ~ReadEnough THEN Finish(500) ELSE Advance

LastSent ==
    /\ pc = "last"
    /\ wr.st = "ret"
    /\ IF wr.n < 0 THEN Finish(500) ELSE Advance

Reply ==
    /\ pc = "loop"
    /\ remaining = 0
    /\ Finish(IF req.is_range THEN 206 ELSE 200)

\* Somebody truncates the file; the size in the FD cache stays.
Truncate ==
    /\ "truncate" \in Faults
    /\ pc # "done"
    /\ file_len' \in 0..(file_len - 1)
    /\ faulty' = TRUE
    /\ UNCHANGED <<cfg_, pc, req, locals, staging, rd, wr, remote, status>>

Handler ==
    PreadByte \/ PreadEnd \/ PreadRefused \/ Prefilled \/ StartOverlap \/ StartLast \/ Joined \/ LastSent \/ Reply

RdmaThread == RdmaByte \/ RdmaEnd

Fault == PreadFails \/ RdmaFails \/ ThreadThrows \/ Truncate

Next == Handler \/ RdmaThread \/ Fault

Spec == Init /\ [][Next]_vars

\* Both threads are scheduled, and handleGetObject returns.  Faults need not happen.
FairSpec == Spec /\ WF_vars(Handler) /\ WF_vars(RdmaThread)

-----------------------------------------------------------------------------
(* Properties. *)

\* Whatever has landed in the client's buffer is the requested byte, even in a
\* GET that fails: no byte of an earlier GET, no byte overwritten while it was
\* being sent, no alignment padding, nothing at the wrong place.
OnlyRequestedBytes ==
    \A i \in DOMAIN remote : remote[i] \in {Empty, req.offset + i}

\* Without a fault a GET of a valid range succeeds and delivers all of it.
HealthyGetSucceeds ==
    status # 0 /\ ~faulty => status \in {200, 206} /\ total_written = req.length

\* This is so for buffered reads, and with O_DIRECT for a range that starts on a
\* block boundary, when chunk_size is a multiple of the block size.
AlignedGetSucceeds ==
    (DirectIO => req.offset % Align = 0 /\ Chunk % Align = 0) => HealthyGetSucceeds

\* The GET keeps the promise of RangeGet.
Get == INSTANCE RangeGet WITH bytes <- IF status \in {200, 206} THEN total_written ELSE 0
ImplementsRangeGet == Get!Spec

\* Every GET gets its answer.
GetEnds == <>(pc = "done")
=============================================================================
