--------------------------- MODULE TransferProofs ---------------------------
(***************************************************************************)
(* A GET of the gateway delivers only requested bytes, keeps the promise   *)
(* of RangeGet and, undisturbed, succeeds: for every alignment, chunk size *)
(* and request, and every choice of faults.                                *)
(***************************************************************************)
EXTENDS Transfer, FiniteSetTheorems, TLAPS

Plan == [read_off : Nat, read_len : Nat, local_off : Nat, piece : Nat]

Types ==
    /\ cfg_ \in Configs /\ req \in Requests
    /\ status \in {0, 200, 206, 500} /\ (pc = "done" <=> status # 0)
    /\ pc \in {"prefill", "loop", "overlap", "last", "done"}
    /\ file_len \in Nat /\ remaining \in Nat /\ file_off \in Nat /\ remote_off \in Nat /\ total_written \in Nat
    /\ cur \in {0, 1} /\ cur_c \in Plan /\ next_c \in Plan
    /\ staging \in [{0, 1} -> [0..(Chunk - 1) -> Int \cup {Stale}]]
    /\ rd \in [st : {"idle", "run", "ret"}, n : Int] /\ (rd.st # "idle" <=> pc \in {"prefill", "overlap"})
    /\ wr \in [st : {"idle", "run", "ret"}, n : Int]
    /\ wr.st # "idle" => pc \in {"overlap", "last", "done"}
    /\ pc \in {"overlap", "last"} => wr.st # "idle"
    /\ wr.st = "run" => pc # "done"
    /\ remote \in [0..(req.length - 1) -> Int \cup {Empty}]

\* Where the loop is, and what it has planned.
Place ==
    pc # "done" =>
        /\ file_off = req.offset + remote_off /\ remaining = req.length - remote_off
        /\ remaining > 0 \/ pc = "prefill" => cur_c = plan_chunk(file_off, remaining)
        /\ pc = "overlap" => /\ remaining - cur_c.piece > 0
                             /\ next_c = plan_chunk(file_off + cur_c.piece, remaining - cur_c.piece)
        /\ pc = "last" => remaining > 0 /\ remaining = cur_c.piece
        /\ pc = "prefill" => cur = 0

\* The buffer that is sent or about to be, and the one that is filled.
Sendable ==
    /\ cur_c.local_off + cur_c.piece <= Chunk
    /\ \A k \in 0..(cur_c.local_off + cur_c.piece - 1) : staging[cur][k] = cur_c.read_off + k

Buffers ==
    /\ rd.st = "run" => rd.n >= 0
    /\ rd.st # "idle" =>
         rd.n <= FillPlan.read_len /\ \A k \in 0..(rd.n - 1) : staging[FillBuffer][k] = FillPlan.read_off + k
    /\ pc \in {"overlap", "last"} \/ (pc = "loop" /\ remaining > 0) => Sendable

\* The first byte of the client's buffer that is not yet touched.
Frontier == remote_off + CASE wr.st = "idle" -> 0 [] wr.st = "run" -> wr.n [] wr.st = "ret" -> cur_c.piece

Sent ==
    /\ wr.st = "idle" => wr.n = 0
    /\ wr.st # "idle" => wr.n >= -1 /\ wr.n <= cur_c.piece /\ (wr.st = "run" => wr.n >= 0)
    /\ pc # "done" => \A i \in DOMAIN remote : i >= Frontier => remote[i] = Empty
    /\ pc # "done" /\ wr.n >= 0 => Cardinality(Get!Landed) = total_written + wr.n

Smooth == ~faulty /\ (DirectIO => req.offset % Align = 0 /\ Chunk % Align = 0)

\* Undisturbed, no read or write comes out short.
Healthy ==
    Smooth =>
        /\ file_len = req.size
        /\ pc # "done" => total_written = remote_off
        /\ DirectIO /\ pc # "done" /\ (remaining > 0 \/ pc = "prefill") => file_off % Align = 0
        /\ wr.st = "ret" => wr.n = cur_c.piece
        /\ rd.st = "ret" => ReadEnough
        /\ status # 0 => status # 500 /\ total_written = req.length

TInv == Types /\ Place /\ Buffers /\ Sent /\ OnlyRequestedBytes
-----------------------------------------------------------------------------
(* plan_chunk. *)

LEMMA Remainder ==
    ASSUME NEW v \in Nat
    PROVE  /\ v % Align \in Nat /\ v % Align <= v /\ v % Align < Align
           /\ (v - (v % Align)) % Align = 0
<1>1. Align \in Nat \ {0}
  BY TransferAssumption, Zenon
<1>2. v % Align \in Nat /\ v % Align < Align /\ v = Align * (v \div Align) + (v % Align) /\ v \div Align \in Nat
  BY <1>1, SMT
<1>3. v % Align <= v
  BY <1>1, <1>2, SMT
<1>4. v - (v % Align) = Align * (v \div Align)
  BY <1>1, <1>2, SMT
<1>5. \A q \in Nat : (Align * q) % Align = 0
  BY <1>1, SMT
<1> QED
  BY <1>2, <1>3, <1>4, <1>5, Zenon

LEMMA AlignUp ==
    ASSUME NEW v \in Nat
    PROVE  align_up(v, Align) \in Nat /\ align_up(v, Align) >= v /\ align_up(v, Align) % Align = 0
<1>1. Align \in Nat \ {0} /\ v + Align - 1 \in Nat
  BY TransferAssumption
<1> DEFINE u == v + Align - 1
<1>2. u % Align \in Nat /\ u % Align <= u /\ u % Align < Align /\ (u - (u % Align)) % Align = 0
  BY <1>1, Remainder, Zenon
<1>3. align_up(v, Align) = u - (u % Align)
  BY Zenon DEF align_up, align_down
<1> QED
  BY <1>1, <1>2, <1>3

\* What plan_chunk returns, aligned or not.
LEMMA PlanFacts ==
    ASSUME cfg_ \in Configs, NEW off \in Nat, NEW left \in Nat, NEW p, p = plan_chunk(off, left)
    PROVE  /\ p \in Plan /\ p.read_off + p.local_off = off /\ p.read_len <= Chunk
           /\ p.piece <= left /\ (left > 0 => p.piece > 0) /\ (p.piece < left => p.piece = Chunk)
           /\ Chunk \in Nat \ {0}
<1>1. Chunk \in Nat \ {0} /\ DirectIO \in BOOLEAN
  BY TransferAssumption, Zenon DEF Chunk, DirectIO
<1> DEFINE local == IF DirectIO THEN off - align_down(off, Align) ELSE 0
<1>2. local \in Nat /\ local <= off
  BY <1>1, Remainder DEF align_down
<1>3. p.piece = MinOf(left, Chunk) /\ p.local_off = local /\ p.read_off = off - local
      /\ p.read_len = (IF DirectIO THEN MinOf(align_up(p.piece + local, Align), Chunk) ELSE p.piece)
      /\ p = [read_off |-> p.read_off, read_len |-> p.read_len, local_off |-> p.local_off, piece |-> p.piece]
  BY Zenon DEF plan_chunk
<1>4. p.piece \in Nat /\ p.piece <= left /\ p.piece <= Chunk /\ (left > 0 => p.piece > 0) /\ (p.piece < left => p.piece = Chunk)
  BY <1>1, <1>3 DEF MinOf
<1>5. p.read_len \in Nat /\ p.read_len <= Chunk
  <2>1. align_up(p.piece + local, Align) \in Nat
    BY <1>2, <1>4, AlignUp
  <2> QED
    BY <1>1, <1>3, <1>4, <2>1 DEF MinOf
<1> HIDE DEF local
<1>6. p.read_off \in Nat /\ p.read_off + p.local_off = off /\ p.local_off \in Nat
  BY <1>2, <1>3
<1> QED
  BY <1>1, <1>3, <1>4, <1>5, <1>6, Zenon DEF Plan

\* Of an aligned offset it reads whole blocks from there.
LEMMA PlanAligned ==
    ASSUME cfg_ \in Configs, NEW off \in Nat, NEW left \in Nat, NEW p, p = plan_chunk(off, left),
           DirectIO => off % Align = 0 /\ Chunk % Align = 0
    PROVE  /\ p.local_off = 0 /\ p.read_off = off /\ p.piece <= p.read_len
           /\ DirectIO => p.read_len % Align = 0
<1>1. Chunk \in Nat \ {0} /\ DirectIO \in BOOLEAN
  BY TransferAssumption, Zenon DEF Chunk, DirectIO
<1>2. p.piece = MinOf(left, Chunk) /\ p.local_off = (IF DirectIO THEN off - align_down(off, Align) ELSE 0)
      /\ p.read_off = off - p.local_off
      /\ p.read_len = (IF DirectIO THEN MinOf(align_up(p.piece + p.local_off, Align), Chunk) ELSE p.piece)
  BY Zenon DEF plan_chunk
<1>3. p.local_off = 0
  BY <1>1, <1>2, Remainder DEF align_down
<1>4. p.piece \in Nat /\ p.piece <= Chunk
  BY <1>1, <1>2 DEF MinOf
<1>5. align_up(p.piece, Align) \in Nat /\ align_up(p.piece, Align) >= p.piece /\ align_up(p.piece, Align) % Align = 0
  BY <1>4, AlignUp, Zenon
<1>6. p.piece + p.local_off = p.piece
  BY <1>3, <1>4
<1>7. p.read_len = IF DirectIO THEN MinOf(align_up(p.piece, Align), Chunk) ELSE p.piece
  BY <1>2, <1>6, Zenon
<1>8. p.piece <= p.read_len /\ (DirectIO => p.read_len % Align = 0)
  BY <1>1, <1>4, <1>5, <1>7 DEF MinOf
<1> QED
  BY <1>2, <1>3, <1>8

-----------------------------------------------------------------------------
(* Safety: every step keeps TInv. *)

\* The configuration stays.
LEMMA Frame ==
    ASSUME cfg_' = cfg_
    PROVE  Chunk' = Chunk /\ (DirectIO' <=> DirectIO) /\ (\A a, b : plan_chunk(a, b)' = plan_chunk(a, b))
BY Zenon DEF Chunk, DirectIO, plan_chunk

\* The counts behind Place.
LEMMA Bounds ==
    ASSUME TInv
    PROVE  /\ Chunk \in Nat \ {0}
           /\ req.offset \in Nat /\ req.length \in Nat /\ req.size \in Nat /\ req.offset + req.length <= req.size
           /\ FillPlan \in Plan /\ FillBuffer \in {0, 1}
           /\ rd.st # "idle" => FillPlan.read_len <= Chunk
           /\ pc # "done" /\ remaining > 0 => /\ cur_c.piece > 0 /\ cur_c.piece <= remaining
                                             /\ cur_c.read_off + cur_c.local_off = file_off
<1>1. cfg_ \in Configs /\ req \in Requests /\ Types /\ Place
  BY Zenon DEF TInv, Types
<1>2. Chunk \in Nat \ {0}
  BY <1>1, TransferAssumption, Zenon DEF Chunk
<1>3. req.offset \in Nat /\ req.length \in Nat /\ req.size \in Nat /\ req.offset + req.length <= req.size
  BY <1>1, TransferAssumption, Zenon
<1>4. FillPlan \in Plan /\ FillBuffer \in {0, 1}
  BY <1>1 DEF Types, FillPlan, FillBuffer
<1>5. pc = "overlap" => next_c.read_len <= Chunk
  <2> SUFFICES ASSUME pc = "overlap"
               PROVE  next_c.read_len <= Chunk
    BY Zenon
  <2>1. file_off + cur_c.piece \in Nat /\ remaining - cur_c.piece \in Nat
        /\ next_c = plan_chunk(file_off + cur_c.piece, remaining - cur_c.piece)
    <3>1. file_off \in Nat /\ remaining \in Nat /\ cur_c.piece \in Nat
      BY <1>1, Zenon DEF Types, Plan
    <3>2. remaining - cur_c.piece > 0 /\ next_c = plan_chunk(file_off + cur_c.piece, remaining - cur_c.piece)
      BY <1>1, Zenon DEF Place
    <3> QED
      BY <3>1, <3>2
  <2> QED
    BY <1>1, <2>1, PlanFacts, Zenon
<1>6. (pc # "done" /\ remaining > 0) \/ pc = "prefill" =>
         /\ cur_c.read_len <= Chunk /\ cur_c.piece <= remaining /\ (remaining > 0 => cur_c.piece > 0)
         /\ cur_c.read_off + cur_c.local_off = file_off
  <2> SUFFICES ASSUME (pc # "done" /\ remaining > 0) \/ pc = "prefill"
               PROVE  /\ cur_c.read_len <= Chunk /\ cur_c.piece <= remaining /\ (remaining > 0 => cur_c.piece > 0)
                      /\ cur_c.read_off + cur_c.local_off = file_off
    BY Zenon
  <2>1. file_off \in Nat /\ remaining \in Nat /\ cur_c = plan_chunk(file_off, remaining)
    BY <1>1 DEF Place, Types
  <2> QED
    BY <1>1, <2>1, PlanFacts, Zenon
<1>7. rd.st # "idle" => FillPlan.read_len <= Chunk
  BY <1>1, <1>5, <1>6 DEF Types, FillPlan
<1> QED
  BY <1>2, <1>3, <1>4, <1>6, <1>7, Zenon

LEMMA InitTInv == Init => TInv
<1> SUFFICES ASSUME Init
             PROVE  TInv
  BY Zenon
<1>1. /\ cfg_ \in Configs /\ req \in Requests /\ pc = "prefill" /\ file_len = req.size /\ remaining = req.length
      /\ file_off = req.offset /\ remote_off = 0 /\ cur = 0 /\ cur_c = plan_chunk(req.offset, req.length)
      /\ next_c = NoChunk /\ total_written = 0 /\ rd = Running /\ wr = Idle /\ status = 0
      /\ staging = [b \in {0, 1} |-> [k \in 0..(Chunk - 1) |-> Stale]]
      /\ remote = [i \in 0..(req.length - 1) |-> Empty]
  BY Zenon DEF Init
<1>2. req.offset \in Nat /\ req.length \in Nat /\ req.size \in Nat
  BY <1>1, TransferAssumption, Zenon
<1>3. cur_c \in Plan /\ next_c \in Plan
  <2>1. cur_c \in Plan
    BY <1>1, <1>2, PlanFacts, Zenon
  <2> QED
    BY <1>1, <2>1, Zenon DEF NoChunk, Plan
<1>4. rd.st = "run" /\ rd.n = 0 /\ wr.st = "idle" /\ wr.n = 0
      /\ rd \in [st : {"idle", "run", "ret"}, n : Int] /\ wr \in [st : {"idle", "run", "ret"}, n : Int]
  BY <1>1 DEF Running, Idle
<1>5. Types
  BY <1>1, <1>2, <1>3, <1>4, Zenon DEF Types
<1>6. Place
  BY <1>1, <1>2 DEF Place
<1>7. Buffers
  BY <1>1, <1>3, <1>4 DEF Buffers, FillPlan, Plan
<1>8. OnlyRequestedBytes
  BY <1>1, Zenon DEF OnlyRequestedBytes
<1>9. Sent
  <2>1. Get!Landed = {}
    BY <1>1, Zenon DEF Get!Landed
  <2> QED
    BY <1>1, <1>4, <2>1, FS_EmptySet DEF Sent
<1> QED
  BY <1>5, <1>6, <1>7, <1>8, <1>9, Zenon DEF TInv

\* A byte is read into the buffer that is not being sent.
LEMMA PreadByteTInv ==
    ASSUME TInv, PreadByte
    PROVE  TInv'
<1>1. /\ rd.st = "run" /\ rd.n < FillPlan.read_len /\ rd' = [rd EXCEPT !.n = @ + 1]
      /\ staging' = [staging EXCEPT ![FillBuffer][rd.n] = FillPlan.read_off + rd.n]
      /\ UNCHANGED <<cfg_, pc, req, file_len, locals, wr, remote, status>>
  BY Zenon DEF PreadByte
<1>2. UNCHANGED <<remaining, file_off, remote_off, cur, cur_c, next_c, total_written>>
  BY <1>1, Zenon DEF locals
<1>3. Chunk' = Chunk /\ (DirectIO' <=> DirectIO) /\ (\A a, b : plan_chunk(a, b)' = plan_chunk(a, b))
      /\ FillPlan' = FillPlan /\ FillBuffer' = FillBuffer
  BY <1>1, <1>2, Frame, Zenon DEF FillPlan, FillBuffer
<1>4. Types /\ Place /\ Buffers /\ Sent /\ OnlyRequestedBytes
  BY Zenon DEF TInv
<1>5. /\ rd.n \in Nat /\ rd.n < Chunk /\ FillPlan.read_len \in Nat /\ FillPlan.read_off \in Nat /\ FillBuffer \in {0, 1}
      /\ Chunk \in Nat
  <2>1. rd.n \in Int /\ rd.n >= 0
    BY <1>1, <1>4, Zenon DEF Types, Buffers
  <2>2. FillPlan \in Plan /\ FillBuffer \in {0, 1} /\ FillPlan.read_len <= Chunk /\ Chunk \in Nat
    BY <1>1, Bounds, Zenon
  <2> QED
    BY <1>1, <2>1, <2>2 DEF Plan
<1>6. rd'.st = "run" /\ rd'.n = rd.n + 1 /\ rd' \in [st : {"idle", "run", "ret"}, n : Int]
  BY <1>1, <1>4 DEF Types
<1>7. /\ staging' \in [{0, 1} -> [0..(Chunk - 1) -> Int \cup {Stale}]]
      /\ staging'[FillBuffer][rd.n] = FillPlan.read_off + rd.n
      /\ \A k \in 0..(Chunk - 1) : k # rd.n => staging'[FillBuffer][k] = staging[FillBuffer][k]
      /\ \A b \in {0, 1} : b # FillBuffer => staging'[b] = staging[b]
  <2>1. staging \in [{0, 1} -> [0..(Chunk - 1) -> Int \cup {Stale}]]
    BY <1>4, Zenon DEF Types
  <2>2. rd.n \in 0..(Chunk - 1) /\ FillPlan.read_off + rd.n \in Int
    BY <1>5
  <2> QED
    BY <1>1, <1>5, <2>1, <2>2, Zenon
<1>8. Types'
  BY <1>1, <1>2, <1>3, <1>4, <1>6, <1>7 DEF Types
<1>9. Place'
  BY <1>1, <1>2, <1>3, <1>4, Zenon DEF Place
<1>10. Buffers'
  <2>1. ASSUME NEW k \in 0..(rd'.n - 1)
        PROVE  staging'[FillBuffer][k] = FillPlan.read_off + k
    <3>1. k \in 0..(Chunk - 1) /\ (k = rd.n \/ k \in 0..(rd.n - 1))
      BY <1>5, <1>6, <2>1
    <3>2. \A j \in 0..(rd.n - 1) : staging[FillBuffer][j] = FillPlan.read_off + j
      BY <1>1, <1>4, Zenon DEF Buffers
    <3>3. CASE k = rd.n
      BY <1>7, <3>3, Zenon
    <3>4. CASE k # rd.n
      BY <1>7, <3>1, <3>2, <3>4, Zenon
    <3> QED
      BY <3>3, <3>4, Zenon
  <2>2. Sendable /\ pc = "overlap" => Sendable'
    BY <1>1, <1>2, <1>3, <1>4, <1>7 DEF Sendable, FillBuffer, Types
  <2>3. pc \in {"prefill", "overlap"}
    BY <1>1, <1>4, Zenon DEF Types
  <2> QED
    BY <1>1, <1>3, <1>4, <1>5, <1>6, <2>1, <2>2, <2>3 DEF Buffers
<1>11. Sent' /\ OnlyRequestedBytes'
  BY <1>1, <1>2, <1>4, Zenon DEF Sent, Frontier, OnlyRequestedBytes, Get!Landed
<1> QED
  BY <1>8, <1>9, <1>10, <1>11, Zenon DEF TInv

\* pread_full returns what it has, or -1.
LEMMA PreadRetTInv ==
    ASSUME TInv, rd.st = "run", NEW n, n = rd.n \/ n = -1, rd' = Returned(n), file_len' \in Nat,
           UNCHANGED <<cfg_, pc, req, locals, staging, wr, remote, status>>
    PROVE  TInv'
<1>1. UNCHANGED <<remaining, file_off, remote_off, cur, cur_c, next_c, total_written>>
  BY Zenon DEF locals
<1>2. Chunk' = Chunk /\ (DirectIO' <=> DirectIO) /\ (\A a, b : plan_chunk(a, b)' = plan_chunk(a, b))
      /\ FillPlan' = FillPlan /\ FillBuffer' = FillBuffer
  BY <1>1, Frame, Zenon DEF FillPlan, FillBuffer
<1>3. Types /\ Place /\ Buffers /\ Sent /\ OnlyRequestedBytes /\ FillPlan \in Plan
  BY Bounds, Zenon DEF TInv
<1>4. rd'.st = "ret" /\ rd'.n = n /\ n \in Int /\ rd' \in [st : {"idle", "run", "ret"}, n : Int]
  BY <1>3 DEF Types, Returned
<1>5. Types'
  BY <1>1, <1>2, <1>3, <1>4 DEF Types
<1>6. Place'
  BY <1>1, <1>2, <1>3, Zenon DEF Place
<1>7. Buffers'
  <2>1. n <= FillPlan.read_len /\ \A k \in 0..(n - 1) : staging[FillBuffer][k] = FillPlan.read_off + k
    <3>1. CASE n = rd.n
      BY <1>3, <3>1, Zenon DEF Buffers
    <3>2. CASE n = -1
      BY <1>3, <3>2 DEF Plan
    <3> QED
      BY <3>1, <3>2, Zenon
  <2>2. Sendable' <=> Sendable
    BY <1>1, <1>2, Zenon DEF Sendable
  <2> QED
    BY <1>1, <1>2, <1>3, <1>4, <2>1, <2>2, Zenon DEF Buffers
<1>8. Sent' /\ OnlyRequestedBytes'
  BY <1>1, <1>3, Zenon DEF Sent, Frontier, OnlyRequestedBytes, Get!Landed
<1> QED
  BY <1>5, <1>6, <1>7, <1>8, Zenon DEF TInv

\* The byte that lands is the requested one, at an untouched place.
LEMMA RdmaByteLands ==
    ASSUME TInv, RdmaByte
    PROVE  /\ remote_off + wr.n \in DOMAIN remote /\ remote[remote_off + wr.n] = Empty
           /\ remote' = [remote EXCEPT ![remote_off + wr.n] = req.offset + (remote_off + wr.n)]
           /\ pc \in {"overlap", "last"} /\ wr.n \in Nat /\ remote_off \in Nat
<1>1. Types /\ Place /\ Buffers /\ Sent
  BY Zenon DEF TInv
<1>2. wr.st = "run" /\ wr.n < cur_c.piece
      /\ remote' = [remote EXCEPT ![remote_off + wr.n] = StagingByte(cur_c.local_off + wr.n)]
  BY Zenon DEF RdmaByte
<1>3. pc \in {"overlap", "last"} /\ wr.n \in Nat /\ remote_off \in Nat /\ cur_c \in Plan /\ remaining \in Nat
  BY <1>1, <1>2 DEF Types, Sent
<1>4. cur_c.piece \in Nat /\ cur_c.local_off \in Nat /\ cur_c.read_off \in Nat
  BY <1>3, Zenon DEF Plan
<1>5. remaining > 0
  BY <1>1, <1>3, <1>4 DEF Place
<1>6. /\ cur_c.piece <= remaining /\ cur_c.read_off + cur_c.local_off = file_off
      /\ req.length \in Nat /\ req.offset \in Nat /\ Chunk \in Nat
      /\ remaining = req.length - remote_off /\ file_off = req.offset + remote_off
  BY <1>1, <1>3, <1>5, Bounds, Zenon DEF Place
<1>7. remote_off + wr.n \in 0..(req.length - 1)
  BY <1>2, <1>3, <1>4, <1>6
<1>8. StagingByte(cur_c.local_off + wr.n) = req.offset + (remote_off + wr.n)
  <2> DEFINE k == cur_c.local_off + wr.n
  <2>1. Sendable
    BY <1>1, <1>3, Zenon DEF Buffers
  <2>2. k \in 0..(cur_c.local_off + cur_c.piece - 1) /\ k < Chunk
    BY <1>2, <1>3, <1>4, <1>6, <2>1 DEF Sendable
  <2>3. staging[cur][k] = cur_c.read_off + k
    BY <2>1, <2>2, Zenon DEF Sendable
  <2>4. StagingByte(k) = cur_c.read_off + k
    BY <2>2, <2>3, Zenon DEF StagingByte
  <2> QED
    BY <1>3, <1>4, <1>6, <2>4
<1>9. DOMAIN remote = 0..(req.length - 1)
  BY <1>1, Zenon DEF Types
<1>10. remote[remote_off + wr.n] = Empty
  <2>1. Frontier = remote_off + wr.n
    BY <1>2, Zenon DEF Frontier
  <2> QED
    BY <1>1, <1>3, <1>7, <1>9, <2>1 DEF Sent
<1> QED
  BY <1>2, <1>3, <1>7, <1>8, <1>9, <1>10, Zenon

LEMMA RdmaByteTInv ==
    ASSUME TInv, RdmaByte
    PROVE  TInv'
<1>1. /\ wr.st = "run" /\ wr.n < cur_c.piece /\ wr' = [wr EXCEPT !.n = @ + 1]
      /\ UNCHANGED <<cfg_, pc, req, file_len, locals, staging, rd, status>>
  BY Zenon DEF RdmaByte
<1>2. UNCHANGED <<remaining, file_off, remote_off, cur, cur_c, next_c, total_written>>
  BY <1>1, Zenon DEF locals
<1>3. Chunk' = Chunk /\ (DirectIO' <=> DirectIO) /\ (\A a, b : plan_chunk(a, b)' = plan_chunk(a, b))
      /\ FillPlan' = FillPlan /\ FillBuffer' = FillBuffer
  BY <1>1, <1>2, Frame, Zenon DEF FillPlan, FillBuffer
<1>4. Types /\ Place /\ Buffers /\ Sent /\ OnlyRequestedBytes /\ req.offset \in Nat /\ req.length \in Nat
  BY Bounds, Zenon DEF TInv
<1> DEFINE i == remote_off + wr.n
<1>5. /\ i \in DOMAIN remote /\ remote[i] = Empty /\ remote' = [remote EXCEPT ![i] = req.offset + i]
      /\ pc \in {"overlap", "last"} /\ wr.n \in Nat /\ remote_off \in Nat /\ i \in Nat
  BY RdmaByteLands
<1>6. wr'.st = "run" /\ wr'.n = wr.n + 1 /\ wr' \in [st : {"idle", "run", "ret"}, n : Int]
  <2>1. wr \in [st : {"idle", "run", "ret"}, n : Int]
    BY <1>4, Zenon DEF Types
  <2> QED
    BY <1>1, <2>1
<1>7. /\ remote' \in [0..(req.length - 1) -> Int \cup {Empty}] /\ DOMAIN remote' = DOMAIN remote
      /\ remote'[i] = req.offset + i
      /\ \A j \in DOMAIN remote : j # i => remote'[j] = remote[j]
  BY <1>4, <1>5 DEF Types
<1>8. Types'
  <2>1. UNCHANGED <<cfg_, pc, req, file_len, staging, rd, status>>
    BY <1>1, Zenon
  <2>2. remote' \in [0..(req'.length - 1) -> Int \cup {Empty}]
    BY <1>7, <2>1, Zenon
  <2>3. wr' \in [st : {"idle", "run", "ret"}, n : Int] /\ (wr'.st # "idle" <=> pc' \in {"overlap", "last"})
    <3>1. wr.st # "idle" /\ wr'.st # "idle"
      BY <1>1, <1>6
    <3>2. pc \in {"overlap", "last"}
      BY <1>5, Zenon
    <3> QED
      BY <1>6, <2>1, <3>1, <3>2, Zenon
  <2>4. staging' \in [{0, 1} -> [0..(Chunk' - 1) -> Int \cup {Stale}]]
    BY <1>3, <1>4, <2>1, Zenon DEF Types
  <2>5. /\ cfg_' \in Configs /\ req' \in Requests
        /\ status' \in {0, 200, 206, 500} /\ (pc' = "done" <=> status' # 0)
        /\ pc' \in {"prefill", "loop", "overlap", "last", "done"}
    BY <1>4, <2>1 DEF Types
  <2>6. /\ file_len' \in Nat /\ remaining' \in Nat /\ file_off' \in Nat /\ remote_off' \in Nat
        /\ total_written' \in Nat /\ cur' \in {0, 1} /\ cur_c' \in Plan /\ next_c' \in Plan
    BY <1>2, <1>4, <2>1, Zenon DEF Types
  <2>7. rd' \in [st : {"idle", "run", "ret"}, n : Int] /\ (rd'.st # "idle" <=> pc' \in {"prefill", "overlap"})
    BY <1>4, <2>1 DEF Types
  <2> QED
    BY <2>2, <2>3, <2>4, <2>5, <2>6, <2>7, Zenon DEF Types
<1>9. Place'
  BY <1>1, <1>2, <1>3, <1>4, Zenon DEF Place
<1>10. Buffers'
  BY <1>1, <1>2, <1>3, <1>4, Zenon DEF Buffers, Sendable
<1>11. OnlyRequestedBytes'
  BY <1>1, <1>4, <1>5, <1>7, Zenon DEF OnlyRequestedBytes
<1>12. Sent'
  <2>1. Frontier = i /\ Frontier' = i + 1
    BY <1>1, <1>2, <1>5, <1>6 DEF Frontier
  <2>2. \A j \in DOMAIN remote' : j >= Frontier' => remote'[j] = Empty
    <3> SUFFICES ASSUME NEW j \in DOMAIN remote, j >= i + 1
                 PROVE  remote'[j] = Empty
      BY <1>7, <2>1, Zenon
    <3>1. j \in Int
      BY <1>4 DEF Types
    <3>2. j >= i /\ j # i
      BY <1>5, <3>1
    <3> QED
      BY <1>4, <1>5, <1>7, <2>1, <3>2, Zenon DEF Sent
  <2>3. Cardinality(Get!Landed') = total_written' + wr'.n
    <3>1. Get!Landed' = Get!Landed \cup {i} /\ i \notin Get!Landed
      <4>1. req.offset + i # Empty
        BY <1>4, <1>5, TransferAssumption
      <4> QED
        BY <1>5, <1>7, <4>1, Zenon DEF Get!Landed
    <3>2. IsFiniteSet(Get!Landed)
      <4>1. IsFiniteSet(0..(req.length - 1))
        BY <1>4, FS_Interval
      <4>2. Get!Landed \subseteq 0..(req.length - 1)
        BY <1>4 DEF Get!Landed, Types
      <4> QED
        BY <4>1, <4>2, FS_Subset, Zenon
    <3>3. Cardinality(Get!Landed') = Cardinality(Get!Landed) + 1
      BY <3>1, <3>2, FS_AddElement, Zenon
    <3>4. Cardinality(Get!Landed) = total_written + wr.n
      BY <1>4, <1>5 DEF Sent
    <3> QED
      BY <1>2, <1>4, <1>5, <1>6, <3>3, <3>4 DEF Types
  <2>4. wr'.n >= -1 /\ wr'.n <= cur_c'.piece /\ wr'.n >= 0
    <3>1. cur_c.piece \in Nat
      BY <1>4, Zenon DEF Types, Plan
    <3> QED
      BY <1>1, <1>2, <1>5, <1>6, <3>1
  <2> QED
    BY <1>6, <2>2, <2>3, <2>4, Zenon DEF Sent
<1> QED
  BY <1>8, <1>9, <1>10, <1>11, <1>12, Zenon DEF TInv

\* handleGetObject returns.
LEMMA RdmaRetTInv ==
    ASSUME TInv, wr.st = "run", NEW n, n = wr.n \/ n = -1, wr' = Returned(n),
           UNCHANGED <<cfg_, pc, req, file_len, locals, staging, rd, remote, status>>
    PROVE  TInv'
<1>1. UNCHANGED <<remaining, file_off, remote_off, cur, cur_c, next_c, total_written>>
  BY Zenon DEF locals
<1>2. Chunk' = Chunk /\ (DirectIO' <=> DirectIO) /\ (\A a, b : plan_chunk(a, b)' = plan_chunk(a, b))
      /\ FillPlan' = FillPlan /\ FillBuffer' = FillBuffer
  BY <1>1, Frame, Zenon DEF FillPlan, FillBuffer
<1>3. Types /\ Place /\ Buffers /\ Sent /\ OnlyRequestedBytes
  BY Zenon DEF TInv
<1>4. wr'.st = "ret" /\ wr'.n = n /\ n \in Int /\ wr' \in [st : {"idle", "run", "ret"}, n : Int]
  BY <1>3 DEF Types, Returned
<1>5. Types'
  BY <1>1, <1>2, <1>3, <1>4 DEF Types
<1>6. Place'
  BY <1>1, <1>2, <1>3, Zenon DEF Place
<1>7. Buffers'
  BY <1>1, <1>2, <1>3, Zenon DEF Buffers, Sendable
<1>8. Sent'
  <2>1. wr.n \in Nat /\ wr.n <= cur_c.piece /\ cur_c.piece \in Nat /\ remote_off \in Nat
    BY <1>3 DEF Sent, Types, Plan
  <2>2. Frontier = remote_off + wr.n /\ Frontier' = remote_off + cur_c.piece
    BY <1>1, <1>4, Zenon DEF Frontier
  <2>3. \A i \in DOMAIN remote : i \in Int
    BY <1>3 DEF Types
  <2>4. pc' # "done" => \A i \in DOMAIN remote' : i >= Frontier' => remote'[i] = Empty
    <3> SUFFICES ASSUME pc # "done", NEW i \in DOMAIN remote, i >= remote_off + cur_c.piece
                 PROVE  remote[i] = Empty
      BY <2>2, Zenon
    <3>1. i >= remote_off + wr.n
      BY <2>1, <2>3
    <3> QED
      BY <1>3, <2>2, <3>1, Zenon DEF Sent
  <2>5. pc' # "done" /\ wr'.n >= 0 => Cardinality(Get!Landed') = total_written' + wr'.n
    BY <1>1, <1>3, <1>4 DEF Sent, Get!Landed
  <2> QED
    BY <1>1, <1>4, <2>1, <2>4, <2>5 DEF Sent
<1>9. OnlyRequestedBytes'
  BY <1>3, Zenon DEF OnlyRequestedBytes
<1> QED
  BY <1>5, <1>6, <1>7, <1>8, <1>9, Zenon DEF TInv

\* The GET is answered, when the RDMA thread does not run.
LEMMA DoneTInv ==
    ASSUME TInv, pc' = "done", status' \in {200, 206, 500},
           rd'.st = "idle", rd' \in [st : {"idle", "run", "ret"}, n : Int],
           wr.st # "run", UNCHANGED <<cfg_, req, file_len, locals, staging, wr, remote>>
    PROVE  TInv'
<1>1. UNCHANGED <<remaining, file_off, remote_off, cur, cur_c, next_c, total_written>>
  BY Zenon DEF locals
<1>2. Types /\ Sent /\ OnlyRequestedBytes /\ Chunk' = Chunk
  BY Frame, Zenon DEF TInv
<1>3. Types'
  BY <1>1, <1>2 DEF Types
<1>4. Place' /\ Buffers' /\ Sent'
  BY <1>1, <1>2 DEF Place, Buffers, Sent
<1>5. OnlyRequestedBytes'
  BY <1>2 DEF OnlyRequestedBytes
<1> QED
  BY <1>3, <1>4, <1>5, Zenon DEF TInv

LEMMA FinishTInv ==
    ASSUME TInv, NEW code \in {200, 206, 500}, wr.st # "run", Finish(code)
    PROVE  TInv'
<1>1. Idle.st = "idle" /\ Idle.n = 0 /\ Idle \in [st : {"idle", "run", "ret"}, n : Int]
  BY DEF Idle
<1> QED
  BY <1>1, DoneTInv, Zenon DEF Finish

\* The buffer just read becomes the one to send.
LEMMA FilledSendable ==
    ASSUME TInv, rd.st = "ret", ReadEnough
    PROVE  /\ FillPlan.local_off + FillPlan.piece <= Chunk
           /\ \A k \in 0..(FillPlan.local_off + FillPlan.piece - 1) : staging[FillBuffer][k] = FillPlan.read_off + k
<1>1. /\ rd.n \in Int /\ rd.n <= FillPlan.read_len
      /\ \A k \in 0..(rd.n - 1) : staging[FillBuffer][k] = FillPlan.read_off + k
  BY Zenon DEF TInv, Types, Buffers
<1>2. FillPlan \in Plan /\ FillPlan.read_len <= Chunk /\ Chunk \in Nat
  BY Bounds, Zenon
<1>3. rd.n >= FillPlan.local_off + FillPlan.piece
  BY Zenon DEF ReadEnough
<1>4. FillPlan.local_off \in Nat /\ FillPlan.piece \in Nat /\ FillPlan.read_len \in Nat
  BY <1>2, Zenon DEF Plan
<1>5. \A k \in 0..(FillPlan.local_off + FillPlan.piece - 1) : k \in 0..(rd.n - 1)
  BY <1>1, <1>3, <1>4
<1> QED
  BY <1>1, <1>2, <1>3, <1>4, <1>5

LEMMA PrefilledTInv ==
    ASSUME TInv, Prefilled
    PROVE  TInv'
<1>1. CASE ~ReadEnough
  <2>1. wr.st # "run" /\ Finish(500)
    BY <1>1 DEF Prefilled, TInv, Types
  <2> QED
    BY <2>1, FinishTInv
<1>2. CASE ReadEnough
  <2>1. /\ pc = "prefill" /\ rd.st = "ret" /\ pc' = "loop" /\ rd' = Idle
        /\ UNCHANGED <<cfg_, req, file_len, locals, staging, wr, remote, status>>
    BY <1>2 DEF Prefilled
  <2>2. UNCHANGED <<remaining, file_off, remote_off, cur, cur_c, next_c, total_written>>
    BY <2>1, Zenon DEF locals
  <2>3. Chunk' = Chunk /\ (DirectIO' <=> DirectIO) /\ (\A a, b : plan_chunk(a, b)' = plan_chunk(a, b))
    BY <2>1, Frame, Zenon
  <2>4. Types /\ Place /\ Buffers /\ Sent /\ OnlyRequestedBytes
    BY Zenon DEF TInv
  <2>5. rd'.st = "idle" /\ rd' \in [st : {"idle", "run", "ret"}, n : Int] /\ wr.st = "idle"
    BY <2>1, <2>4 DEF Idle, Types
  <2>6. Types'
    BY <2>1, <2>2, <2>3, <2>4, <2>5, Zenon DEF Types
  <2>7. Place'
    BY <2>1, <2>2, <2>3, <2>4, Zenon DEF Place
  <2>8. Buffers'
    <3>1. FillPlan = cur_c /\ FillBuffer = 0 /\ cur = 0
      BY <2>1, <2>4, Zenon DEF FillPlan, FillBuffer, Place
    <3>2. Sendable'
      BY <1>2, <2>1, <2>2, <2>3, <3>1, FilledSendable, Zenon DEF Sendable
    <3> QED
      BY <2>1, <2>5, <3>2, Zenon DEF Buffers
  <2>9. Sent' /\ OnlyRequestedBytes'
    BY <2>1, <2>2, <2>4, <2>5, Zenon DEF Sent, Frontier, OnlyRequestedBytes, Get!Landed
  <2> QED
    BY <2>6, <2>7, <2>8, <2>9, Zenon DEF TInv
<1> QED
  BY <1>1, <1>2, Zenon

\* A send starts, alone or with the read of the next piece.
LEMMA StartTInv ==
    ASSUME TInv, pc = "loop", wr' = Running,
           UNCHANGED <<cfg_, req, file_len, remaining, file_off, remote_off, cur, cur_c, total_written,
                       staging, remote, status>>,
           \/ /\ remaining - cur_c.piece > 0 /\ pc' = "overlap" /\ rd' = Running
              /\ next_c' = plan_chunk(file_off + cur_c.piece, remaining - cur_c.piece)
           \/ /\ remaining > 0 /\ remaining - cur_c.piece = 0 /\ pc' = "last" /\ rd' = rd
              /\ next_c' = NoChunk
    PROVE  TInv'
<1>1. Types /\ Place /\ Buffers /\ Sent /\ OnlyRequestedBytes
  BY Zenon DEF TInv
<1>2. Chunk' = Chunk /\ (DirectIO' <=> DirectIO) /\ (\A a, b : plan_chunk(a, b)' = plan_chunk(a, b))
  BY Frame, Zenon
<1>3. /\ remaining \in Nat /\ file_off \in Nat /\ remote_off \in Nat /\ cur_c \in Plan /\ cur_c.piece \in Nat
      /\ wr.st = "idle" /\ rd.st = "idle" /\ wr.n = 0 /\ total_written \in Nat /\ cfg_ \in Configs
  BY <1>1 DEF Types, Plan, Sent
<1>4. remaining > 0
  BY <1>3
<1>5. /\ wr'.st = "run" /\ wr'.n = 0 /\ wr' \in [st : {"idle", "run", "ret"}, n : Int]
      /\ pc' = "overlap" => rd'.st = "run" /\ rd'.n = 0 /\ rd' \in [st : {"idle", "run", "ret"}, n : Int]
  BY DEF Running
<1>6. next_c' \in Plan
  <2>1. CASE pc' = "last"
    BY <2>1 DEF NoChunk, Plan
  <2>2. CASE pc' = "overlap"
    <3>1. file_off + cur_c.piece \in Nat /\ remaining - cur_c.piece \in Nat
      BY <1>3, <2>2
    <3> QED
      BY <1>3, <2>2, <3>1, PlanFacts, Zenon
  <2> QED
    BY <2>1, <2>2, Zenon
<1>7. Types'
  BY <1>1, <1>2, <1>3, <1>5, <1>6 DEF Types
<1>8. Place'
  BY <1>1, <1>2, <1>3, <1>4 DEF Place
<1>9. Buffers'
  <2>1. Sendable'
    BY <1>1, <1>2, <1>4, Zenon DEF Buffers, Sendable
  <2>2. pc' = "overlap" => FillPlan' = next_c'
    BY Zenon DEF FillPlan
  <2>3. pc' = "last" => rd'.st = "idle"
    BY <1>3, Zenon
  <2>4. next_c'.read_len \in Nat
    BY <1>6, Zenon DEF Plan
  <2> QED
    BY <1>5, <2>1, <2>2, <2>3, <2>4 DEF Buffers
<1>10. Sent'
  <2>1. Frontier' = remote_off + 0 /\ Frontier = remote_off + 0
    BY <1>3, <1>5, Zenon DEF Frontier
  <2>2. Cardinality(Get!Landed') = total_written' + wr'.n
    BY <1>1, <1>3, <1>5 DEF Sent, Get!Landed
  <2> QED
    BY <1>1, <1>3, <1>5, <2>1, <2>2 DEF Sent
<1>11. OnlyRequestedBytes'
  BY <1>1, Zenon DEF OnlyRequestedBytes
<1> QED
  BY <1>7, <1>8, <1>9, <1>10, <1>11, Zenon DEF TInv

\* The end of an iteration.
LEMMA AdvanceTInv ==
    ASSUME TInv, Advance, wr.st = "ret", wr.n >= 0,
           (pc = "overlap" /\ rd.st = "ret" /\ ReadEnough) \/ pc = "last"
    PROVE  TInv'
<1>1. Types /\ Place /\ Buffers /\ Sent /\ OnlyRequestedBytes
  BY Zenon DEF TInv
<1>2. /\ total_written' = total_written + wr.n /\ remaining' = remaining - cur_c.piece
      /\ file_off' = file_off + cur_c.piece /\ remote_off' = remote_off + cur_c.piece
      /\ cur' = 1 - cur /\ cur_c' = next_c /\ pc' = "loop" /\ rd' = Idle /\ wr' = Idle
      /\ UNCHANGED <<cfg_, req, file_len, next_c, staging, remote, status>>
  BY Zenon DEF Advance
<1>3. Chunk' = Chunk /\ (DirectIO' <=> DirectIO) /\ (\A a, b : plan_chunk(a, b)' = plan_chunk(a, b))
  BY <1>2, Frame, Zenon
<1>4. /\ remaining \in Nat /\ file_off \in Nat /\ remote_off \in Nat /\ cur_c.piece \in Nat /\ next_c \in Plan
      /\ total_written \in Nat /\ wr.n \in Nat /\ cur \in {0, 1}
  BY <1>1 DEF Types, Plan
<1>5. cur_c.piece <= remaining /\ (pc = "last" => remaining' = 0)
  BY <1>1, <1>2, <1>4 DEF Place
<1>6. Idle.st = "idle" /\ Idle.n = 0 /\ Idle \in [st : {"idle", "run", "ret"}, n : Int]
  BY DEF Idle
<1>7. remaining' \in Nat /\ file_off' \in Nat /\ remote_off' \in Nat /\ total_written' \in Nat /\ cur' \in {0, 1}
  BY <1>2, <1>4, <1>5
<1>8. Types'
  <2>1. status = 0 /\ pc' \in {"prefill", "loop", "overlap", "last", "done"}
    BY <1>1, <1>2, Zenon DEF Types
  <2>2. cfg_' \in Configs /\ req' \in Requests /\ file_len' \in Nat /\ cur_c' \in Plan /\ next_c' \in Plan
    BY <1>1, <1>2, Zenon DEF Types
  <2>3. /\ staging' \in [{0, 1} -> [0..(Chunk' - 1) -> Int \cup {Stale}]]
        /\ remote' \in [0..(req'.length - 1) -> Int \cup {Empty}]
    BY <1>1, <1>2, <1>3, Zenon DEF Types
  <2> QED
    BY <1>2, <1>6, <1>7, <2>1, <2>2, <2>3, Zenon DEF Types
<1>9. Place'
  <2>1. req.offset \in Nat /\ req.length \in Nat
    BY Bounds, Zenon
  <2>2. file_off = req.offset + remote_off /\ remaining = req.length - remote_off
    BY <1>1, Zenon DEF Place
  <2>3. file_off' = req.offset + remote_off' /\ remaining' = req.length - remote_off'
    BY <1>2, <1>4, <2>1, <2>2
  <2>4. remaining' > 0 => (cur_c = plan_chunk(file_off, remaining))'
    <3>1. remaining' > 0 => cur_c' = plan_chunk(file_off + cur_c.piece, remaining - cur_c.piece)
      BY <1>1, <1>2, <1>5 DEF Place
    <3> QED
      BY <1>2, <1>3, <3>1, Zenon DEF plan_chunk
  <2> QED
    BY <1>2, <2>3, <2>4, Zenon DEF Place
<1>10. Buffers'
  <2>1. CASE pc = "last"
    BY <1>2, <1>5, <1>6, <2>1 DEF Buffers
  <2>2. CASE pc = "overlap"
    <3>1. FillPlan = next_c /\ FillBuffer = cur'
      BY <1>2, <2>2, Zenon DEF FillPlan, FillBuffer
    <3>2. Sendable'
      BY <1>2, <1>3, <2>2, <3>1, FilledSendable, Zenon DEF Sendable
    <3> QED
      BY <1>2, <1>6, <3>2, Zenon DEF Buffers
  <2> QED
    BY <2>1, <2>2, Zenon
<1>11. Sent'
  <2>1. Frontier = remote_off + cur_c.piece
    BY Zenon DEF Frontier
  <2>2. Frontier' = remote_off + cur_c.piece
    BY <1>2, <1>4, <1>6 DEF Frontier
  <2>3. Cardinality(Get!Landed') = total_written + wr.n
    BY <1>1, <1>2, Zenon DEF Sent, Get!Landed
  <2>4. total_written' + wr'.n = total_written + wr.n
    BY <1>2, <1>4, <1>6
  <2> QED
    BY <1>1, <1>2, <1>6, <2>1, <2>2, <2>3, <2>4, Zenon DEF Sent
<1>12. OnlyRequestedBytes'
  BY <1>1, <1>2, Zenon DEF OnlyRequestedBytes
<1> QED
  BY <1>8, <1>9, <1>10, <1>11, <1>12, Zenon DEF TInv

LEMMA TruncateTInv ==
    ASSUME TInv, file_len' \in Nat, UNCHANGED <<cfg_, pc, req, locals, staging, rd, wr, remote, status>>
    PROVE  TInv'
<1>1. UNCHANGED <<remaining, file_off, remote_off, cur, cur_c, next_c, total_written>>
  BY Zenon DEF locals
<1>2. Chunk' = Chunk /\ (DirectIO' <=> DirectIO) /\ (\A a, b : plan_chunk(a, b)' = plan_chunk(a, b))
      /\ FillPlan' = FillPlan /\ FillBuffer' = FillBuffer
  BY <1>1, Frame, Zenon DEF FillPlan, FillBuffer
<1>3. Types'
  BY <1>1, <1>2 DEF TInv, Types
<1>4. Place'
  BY <1>1, <1>2, Zenon DEF TInv, Place
<1>5. Buffers'
  BY <1>1, <1>2, Zenon DEF TInv, Buffers, Sendable
<1>6. Sent' /\ OnlyRequestedBytes'
  BY <1>1, Zenon DEF TInv, Sent, Frontier, OnlyRequestedBytes, Get!Landed
<1> QED
  BY <1>3, <1>4, <1>5, <1>6, Zenon DEF TInv

LEMMA NextTInv == TInv /\ [Next]_vars => TInv'
<1> SUFFICES ASSUME TInv, [Next]_vars
             PROVE  TInv'
  BY Zenon
<1>0. file_len \in Nat
  BY Zenon DEF TInv, Types
<1>1. CASE PreadByte
  BY <1>1, PreadByteTInv, Zenon
<1>2. CASE PreadEnd
  BY <1>0, <1>2, PreadRetTInv, Zenon DEF PreadEnd
<1>3. CASE PreadRefused
  BY <1>0, <1>3, PreadRetTInv, Zenon DEF PreadRefused
<1>4. CASE PreadFails
  BY <1>0, <1>4, PreadRetTInv, Zenon DEF PreadFails
<1>5. CASE Prefilled
  BY <1>5, PrefilledTInv, Zenon
<1>6. CASE StartOverlap
  BY <1>6, StartTInv, Zenon DEF StartOverlap
<1>7. CASE StartLast
  BY <1>7, StartTInv, Zenon DEF StartLast
<1>8. CASE Joined
  <2>1. CASE wr.n < 0 \/ ~ReadEnough
    BY <1>8, <2>1, FinishTInv DEF Joined
  <2>2. CASE ~(wr.n < 0 \/ ~ReadEnough)
    <3>1. wr.n \in Int
      BY Zenon DEF TInv, Types
    <3> QED
      BY <1>8, <2>2, <3>1, AdvanceTInv DEF Joined
  <2> QED
    BY <2>1, <2>2, Zenon
<1>9. CASE LastSent
  <2>1. CASE wr.n < 0
    BY <1>9, <2>1, FinishTInv DEF LastSent
  <2>2. CASE ~(wr.n < 0)
    <3>1. wr.n \in Int
      BY Zenon DEF TInv, Types
    <3> QED
      BY <1>9, <2>2, <3>1, AdvanceTInv DEF LastSent
  <2> QED
    BY <2>1, <2>2, Zenon
<1>10. CASE Reply
  <2>1. wr.st # "run"
    BY <1>10 DEF Reply, TInv, Types
  <2>2. Finish(206) \/ Finish(200)
    BY <1>10, Zenon DEF Reply
  <2> QED
    BY <2>1, <2>2, FinishTInv
<1>11. CASE RdmaByte
  BY <1>11, RdmaByteTInv, Zenon
<1>12. CASE RdmaEnd
  BY <1>12, RdmaRetTInv, Zenon DEF RdmaEnd
<1>13. CASE RdmaFails
  BY <1>13, RdmaRetTInv, Zenon DEF RdmaFails
<1>14. CASE ThreadThrows
  <2>1. rd.st = "idle" /\ wr.st = "idle" /\ wr.n = 0
        /\ rd \in [st : {"idle", "run", "ret"}, n : Int] /\ wr \in [st : {"idle", "run", "ret"}, n : Int]
    BY <1>14 DEF ThreadThrows, TInv, Types, Sent
  <2> QED
    BY <1>14, <2>1, DoneTInv, Zenon DEF ThreadThrows
<1>15. CASE Truncate
  BY <1>0, <1>15, TruncateTInv DEF Truncate
<1>16. CASE UNCHANGED vars
  BY <1>0, <1>16, TruncateTInv, Zenon DEF vars
<1> QED
  BY <1>1, <1>2, <1>3, <1>4, <1>5, <1>6, <1>7, <1>8, <1>9, <1>10, <1>11, <1>12, <1>13, <1>14, <1>15, <1>16, Zenon
     DEF Next, Handler, RdmaThread, Fault

\* For every alignment, chunk size, request and choice of faults: whatever lands in the
\* client's buffer is the requested byte of the object, even in a GET that fails.
THEOREM OnlyRequested == Spec => []OnlyRequestedBytes
<1>1. TInv => OnlyRequestedBytes
  BY Zenon DEF TInv
<1> QED
  BY <1>1, InitTInv, NextTInv, PTL DEF Spec

-----------------------------------------------------------------------------
(* Refinement of RangeGet. *)

\* The value of RangeGet's bytes.
Reported == IF status \in {200, 206} THEN total_written ELSE 0

\* The bytes that a success reports are the bytes that landed.
LEMMA ReplyCounts ==
    ASSUME TInv, Reply
    PROVE  total_written = Cardinality(Get!Landed)
<1>1. pc = "loop" /\ wr.st = "idle" /\ wr.n = 0 /\ total_written \in Nat
  BY DEF Reply, TInv, Types, Sent
<1>2. Cardinality(Get!Landed) = total_written + wr.n
  BY <1>1 DEF TInv, Sent
<1> QED
  BY <1>1, <1>2

LEMMA NextRefines == TInv /\ [Next]_vars => [Get!Next]_<<req, remote, status, Reported>>
<1> SUFFICES ASSUME TInv, [Next]_vars
             PROVE  Get!Next \/ UNCHANGED <<req, remote, status, Reported>>
  BY Zenon DEF Reported
<1>1. status \in {0, 200, 206, 500} /\ (pc = "done" <=> status # 0)
      /\ (rd.st # "idle" <=> pc \in {"prefill", "overlap"})
      /\ (wr.st = "run" => pc # "done")
  BY Zenon DEF TInv, Types
<1>2. ASSUME pc # "done", status' = 500, UNCHANGED <<req, remote>>
      PROVE  Get!Next
  <2>1. status = 0
    BY <1>1, <1>2, Zenon
  <2>2. Reported = 0 /\ Reported' = 0
    BY <1>2, <2>1 DEF Reported
  <2> QED
    BY <1>2, <2>1, <2>2 DEF Get!Next, Get!Fail, Reported
<1>3. ASSUME pc # "done", UNCHANGED <<req, remote, status>>
      PROVE  UNCHANGED <<req, remote, status, Reported>>
  BY <1>1, <1>3 DEF Reported
<1>4. CASE PreadByte \/ PreadEnd \/ PreadRefused \/ PreadFails \/ StartOverlap \/ StartLast
           \/ RdmaEnd \/ RdmaFails \/ Truncate
  BY <1>1, <1>3, <1>4, Zenon DEF PreadByte, PreadEnd, PreadRefused, PreadFails, StartOverlap, StartLast, RdmaEnd,
                          RdmaFails, Truncate
<1>5. CASE Prefilled
  BY <1>2, <1>3, <1>5, Zenon DEF Prefilled, Finish
<1>6. CASE Joined
  BY <1>2, <1>3, <1>6, Zenon DEF Joined, Finish, Advance
<1>7. CASE LastSent
  BY <1>2, <1>3, <1>7, Zenon DEF LastSent, Finish, Advance
<1>8. CASE ThreadThrows
  BY <1>2, <1>8, Zenon DEF ThreadThrows
<1>9. CASE Reply
  <2>1. /\ status = 0 /\ status' = (IF req.is_range THEN 206 ELSE 200) /\ UNCHANGED <<req, remote>>
        /\ total_written' = total_written
    BY <1>1, <1>9, Zenon DEF Reply, Finish, locals
  <2>2. Reported' = Cardinality(Get!Landed)
    BY <1>9, <2>1, ReplyCounts, Zenon DEF Reported
  <2>3. Cardinality(Get!Landed) = Get!Cardinality(Get!Landed)
    BY Zenon DEF Cardinality, Get!Cardinality
  <2> QED
    BY <2>1, <2>2, <2>3, Zenon DEF Get!Next, Get!Succeed, Reported
<1>10. CASE RdmaByte
  <2> DEFINE i == remote_off + wr.n
  <2>1. /\ i \in DOMAIN remote /\ remote[i] = Empty /\ remote' = [remote EXCEPT ![i] = req.offset + i]
        /\ pc \in {"overlap", "last"}
    BY <1>10, RdmaByteLands, Zenon
  <2>2. status = 0 /\ UNCHANGED <<req, status>>
    BY <1>1, <1>10, <2>1, Zenon DEF RdmaByte
  <2>3. Reported' = Reported
    BY <2>2 DEF Reported
  <2> HIDE DEF i
  <2>4. Get!Land(i)
    BY <2>1, <2>2, <2>3, Zenon DEF Get!Land, Reported
  <2> QED
    BY <2>1, <2>4, Zenon DEF Get!Next
<1>11. CASE UNCHANGED vars
  BY <1>11, Zenon DEF vars, locals, Reported
<1> QED
  BY <1>4, <1>5, <1>6, <1>7, <1>8, <1>9, <1>10, <1>11, Zenon DEF Next, Handler, RdmaThread, Fault

\* For every alignment, chunk size, request and choice of faults, handle_get keeps the
\* promise of RangeGet: requested bytes land one by one, each once; there is one answer;
\* nothing lands after it; and a success reports the number of bytes that landed.
THEOREM GetRefines == Spec => ImplementsRangeGet
<1>1. Init => Get!Init
  BY Zenon DEF Init, Get!Init
<1>2. TInv /\ [Next]_vars =>
        [Get!Next]_<<req, remote, status, IF status \in {200, 206} THEN total_written ELSE 0>>
  BY NextRefines, Zenon DEF Reported
<1> QED
  BY <1>1, <1>2, InitTInv, NextTInv, PTL DEF Spec, ImplementsRangeGet, Get!Spec

-----------------------------------------------------------------------------
(* Undisturbed GETs. *)

LEMMA SumAligned ==
    ASSUME NEW a \in Nat, NEW b \in Nat, a % Align = 0, b % Align = 0
    PROVE  (a + b) % Align = 0
<1>1. Align \in Nat \ {0}
  BY TransferAssumption, Zenon
<1>2. a = Align * (a \div Align) /\ b = Align * (b \div Align) /\ a \div Align \in Nat /\ b \div Align \in Nat
  BY <1>1, SMT
<1>3. a + b = Align * ((a \div Align) + (b \div Align))
  BY <1>1, <1>2, SMT
<1>4. \A q \in Nat : (Align * q) % Align = 0
  BY <1>1, SMT
<1> QED
  BY <1>2, <1>3, <1>4

\* The next piece starts on a block boundary, too.
LEMMA NextAligned ==
    ASSUME TInv, Healthy, Smooth, DirectIO, pc = "overlap"
    PROVE  (file_off + cur_c.piece) % Align = 0
<1>1. /\ cfg_ \in Configs /\ remaining \in Nat /\ file_off \in Nat /\ cur_c.piece \in Nat
      /\ remaining - cur_c.piece > 0 /\ cur_c = plan_chunk(file_off, remaining)
  <2>1. Types /\ Place
    BY Zenon DEF TInv
  <2>2. /\ cfg_ \in Configs /\ remaining \in Nat /\ file_off \in Nat /\ cur_c.piece \in Nat
        /\ remaining - cur_c.piece > 0
    BY <2>1, Zenon DEF Types, Plan, Place
  <2>3. remaining > 0
    BY <2>2
  <2> QED
    BY <2>1, <2>2, <2>3, Zenon DEF Place
<1>2. cur_c.piece = Chunk
  BY <1>1, PlanFacts
<1>3. file_off % Align = 0 /\ Chunk % Align = 0
  BY <1>1 DEF Healthy, Smooth
<1> QED
  BY <1>1, <1>2, <1>3, SumAligned, Zenon

\* What is read has no padding in front, covers the piece, and is there.
LEMMA FillAligned ==
    ASSUME TInv, Healthy, Smooth, rd.st # "idle"
    PROVE  /\ ~Misaligned /\ FillPlan.local_off = 0 /\ FillPlan.piece <= FillPlan.read_len
           /\ FillPlan.read_off + FillPlan.piece <= req.size
<1>1. Types /\ Place /\ pc \in {"prefill", "overlap"}
  BY Zenon DEF TInv, Types
<1>2. /\ cfg_ \in Configs /\ remaining \in Nat /\ file_off \in Nat /\ remote_off \in Nat /\ cur_c.piece \in Nat
      /\ req.offset \in Nat /\ req.length \in Nat /\ req.size \in Nat /\ req.offset + req.length <= req.size
      /\ file_off = req.offset + remote_off /\ remaining = req.length - remote_off
  BY <1>1, Bounds, Zenon DEF Types, Place, Plan
<1>3. PICK off \in Nat, left \in Nat :
         FillPlan = plan_chunk(off, left) /\ off + left <= req.size /\ (DirectIO => off % Align = 0)
  <2>1. CASE pc = "prefill"
    <3>1. FillPlan = plan_chunk(file_off, remaining)
      BY <1>1, <2>1, Zenon DEF FillPlan, Place
    <3>2. file_off + remaining <= req.size
      BY <1>2
    <3>3. DirectIO => file_off % Align = 0
      BY <2>1, Zenon DEF Healthy
    <3> QED
      BY <1>2, <3>1, <3>2, <3>3, Zenon
  <2>2. CASE pc = "overlap"
    <3>1. FillPlan = plan_chunk(file_off + cur_c.piece, remaining - cur_c.piece) /\ remaining - cur_c.piece > 0
      BY <1>1, <2>2, Zenon DEF FillPlan, Place
    <3>2. /\ file_off + cur_c.piece \in Nat /\ remaining - cur_c.piece \in Nat
          /\ (file_off + cur_c.piece) + (remaining - cur_c.piece) <= req.size
      BY <1>2, <3>1
    <3>3. DirectIO => (file_off + cur_c.piece) % Align = 0
      BY <2>2, NextAligned, Zenon
    <3> QED
      BY <3>1, <3>2, <3>3, Zenon
  <2> QED
    BY <1>1, <2>1, <2>2, Zenon
<1>4. /\ FillPlan.local_off = 0 /\ FillPlan.read_off = off /\ FillPlan.piece <= FillPlan.read_len
      /\ DirectIO => FillPlan.read_len % Align = 0
  BY <1>2, <1>3, PlanAligned DEF Smooth
<1>5. FillPlan.piece <= left /\ FillPlan.piece \in Nat
  BY <1>2, <1>3, PlanFacts DEF Plan
<1>6. FillPlan.read_off + FillPlan.piece <= req.size
  BY <1>2, <1>3, <1>4, <1>5
<1> QED
  BY <1>4, <1>6, Zenon DEF Misaligned

LEMMA InitHealthy == Init => Healthy
<1> SUFFICES ASSUME Init, Smooth
             PROVE  Healthy
  BY Zenon DEF Healthy
<1> QED
  BY Zenon DEF Init, Healthy, Smooth, Running, Idle

\* Steps that end neither a read nor a send nor the GET.
LEMMA QuietHealthy ==
    ASSUME TInv, Healthy, UNCHANGED <<cfg_, req, file_len, faulty, remaining, file_off, remote_off, cur_c, total_written, status>>,
           pc' = "done" <=> pc = "done", pc' = "prefill" => pc = "prefill",
           wr'.st # "ret" \/ UNCHANGED wr, rd'.st # "ret" \/ UNCHANGED <<rd, pc, next_c>>
    PROVE  Healthy'
<1> SUFFICES ASSUME Smooth'
             PROVE  Healthy'
  BY Zenon DEF Healthy
<1>1. Chunk' = Chunk /\ (DirectIO' <=> DirectIO)
  BY Frame, Zenon
<1>2. Smooth
  BY <1>1, Zenon DEF Smooth
<1>3. /\ file_len = req.size
      /\ pc # "done" => total_written = remote_off
      /\ DirectIO /\ pc # "done" /\ (remaining > 0 \/ pc = "prefill") => file_off % Align = 0
      /\ status # 0 => status # 500 /\ total_written = req.length
  BY <1>2, Zenon DEF Healthy
<1>4. /\ file_len' = req'.size
      /\ pc' # "done" => total_written' = remote_off'
      /\ status' # 0 => status' # 500 /\ total_written' = req'.length
  BY <1>3, Zenon
<1>5. DirectIO' /\ pc' # "done" /\ (remaining' > 0 \/ pc' = "prefill") => file_off' % Align = 0
  BY <1>1, <1>3, Zenon
<1>6. wr'.st = "ret" => wr'.n = cur_c'.piece
  BY <1>2, Zenon DEF Healthy
<1>7. rd'.st = "ret" => ReadEnough'
  <2>1. rd.st = "ret" => ReadEnough
    BY <1>2, Zenon DEF Healthy
  <2>2. UNCHANGED <<rd, pc, next_c, cur_c>> => (ReadEnough' <=> ReadEnough)
    BY Zenon DEF ReadEnough, FillPlan
  <2> QED
    BY <2>1, <2>2, Zenon
<1> QED
  BY <1>4, <1>5, <1>6, <1>7, Zenon DEF Healthy

\* When the place in the loop does not change, the ends of the read and of the send are
\* all there is to see to.
LEMMA StaysHealthy ==
    ASSUME Healthy, Smooth, DirectIO' <=> DirectIO,
           UNCHANGED <<pc, req, file_len, remaining, file_off, remote_off, cur_c, total_written, status>>,
           wr' = wr \/ wr'.n = cur_c'.piece,
           rd'.st = "ret" => ReadEnough'
    PROVE  Healthy'
<1>1. /\ file_len = req.size
      /\ pc # "done" => total_written = remote_off
      /\ DirectIO /\ pc # "done" /\ (remaining > 0 \/ pc = "prefill") => file_off % Align = 0
      /\ wr.st = "ret" => wr.n = cur_c.piece
      /\ status # 0 => status # 500 /\ total_written = req.length
  BY Zenon DEF Healthy
<1>2. /\ file_len' = req'.size
      /\ pc' # "done" => total_written' = remote_off'
      /\ status' # 0 => status' # 500 /\ total_written' = req'.length
  BY <1>1, Zenon
<1>3. DirectIO' /\ pc' # "done" /\ (remaining' > 0 \/ pc' = "prefill") => file_off' % Align = 0
  BY <1>1, Zenon
<1>4. wr'.st = "ret" => wr'.n = cur_c'.piece
  BY <1>1, Zenon
<1> QED
  BY <1>2, <1>3, <1>4, Zenon DEF Healthy

LEMMA AdvanceHealthy ==
    ASSUME TInv, Healthy, Advance, wr.st = "ret", pc \in {"overlap", "last"}
    PROVE  Healthy'
<1> SUFFICES ASSUME Smooth'
             PROVE  Healthy'
  BY Zenon DEF Healthy
<1>1. /\ total_written' = total_written + wr.n /\ remaining' = remaining - cur_c.piece
      /\ file_off' = file_off + cur_c.piece /\ remote_off' = remote_off + cur_c.piece
      /\ pc' = "loop" /\ rd' = Idle /\ wr' = Idle
      /\ UNCHANGED <<cfg_, req, file_len, faulty, status>>
  BY Zenon DEF Advance
<1>2. Chunk' = Chunk /\ (DirectIO' <=> DirectIO)
  BY <1>1, Frame, Zenon
<1>3. Smooth
  BY <1>1, <1>2, Zenon DEF Smooth
<1>4. /\ file_len = req.size /\ total_written = remote_off /\ wr.n = cur_c.piece
      /\ status # 0 => status # 500 /\ total_written = req.length
  BY <1>3, Zenon DEF Healthy
<1>5. status = 0
  BY Zenon DEF TInv, Types
<1>6. DirectIO /\ remaining' > 0 => file_off' % Align = 0
  <2>1. pc = "last" => ~(remaining' > 0)
    <3>1. pc = "last" => remaining = cur_c.piece /\ remaining \in Nat
      BY Zenon DEF TInv, Place, Types
    <3> QED
      BY <1>1, <3>1
  <2> QED
    BY <1>1, <1>3, <2>1, NextAligned, Zenon
<1>7. Idle.st = "idle"
  BY Zenon DEF Idle
<1>8. status' = 0 /\ file_len' = req'.size /\ total_written' = remote_off'
  BY <1>1, <1>4, <1>5, Zenon
<1>9. wr'.st # "ret" /\ rd'.st # "ret" /\ pc' # "prefill"
  BY <1>1, <1>7
<1> QED
  BY <1>2, <1>6, <1>8, <1>9, Zenon DEF Healthy

LEMMA NextHealthy == TInv /\ Healthy /\ [Next]_vars => Healthy'
<1> SUFFICES ASSUME TInv, Healthy, [Next]_vars, Smooth'
             PROVE  Healthy'
  BY Zenon DEF Healthy
<1>1. CASE PreadByte
  <2>1. rd'.st = "run"
    BY <1>1, Zenon DEF PreadByte, TInv, Types
  <2> QED
    BY <1>1, <2>1, QuietHealthy, Zenon DEF PreadByte, locals
<1>2. CASE PreadEnd
  <2>1. /\ rd.st = "run" /\ (rd.n = FillPlan.read_len \/ FillPlan.read_off + rd.n >= file_len)
        /\ rd' = Returned(rd.n) /\ UNCHANGED <<cfg_, pc, req, file_len, locals, staging, wr, remote, status, faulty>>
    BY <1>2, Zenon DEF PreadEnd
  <2>2. UNCHANGED <<remaining, file_off, remote_off, cur, cur_c, next_c, total_written>>
    BY <2>1, Zenon DEF locals
  <2>3. Chunk' = Chunk /\ (DirectIO' <=> DirectIO) /\ FillPlan' = FillPlan
    BY <2>1, <2>2, Frame, Zenon DEF FillPlan
  <2>4. Smooth
    BY <2>1, <2>3, Zenon DEF Smooth
  <2>5. /\ FillPlan.local_off = 0 /\ FillPlan.piece <= FillPlan.read_len
        /\ FillPlan.read_off + FillPlan.piece <= req.size /\ file_len = req.size
    BY <2>1, <2>4, FillAligned, Zenon DEF Healthy
  <2>6. /\ FillPlan.piece \in Nat /\ FillPlan.read_len \in Nat /\ FillPlan.read_off \in Nat /\ rd.n \in Int
        /\ req.size \in Nat
    BY Bounds, Zenon DEF Plan, TInv, Types
  <2>7. rd'.n >= FillPlan.local_off + FillPlan.piece
    <3>1. rd'.n = rd.n
      BY <2>1, Zenon DEF Returned
    <3>2. rd.n >= FillPlan.piece
      BY <2>1, <2>5, <2>6
    <3> QED
      BY <2>5, <2>6, <3>1, <3>2
  <2>8. rd'.st = "ret" => ReadEnough'
    BY <2>3, <2>7, Zenon DEF ReadEnough
  <2> QED
    BY <2>1, <2>2, <2>3, <2>4, <2>8, StaysHealthy, Zenon
<1>3. CASE PreadRefused
  <2>1. Smooth
    BY <1>3, Frame, Zenon DEF PreadRefused, Smooth
  <2> QED
    BY <1>3, <2>1, FillAligned, Zenon DEF PreadRefused
<1>4. CASE PreadFails \/ RdmaFails \/ ThreadThrows \/ Truncate
  BY <1>4, Zenon DEF PreadFails, RdmaFails, ThreadThrows, Truncate, Smooth
<1>5. CASE Prefilled
  <2>1. Smooth
    BY <1>5, Frame DEF Prefilled, Finish, Smooth
  <2>2. ReadEnough
    BY <1>5, <2>1, Zenon DEF Healthy, Prefilled
  <2>3. Idle.st = "idle"
    BY Zenon DEF Idle
  <2> QED
    BY <1>5, <2>2, <2>3, QuietHealthy DEF Prefilled, locals
<1>6. CASE StartOverlap \/ StartLast
  <2>1. Running.st = "run"
    BY Zenon DEF Running
  <2>2. pc = "loop" => rd.st = "idle"
    BY Zenon DEF TInv, Types
  <2> QED
    BY <1>6, <2>1, <2>2, QuietHealthy, Zenon DEF StartOverlap, StartLast
<1>7. CASE Joined \/ LastSent
  <2>1. Smooth
    BY <1>7, Frame, Zenon DEF Joined, LastSent, Finish, Advance, Smooth
  <2>2. wr.n = cur_c.piece /\ cur_c.piece \in Nat
    BY <1>7, <2>1 DEF Healthy, Joined, LastSent, TInv, Types, Plan
  <2>3. ~(wr.n < 0)
    BY <2>2
  <2>4. Joined => ReadEnough
    BY <2>1, Zenon DEF Healthy, Joined
  <2> QED
    BY <1>7, <2>3, <2>4, AdvanceHealthy, Zenon DEF Joined, LastSent
<1>8. CASE Reply
  <2>1. /\ pc = "loop" /\ remaining = 0 /\ pc' = "done" /\ status' \in {200, 206} /\ rd' = Idle
        /\ UNCHANGED <<cfg_, req, file_len, locals, staging, wr, remote, faulty>>
    BY <1>8, Zenon DEF Reply, Finish
  <2>2. Smooth
    BY <2>1, Frame, Zenon DEF Smooth
  <2>3. total_written' = total_written /\ total_written = remote_off /\ file_len = req.size
    BY <2>1, <2>2, Zenon DEF Healthy, locals
  <2>4. remote_off = req.length
    <3>1. remaining = req.length - remote_off /\ remote_off \in Nat /\ req.length \in Nat
      <4>1. pc # "done" /\ Place /\ remote_off \in Nat /\ req \in Requests
        BY <2>1 DEF TInv, Types
      <4> QED
        BY <4>1, Bounds, Zenon DEF Place
    <3> QED
      BY <2>1, <3>1
  <2>5. rd'.st = "idle" /\ wr'.st # "ret"
    BY <2>1 DEF Idle, TInv, Types
  <2>6. file_len' = req'.size /\ total_written' = req'.length /\ status' # 500
    BY <2>1, <2>3, <2>4
  <2> QED
    BY <2>1, <2>5, <2>6, Zenon DEF Healthy
<1>9. CASE RdmaByte
  <2>1. wr'.st = "run"
    BY <1>9, Zenon DEF RdmaByte, TInv, Types
  <2> QED
    BY <1>9, <2>1, QuietHealthy, Zenon DEF RdmaByte, locals
<1>10. CASE RdmaEnd
  <2>1. /\ wr.st = "run" /\ wr.n = cur_c.piece /\ wr' = Returned(wr.n)
        /\ UNCHANGED <<cfg_, pc, req, file_len, locals, staging, rd, remote, status, faulty>>
    BY <1>10, Zenon DEF RdmaEnd
  <2>2. UNCHANGED <<remaining, file_off, remote_off, cur, cur_c, next_c, total_written>>
    BY <2>1, Zenon DEF locals
  <2>3. Chunk' = Chunk /\ (DirectIO' <=> DirectIO) /\ FillPlan' = FillPlan
    BY <2>1, <2>2, Frame, Zenon DEF FillPlan
  <2>4. Smooth
    BY <2>1, <2>3, Zenon DEF Smooth
  <2>5. wr'.n = cur_c.piece
    BY <2>1, Zenon DEF Returned
  <2> QED
    <3>1. rd.st = "ret" => ReadEnough
      BY <2>4, Zenon DEF Healthy
    <3>2. rd'.st = "ret" => ReadEnough'
      BY <2>1, <2>3, <3>1, Zenon DEF ReadEnough
    <3>3. wr'.n = cur_c'.piece
      BY <2>2, <2>5, Zenon
    <3> QED
      BY <2>1, <2>2, <2>3, <2>4, <3>2, <3>3, StaysHealthy, Zenon
<1>11. CASE UNCHANGED vars
  <2>1. UNCHANGED <<cfg_, pc, req, file_len, locals, rd, wr, status, faulty>>
    BY <1>11, Zenon DEF vars
  <2> QED
    BY <2>1, QuietHealthy, Zenon DEF locals
<1> QED
  BY <1>1, <1>2, <1>3, <1>4, <1>5, <1>6, <1>7, <1>8, <1>9, <1>10, <1>11, Zenon DEF Next, Handler, RdmaThread, Fault

\* For every chunk size and request: a buffered GET, or one with O_DIRECT that starts on a
\* block boundary with chunks of whole blocks, is answered 200 or 206 with all of its
\* bytes unless a fault happened.
THEOREM AlignedSucceeds == Spec => []AlignedGetSucceeds
<1>1. TInv /\ Healthy => AlignedGetSucceeds
  <2> SUFFICES ASSUME TInv, Healthy, DirectIO => req.offset % Align = 0 /\ Chunk % Align = 0, status # 0, ~faulty
               PROVE  status \in {200, 206} /\ total_written = req.length
    BY Zenon DEF AlignedGetSucceeds, HealthyGetSucceeds
  <2>1. status # 500 /\ total_written = req.length
    BY Zenon DEF Healthy, Smooth
  <2>2. status \in {0, 200, 206, 500}
    BY Zenon DEF TInv, Types
  <2> QED
    BY <2>1, <2>2, Zenon
<1> QED
  BY <1>1, InitTInv, NextTInv, InitHealthy, NextHealthy, PTL DEF Spec

-----------------------------------------------------------------------------
(* The end of a GET.  GetEnds needs fairness; these are the two facts it   *)
(* rests on, for every size: there is always a step to take, and there are *)
(* only so many.                                                           *)

\* What is left of the loop, and what is left to read and to send in this iteration.
Stage ==
    CASE pc = "prefill" -> 2 * remaining + 3
      [] pc = "loop" -> 2 * remaining + 2
      [] pc \in {"overlap", "last"} -> 2 * remaining + 1
      [] pc = "done" -> 0

ToRead == IF rd.st = "run" THEN FillPlan.read_len - rd.n + 1 ELSE 0
ToSend == IF wr.st = "run" THEN cur_c.piece - wr.n + 1 ELSE 0
Work == ToRead + ToSend

\* A step brings the GET nearer to its end, or somebody truncates the file, which can
\* happen file_len times.
Descends ==
    \/ Stage' < Stage
    \/ Stage' = Stage /\ Work' < Work
    \/ Stage' = Stage /\ Work' = Work /\ file_len' < file_len

\* The guards of the steps of pread_full, of handleGetObject and of the handler between
\* them.
PreadReady ==
    rd.st = "run" /\ \/ ~Misaligned /\ rd.n < FillPlan.read_len /\ FillPlan.read_off + rd.n < file_len
                     \/ ~Misaligned /\ (rd.n = FillPlan.read_len \/ FillPlan.read_off + rd.n >= file_len)
                     \/ Misaligned

RdmaReady == wr.st = "run" /\ (wr.n < cur_c.piece \/ wr.n = cur_c.piece)

HandlerReady ==
    \/ pc = "prefill" /\ rd.st = "ret"
    \/ pc = "loop" /\ (remaining - cur_c.piece > 0 \/ (remaining > 0 /\ remaining - cur_c.piece = 0) \/ remaining = 0)
    \/ pc = "overlap" /\ rd.st = "ret" /\ wr.st = "ret"
    \/ pc = "last" /\ wr.st = "ret"

NeverStuck == pc # "done" => PreadReady \/ RdmaReady \/ HandlerReady

\* The measures are natural numbers.
Measured == Stage \in Nat /\ Work \in Nat /\ file_len \in Nat

\* The parts of the measures, as the invariant has them.
LEMMA Parts ==
    ASSUME TInv
    PROVE  /\ remaining \in Nat /\ file_len \in Nat /\ cur_c.piece \in Nat /\ FillPlan.read_len \in Nat
           /\ rd.n \in Int /\ wr.n \in Int
           /\ rd.st = "run" => rd.n >= 0 /\ rd.n <= FillPlan.read_len
           /\ wr.st = "run" => wr.n >= 0 /\ wr.n <= cur_c.piece
<1>1. remaining \in Nat /\ file_len \in Nat /\ cur_c \in Plan
  BY Zenon DEF TInv, Types
<1>2. rd.n \in Int /\ wr.n \in Int
  BY Zenon DEF TInv, Types
<1>3. FillPlan \in Plan
  BY Bounds, Zenon
<1>4. rd.st = "run" => rd.n >= 0 /\ rd.n <= FillPlan.read_len
  BY Zenon DEF TInv, Buffers
<1>5. wr.st = "run" => wr.n >= 0 /\ wr.n <= cur_c.piece
  BY Zenon DEF TInv, Sent
<1>6. cur_c.piece \in Nat /\ FillPlan.read_len \in Nat
  BY <1>1, <1>3, Zenon DEF Plan
<1> QED
  BY <1>1, <1>2, <1>4, <1>5, <1>6, Zenon

LEMMA Measures == ASSUME TInv PROVE Measured
<1>1. pc \in {"prefill", "loop", "overlap", "last", "done"}
  BY Zenon DEF TInv, Types
<1>2. Stage \in Nat
  BY <1>1, Parts DEF Stage
<1>3. Work \in Nat
  BY Parts DEF Work, ToRead, ToSend
<1> QED
  BY <1>2, <1>3, Parts, Zenon DEF Measured

LEMMA SumFalls ==
    ASSUME NEW a \in Int, NEW b \in Int, NEW c \in Int, NEW d \in Int,
           (c < a /\ d = b) \/ (d < b /\ c = a)
    PROVE  c + d < a + b
  OBVIOUS

\* It is enough that one of the two has less to do.
LEMMA WorkFalls ==
    ASSUME ToRead \in Int, ToSend \in Int, ToRead' \in Int, ToSend' \in Int,
           \/ ToRead' < ToRead /\ ToSend' = ToSend
           \/ ToSend' < ToSend /\ ToRead' = ToRead
    PROVE  Work' < Work
<1>1. Work = ToRead + ToSend /\ Work' = ToRead' + ToSend'
  BY Zenon DEF Work
<1>2. ToRead' + ToSend' < ToRead + ToSend
  BY SumFalls, Zenon
<1> QED
  BY <1>1, <1>2, Zenon

\* A step within pread_full or handleGetObject.
LEMMA WorkDescends ==
    ASSUME TInv, UNCHANGED <<pc, remaining, cur_c, next_c>>,
           \/ wr' = wr /\ rd.st = "run" /\ (rd'.st # "run" \/ (rd'.st = "run" /\ rd'.n = rd.n + 1))
           \/ rd' = rd /\ wr.st = "run" /\ (wr'.st # "run" \/ (wr'.st = "run" /\ wr'.n = wr.n + 1))
    PROVE  Descends
<1>1. Stage' = Stage /\ FillPlan' = FillPlan
  BY Zenon DEF Stage, FillPlan
<1>3. ToRead \in Int /\ ToSend \in Int
  BY Parts DEF ToRead, ToSend
<1>4. CASE wr' = wr /\ rd.st = "run" /\ (rd'.st # "run" \/ (rd'.st = "run" /\ rd'.n = rd.n + 1))
  <2>1. ToSend' = ToSend
    BY <1>4, Zenon DEF ToSend
  <2>2. ToRead' \in Int /\ ToRead' < ToRead
    BY <1>1, <1>4, Parts DEF ToRead
  <2>3. Work' < Work
    BY <1>3, <2>1, <2>2, WorkFalls, Zenon
  <2> QED
    BY <1>1, <2>3, Zenon DEF Descends
<1>5. CASE rd' = rd /\ wr.st = "run" /\ (wr'.st # "run" \/ (wr'.st = "run" /\ wr'.n = wr.n + 1))
  <2>1. ToRead' = ToRead
    BY <1>1, <1>5, Zenon DEF ToRead
  <2>2. ToSend' \in Int /\ ToSend' < ToSend
    BY <1>5, Parts DEF ToSend
  <2>3. Work' < Work
    BY <1>3, <2>1, <2>2, WorkFalls, Zenon
  <2> QED
    BY <1>1, <2>3, Zenon DEF Descends
<1> QED
  BY <1>4, <1>5, Zenon

\* The end of the GET, and of an iteration.
LEMMA StageDescends ==
    ASSUME TInv
    PROVE  /\ pc # "done" /\ pc' = "done" => Descends
           /\ pc \in {"overlap", "last"} /\ Advance => Descends
           /\ pc = "prefill" /\ pc' = "loop" /\ UNCHANGED remaining => Descends
           /\ pc = "loop" /\ pc' \in {"overlap", "last"} /\ UNCHANGED remaining => Descends
<1>0. pc \in {"prefill", "loop", "overlap", "last", "done"} /\ remaining \in Nat
  BY Zenon DEF TInv, Types
<1>1. ASSUME pc # "done", pc' = "done"
      PROVE  Stage' < Stage
  <2>1. Stage' = 0
    BY <1>1, Zenon DEF Stage
  <2>2. Stage > 0
    BY <1>0, <1>1 DEF Stage
  <2> QED
    BY <2>1, <2>2, Zenon
<1>2. ASSUME pc \in {"overlap", "last"}, Advance
      PROVE  Stage' < Stage
  <2>1. remaining > 0
    <3>1. Place
      BY Zenon DEF TInv
    <3>2. pc = "overlap" => remaining - cur_c.piece > 0
      BY <3>1, <1>2, Zenon DEF Place
    <3>3. pc = "last" => remaining > 0
      BY <3>1, <1>2, Zenon DEF Place
    <3> QED
      BY <1>0, <1>2, <3>2, <3>3, Parts
  <2>2. cur_c.piece > 0 /\ cur_c.piece \in Nat
    BY <1>2, <2>1, Bounds, Parts, Zenon
  <2>3. pc' = "loop" /\ remaining' = remaining - cur_c.piece
    BY <1>2, Zenon DEF Advance
  <2>4. Stage' = 2 * remaining' + 2
    BY <2>3, Zenon DEF Stage
  <2>5. Stage = 2 * remaining + 1
    BY <1>2, Zenon DEF Stage
  <2> QED
    BY <1>0, <2>2, <2>3, <2>4, <2>5
<1>3. ASSUME pc = "prefill", pc' = "loop", remaining' = remaining
      PROVE  Stage' < Stage
  BY <1>0, <1>3 DEF Stage
<1>4. ASSUME pc = "loop", pc' \in {"overlap", "last"}, remaining' = remaining
      PROVE  Stage' < Stage
  BY <1>0, <1>4 DEF Stage
<1> QED
  BY <1>1, <1>2, <1>3, <1>4, Zenon DEF Descends

LEMMA NextDescends == ASSUME TInv, Next PROVE Descends
<1>0. rd \in [st : {"idle", "run", "ret"}, n : Int] /\ wr \in [st : {"idle", "run", "ret"}, n : Int]
  BY Zenon DEF TInv, Types
<1>1. CASE PreadByte
  <2>1. rd.st = "run" /\ rd'.st = "run" /\ rd'.n = rd.n + 1
    BY <1>0, <1>1, Zenon DEF PreadByte
  <2> QED
    BY <1>1, <2>1, WorkDescends, Zenon DEF PreadByte, locals
<1>2. CASE PreadEnd \/ PreadRefused \/ PreadFails
  <2>1. rd.st = "run" /\ rd'.st # "run"
    BY <1>2 DEF PreadEnd, PreadRefused, PreadFails, Returned
  <2> QED
    BY <1>2, <2>1, WorkDescends, Zenon DEF PreadEnd, PreadRefused, PreadFails, locals
<1>3. CASE RdmaByte
  <2>1. wr.st = "run" /\ wr'.st = "run" /\ wr'.n = wr.n + 1
    BY <1>0, <1>3, Zenon DEF RdmaByte
  <2> QED
    BY <1>3, <2>1, WorkDescends, Zenon DEF RdmaByte, locals
<1>4. CASE RdmaEnd \/ RdmaFails
  <2>1. wr.st = "run" /\ wr'.st # "run"
    BY <1>4 DEF RdmaEnd, RdmaFails, Returned
  <2> QED
    BY <1>4, <2>1, WorkDescends, Zenon DEF RdmaEnd, RdmaFails, locals
<1>5. CASE Prefilled
  BY <1>5, StageDescends, Zenon DEF Prefilled, Finish, locals
<1>6. CASE StartOverlap \/ StartLast \/ ThreadThrows
  BY <1>6, StageDescends, Zenon DEF StartOverlap, StartLast, ThreadThrows
<1>7. CASE Joined \/ LastSent
  BY <1>7, StageDescends, Zenon DEF Joined, LastSent, Finish
<1>8. CASE Reply
  BY <1>8, StageDescends, Zenon DEF Reply, Finish
<1>9. CASE Truncate
  <2>1. UNCHANGED <<pc, remaining, rd, wr, cur_c, next_c>>
    BY <1>9, Zenon DEF Truncate, locals
  <2>2. Stage' = Stage /\ Work' = Work
    BY <2>1, Zenon DEF Stage, Work, ToRead, ToSend, FillPlan
  <2>3. file_len' < file_len
    BY <1>9, Parts DEF Truncate
  <2> QED
    BY <2>2, <2>3, Zenon DEF Descends
<1> QED
  BY <1>1, <1>2, <1>3, <1>4, <1>5, <1>6, <1>7, <1>8, <1>9, Zenon DEF Next, Handler, RdmaThread, Fault

LEMMA AlwaysReady == ASSUME TInv PROVE NeverStuck
<1> SUFFICES ASSUME pc # "done"
             PROVE  PreadReady \/ RdmaReady \/ HandlerReady
  BY Zenon DEF NeverStuck
<1>0. /\ pc \in {"prefill", "loop", "overlap", "last"}
      /\ rd.st \in {"idle", "run", "ret"} /\ (rd.st # "idle" <=> pc \in {"prefill", "overlap"})
      /\ wr.st \in {"idle", "run", "ret"} /\ (wr.st # "idle" <=> pc \in {"overlap", "last"})
  BY DEF TInv, Types
<1>1. rd.st = "run" => PreadReady
  <2>1. rd.st = "run" => rd.n < FillPlan.read_len \/ rd.n = FillPlan.read_len
    BY Parts
  <2>2. FillPlan.read_off + rd.n < file_len \/ FillPlan.read_off + rd.n >= file_len
    <3>1. FillPlan.read_off \in Nat
      BY Bounds, Zenon DEF Plan
    <3> QED
      BY <3>1, Parts
  <2> QED
    BY <2>1, <2>2, Zenon DEF PreadReady
<1>2. wr.st = "run" => RdmaReady
  BY Parts DEF RdmaReady
<1>3. pc = "loop" => HandlerReady
  <2>1. pc = "loop" /\ remaining > 0 => cur_c.piece <= remaining
    BY Bounds, Zenon
  <2> QED
    BY <2>1, Parts DEF HandlerReady
<1>4. rd.st # "run" /\ wr.st # "run" /\ pc # "loop" => HandlerReady
  BY <1>0, Zenon DEF HandlerReady
<1> QED
  BY <1>1, <1>2, <1>3, <1>4, Zenon

\* A GET cannot go on for ever, whatever the sizes and the faults: every step of the handler,
\* of the RDMA thread and of whoever truncates the file descends lexicographically in three
\* natural numbers, what is left of the loop of handle_get, what is left to read and to send
\* in this iteration, and the length of the file.
THEOREM StepsRunOut == Spec => []Measured /\ [][Descends]_vars
<1>1. TInv /\ [Next]_vars => [Descends]_vars
  BY NextDescends, Zenon
<1>2. Spec => []TInv
  BY InitTInv, NextTInv, PTL DEF Spec
<1> QED
  BY <1>1, <1>2, Measures, PTL DEF Spec

\* Nor can it get stuck: until it is answered, pread_full, handleGetObject or the handler,
\* one of which nobody else has to wait for, has a step to take.
THEOREM SomebodyMoves == Spec => []NeverStuck
  BY AlwaysReady, InitTInv, NextTInv, PTL DEF Spec
=============================================================================
