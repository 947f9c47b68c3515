# Verification of s3RDMA-benchmarktool

TLA+ models of the benchmark tool's gateway, client and two probes, checked with
TLC on small instances; all their safety properties are also proved with TLAPS,
for every size. Source paths are relative to the repository's `src/`; `PROJECT.json` maps every
definition to the lines it models.

## The system

An S3-style GET is split in two planes. The client sends an HTTP GET whose
header carries an RDMA descriptor of its registered buffer; the gateway reads
the file, `RDMA_WRITE`s it into that buffer, and answers with the number of
bytes written. Two probes measure what SDK and gateway really do: the rig probe
how GETs behave under retries, concurrency and process exit, the scope probe
which registrations and landing addresses a product supports.

| Part | Source | Modules | State |
| --- | --- | --- | --- |
| RDMA slot pool | `server/s3_server.cpp` 119-175 | `SlotPool`, `SlotPoolProofs` | modelled, proved |
| Ping-pong transfer | `server/s3_server.cpp` 36-81, 250-332 | `Transfer`, `RangeGet`, `TransferProofs` | modelled, proved |
| FD cache | `server/s3_server.cpp` 181-208 | `FdCache`, `Server`, `ServerProofs` | modelled, proved |
| Routing, early returns, shutdown | `server/s3_server.cpp` 214-250, 338-403 | `Server`, `ServerProofs` | modelled, proved |
| Gateway command line | `server/main.cpp` | assumptions, `Stop` | partly |
| Rig probe: callback, diag, rt-guard | `probe/rig_probe_main.cpp`, `common/guard_witness.hpp` | `RigGet`, `RigContext`, `RigProbe`, `RigGetProofs` | modelled, proved |
| Rig probe: concurrent experiment | `probe/rig_probe_main.cpp` 956-1205 | `RigConcurrent`, `RigContext`, `RigConcurrentProofs` | modelled, proved |
| Rig probe: exit experiment | `probe/rig_probe_main.cpp` 1207-1300 | `RigExit`, `RigProbe`, `RigGetProofs` | modelled, proved |
| HTTP exchange, completion authority | `common/raw_http.hpp`, `common/completion_authority.hpp` | `RawHttp`, `RawHttpProofs` | modelled, proved |
| Benchmark client | `client/main.cpp`, `client/s3_client.cpp` | `Benchmark`, `BenchmarkProofs` | partly; its model proved |
| Scope probe | `probe/scope_probe_main.cpp` | `ScopeLayout`, `ScopeProbe`, `ScopeProofs` | modelled, proved |
| Scope outcome mapping | `probe/tools/map_scope_outcome.py` | `ScopeCampaign`, `ScopeProofs` | modelled, proved |
| What is left | | | see "Not modelled" |

How they interact: `Server` composes `SlotPool` and `FdCache` by joint actions.
`Transfer` is what happens between acquire and
release; it is shown to implement `RangeGet`, which `Server` and `Benchmark`
rely on for the outcome of a transfer. `RigGet` relies on the emission class
(sent, partial, nothing) and on the qualified receipt that `RawHttp` provides,
and `RigConcurrent` on the ways in which a GET of `RigGet` can end (`RigContext`, which
`RigGet` is shown to keep to). `RigProbe` is
`main()` of the rig probe: it runs `RigGet` or `RigExit`. `ScopeCampaign` runs
processes of `ScopeProbe`, whose addresses come from `ScopeLayout`, and maps their
verdicts.

## Modules, state and actions

**SlotPool.** `pool_`, `total_slots_` are the members of `S3Server`; a section
under `pool_mu_` is one action. `pool_cv_` is the set of workers at `waiting`;
a notified or spuriously woken worker is at `woken` until it holds the mutex and
tests the predicate again. `create_slot()` runs outside the lock (`creating`)
and may throw at the channel or later at a buffer. `TransferThrows` is an
exception while the slot is held. `allocated` is cuObjServer's view, `lost` a
history variable. The number of workers is `min(max_concurrency, 256)`, as in
`run()`; 256 is `ThreadCap`.

**Transfer / RangeGet.** The handler and the RDMA thread move byte by byte, so
every overlap of `pread` and `RDMA_WRITE` is explored. A byte is its file
offset; staging buffers start with bytes of an earlier GET. `plan_chunk` is
literal; the 4096 is `Align`. Faults: `pread` error, truncation under a cached
size, `std::thread` failure, RDMA error, short RDMA write. `RangeGet` promises:
bytes of the range land one by one and unchanged, nothing lands after the
answer, and a success reports the number of bytes that landed. The answer does
not touch the RDMA thread: that it has ended by then is for `join()` to see to.

**FdCache.** Sections under the shared and the exclusive lock are actions, the
file system changes at any moment.

**Server.** Requests are records of what the handlers tell apart: method,
validity of the path, token (missing, bad, good), range. Methods without a
route are answered by httplib and left out. A spurious wake-up of `pool_cv_` may
happen at any time and is not part of `Serve`, the fair steps of a worker.

**RigGet.** One action per atomic operation of `rig_callback_impl`: the counters
`submitted`, `completed` and the latch `unknown` are loaded and stored
separately, as the code does. The SDK may run callbacks on one or several
threads, before it returns. The server may write the object or other bytes into
the landing, or beside it, as long as a request may be effective; a qualified
receipt says that it is done, not what it wrote, so the landing may then hold the
object, other bytes or still the poison. `exp_single_get` with its gate, `Fixture`'s release
and retain, and the verdicts of `diag` and `rt-guard` follow.

**RawHttp.** Octets are counted, not spelled. `armed` says that a blocking call
runs under the remaining budget; `Deadline` may fire at any moment. The peer
is a record: head length, framing fields, octets sent, ending.

**Benchmark.** The main thread and N workers with `ready`, `go`, `stop`; a
buffer is a function from positions to the object last written there. The client
believes any declared count up to what it asked for, so an answer may declare one
(`claimed`) whatever has landed. `lost` is a GET the client gives up while the
endpoint still writes: it lands later (`LateWrite`) or never. `issued` and `asked`
are history variables: the GETs that a worker has begun and the bytes that they ask
for.

**RigConcurrent.** `exp_concurrent`: setup, the serial pass that takes one
reference digest per slot, and rounds with one thread per slot. A GET is the span
of its callbacks, in readings of a clock that may repeat, and the context it
leaves, one of `Ends` of **RigContext**: the combinations of counters, latch, lost record
and local failure as far as `exp_concurrent` tells them apart. `ContextCovered` of
`RigGet` says that its callbacks leave no other. `flight` holds the slots on whose requests the
gateway may still act. `overlapped` and `witnessed` record whether GETs really
ran at once; the probe only has the readings (`Sweep`).

**RigExit, RigProbe.** Parent and child of the exit experiment are two processes;
time is counted in ticks up to the deadline and the grace time. The child may
crash or hang anywhere and may survive SIGKILL for any time (a process stuck in
the kernel); `kill()` itself may fail, and the parent then waits all the same. `ignored` is an inherited SIGCHLD disposition that leaves nothing to
reap. The child's GET is reduced to whether it is known complete; output may fail
in either process, and a record that throws ends the parent without a result,
because `main()` calls `exp_exit` outside of its try block.

**ScopeLayout.** The address arithmetic of the scope probe as operators on words
of any size: `checked_add`, `checked_mul`, `align_up`, `build_layout`, the size of the
arena and the three kinds of slot. An overflow is a value of its own, as
`std::nullopt` is in the code.

**ScopeProbe.** One process measures one case. The arena is a function from
addresses to bytes: unset, poison, guard, or byte `i` of the object. The product is
open (`Any`): it may refuse registrations, split a GET, write one byte short,
exactly or one too many anywhere in the registration, and write after the client
has given the answer up; or it has known abilities, and then supports a landing
exactly or refuses it. It is assumed to write no more once it has answered, and that
a GET, however many callbacks it takes, writes one run of bytes of the object. The
callback of the probe may also fail by itself (`OwnEnd`, recorded in `fault`), and
`--expect-sha` may be the digest of the object, of the poison or of something else.
Each block of `main()` has its own ways out with their own deregistrations: they are
the disjuncts of `Refused`, `Gate`, `SliceToken`, `ManualBuildFails` and `Finish`.
Text of options, HEAD parsing and the visibility attributes are inputs.

**ScopeCampaign.** A sequence of processes on one product, each of which may die
without a result, and `decide` on the last verdicts.

Operators commented as mutants are deliberate errors. None of them is part of a
specification; each shows that a property notices that error.

## Runs

Expected to pass:

| Run | Instance | Shows |
| --- | --- | --- |
| `slot_pool` | 4 workers, 4 slots, exceptions in `create_slot` and in transfers | one owner per slot, exact accounting with lost slots, nobody waits unless a slot was lost, no lost wakeup |
| `transfer` | files to 9 bytes, every range, every fault; buffered with chunk 2, O_DIRECT with blocks of 2 and chunks of 4 and 3 | only requested bytes land, buffered and block-aligned GETs succeed, implements `RangeGet`, ends |
| `server` | 2 workers, a file that changes, 6 kinds of request, exceptions | slots only for valid GETs, one descriptor per path, HEAD's size binds, nothing left; no descriptor, slot or server used after it was given back; every request answered and shutdown completed unless a slot was lost |
| `rig_get` | 2 callbacks on 2 threads or 3 on one, every fault; a child with a deadline of 2 ticks | no use of landing memory in flight, PASS earned, guard emits once, witness sound, the latch holds for callbacks that do not overlap, the callbacks leave a context of `RigContext`; a PASS of the exit experiment rests on a complete GET and a normal return, no child is left behind; the probe ends |
| `rig_concurrent` | 2 slots, 2 rounds, every fault | no cell poisoned, read or released while any slot may be in flight; PASS and FAIL rest on GETs that really overlapped, FAIL in the failing round and on a slot without a failure of the probe |
| `raw_http` | caps of 2 octets, all small peers | exact emission class, authority exactly for whole answers, the call ends |
| `benchmark` | 1 or 2 workers, 2 objects, whole and range reads, both encodings, GETs that are short, fail, are given up or declare any count | while a measured transfer that was given up may land nobody reuses its buffer and the status can only be 1; the report has every GET that was finished and no more bytes than were asked for; the end |
| `scope` | every size of a 4-bit word; each case on an open product; the runbook's campaign on 7 products | slots fit and are disjoint, PASS is earned, FAIL has a cause, memory is registered as long as it is used and given back on every way out, the mapped outcome is right |

One passing run is a disagreement, too: `NoHandlerWaits` in `slot_pool` says that the
wait of `acquire_slot()` is not reached, and the documentation that it is the
back-pressure of the system (see "What the checks taught").

Expected to be violated, each a disagreement between code and documentation
(`findings` in `PROJECT.json` quotes both sides of all five):

| Run | What the trace shows |
| --- | --- |
| `slot_leak` | an exception while a slot is held (the `std::thread` constructor) loses the slot for ever |
| `transfer_unaligned` | O_DIRECT, range starting inside a block and filling a chunk: `read_len` is cut to `chunk`, the read is short of `local_off`, the answer is 500 |
| `benchmark_range` | with `--range-size` the dump has the object's size and holds bytes that the last GET did not fetch |
| `scope_stop` | b0 and i0 pass, si, r and p fail: the mapping says STOP, which its header reserves for "only B0 works" |

### Bounds

Every bound is a constant of a module or of its MC module. Four
workers give a notifier, a waiter and a thief of the slot, plus one that loses
or builds a slot. Nine bytes give up to five pieces with chunk 2 and three with
chunk 4, so each buffer is refilled after it was sent and the last piece is short,
and every position of a range relative to blocks and chunks occurs.
Two callbacks suffice for every order of two on separate threads, three on one
thread (`MaxOverlapping`) for an invocation after a completed and an unknown one.
Two ticks of deadline and of grace let a child end before, at and after each. Heads,
bodies and declared lengths range from below to above their caps. Two slots give
every order and every tie of two spans; the second round is needed for a failure
without overlap after a round with it. `MaxIters` bounds the
GETs of a worker: with two objects, each is fetched (three GETs wrap the
round-robin in `benchmark_range`). In `scope`, `SIZE_MAX` is 15, `kAlign` 2 and
`kMaxReg` 12: all transfer, guard and arena sizes are tried, so sums of the layout
overflow at some sizes and just do not at others, and each case is accepted
for some sizes. Symmetry is used only in runs without temporal properties.

For the proved properties the bounds do not matter.

Deadlock checking is off where the system stops by design: a destroyed server, a
finished GET, exchange, experiment or benchmark. In the server, waiting for ever is
covered by `EveryRequestAnswered`.

### Fairness

Weak fairness only, and only for running code: worker threads, the handler and
RDMA thread of a transfer, callbacks, the main thread, the parent of the exit
experiment. It assumes that an SDK call (`handleGetObject`, `cuObjGet`) returns, that
`httplib` calls time out, and in `RawHttp` and `RigExit` that time passes; `getaddrinfo`,
the peer and the child process owe nothing. Faults, requests, signals and spurious
wakeups have no fairness, so nothing is shown to end by way of a fault or of a
wake-up that nobody owes.

## Proofs

Eight modules hold theorems. Every invariant and refinement that a passing run checks
is the statement of one of them, and so is the action property `LatchHolds`. Of what
liveness rests on, the part that is safety is proved for four of the parts: that steps
use something up, and that nobody waits for somebody who waits. No theorem
assumes more than the named assumptions of the modules it extends, which TLC evaluates
on the instances, and the conditions named below.

**SlotPoolProofs**, for every number of workers, limit, channel set and choice of
faults, from `PoolAssumption` (positive limit, as `parse_u32` enforces; as many
workers as `run()` creates): `TypeCorrect`, and with `Exclusion`, `Accounting`,
`WaitUnreachable`, `WakeupsSuffice` the invariants of the run `slot_pool`;
`NoSlotLeaks` and `DestructorFreesAll` hold if nothing throws while a slot is held and
`create_slot()` does not throw after the channel was allocated (`slot_leak` shows
that the first condition is needed). The inductive invariant `IInv` joins types,
properties and `Conservation`, which says who owns an allocated channel, and that a
lost slot implies `TransferMayThrow`. The accounting needs exclusion: a released slot
must not be in the pool already. `NoHandlerWaits` needs the accounting: a worker in
`acquire_slot` is not counted, so fewer than `max_concurrency` slots exist outside
the pool (`AtBound`).

**ServerProofs**, for any number of workers, slots, paths, sizes and requests, from
`ServerAssumption` (the assumptions of pool and cache, well-formed requests).
- `HandedOpen` and `AllAgree` are about the FD cache by itself. A handed descriptor
  is open because the cache owns every open one, no entry is ever replaced, and nobody
  holds one when the destructor runs (`FdInv`).
- The steps of the composition are steps or stutters of `SlotPool` and of `FdCache`, by the
  way it is composed (`StepPool`, `FdCacheRefined`). It is what carries the invariants of the
  parts over to the gateway: `OneFdEach` is the cache's, and `NoUseAfterFree` joins the
  exclusion of the pool, the open descriptors of the cache and the order of the shutdown.
- `SlotsWellSpent`, `HeadKept` and `NothingLeftBehind` need `ServerInv`, which says for
  each place of a handler what it has found so far: the descriptor and the size are the
  cache's entry, the range was tested against that size, and a status is only given with
  nothing in hand. `NothingLeftBehind` holds if `create_slot()` does not throw after its
  channel was allocated (the run `server` has the same condition).

**TransferProofs**, for every alignment, chunk size, set of requests and choice of
faults, from `TransferAssumption` (ranges lie in the file): `OnlyRequested`,
`GetRefines` and `AlignedSucceeds`. The invariant `TInv` says where the loop is
(`Place`: offsets and remainder add up, and the plans are those of `plan_chunk` for
them), what the buffers hold (`Buffers`: the one being filled up to the count of
`pread`, the one being sent completely) and what has landed (`Sent`: nothing beyond
the frontier, and as many bytes as counted). With it each step is one of `RangeGet`
or a stutter. `AlignedSucceeds` adds `Healthy`: undisturbed, counts are full, and with
O_DIRECT every piece but the last ends on a block boundary, so `local_off` stays 0.
`StepsRunOut` and `SomebodyMoves` are about the end of a GET: each step descends in
three natural numbers (what is left of the loop, what is left to read and to send, the
length of the file), and until the answer one of `pread_full`, `handleGetObject` and
the handler has a step to take, so neither side of the ping-pong waits for the other.

**RigGetProofs**, for any number of callbacks and threads and every fault, from
`RigAssumption`: `MemorySafe`, `SinglePassEarned`, `GuardHolds`, `WitnessProves`,
`LatchKeeps`; for any deadline and grace time, `ExitPass` and `ChildReaped`. The gate
compares two counters that callbacks change at different moments. `Counters` says what
they are worth: `submitted` is at least the number of requests on the wire or on the
way to it, `completed` at most the number of qualified receipts, which belong to those
requests. If the two are equal, the two sets are (`GateSound`). Neither counter is exact, and the latch `unknown` is
not used: the proof shows that the gate is safe without it. The latch has an
invariant of its own (`Alone`): as long as no callback has met another one, it is set
whenever a request is in flight, and a callback past the check is alone. For the exit
experiment, `ExitInv` ties what the parent concludes from a wait status to what the
child has done, and says on which ways out the child has been reaped.

`ContextsCovered` connects the two models of the rig probe: what callbacks leave when all
of them have returned, in any number and order and after any fault, is one of the contexts
that `RigConcurrent` assumes, and if the counters agree nothing is in flight. Its invariant
`CInv` says: while the counters agree, a set latch has a callback that is about to clear it
(`LatchBacked`); without a lost record `submitted` is exact (`Exact`); without any record,
nobody who left has sent anything (`Unrecorded`); and what a lone callback leaves after a
qualified receipt (`Single`).

**RigConcurrentProofs**, for any number of slots and rounds and every fault, from
`ConcurrentAssumption`: `NoReuse`, `PassIsEarned`, `FailOfOverlap`. The probe cannot
see whether GETs really overlap; it counts begins and ends of spans by readings of a
clock that may be equal. The argument is the other way round: as long as no GET has
entered while another was inside, the spans are disjoint up to their end points
(`Spans`), and then the sweep finds at most one (`SweepFacts`); so two or more mean a
real overlap. `Flight` says that a request without counted completion belongs to a slot
that no gate has passed, and `Counters` what the tallies are worth in each phase.

**RawHttpProofs**, for every length of request, caps and every peer, from
`HttpAssumption`: `EmissionIsExact`, `OnlyWhole`, `GatewayAnswersQualify`. The receipt is
written in stages (`Stages`); at the end, a complete view means that head and body were
read exactly (`ViewMeans`), and nothing but the deadline and a socket option keeps a
good answer from one (`ViewOfGood`). `DeadlineEnds` is about the deadline: once it has
passed, every step of the call uses up some of at most `2 * Addrs + 10`, and one that
waits for neither resolver nor peer is always possible until the call returns.

**BenchmarkProofs**, for any number of workers, objects and GETs, from
`BenchmarkAssumption`: `LateAfterFailure` and `ReportIsFinished`. The invariant `RInv` says
which transfers may be late and whose (`Pending`), what a worker has in flight (`InFlight`),
that its result and what it has asked for differ by just that GET (`Account`), and what the
exit status rests on (`Exits`).

`DumpOfWholeObjects` is what remains true of the sentence that `benchmark_range` refutes:
if a GET that succeeds has brought all it asked for (no outcome `claimed`), the dump has the size of the last
object and starts with what was asked of it, and without `--range-size` it is the object.
The invariant `DInv` follows the content of each buffer from GET to GET (`Contents`). That
`max_size` is a maximum at all needs an induction over the objects, which is made with the
least counterexample (`LeastNatural`, `UpTo`).

`BarrierNeverBlocks`: as long as the benchmark runs, main() or a worker can go on. `ready`
is the number of workers that have counted themselves in (`Barrier`), so main() is not left
waiting for `ready` with nobody to come, and after `stop` all are on their way to the join.

**ScopeProofs**, for every word size, alignment, limit and option, from
`LayoutAssumption`: `LayoutSound` and `AllReleased`. Each checked operation is exact or
`Overflow`, hence every sum of an accepted layout is a sum of naturals. `AllReleased` follows
who is registered through every block of `main()`.

For every size and case and an open product: `PassSound` and `FailSound`. The
invariant `EInv` describes memory: a byte holds what the write that covered it last
brought, or what `Prepare` left (`MemShape`). From intact guards and a right digest it
follows that the write of a GET covers its payload and nothing else.

For every campaign and set of abilities: `OutcomeSound`. The invariant says that a PASS
implies support and a FAIL its absence; `decide` is then a case distinction.

Left to TLC: liveness under fairness (`GetEnds`, `EveryRequestAnswered`,
`ShutdownCompletes`, `ProbeEnds`, `ExchangeEnds`, `BenchmarkEnds`), which is outside of what
the proof system supports (`StepsRunOut`, `SomebodyMoves`, `DeadlineEnds`, `WakeupsSuffice` and
`BarrierNeverBlocks` prove what they rest on, apart from fairness and `ENABLED`: guards are
written out instead); and the four properties of the runs that are expected to be
violated, which do not hold.

## What the checks taught

- `NoHandlerWaits`: the wait in `acquire_slot()` is never reached unless a slot was lost,
  because the thread pool is never larger than `max_concurrency`: requests queue for a
  thread. `doc/internals.md` 126-128 ("real back-pressure comes from the slot pool, not the
  thread count"), 137-138 and the comment at `server/s3_server.cpp` 341 say the opposite;
  a finding.
- After a slot was lost, a worker that waits on `pool_cv_` tests only
  `!pool_.empty()`: when a failing `create_slot` lowers `total_slots_` and
  notifies it, it sleeps on although a new slot could be built.
- A channel allocated by `create_slot()` is not freed when a later buffer of it
  throws; `NothingLeft` is checked without that fault.
- A short RDMA write is answered 200 or 206 with the smaller count. The client
  notices only with verbatim tokens; with the legacy encoding it counts the
  requested size (documented, `client/s3_client.cpp` 35), and no mode treats a
  short GET as a failure.
- A warm-up GET that was given up is ignored: its late write may land in buffer 0
  during the measurement. `LateOnlyAfterFailure` and `DumpIsLastObject` exempt it. With one
  thread, buffer 0 is the only one.
- The totals of the benchmark are sums of what endpoints declare
  (`client/s3_client.cpp` 85-91): `ReportOfFinishedWork` bounds them by what was asked for,
  and nothing in the client bounds them by what landed.
- The gateway always sends the body `OK\n`; with verbatim tokens the completion
  authority asks for an empty body, so this gateway never qualifies there.
- A Content-Length answer with octets behind it is complete or not depending on
  how the octets arrive. Authority is given only when exactly the declared
  octets were read.
- Two overlapping callbacks of the rig probe can undo the latch: the
  compare-and-clear of one (`rig_probe_main.cpp` 466) clears what the other has just
  set. The gate compares the counters too and retains the memory; `MemorySafe` proves
  that this is enough, and `LatchKeeps` that without overlap the latch holds.
- The overlap that `exp_concurrent` witnesses is never more than the real one:
  with equal readings ends are counted first, so a GET of length zero may be
  missed and none is invented. Its references are what the serial pass read: a
  PASS says that the rounds agree with it, not that it was right.
- A FAIL of the exit experiment also covers a child that crashed, aborted or hung
  before it reached the exit path, and one that ended in time but was not polled
  before the deadline. `ExitPassEarned` is about PASS only.
- Both GETs of the scope cases r and p fetch the same bytes: two exchanged landings
  verify like two right ones, and `PassEarned` states the set of landings.
- The scope probe asks the callback capacity of session A at the base only, though
  s0, si and r GET through B or at an interior offset, and the base slot has no guard in
  front. After a GET that was given up, the arena is verified, deregistered and freed
  while the product may still write; `PassSound` shows that no PASS comes of it.
- A FAIL of the scope probe does not always speak of the product: a callback that fails in
  the probe itself returns -1 like a refusal, and a digest of something else fails every
  exact landing. `FailHasCause` names these causes beside the product's.
- Two error branches of the scope probe (a half smaller than a cell, an interior slot
  out of the arena) are unreachable for any accepted layout (`LayoutSound`).
- The usage text allows `--concurrent` for "si/r only", `parse_options` for si only.

## Not modelled

- Sampler and manifest (`common/verify/`): libraries that only their self-tests use,
  a pure function of a counter and a hash and a parser of text. No caller says in
  which states they are used.
- attr and reg experiments of the rig probe: single SDK queries and registrations
  whose answers are printed.
- Loader harness, reply filter, injection proxy, scripts: I/O, text and deployment.
- Base64, SHA-256, SigV4, JSON lines, option parsing beyond the ranges it enforces,
  and the grammar of heads and tokens: pure conversions of text, which the models use
  by their verdicts.
- `S3Client::get`, which `main()` does not call.
- The signal handler before `listen()` (what `httplib`'s `stop()` does there is outside
  the repository), and the retry of an O_DIRECT read from an unaligned offset (the
  kernel decides; `Transfer` lets such a read end at end of file).
- What an SDK does with a deregistration under a running transfer.
