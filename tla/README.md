# polyml-rs: a verification project

polyml-rs runs Poly/ML bytecode images: a Rust runtime with its own heap and
copying collector, a bytecode interpreter, the RTS calls of the SML basis
library, real operating-system threads for SML threads, image readers and
writers, and a Cranelift-based compiler. This directory holds TLA+ models of its
core logic, the TLC configurations that check them on small instances, and TLAPS
proofs.

`PROJECT.json` lists the components, the runs, the mutants, the source lines of
every definition, the hazards and the theorems. Source paths below are relative
to `src/crates/polyml-runtime/src/` unless they say otherwise: `sched.rs`,
`mod.rs` (= `interpreter/mod.rs`), `gc.rs`, `rts.rs`, `loader.rs`, `export.rs`;
`translate.rs`, `memtrans.rs`, `boundary.rs` and `lib.rs` are in
`src/crates/polyml-jit/src/`, `pexport.rs` and `bicimage.rs` in
`src/crates/polyml-image/src/`.

    tlc -workers 2 -config mutex.cfg MCMutexProto      # one run
    tlapm SchedProofs.tla                              # all proofs

## 1. Inventory

| component | state it keeps | operations | interacts with | what must hold |
|---|---|---|---|---|
| **Scheduler and collection barrier** (`sched.rs`; `run_until`, `fork_thread`, `child_thread_main`, `request_gc_collect`, `gc`, `Drop` in `mod.rs`) | `SchedInner`: registry, `running`, `waiters`, `gc_requested`; per thread `in_ml`, `parked_roots`; two condition variables | register, acquire, release, block, yield with hand-off, safepoint park, request a collection (election in parallel mode), exit | everything that touches the heap | nobody is in ML memory beside a collector (giant lock: beside anybody); a thread out of ML memory has published its roots; counts match flags; collections end; queued threads run; nobody resumes with addresses from before a collection |
| **SML mutex protocol** (opcodes `lockMutex`, `tryLockMutex`, `atomicReset`; `PolyThreadMutexBlock`, `PolyThreadMutexUnlock`) | one word per mutex, the event generation `block_gen` | try, count a failed attempt, reset, block, wake | scheduler (a blocked thread leaves ML memory), requests | one owner; no unlock and no kill is slept through |
| **SML condition variables** (`PolyThreadCondVarWait`, `...WaitUntil`, `...Wake`) | the SML wait list, `block_gen` | release and wait, wake one, time out | mutex, requests | neither a signal nor a request is slept through |
| **Requests and process end** (`make_thread_request`, `process_asynch_requests`, `test_synchronous_requests`, `PolyFinish`, `wait_for_children`, `PolyWaitForSignal`) | request word and its ML-visible mirror, interrupt state, `FINISH_REQUESTED`, `is_daemon` | interrupt, kill, poll, test, consume, finish, join | all blocking calls | kills stick; an interrupt is visible to the program; the exit code arrives; the process ends |
| **Parallel collection** (`gc.rs`, `mod par`) | from-space headers (original, busy, tombstone), the arena, the steal list, the busy count, each worker's open chunk | claim, copy, publish, share, seal, steal, split, quiesce | barrier (runs while the world is stopped) | each object is copied once and scanned once; exactly the reachable ones; the arena stays walkable; workers stop when and only when all is done |
| Serial collection, weak references (`gc.rs`) | to-space, worklist of weak objects | forward, Cheney scan, `weak_fixup` | loader's code layout | evacuates what is reachable; one verdict per weak cell |
| Nursery pool and spaces (`sched.rs`, `gc.rs`, `space.rs`) | per-thread nurseries, ping-pong semispaces | refill, promote, swap | allocation in the interpreter | no two threads allocate from one region; the capacity bound suffices |
| Blocking system calls (`rts.rs`) | the park cell, abort probes | park, poll in slices, abort | scheduler, requests | a request ends a park; no address is kept over it |
| Bytecode interpreter (`mod.rs`, `opcodes.rs`, `safe_deref.rs`) | stack, program counter, handler chain | about 300 opcodes | RTS, scheduler, compiler | stack discipline, handlers, tag arithmetic |
| Words and length words (`poly_word.rs`, `length_word.rs`) | none | tag, untag, pack length and flags | everything | the packing is lossless within its width |
| Image formats (`polyml-image/src/`), loader and exporter (`loader.rs`, `export.rs`) | object graph | read, two-pass layout, breadth-first export | heap | writing and reading is the identity on graphs |
| RTS calls (`rts.rs`) | entry-point table, file descriptors, bignums | some 200 calls | operating system | arithmetic agrees with the integers |
| Session and command line (`session.rs`, `polyml-bin/src/main.rs`) | one interpreter, a step budget | run, resume, exit | scheduler, finish flag | a resumed run goes on where it stopped |
| Interrupt flag, environment flags (`interrupt.rs`, `env.rs`) | single atomic words | set, take | poll | |
| Compiler (`polyml-jit/src/`, `jit_bridge.rs`) | compiled regions, their call boundary | translate, enter, leave, deoptimise | interpreter | compiled and interpreted code agree |

What makes this system hard is concentrated in the first five rows. SML threads
are OS threads. In **giant-lock mode** one of them is in ML memory at a time and
gives the lock up at RTS calls that block and at a poll every 65536
instructions; in **parallel mode** (`POLY_PARALLEL=1`) all are in it, and a
collection has to stop them. Every wait is hand-made: condition variables with
several conditions each, an event generation that is sampled before a wait,
kills and interrupts that may land between any two steps. The collector's
workers copy one object graph with nothing but compare-exchange on headers and
one counter to detect the end. Tests can schedule none of this at will.

The other rows are sequential and hard for another reason: the same thing is
said several times and has to agree. A frame is on the value stack, in two side
stacks and in a register, and native code, the interpreter under it and a
collection each update their share. One instruction has three executors (the
interpreter, the per-function translator and the region translator) and four
tables of its length and effect (`opcode_total_len`, the depth scan, the
argument count, the disassembler). A number is a word, a tagged word or a boxed
magnitude. A heap is an image in two formats of files, for words of two sizes.

## 2. Modules and plan

| order | module | models | state |
|---|---|---|---|
| 1 | `StopTheWorld` | abstract: who is in ML memory, who moves objects | done |
| 1 | `Sched` | the scheduler and the barrier; implements `StopTheWorld` | done |
| 1 | `SchedProofs` | the proofs about `Sched` | done |
| 2 | `MutexProto`, `CondVar`, `Requests` | the blocking RTS calls and the end of the process | done |
| 2 | `MutexProofs`, `CondVarProofs`, `RequestsProofs` | the proofs about them | done |
| 3 | `Trace` | abstract: tracing collection | done |
| 3 | `ParDrain` | the parallel drain; implements `Trace` | done |
| 3 | `ParDrainProofs` | the proofs about `ParDrain` | done |
| 4 | `Cheney` | the serial collection with its weak fixup; implements `Trace` | done |
| 4 | `CheneyProofs` | the proofs about `Cheney` | done |
| 5 | `Activations` | abstract: calls, returns and exceptions of compiled SML | done |
| 5 | `Machine` | stack, side stacks, handlers, native regions, moving code; implements `Activations` | done |
| 6 | `Words` | tagging and length words, with widths | done |
| 6 | `Instructions`, `Translate`, `MemTrans`, `Effects` | one instruction, by the interpreter and by the translators | done |
| 6 | `Native` | one program run by all of them, step by step | done |
| 6 | `CodeScan` | which bytecode becomes native code, and where its boundaries and heights are | done |
| 7 | `Numbers` | arbitrary-precision integers and large words | done |
| 7 | `ImageFiles`, `Images` | both file formats; load, run, export, load again | done |
| 8 | `MachineProofs` | the proofs about the side stacks and the addresses of `Machine` | done |
| 9 | `MachineRefinement` | the proof that `Machine` implements `Activations` | done |
| 10 | bound of the arena's slack with a proof; nursery pool and refill; park cell and abort probes | | planned |

The modules of one process are related by what they abstract from each other.
`Sched` treats every blocking RTS call as `ReleaseForBlocking` ... `Reacquire`;
`MutexProto`, `CondVar` and `Requests` model what happens between the two and
reduce the scheduler to one question: may this thread run while that peer is
inside a call? In giant-lock mode it may not (`MayRun`), which is what
`StopsTheWorld` establishes. `Cheney` or `ParDrain` is what the step `Collect`
of `Sched` stands for; that its workers are alone with the heap is
`StopsTheWorld` again.

`Machine` knows instructions only by their effect on control, and a collection
only as "the code has moved and what the collector visits has been adjusted".
`Native` composes `Instructions`, `Translate`, `MemTrans` and `Effects` by
giving all of them the same program; there control is a straight line and the
verdict of its last jump. Branches, and how the translators find their way
through them, are `CodeScan`, which uses the heights of `Effects`. `Images`
extends `ImageFiles`, and both `Words`.

## 3. The models

### Sched

One action is one critical section of `SchedState::inner`. `pc` says where each
thread is; `registry`, `in_ml`, `parked_roots`, `running`, `waiters` and
`gc_requested` are the fields of the same name. A wait on a condition variable
is the loop that the code writes: a thread in the loop is asleep (in
`mutator_wake` or `collector_wake`) or about to test its condition again;
`notify_all` empties the set. `gc_requested_atomic` is stored inside the
critical sections that set `gc_requested`, so the model has one variable for
both.

Roots are modelled by what can go wrong with them: `field_stale` are the threads
whose own fields hold addresses from before a collection, `box_stale` those
whose captured box does. A collection moves everything and repairs exactly what
it reaches through the boxes it snapshotted (`Forwarded`, `Collect`), written
back to the fields where the code writes back. `parked_roots` distinguishes a
live stack, a quiesced run (whose box must not be written back) and the
`ForkRoots` of a child that has not started.

`Parallel` is `Runtime::parallel`; `SpawnMayFail` lets the operating system
refuse a thread; `Resumable` lets a run stop at its step budget and be resumed.

*Abstraction:* the steps of `gc()` outside the lock are `Snapshot`, `Collect`
and `FinishGC`; the 65536-instruction countdown is left out (a runner may
compute for any time before a poll, bounded only by fairness).

*Properties.* `LockAccounting`, `RegistryInvariant`, `NoStaleRoots`;
`StopsTheWorld` is the refinement of `StopTheWorld`; liveness
`CollectionCompletes`, `SleeperResumes`, `QueuedThreadRuns`,
`PureComputeTakesTurns`.

*Fairness.* Weak fairness of each thread in a wait loop and of the collector: an
OS thread that can go on does. Weak fairness of the safepoint park, which the
poll runs into. Strong fairness of the yield: a runner polls every 65536
instructions, but collects in between. Nothing is assumed about the program (it
may compute, block or never exit), nor about which of several waiting threads
gets the lock. So with three contenders nobody is promised a turn by name: the
two properties about turns are stated for when two threads are left (`TwoLeft`).

### MutexProto

One mutex word. The opcodes are single atomic steps (`TryLock`, `LockMutex`,
`AtomicReset`), the RTS calls are cut at every access to shared state: block is
check, sample, re-read, wait; unlock is store, notify. `advanced[t]` says
whether `block_gen` has moved since `t` sampled it, which is all that the waits
compare. `winners` is a history variable. `parallel` is `Runtime::parallel`,
chosen in the initial state, so that one run covers both modes: in giant-lock
mode peers run between opcodes but not inside RTS calls. The library loop around
the opcodes (`basis/Thread.sml`) is external. `MaxWord` bounds the number of
counted attempts; the code tests the word only against 0 and 1, and 4 lets every
other thread fail once and be counted on top of that.

*Fairness:* calls run to their end, woken threads run, critical sections end,
kills are polled for; strong, because in giant-lock mode the thread's turns are
intermittent.

### CondVar

One condition variable. The wait is cut at sample, release of the internal
mutex, announce, request check, sleep; the fence is the code's: the wait is for
the generation to leave `since + 1`, because the waiter's own announcement
counts for one. `bumps[t]` counts events since the sample up to 2, which is all
that the comparison can tell apart. The SML side (wait list under the internal
mutex, looking again after every return) is external; its mutex excludes here,
because the question is whether the *wait* is right; what the code's own mutex
does is `MutexProto`. Interrupts are delivered synchronously, as the library
arranges for the duration of a wait. Only parallel mode is checked: giant-lock
behaviours are a subset of it.

### Requests

`request` is the request word (`fetch_max`: none < interrupt < kill), `copy` its
ML-visible mirror `requestCopy`, `istate` the interrupt state. An instruction
begins with the finish check (`StepFinish`, `StepBegin`), then does one thing.
Between two polls a thread may run any number of instructions with a request
pending. `result` is what the root run returned, `asked` a history variable with
the codes that PolyFinish was called with. A blocking system call (`Kernel`)
need not return. `Doing` says which operations the program uses; `Started` and
`States` say, for each mode, which threads run and which interrupt states they
use: the run takes two threads with all states in parallel mode, where every
pair of steps may interleave, and all three threads in giant-lock mode.

*Fairness:* strong fairness of each thread's own steps (threads get turns), none
of `KernelReturn`. `JoinPoll` is the 50 ms slice of `wait_for_children`.

### Trace, Cheney and ParDrain

`Trace` evacuates an object that a root or an evacuated strong object refers to,
until there is none left. Both collectors implement it.

`Cheney` collects a heap slot by slot: the objects that the root visitor walks
(phase "roots"), the copies in the order they were made (phase "scan"), the
registered weak objects (phase "weak", `weak_fixup`). `mem` are the words of
from-space and of permanent objects, `tombstone` the forwarding addresses in the
headers of from-space, `to` the copies; `heap` remembers the heap before the
collection, by which the properties judge. The branches of `weak_fixup` are one
action each (`FixNone` ... `FixSurvivor`). To-space has the size that the code
gives it when from-space is full (`Capacity`, the words of from-space with their
headers); the assertion in `bump_to` is the phase "overflow". The permanent SOME cell of the instance is outside the areas that
the root visitor walks, which is the case the code's branch for permanent cells
is about; an entry that is no SOME cell is the case the code defines to become
NONE. *Fairness:* the collector runs on.

`ParDrain` is the code of `mod par`: a worker claims an object by
compare-exchange of its header (busy), allocates in its open chunk, seals the
chunk and takes a new one when the object does not fit, gives an oversize object
a chunk of its own, copies, publishes the tombstone, shares the slice of an
oversize copy; scans its own chunk, chunks it set aside, tasks it steals; splits
long slot ranges; and leaves through the busy count. `Claim` merges the load of
the header with the compare-exchange (a failed one loads again); memory is
sequentially consistent (the code uses acquire and release on the headers, and
the slots of a copy are written before its tombstone). Code constants,
`find_body_start`, the weak fixup after the drain and the size of the arena are
left out; words are counted, not addressed byte by byte.

*Fairness:* weak for each worker: each is an OS thread of a scope that is
joined.

### Activations and Machine

`Activations` is what compiled code expects of whatever runs it: a chain of
activations, each with its code, its place in it, its operands and its handlers.
Its actions are relations between one chain and the next (`Computes`, call, tail
call, return, raise, handle, the end of the run).

`Machine` is the interpreter as a machine for control. Its `stack` is the value
stack with everything that lives on it: operands, closures, return addresses,
handler blocks, and the zero that a region's call leaves for a return address.
Data words are all alike; an address is its code object, its place and the collection
after which it was written, so that an address nobody adjusted can be told from
a good one. `seg` are the code bounds, `frames` and `handlers` the side stacks
of the callers' bounds and of the handlers' depths, `handlerSp` the register;
`nest` are the Rust frames between a compiled region and the nested interpreter
run that a call out of the region starts. `base` is a ghost: the activations as
the compiler that made the code knows them. It makes only the code that exists
(a call pushes the right number of arguments, a return drops them), and the
refinement compares the machine with it.

Actions: pushing and popping, calls, tail calls and returns (interpreted and of
regions, with the region registry consulted on the way), PUSH_HANDLER,
SET_HANDLER, DELETE_HANDLER, RAISE_EX with the unwinding that a region
passes on to its caller, RTS calls, arithmetic overflow, the three hard errors,
one collection that moves every code object outside the image, the finish flag,
and the return or the failure of a nested run. `Nested` lets a collection, a
finish or the exhaustion of the heap happen in a nested run too.

*Properties.* `SideStacksShadow`: the side stacks, the bounds and the handler
register always say what the value stack says. `ImplementsActivations`: every
step is one of `Activations` or nothing. `NoStaleCode`: whatever will be resumed
at or run in has moved with its code. They are checked with `Nested = {}`;
section 6 says why. The first is proved for every `Nested`, the second for
the `Nested` of the run, the last for every `Nested` without collections
(section 5).

*Bounds:* two codes, one of them a region in the image; 10 stack words (three
activations with a handler and a nested run), one collection, three data words
at a time that are no closure.

### Words, Instructions, Translate, MemTrans, Effects, Native

`Instructions` is what the interpreter does for the opcodes that compute, in 70
families that differ in more than the encoding of their operand. `Translate` is
the code that `translate.rs` emits for the same families, over a compile-time
vector of values; `MemTrans` the code that `memtrans.rs` emits, over the stack
in memory, with its loads and stores in the order they are emitted; `Effects`
are the tables of the depth scan and of the argument count. Words have 8 bits
and bytes 4 (`Bits`, `ByteBits`), and arithmetic wraps, overflows and shifts in
that width; pointers are numbers apart.

`Native` runs one program on all of them. A program is a sequence of up to two
instructions (`MaxSteps`), which is what a translated instruction can be wrong
about: its own effect, and what it left for the next one. The compiler is
external: it does not read below its frame, does not use a number as a pointer,
and reads a container only after it has made one. `RegionAgrees` says that
memory, heap, verdict and exceptions are the interpreter's; `TranslatedAgrees`
the same of the translator's vector, up to what it does not promise (section 6);
`ScansFollowTheStack` that the depth scan and the argument count know the real
height. *Not varied:* more than three objects on entry, blocks of more than two
words.

### CodeScan

A compiler lays out bytes one instruction at a time, knowing the height of its
stack at each of them and at the targets of its forward jumps (`Compile`,
`CompileDead`, `Seal`). Then the analyses of the translator run on the bytes as
the code does them: `Infer`, the worklist walk that counts arguments, with its
budget; `Scan`, the depths at branch targets; `Emit`, the linear pass, which
merges what falls through with what jumps. The walk of the disassembler, the
filters of `install_all_jit_entries`, `compute_block_offsets` and the region
eligibility are operators on the finished bytes, with each table's own idea of
an instruction's length.

`InstalledKeepsHeights`: code that is installed was emitted with the heights the
compiler knows. `CompiledCodeTranslates`: what the filters let through and the
argument count understands is not refused for a height later.
`RegionFollowsTheInterpreter`: the walk of the region translator visits the
instructions that the interpreter would fetch, and its blocks start where jumps
land.

*Bounds:* all functions of up to 8 bytes of 17 opcodes, immediate 1, one
argument; enough for a jump over an instruction and back, a case table, and a
jump into the code after a return.

### Numbers

Two registers hold operands; each step replaces one by the result of an RTS
operation (`PolyAddArbitrary` and its like, shifts, gcd and lcm, logical
operations, conversion to and from large words), or compares them. Beside each
word stands the integer that the program means. Representation: tagged while it
fits, otherwise a sign flag and a magnitude in digits of one word, no digit too
many. The fast paths that the opcodes take before they call the RTS are part of
each operation. `RepresentsExactly`: the word always denotes the integer, in its
only representation. `ComparesNumbers`: orders are those of the integers.
`num_bigint` and `num_integer` are external. *Bounds:* 8-bit words, nine seeds
at both ends of the tagged range and around zero, four operations, numbers below
8192 (two digits and the carry into a third), shifts by up to 8.

### ImageFiles and Images

`ImageFiles` are both formats as writers and readers: the text of `pexport.rs`
character by token (what a number, a list or a name looks like is what the
reader can confuse), the numbers of `bicimage.rs` with their varint and zigzag
coding. Radices are small (`Decimal` = 10, `Hex` = 4, `Group` = 4, for 10, 16
and 128), so that numbers have several digits.

`Images` is the life of a file: an image of another compiler is written in one
format (`Write`), may be cut off anywhere, is read (`Parse`), loaded on one of
four hosts (`Load`: word size 4 or 8, mismatch allowed or not), its entry points
are patched (`Start`), the program may store once into a mutable object
(`Store`), and exports what its root reaches (`poly_export`), up to twice
(`MaxExports`). A heap is a memory of words with length words; code objects have
the constants behind the code, found through their trailer, as the exporter
finds them.

`FilesReadBack`: a file that is read is the image that was written; a cut one is
not accepted, with the exception that section 6 names. `ImagesDenoteHeaps`: the
loaded heap is the image, object for object, number for number (boxed when it
does not fit), and the export is the heap.

## 4. Runs

| run | instance | shows |
|---|---|---|
| `sched_parallel` | 3 threads, parallel | counts, registry, `NoStaleRoots`, refinement; every collection ends, every sleeper resumes |
| `sched_giant` | 3 threads, giant lock, refused threads, resumed runs | queued threads run, both compute threads take turns |
| `mutex` | 3 threads, both modes, kills | one winner per reset; a contended sleeper wakes; giant lock: a kill reaches a sleeper |
| `condvar` | 3 threads, parallel, interrupts and kills | no signal and no request is slept through |
| `requests` | both modes: 2 threads in parallel, 3 under the giant lock | a kill sticks; giant lock: the mirror shows an interrupt, the exit code arrives; a finish ends the process |
| `collection` | 14400 heaps of 6 objects in from-space and 4 permanent ones | faithful copies, exactly the reachable and the kept SOME cells, verdict on every weak entry, to-space suffices, refinement of `Trace`, ends |
| `drain` | 3 workers, 7 objects | copies are made once and whole before anybody sees them, slots are scanned once, arena tiled, refinement of `Trace`, ends |
| `machine` | 2 codes, one a native region; 10 stack words; one collection | side stacks and bounds, no address is left behind by a collection, refinement of `Activations` |
| `native` | 116 stacks of words and objects; programs of up to 2 of 88 instructions | both translators and their scans agree with the interpreter |
| `scan` | all compiled functions of up to 8 bytes | heights and boundaries of native code are the interpreter's |
| `numbers` | 9 seeds, 4 operations, 8-bit words | integers and large words are exact and compare as such |
| `images` | 112 images, both formats, 4 hosts, cut files, 2 exports | reading inverts writing, loading and exporting keep the graph |

*Why the bounds suffice.* In `Sched` three threads are a collector, one that
loses the election or waits, and one that is being forked, exits or is refused;
the safety properties are proved for every number of threads. In `MutexProto` a
third thread is the one that slips in between an unlock and its second half. In
`CondVar` three threads are a waiter, a signaller and another waiter or
requester whose events are counted by the first. `requests` needs maker, target
and, where turns matter, a second maker. It uses the states deferred,
synchronous and once; "asynchronous" delivers as "once" does without the change
to synchronous. The heap of `drain` has a shared child, a cycle, two objects
above the oversize limit that are also above the split limit, a weak object with
garbage behind it, and chunk sizes that make chunks fill exactly, seal with a
tail and double. The heaps of `collection` vary what each weak slot names
(nothing, a SOME cell in from-space, a permanent one, no cell), which ref each
cell names, what keeps refs, cells and the weak object itself alive, and close
cycles; two slots and two weak objects suffice to share a cell in both orders.
The bounds of the other runs are with their modules in section 3.

*Deadlock* is checked in `sched_parallel`, `sched_giant`, `requests` and
`drain`. In `collection` the collector stops when it is done (`CollectionEnds`
says that it gets there); a run of `machine`, `native`, `scan`, `numbers` or
`images` ends when its program, its bytes or its bound does. In `mutex` a thread
killed inside its critical section leaves the mutex locked, as in the code, and
its peers wait for ever. In `condvar` waiters that nobody signals wait for ever.

## 5. Proofs

Every theorem holds for all values of the constants that its module's `ASSUME`
allows; the invariant named after it is the inductive one, of which TLC checked
that it holds in the run's instance before it was proved.

| module | theorem | states |
|---|---|---|
| `SchedProofs` | `TypeCorrect`, `CountsAreExact`, `RegistryIsPublished` | `[]TypeOK`, `[]LockAccounting`, `[]RegistryInvariant` |
| | `StopsTheWorldAlways` | `StopsTheWorld`, the refinement |
| | `RootsStayFresh` | `~Resumable => (Spec => []NoStaleRoots)` |
| `MutexProofs` | `TypeCorrect`, `OneWinnerAlways`, `KillReachesSleeperAlways` | `[]TypeOK`, `[]OneWinnerPerReset`, `[]KillReachesSleeper` |
| `CondVarProofs` | `TypeCorrect`, `NoLostSignalAlways`, `RequestReachesWaiterAlways` | `[]TypeOK`, `[]NoLostSignal`, `[]RequestReachesWaiter` |
| `RequestsProofs` | `TypeCorrect`, `MirrorShowsRequestAlways`, `KillSticksAlways`, `ExitCodeReachesMainAlways` | `[]TypeOK`, `[]MirrorShowsRequest`, and the action properties `KillSticks` and `ExitCodeReachesMain` |
| `ParDrainProofs` | `Invariance`, `TypeCorrect` | `[]DrainInv`, `[]TypeOK` |
| | `CopiesAreWholeAlways`, `SlotsScannedOnceAlways`, `ArenaTilesAlways` | `[]CopiesAreWhole`, `[]SlotsScannedOnce`, `[]ArenaTiles` |
| | `WorkIsKept` | `[]WorkKept`: a slot that is not scanned is in some place |
| | `DrainTraces`, `EvacuatesAlways` | `ImplementsTrace` of `ParDrain`, and from it `[]Traced!EvacuatesTheReachable`: what is copied is in every closed set of objects, and at the end it is one |
| `CheneyProofs` | `CollectionTypes`, `OneCopyAlways` | `[]TypeOK`, `[]OneCopyEach` |
| | `CopiesAreFaithfulAlways`, `ToSpaceSufficesAlways` | `[]CopiesAreFaithful`, `[]ToSpaceSuffices` |
| | `CollectionTraces`, `EvacuatesAlways` | `ImplementsTrace` of `Cheney`, and from it `[]Traced!EvacuatesTheReachable` |
| | `WeakVerdictsAlways` | `[]WeakVerdicts` |
| `MachineProofs` | `Invariance` | `[]MachineInv` |
| | `SideStacksAlways` | `[]SideStacksShadow` |
| | `NoStaleCodeAlways` | `"collect" \notin Nested => (Spec => []NoStaleCode)` |
| `MachineRefinement` | `MachineImplementsActivations` | `Nested = {} => (Spec => ImplementsActivations)` |

**Assumptions.** Those of the scheduler, the mutex, the condition variable and
the requests give the constants their types and say that there are finitely many
threads; `MaxWord >= 2`, since the code tells 0, 1 and the rest apart.
`ParDrainAssumption` says that the heap is finite, that the visitor hands each
root over once, and that the first chunk and an oversize object are not larger
than a full chunk, as the constants in `mod par` are. `CheneyAssumption` types
the heaps. `WeakAssumption` is what `weak_fixup` relies on: the slots of a weak
object are of type `'a ref option`, so that a SOME cell is no weak object and
holds a ref that is no SOME cell; and the root visitor walks a permanent object
once. Its condition on objects of one word excludes heaps where a ref is
mistaken for a cell, which the type of the slots does as well.
`MachineConstants` gives the constants of the interpreter their types, has
regions in the image, as `region_registry` does, and an entry among the places;
`NothingSaved` says that `None` is none of the records that `region_interp_call`
saves, and `PacketsAreNoErrors` that exception packets and the interpreter's own
errors are different things, as they are different types in the code. Nothing is
assumed of the stack's length, of `Nested` or of how often a collection moves
the code.

**The scheduler.** None of the properties is inductive: which of
the counted threads a step moves is visible only in `pc`. `SchedInv` adds that a
thread's place determines its flags (`FlagsFollowPlaces`), that one thread at
most is in `request_gc` and that `gc_requested` says so (`OneCollector`), that
nobody else is in the heap once the barrier is passed (`WorldStopped`), and the
giant lock (`GiantLock`). The step theorem is split by conjunct, each with one
case per action: `ShapeStep`, `FlagsStep`, `CountStep` (which needs the
cardinality lemmas for adding to and removing from a finite set),
`ExclusionStep`. The refinement follows from `SchedInv` because the abstract
state is a function of the places. Freshness is a second invariant, `RootsInv`,
on top of it: which kind of box a parked thread relies on, that the box is good,
and that a collector in motion holds all the boxes; `RootsStep` is its step
theorem.

**The blocking calls.** `MutexInv`: there is a winner exactly while the word is
not 0, and only one; in giant-lock mode the calls exclude each other, so that no
kill can land between the check of the requests and the wait. `CondVarInv`
counts events by place: a thread about to sleep has counted its own
announcement, and one that was signalled has counted the signal on top of it,
which is why the fence `since + 1` is right. It needs that a signal can only
find a waiter that has already given the mutex back (`HoldersHold`,
`WaitersWait`). `RequestsInv`: turns exclude each other in giant-lock mode, so
that the finish flag that an instruction found unset stays unset, and a request
that is being consumed is not made again before its mirror is cleared; the
finish flag holds a code that was asked for until the main thread's run ends.
`KillSticks` and `ExitCodeReachesMain` are proved of single steps from it.

**The parallel drain.** `DrainInv` has ten parts. What one worker has in hand
(`HandsOK`, `RangesOK`, `ClaimsOK`); that copies, fillers, open chunks and
claims occupy stretches of the arena that do not meet (`PiecesApart`); what a
chunk that others can see may contain (`CopiesOK`, `UnsharedOK`); that the busy
count is right and that nothing is left when it is zero (`QuietOK`). That every
slot is in exactly one place is a second invariant. It is proved from a lemma
about moves, `Moves(K, D)`: a step touches only the holders K, their work passes
between them or is done, and D is found. Each action is shown to be such a move,
and what moves say is proved once. The tiling is a third (`TilesOK`): each place
where a piece of the arena ends is one where a piece begins. That the arena is
then covered up to its end needs an induction; it is stated about a set of
naturals with a least element (`Least`, from the well-foundedness of `<` on
`Nat`), a form that the provers can instantiate.

**The serial collection.** Four invariants, each on top of the one before.
`CopyInv` is the types and `OneCopyEach`, inductive as it stands. `WordsInv`
compares every word with the heap before the collection: forwarded behind the
cursor, untouched ahead of it; and it counts the words of to-space by the set of
words that the copied objects had (`Footprint`), which bounds them by those of
from-space without a sum. `ListInv` says that the trace has reached only what is
in every closed set, and that the list of weak objects has each that was met,
once, with its slots as they were. `JudgeInv` is about the fixup in the middle:
slots behind the cursor have the verdict that the heap before the collection
asks for, slots ahead of it hold what they held, and a SOME cell, wherever it is
by then (in from-space, copied by the fixup, copied by the trace, permanent),
still tells whether its ref lives. The last part (`Cells`) is what makes shared
cells right in any order, and what the property needs and does not say. Steps
are grouped by what they share: they store into one slot (`StoreTypes`,
`StoreWords`), perhaps after they appended a copy (`CopyOutStep`).

**The interpreter.** `SideStacksShadow` compares the side stacks with the
handler blocks that the chains from the registers reach. It is not inductive: a
return, a raise or the end of a nested run puts back what was true of the stack
before the activations above it were made. `MachineInv` says of every
activation, block and Rust frame what each was when the next one was begun.
Activations lie one above the other, and the outermost returns to zero
(`BaseOK`); the bounds on `frames` are those of the interpreted callers, and a
return address is in the bounds that its return restores (`SegsOK`); what a
Rust frame saved is the depth and the code of the activation that called out of
the region, and above a root there is only native code (`NestOK`). The blocks are
known by a sequence of heights and owners, of which the invariant says that it
exists (`BlocksOK`, with one entry of `handler_frames_depth` for each); the
chain of each run is its part of that sequence, from the register, or the
register that was saved, down to where the run began (`ChainsOK`,
`RegisterOK`). A step makes the sequence longer, cuts it or leaves it alone.
Only the stack overflow of `region_interp_call` itself leaves the register
hidden, and then the raise is of an error that no handler catches.

One lemma for each part says what remains of it when the words up to a height
and some of the activations stay (`BaseStep`, `SegsStep`, `NestStep`,
`BlocksStep`); every call, return, raise and end of a run is an instance, and a
collection is one where all addresses move together (`AfterCollect`). That the
recursion which follows a chain has a solution at all (`ChainDef`), and that the
chains together are the blocks (`BlocksKnown`), is proved by least
counterexample, as for the tiling.

`NoStaleCode` follows from a second invariant, `FreshInv`: the words of the
stack, `pc`, the bounds on `frames` and what each Rust frame saved are of the
last collection. It need not speak of `seg` and of `handlers`, which `MachineInv`
ties to them. The saved words are no roots of a collection, so they stay current
only if none happens in a nested run; that is the theorem's hypothesis, and the
code violates the property without it (section 6).

**The refinement of `Activations`.** The mapping computes an activation from the
machine's own state: its code and place from the side stacks, its operands by
counting the words between its base and the next one's arguments, its handlers
from the blocks among them. `MachineInv` and `FreshInv` determine all of it but
what a raise needs: which activations were entered by a Rust frame and which by
a return address. A third invariant, `CallInv`, adds that: a native root was
entered by a hook's frame, the callee of a region by the frame of
`region_interp_call`, any other by a call that left a return address, which is
not zero (`EntriesOK`); an error in flight is none that only the outermost run
can raise (`FlightOK`); and the finish flag is set in the outermost run only
(`HaltOK`). With the three, the mapping is a closed expression (`Seen`): the
chain is one `Act(i)` for each activation, or only codes when a hard error ends
the run (`Doomed`).

The proof has one lemma for each group of actions, each with the same
conclusion, that `CallInv` holds next and that the step is one of `A!Next`.
What they share: an activation below the change is seen as it was, because
its words, its bounds and the frame it waits for stay (`Stays`); a call or a
return changes the last activation and the one under it, by as many operands as
the arguments or the result (`EntersStep`, `ReturnStep`); an unwinding cuts the
chain where a handler block is, and no activation above it had a block that
would have been found first (`LeavesLast`, `UncaughtStep`, `ExceptionStep`). A
collection changes addresses but not what is seen of them, since a place is
seen as stale exactly when it was not adjusted, and `FreshInv` says that none
is. The hypothesis is that of the run: a collection, a finish or an exhausted
heap in a nested run are the cases of section 6 where the code does something
else.

**Only model-checked.** All liveness, since fairness and ENABLED are outside
the prover. The invariants of `Native`, `CodeScan`, `Numbers` and `Images`: they
say what recursive definitions compute (a parser, a walk over bytes, the digits
of a number), and that needs induction over the data.

## 6. What the properties leave out, and why

Behaviours met while modelling. For those in the first list a comment says
otherwise; each can be reproduced by the change named.

* *A refused thread while a peer wants to collect.* The parent cleans up the
  child's registration with `exit_parked` (`mod.rs:2854`), which waits for the
  collection to end, while the parent still counts as a running mutator;
  `sched.rs:733` says "this keeps liveness if it is waiting on us".
  `sched_parallel` with `SpawnMayFail = TRUE` ends in a deadlock.
* *The RTS half of a contended unlock resets the word a second time*
  (`mod.rs:2361`) and erases a lock taken since, in giant-lock mode too, since
  the opcode and the call are two turns; `mod.rs:3091` warns of "two threads
  inside one critical section", and `src/docs/parallel-recon-maps.json:324` that
  "The reset must be deleted". `mutex` with INVARIANT `MutualExclusion`.
* *MutexBlock sleeps on any nonzero word* (`mod.rs:2333`). When the mutex
  changed hands since the failed attempt, the new owner's unlock does not know
  of the sleeper; `mod.rs:2328` says "Either way the wait cannot sleep through
  it." `mutex` with INVARIANT `NoSleepThroughUnlock`.
* *PolyFinish while the main thread waits for its children*, one of which is
  blocked in the kernel, does not end the process (`mod.rs:4704`; the comment at
  `mod.rs:4697` says why it must). `requests` with PROPERTY `FinishExits`.
* *A collection in a nested run.* A region's call saves the caller's `pc` as a
  raw pointer (`mod.rs:4026`) and restores it; the comment above says "exactly
  as it was", and so it is when the code has moved. `machine` with `Nested =
  {"collect"}` and INVARIANT `NoStaleCode`.
* *A finish in a nested run* comes back from the region as a result and the
  caller runs on (`mod.rs:4108`), where `mod.rs:5456` speaks of halting instead
  of executing junk. `machine` with `Nested = {"halt"}` and PROPERTY
  `FinishHalts`.
* *The disassembler takes PUSH_HANDLER and CALL_FAST_RTSn for two bytes*
  (`interpreter/disasm.rs:360` and `:378`), so that its walk may go out of step
  and pass over a blocker, where `lib.rs:186` says that its filters "can never
  let a real blocker slip through". `scan` with INVARIANT `BlockersAreSeen`,
  `Emitted <- RtsCalls`, `Numbers = {4}` and `MaxBytes = 7`.

Threads and collection:

* A budget-exhausted run that is resumed captures its roots before it has the
  scheduler lock (`mod.rs:4868`); a peer's collection in between makes the
  capture stale. The code's comment rules peers out, the Session API does not.
  So `NoStaleRoots` is checked and proved for `Resumable = FALSE`; with TRUE it
  is violated.
* In parallel mode `MutexBlock` checks the requests (`mod.rs:2312`) before it
  samples the generation: a kill in between is slept through. So
  `KillReachesSleeper` says "in giant-lock mode".
* In parallel mode the consumer of an interrupt clears `requestCopy` after it
  consumed the request (`mod.rs:2201`) and may erase the mirror of the next one.
  So `MirrorShowsRequest` says "in giant-lock mode".
* `PolyWaitForSignal` (`mod.rs:2646`) sleeps before it first looks at its
  requests: a kill pending by then waits for the next event. The end of the
  process does not depend on it, the signal thread being a daemon.
* A thread that calls PolyFinish with a kill pending may be killed before it
  broadcasts; the flag stays, so the process ends, but a daemon may not be told.
* In parallel mode the main thread may return from the root function while a
  peer calls PolyFinish, and then either result is right; so the exit code is
  checked in giant-lock mode.
* Under an adversarial scheduler the yielder can wait for ever in the hand-off
  loop while two peers block and resume in alternation (`PureComputeTakesTurns`
  assumes they compute).
* PolyFinish stores the code plus one and 0 means "not called": code -1 is lost
  (`rts.rs:2094`). The model's codes are positive.

Native code. What `TranslatedAgrees` does not compare, because the per-function
translator does it differently from the interpreter:

* refs are made without the mutable bit (`translate.rs:1819`); division is not
  checked and `FIXED_*` does not raise Overflow (`translate.rs:436`); RAISE_EX
  returns a tagged zero (`translate.rs:1554`); the sign of `jit_neq_sign`
  (`translate.rs:1261`, against `mod.rs:6416`);
* a failed call out of a closure returns a tagged zero, and a call into the RTS
  ignores a raised exception and a request to collect.

Of regions: pushes do not test for the end of the stack (the entry tests for the
whole function), and `Nested = {"exhaust"}` shows a heap that is exhausted in a
nested run arriving as a catchable Overflow, through the branch that is meant to
be unreachable (`mod.rs:4177`). PolyFullGC that comes back with a thread request
pending does not collect (`mod.rs:8756`). The buffers of per-function native
code are no roots of a collection, and their path through `do_call`
(`mod.rs:9290`) is not in `Machine`. The argument count does not look at the
depth that SET_STACK_VAL writes at. ENTER_INT exists only in the translator and
the disassembler. The branches of the untrusted mode are left out.

Images:

* the exporter's header promises breadth-first order and that weak references
  become their own body; the pending list is a stack, and that body is never
  made. The order of objects is no property, and the model follows the code;
* entry points are exported as plain bytes that keep the token of the exporting
  process, and the next load does not patch them (the model exports them so);
* an export always has word size 8, so that a 32-bit host cannot load its own
  without allowing a mismatch;
* a text cut inside its last number is accepted with another number
  (`pexport.rs:648`); `FilesReadBack` asks only for the cuts that end elsewhere
  to be refused;
* a write error when the buffer of `PolyExport` is dropped is not reported; a
  closure whose first word is a number is exported with a reference to object 0;
  relocations and the byte for the architecture are not modelled.

## 7. Not modelled, and why

*Planned:* the nursery pool with its refill, the park cell with its abort probes
(section 2). *No state worth a model:* argument handling, the environment flags,
the interrupt flag, disassembler listings. *Of the RTS* most calls are thin
wrappers over the operating system, and reals are the machine's. *Of the
compiler* instruction selection and register allocation are Cranelift's, of
whose IR the models say what it means. Block operations are modelled for two
words. The Rust and C memory models are not modelled: a step reads and writes
what the code does at once, and weaker orderings are argued for in comments
only.
