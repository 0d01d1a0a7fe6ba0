# Verification of the Big Bumpin' host runtime

The repository recompiles a guest program (PowerPC, Xbox 360) to native code and
supplies, in `src/host/`, what the guest expects around it: a kernel, a GPU that
consumes command packets, a disc, a window. The guest's threads are host threads and
run in parallel with the threads of the host, so the hard part of this code is not
what one call computes but what several threads do to the same state. This directory
holds TLA+ models of that part, TLC configurations that check them on small
instances, and TLAPS proofs of the main invariants for all instances.

## 1. Inventory

### Threads

| Thread | Started | Runs |
|---|---|---|
| main | the process | the AppKit loop (`--window`) or a bounded wait (headless); `drawInMTKView` |
| guest main | `std::async`, `main.cpp:247` | `_xstart`, recompiled code, kernel calls; handle 0 |
| guest workers | `ExCreateThread` | recompiled code, kernel calls; a handle of their own |
| pump | `main.cpp:219` | samples the write pointer, scans the ring, runs the guest's interrupt callback; handle 0 |
| tick | `main.cpp:188` | stores the milliseconds in guest memory |
| watchdog | `main.cpp`, `--window` | 10 s bound on the guest, then asks for shutdown |

### Components

**Kernel dispatcher** (`kernel_impl.cpp`). State: `g_handleTable` (type, signaled,
auto-reset), `g_nextHandle`, `g_apcQueues`, one mutex `g_stateMutex` and one condition
variable `g_handleSignalCv`. Operations: create mutant, event, thread; set event;
release mutant; close; queue an APC; wait on one handle (alertable, with a time-out);
a thread's end. Hard: every notify is made after the unlock or not at all; the wait
drops its lock to deliver an APC; the predicate inserts into the table; handles are
closed under waiters. Correct when: no wake-up is lost; one signal lets one wait
through; a signal is not swallowed; APCs run once, in order; joiners wake.

**Guest memory** (`kernel_impl.cpp`). State: `g_bumpAllocatorNext`, 32 bits.
Operations: `NtAllocateVirtualMemory`, `MmAllocatePhysicalMemoryEx`, `ExCreateThread`
(stack and TLS block), `VdGetSystemCommandBuffer`. Correct when regions are disjoint.

**GPU ring and pump** (`gpu_trace.cpp`, `main.cpp`). State: ring memory, `CP_RB_WPTR`,
read pointer writeback, `lastParsedOffset_`, `lastWptrDwords_`. The guest's driver
writes without a lock, the pump scans every millisecond. Correct when every packet
announced is executed once, whole and in order, and the driver is never starved of
space (Finding 57 in `main.cpp:201` is the deadlock the pump was made for).

**Frame draw list** (`gpu_draw_list.*`, `renderer_metal.mm`). Three lists moved between
the pump (adds a draw), the guest (`VdSwap` swaps) and the render thread (takes).
Correct when draws keep their order and the last frame is shown.

**Locks** (`g_stateMutex`, the tracer's recursive `mutex_`, guest critical sections).
Who holds which while taking which; correct when there is no cycle.

**Shader cache and pipeline** (`shader_translate.*`, `gpu_trace.cpp`,
`renderer_metal.mm`). Two (hash, result) pairs under two mutexes, written by the pump
and read by the render thread in four critical sections; the pipeline compiled from
them and the pair of hashes it was compiled for. Correct when the pipeline shown
becomes that of the current pair. It is not always (section 6).

**File calls** (`kernel_impl.cpp`, `xdvdfs.cpp`). `g_fileState` (entry, position) beside
the handle table; a read completes to an event, an APC, a status block. Correct when
each byte is delivered once to sequential reads and completion follows the data.

**Command processor** (`gpu_trace.cpp`, `gpu_state.cpp`). State: the register file, the
vertex stage of the shader cache, words of guest memory. Operations: the packets, scanned
through indirect buffers within buffers. Correct when a packet takes effect where it
stands in the stream, a draw is made of the state set before it, and its counts stay
inside the buffers it carries.

**Fence waits** (`game_overrides.cpp`). Three overrides of guest functions around the fence
block the GPU writes: two bounded waits and one that writes the fence itself. Correct when a
wait ends, and data is not rewritten under a draw that still needs it.

**Shader decoder and translator** (`shader_decode.cpp`, `shader_translate.cpp`). Two walks
over microcode of which nothing marks where its control flow ends. Correct when no walk
reads behind the microcode and a translation succeeds for all of a program or not at all.

**Notification listeners** (`kernel_impl.cpp`). `g_notifyListeners` and the flag
`g_notifiedStartup`. Correct when the start-up notifications reach one listener, once, in
order.

**Process lifecycle** (`main.cpp`, `renderer_metal.mm`). Flags and a future between main,
watchdog, event loop and guest; any thread of the guest may end the process itself (`KeBugCheck`,
`HalReturnToFirmware`). Correct when the process ends and its exit code tells what it can.

**Disc image** (`xdvdfs.cpp`). A search tree on the disc, looked up by path; one stream
under all files. Correct when a path finds what it names and every look-up ends.

**TLS, generated stubs, recompiled guest, tools**: not modelled, see section 8.

### Interactions

* A guest thread calls the kernel; the kernel's calls exclude each other by
  `g_stateMutex` and wake each other by `g_handleSignalCv`.
* `VdInitializeRingBuffer`, `VdGetSystemCommandBuffer`, `VdSetGraphicsInterruptCallback`
  and `VdSwap` call the tracer, which has a lock of its own.
* The pump reads guest memory, and on `PM4_INTERRUPT` calls guest code, which calls the
  kernel, all with the tracer locked.
* Pump -> draw list and shader cache -> render thread, each under its own mutex.
* `NtReadFile` queues APCs and signals events of the dispatcher.
* `IM_LOAD_IMMEDIATE` has the pump decode and translate a shader before it goes to the cache.
* The pump executes `EVENT_WRITE_SHD`, which is what the guest's fence waits wait for; the
  guest then rewrites what it believes drawn.
* Guest threads are detached and call the kernel while main and watchdog end the process.

## 2. Modules

| Module | Models | Kind |
|---|---|---|
| `Dispatcher` | the dispatcher | component, one action per critical section |
| `MCDispatcher`, `DispatcherProofs` | | instance; proofs |
| `FrameDrawList` | the draw list and its three users | component |
| `CommandProcessor` | packets to registers, memory and draws | component, feeds `FrameDrawList` |
| `FenceWait` (+ `MC`, `Proofs`) | the overrides and the guest's device | composes guest, `CommandProcessor`, `FrameDrawList` |
| `BumpAllocator` (+ `MC`, `Proofs`) | the allocator and its four users | component |
| `CommandStream` | what a GPU promises its driver | abstract specification |
| `GpuRing` (+ `MC`, `Proofs`) | ring, doorbell, scan, wrap, writeback | composes driver and pump, implements `CommandStream` |
| `LockOrder` (+ `MC`, `Proofs`) | the nesting of locks | composes kernel, tracer and critical section |
| `ShaderTranslate` | decoder and translator, the two walks over a program | algorithm, one step per instruction |
| `ShaderPipeline` | shader cache and pipeline | component, pump and render thread |
| `ShaderLoading` (+ `MC`, `Proofs`) | a shader's way from microcode to screen | composes the two above |
| `Notify` | notification listeners | component |
| `Lifecycle` | how the process ends | component: main, watchdog, event loop, user, guest |
| `GuestProcess` (+ `MC`, `Proofs`) | guest calls while the process ends | composes `Lifecycle` and `Notify` |
| `FileIo` | open, read, seek, close over the one stream | component, with the stream of `xdvdfs.cpp` |
| `Xdvdfs` | path look-up on the disc, checked against what the path denotes | algorithm, one step per turn of its loops |
| `DiscFiles` (+ `MC`), `FileIoProofs` | the disc's two sides | composes the two above |

### How state and actions correspond to the code

**Dispatcher.** An action is one critical section of `g_stateMutex`; a `notify_all` made
after the unlock is a step of its own (`pc = "notify"`, or `"exit"` in a thread that
ends). The condition variable lives in the program counters: `"blocked"` is inside
`wait`, `"woken"` is out of it and has not taken the mutex yet, `"deliver"` is the gap
in which `NtWaitForSingleObjectEx` has dropped the lock to deliver an APC.
`Lookup` is `operator[]`: a missing entry is inserted, as an unsignaled mutant, which is
what a default-constructed `HandleObject` is. APCs are the numbers they were queued
under. `credit`, `silent` and `lastRun` are history variables: signals given minus waits
let through, handles signaled with no notify since, the last APC run. `SpuriousWake` is
there because `condition_variable` has them. Threads without a handle have an empty
APC queue here; in the code they share the queue of handle 0.

**FrameDrawList.** Draws are numbered in the order they are parsed. The three lists are
the three members; a list shown is replaced as in `drawInMTKView`.

**BumpAllocator.** Addresses and sizes in units of 4 KiB, arithmetic modulo `Space`: the
code's 32-bit wrap. `regions` is the history of what was handed out, `wrapped` tells
whether the counter has wrapped. Every call's rounding is translated, the gap too.

**GpuRing.** A dword is a zero, a filler, the header of a packet or payload; what a
packet means is abstracted to its number. The scan of one tick is a loop over steps,
one per packet, because the driver writes meanwhile. The driver is guest code: what is
assumed of it stands at the head of the module.

**LockOrder.** A call is the list of its lock operations with the reads and writes
between them. `Interrupt` puts the body of a guest call in front of the rest of the
scan, with the tracer still locked. `BufferFirst` says whether the guest asks for the
system command buffer before it registers its callback.

**CommandProcessor.** The stream is the packets of the ring in order, which is what `GpuRing`
shows of the scan. A dword is a number and is decoded by arithmetic, as in the code; of the
registers only `Watched` are kept, among them the last of the file and the one behind it.
`nested` is the stack of `ScanBuffer` calls. `executed` is the history of packets executed,
`InLine` the reference for it (the stream with every buffer put in its place), `ValueAt` the
reference for a register (the last write before a packet). Vertices are copied in one step,
though the guest may write while the pump copies: only a guest that has not waited does so, and
it is told apart by the versions of the data (`content`) before and after. As in the code every
draw uses fetch slot 0, and the stride is that of the vertex shader when the packet is scanned.
`vertexShader` is the cached hash and `Translation` what `TranslateShader` makes of each;
`Vblanks` are values of the vblank counter, which an `EVENT_WRITE_SHD` with bit 31 stores
whatever it is by then. `CountsInsideBuffers` is about counts, and about the index values that
pick the corners of a rectangle list; the other index values the code hands on without a look,
and the model does not keep them.

**FenceWait.** What the guest's device does is not in the repository; what is assumed of it
stands at the head of the module, after the comments of `game_overrides.cpp`.
A guest announces the packets of one menu (`Menus`, `FenceMenus`), to keep the instance small.
`trusting` is history: a wait has returned by its time-out or by a fence the override wrote
ahead of the GPU. `ReuseIsSafe` says that these two are the only ways in which data can be
rewritten under a draw: they are the price the overrides pay, and no other is paid.

**ShaderTranslate.** A slot of three dwords has three readings, as a pair of control-flow
instructions, as a fetch and as an ALU instruction, and each reading is the record of the
fields the code looks at. `reader` tells which walk is under way. `SucceedsExactly` compares
the outcome with what the pattern in the comments asks, `FollowsListing` the order in which
both walks meet the slots. The text of listing and source is not modelled.

**ShaderPipeline.** A program stands for its microcode and its hash; a result is the
program it is the translation of. Each of the four reads of `TryUpdateRealPipeline` is a
step (`step`), since each takes a lock of its own; the pump's comparison and update is one
step, since only the pump writes the cache. A stage may go back to a program it had, at any time.
`loaded`, `version`, `readAt` and `compiledAt` are history: a version counts the changes of a
stage, so that two loads of one program are told apart where the code, which compares
hashes, cannot. `ShaderLoading` sets it beside
`ShaderTranslate`: the two share no step, so a behaviour follows one of them.

**Notify and GuestProcess.** A call is one critical section. The first listener whose
mask has bit 0 is given the start-up notifications. `Notify` has nobody waiting on a listener's
handle. `GuestProcess` lets the guest call at any time, also after `_xstart` has returned,
until the process is gone.

**Lifecycle.** `main`, `watchdog` and `guest` are program counters; `dispatched` and `stopping`
are AppKit's queue and its stop flag. Between the flag of `Renderer_RequestShutdown` and its
`dispatch_async` anything may happen. `KeBugCheck` and `HalReturnToFirmware` are the guest's own
ends of the process, from whatever thread: a worker goes on when `_xstart` has returned, and so
may they. Which of them it was is history (`halted`), since the exit code 3 stands both for a
bug check and for a window that the user closed.

**Xdvdfs.** A table is a sequence of slots, each an entry or padding; the tree is the one
that inserting the entries in the order they lie gives, by raw names. A name is a number
whose order is that of the raw bytes, `Folded` its lower-case form. `phase` tells which
loop runs. `Denotes` is the reference: what a path names, from the tables alone.

**FileIo.** A thread's `call` tells how far its call has come: holding the stream's mutex
with the directory table asked for (`"table"`), path found (`"open"`), between the seek
and the end of the copy (`"copy"`, under both mutexes), then the status block, the APC and
the event, each a step. A byte is its place on the image; `log` records each read and
seek, in the order they took effect. The stream's seek does nothing once it has failed, as in
the standard library; `NtClose` leaves `g_fileState` alone, as the code does. On a handle
without an entry the calls return an error and change nothing. `DiscFiles` sets the two beside each
other: `SearchDirectory` copies the table under the stream's lock and then searches the copy, so
that a look-up meets the calls in that one step (`ReadTable`) only.

## 3. Runs

| Run | Question | Bounds |
|---|---|---|
| `dispatcher_objects` | are wake-ups lost between unlock and notify; does an ended thread stay signaled; does one signal let two waits through, with time-outs racing | 2 threads without a handle and one with, 2 handles |
| `dispatcher_apc` | is the APC that woke a wait there, in order, is no signal swallowed; do joiners and alertable waiters get out | the same threads, 2 handles, 2 APCs, no nesting beyond one, no symmetry |
| `dispatcher_lost_release` | violation: a released mutant leaves its waiter asleep | 2 threads, 2 mutants |
| `bump_allocator` | disjoint regions, the system buffer isolated | 6 regions, 512 units, wrap included |
| `gpu_ring` | refinement of `CommandStream`, unread packets intact, space comes | ring of 6, 6 packets of 1 to 3 dwords |
| `lock_order` | no wait cycle, one system buffer | 3 guests and the pump |
| `lock_order_abba` | violation: state lock and tracer lock in both orders | 3 guests and the pump |
| `command_processor` | draws in order, newest kept and shown; packets in line, draws of their state, their counts inside what they carry; data reused safely; waits end | 3 packets in the ring, 3 draws, 1 rewrite, expectation up to 6, buffers of 100 bytes, depth 3, four menus |
| `shader_loading` | reads inside, success exactly when recognized, the walks agree; a torn pipeline is remembered for a program its stage has left, a pair that stays is shown | all programs of up to 4 slots of 10 kinds with 0 to 2 dwords to spare; 4 programs, one that does not translate, one pair refused, 4 loads, those of a program the stage had before among them |
| `shader_loading_reload` | violation: another pair's pipeline kept as "already compiled this exact pair" | the same programs, 4 loads |
| `guest_process` | exit code, the end, start-up notifications in order | all orders, a halt by the guest at any time included; the frame count saturates at 1; 2 listeners |
| `disc_files` | the look-up finds what the path names (but behind padding in another case), and ends; own bytes, tiling, told when done | all discs with a root of up to 3 slots and one subdirectory of 2, 5 names, 3 without case; 2 threads, 2 handles, 3 reads and seeks, file of 3 units |

Why the bounds are enough: three threads give a waiter, a signaller and a second waiter
or a closer, and every hazard of section 1 needs at most these; two handles give a
thread object and one other, or two others; a ring of six with packets of one to three dwords wraps
up to three times and leaves tails of zero, one and two dwords, skipped with either
kind of filling; three packets in the main ring are a setting, a draw and what comes after
it, or a draw, its fence and the draw of the new data, and a packet may be a buffer of
more; buffers that lead back to themselves nest one level deeper than the code follows;
four slots are the shortest program with two fetches, an export and two blocks; six
regions of up to 64 units in a space of 512 reach the wrap, and the sizes include zero, one
that is no multiple of the granularity, and one larger than the limit.

Deadlock is not checked where a run may stop for good: guests that stop calling, or
counters at their bounds. `lock_order` checks it: the pump never stops.

## 4. Fairness

* Dispatcher: a host thread that is not blocked runs (`WF` of `KernelStep`), a relative
  time-out expires (`WF` of `TimeUp`). No call of the guest and no spurious wake-up is
  assumed. This is what the operating system gives a thread.
* FenceWait with CommandProcessor and FrameDrawList: the pump loop has no exit, the loops of
  the waits go round, the display link calls `drawInMTKView` again and again. `WaitsEnd` says
  that time passing is enough; that it passes is not assumed.
* GpuRing: the pump's loop has no exit (`main.cpp:223`). The driver goes on when it has
  room: `SpaceComes` is about a driver that is waiting to write, so it must want to.
* LockOrder: none; its properties are safety.
* ShaderLoading: frames go on being drawn. The pump may stop loading at any time.
* DiscFiles: the caller of a look-up runs until it has its answer. The file calls are given no
  fairness; their properties are safety.
* GuestProcess: the main thread and the watchdog run, ten seconds pass. Neither the guest nor
  the user nor the display link is relied on: that is what `Ends` is about.

## 5. Proofs

Nothing is assumed but the named assumptions on the constants, and what a theorem's own
statement says (`Ordered`, `WholeImage`).

* `DispatcherProofs`. `TypeCorrect` is inductive as it stands. `NoWakeupIsLost` is not: a
  waiter can only be covered if handle 0 is never signaled and every handle in use has
  been issued (`HandleInv`); under it each action either keeps the predicate of a
  blocked thread false, or leaves a notify pending, or marks the handle silent
  (`PredicateReason`, `CoveredStep`). `SignalsAreConsumedOnce` is inductive with the type
  invariant: `credit` balances signals and waits. `UserApcRunsAnApc` uses that only the
  thread itself takes from the queue of its handle, which needs that no two threads
  have the same handle but 0 (`HandleInv`). `ApcsRunInOrder` strengthens the order to
  `ApcInv`: each queue is sorted, and lies between the last APC run and the next number.
  `EndedStaysSignaled` needs that the entry of a thread, while there is one, stays of type
  Thread and is never unsignaled (`ThreadEntries`), and that a thread reaches its end only
  by the step that signals it (`WhoEnds`). `SignalsAreNotLost` is about steps: each accounts for
  what becomes of a handle's signal (`Accounted`). The one that could drop a signal unseen is
  the insertion of a new object, so that it needs `Unissued`: no handle that is still
  to be given out is signaled.
* `LockOrderProofs`. `LockInv`: what a thread has still to do (`code`) is one of a few named
  sequences (`Placed`, first part of the module), which with the place tells the locks it holds;
  each lock has the holder that its place says (`Exclusive`); and how far the system buffer has
  come (`OneBuffer`), from which `OneBufferForBoth` follows. There is no order of the locks: the
  allocation takes the tracer's mutex under the state mutex and the interrupt callback the other
  way round. `NoDeadlock` therefore assumes `Ordered`, two rules for the guest: it has asked for
  the buffer before it registers its callback, or the callback calls neither kernel nor section;
  and the callback enters no section inside which the tracer is called. Under them nobody who
  waits holds what another waits for (`NobodyWaitsForAWaiter`). The instance of `lock_order`
  satisfies `Ordered`; `lock_order_abba` breaks the first rule and has the cycle.
* `GpuRingProofs`. `Layout` says where everything lies: in one lap (`OneLap`: packets tiled from
  the read pointer to the write pointer) or in two (`TwoLaps`: to the end of the
  ring and on from its start, with the skipped tail between), with a function that gives where
  each packet ends (`Tiled`). It is kept by each of the driver's steps because the driver
  leaves a dword free, and by the pump's because a scan that follows `Tiled` cannot stop
  inside a packet. `UnreadStaysIntact` follows, and so does `StepsOfTheStream`: each
  step is one of `CommandStream` or a stutter. That is the refinement `ImplementsStream` but for its
  fairness, which the run checks.
* `FenceWaitProofs`, for `FrameDrawList`, `CommandProcessor` and `FenceWait` together. `DrawInv` is
  the two properties of the draw list with its type invariant and "every listed draw has been
  parsed"; `UsesTheDrawList` shows that the composition implements `FrameDrawList`, so that
  it holds there too. `FenceInv` is the invariant of the composition:
  - `RegistersInv`: the register file holds, for each register, what the last executed packet
    that wrote it left there (`ValueAt` of the history); kept by one case for each packet;
  - `CommandsInv`: each draw command is the one that its packet makes of the state it was
    executed in (`Made`), which gives `DrawsSeeState`, and, by the arithmetic of sizes,
    strides and counts, `CountsStayInside`;
  - `ShaderInv`: the cached vertex shader is the last one the executed packets have loaded;
  - `ReuseInv`: what the fence in memory vouches for. Unless the override wrote it (`ahead`), the
    word was written by a packet that the scan has passed (`FenceIsBehind`); fences are those of
    closed chunks (`FencesClosed`), and one in front of a draw is lower than the one the draw is
    waited for (`DrawsAfterFence`). So a wait that passes leaves no draw pending
    (`NonePending`), and a pending draw finds the data it was announced with
    (`DataIsThere`). `RewritingIsSafe` is its last conjunct.
  `PacketsExecuteInLine` needs an invariant of the scan besides, `InLineInv`. `InLine` puts each
  buffer in the place of the packet that leads to it, three levels deep; `InLineAt` says at
  which level one is, and `Beginning` what its first packets come to. `Leads`: of each open
  buffer so many packets have been begun, and the last of them leads to the next one.
  `Thread`: what was executed is what had been executed when the innermost buffer was
  opened, and its beginning. Entering takes the packet and a beginning of none
  (`ThreadEnters`); at its end the beginning is the buffer in line, which with the packet in
  front is what the outer buffer has there (`ThreadReturns`); packets announced meanwhile come
  behind all that has been begun (`ThreadGrows`). From the innermost level outwards, what
  was executed is a prefix of each level in line (`ThreadIsPrefix`). TLC has checked `Leads` and
  `Thread` on the instance of `command_processor`, with buffers open at all three levels.
  Of the guest it needs what `FenceAssumption` says: only `sub_820B5A28` has the GPU write the fence
  (`LeavesFence`). `CountsStayInside` needs `MaxBufferBytes <= 2 * Len(Indices)`: guest memory
  goes on behind an index buffer, which is what the loop that reads the indices relies on
  (`gpu_trace.cpp:450`: it reads `numWords`, whatever the buffer has).
* `BumpAllocatorProofs`. `Orderly`: up to the wrap, regions lie in the order they were
  handed out, each ends below the counter less the gap, and the system buffer's address
  is that of one of them. `RoundUpGrows` is the arithmetic of rounding, with the
  granularity and alignment arbitrary.
* `ShaderLoadingProofs`. For the walks, `WalkInv`: the bound a walk goes by is never above the
  number of dwords, and what is left of a block is looked at before it is read. `TranslateInv`
  says what both have made of the program so far. `WalkAt`: the bound is the first slot that an
  EXEC passed points at, so a pair is entered exactly when it is one of `FlowPairs`
  (`EntersFlow`, `WalkEnds`). What was taken and what is left of the block make up the
  instructions passed (`Passed`), with which all instructions begin (`PassedBegins`). `Made`:
  what was taken is supported, `fullFetch` is the fetch constant of its last full fetch, the
  attributes stand at the fetches' places, the first export is the first. So a failure shows an
  instruction that is not supported (`SupportedIsRecognized`), and the end that all are. The
  instructions are a `FlattenSeq`, a recursive function of the community modules that is
  unfolded one sequence at a time (`JoinsAgree`, `FlattenAppend`). For the pipeline,
  `TornPipelinesArePast` follows the four reads: at each place of a frame, what was read of a
  stage that has not changed since its hash was read is the stage's program (`FrameInv`), and so
  it is for the hashes remembered (`CompiledInv`). The result is read after the hash, so a
  result that differs shows a change of the stage in between, and versions only grow
  (`PipelineInv`). The theorem assumes nothing of what is loaded when. `HalvesKeepToTheirSpecs`
  carries the theorems of both to the composition.
* `GuestProcessProofs`. `EndInv` ties the flags to the places of main and watchdog at which each
  is known; who halted, the guest or main, settles the exit code (`HaltedIsOver`). For the
  listeners, `NotifyInv`: the flag says whether a listener is `first`, and for that one each
  kind is `InTurn`, which taking the oldest of a kind keeps for that kind (`OldestIsNext`) and
  for the others, whose places move (`OtherKindStays`). `PartsKeepToTheirSpecs` carries both to
  the composition.
* `FileIoProofs`. `CallInv`: whoever is inside the copy holds the stream, so at most one is
  (`ReadsTile`, `ToldWhenDone`). `InPlace` adds where the stream stands, and needs an image
  that holds its files whole (`WholeImage`); section 6 tells what happens otherwise. The
  look-up of a path, `Xdvdfs`, stands behind them. `LookUpInv`: the walk is at the entry of
  exactly the name that is wanted or above it (`WalkComes`), so that it only gives up where there is
  none (`WalkMissed`); the scan has passed no entry of that name in any case (`ScanPassed`), and
  what it missed lies behind padding (`ScanMissed`). The tree itself is a formula over the
  table (`Below`), and needs no induction. `LookUpsComeToAnEnd` counts the parts, the loops
  and the slots that are left (`Work`). `DiscKeepsToBothSpecs` carries the theorems of both to the
  composition that the run checks.

Induction over data is done by hand where it is needed: the library's induction theorems take
an operator as a parameter, but that a set of naturals has a least element (`LeastOf`) follows from
its theorem on minimal elements, and the least counterexample is then looked at.

Only model-checked is

* liveness, out of TLAPS' reach: `JoinersWake`, `ApcsInterruptWaits`, `ReadyIsShown`, `SpaceComes`,
  `FenceFreesWaiter`, `WaitsEnd`, `Settles`, `Terminates`, `Ends`, the fairness of
  `ImplementsStream`. Of `Terminates` the safety half is a theorem (`LookUpsComeToAnEnd`).

Every safety property of a passing run is a theorem. In the run of `shader_loading` no pixel
program succeeds, its programs being too short: of pixel shaders the success half of
`SucceedsExactly` rests on the theorem. Where a component stands alone in a theorem and composed
in a run, a theorem carries it over: `UsesTheDrawList`, `HalvesKeepToTheirSpecs`,
`PartsKeepToTheirSpecs`, `DiscKeepsToBothSpecs`; the runs check the components' invariants in
the compositions once more.

## 6. What the violations show

* **A released mutant wakes nobody** (`kernel_impl.cpp:343`). `NtReleaseMutant` is the
  only signalling call without a `notify_all`. The design says one condition variable
  "notified on every handle-state change".
* **Two locks in both orders** (`kernel_impl.cpp:1612`, `gpu_trace.cpp:773`).
* **The pipeline of another pair** (`renderer_metal.mm:95`). Hashes and results are read
  separately: when a stage goes from program A to B and back to A around the reads, B's pipeline
  is remembered under A's hash, and "already compiled this exact pair" keeps it for as long as A
  stays. `TornHasMovedOn` and `Settles` say what holds all the same: a pipeline made of a torn
  read is remembered for a program its stage has left, so that nothing wrong is kept unless the
  stage comes back to that program.

Some more things that the code does and a reader of its comments would not expect. They are
not runs of their own: the models have them, and the properties are stated around them.

* **A closed handle comes back** (`kernel_impl.cpp:415`). The predicate of a waiter reads the
  table with `operator[]`, so a thread that waits on a handle while it is closed puts
  it back, as an unsignaled mutant (`Lookup`).
* **A failed translation goes to the cache** (`gpu_trace.cpp:690-704`). The design of the
  translation (`2026-10-03-shader-translation-design.md:120-124`) leaves the cache alone on a
  failure; the code stores the failed result under its hash. The renderer then keeps its
  pipeline, but draws are cut with the stride of a float3 position until the next vertex shader
  that succeeds (`StrideOf`).
* **Index values are not compared** (`gpu_trace.cpp:596-606`). An indexed draw other than a
  rectangle list reaches `drawIndexedPrimitives` (`renderer_metal.mm:219`) with the values that
  were in guest memory, whatever its vertex buffer holds. `CountsInsideBuffers` claims nothing
  of them.
* **Two meanings of 3** (`main.cpp:302`, `kernel_impl.cpp:49`). The comment calls the code
  "distinct from 1 (no GPU device) and 2 (watchdog timeout)"; it is that of a bug check as well.
* **A scan that ends at padding** (`xdvdfs.cpp:171`). The fallback "guaranteed correct" stops
  at the first padding; an entry behind it, asked for in another case than it has, may be
  missed. `ResolvesRight` excepts exactly that (`Hidden`).
* **Success without bytes** (`kernel_impl.cpp:755`). On an image that ends within a file a read
  reports success, and the stream stays failed for all files. With `ImageSize` one less
  TLC finds `GotItsBytes` violated.
* **A fence ahead of the GPU** (`game_overrides.cpp:143`). The override of `sub_820B5A28` writes the
  expectation before the GPU has executed the chunk, so that a wait may pass at once and
  the fence may go back when the GPU writes it. Without `trusting` TLC finds `ReuseIsSafe`
  violated.
* **Attributes of a pixel shader** (`shader_translate.h`). The header says that `attributes` is
  only filled for a vertex shader; a pixel shader with a fetch fills it as well.

## 7. Hazards

`PROJECT.json` lists them by line, with the properties that cover each and a note where
none does. Some lesser ones are not in that list:

* fences are compared by `<=` on 32 bits, without regard to a wrap (`game_overrides.cpp:206`):
  after 2^31 chunks of a run, a wait then lasts as long as `kMaxWait`;
* worker threads are given TLS slots 1 to 5 in turn, so a sixth shares one
  (`kernel_impl.cpp:1287`); the comment there says so;
* a source longer than its buffer is cut by `snprintf` in `TranslateShader`
  (`shader_translate.cpp:274`): more attributes than any shader here has;
* a rectangle's position is taken to be 12 bytes, whatever the stride
  (`gpu_trace.cpp:566`); the model has no stride below 12.

## 8. Plan, and what is not modelled

Left, in the order of what each would add:

1. **The APC queue of handle 0.** `NtReadFile` queues its APC on
   `g_apcQueues[g_currentThreadHandle]`, and the main thread and the pump both have handle 0:
   an APC of the main thread may run on the pump, in an interrupt callback. Extend
   `Dispatcher` with that queue and compose it with `FileIo`, whose `queued` and
   `signaled` become the dispatcher's.
2. **`ExTerminateThread` inside a critical section** (`kernel_impl.cpp:1475`), a step for
   `LockOrder`, which then has a section that nobody leaves.
3. **The system command buffer** (`gpu_trace.cpp:862-874`), scanned behind the ring in every
   tick. A worker thread of the guest builds packets in it (`gpu_trace.h:20-26`). There is no
   write pointer for it, so that nothing but zeros bounds the scan: a model needs to know in
   which order that thread stores the dwords of a packet, which the repository does not say.
4. **Abstract specifications** besides `CommandStream`: a kernel object as one cell that
   waits take from, implemented by `Dispatcher`; the newest frame handed over,
   implemented by `FrameDrawList`.

Not modelled:

* the generated stubs (`kernel_stubs.cpp`): they log and return, and keep no state;
* the recompiled guest and its context (`src/private/ppc`): the environment of all modules;
* the calls of the kernel that change nothing (time, input, privileges, queries,
  no-ops), and `KeDelayExecutionThread`, which sleeps a millisecond at most;
* TLS blocks (only their memory, in `BumpAllocator`) and the tick thread, which stores a number
  that nothing answers;
* the Metal calls of a draw, and the compilation of a pipeline but for whether it succeeds;
* the opening of the image, and `std::exit(1)` when the program file does not load
  (`main.cpp:47, 55`), before any thread of the guest exists; crashes;
* index values, but for those of rectangle lists;
* the destruction of the statics by `return 0` (`main.cpp:311`) while detached threads use
  them: what a thread may do to a destroyed table is not defined, and a model of it
  would only say that;
* tools, dashboard and build files, which have no state at run time.

