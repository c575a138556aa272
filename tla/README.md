# ARTBox: TLA+ specifications and proofs

ARTBox runs Android's ART runtime as one ordinary native process.  The Linux
services that Bionic and ART expect (futexes, Binder, threads, signals, files,
memory mappings) are provided in user mode by `core/src`, on top of a few host
primitives in `platform`.  There is no kernel to fall back on: what Linux
guarantees about interleavings, deaths and signals has to be guaranteed by these
few thousand lines of C++ and C.  The guest itself (Bionic, ART, ICU, libcore,
the service manager) is built, linked, signed, executed and packaged by the Python
scripts of `scripts`, from pinned sources in a cache that they share; they
communicate through files and JSON reports, and an app that ships is only as good
as the checks one script makes of what another one left.  This directory models the
parts of the code where such things are hard, checks them with TLC on small
instances, and proves the core with TLAPS for all instances.

    tlc -workers 2 -config MCFutexQueue.cfg MCFutex      # one run
    tlapm FutexProofs.tla                                # one module of proofs

`PROJECT.json` lists the components, the runs, the source lines of every
definition, the hazards, and for every checked property a mutated definition that
breaks it.

## Inventory

| component | state | operations | hard behaviour | status |
|---|---|---|---|---|
| futex (`futex.cpp`) | queue of waiters on the callers' stacks, one mutex | WAIT, WAKE, `_BITSET`, REQUEUE, clear_tid, destroy | wake against timeout against signal; store against enqueue; deadline overflow | `Futex`, proofs |
| Binder device (`binder_device.cpp`) | endpoints, threads, transactions, work queue, nodes, references, buffer claims, death slots | open, mmap, close, ioctl (13 commands, one blocking read), poll, unmapping by the VM | death of either side at any point of a call; one-way order; reference callbacks; index reuse; notice of a silent unmapping | `BinderDevice`, proofs |
| threads (`threads.cpp`, `native_thread.c`) | active workers, reaper, TIDs, TID words | start, end of a worker, reap, destroy | stack lifetime against native join; failed joins; the unlocked part of the reaper; shutdown | `Threads`, proofs |
| signals (`signals.cpp`, `signal_state.h`) | per thread: one atomic word pair of mask and pending signals, wait set, binding, epoch | tgkill, sigprocmask, sigtimedwait, bind, take, attach, inherit, detach | lock-free updates from handlers against senders; wakes lost or late | `Signals`, proofs |
| signal delivery (`platform/apple/native_signal_delivery.c`) | host alternate stack, SIGUSR1 transport | fault and interrupt delivery, unbind | handlers that interrupt the registry's own code | in `Signals` |
| signal actions (`signal_actions.cpp`) | append-only action records | set, snapshot | lock-free readers in handlers | planned |
| Binder arena (`binder_arena.cpp`) | slots over the bytes of a receive mapping | create, reserve, write, publish, cancel, release, discard, destroy | best fit in a fragmented mapping, 64-bit round-up, bytes of earlier buffers | `BinderArena` implements `ReceiveBuffers`, proofs |
| VM (`vm.cpp`) | regions, pages, watches, poisoning | map, unmap, protect, file mappings, fault snapshot | metadata read from fault handlers | planned (used abstractly) |
| VFS and devices (`vfs.cpp`, `devices.cpp`) | descriptors, open files, epoll, eventfd, timerfd, pipes | open, read, write, poll, wait | wakes against closes, shared open files | planned |
| wake (`native_wake.c`) | eventfd or pipe | signal, drain | coalescing | planned with the VFS |
| linker (`linker.cpp`, `dlfcn.cpp`, `guest_dlfcn.cpp`) | library graph, reference counts | open, close, symbol lookup | constructor order, failed opens | planned |
| ELF, relocation (`elf.c`, `dynamic.c`, `relocation.c`), `binder_wire.c`, `managed_reference.c` | none | parse, relocate, validate | range arithmetic | planned as operators |
| kernel, guest, runtime, service policy, fault frames | credentials, tables | dispatch, conversion | none that is concurrent | not modelled |
| guest scripts (`build_bionic`, `build_art_*`, `link_*_guest`, `test_bionic_startup`, `test_icu_guest`) | objects, libraries, signed frameworks, source bundles, a report each | compile, bundle, link, sign, execute, verify | edits while a script runs; outputs replaced by a second run; reports saved in stages | `GuestScripts`, `Pipeline`, proofs |
| service scripts (`binder_aidl`, `xsdc`, `build_binder`, `build_vintf`, `build_servicemanager`, `build_kernel_config_check`, `test_service_guest`) | generated sources, archives, a record each | generate, compile, archive, link, execute | a crash between outputs and record; pins that changed since the generation | `ServiceScripts`, `Pipeline`, proofs |
| Linux reference (`build_art_*` `--link`, `test_art_startup`) | three directories with copies of each other's libraries | link, copy, execute | copies taken at different times | `LinuxScripts`, `Pipeline`, proofs |
| parser scripts (`test_kernel_config_*`, `kernel_config_guest`) | the Linux result, the signed image | execute, verify, link | a reference result that outlives its build | `ParserScripts`, `Pipeline`, proofs |
| packaging (`art_bundle`, `bionic_bundle`, `service_bundle`, `dynamic_bundle`, `build`) | staged bundle, app, archive, build-info | accept, stage, embed, archive, describe | what ships is not what ran; HEAD read last | in `GuestScripts`, `ServiceScripts` |
| source cache (`sources`, `jdk`, `ndk`, `binder_reference.prepare`, `binder_aidl.fetch_file`) | downloads, `.part` files, installations, markers | download, verify, rename, unpack, install, check | processes that share a `.part`; crashes; a cache that was changed | `SourceCache`, proofs |
| source adaptation, contract tables, fixtures, probes (`*_adapt`, `bionic_*`, `*_guest_link`, `dex_fixture`, ...) | none | text in, text out | none | not modelled |
| platform wrappers, app, `tools` | none | host calls, user interface, ELF packing | none | not modelled |

How they interact: a guest thread enters a component through `kernel.c`.  Futex
and Binder waits sleep in slices and poll the *interrupt epoch* of the signal
registry.  A worker of `threads` is attached to the registry when it starts and
detached by the reaper, which then clears the TID word through
`artbox_futex_clear_tid`, the wake that `pthread_join` waits for.  The Binder
device writes parcels into mappings of the VM, and learns of unmappings through a
passive watch.  The signal registry wakes host threads with SIGUSR1, whose handler
calls back into the registry.  The scripts call each other's modules only for
helpers; otherwise a script meets another one's work as files: it reads the report,
compares commit, dirty flag, digests of project files (with `git show` or with the
working tree) and digests of outputs, and raises at the first difference.

## Modules

| module | role |
|---|---|
| `Vectors` | `std::vector::erase` (of one element or of those a filter names), `insert` and `std::find` on sequences |
| `Futex`, `MCFutex`, `FutexProofs` | the futex domain |
| `BinderDevice`, `MCBinderDevice`, `BinderDeviceProofs`, `BinderCallsProofs` | the Binder device |
| `Threads`, `ThreadsProofs` | the thread manager, its reaper, native threads, guest joins |
| `Signals`, `MCSignals`, `SignalsProofs` | the signal registry and signal delivery |
| `ReceiveBuffers` | what a receive arena promises the device, wherever it places its buffers |
| `BinderArena`, `MCBinderArena`, `BinderArenaProofs` | the best-fit allocator that keeps the promise |
| `PipelineOps` | the operations scripts are made of |
| `GuestScripts`, `ServiceScripts`, `LinuxScripts`, `ParserScripts` | each script as a sequence of operations, and the chains they form |
| `Pipeline`, `PipelineProofs` | the checkout, the developer, the scripts at work, failures; composes the four |
| `SourceCache`, `SourceCacheProofs` | the seven functions that fill the shared cache |

Every action is one critical section, or one step between two accesses to shared
state where the code holds no lock.  Definitions whose comment starts with "A
faulty", and in the modules of the scripts and of the cache those with a name
like `IcuUnsourced` or `CheckSkipped` in front of the definition they resemble,
are mutated forms of that definition; nothing refers to them.

### Futex

`artbox_futex::active` is a sequence of threads; the `Waiter` on a caller's stack
is a record per thread.  A WAIT takes the steps `WaitEnter` (argument checks, the
epoch and the clocks, before the mutex), `WaitEnqueue` (compare, limit, push) and
`Recheck` (one evaluation of the loop, with the exit and the erase); between
rechecks the mutex is free.  WAKE, REQUEUE and clear_tid are single critical
sections.  Guest stores, mappings, signals and the two clocks are actions of the
environment.  Times are small numbers up to `TimeMax` (INT64_MAX seconds), so that
the overflow check of `timeout_value` is exercised.  `credit` and `quiet` are
history variables of the properties.  `Destroy` requires, as its contract does,
that nobody is inside.

### BinderDevice

One mutex guards the device, so its state is one record `dev`, and every helper of
the code is an operator from device states to device states; an action is an entry
point with all the helpers it calls, `reap_closed` first.  `read_wait` is the only
place that releases the mutex: `Sleep` and `Poll`.  Abstractions:

  - an ioctl carries one command or returns one item; a batch is a sequence of
    such ioctls that nothing interleaves with;
  - a parcel is its table of objects; an arena is a set of `BufferLimit` slots that
    are free, reserved or delivered (`BinderArena` is about their placement);
  - a parcel is a sequence of `Objects`, translated one after the other; the code's loops over
    objects and endpoints are `InTurn`, the result of n steps each taken from the one before;
  - `Refused` stands for every entry that fails after it has reaped;
  - reads shorter than an item leave it queued, as in the code;
  - `OwnerCallbacks` is about the order of the callbacks of a node, not about which thread of
    the owner receives one: `notification_tid` is modelled, but no property would notice a
    wrong value of it;
  - a mapping is intact, torn (partly unmapped) or gone, changed by `Unmap`
    without any call of the device.

A closed endpoint whose mapping is still there remains a target, as in the code:
it is released only when the mapping goes.  SET_MAX_THREADS, VERSION,
GET_NODE_INFO_FOR_REF, the observer table and `artbox_binder_device_destroy` take no
part in any decision and are left out.

### Threads

`Start` is the admission, the `Worker`, the inheritance of signals and the native
start (its access check and its locked part are one step: nothing else it reads
changes in between).  `WorkerDone` is the end of `worker_entry`, `NativeEnd` the
later end of the native thread: in between the thread still runs on its guest
stack.  The reaper is a process with the steps `Scan`, `Join`, `Detach`, `Release`
(unmap a detached thread's stack, or clear the TID) and `Record`, each with its
failure.  `MapStack` and `GuestJoin` model Bionic, external: it maps a stack before
clone and unmaps it once the TID word is zero.  `Faults` chooses which failures
happen: a native start that fails, an exit with an error, a run that returns still
bound to interrupts, a failing clear, join or VM.  `artbox_threads_drain` only observes.

A run that returns still bound breaks the contract of `signals.h`; the code then
records the error, but deletes the worker's record although the registry refused to
forget it.  `DescriptorOwned` says that this is the only way, and that the error is
on record.

### Signals

The mask and the pending signals of a thread are one value `bits[t]`, changed only
by compare-exchange: every change is two steps, a load and an exchange that
succeeds if the value is still the loaded one.  Senders and waiters hold the mutex
`lock`; the owner's mask calls and its host handlers do not.  A thread is two
processes: `main` and the `handler` that may interrupt it between any two steps, also
while it holds the mutex.  `wake` is the set of threads with SIGUSR1 pending; host
signals coalesce.  `deliver_interrupt` drains up to `DrainLimit` (64) interrupts, each
taken together with the mask of its action; `deliver` runs a fault's handler.
Handlers may change the mask; SIGUSR1 is blocked while one runs.

Refused calls change nothing and are left out.  The interrupt's action is
installed and valid; an error of a delivery ends the process (`life = "failed"`).
The interrupt epoch is modelled by what its readers compute, whether it moved since
they read it (`stale`).  Alternate stacks and rt_sigaction are not modelled.

`WaitUnblocked` is FALSE in the runs: guests block what they wait for.  POSIX leaves
the other case undefined, and so does the code: with it, `send` suppresses the native
wake for a signal that is awaited, while `wait` consumes one signal and announces
no remainder, so a second one may stay pending until the next mask change.

### BinderArena

Every call holds the arena's mutex from its first to its last access, so a call is an
action, and its error returns are an action of their own.  Addresses are offsets from
the guest base (the checks of `artbox_binder_arena_create` keep the sums below 2^64).
A slot keeps what the arena reads again, the descriptor goes to the caller in
`ret`, and `memory` is the bytes of the mapping, which hold anything at first.  The
round-up is done modulo `Word` (2^64), so that the checks in front of it matter.  The
search is defined by its result: the smallest gap that fits, the lowest of these.

`ReceiveBuffers` is the contract of `binder_arena.h`: buffers with bytes of their own,
zero when reserved, changed by writes through them and only before delivery, large
enough for the three sections in unbounded arithmetic, given up only by the call
that fits their state; ENOMEM only if no offset is free.  The refinement mapping `Held`
reads each slot's bytes out of `memory`, so that a slot that overlaps another, or is not
cleared, breaks the simulation.

### Pipeline and the scripts

A script is a sequential program, so it is written down as what it does to shared
files and to its report, in the order of the code: `Revision` and `Status` read git,
`Record` digests project files, `Make` and `Compile` run a tool, `Digest` enters
files into the report, `Save` writes it, `Gate` is a run of checks.  `Pipeline` has one
action per kind of operation, and interprets the script that is running
(`run`: script, place, report).  The contents of a file are what it was made of:
the versions of the groups of project files the tool read, and the contents of its
other inputs (`Built`); a digest is taken to be the contents.  So a property can ask
of a staged framework which version of which source its objects were compiled from.

Between any two operations a tool may fail, or the script may be killed, with its
file not yet written, or half written.  The developer edits project files, commits
and takes edits back at any moment, also in the middle of a script (`Noticed`: where
the next operation reads project files or HEAD; elsewhere it may as well come later),
and, when no script runs, starts the next one of the chain or an earlier one again.
Three history variables of the properties, kept in `used`, say what happened while a
script ran: `moved`, a commit; `parted`, a commit just between the commands that read
HEAD and the status; `undone`, an edit that was taken back.

Five chains share the modules: `guest` (eleven scripts, from Bionic to the iOS
archive), `suite` (the app with the libc suite alone), `service`, `linux` and `parser`;
their order is that of `.github/workflows/host-tests.yml`.  Abstractions:

  - groups of project files: `unit` (what compilers and the adaptation rules read),
    `layout` (the linker script), `pin` (the selections under `third_party`);
  - libc stands for libc, libm and libdl, one library for the six of ICU and for
    those of libcore, the class library in the guest chain also for the managed fixture:
    they are treated alike;
  - the comparison of a signed image with the ELF file beside it (`pack_layout`,
    `verify_macho`) is modelled by what it decides, whether the image holds that very
    file (`Wraps`), not by how it looks for the two sections;
  - upstream sources do not change: that is `SourceCache`;
  - left out: the preflight modes, `--input-revision`, logs, and reports that no
    script reads (`build-inputs.json`, the early result of `test_art_startup`).

What the checks do not establish, and the properties therefore do not claim:

  - `build_bionic` records no commit and `test_bionic_startup` neither project digests nor a dirty
    flag, so libc may be of an edited tree;
  - an edit of the linker script during `link_libcore_guest` is not noticed by a later script;
  - some units of libcore are compiled with the adapted headers the runtime build left,
    which no record has digests of;
  - a commit, or an edit that is taken back, inside a running script.  A producer
    compiles first and reads HEAD, the status and the digests of its sources later:
    `build_servicemanager` compiles at line 90 and reads HEAD at 102, `build_art_runtime`
    adapts from 170 to 194 and reads HEAD at 328.  An edit and a commit of it before the
    reading give a clean record of the new commit; what was compiled before the edit is of
    the old one, and no later check can tell.  `StagedFromRevision` and
    `ServiceFromRevision` are claimed for runs in which this did not happen (`Steady`), but
    with edits in the middle of any script;
  - the same in `build.ios`, which reads HEAD for the bundle (`build.py:84`, `90`, `96`)
    and again for build-info (`231`), and never compares the two.  One commit in between, be it
    during xcodebuild, of an edit that was there before gives a clean build-info of the new commit
    for an app that embeds a bundle of the old one, or that was itself compiled before the
    edit: with the weaker premise `Described` alone `ArchiveHonest` fails, and TLC finds this
    trace.  `docs/building.md:115` ("The manifest records source revision, working-tree
    state, ...") does not say so.  `ArchiveHonest` therefore says what a
    reader of both can rely on: if build-info names the commit that the manifest in the
    archive names, the app was compiled from it.  Not even that holds if an edit was compiled and taken back before the status is read
    (`232`), or a commit fell between `rev-parse` and `status`: build-info then has the old
    revision and the clean status of the new one;
  - a second run of `test_icu_guest` leaves two `root-*` directories, which `art_bundle` refuses
    until one is removed; a `binder_aidl` that is killed while it copies leaves bindings
    that it refuses afterwards;
  - `build.ios` replaces the archive before it writes build-info; a crash in between leaves
    an older build-info, whose digest then differs (`ArchiveHonest` is about a pair whose
    digest agrees).

### SourceCache

The seven functions are one algorithm with differences, which `SourcesObtain` to `FetchFile`
tabulate: whether the installation is looked for first, whether the download goes to
a shared `.part`, whether it is verified before the rename, what the stage and an
existing installation are compared with, whether an installation may replace another.
A file is a number of blocks, each missing, as pinned, or bad.  `fd` says under which
name the file is now that a process opened: after a rename, a process that is still
writing writes into the archive.  `Fail` and `Crash` may happen at any step, `Change`
damages an installed file.  `overlap` and `changed` are history variables of the
properties.  The validation of names, members and links of archives is left out.

Two processes that download to one `.part` at the same time can defeat the verification:
one verifies, the other truncates or writes on, the first renames.  `ArchivePinned`
excepts such a meeting for every function that shares a `.part`.  `sources.obtain` and
`ndk.obtain` do not compare what they install with the pins, and of an installation they
check one file only: for these two, `InstalledPinned` excepts the meeting too, and
`ReturnedPinned` promises of a cache with a meeting, or with a changed installation, that
one file and nothing else.  What the other five return is as pinned in spite of both.  `ndk.obtain` renames before it verifies; a download that
was cut short stays under the archive's name and every later call refuses it, until
somebody removes it.  `EveryoneObtains` excepts just this.

## Runs

| run | question | instance |
|---|---|---|
| `futex_queue` | exactness of the queue, wakes neither lost nor swallowed, nobody asleep on a stale value, oldest first | 3 threads, 2 words, 2 mask bits, a queue of 2, so that it fills; private and shared keys; no clocks |
| `futex_time` | timeouts not early; woken, due and interrupted waits return | 2 threads, 1 word, clocks 0..2, `TimeMax` 3; every kind of timeout and every refused call |
| `binder_calls` | calls stay paired, sleeping readers keep their endpoint, buffers owned | a manager of 2 threads, a client of 2, 2 calls, everything may close, unmap or exit |
| `binder_oneway` | one-way calls in turn and never dropped | 3 buffers, 2 nodes of a client of 2 threads, 3 calls queued |
| `binder_objects` | claims counted, owner callbacks | an object sent twice in one parcel, and its handle sent back |
| `binder_life` | one context manager | from the empty device, 2 users, 3 endpoints ever |
| `binder_live` | death slots; the order of clear, death and done; callers and subscribers learn of deaths | a client that calls a manager, a manager that answers and watches an object of the client; either is closed or unmapped, the manager's thread exits |
| `threads` | stacks, registry, joins, accounting; reaping, joiners and shutdown make progress | 2 stacks, 3 TIDs, a limit of 2, every fault |
| `signals` | no accepted signal lost or stranded, wakes on their way and taken, no wake without binding, masks restored, waits return | an owner that masks, binds, unbinds, waits for one signal or both, faults and is interrupted, a sender that comes and goes; capacity 1, drains of 2 |
| `binder_arena` | the promise kept: slots apart, bytes clean, refusals honest | 3 units of 2 bytes, 2 records, 4-bit words; sizes at and beyond every limit, addresses of buffers and others |
| `pipeline` | staged, archived and executed code is of one revision, linked together, executed; records mean whole outputs; no false refusal | five chains; one edit, one failure or kill, one script run again, two of these in all, a commit and a restore inside a script included; two commits |
| `source_cache` | archives, installations and results as pinned; everyone obtains in the end | seven functions, 2 processes, 3 blocks, 3 failures, crashes or changes |

Bounds: every limit of the code that appears as a constant (queue, packets, claims,
buffers, threads, capacity, drain) is set to the smallest value at which it is
both reached and not reached.  `TokenLimit`, `NodeLimit`, `TxnLimit`, `ClockLimit` and
`LastTid` cap counters that only grow; each allows at least one more than the
number that is alive at a time, so that reuse happens.  Two or three threads are
enough because every hazard is between one thread and one peer, plus a third that
takes the slot or the wake meant for another.  The Binder instances start after
the boot calls that every guest makes, built with the operators of the actions.
Symmetry is used only for threads of one process, and only in runs without liveness.
In the pipeline, every trouble the properties are about needs one edit, one crash or
one script run again, or two of them together (an edit and a second run; a crash and a
second run; an edit, and a commit or a restore in the middle of a script); `TroubleLimit` 2 has
all the pairs, at every place, and a commit more than the one the chain starts from; commits
and restores between scripts are not counted.  In the cache, three blocks have a first, a middle and a
last one, and three failures allow a damaged download, a crash and a change in one run.
Deadlock is not checked where the system may stop: when every endpoint is closed, the
manager deleted, the TIDs used up, the process failed, the last script ended, everyone
served.

Fairness, and why the code has it:

  - Futex: a thread that entered WAIT gets the mutex; a waiter that was notified,
    interrupted or is due re-evaluates its loop (the condition variable delivers
    notifications, and interruptible waits sleep in bounded slices);
  - Binder: a sleeping reader polls (`wait_for` 5 ms).  Nothing is assumed of guests;
  - Threads: the reaper goes on, a native thread that is done ends, and the owner
    that called destroy goes on.  Nothing is assumed of running workers;
  - Signals: a call inside the registry and a handler go on, guest handlers return,
    SIGUSR1 arrives, and a thread that waits for the mutex is not starved by
    others that take it again and again (strong fairness);
  - SourceCache: a function that is called goes on, and one that raised or was killed is
    called again (a build that needs the source is repeated until it has it).

All runs pass.  Where the code promises less than a reader of its documentation may expect, a
property says only what the code does, and the exceptions are listed with the modules above.

## Proofs

`FutexProofs`, for any threads, words, requests and limits:

  - `QueueCorrect`: `TypeOK /\ QueueExact` is inductive as it stands.  That a thread is
    in the queue iff it is inside WAIT needs the lemmas on what an erase does to the contents,
    and that the waiters a WAKE chooses are queued (`ChosenAreAsleep`,
    `MovableAreAsleep`);
  - `NoWakeLost`: `WakeAccounting /\ WokenNotified`, on top of it.  The cardinality of
    the woken waiters grows by exactly what a WAKE counted (`WakeAdds`), and shrinks
    by one with each WAIT that returns 0;
  - `CallsAdmitted`, an invariant for the next two: a thread inside WAIT carries a request that
    passed every check, with the deadline computed from it when the call began, and once it
    is queued, a waiter with the mask of that request;
  - `TimeoutsAreDue`, an action property: only `Recheck` returns ETIMEDOUT, and only once
    the clock it names has reached the deadline, which is the request's; a sum that would
    overflow is no deadline;
  - `NobodySleepsOnStaleValue`: compare and push are one step, so a store that follows takes the word
    out of `quiet`; and a WAKE that puts it back had nobody left to wake but the waiters it
    woke;
  - `OldestServedFirst`, an action property: the waiters a WAKE or a REQUEUE chooses are the
    first matching ones of the queue, so that one that is ahead with a mask no narrower
    is among them too.

`ThreadsProofs`, for any stacks, TID range, limit and faults.  The properties are not
inductive; `IInv` adds

  - `ReaperHolds`: the worker the reaper works on is active, done, and, past the join,
    ended;
  - `AttachedLong`: a worker that has not ended is active and attached;
  - `HeldMapped`: a TID that is attached, or about to be released, owns a mapped stack
    whose word still holds it, and no other;
  - `StopsEmpty`: the reaper exits only when nothing is active.

From it: `ReaperAccounts`, `NoLiveStackReleased`, `DetachedBeforeJoined`,
`UnknownLifetimeRetained`, `DeletedLast`; with `DetachRefused` (a TID that is
attached and not active was refused by the registry), `RegistryOwned`; and their
conjunction `NothingReleasedEarly`, the property `Lifetimes` of the run.

`SignalsProofs`, for any threads, signals, capacity and drain limit.  `SendsKept` and
`WakesBound` are not inductive; `IInv` adds

  - `MutexHeld`: the mutex is held from the first load of a send to its notification, and
    while a wait consumes, also when a handler interrupts its holder;
  - `SenderHolds`, `HandlerHolds`: what a sender or a handler tested in the value it
    loaded still holds when its compare-exchange succeeds;
  - `TellsBound`: a thread that is about to wake itself, in a mask call or in a handler,
    is bound;
  - `AbsentClear`: a thread that is not attached has nothing pending;
  - `OwedType`, `Balanced`: the ledger of accepted and untaken signals equals the pending
    ones; the capacity is in `TypeOK`.

From it: `AcceptedSendsKept` and `WakesReachBound`.

`MaskComesBack` needs a second invariant, `Coherent`, thread by thread: an interrupt handler
looks for interrupts only with the mask of the code it interrupted, which it remembers and
sets again when the guest's handler returns; the wait set is published exactly while its
thread sleeps; a thread that is not attached does nothing; and what a thread waits for is
blocked, if guests do so.  `SignalsStayReachable` rests on both, and on
`~WaitUnblocked` as a hypothesis, which the runs satisfy: if a guest waits for a signal it does
not block, the code itself may leave one of two pending signals without a wake (see Signals
above), so the hypothesis is what POSIX asks of the guest and cannot be dropped.

`BinderArenaProofs`, for any alignment, capacity, limit, word and requests:

  - `TableSound`: the table stays sorted, aligned, apart and inside.  A size that is
    at most the capacity does not wrap when it is rounded up, and a set of gaps that
    is not empty has a best one (there is a least natural number in every set of them);
  - `HonestRefusals`: a free range lies in one gap of the sorted table, so the search
    over gaps misses none;
  - `ArenaKeepsPromise`: the refinement, initial states and every step.  A write or a
    memset of one slot leaves the bytes of the others alone because of `TableSound`.

`BinderDeviceProofs`, for any processes, threads, pointers, handles, parcels and limits.
`DeviceStaysSound` proves the invariant `DeviceSound == Sound(dev, 0)`, from which
`CallbacksInOrder`, `ManagerIsOne` and `DeviceTyped` follow.  None of the three is inductive
by itself: `OneManager` needs that an endpoint's nodes die with it, `OwnerCallbacks` that a node
is found by its pointer, and both that tokens and node numbers are never given twice.
`Sound(d, x)` is

  - `Device`, the types of all tables, with `GoodNode` (what is pending is held, a strong hold is
    a weak one), and `Bounded`: no table is longer than the limit it was created with;
  - `NodesKnown`: nodes have numbers that were given, references name nodes that exist;
  - `NodesOwned`: a node is dead iff its endpoint is gone; no two live nodes of one endpoint
    have one pointer;
  - `ManagerKnown`: the recorded manager is an endpoint, its node exists and is alive, and every
    other manager's node is dead;
  - `TokensGiven`: what is in use, or named as an owner, was given before;
  - `SleepersOpen`: a thread that sleeps in a read is in an endpoint that is open.  `Poll` needs
    it: the entry that reaps first must not reap the endpoint of the thread that wakes.

`x` is a hole.  `release_endpoint` kills the nodes of an endpoint while the endpoint is still
in its table, so in between the invariant holds for all but `x`; between the entry points
`x` is 0, no endpoint.  An operation that does not touch what `Sound` speaks of `Keeps` it
(`KeepsSound`), which leaves the cases where a node, a reference, the manager or an endpoint
comes or goes.  `InCall` is `Sound` with an endpoint and a thread that exist: what every command
is entered with (`EnterSound`) and left with.  Two lemmas carry an invariant through what
is done `InTurn`, `ReapInduct` over the endpoints and `TranslatedInduct` over the objects of a
parcel; they are instances of `Induct`, induction over a set of naturals, whose
members are defined by the invariant instead of passing it as an operator.  `EraseAllKeeps`
says what is left of a vector.

`BinderCallsProofs` proves `NoCallerIsStranded`, the invariant `CallsPaired` of the run
`binder_calls`: whatever the number of processes, threads and calls, and whoever exits, no caller
waits for a call that nobody will answer.  The property counts, its invariant `Paired(d)` points:

  - `NumbersGiven`, `QueuedOnce`: a call has a number of its own, already given out, and no two
    packets carry one call;
  - `CallsGo`: who calls waits for that call, the target exists and is another endpoint, and the
    call is in the queue while no thread received it, afterwards with the thread that did;
  - `PacketsKnown`: a packet that carries a call is for any thread of the call's target;
  - `ThreadsKnow`: a thread that waits is the source of a call, one that serves its receiver, and
    one that serves waits for nothing and owes no dead reply.

`PacketsKnown` is what `CallsPaired` lacks to be inductive: a call goes to whom `work_for` finds
free of calls only because its packet is addressed to no thread.  An operation that does not
concern calls satisfies `SameFlow`, one that ends some (`cancel_transactions`, a reply, a read of
another packet) `CallsEnd`, one lemma each; the operations that begin, answer and receive a call
have lemmas of their own.  An ioctl admits a thread, runs a body and leaves: `Runs` says this of
every command, and `ThreadStepRuns` that a thread does nothing else but exit, read and poll.

The same module proves `ReservedIsQueued`, `OneAtATime` and `AcceptedIsKept`, the properties
`BuffersOwned`, `OneWayInTurn` and `OneWayKept` of the runs `binder_calls` and `binder_oneway`.
Their invariant `Owned(d)`, on top of `Sound` and `Paired`:

  - `BuffersOnce`, `ReservedQueued`: no two packets fill one buffer, and a reserved buffer has
    its packet;
  - `PacketsHeld`: the buffer a packet will fill is reserved, the packet's endpoint and thread
    exist, and a one-way packet is for no particular thread, carries no call and is queued for
    the owner of its node;
  - `NodeTurns`: the active buffer of a node is the first queued call's, or a published one
    (`TurnOfFirst`), and is never one that is neither queued nor published (`TurnTaken`).

`OneWayInTurn` is not inductive without `TurnTaken`: when the first call of a queue is received,
nothing else says that the node's turn is the buffer it was published in.  And because a one-way
packet is for no thread and carries no call, neither a thread that exits nor a call that is
cancelled takes one out of the queue, which is `OneWayKept`.  What an operation does to packets
is one of three relations, each with a lemma that it preserves `Owned`: packets leave the queue
(`PacketsGo`), their buffers published or freed; a packet `Joins`; or a published buffer becomes
free (`BufferFreed`), which passes the turn on.  `Moved` is their closure, `Still` the part of it
in which no one-way call is received, so that the steps of an entry point compose.

`SlotsAgree` and `ClearedInOrder`, the properties `DeathSlots` and `ClearAfterDone` of the run
`binder_live`, say that references and death slots, which name each other by index, agree, and
that a death is reported once and a reported one acknowledged before its subscription is cleared.
Their invariant `Subscribed(d, x)`, on top of `Sound` (`x` again is the endpoint that is being
released, to whose death no slot is armed any more):

  - `LinkGood`: the owner that a reference recorded had its token given, and the slot of a
    reference is its endpoint's, watches that owner and is not being cleared;
  - `SlotsOwn`: no two references have one slot;
  - `SlotGood`: a slot belongs to an endpoint that exists and watches a token that was given; it
    is armed exactly while that endpoint exists, is being cleared exactly when no reference has
    it, and waits for a particular thread only when its clearing is queued and the thread exists.

That tokens were given is what `DeathSlots` lacks: `open` must not revive, under an old token, an
owner whose death is queued.  And `BINDER_THREAD_EXIT` empties the slots that wait for the thread,
which would leave references without their slot unless a slot that waits is being cleared.  Most
operations satisfy `LinksStay` (what a slot is and which references have it stays, or it ends with
its only reference) and are done with one lemma each in `BinderDeviceProofs`; `request_death`,
`clear_death`, `death_done` and the delivery of a death satisfy `LinksMove`, which is
`ClearAfterDone` for the body of a command, and reaping `SlotsReaped`.  The proof corrected the
property: an entry point first reaps, and a slot that reaping empties may be taken again by the
same endpoint in the same step, so `ClearAfterDone` speaks of the slots that reaping leaves.

`SourceCacheProofs`, for any processes, functions, number of blocks and of failures:
`TypeCorrect`, `ArchiveIsPinned`, `InstallationIsPinned`, `ReturnIsPinned`.  The invariant adds to
the properties

  - `Alone`: without an overlap, at most one process is inside a shared download;
  - `OpenFiles`: then a process that has the shared file open is writing it, and nobody has
    the archive open;
  - `Downloads`: what was verified is still as pinned when the rename comes;
  - `Unpacked`: a process that unpacks has a pinned archive, and what it unpacked so far is
    as pinned;
  - `Staged`: what is about to be installed is as pinned, also in spite of an overlap where
    the function compares it with the pins, and has the one good file that `ndk.obtain` looks at;
  - `Recorded`: the digests that `jdk.obtain` keeps with an installation are the pinned ones.

`PipelineProofs`, for commits, edits, restores, failures, kills and repeated scripts in any number, on
all five chains.  A property of what is staged or executed speaks of files that eleven scripts made,
each of which may have been run again, or killed, since; so the argument has three layers.

  - What a running script knows (`ScriptsKnow`).  `Placed` says that it is at an operation of its
    program.  `Knows` says, of a file that none of the operations executed since has touched: its
    digest in the report is the file (`Digested`), and the report lists nothing else (`Listed`);
    what was made is of the files that are there (`Made`), a copy is equal (`Copied`), what
    was deleted is gone (`Removed`); checks that passed still hold (`Checked`, of those that read
    only files); what was executed last is there (`Executed`).  It is inductive for every program, without looking at one: only
    edits interleave with a script, and they change no output.
  - What a report says (`RecordsAreTrue`).  `Honest`: each report that is whole is true of the digests
    in it, `Truth` saying how for each: the library in it was linked with the libraries
    in it, a signed file in it holds the ELF file in it, what it says passed is in `passed`.
    That is a fact about values, so it survives whatever happens to the files.  It is shown
    once per `Save`, from `Knows` and the `Honest` reports its script verified, by going through the
    28 programs: one lemma lists each, one gives its outputs, one its gates.
  - The properties.  `LinkedTogetherAlways`, `ShippedWasExecuted`: `Truth` of the report
    `staged`.  `OneArtAlways`, `ReferenceComesFirst`: a step that executes is at one of a few operations
    (`Targets`), whose script knows what it executes.  `RecordsAreOfWholeFiles`: a file of a
    record changes only while the record is absent, because its producer deletes it first,
    and it is saved when the producer knows all its files.

The properties about revisions need the order of readings in time, two more layers on top of these:

  - `VersionsAreOrdered`.  A version of a group of files is the number of the edit that made it:
    HEAD's is no greater than the working tree's, and that no greater than the number of edits
    (`Numbered`); nor is one that a report of the service chain recorded (`Stamped`).  `Dates`, of a
    running script, as long as no commit and no restore fell into a running script (`Steady`):
    HEAD is where it was read (`Revised`), what passed `git show` holds (`Shown`), what was recorded,
    compiled or looked at lies between the commit's version and one recorded later, and is
    the commit's if the tree was clean later (`Dated`: `Recording`, `Using`, `Holding`, `Looking`);
    a report that was there when the tree was clean has no version of a later edit (`Unseen`,
    `Compared`), and a saved one names HEAD (`Saving`).
  - `RecordsAreDated`: `Steady => Traced`.  Each report that is whole says from where its files come
    (`Origin`), in terms of versions `Within` the commit and the recorded digest.  If a later link
    compares that digest with `git show`, the two ends meet and the version is the commit's
    (`WithinExact`).  From `Origin` of `staged` and `Honest`: `StagedIsFromRevision`, `ServiceIsFromRevision`.
  - `ArchiveIsHonest` does not suppose `Steady`.  `Shipping` follows `build.ios` operation by operation:
    the bundle in the app is the staged one, its commit is not later than HEAD, and while HEAD is
    that commit, and no edit was taken back, the app's version lies between the commit's and the working
    tree's; a status that is clean closes that interval.  `Told` keeps it as a fact about
    build-info.  HEAD only goes forward, so if it is the bundle's commit at the end it was all
    the time.

The proof found a gap of the model.  `ShippedExecuted` was not inductive: a libc made after the
signed frameworks (`test_bionic_startup` run again after an edit, killed before it signs) could be
staged with frameworks of the older one.  The code does not allow it, because `art_bundle`,
`bionic_bundle` and `service_bundle` compare every signed image with the ELF file they stage,
section by section; the model had taken that for a comparison of digests with the report.  The
instance that TLC checks could not reach the difference, as it takes an edit, two more runs and a
kill.  The checks are modelled now (`Wraps`).

Assumptions are those of the modules (`FutexAssumption`, `ThreadsAssumption`,
`SignalsAssumption`, `BinderAssumption`, `ArenaAssumption`, `CacheAssumption`), which TLC
evaluates in the runs.  The type invariants of these six modules are proved.  `PipelineProofs`
needs no assumption but `LimitsAssumption`.

Only model-checked: of `BinderDevice`, the holds on references (`ClaimsCounted`), whose proof
needs an invariant of its own, in which every operation that makes or drops holds moves the
counts of the references by as much; of `Pipeline`, `UntroubledPasses`, whose premise is that all
goes well; and everything about liveness, which is out of the prover's reach.

## Not modelled

Of the scripts: source adaptation and the contract tables, which are functions from
text to text or lists of expected values without state; `tools`, conversions of binary
formats (but `wrap_dynamic`, as far as the bundles use it); the Binder laboratory (`binder_reference`, `probe_binder`), which drives a real kernel
module and whose behaviour is the kernel's; `build.py host` and the test drivers that
compare one program with another.  Of the core: the VFS, the page metadata of the VM,
the linker, ELF parsing, the action table, and the remaining operations of the device
and of the registry named above.

## Plan

1. Futex, Threads, Signals, BinderArena and SourceCache with proofs, BinderDevice with its
   first proofs, and the pipeline of scripts: done.
2. Proofs: the properties of the pipeline about revisions, done; the holds of the Binder device, on
   top of `Sound`, `Paired` and `Owned`.
3. An abstract call specification (a call is pending, served, then answered or failed,
   once) that `BinderDevice` implements.
4. `Vfs`: descriptors, shared open files, eventfd, timerfd, epoll, host wakes.  `Vm`:
   regions and pages, the fault handler's snapshot, poisoning, watches.
5. `ThreadJoin`: Threads composed with Futex, the TID word and `pthread_join`.
