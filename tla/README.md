# Graphics Flight Recorder in TLA+

The Graphics Flight Recorder (GFR) is a Vulkan layer. It sits between an
application and the driver, adds *marker writes* to what the application
records and submits, and, when the device is lost or hangs, writes a report of
what the GPU had and had not executed. This directory holds TLA+ models of the
parts of GFR where that can go wrong, TLC configurations that check them, and
proofs for TLAPS. Source paths are relative to the repository's root.

## 1. The system

Four kinds of agents run the code: the application's threads, which call the
layer's hooks (`src/gfr.cc`, `generated/gfr_intercepts.cc.inc`); a watchdog
thread and a hang-daemon listener of the layer, which only dump; the driver,
which the hooks call between their Pre and their Post part; and the GPU, which
writes the markers into host-visible memory when it gets there. The hooks share
the global `GfrContext`, whose `devices_mutex_` most Post hooks and all dumps
hold, the `Device` objects below it, and the marker memory.

| Component | State | Operations | What is hard | What makes it correct |
|---|---|---|---|---|
| Marker allocator (`device.cc`) | `marker_buffers_`, `current_marker_index_`, `current_heap_offset_`, two recycled lists, the heap | AllocateMarker, FreeMarker, AcquireMarkerBuffer | two critical sections, 32- and 64-bit markers in one buffer, an exhausted heap, failing driver calls | no two owners share a word; markers lie in their buffers |
| CommandBuffer (`command.cc`) and its tracked commands | state, `begin_marker_value_`, tracked commands, a top and a bottom word | Pre/Post of every vkCmd, Begin, End, Reset, QueueSubmit, DumpContents | the GPU runs behind the host, words are recycled uncleared, 16-bit halves wrap | a dump says exactly how far the GPU got |
| Command buffer registries (`command_buffer_tracker.cc`, `command_pool.cc`, `device.cc`) | global map, thread caches, `command_buffers_`, pool lists | Post hooks of allocate, free, pool destruction; lookups | handle values are reused between the driver's call and the hook; caches are not invalidated across threads | a lookup finds the object of the live buffer; the registries agree |
| SubmitTracker (`submit_tracker.cc`, QueueSubmit in `gfr.cc`) | `submit_infos_`, `queue_submits_`, `helper_submit_infos_`, marker words | RegisterSubmitInfo, RecordSubmitStart/Finish, CleanupSubmitInfos, DumpWaitingSubmits, ... | a cleanup frees GPU resources on the word of a marker | helper buffers outlive their submit; the list of waiting submits is exact |
| QueueBindSparse (`gfr.cc`, `bind_sparse_utils.cc`) | the loop's indices | split a call, send the pieces | partial failure, binary semaphores | the queue is given what the application asked for |
| SemaphoreTracker (`semaphore_tracker.cc`) | `semaphores_` with 64-bit markers, `waiting_threads_` | Register, Signal, WriteMarker, waits | host and GPU writes to one word pair | reported values are ones the semaphore had |
| Command tracker, recorder and printer (generated code) | commands and copies of their parameters | TrackPreX, RecordX, Reset, PrintX | a dump prints long after the call, from copies made as deep as the generator goes | a dump prints what was passed |
| GfrContext (`gfr.cc`) | devices, dump options, `total_submits_`, `total_logs_` | hooks, dumps, reports | some twenty mutexes, nested up to five deep; counters and options outside them | no deadlock; no report overwrites another; a report has what it is configured to have |
| Watchdog, hang listener (`gfr.cc`) | `last_submit_time_`, `watchdog_running_`, socket | timer loop, listener loop | concurrent with everything | a hang is reported |
| Device registries, Pipeline, ShaderModule (`device.cc`, `pipeline.cc`, `shader_module.cc`) | maps by handle | create, delete, find | lifetimes | a found object is alive |
| ObjectInfoDB (`object_name_db.cc`) | names by handle | add, find | a pointer outlives the lock | names are those last set |
| LinearAllocator (`linear_allocator.h`) | blocks, active block | Alloc, Reset | alignment, skipped blocks, reuse after Reset | live allocations do not overlap |
| DescriptorSet, SPIR-V parser, dispatch tables, generator, utilities | local or none | formatting, parsing, glue | nothing over time | by reading |

`PROJECT.json` lists these as components with their status, the hazards of each
with the line where it bites, and, for every definition, the lines it models.

## 2. The modules

```
MarkerAllocator ------- MarkerAllocatorProofs (theorems)
CommandBuffer --------- CommandBufferProofs (theorems; refines SubmissionReport)
SubmitTracker --------- SubmitTrackerProofs (theorems; refines SubmissionReport)
QueueBindSparse ------- QueueBindSparseProofs (theorems; refines SparseBinding)
CommandBufferTracker -- CommandBufferTrackerProofs (theorems)
SemaphoreTracker ------ SemaphoreTrackerProofs (theorems)
LinearAllocator <- CommandRecorder -- CommandRecorderProofs (theorems)
HookScripts <----- GfrContext ------- GfrContextProofs (theorems)
Vectors                 used by SubmitTracker and CommandBufferTracker
MC<Module>              TLC instance of each state machine
```

`SubmissionReport` and `SparseBinding` are abstract specifications; the others
translate code. Where components interact, the module of one has in it what
matters of the other: CommandBuffer and SubmitTracker carry the words that
recycled markers keep, which is all of the allocator that matters to them;
CommandRecorder is the recorder over LinearAllocator; GfrContext composes the
locking of all of them, hook by hook.

A module that asks its questions of several settings has a constant `Configs`,
a set of records (what fails, what the environment variables set, how much is
recorded), and its initial states choose one of them; the MC module names each.

**MarkerAllocator.** An owner is a `Marker` object of the program.
`TakeRecycled`/`NothingRecycled` are the first critical section of
AllocateMarker (the mutex of the recycled list), `CarveFromCurrent`,
`CarveFromNewBuffer` and `AcquireFails` the second (`marker_buffers_mutex_`),
with AcquireMarkerBuffer and CreateHostBuffer inlined. Offsets are counted in
32-bit words. A failed bind or map frees the heap and keeps its handle, as the
code does.

**CommandBuffer.** Handles are primaries or secondaries. A recorded command
adds to the driver's stream its top write, itself, and its bottom write, as the
generated `PreX`/`PostX` do; the GPU *fetches* the stream in order, performing
top writes, and *retires* it behind, performing bottom writes. An application
call with its hooks is one step, since Vulkan makes the application synchronise
the calls on a command buffer; the GPU moves between any two. Marker words keep
the code's encoding (a high half that identifies the recording, a low half that
is the command's id) with halves of `HighRange` and `LowRange` values for
2^16 each, and the arithmetic wraps as `uint32_t` does. Allocation takes any
pair of words that free markers hold, so a new buffer sees an old one's values.
The report operators (`GetCommandBufferState`, `GetCommandState`,
`Dumped`, `Lines`) are those of the dump code, evaluated in one state: a dump
that reads a word while the GPU changes it reads the value before or after.

**CommandBufferTracker.** The driver's part of a call and the Post hook are two
steps. Handles belong to nobody: any thread may use, free and destroy what
another one allocated, and after the first step the value may be given out
again, to any thread. `Lookup`, `CacheAfterLookup` and `CacheAfterDelete` are
GetGfrCommandBuffer and DeleteGfrCommandBuffer. Objects are numbered as they are
created: an object that has left the map is destroyed, and a hook that is given
one, or none, changes nothing. Two history variables, which only the properties
read, say where the code goes wrong: `reused_early` has the handles whose value
was given out before the hook of the call that freed them, `deleted_by` the
thread that made the last deletion of a handle.

**QueueBindSparse.** One run of the function, one step per loop iteration (two
when an iteration sends both bind infos and a helper). `Expand` is
ExpandBindSparseInfo; `Executes` is the meaning of binary semaphores on a queue,
and the initial states are the calls that are valid for the application.

**SubmitTracker.** Every call into the tracker is a step, because the wrappers
in `gfr.cc` hold `devices_mutex_`; between them other threads, the GPU and the
words' other owners move. Each thread has a queue. Helper submits of sparse
binds are sent apart from where they are recorded. The semaphores of a submit
are in SemaphoreTracker. CleanupSubmitInfos reads all words in one step. A
fresh word is 0. A helper buffer whose vkBeginCommandBuffer fails would be given
to the driver unrecorded, which has no defined outcome, and is left out.

**LinearAllocator and CommandRecorder.** LinearAllocator has operators on blocks:
the head rounded up to the alignment of the *address*, the first block at or
after the active one that has room, the size of a new block, and Reset, which
moves heads and clears nothing. CommandRecorder records calls with them. The
generated functions, one per Vulkan command, have five shapes, by what their
parameters point to: nothing, an array of values, a structure with an array, a
structure with a string, untyped data. A shape is a sequence of *pieces*; a
step copies one, and stores its address in the piece that points to it. Cells
stand for words, and a dump is evaluated on the cells, so that it shows what a
read past a copy finds: `Read`, `ReadArray`, `ReadString`, `Printed`. An array
that a structure points to is taken to have an element.

**HookScripts and GfrContext.** HookScripts gives, for each hook, the sequence
of positions a thread goes through: the mutexes it holds there, the one it
locks, and what it does to the context's shared state. A hook includes all it
calls in the other files. Hooks that behave differently (a buffer that is still
in use, a semaphore or a submit that is traced, a submit that is not tracked)
have a script for each case, and a loop is one passage. Left out
are the lookup of the layer's dispatch table by an intercept, with nothing
locked; the second marker of a semaphore and the signal of one that was just
registered, which repeat the passages before them; and the name of an object
whose marker cannot be allocated, looked up under `devices_mutex_` alone. No new
order of two mutexes comes with these. GfrContext runs threads through the
scripts, on an application's calls, the watchdog's timer and the listener's
signal, and gives the effects their meaning: the time of the last submit, which
is taken in one statement and stored in another, and tested with an interval of
at most `OneSecond`; the submit counter; the name and the number of a report; the
option that a failed validation forces and restores. Reports are records of their name and of whether they have all
commands. `std::mutex` is not recursive: a thread that locks what it holds
waits for itself.

**SemaphoreTracker.** A marker is two words; the GPU's writes are operations of
a queue, one word each, in the order of WriteMarker, and a host write sets both
words at once. A queue's operations are what the layer and the driver put there:
the wait, the resets of the first helper buffer, the writes of the last one, and
the end of the call, whose signals happen when it retires. Signals are therefore
in the marker before they are in the semaphore. Host calls are the driver's part
and the Post hook; the hook of a wait reads the counter and writes it back in two
steps, with `devices_mutex_` held (`Unlocked`) but the GPU moving. `sem` is the
driver's view, with a history of who modified a semaphore last, which only the
properties read. `ValidUse` says what Vulkan asks of an application; `Serialised`
asks more: no host call overlaps a GPU signal of its semaphore, nor the helpers of
a sparse bind, of which the last writes the markers when the bind has signaled
already; and no other queue uses the semaphores of a sparse bind meanwhile. The
three properties of reported values and modifiers are checked under `Serialised`
and say nothing of other applications. There a host write can put back a value
that the GPU has passed, or land between the GPU's two words, and the helper of a
sparse bind can set again a binary semaphore that another queue has consumed;
what is reported then stays wrong until the semaphore is signaled again. With
`Serialised = FALSE` TLC finds `ReportedValueIsExact` violated after six steps;
the hazards say where in the code. Both markers are always allocated, as when all
semaphores are traced. The waiting threads are modelled for both builds
(`sys_gettid`): the hooks take a thread's id under `#ifdef SYS_gettid` only, and
elsewhere, as on Windows, each entry has the id 0 (`NoTid`), so that a thread
takes out the first entry of any. A sparse bind that waits for a timeline
semaphore that is not tracked is left out: GetSemaphoreType takes it for binary
and the wait helper signals it without a value, which the driver does not define.

## 3. The runs

| Run | Question | Bounds |
|---|---|---|
| `marker_allocator` | do live markers ever overlap, leave their buffer, or their buffer the heap? | 3 owners, buffers of 4 words, a heap of 14: a 64-bit marker meets the end of a buffer, and three buffers use the heap up; all driver failures |
| `command_buffer` | does a dump tell the truth about every buffer and every instrumented command, and does each submission leave it? | low half 8 (more than any id), high half 3 so that it wraps through 0; a primary with a secondary; a primary of 2 commands with and without instrumentation and failing calls; 2 primaries that share words |
| `command_buffer_resubmit` | is a second execution of a recording in the dump? (no) | 1 primary, 1 secondary |
| `command_buffer_tracker` | do lookups find the right object, and do the registries agree? | 2 threads that share 2 handles and 2 pools, a dumping thread, 4 objects created: handles move between threads, and their values are reused after and before the hook of the free or of the pool's destruction |
| `command_buffer_tracker_watchdog` | does a dump read live objects? (no) | the same |
| `command_recorder` | are copies kept until Reset, do dumps print what was passed, does recording again need no new memory? | a call of each shape, 4 pieces a recording, 3 recordings, blocks of 3 cells aligned to 2: most recordings need several blocks and skip some |
| `gfr_context` | do hooks deadlock, are reports distinct and as configured, is a hang reported? | 2 application threads that call every hook, of traced objects too, without an end; 3 threads that write 3 reports; a watchdog with a timeout of 2, a clock of 4 and a report every second submit; one with a timeout of 4, of which half is longer than the second that the test's interval is cut to |
| `queue_bind_sparse` | is the split call the call, when binds fail, and what is left of that when a helper fails? | up to 3 bind infos over 2 binary semaphores and 1 timeline |
| `queue_bind_sparse_tail` | does a successful call bind everything? (no) | up to 2 bind infos, no failures |
| `submit_tracker` | are helper buffers freed early, do the maps agree, is the list exact, does it empty? | 2 threads, 3 pairs of helper buffers, 2 submits a call; 7 words and nothing that fails, or 5 words with failing calls, with and without sparse binds |
| `submit_tracker_stale` | are helper buffers freed early when sparse binds recycle words? (yes) | 1 thread, 5 pairs, 6 words |
| `semaphore_tracker` | is a reported value the semaphore's, whole or torn, and the named modifier the last? are blocked threads listed? | a `Serialised` application, builds with and without thread ids; 2 threads, 2 queues, 2 submits and 1 sparse bind, words of 4 values with a timeline that goes through 3, 4 and 5, so that a signal crosses a word and a host signal can follow two others, markers for 2 registrations so that a later one fails |

Why the bounds are enough: each instance is the smallest in which every action
fires and every resource named in the question runs out or wraps at least once;
the counters that never wrap in the code within a model's horizon (ids, buffers
ever allocated, objects created, reports) are cut by a bound in the guard that
starts them, marked in the module. For the locking, two threads suffice to meet
every pair of critical sections; cycles of three are excluded by the proof.
`CHECK_DEADLOCK FALSE` is set where an application that is done, or a returned
call, is a legitimate end; deadlock of the code's own locks is `NoCircularWait`,
which a run with an idle thread would otherwise hide.

The properties that carry the project, beside the type invariants:

* *What a dump says.* `StateReportExact`, `RunningIsIncomplete`,
  `CompletedReportsAreTrueAfterBegin`, `InstrumentedNotStartedReportsAreTrue`
  and `OnlyInFlightIsReported` relate the two words of a buffer to the GPU's
  position; `ReportsMoveForward` (the refinement of SubmissionReport, by
  CommandBuffer and by SubmitTracker) says that a submission enters the report
  once and leaves it once. `WaitingListIsExact` and `RegistriesAgree` say it of
  the list of waiting submits and the maps it is joined from.
* *What lives.* `LiveMarkersDisjoint`, `BuffersOutliveSubmit`,
  `LookupsAreCoherent`, `PiecesKept`.
* *What is passed on.* `BindsAsAsked` (the refinement of SparseBinding),
  `InOrder`, `HelpersKeepSemaphores`, `SignalingCallIsComplete`;
  `ParametersArePassed`.
* *The context.* `NoCircularWait`, `ReportsAreDistinct`, `OptionsAsConfigured`.
* *What must happen.* `SubmittedIsEventuallyComplete`, `SubmittedLeavesTheDump`,
  `HangIsReported`.

Fairness, in the modules of submissions, is assumed of the GPU alone
(`GPUFetch`, `GPURetire`, `GPUStart`, `GPUFinish`): a GPU that does not hang
executes what was submitted. Nothing is assumed of the application or of the
layer's threads there. The liveness properties say what the reports do when
nothing is wrong; that a hang stays in the report is safety
(`StateReportExact`, `WaitingListIsExact`). GfrContext assumes that time goes on
(`Tick`), that the watchdog's thread wakes up and runs (`WakeUp`, `TestTimer`)
and that a thread inside a hook goes on when it can (`Step`): the positions are
host code between locks, and no position waits for the GPU, since vkWaitSemaphores
waits between two critical sections. No lock is assumed to be strongly fair, and
nothing makes an application's thread call; that is when `HangIsReported` matters.

### What the violation runs show

* **A second execution is not in the log.** `CommandBuffer::QueueSubmit` leaves
  the markers alone, so the end marker of the first execution makes the buffer
  "completed" from its second submission until its begin marker is written
  (`command_buffer_resubmit`).
* **A dump reads destroyed objects.** The dumping thread's lookup cache is
  thread-local and only the deleting thread's is cleared
  (`command_buffer_tracker_watchdog`). The same cache serves a destroyed object
  to an application thread when a handle moves between threads; the passing
  run has that, and `LookupsAreCoherent` says which lookups are right nevertheless.
* **Bind infos after the last helper are not sent.** The remainder test adds
  the counter of what was counted and not sent (`queue_bind_sparse_tail`).
* **Helper buffers are freed before they are submitted** when the bottom marker
  is a recycled word that says kFinished (`submit_tracker_stale`).

Other places where the code falls short of its comments are modelled as they
are and have a note in the hazards: the properties are stated where the code
holds them. `CompletedReportsAreTrueAfterBegin` holds after the begin marker
retired, because before it the distance is taken from 0;
`BindsAsAsked` and `SignalingCallIsComplete` leave out what follows a helper
submit that failed, because the count of what is left is then taken from the
helpers;
`InstrumentedNotStartedReportsAreTrue` holds of instrumented commands, since the
others write no marker; a lookup may return a destroyed object after another
thread's deletion, and `LookupsAreCoherent` says that it does not after the thread's own, and that it
never finds nothing; PostFreeCommandBuffers, when the driver has given the value
out again, removes the new object, whose addition may meet the assertion of
AddCommandBuffer, and `RegistriesAgree` says that the registries then still agree
with each other, and with the driver on every other handle; without thread ids
EndWaitOnSemaphores removes the entry of another thread that is blocked, and
`BlockedThreadsAreListed` says only that there are entries enough; reported
values are exact for `Serialised` applications;
`ParametersArePassed` says of arrays in structures, and of strings, only what the
copies hold; `NoCircularWait` excepts the traced vkDestroySemaphore, which locks
`devices_mutex_` twice.

## 4. What is proved

| Theorem | States | For every |
|---|---|---|
| `MarkerAllocatorProofs!TypeCorrect`, `MarkersDisjoint`, `MarkersInBounds`, `BuffersApart` | `TypeOK`, `LiveMarkersDisjoint`, `LiveMarkersInBounds`, `BuffersDisjointInHeap` | set of owners, even buffer size, heap size, set of failing calls |
| `CommandBufferTrackerProofs!TypeCorrect`, `LookupsStayCoherent`, `RegistriesStayAgreed` | `TypeOK`, `LookupsAreCoherent`, `RegistriesAgree` | set of threads, handles and pools, any number of objects, whichever thread uses a handle and however early its value is reused |
| `SubmitTrackerProofs!TypeCorrect`, `RegistriesCorrect`, `BuffersOutlive`, `WaitingListExact`, `ReportsRefine` | `TypeOK`, `RegistriesAgree`, `BuffersOutliveSubmit`, `WaitingListIsExact`, `ReportsMoveForward` | set of threads, number of helper buffers, words and submits a call, set of failing calls |
| `CommandBufferProofs!TypeCorrect` | `TypeOK` | set of primaries and secondaries, width of the two halves of a word, configuration |
| `CommandBufferProofs!ReportsAreExact`, `UnfinishedAreDumped` | `StateReportExact`, `IncompleteIsDumped` | the same, given `OneTimeAndShort` |
| `CommandBufferProofs!ReportedAreInFlight`, `ReportsRefine` | `OnlyInFlightIsReported`, `ReportsMoveForward` | the same, given also `NoSubmitFails` |
| `CommandBufferProofs!NotStartedReportsAreTrue`, `RunningReportsAreTrue` | `InstrumentedNotStartedReportsAreTrue`, `RunningIsIncomplete` | the same, given `OneTimeAndShort` |
| `CommandBufferProofs!CompletedReportsAreTrue` | `CompletedReportsAreTrueAfterBegin` | the same, given also `NoSubmitFails` |
| `QueueBindSparseProofs!TypeCorrect`, `BindsStayInOrder`, `SemaphoresStayPaired`, `SignalingCallsComplete`, `SplitRefines` | `TypeOK`, `InOrder`, `HelpersKeepSemaphores`, `SignalingCallIsComplete`, `BindsAsAsked` | set of semaphores and of bind infos, number of bind infos, set of failing calls |
| `SemaphoreTrackerProofs!TypeCorrect`, `BlockedStayListed` | `TypeOK`, `BlockedThreadsAreListed` | set of threads, queues, semaphores and values, number of waits and of failed ones, builds with and without thread ids, `Serialised` or not |
| `CommandRecorderProofs!RecorderTypeCorrect`, `RecordingsAreKept`, `ParametersStayPassed`, `RerecordingsDoNotGrow` | `TypeOK`, `PiecesKept`, `ParametersArePassed`, `RerecordingDoesNotGrow` | set of calls, block size, alignment, addresses of blocks, length of a recording |
| `GfrContextProofs!HooksOrdered` | the order in which every hook locks | script of HookScripts |
| `GfrContextProofs!DeadlockFree`, `TypeCorrect`, `ReportsStayDistinct`, `ReportsKeepOptions` | `NoCircularWait`, `TypeOK`, `ReportsAreDistinct`, `OptionsAsConfigured` | set of threads, configuration, number of calls |

The assumptions are those the modules state of their constants:
`MarkerAllocator`: `EventCount` a positive even number (1024 in the code) and
`HeapSize` a natural number; `CommandBufferTracker`: the dumping threads are not
the application's, `None` is no pool and no thread, and `NoHandle` no handle;
`SubmitTracker`: configurations of their type, and at least one submit a call;
`CommandBuffer`: both halves of a word have at least two values, and a handle has
one level; `QueueBindSparse`: bind infos of their type; `SemaphoreTracker`: finitely
many semaphores, of which the binary ones signal and wait with the value 1, words
of more than 3 values, so that each SemaphoreModifierType fits, and ids that fit a
word (they are 32 bits in SemaphoreModifierInfo); the values waited for are values
of a timeline semaphore; `NoTid` is no thread; `CommandRecorder`: an alignment of
at least 1, block addresses taken modulo it, calls of the five shapes, an element
in each array that a structure points to, and no NUL inside a string;
`GfrContext`: configurations of their type, and a second of some length.

**MarkerAllocator.** Disjointness is not inductive. A marker may also be in a
recycled list, and the next one may be carved from the current buffer, so the
invariant `IInv` adds: the index lies in the last buffer or at its end
(`IndexInLastBuffer`); what is held, and what is recycled, was carved, that is,
lies below the index and in one buffer (`HeldCarved`, `RecycledCarved`); held
markers are apart from each other, from recycled ones, and those from each other
(`HeldApart`, `HeldApartFromRecycled`, `RecycledApart`). `RecycledCarved` also
says that each list holds markers of its own type, without which an owner would
read two words of a marker that has one. Each action is then a lemma: taking
moves one marker from a list to an owner, freeing moves it back, carving takes
words at or above the index. `BuffersApart` rests on an invariant of its own:
buffers lie below the heap's offset, one after the other, and the offset only
grows, also when an attempt fails.

**CommandBufferTracker.** Some of the invariant (`IInv`) holds of every handle,
whoever uses it and however early it is reused (`Always`): calls under way are on
different pools (`CallsApart`), a pool that no call is about lists exactly what
the driver has of it (`PoolsKnown`), a handle just allocated is not in its pool's
list yet, one just freed still is (`AllocatedUnlisted`, `FreedListed`), and the
driver has no handle left of a pool that is being destroyed (`DestroyedEmpty`).
So does that the device's list names the handles of the map (`ListNamesTheMap`,
one of the properties): each hook changes both for the same handles. The rest is
for the handles that were not reused early (`NotEarly`): one call at a time names
them (`NamedOnce`), outside calls they are in the map exactly when the driver has
them (`HandlesKnown`), between an allocation and its hook they are not
(`AllocatedUnknown`), between a free and its hook they are (`FreedKnown`), and
the device's list has them once (`DeviceListsOnce`). A handle that is reused
early leaves this part for good, and what the late hook does to it disturbs no
other. A lookup rests on two more facts: a cache that has a handle has an object
(`CachedSome`), and that object is the map's unless another thread made the
handle's last deletion (`CachesTrue`). The condition is needed, as the violation
run shows of the dumping thread. The hook of an allocation appends a
handle that the map does not have, and the loops that erase are `Kept`. The
types need that the calls under way have objects left to number (`Room`).

**CommandBuffer.** What a report says rests on what was recorded long before, so
the invariant follows a primary through its life (`Faithful`). While it is
recorded, its stream begins with its first top marker and every marker of its
own has a value strictly between the begin and the end value (`Open`); once
ended, the last operation, and no other, writes the end value (`Closed`); until
it is submitted both words are 0 (`Clear`), whoever had them before. In flight,
the top word is above the begin value exactly when the GPU has fetched
something, and the bottom word has the end value exactly when it has retired
everything (`Progress`). Secondaries are inlined, but their operations write
their own words (`StreamsFit`): so a step on one buffer leaves the words of
another primary alone (`OthersKept`), and one lemma per call is left for the
buffer itself. Two things break `Progress`, and the theorems assume them away:
a recording that is executed again finds its old words, which is the violation
run's finding, and one with 2^16 - 2 commands or more writes the end value
early (`OneTimeAndShort`). A failed vkQueueSubmit leaves `kPending` with nothing
in flight, which is why two theorems also need `NoSubmitFails`; with it a
buffer that is not in flight stays `kPending` only when it has been executed
(`Settled`). For the refinement, `Stage` is the reported stage in terms of the
words; each call leaves the stage of every primary, forgets one that is done or
was never submitted (`QuietIsForget`), or moves one primary one stage
(`MoveIsStep`).

What a dump says of single commands rests on the order of a whole stream, and so
on a second invariant over the first (`Detailed`). In the stream of a recording
that was not invalidated, the operations of one buffer are sorted by the command
they belong to and, of one command, as top marker, command, bottom marker
(`Sorted`); each belongs to a command that is tracked, or is the end marker
(`Known`); and a command that is instrumented comes after its top marker
(`Preceded`). That is `Own` of the buffer itself and, in `Executes`, of each
secondary inlined in a primary, whose operations moreover lie between the two
markers of the vkCmdExecuteCommands (`Enclosed`) and whose recording is still
the one that was inlined: recording it anew invalidates the primary, and no
other primary that could be submitted has it (`Apart`). Then a marker word is
the largest value that the GPU has written to it (`Words`, by `LatestAdvances`),
the difference to the begin marker is a command's id (`WordIsOfCommand`), what
the bottom word covers has retired (`CompleteIsRetired`) and what was fetched is
covered by the top word (`FetchedIsStarted`); a secondary under a command that
is complete or not started follows from `Enclosed` (`AroundSecondary`).
`NoSubmitFails` is needed for what reads completed: after a vkQueueSubmit that
failed, the primary stays `kPending` with its words 0 and reads all completed;
when a secondary of it is recorded anew and executed by another primary, the
commands listed under the first read completed and its begin marker has
retired, but nothing of the first was run. TLC finds that behaviour in some 25
steps when "submit" is among the failures of a configuration with a secondary
in two primaries.

**SubmitTracker.** The properties are about words that others write, so the
invariant (`IInv`) first types the state (`Basics`), then says who owns what
(`Structure`): a marker word belongs to one tracked submit, to one helper submit
or to the allocator; helper buffers belong to one submit; the entries in flight,
those of a call under way and the maps name the same submits, in order; and
every write that the GPU has yet to make goes to a word of the submit whose
buffers make it. Only then can it say what a word means (`Values`): the top word
of a submit is kQueued until the GPU starts it and kRunning after, the bottom
word becomes kFinished with the GPU's last write, and in no other way, where
sparse binds recycle no words; and a helper submit's word is kQueued from the
moment it is listed until then, whatever it was before. Without the ownership
none of this is inductive, since a cleanup recycles words while other threads
allocate them. Steps are of three kinds, with a lemma for each on what it
preserves: most only give something up (`Narrows`: a cleanup, a failed call, a
buffer that is returned); the others append a submit to the batch of a call
(`Appends`) or a write to the last one of a batch (`Edits`). `BuffersOutlive` and
`WaitingListExact` are read off it under the condition that each of their parts
names, and the refinement adds that each step moves the report of one submit, or
of those that a cleanup finds finished, one stage on.

**QueueBindSparse.** The loop keeps one index into the expanded call and two
counts, of the bind infos it has sent and of those it has only counted. The
invariant says how they go together (`Progress`: the binds before the index are
those sent and those counted, and the rest are helpers) and what the queue has
then taken (`Given`: the first n bind infos, each once, with helpers between them
that leave the semaphores as the bind infos do). Both counts are of recursive
functions over the sequence, so the lemmas go one operation at a time, also where
one vkQueueBindSparse sends many (`GivenOneMore`, `BindGives`). A helper waits for
what the bind info before it signals, or signals what the one after it waits for;
that it can execute wherever the application's own call can follows from the call
being valid up to that bind info (`After`, `HelperGives`). `SignalingCallIsComplete`
is a part of the invariant: a call whose last bind info signals ends with a helper,
so that nothing is left that is only counted; what follows the return keeps it. For the refinement each step
gives the queue the next bind infos in order or none; the exception is the step
after a failed helper, where the rest is counted from the helpers.

**SemaphoreTracker.** `waiting_threads_` is shared, and a wait that failed leaves
its entry in it, so the entry that EndWaitOnSemaphores takes out may be an older
one of the thread. Where threads have ids, the invariant (`EntryKept`) therefore
does not say that a
thread has one entry, but that one which is blocked has an entry with what it
waits for, and one on the way to its Post hook has some entry: without that the
first entry found would be nobody's. Removal keeps the others' (`RemoveEntryKeeps`,
from what the library's theorems say of concatenation and of a set's minimum).
Without ids nothing of the kind holds, and what is left is a count: an entry is
added by each thread that begins to wait and removed only by one that ends, so
there are at least as many entries as threads between the two.
The types are an invariant of the queues (`QueuesTyped`): what a queue holds is
what a submission or a sparse bind put there, with the semaphores' values and the
call's modifier, so that the GPU writes into a marker only halves of what `Split`
made of a value; that these fit a word is arithmetic on a quotient and a
remainder, and needs that the driver's value is one of the application's.

**CommandRecorder.** The invariant is about memory and about the call under way.
Memory (`Sound`): blocks after the active one are empty, a piece lies below the
head of its block, pieces of one block lie one after the other, and the cells
hold what was copied. The call (`CallSound`): each piece that is still to be
copied is part of what was passed, and the one that points to it is copied
before it, from a cell that exists. The second is what makes a stored address
stay inside its own piece, so that storing it disturbs no other. An allocation
is two lemmas: a block is added (or none is), and a piece is put at or after
the active block, where room was found; a stored pointer is a third, Reset a
fourth. What a dump prints of it, as far as `ParametersArePassed` says it (the first
element of an array in a structure, as much of a string as was copied, nothing of
untyped data), needs to know more than that the pieces are intact: a
second invariant over the first (`PassedInv`) says what they hold. Of each
recorded command, and of what is copied of the call under way, a piece is what
was passed, but for the cell that points to the next piece, which has its address
(`Copied`): every piece is the first of its call or belongs to the one before it
(`PiecesAreChained`), and the pieces of a command lie before those of the call, so
that a later address is never stored in them. A dump then follows the addresses
(`ReadOfPiece`), and a string's characters come before any NUL (`ReadStringOfPiece`). That the
same recording makes no new block compares two recordings, of which one is over. A third
invariant (`PlacesInv`) keeps the *places* of both, the active block and its head
after each piece (`Path`). These depend on the sizes of the pieces and the blocks'
sizes and addresses only, which later blocks do not change (`PathInMore`), and
are determined (`TakesOnce`): a recording that began as an earlier one is where
that one was, and its next piece has a place without a new block.

**GfrContext.** Mutexes are of five kinds: `devices_mutex_`, which is locked
with nothing held; *gated* ones, which are locked only with it held, in any
order; and outer, middle and inner ones, of which a thread locks only one of a
later kind than those it holds. `HooksOrdered` says that every position of every
script but the traced vkDestroySemaphore's is so; it is proved by composing
scripts from their parts, and is all that the proof needs of the hooks' locking. With it goes an invariant that
mutexes exclude (`Mutual`), which rests on consecutive positions (`Linked`):
a position holds what the one before held, less what was
unlocked, and what it locked. Let a set of threads wait for each other. None waits for
an inner mutex, as its owner in the set would wait for nothing; then none for a
middle one, and none for an outer one. Who waits for a gated one holds
`devices_mutex_`, as does its owner, so they are one thread, which does not wait
for what it holds. Then all wait for `devices_mutex_`, and hold nothing.
This is why CleanupSubmitInfos and DumpWaitingSubmits may lock `submit_infos_`
and `queue_submits_` in opposite orders. For the reports, `Linked` also says that
a report is named, counted and saved without leaving `devices_mutex_`; the
invariant `Numbered` says that the reports written have numbers below
`total_logs_`, and which number a thread between two of the statements has. For the dump
option, each position of a script has a *mode* (`ModesAlong`): plain, the option
read, forced, or forced and read. Scripts are composed from their parts again, to
show that a position with the option forced holds `devices_mutex_` and that every
script ends with nothing forced. So at most one thread forces, and the invariant
(`Configured`) is that then its local `saved` has the configured value, otherwise
the shared option has it, and what a thread has read is right for its report.

**Recursive definitions.** The loops that erase from a vector, the dump that
goes through command buffers with its cache, the expansion of a sparse bind and
what it signals, and the writes of a helper buffer, are recursive functions. That such
a function exists is proved first (`KeptExists`, `CachesExist`, `SignaledExists`,
`ExpandedExists`, `ConcatExists`), one value at a time, and then what it computes
(`KeptKeeps`), both by induction over the
natural numbers that a set holds (`SetInduction`, which rests on `<` being
well-founded). The library's SelectSeq and folds cannot be expanded in a proof,
which is why the modules have functions of their own in these places.

Only model-checked: what SemaphoreTracker reports of values and modifiers
(`ReportedValueIsExact`, `ReportedValueIsNotAhead`, `NamedModifierIsLast`), which
needs an invariant on all the orders in which the queues' operations can overlap
under `Serialised`. Liveness
(`SubmittedIsEventuallyComplete`, `SubmittedLeavesTheDump`, `HangIsReported`)
stays with TLC: fairness is out of the prover's reach.

## 5. What is not modelled

Most of the repository's lines are generated: of some 67 000 lines in `src/` and
`generated/`, about 58 000 are `command_printer.cc` (34 000), `layer_base.*`
(10 000), `command_recorder.*` (9 000) and the rest of `generated/`, one function
or structure per Vulkan command, extension and type. Functions of one shape are
alike but for names, and CommandRecorder models each shape once, mapped to
functions that have it. The share of lines mapped is small for that reason: a
definition per generated function would say the same thing again. Of the code
written by hand, what is left out is:

* Formatting: the printers' output, the YAML of a report, the shader dumps and
  the SPIR-V parser behind them, and the strings helper. A pass over its input
  each, without state.
* Bound state: DescriptorSet and the pipelines bound at an incomplete command,
  which are recorded and printed but decide nothing.
* The dispatch tables, extension negotiation and physical-device hooks: glue
  between the loader and the driver.
* Device registries of pipelines and shader modules, and ObjectInfoDB: their
  mutexes and who takes them are in HookScripts; the maps have one writer a call
  and are looked up by handle.
* Undefined behaviour between threads: a dump that reads a CommandBuffer while
  it is recorded, command pools shared without a lock, a pointer into
  ObjectInfoDB after its mutex. The hazards list the lines. There is no model of
  what such a program does; CommandBuffer has dumps between calls.
* The values that SemaphoreTracker reports without `Serialised`: what host writes
  and the helpers of sparse binds do to them is in the hazards.
* The value of a command pool that is given to a new pool between
  vkDestroyCommandPool and its hook, which would then delete the new pool's entry:
  CommandBufferTracker gives it to a new one after the hook only.

What would come next: the values that SemaphoreTracker reports as theorems, which
need the order of the queues' operations on a semaphore as an invariant.
