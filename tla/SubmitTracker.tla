---------------------------- MODULE SubmitTracker ----------------------------
(***************************************************************************)
(* The tracking of vkQueueSubmit and of the helper submits of              *)
(* vkQueueBindSparse when semaphores are tracked (SubmitTracker in         *)
(* src/submit_tracker.cc, QueueSubmit and QueueBindSparse in src/gfr.cc).  *)
(*                                                                         *)
(* Around the command buffers of a submit the layer puts two of its own:   *)
(* the first makes the GPU write kRunning in the submit's top marker, the  *)
(* last kFinished in its bottom marker.  The layer frees its buffers at a  *)
(* later call that finds kFinished there.  Each call of the tracker is one *)
(* step: the wrappers in gfr.cc hold devices_mutex_, as a dump does.       *)
(*                                                                         *)
(* A pair of helper buffers is a number, counted as they are allocated;    *)
(* thread t submits to a queue of its own.                                 *)
(***************************************************************************)
EXTENDS Integers, Sequences, SequencesExt, Vectors

CONSTANTS
  Threads,
  Configs,     \* marker memory, application and driver
  MaxCount,    \* bound: submits, or helpers, of one call
  MaxBuffers   \* bound: pairs of helper buffers ever allocated

\* A configuration: the words that the marker allocator has, whether the
\* application uses vkQueueBindSparse too, and the driver calls that may fail.
ASSUME ConfigAssumption ==
  \A c \in Configs :
    /\ c.MaxWords \in Nat
    /\ c.BindSparse \in BOOLEAN
    /\ c.Failures \subseteq {"allocate", "submit"}

ASSUME BoundAssumption == MaxCount \in Nat \ {0} /\ MaxBuffers \in Nat

VARIABLES
  config,               \* one of Configs, for good
  word,                 \* the contents of the marker words
  markers,              \* the allocator: the words recycled, the next fresh one
  submit_info_counter, queue_submit_index_,
  submit_infos_, queue_submits_, helper_submit_infos_,
  call,                 \* the call each thread is in
  allocated, freed,     \* helper buffers: how many, and those freed
  queue,                \* what each driver queue was given
  started, finished     \* how much of it the GPU has started and finished

tracker == <<submit_info_counter, submit_infos_, queue_submits_>>
gpu == <<queue, started, finished>>
vars == <<config, word, markers, tracker, queue_submit_index_, helper_submit_infos_,
          call, allocated, freed, gpu>>

MaxWords == config.MaxWords
BindSparse == config.BindSparse
Failures == config.Failures

\* SubmitState, and any value a command buffer's marker holds but 0.
kInvalid == 0
kQueued == 1
kRunning == 2
kFinished == 3
CommandBufferValue == 4

\* kInvalidSubmitInfoId, and a null handle or marker.
Invalid == 0
Null == 0

Ids == 1 .. MaxBuffers
Words == 1 .. MaxWords

SubmitInfo == [top_marker : Words, bottom_marker : Words, cbs : 0 .. MaxBuffers]

\* What the GPU writes for an element of a queue, and the buffers it uses.
Entry(cbs, top, bottom) == [cbs |-> cbs, top |-> top, bottom |-> bottom]

\* A thread's call: where it is, its queue submit's id, the submits to come,
\* the id and the buffers of the current one, and what the driver will get.
Idle == [pc |-> "idle", qid |-> 0, left |-> 0, id |-> Invalid, cbs |-> Null,
         batch |-> <<>>]

Init ==
  /\ config \in Configs
  /\ word = [w \in Words |-> kInvalid]
  /\ markers = [recycled |-> <<>>, next |-> 1]
  /\ submit_info_counter = 0
  /\ queue_submit_index_ = 0
  /\ submit_infos_ = <<>>
  /\ queue_submits_ = <<>>
  /\ helper_submit_infos_ = <<>>
  /\ call = [t \in Threads |-> Idle]
  /\ allocated = 0
  /\ freed = {}
  /\ queue = [t \in Threads |-> <<>>]
  /\ started = [t \in Threads |-> 0]
  /\ finished = [t \in Threads |-> 0]

-----------------------------------------------------------------------------
(* Device::AllocateMarker and FreeMarker: the word recycled last, as its    *)
(* owner left it, or a fresh one.                                          *)

HasRoom(m) == m.recycled # <<>> \/ m.next <= MaxWords

\* Mutant: a fresh word is taken one too far.
AllocatedNext(m) == IF m.recycled # <<>> THEN Last(m.recycled) ELSE m.next + 1

Allocated(m) == IF m.recycled # <<>> THEN Last(m.recycled) ELSE m.next

Without(m) ==
  IF m.recycled # <<>> THEN [m EXCEPT !.recycled = Front(@)]
  ELSE [m EXCEPT !.next = @ + 1]

Recycle(m, w) == [m EXCEPT !.recycled = Append(@, w)]

\* The words of a list of helpers, one after the other.
RecycleAll(m, helpers) ==
  [m EXCEPT !.recycled = @ \o [k \in 1 .. Len(helpers) |-> helpers[k].marker]]

\* A command buffer took a word and gave it back with a value of its own.
CommandBufferReturns ==
  /\ HasRoom(markers)
  /\ markers' = Recycle(Without(markers), Allocated(markers))
  /\ \E v \in {0, CommandBufferValue} : word' = [word EXCEPT ![Allocated(markers)] = v]
  /\ UNCHANGED <<tracker, queue_submit_index_, helper_submit_infos_, call,
                 allocated, freed, gpu>>

-----------------------------------------------------------------------------
(* QueueSubmit, once per VkSubmitInfo of the call.                         *)

\* Buffers allocated, or to be allocated by the calls under way: a call begins
\* only where the bound lets it end.
Reserved == allocated + MapThenSumSet(LAMBDA t : call[t].left, Threads)

SubmitBegins(t, count) ==
  /\ call[t].pc = "idle"
  /\ queue_submit_index_' = queue_submit_index_ + 1
  /\ call' = [call EXCEPT ![t] = [Idle EXCEPT !.pc = "register", !.left = count,
                                              !.qid = queue_submit_index_ + 1]]
  /\ Reserved + count <= MaxBuffers /\ queue_submit_index_ < MaxBuffers  \* bounds
  /\ UNCHANGED <<word, markers, tracker, helper_submit_infos_, allocated,
                 freed, gpu>>

Registering(t) == call[t].pc = "register" /\ call[t].left > 0

\* The pair of helper buffers cannot be allocated: the application's submit
\* is passed on alone, and what was registered stays.
AllocateFails(t) ==
  /\ Registering(t)
  /\ "allocate" \in Failures
  /\ call' = [call EXCEPT ![t] = Idle]
  /\ UNCHANGED <<word, markers, tracker, queue_submit_index_,
                 helper_submit_infos_, allocated, freed, gpu>>

\* queue_submits_[queue_submit_index].push_back(id).
PushSubmit(qid, id) ==
  queue_submits_' =
    [q \in DOMAIN queue_submits_ \cup {qid} |->
       LET ids == IF q \in DOMAIN queue_submits_ THEN queue_submits_[q] ELSE <<>>
       IN IF q = qid THEN Append(ids, id) ELSE ids]

\* RegisterSubmitInfo: two markers, not initialised.
Register(t) ==
  LET id == submit_info_counter + 1 IN
  /\ Registering(t)
  /\ allocated < MaxBuffers  \* bound
  /\ allocated' = allocated + 1
  /\ HasRoom(markers) /\ HasRoom(Without(markers))
  /\ markers' = Without(Without(markers))
  /\ submit_infos_' =
       [k \in DOMAIN submit_infos_ \cup {id} |->
          IF k = id
          THEN [top_marker |-> Allocated(markers),
                bottom_marker |-> Allocated(Without(markers)), cbs |-> Null]
          ELSE submit_infos_[k]]
  /\ submit_info_counter' = id
  /\ PushSubmit(call[t].qid, id)
  /\ call' = [call EXCEPT ![t].pc = "store", ![t].id = id,
                          ![t].left = @ - 1, ![t].cbs = allocated']
  /\ UNCHANGED <<word, queue_submit_index_, helper_submit_infos_, freed, gpu>>

\* It returns kInvalidSubmitInfoId, and frees the top marker if it got one.
RegisterFails(t) ==
  /\ Registering(t)
  /\ allocated < MaxBuffers  \* bound
  /\ allocated' = allocated + 1
  /\ \/ ~HasRoom(markers) /\ UNCHANGED markers
     \/ /\ HasRoom(markers) /\ ~HasRoom(Without(markers))
        /\ markers' = Recycle(Without(markers), Allocated(markers))
  /\ call' = [call EXCEPT ![t].pc = "store", ![t].id = Invalid,
                          ![t].left = @ - 1, ![t].cbs = allocated']
  /\ UNCHANGED <<word, tracker, queue_submit_index_, helper_submit_infos_,
                 freed, gpu>>

Known(t) == call[t].id \in DOMAIN submit_infos_

\* StoreSubmitHelperCommandBuffersInfo.
Store(t) ==
  /\ call[t].pc = "store"
  /\ submit_infos_' = IF Known(t)
                      THEN [submit_infos_ EXCEPT ![call[t].id].cbs = call[t].cbs]
                      ELSE submit_infos_
  /\ call' = [call EXCEPT ![t].pc = "start",
                          ![t].batch = Append(@, Entry(call[t].cbs, Null, Null))]
  /\ UNCHANGED <<word, markers, submit_info_counter, queue_submits_,
                 queue_submit_index_, helper_submit_infos_, allocated, freed, gpu>>

\* Mutant: the write is not recorded.
NoWrite(t, field, w) == call[t].batch

\* The marker write that the current buffers now hold, in the batch.
WithWrite(t, field, w) ==
  [call[t].batch EXCEPT ![Len(call[t].batch)] = [@ EXCEPT ![field] = w]]

\* RecordSubmitStart: the host writes kQueued, the GPU will write kRunning.
RecordSubmitStart(t) ==
  /\ call[t].pc = "start"
  /\ IF Known(t)
       THEN LET top == submit_infos_[call[t].id].top_marker
            IN /\ word' = [word EXCEPT ![top] = kQueued]
               /\ call' = [call EXCEPT ![t].pc = "finish",
                                       ![t].batch = WithWrite(t, "top", top)]
       ELSE call' = [call EXCEPT ![t].pc = "finish"] /\ UNCHANGED word
  /\ UNCHANGED <<markers, tracker, queue_submit_index_, helper_submit_infos_,
                 allocated, freed, gpu>>

\* Mutant: the top marker is read for the bottom one.
FinishedByTop == {id \in DOMAIN submit_infos_ :
                    word[submit_infos_[id].top_marker] = kRunning}

\* The submits whose bottom marker says so.
Finished == {id \in DOMAIN submit_infos_ :
               word[submit_infos_[id].bottom_marker] = kFinished}

\* Mutant: an erased submit stays listed under its queue submit.
KeepListed == UNCHANGED queue_submits_

\* Erased from their queue submits; an empty one is erased too.
EraseListed ==
  LET left == [q \in DOMAIN queue_submits_ |->
                 Kept(queue_submits_[q], ToSet(queue_submits_[q]) \ Finished)]
  IN queue_submits_' =
       [q \in {r \in DOMAIN left : left[r] # <<>>} |-> left[q]]

\* CleanupSubmitInfos, on one snapshot of the words: the helper buffers are
\* freed, the markers are not.
CleanupSubmitInfos ==
  /\ freed' = freed \cup ({submit_infos_[id].cbs : id \in Finished} \ {Null})
  /\ submit_infos_' = [id \in DOMAIN submit_infos_ \ Finished |-> submit_infos_[id]]
  /\ EraseListed

\* RecordSubmitFinish, with the cleanup that its wrapper makes under the lock.
RecordSubmitFinish(t) ==
  /\ call[t].pc = "finish"
  /\ call' = [call EXCEPT
                ![t].pc = "register", ![t].cbs = Null,
                ![t].batch =
                  IF Known(t)
                  THEN WithWrite(t, "bottom", submit_infos_[call[t].id].bottom_marker)
                  ELSE @]
  /\ CleanupSubmitInfos
  /\ UNCHANGED <<word, markers, submit_info_counter, queue_submit_index_,
                 helper_submit_infos_, allocated, gpu>>

\* The driver's vkQueueSubmit; a failure leaves the tracker as it is.
QueueSubmit(t) ==
  /\ call[t].pc = "register" /\ call[t].left = 0
  /\ \/ queue' = [queue EXCEPT ![t] = @ \o call[t].batch]
     \/ "submit" \in Failures /\ UNCHANGED queue
  /\ call' = [call EXCEPT ![t] = Idle]
  /\ UNCHANGED <<word, markers, tracker, queue_submit_index_,
                 helper_submit_infos_, allocated, freed, started, finished>>

-----------------------------------------------------------------------------
(* QueueBindSparse: the helper submits are all recorded, then sent.        *)

BindBegins(t, count) ==
  /\ BindSparse
  /\ call[t].pc = "idle"
  /\ Reserved + count <= MaxBuffers  \* bound
  /\ call' = [call EXCEPT ![t] = [Idle EXCEPT !.pc = "record", !.left = count]]
  /\ UNCHANGED <<word, markers, tracker, queue_submit_index_,
                 helper_submit_infos_, allocated, freed, gpu>>

\* Mutant: a helper submit that is only queued is taken for finished.
HelperFinishedWhenQueued(h) == word[h.marker] \in {kQueued, kFinished}

HelperFinished(h) == word[h.marker] = kFinished

\* CleanupBindSparseHelperSubmits, then RecordBindSparseHelperSubmit under
\* the same lock.  Without a marker the helper is not tracked.
RecordBindSparseHelperSubmit(t) ==
  LET done == {h \in ToSet(helper_submit_infos_) : HelperFinished(h)}
      left == Kept(helper_submit_infos_, ToSet(helper_submit_infos_) \ done)
      m == RecycleAll(markers, Kept(helper_submit_infos_, done))
      cb == allocated + 1
  IN
  /\ call[t].pc = "record" /\ call[t].left > 0
  /\ allocated < MaxBuffers  \* bound
  /\ allocated' = cb
  /\ freed' = freed \cup {h.cbs : h \in done}
  /\ IF HasRoom(m)
       THEN /\ markers' = Without(m)
            /\ helper_submit_infos_' =
                 Append(left, [marker |-> Allocated(m), cbs |-> cb])
            /\ word' = [word EXCEPT ![Allocated(m)] = kQueued]
       ELSE helper_submit_infos_' = left /\ UNCHANGED <<markers, word>>
  /\ call' = [call EXCEPT
                ![t].left = @ - 1,
                ![t].batch = Append(@, Entry(cb, Null,
                                IF HasRoom(m) THEN Allocated(m) ELSE Null))]
  /\ UNCHANGED <<tracker, queue_submit_index_, gpu>>

\* The helpers are sent one by one; after a failure the others are not.
SendHelper(t) ==
  /\ call[t].pc = "record" /\ call[t].left = 0
  /\ LET rest == Tail(call[t].batch) IN
     \/ /\ queue' = [queue EXCEPT ![t] = Append(@, Head(call[t].batch))]
        /\ call' = [call EXCEPT ![t] = IF rest = <<>> THEN Idle
                                       ELSE [@ EXCEPT !.batch = rest]]
     \/ /\ "submit" \in Failures
        /\ call' = [call EXCEPT ![t] = Idle]
        /\ UNCHANGED queue
  /\ UNCHANGED <<word, markers, tracker, queue_submit_index_,
                 helper_submit_infos_, allocated, freed, started, finished>>

-----------------------------------------------------------------------------
(* The GPU starts the elements of a queue in order, and finishes them in   *)
(* order; a start need not wait for the finish before it.                  *)

Written(w, value) == IF w = Null THEN word ELSE [word EXCEPT ![w] = value]

GPUStart(t) ==
  /\ started[t] < Len(queue[t])
  /\ word' = Written(queue[t][started[t] + 1].top, kRunning)
  /\ started' = [started EXCEPT ![t] = @ + 1]
  /\ UNCHANGED <<markers, tracker, queue_submit_index_, helper_submit_infos_,
                 call, allocated, freed, queue, finished>>

GPUFinish(t) ==
  /\ finished[t] < started[t]
  /\ word' = Written(queue[t][finished[t] + 1].bottom, kFinished)
  /\ finished' = [finished EXCEPT ![t] = @ + 1]
  /\ UNCHANGED <<markers, tracker, queue_submit_index_, helper_submit_infos_,
                 call, allocated, freed, queue, started>>

Next ==
  /\ UNCHANGED config
  /\ \/ CommandBufferReturns
     \/ \E t \in Threads :
          \/ \E count \in 1 .. MaxCount : SubmitBegins(t, count) \/ BindBegins(t, count)
          \/ AllocateFails(t) \/ Register(t) \/ RegisterFails(t) \/ Store(t)
          \/ RecordSubmitStart(t) \/ RecordSubmitFinish(t) \/ QueueSubmit(t)
          \/ RecordBindSparseHelperSubmit(t) \/ SendHelper(t)
          \/ GPUStart(t) \/ GPUFinish(t)

Spec == Init /\ [][Next]_vars

\* A GPU that does not hang executes what its queues were given.
FairSpec ==
  Spec /\ \A t \in Threads : /\ WF_vars(GPUStart(t) /\ UNCHANGED config)
                             /\ WF_vars(GPUFinish(t) /\ UNCHANGED config)

-----------------------------------------------------------------------------
(* DumpWaitingSubmits: the incomplete submits of every queue submit.       *)

Listed ==
  {id \in UNION {ToSet(queue_submits_[q]) : q \in DOMAIN queue_submits_} :
     /\ word[submit_infos_[id].bottom_marker] # kFinished
     /\ word[submit_infos_[id].top_marker] # kFinished}

\* Mutant: the states of the report are swapped.
SwappedReport(id) ==
  CASE word[submit_infos_[id].top_marker] = kQueued  -> "STARTED,INCOMPLETE"
    [] word[submit_infos_[id].top_marker] = kRunning -> "QUEUED"
    [] OTHER                                         -> ""

\* The state printed; nothing is printed for a value that is no SubmitState.
StateReport(id) ==
  CASE word[submit_infos_[id].top_marker] = kRunning -> "STARTED,INCOMPLETE"
    [] word[submit_infos_[id].top_marker] = kQueued  -> "QUEUED"
    [] OTHER                                         -> ""

-----------------------------------------------------------------------------
(* What is checked.                                                        *)

\* Type invariant.
TypeOK ==
  /\ config \in Configs
  /\ word \in [Words -> 0 .. CommandBufferValue]
  /\ markers \in [recycled : Seq(Words), next : 1 .. MaxWords + 1]
  /\ submit_info_counter \in 0 .. MaxBuffers
  /\ queue_submit_index_ \in Nat
  /\ DOMAIN submit_infos_ \subseteq Ids
  /\ \A id \in DOMAIN submit_infos_ : submit_infos_[id] \in SubmitInfo
  /\ \A q \in DOMAIN queue_submits_ : queue_submits_[q] \in Seq(Ids)
  /\ helper_submit_infos_ \in Seq([marker : Words, cbs : Ids])
  /\ \A t \in Threads : call[t].left \in 0 .. MaxCount
  /\ allocated \in 0 .. MaxBuffers
  /\ freed \subseteq 1 .. allocated
  /\ \A t \in Threads : finished[t] <= started[t] /\ started[t] <= Len(queue[t])

\* The submits that queue_submits_ names, each once, are those that
\* submit_infos_ has: DumpWaitingSubmits indexes one map by the other, and a
\* missing entry would be read through a null marker address.
RegistriesAgree ==
  /\ UNION {ToSet(queue_submits_[q]) : q \in DOMAIN queue_submits_}
       = DOMAIN submit_infos_
  /\ \A q, r \in DOMAIN queue_submits_ :
       \A j \in 1 .. Len(queue_submits_[q]), k \in 1 .. Len(queue_submits_[r]) :
         queue_submits_[q][j] = queue_submits_[r][k] => q = r /\ j = k

InFlight(t) == {queue[t][k] : k \in finished[t] + 1 .. Len(queue[t])}

\* Buffers the GPU may execute, or the layer will record or submit.
InUse == UNION {{e.cbs : e \in InFlight(t) \cup ToSet(call[t].batch)}
                  \cup {call[t].cbs} : t \in Threads}

\* The helper buffers of a submit are freed only when the GPU is done with
\* them: "free extra command buffers used to track the state of the submit"
\* (CleanupSubmitInfos), on the word of a marker with earlier owners.
HelperBuffersOutliveSubmit == InUse \cap freed = {}

\* They are where no sparse bind recycles words that say kFinished: the
\* other owners of words, command buffers, leave larger values.
BuffersOutliveUnsharedSubmit == ~BindSparse => HelperBuffersOutliveSubmit

\* So are those of a vkQueueBindSparse, whatever happens to the others:
\* their marker is set to kQueued before a cleanup can read it
\* (RecordBindSparseHelperSubmit).
BindSparseBuffersOutliveSubmit ==
  \A h \in ToSet(helper_submit_infos_) :
    HelperFinished(h) => h.cbs \notin InUse

\* No helper buffer is freed, or about to be, while it is in use, in these
\* two cases (CleanupSubmitInfos, CleanupBindSparseHelperSubmits).
BuffersOutliveSubmit ==
  BuffersOutliveUnsharedSubmit /\ BindSparseBuffersOutliveSubmit

\* A dump lists every tracked submit that the GPU has not finished, as started
\* exactly when the GPU has started it ("IncompleteQueueSubmits"), where no
\* sparse bind recycles its words.
InFlightIsListed ==
  \A t \in Threads : \A k \in finished[t] + 1 .. Len(queue[t]) :
    ~BindSparse /\ queue[t][k].top # Null =>
      \E id \in Listed :
        /\ submit_infos_[id].cbs = queue[t][k].cbs
        /\ StateReport(id) = IF k <= started[t] THEN "STARTED,INCOMPLETE"
                             ELSE "QUEUED"

\* It lists nothing else than submits in flight and those of a call that is
\* under way, when no driver call fails.
ListedIsInFlight ==
  Failures = {} => \A id \in Listed : submit_infos_[id].cbs \in InUse \cup {Null}

\* The list of waiting submits is exact in both directions.
WaitingListIsExact == InFlightIsListed /\ ListedIsInFlight

\* The abstract stage of a submit, from what a dump shows.  An application
\* with sparse binds has none: a recycled word may take a submit off the list.
ReportedStage ==
  [id \in Ids |->
     IF BindSparse THEN "unsubmitted"
     ELSE CASE id \in Listed /\ StateReport(id) = "QUEUED"             -> "notStarted"
            [] id \in Listed /\ StateReport(id) = "STARTED,INCOMPLETE" -> "incomplete"
            [] id \in Finished /\ word[submit_infos_[id].top_marker] = kRunning -> "completed"
            [] OTHER                                                   -> "unsubmitted"]

Report == INSTANCE SubmissionReport WITH Buffers <- Ids, report <- ReportedStage

\* The dumps of a submit implement SubmissionReport: queued, started, gone,
\* whatever other threads register, clean up and submit meanwhile.
ReportsMoveForward == Report!Spec

\* A submit that was given to a queue leaves the dump for good when the GPU
\* does not hang: the kFinished it writes is never overwritten while listed.
SubmittedLeavesTheDump ==
  \A n \in Ids :
    (\E t \in Threads : \E e \in InFlight(t) : e.cbs = n)
      ~> [](\A id \in Listed : submit_infos_[id].cbs # n)
=============================================================================
