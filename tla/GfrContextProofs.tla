-------------------------- MODULE GfrContextProofs --------------------------
(***************************************************************************)
(* GfrContext, for every set of threads and every configuration: its       *)
(* types, that mutexes exclude, that no hooks deadlock, that no report     *)
(* overwrites another and that each is written with the options it should  *)
(* be.  It rests on three properties of the hooks' scripts, proved first.  *)
(*                                                                         *)
(* Order.  Every hook takes the layer's mutexes in one order:              *)
(* devices_mutex_ first and alone, then, inside it, the mutexes it gates,  *)
(* in any order, and last the others, from the outermost to the innermost. *)
(* The only exception is DestroySemaphoreTraced.                           *)
(*                                                                         *)
(* Links.  Every hook starts with no mutex, goes on with those that it     *)
(* held or has just locked, and writes a report in three steps in a row,   *)
(* inside devices_mutex_.                                                  *)
(*                                                                         *)
(* Modes.  A hook that forces the dump options restores them before it     *)
(* ends, holds devices_mutex_ until then, and reads the options before it  *)
(* saves a report; no other hook touches them.                             *)
(***************************************************************************)
EXTENDS GfrContext, SequenceTheorems, TLAPS

-----------------------------------------------------------------------------
(* Order: the kinds of mutexes.                                            *)

(* The mutexes that are only ever taken with devices_mutex_ held.          *)
Gated ==
  {"command_pools", "command_buffers", "submit_infos", "queue_submits",
   "helper_submit_infos", "semaphores", "waiting_threads",
   "queue_family_index_trackers", "helper_command_pools"}

(* The others, from the outermost to the innermost.                        *)
Outer == {"pipelines"}
Middle == {"shader_modules", "global_commandbuffer_map", "marker_buffers"}
Inner ==
  {"object_info_db", "recycled", "layer", "queue_device_tracker",
   "device_create_infos"}

Mutexes == {"devices"} \cup Gated \cup Outer \cup Middle \cup Inner

Effects ==
  {Nothing, "TakeTime", "StoreSubmitTime", "TestTimer", "LoadTotalSubmits",
   "StoreTotalSubmits", "TestSubmit", "ForceDumpAll", "RestoreDumpAll",
   "ReadOptions", "NameReport", "CountReport", "SaveReport"}

PositionType ==
  {p \in [hold : SUBSET Mutexes, lock : Mutexes \cup {Nothing}, do : Effects] :
     p.lock = Nothing \/ p.do = Nothing}

(* A position respects the order.                                          *)
Ordered(p) ==
  /\ p.lock \notin p.hold
  /\ p.lock = "devices" => p.hold = {}
  /\ \A m \in p.hold :
       /\ m \in Inner => p.lock = Nothing
       /\ m \in Middle => p.lock \in Inner \cup {Nothing}
       /\ m \in Outer => p.lock \in Middle \cup Inner \cup {Nothing}
       /\ m \in Gated => "devices" \in p.hold
  /\ p.lock \in Gated => "devices" \in p.hold

AllOrdered(s) == s \in Seq(PositionType) /\ \A k \in 1..Len(s) : Ordered(s[k])

-----------------------------------------------------------------------------
(* Scripts are made of positions, sections and concatenations.             *)

LEMMA PositionsTyped ==
  /\ \A hold \in SUBSET Mutexes, m \in Mutexes : On(hold, m) \in PositionType
  /\ \A hold \in SUBSET Mutexes, do \in Effects : Do(do, hold) \in PositionType
  /\ \A hold \in SUBSET Mutexes : At(hold) \in PositionType
BY DEF On, Do, At, PositionType, Nothing, Effects

LEMMA OrderedOne ==
  ASSUME NEW p \in PositionType, Ordered(p)
  PROVE  AllOrdered(<<p>>)
BY DEF AllOrdered

LEMMA OrderedTwo ==
  ASSUME NEW p \in PositionType, NEW q \in PositionType, Ordered(p), Ordered(q)
  PROVE  AllOrdered(<<p, q>>)
BY DEF AllOrdered

LEMMA OrderedThree ==
  ASSUME NEW p \in PositionType, NEW q \in PositionType, NEW r \in PositionType,
         Ordered(p), Ordered(q), Ordered(r)
  PROVE  AllOrdered(<<p, q, r>>)
BY DEF AllOrdered

LEMMA OrderedSection ==
  ASSUME NEW hold \in SUBSET Mutexes, NEW m \in Mutexes,
         Ordered(On(hold, m)), Ordered(At(hold \cup {m}))
  PROVE  AllOrdered(Section(hold, m))
BY OrderedTwo, PositionsTyped DEF Section

LEMMA OrderedConcat ==
  ASSUME NEW s, NEW t, AllOrdered(s), AllOrdered(t)
  PROVE  AllOrdered(s \o t)
<1>1. s \o t \in Seq(PositionType) BY DEF AllOrdered
<1>2. \A k \in 1..Len(s \o t) :
        (s \o t)[k] = IF k <= Len(s) THEN s[k] ELSE t[k - Len(s)]
  BY DEF AllOrdered
<1>3. QED BY <1>1, <1>2 DEF AllOrdered

-----------------------------------------------------------------------------
(* What the scripts are made of is ordered when its parts are.             *)
LEMMA OrderedParts ==
  /\ \A s, t : AllOrdered(s) /\ AllOrdered(t) => AllOrdered(s \o t)
  /\ \A hold \in SUBSET Mutexes, m \in Mutexes :
       Ordered(On(hold, m)) /\ Ordered(At(hold \cup {m}))
         => AllOrdered(Section(hold, m))
  /\ \A p \in PositionType : Ordered(p) => AllOrdered(<<p>>)
  /\ \A p, q \in PositionType :
       Ordered(p) /\ Ordered(q) => AllOrdered(<<p, q>>)
  /\ \A p, q, r \in PositionType :
       Ordered(p) /\ Ordered(q) /\ Ordered(r) => AllOrdered(<<p, q, r>>)
BY OrderedConcat, OrderedSection, OrderedOne, OrderedTwo, OrderedThree

USE DEF Ordered, On, At, Do, D, OnDevices, Mutexes, Gated, Outer, Middle,
        Inner, Nothing, Effects

(* Every script but DestroySemaphoreTraced is ordered.                     *)
LEMMA AllocateMarkerOrdered ==
  AllOrdered(AllocateMarker(D))
BY OrderedParts, PositionsTyped DEF AllocateMarker

LEMMA DumpContentsOrdered ==
  ASSUME NEW hold \in SUBSET ({"devices"} \cup Gated), "devices" \in hold
  PROVE  AllOrdered(DumpContents(hold))
BY OrderedParts, PositionsTyped DEF DumpContents

LEMMA DumpTrackersOrdered ==
  AllOrdered(DumpTrackers)
BY OrderedParts, PositionsTyped DEF DumpTrackers

LEMMA DumpStateOrdered ==
  AllOrdered(DumpState)
<1>1. AllOrdered(DumpContents(D \cup {"command_buffers"}))
  BY OrderedParts, PositionsTyped, DumpContentsOrdered
<1>2. QED
  BY OrderedParts, PositionsTyped, DumpTrackersOrdered, <1>1 DEF DumpState

LEMMA WriteReportOrdered ==
  AllOrdered(WriteReport)
BY OrderedParts, PositionsTyped DEF WriteReport

LEMMA DumpValidationFailedOrdered ==
  AllOrdered(DumpValidationFailed)
BY OrderedParts, PositionsTyped, DumpStateOrdered, WriteReportOrdered DEF
   DumpValidationFailed

LEMMA DeleteCommandBuffersOrdered ==
  AllOrdered(DeleteCommandBuffers)
BY OrderedParts, PositionsTyped DEF DeleteCommandBuffers

LEMMA RecordSubmitFinishOrdered ==
  AllOrdered(RecordSubmitFinish)
BY OrderedParts, PositionsTyped DEF RecordSubmitFinish

LEMMA CreateDeviceOrdered ==
  AllOrdered(CreateDevice)
BY OrderedParts, PositionsTyped DEF CreateDevice

LEMMA GetDeviceQueueOrdered ==
  AllOrdered(GetDeviceQueue)
BY OrderedParts, PositionsTyped DEF GetDeviceQueue

LEMMA CreateShaderModuleOrdered ==
  AllOrdered(CreateShaderModule)
BY OrderedParts, PositionsTyped DEF CreateShaderModule

LEMMA CreatePipelineOrdered ==
  AllOrdered(CreatePipeline)
BY OrderedParts, PositionsTyped DEF CreatePipeline

LEMMA SetObjectNameOrdered ==
  AllOrdered(SetObjectName)
BY OrderedParts, PositionsTyped DEF SetObjectName

LEMMA CreateCommandPoolOrdered ==
  AllOrdered(CreateCommandPool)
BY OrderedParts, PositionsTyped DEF CreateCommandPool

LEMMA ResetCommandPoolOrdered ==
  AllOrdered(ResetCommandPool)
BY OrderedParts, PositionsTyped DEF ResetCommandPool

LEMMA DestroyCommandPoolOrdered ==
  AllOrdered(DestroyCommandPool)
BY OrderedParts, PositionsTyped DEF DestroyCommandPool

LEMMA CreateSemaphoreOrdered ==
  AllOrdered(CreateSemaphore)
BY OrderedParts, PositionsTyped, AllocateMarkerOrdered DEF CreateSemaphore

LEMMA DestroySemaphoreOrdered ==
  AllOrdered(DestroySemaphore)
BY OrderedParts, PositionsTyped DEF DestroySemaphore

LEMMA GetObjectNameOrdered ==
  AllOrdered(GetObjectName)
BY OrderedParts, PositionsTyped DEF GetObjectName

LEMMA SignalTrackedOrdered ==
  AllOrdered(SignalTracked)
BY OrderedParts, PositionsTyped DEF SignalTracked

LEMMA CreateSemaphoreTracedOrdered ==
  AllOrdered(CreateSemaphoreTraced)
BY OrderedParts, CreateSemaphoreOrdered, GetObjectNameOrdered DEF
   CreateSemaphoreTraced

LEMMA SignalSemaphoreOrdered ==
  AllOrdered(SignalSemaphore) /\ AllOrdered(SignalSemaphoreTraced)
BY OrderedParts, PositionsTyped, SignalTrackedOrdered, GetObjectNameOrdered DEF
   SignalSemaphore, SignalSemaphoreTraced

LEMMA BeginWaitOrdered ==
  AllOrdered(BeginWait)
BY OrderedParts, PositionsTyped DEF BeginWait

LEMMA EndWaitOrdered ==
  AllOrdered(EndWait)
BY OrderedParts, PositionsTyped, SignalTrackedOrdered DEF EndWait

LEMMA WaitSemaphoresOrdered ==
  AllOrdered(WaitSemaphores) /\ AllOrdered(WaitSemaphoresTraced)
BY OrderedParts, BeginWaitOrdered, EndWaitOrdered, GetObjectNameOrdered DEF
   WaitSemaphores, WaitSemaphoresTraced

LEMMA InvalidatePoolInUseOrdered ==
  AllOrdered(InvalidatePoolInUse)
<1>1. AllOrdered(DumpContents(D \cup {"command_pools"}))
  BY OrderedParts, PositionsTyped, DumpContentsOrdered
<1>2. QED
  BY OrderedParts, PositionsTyped, DumpValidationFailedOrdered, <1>1 DEF
     InvalidatePoolInUse

LEMMA AllocateCommandBuffersOrdered ==
  AllOrdered(AllocateCommandBuffers)
BY OrderedParts, PositionsTyped, AllocateMarkerOrdered DEF
   AllocateCommandBuffers

LEMMA FreeCommandBuffersOrdered ==
  AllOrdered(FreeCommandBuffers)
BY OrderedParts, PositionsTyped, DeleteCommandBuffersOrdered DEF
   FreeCommandBuffers

LEMMA FreeCommandBuffersInUseOrdered ==
  AllOrdered(FreeCommandBuffersInUse)
<1>1. AllOrdered(DumpContents(D))
  BY OrderedParts, PositionsTyped, DumpContentsOrdered
<1>2. QED
  BY OrderedParts, PositionsTyped, DumpValidationFailedOrdered,
     DeleteCommandBuffersOrdered, <1>1
   DEF FreeCommandBuffersInUse

LEMMA BeginCommandBufferOrdered ==
  AllOrdered(BeginCommandBuffer)
BY OrderedParts, PositionsTyped DEF BeginCommandBuffer

LEMMA BeginCommandBufferInUseOrdered ==
  AllOrdered(BeginCommandBufferInUse)
<1>1. AllOrdered(DumpContents(D))
  BY OrderedParts, PositionsTyped, DumpContentsOrdered
<1>2. QED
  BY OrderedParts, PositionsTyped, BeginCommandBufferOrdered,
     DumpValidationFailedOrdered, <1>1
   DEF BeginCommandBufferInUse

LEMMA BindPipelineOrdered ==
  AllOrdered(BindPipeline)
BY OrderedParts, PositionsTyped DEF BindPipeline

LEMMA TrackSubmitOrdered ==
  AllOrdered(TrackSubmit)
BY OrderedParts, PositionsTyped, AllocateMarkerOrdered,
   RecordSubmitFinishOrdered DEF TrackSubmit

LEMMA PreQueueSubmitOrdered ==
  AllOrdered(PreQueueSubmit)
BY OrderedParts, PositionsTyped DEF PreQueueSubmit

LEMMA PostQueueSubmitOrdered ==
  AllOrdered(PostQueueSubmit)
BY OrderedParts, PositionsTyped DEF PostQueueSubmit

LEMMA QueueSubmitOrdered ==
  AllOrdered(QueueSubmit)
BY OrderedParts, PositionsTyped, PreQueueSubmitOrdered, TrackSubmitOrdered,
   PostQueueSubmitOrdered
   DEF QueueSubmit

LEMMA LogSubmitInfoSemaphoresOrdered ==
  AllOrdered(LogSubmitInfoSemaphores)
BY OrderedParts, PositionsTyped DEF LogSubmitInfoSemaphores

LEMMA QueueSubmitTracedOrdered ==
  AllOrdered(QueueSubmitTraced)
BY OrderedParts, PreQueueSubmitOrdered, TrackSubmitOrdered,
   LogSubmitInfoSemaphoresOrdered, PostQueueSubmitOrdered
   DEF QueueSubmitTraced

LEMMA QueueSubmitUntrackedOrdered ==
  AllOrdered(QueueSubmitUntracked)
BY OrderedParts, PositionsTyped, PreQueueSubmitOrdered, PostQueueSubmitOrdered
   DEF QueueSubmitUntracked

LEMMA SplitBindSparseOrdered ==
  AllOrdered(SplitBindSparse)
BY OrderedParts, PositionsTyped, AllocateMarkerOrdered DEF SplitBindSparse

LEMMA LogBindSparseInfosSemaphoresOrdered ==
  AllOrdered(LogBindSparseInfosSemaphores)
BY OrderedParts, PositionsTyped DEF LogBindSparseInfosSemaphores

LEMMA QueueBindSparseOrdered ==
  AllOrdered(QueueBindSparse) /\ AllOrdered(QueueBindSparseTraced)
BY OrderedParts, PositionsTyped, SplitBindSparseOrdered,
   LogBindSparseInfosSemaphoresOrdered
   DEF QueueBindSparse, QueueBindSparseTraced

LEMMA DumpDeviceOrdered ==
  AllOrdered(DumpDevice)
BY OrderedParts, PositionsTyped, DumpStateOrdered, WriteReportOrdered DEF
   DumpDevice

LEMMA DumpQueueDeviceOrdered ==
  AllOrdered(DumpQueueDevice)
BY OrderedParts, PositionsTyped, DumpDeviceOrdered DEF DumpQueueDevice

LEMMA SignalHangOrdered ==
  AllOrdered(SignalHang)
BY OrderedParts, PositionsTyped, DumpDeviceOrdered DEF SignalHang

LEMMA CheckTimerOrdered ==
  AllOrdered(CheckTimer)
BY OrderedParts, PositionsTyped DEF CheckTimer

LEMMA DumpForWatchdogOrdered ==
  AllOrdered(DumpForWatchdog)
BY OrderedParts, PositionsTyped, DumpDeviceOrdered DEF DumpForWatchdog

(* The order of the mutexes: a hook never locks one that comes before one  *)
(* it holds, and locks a gated one only with devices_mutex_ held (gfr.cc). *)
HooksAreOrdered == \A h \in Hooks \ {"DestroySemaphoreTraced"} : AllOrdered(Script[h])

(* So are all hooks but PostDestroySemaphore when it traces (gfr.cc:1378),  *)
(* which locks devices_mutex_ twice.                                       *)
THEOREM HooksOrdered == HooksAreOrdered
BY CreateDeviceOrdered, GetDeviceQueueOrdered, CreateShaderModuleOrdered,
    CreatePipelineOrdered, SetObjectNameOrdered, CreateCommandPoolOrdered,
    InvalidatePoolInUseOrdered, ResetCommandPoolOrdered,
    DestroyCommandPoolOrdered, AllocateCommandBuffersOrdered,
    FreeCommandBuffersOrdered, FreeCommandBuffersInUseOrdered,
    BeginCommandBufferOrdered, BeginCommandBufferInUseOrdered,
    BindPipelineOrdered, CreateSemaphoreOrdered, DestroySemaphoreOrdered,
    CreateSemaphoreTracedOrdered, SignalSemaphoreOrdered,
    WaitSemaphoresOrdered, QueueSubmitOrdered, QueueSubmitTracedOrdered,
    QueueSubmitUntrackedOrdered, QueueBindSparseOrdered, DumpDeviceOrdered, DumpQueueDeviceOrdered,
    SignalHangOrdered, CheckTimerOrdered, DumpForWatchdogOrdered
   DEF HooksAreOrdered, Hooks, Script

HIDE DEF Ordered, On, At, Do, D, OnDevices, Mutexes, Gated, Outer, Middle,
         Inner, Nothing, Effects

-----------------------------------------------------------------------------
(* Links: what one position of a script leaves to the next.                *)

(* The effects that WriteReport has, and the positions that have one.      *)
ReportEffects == {"NameReport", "CountReport", "SaveReport"}

(* A position p may be followed by q in a script.                          *)
Follows(p, q) ==
  /\ q.hold \subseteq p.hold \cup {p.lock}
  /\ q.do \in ReportEffects => "devices" \in q.hold
  /\ q.do = "CountReport" => p.do = "NameReport"
  /\ q.do = "SaveReport" => p.do = "CountReport"

Linked(s) ==
  /\ s \in Seq(PositionType)
  /\ Len(s) > 0
  /\ \A k \in 1..Len(s) : k < Len(s) => Follows(s[k], s[k+1])

First(s) == s[1]
Final(s) == s[Len(s)]

-----------------------------------------------------------------------------
(* Scripts are made of positions, sections and concatenations.             *)

LEMMA LinkedOne ==
  ASSUME NEW p \in PositionType
  PROVE  Linked(<<p>>) /\ First(<<p>>) = p /\ Final(<<p>>) = p
BY DEF Linked, First, Final

LEMMA LinkedTwo ==
  ASSUME NEW p \in PositionType, NEW q \in PositionType, Follows(p, q)
  PROVE  Linked(<<p, q>>) /\ First(<<p, q>>) = p /\ Final(<<p, q>>) = q
BY DEF Linked, First, Final

LEMMA LinkedThree ==
  ASSUME NEW p \in PositionType, NEW q \in PositionType, NEW r \in PositionType,
         Follows(p, q), Follows(q, r)
  PROVE  Linked(<<p, q, r>>) /\ First(<<p, q, r>>) = p /\ Final(<<p, q, r>>) = r
BY DEF Linked, First, Final

LEMMA LinkedSection ==
  ASSUME NEW hold \in SUBSET Mutexes, NEW m \in Mutexes
  PROVE  Linked(Section(hold, m)) /\ First(Section(hold, m)) = On(hold, m)
<1>1. On(hold, m) \in PositionType /\ At(hold \cup {m}) \in PositionType
  BY PositionsTyped
<1>2. Follows(On(hold, m), At(hold \cup {m}))
  BY DEF Follows, On, At, Do, ReportEffects, Nothing
<1>3. QED BY <1>1, <1>2, LinkedTwo DEF Section

LEMMA LinkedConcat ==
  ASSUME NEW s, NEW t, Linked(s), Linked(t), Follows(Final(s), First(t))
  PROVE  Linked(s \o t) /\ First(s \o t) = First(s) /\ Final(s \o t) = Final(t)
<1>1. s \o t \in Seq(PositionType) /\ Len(s \o t) = Len(s) + Len(t)
      /\ Len(s) \in Nat /\ Len(t) \in Nat
  BY DEF Linked
<1>2. \A k \in 1..Len(s \o t) :
        (s \o t)[k] = IF k <= Len(s) THEN s[k] ELSE t[k - Len(s)]
  BY DEF Linked
<1>3. ASSUME NEW k \in 1..Len(s \o t), k < Len(s \o t)
      PROVE  Follows((s \o t)[k], (s \o t)[k+1])
  <2>1. CASE k < Len(s) BY <2>1, <1>1, <1>2 DEF Linked
  <2>2. CASE k = Len(s)
    BY <2>2, <1>1, <1>2 DEF Linked, First, Final
  <2>3. CASE k > Len(s)
    <3>1. (k - Len(s)) \in 1..Len(t) /\ k - Len(s) < Len(t)
      BY <2>3, <1>1, <1>3
    <3>2. (s \o t)[k] = t[k - Len(s)] /\ (s \o t)[k+1] = t[(k - Len(s)) + 1]
      BY <2>3, <1>1, <1>2, <1>3
    <3>3. Follows(t[k - Len(s)], t[(k - Len(s)) + 1]) BY <3>1 DEF Linked
    <3>4. QED BY <3>2, <3>3
  <2>4. k \in Nat /\ Len(s) \in Nat BY <1>1
  <2>5. k < Len(s) \/ k = Len(s) \/ k > Len(s) BY <2>4
  <2>6. QED BY <2>1, <2>2, <2>3, <2>5
<1>4. (s \o t)[1] = s[1] /\ (s \o t)[Len(s \o t)] = t[Len(t)]
  BY <1>1, <1>2 DEF Linked
<1>5. Len(s \o t) > 0 BY <1>1 DEF Linked
<1>6. Linked(s \o t) BY <1>1, <1>3, <1>5 DEF Linked
<1>7. QED BY <1>6, <1>4 DEF First, Final

LEMMA FinalOfConcat ==
  ASSUME NEW s \in Seq(PositionType), NEW t \in Seq(PositionType), Len(t) > 0
  PROVE  Final(s \o t) = Final(t)
<1>1. /\ Len(s) \in Nat /\ Len(t) \in Nat /\ Len(s \o t) = Len(s) + Len(t)
      /\ (s \o t)[Len(s) + Len(t)] = t[Len(t)]
  OBVIOUS
<1>2. QED BY <1>1 DEF Final

(* What may come after a lock, an effect and a section.                    *)
LEMMA LockThenLock ==
  ASSUME NEW hold, NEW m, NEW before, NEW n, hold \subseteq before \cup {n}
  PROVE  Follows(On(before, n), On(hold, m))
BY DEF Follows, On, ReportEffects, Nothing

LEMMA LockThenEffect ==
  ASSUME NEW hold, NEW do, NEW before, NEW n,
         hold \subseteq before \cup {n}, do \notin ReportEffects
  PROVE  Follows(On(before, n), Do(do, hold))
BY DEF Follows, On, Do, ReportEffects, Nothing

LEMMA EffectThenLock ==
  ASSUME NEW hold, NEW m, NEW before, NEW did, hold \subseteq before
  PROVE  Follows(Do(did, before), On(hold, m))
BY DEF Follows, On, Do, ReportEffects, Nothing

LEMMA EffectThenEffect ==
  ASSUME NEW hold, NEW do, NEW before, NEW did,
         hold \subseteq before, do \notin ReportEffects
  PROVE  Follows(Do(did, before), Do(do, hold))
BY DEF Follows, Do, ReportEffects, Nothing

LEMMA FinalOfSection ==
  ASSUME NEW hold, NEW m
  PROVE  Final(Section(hold, m)) = Do(Nothing, hold \cup {m})
BY DEF Final, Section, At

LEMMA SectionThenLock ==
  ASSUME NEW hold, NEW m, NEW before, NEW n, hold \subseteq before
  PROVE  Follows(Final(Section(before, n)), On(hold, m))
<1>1. Final(Section(before, n)) = Do(Nothing, before \cup {n}) BY FinalOfSection
<1>2. Follows(Do(Nothing, before \cup {n}), On(hold, m))
  BY DEF Follows, On, Do, ReportEffects, Nothing
<1>3. QED BY <1>1, <1>2

LEMMA SectionThenEffect ==
  ASSUME NEW hold, NEW do, NEW before, NEW n,
         hold \subseteq before, do \notin {"CountReport", "SaveReport"},
         do \in ReportEffects => "devices" \in hold
  PROVE  Follows(Final(Section(before, n)), Do(do, hold))
<1>1. Final(Section(before, n)) = Do(Nothing, before \cup {n}) BY FinalOfSection
<1>2. Follows(Do(Nothing, before \cup {n}), Do(do, hold))
  BY DEF Follows, Do, ReportEffects, Nothing
<1>3. QED BY <1>1, <1>2

(* What a script leaves held when it ends, so that what follows can hold it.*)
Leaves(s, hold) == hold \subseteq Final(s).hold

LEMMA LeavingForLock ==
  ASSUME NEW s, NEW hold, NEW m, NEW before,
         Leaves(s, before), hold \subseteq before
  PROVE  Follows(Final(s), On(hold, m))
BY DEF Leaves, Follows, On, ReportEffects, Nothing

LEMMA LeavingForEffect ==
  ASSUME NEW s, NEW hold, NEW do, NEW before,
         Leaves(s, before), hold \subseteq before,
         do \notin {"CountReport", "SaveReport"},
         do \in ReportEffects => "devices" \in hold
  PROVE  Follows(Final(s), Do(do, hold))
BY DEF Leaves, Follows, Do, ReportEffects, Nothing

LEMMA LeavingSection ==
  ASSUME NEW hold, NEW m
  PROVE  Leaves(Section(hold, m), hold)
BY FinalOfSection DEF Leaves, Do

LEMMA LeavingEffect ==
  ASSUME NEW hold \in SUBSET Mutexes, NEW do \in Effects
  PROVE  Leaves(<<Do(do, hold)>>, hold)
BY DEF Leaves, Final, Do

(* The scripts that others continue: what they start with and leave.       *)
Begins(s, p) == Linked(s) /\ First(s) = p

LEMMA WriteReportLinked ==
  /\ Linked(WriteReport) /\ First(WriteReport) = Do("NameReport", D)
  /\ Leaves(WriteReport, D)
BY DEF WriteReport, Linked, First, Final, Leaves, Follows, ReportEffects, Do,
       D, PositionType, Mutexes, Effects, Nothing, Gated, Outer, Middle, Inner

LEMMA LinkedParts ==
  /\ \A s, t : Linked(s) /\ Linked(t) /\ Follows(Final(s), First(t)) =>
       Linked(s \o t) /\ First(s \o t) = First(s) /\ Final(s \o t) = Final(t)
  /\ \A hold \in SUBSET Mutexes, m \in Mutexes :
       Linked(Section(hold, m)) /\ First(Section(hold, m)) = On(hold, m)
  /\ \A p \in PositionType :
       Linked(<<p>>) /\ First(<<p>>) = p /\ Final(<<p>>) = p
  /\ \A p, q \in PositionType : Follows(p, q) =>
       Linked(<<p, q>>) /\ First(<<p, q>>) = p /\ Final(<<p, q>>) = q
  /\ \A hold, m, before, n :
       hold \subseteq before \cup {n} => Follows(On(before, n), On(hold, m))
  /\ \A hold, m, before, n :
       hold \subseteq before => Follows(Final(Section(before, n)), On(hold, m))
BY LinkedConcat, LinkedSection, LinkedOne, LinkedTwo, LockThenLock,
   SectionThenLock

(* ... and, of scripts with effects.                                       *)
LEMMA LinkedEffects ==
  /\ \A hold, do, before, n :
       hold \subseteq before \cup {n} /\ do \notin ReportEffects =>
         Follows(On(before, n), Do(do, hold))
  /\ \A hold, m, before, did :
       hold \subseteq before => Follows(Do(did, before), On(hold, m))
  /\ \A hold, do, before, did :
       hold \subseteq before /\ do \notin ReportEffects =>
         Follows(Do(did, before), Do(do, hold))
  /\ \A hold, do, before, n :
       /\ hold \subseteq before /\ do \notin {"CountReport", "SaveReport"}
       /\ do \in ReportEffects => "devices" \in hold
       => Follows(Final(Section(before, n)), Do(do, hold))
BY LockThenEffect, EffectThenLock, EffectThenEffect, SectionThenEffect

-----------------------------------------------------------------------------
(* Every script is linked.                                                 *)
USE DEF D, OnDevices, Mutexes, Gated, Outer, Middle, Inner

LEMMA AllocateMarkerLinked ==
  /\ Linked(AllocateMarker(D)) /\ First(AllocateMarker(D)) = On(D, "recycled")
  /\ Leaves(AllocateMarker(D), D)
<1>1. Linked(AllocateMarker(D))
  BY LinkedParts, PositionsTyped DEF AllocateMarker
<1>2. First(AllocateMarker(D)) = On(D, "recycled")
  BY LinkedParts, PositionsTyped DEF AllocateMarker
<1>3. Final(AllocateMarker(D)) =
       Final(Section(D \cup {"marker_buffers"}, "layer"))
  BY LinkedParts, PositionsTyped DEF AllocateMarker
<1>4. Leaves(AllocateMarker(D), D)
  BY LinkedParts, PositionsTyped, <1>3, LeavingSection, LeavingEffect DEF Leaves
<1>5. QED BY <1>1, <1>2, <1>4

LEMMA DumpContentsLinked ==
  ASSUME NEW hold \in SUBSET ({"devices"} \cup Gated), "devices" \in hold
  PROVE  /\ Linked(DumpContents(hold)) /\ First(DumpContents(hold)) = On(hold, "global_commandbuffer_map")
         /\ Leaves(DumpContents(hold), hold)
<1>1. Linked(DumpContents(hold))
  <2> DEFINE shaders == hold \cup {"pipelines"}
             names == hold \cup {"pipelines", "shader_modules"}
             a == Section(hold, "global_commandbuffer_map")
             b == Section(hold, "object_info_db")
             c == <<On(hold, "pipelines"), On(shaders, "shader_modules")>>
             d == Section(names, "object_info_db")
  <2>1. /\ hold \in SUBSET Mutexes /\ shaders \in SUBSET Mutexes
        /\ names \in SUBSET Mutexes
    BY LinkedParts, PositionsTyped
  <2>2. /\ Linked(a) /\ Linked(b) /\ Linked(d)
        /\ First(b) = On(hold, "object_info_db")
        /\ First(d) = On(names, "object_info_db")
    BY LinkedParts, PositionsTyped, <2>1, LinkedSection
  <2>3. Linked(c) /\ First(c) = On(hold, "pipelines") /\ Final(c) = On(shaders, "shader_modules")
    BY LinkedParts, PositionsTyped, <2>1, LinkedTwo, LockThenLock,
       PositionsTyped
  <2>4. Follows(Final(a), First(b)) /\ Follows(Final(b), First(c))
    BY LinkedParts, PositionsTyped, <2>2, <2>3, SectionThenLock
  <2>5. Follows(Final(c), First(d))
    BY LinkedParts, PositionsTyped, <2>2, <2>3, LockThenLock
  <2> HIDE DEF a, b, c, d
  <2>6. Linked(a \o b) /\ Final(a \o b) = Final(b)
    BY LinkedParts, PositionsTyped, <2>2, <2>4
  <2>7. Linked((a \o b) \o c) /\ Final((a \o b) \o c) = Final(c)
    BY LinkedParts, PositionsTyped, <2>3, <2>4, <2>6
  <2>8. Linked(((a \o b) \o c) \o d)
    BY LinkedParts, PositionsTyped, <2>2, <2>5, <2>7
  <2>9. QED BY LinkedParts, PositionsTyped, <2>8 DEF DumpContents, a, b, c, d
<1>2. First(DumpContents(hold)) = On(hold, "global_commandbuffer_map")
  BY LinkedParts, PositionsTyped DEF DumpContents
<1>3. Final(DumpContents(hold)) =
       Final(Section(hold \cup {"pipelines", "shader_modules"}, "object_info_db"))
  BY LinkedParts, PositionsTyped DEF DumpContents
<1>4. Leaves(DumpContents(hold), hold)
  BY LinkedParts, PositionsTyped, <1>3, LeavingSection, LeavingEffect DEF Leaves
<1>5. QED BY <1>1, <1>2, <1>4

LEMMA DumpTrackersLinked ==
  /\ Linked(DumpTrackers) /\ First(DumpTrackers) = On(D, "submit_infos")
  /\ Leaves(DumpTrackers, D)
<1>1. Linked(DumpTrackers)
  BY LinkedParts, PositionsTyped DEF DumpTrackers
<1>2. First(DumpTrackers) = On(D, "submit_infos")
  BY LinkedParts, PositionsTyped DEF DumpTrackers
<1>3. Final(DumpTrackers) =
       Final(Section(D \cup {"waiting_threads"}, "object_info_db"))
  <2> DEFINE submits == D \cup {"submit_infos", "queue_submits"}
             waiting == D \cup {"waiting_threads"}
             a == <<On(D, "submit_infos"), On(D \cup {"submit_infos"}, "queue_submits")>>
             b == Section(submits, "semaphores")
             c == Section(submits, "object_info_db")
             d == <<On(D, "waiting_threads")>>
             e == Section(waiting, "semaphores")
             f == Section(waiting, "object_info_db")
  <2>1. /\ submits \in SUBSET Mutexes /\ waiting \in SUBSET Mutexes
        /\ D \in SUBSET Mutexes /\ D \cup {"submit_infos"} \in SUBSET Mutexes
    BY LinkedParts, PositionsTyped
  <2>2. /\ a \in Seq(PositionType) /\ d \in Seq(PositionType)
    BY LinkedParts, PositionsTyped, <2>1, PositionsTyped
  <2>3. /\ b \in Seq(PositionType) /\ c \in Seq(PositionType)
        /\ e \in Seq(PositionType) /\ f \in Seq(PositionType) /\ Len(f) > 0
    BY LinkedParts, PositionsTyped, <2>1, LinkedSection DEF Linked
  <2> HIDE DEF a, b, c, d, e, f
  <2>4. a \o b \o c \o d \o e \in Seq(PositionType)
    BY LinkedParts, PositionsTyped, <2>2, <2>3
  <2>5. Final((a \o b \o c \o d \o e) \o f) = Final(f)
    BY LinkedParts, PositionsTyped, <2>3, <2>4, FinalOfConcat
  <2>6. QED
    BY LinkedParts, PositionsTyped, <2>5 DEF DumpTrackers, a, b, c, d, e, f
<1>4. Leaves(DumpTrackers, D)
  BY LinkedParts, PositionsTyped, <1>3, LeavingSection, LeavingEffect DEF Leaves
<1>5. QED BY <1>1, <1>2, <1>4

LEMMA DeleteCommandBuffersLinked ==
  /\ Linked(DeleteCommandBuffers) /\ First(DeleteCommandBuffers) = On(D, "command_pools")
  /\ Leaves(DeleteCommandBuffers, D)
<1>1. Linked(DeleteCommandBuffers)
  BY LinkedParts, PositionsTyped DEF DeleteCommandBuffers
<1>2. First(DeleteCommandBuffers) = On(D, "command_pools")
  BY LinkedParts, PositionsTyped DEF DeleteCommandBuffers
<1>3. Final(DeleteCommandBuffers) =
       Final(Section(D \cup {"command_buffers", "global_commandbuffer_map"}, "recycled"))
  BY LinkedParts, PositionsTyped DEF DeleteCommandBuffers
<1>4. Leaves(DeleteCommandBuffers, D)
  BY LinkedParts, PositionsTyped, <1>3, LeavingSection, LeavingEffect DEF Leaves
<1>5. QED BY <1>1, <1>2, <1>4

LEMMA RecordSubmitFinishLinked ==
  /\ Linked(RecordSubmitFinish) /\ First(RecordSubmitFinish) = On({}, "devices")
  /\ Leaves(RecordSubmitFinish, D)
<1>1. Linked(RecordSubmitFinish)
  BY LinkedParts, PositionsTyped DEF RecordSubmitFinish
<1>2. First(RecordSubmitFinish) = On({}, "devices")
  BY LinkedParts, PositionsTyped DEF RecordSubmitFinish
<1>3. Final(RecordSubmitFinish) =
       Final(Section(D \cup {"queue_submits"}, "submit_infos"))
  BY LinkedParts, PositionsTyped DEF RecordSubmitFinish
<1>4. Leaves(RecordSubmitFinish, D)
  BY LinkedParts, PositionsTyped, <1>3, LeavingSection, LeavingEffect DEF Leaves
<1>5. QED BY <1>1, <1>2, <1>4

LEMMA CreateDeviceLinked ==
  Linked(CreateDevice) /\ First(CreateDevice) = On({}, "device_create_infos")
BY LinkedParts, PositionsTyped DEF CreateDevice

LEMMA GetDeviceQueueLinked ==
  Linked(GetDeviceQueue) /\ First(GetDeviceQueue) = On({}, "devices")
BY LinkedParts, PositionsTyped DEF GetDeviceQueue

LEMMA CreateShaderModuleLinked ==
  Linked(CreateShaderModule) /\ First(CreateShaderModule) = On({}, "devices")
BY LinkedParts, PositionsTyped DEF CreateShaderModule

LEMMA CreatePipelineLinked ==
  Linked(CreatePipeline) /\ First(CreatePipeline) = On({}, "devices")
BY LinkedParts, PositionsTyped DEF CreatePipeline

LEMMA SetObjectNameLinked ==
  Linked(SetObjectName) /\ First(SetObjectName) = On({}, "devices")
BY LinkedParts, PositionsTyped DEF SetObjectName

LEMMA CreateCommandPoolLinked ==
  Linked(CreateCommandPool) /\ First(CreateCommandPool) = On({}, "devices")
BY LinkedParts, PositionsTyped DEF CreateCommandPool

LEMMA ResetCommandPoolLinked ==
  Linked(ResetCommandPool) /\ First(ResetCommandPool) = On({}, "devices")
BY LinkedParts, PositionsTyped DEF ResetCommandPool

LEMMA DestroyCommandPoolLinked ==
  Linked(DestroyCommandPool) /\ First(DestroyCommandPool) = On({}, "devices")
<1> DEFINE p == On(D, "command_pools")
           q == On(D \cup {"command_pools"}, "command_buffers")
           r == On(D \cup {"command_pools", "command_buffers"},
                   "global_commandbuffer_map")
<1>1. p \in PositionType /\ q \in PositionType /\ r \in PositionType
  BY LinkedParts, PositionsTyped
<1>2. Follows(p, q) BY LinkedParts, PositionsTyped
<1>3. Follows(q, r) BY LinkedParts, PositionsTyped
<1>4. Linked(<<p, q, r>>) /\ First(<<p, q, r>>) = p /\ Final(<<p, q, r>>) = r
  BY LinkedParts, PositionsTyped, <1>1, <1>2, <1>3, LinkedThree
<1>5. /\ Linked(OnDevices \o <<p, q, r>>)
     /\ First(OnDevices \o <<p, q, r>>) = On({}, "devices")
     /\ Final(OnDevices \o <<p, q, r>>) = r
  <2>1. Linked(OnDevices) /\ First(OnDevices) = On({}, "devices")
        /\ Final(OnDevices) = On({}, "devices")
    BY LinkedParts, PositionsTyped
  <2>2. Follows(On({}, "devices"), p) BY LinkedParts, PositionsTyped
  <2>3. QED
    BY LinkedParts, PositionsTyped, <1>4, <2>1, <2>2, LinkedConcat DEF
       OnDevices
<1> DEFINE rest == Section(D \cup {"command_pools", "command_buffers",
                                     "global_commandbuffer_map"}, "recycled")
<1>6. Linked(rest) BY LinkedParts, PositionsTyped
<1>7. Follows(r, First(rest)) BY LinkedParts, PositionsTyped
<1>8. DestroyCommandPool = (OnDevices \o <<p, q, r>>) \o rest
  BY LinkedParts, PositionsTyped DEF DestroyCommandPool
<1> HIDE DEF p, q, r, rest
<1>9. QED BY LinkedParts, PositionsTyped, <1>5, <1>6, <1>7, <1>8, LinkedConcat

LEMMA GetObjectNameLinked ==
  /\ Linked(GetObjectName) /\ First(GetObjectName) = On({}, "devices")
  /\ Leaves(GetObjectName, {})
<1>1. Linked(GetObjectName)
  BY LinkedParts, PositionsTyped DEF GetObjectName
<1>2. First(GetObjectName) = On({}, "devices")
  BY LinkedParts, PositionsTyped DEF GetObjectName
<1>3. Final(GetObjectName) = Final(Section(D, "object_info_db"))
  BY LinkedParts, PositionsTyped DEF GetObjectName
<1>4. Leaves(GetObjectName, {})
  BY LinkedParts, PositionsTyped, <1>3, LeavingSection, LeavingEffect DEF Leaves
<1>5. QED BY <1>1, <1>2, <1>4

LEMMA SignalTrackedLinked ==
  /\ Linked(SignalTracked) /\ First(SignalTracked) = On(D, "semaphores")
  /\ Leaves(SignalTracked, D)
<1>1. Linked(SignalTracked)
  BY LinkedParts, PositionsTyped DEF SignalTracked
<1>2. First(SignalTracked) = On(D, "semaphores")
  BY LinkedParts, PositionsTyped DEF SignalTracked
<1>3. Final(SignalTracked) =
       Final(Section(D \cup {"semaphores"}, "object_info_db"))
  BY LinkedParts, PositionsTyped DEF SignalTracked
<1>4. Leaves(SignalTracked, D)
  BY LinkedParts, PositionsTyped, <1>3, LeavingSection, LeavingEffect DEF Leaves
<1>5. QED BY <1>1, <1>2, <1>4

LEMMA CreateSemaphoreLinked ==
  /\ Linked(CreateSemaphore) /\ First(CreateSemaphore) = On({}, "devices")
  /\ Leaves(CreateSemaphore, {})
<1>1. /\ Linked(CreateSemaphore) /\ First(CreateSemaphore) = On({}, "devices")
      /\ Final(CreateSemaphore) = Final(Section(D, "semaphores"))
  BY LinkedParts, PositionsTyped, AllocateMarkerLinked, LeavingForLock DEF
     CreateSemaphore
<1>2. Leaves(CreateSemaphore, {})
  BY LinkedParts, PositionsTyped, <1>1, LeavingSection, LeavingEffect DEF Leaves
<1>3. QED BY <1>1, <1>2

LEMMA CreateSemaphoreTracedLinked ==
  /\ Linked(CreateSemaphoreTraced)
  /\ First(CreateSemaphoreTraced) = On({}, "devices")
BY LinkedParts, PositionsTyped, CreateSemaphoreLinked, GetObjectNameLinked,
   LeavingForLock DEF CreateSemaphoreTraced

LEMMA SignalSemaphoreLinked ==
  /\ Linked(SignalSemaphore) /\ First(SignalSemaphore) = On({}, "devices")
  /\ Leaves(SignalSemaphore, {})
<1>1. /\ Linked(SignalSemaphore) /\ First(SignalSemaphore) = On({}, "devices")
      /\ Final(SignalSemaphore) = Final(SignalTracked)
  BY LinkedParts, PositionsTyped, SignalTrackedLinked DEF SignalSemaphore
<1>2. Leaves(SignalSemaphore, {})
  BY LinkedParts, PositionsTyped, <1>1, LeavingSection, LeavingEffect,
     SignalTrackedLinked DEF Leaves
<1>3. QED BY <1>1, <1>2

LEMMA SignalSemaphoreTracedLinked ==
  /\ Linked(SignalSemaphoreTraced)
  /\ First(SignalSemaphoreTraced) = On({}, "devices")
BY LinkedParts, PositionsTyped, SignalSemaphoreLinked, GetObjectNameLinked,
   LeavingForLock DEF SignalSemaphoreTraced

LEMMA DestroySemaphoreLinked ==
  Linked(DestroySemaphore) /\ First(DestroySemaphore) = On({}, "devices")
BY LinkedParts, PositionsTyped DEF DestroySemaphore

LEMMA BeginWaitLinked ==
  /\ Linked(BeginWait) /\ First(BeginWait) = On({}, "devices")
  /\ Leaves(BeginWait, {})
<1>1. /\ Linked(BeginWait) /\ First(BeginWait) = On({}, "devices")
      /\ Final(BeginWait) = Final(Section(D, "waiting_threads"))
  BY LinkedParts, PositionsTyped DEF BeginWait
<1>2. Leaves(BeginWait, {})
  BY LinkedParts, PositionsTyped, <1>1, LeavingSection, LeavingEffect DEF Leaves
<1>3. QED BY <1>1, <1>2

LEMMA EndWaitLinked ==
  /\ Linked(EndWait) /\ First(EndWait) = On({}, "layer")
  /\ Leaves(EndWait, {})
<1>1. /\ Linked(EndWait) /\ First(EndWait) = On({}, "layer")
      /\ Final(EndWait) = Final(Section(D, "waiting_threads"))
  BY LinkedParts, PositionsTyped, SignalTrackedLinked, LeavingForLock DEF EndWait
<1>2. Leaves(EndWait, {})
  BY LinkedParts, PositionsTyped, <1>1, LeavingSection, LeavingEffect DEF Leaves
<1>3. QED BY <1>1, <1>2

LEMMA WaitSemaphoresLinked ==
  /\ Linked(WaitSemaphores) /\ First(WaitSemaphores) = On({}, "devices")
  /\ Linked(WaitSemaphoresTraced)
  /\ First(WaitSemaphoresTraced) = On({}, "devices")
BY LinkedParts, PositionsTyped, BeginWaitLinked, EndWaitLinked,
   GetObjectNameLinked, LeavingForLock
   DEF WaitSemaphores, WaitSemaphoresTraced

LEMMA AllocateCommandBuffersLinked ==
  Linked(AllocateCommandBuffers) /\ First(AllocateCommandBuffers) = On({}, "devices")
BY LinkedParts, PositionsTyped, AllocateMarkerLinked, LeavingForLock DEF
   AllocateCommandBuffers

LEMMA FreeCommandBuffersLinked ==
  Linked(FreeCommandBuffers) /\ First(FreeCommandBuffers) = On({}, "devices")
BY LinkedParts, PositionsTyped, DeleteCommandBuffersLinked, LeavingForLock DEF
   FreeCommandBuffers

LEMMA BeginCommandBufferLinked ==
  /\ Linked(BeginCommandBuffer) /\ First(BeginCommandBuffer) = On({}, "global_commandbuffer_map")
  /\ Leaves(BeginCommandBuffer, D)
<1>1. Linked(BeginCommandBuffer)
  BY LinkedParts, PositionsTyped DEF BeginCommandBuffer
<1>2. First(BeginCommandBuffer) = On({}, "global_commandbuffer_map")
  BY LinkedParts, PositionsTyped DEF BeginCommandBuffer
<1>3. Final(BeginCommandBuffer) =
       Final(Section(D, "global_commandbuffer_map"))
  BY LinkedParts, PositionsTyped DEF BeginCommandBuffer
<1>4. Leaves(BeginCommandBuffer, D)
  BY LinkedParts, PositionsTyped, <1>3, LeavingSection, LeavingEffect DEF Leaves
<1>5. QED BY <1>1, <1>2, <1>4

LEMMA BindPipelineLinked ==
  Linked(BindPipeline) /\ First(BindPipeline) = On({}, "global_commandbuffer_map")
BY LinkedParts, PositionsTyped DEF BindPipeline

LEMMA DestroySemaphoreTracedLinked ==
  Linked(DestroySemaphoreTraced) /\ First(DestroySemaphoreTraced) = On({}, "devices")
BY LinkedParts, PositionsTyped DEF DestroySemaphoreTraced

LEMMA TrackSubmitLinked ==
  /\ Linked(TrackSubmit) /\ First(TrackSubmit) = On({}, "queue_device_tracker")
  /\ Leaves(TrackSubmit, {})
<1>1. Linked(TrackSubmit)
  BY LinkedParts, PositionsTyped, AllocateMarkerLinked,
     RecordSubmitFinishLinked, LeavingForLock
   DEF TrackSubmit
<1>2. First(TrackSubmit) = On({}, "queue_device_tracker")
  BY LinkedParts, PositionsTyped, AllocateMarkerLinked,
     RecordSubmitFinishLinked, LeavingForLock
   DEF TrackSubmit
<1>3. Final(TrackSubmit) =
       Final(RecordSubmitFinish)
  BY LinkedParts, PositionsTyped, AllocateMarkerLinked,
     RecordSubmitFinishLinked, LeavingForLock
   DEF TrackSubmit
<1>4. Leaves(TrackSubmit, {})
  BY LinkedParts, PositionsTyped, <1>3, LeavingSection, LeavingEffect,
     AllocateMarkerLinked,
     RecordSubmitFinishLinked DEF Leaves
<1>5. QED BY <1>1, <1>2, <1>4

LEMMA LogSubmitInfoSemaphoresLinked ==
  /\ Linked(LogSubmitInfoSemaphores)
  /\ First(LogSubmitInfoSemaphores) = On({}, "devices")
  /\ Leaves(LogSubmitInfoSemaphores, {})
<1>1. /\ Linked(LogSubmitInfoSemaphores)
      /\ First(LogSubmitInfoSemaphores) = On({}, "devices")
      /\ Final(LogSubmitInfoSemaphores) =
           Final(Section(D \cup {"submit_infos"}, "object_info_db"))
  BY LinkedParts, PositionsTyped DEF LogSubmitInfoSemaphores
<1>2. Leaves(LogSubmitInfoSemaphores, {})
  BY LinkedParts, PositionsTyped, <1>1, LeavingSection, LeavingEffect DEF Leaves
<1>3. QED BY <1>1, <1>2

LEMMA SplitBindSparseLinked ==
  /\ Linked(SplitBindSparse)
  /\ First(SplitBindSparse) = On({}, "queue_device_tracker")
BY LinkedParts, PositionsTyped, AllocateMarkerLinked, LeavingForLock DEF
   SplitBindSparse

LEMMA LogBindSparseInfosSemaphoresLinked ==
  /\ Linked(LogBindSparseInfosSemaphores)
  /\ First(LogBindSparseInfosSemaphores) = On({}, "queue_device_tracker")
  /\ Leaves(LogBindSparseInfosSemaphores, {})
<1>1. /\ Linked(LogBindSparseInfosSemaphores)
      /\ First(LogBindSparseInfosSemaphores) = On({}, "queue_device_tracker")
      /\ Final(LogBindSparseInfosSemaphores) =
           Final(Section(D, "object_info_db"))
  BY LinkedParts, PositionsTyped DEF LogBindSparseInfosSemaphores
<1>2. Leaves(LogBindSparseInfosSemaphores, {})
  BY LinkedParts, PositionsTyped, <1>1, LeavingSection, LeavingEffect DEF Leaves
<1>3. QED BY <1>1, <1>2

LEMMA QueueBindSparseLinked ==
  /\ Linked(QueueBindSparse) /\ First(QueueBindSparse) = On({}, "layer")
  /\ Linked(QueueBindSparseTraced)
  /\ First(QueueBindSparseTraced) = On({}, "layer")
BY LinkedParts, PositionsTyped, SplitBindSparseLinked,
   LogBindSparseInfosSemaphoresLinked, LeavingForLock
   DEF QueueBindSparse, QueueBindSparseTraced

-----------------------------------------------------------------------------
(* Scripts with effects.                                                   *)
USE DEF Nothing, Effects, ReportEffects

LEMMA DumpStateLinked ==
  /\ Linked(DumpState) /\ First(DumpState) = On(D, "object_info_db")
  /\ Leaves(DumpState, D)
<1>1. /\ Linked(DumpContents(D \cup {"command_buffers"}))
     /\ First(DumpContents(D \cup {"command_buffers"})) = On(D \cup {"command_buffers"}, "global_commandbuffer_map")
     /\ Leaves(DumpContents(D \cup {"command_buffers"}), D \cup {"command_buffers"})
  BY LinkedParts, LinkedEffects, PositionsTyped, DumpContentsLinked
<1>2. Linked(DumpState)
  BY LinkedParts, LinkedEffects, PositionsTyped, DumpTrackersLinked,
     LeavingForLock, LeavingForEffect, <1>1 DEF DumpState
<1>3. First(DumpState) = On(D, "object_info_db")
  BY LinkedParts, LinkedEffects, PositionsTyped, DumpTrackersLinked,
     LeavingForLock, LeavingForEffect, <1>1 DEF DumpState
<1>4. Final(DumpState) =
       Final(DumpContents(D \cup {"command_buffers"}))
  BY LinkedParts, LinkedEffects, PositionsTyped, DumpTrackersLinked,
     LeavingForLock, LeavingForEffect, <1>1 DEF DumpState
<1>5. Leaves(DumpState, D)
  BY LinkedParts, LinkedEffects, PositionsTyped, <1>4, LeavingSection,
     LeavingEffect, DumpTrackersLinked, <1>1 DEF Leaves
<1>6. QED BY <1>2, <1>3, <1>5

LEMMA DumpValidationFailedLinked ==
  /\ Linked(DumpValidationFailed) /\ First(DumpValidationFailed) = Do("ForceDumpAll", D)
  /\ Leaves(DumpValidationFailed, D)
<1>1. Linked(DumpValidationFailed)
  BY LinkedParts, LinkedEffects, PositionsTyped, DumpStateLinked,
     WriteReportLinked, LeavingForLock, LeavingForEffect
   DEF DumpValidationFailed
<1>2. First(DumpValidationFailed) = Do("ForceDumpAll", D)
  BY LinkedParts, LinkedEffects, PositionsTyped, DumpStateLinked,
     WriteReportLinked, LeavingForLock, LeavingForEffect
   DEF DumpValidationFailed
<1>3. Final(DumpValidationFailed) =
       Final(<<Do("RestoreDumpAll", D)>>)
  BY LinkedParts, LinkedEffects, PositionsTyped, DumpStateLinked,
     WriteReportLinked, LeavingForLock, LeavingForEffect
   DEF DumpValidationFailed
<1>4. Leaves(DumpValidationFailed, D)
  BY LinkedParts, LinkedEffects, PositionsTyped, <1>3, LeavingSection,
     LeavingEffect, DumpStateLinked, WriteReportLinked
     DEF Leaves
<1>5. QED BY <1>1, <1>2, <1>4

LEMMA InvalidatePoolInUseLinked ==
  /\ Linked(InvalidatePoolInUse) /\ First(InvalidatePoolInUse) = On({}, "devices")
<1>1. /\ Linked(DumpContents(D \cup {"command_pools"}))
     /\ First(DumpContents(D \cup {"command_pools"})) = On(D \cup {"command_pools"}, "global_commandbuffer_map")
     /\ Leaves(DumpContents(D \cup {"command_pools"}), D \cup {"command_pools"})
  BY LinkedParts, LinkedEffects, PositionsTyped, DumpContentsLinked
<1>2. Linked(InvalidatePoolInUse)
  BY LinkedParts, LinkedEffects, PositionsTyped, DumpValidationFailedLinked,
     LeavingForLock, LeavingForEffect, <1>1
   DEF InvalidatePoolInUse
<1>3. First(InvalidatePoolInUse) = On({}, "devices")
  BY LinkedParts, LinkedEffects, PositionsTyped, DumpValidationFailedLinked,
     LeavingForLock, LeavingForEffect, <1>1
   DEF InvalidatePoolInUse
<1>4. QED BY <1>2, <1>3

LEMMA FreeCommandBuffersInUseLinked ==
  /\ Linked(FreeCommandBuffersInUse) /\ First(FreeCommandBuffersInUse) = On({}, "devices")
<1>1. /\ Linked(DumpContents(D))
     /\ First(DumpContents(D)) = On(D, "global_commandbuffer_map")
     /\ Leaves(DumpContents(D), D)
  BY LinkedParts, LinkedEffects, PositionsTyped, DumpContentsLinked
<1>2. Linked(FreeCommandBuffersInUse)
  BY LinkedParts, LinkedEffects, PositionsTyped, DumpValidationFailedLinked,
     DeleteCommandBuffersLinked, LeavingForLock,
     LeavingForEffect, <1>1
   DEF FreeCommandBuffersInUse
<1>3. First(FreeCommandBuffersInUse) = On({}, "devices")
  BY LinkedParts, LinkedEffects, PositionsTyped, DumpValidationFailedLinked,
     DeleteCommandBuffersLinked, LeavingForLock,
     LeavingForEffect, <1>1
   DEF FreeCommandBuffersInUse
<1>4. QED BY <1>2, <1>3

LEMMA BeginCommandBufferInUseLinked ==
  /\ Linked(BeginCommandBufferInUse) /\ First(BeginCommandBufferInUse) = On({}, "global_commandbuffer_map")
<1>1. /\ Linked(DumpContents(D))
     /\ First(DumpContents(D)) = On(D, "global_commandbuffer_map")
     /\ Leaves(DumpContents(D), D)
  BY LinkedParts, LinkedEffects, PositionsTyped, DumpContentsLinked
<1>2. Linked(BeginCommandBufferInUse)
  BY LinkedParts, LinkedEffects, PositionsTyped, BeginCommandBufferLinked,
     DumpValidationFailedLinked, LeavingForLock,
     LeavingForEffect, <1>1
   DEF BeginCommandBufferInUse
<1>3. First(BeginCommandBufferInUse) = On({}, "global_commandbuffer_map")
  BY LinkedParts, LinkedEffects, PositionsTyped, BeginCommandBufferLinked,
     DumpValidationFailedLinked, LeavingForLock,
     LeavingForEffect, <1>1
   DEF BeginCommandBufferInUse
<1>4. QED BY <1>2, <1>3

LEMMA PreQueueSubmitLinked ==
  /\ Linked(PreQueueSubmit) /\ First(PreQueueSubmit) = Do("TakeTime", {})
  /\ Leaves(PreQueueSubmit, {})
<1>1. Linked(PreQueueSubmit)
  BY LinkedParts, LinkedEffects, PositionsTyped DEF PreQueueSubmit
<1>2. First(PreQueueSubmit) = Do("TakeTime", {})
  BY LinkedParts, LinkedEffects, PositionsTyped DEF PreQueueSubmit
<1>3. Final(PreQueueSubmit) =
       Final(Section({}, "global_commandbuffer_map"))
  BY LinkedParts, LinkedEffects, PositionsTyped DEF PreQueueSubmit
<1>4. Leaves(PreQueueSubmit, {})
  BY LinkedParts, LinkedEffects, PositionsTyped, <1>3, LeavingSection,
     LeavingEffect DEF Leaves
<1>5. QED BY <1>1, <1>2, <1>4

LEMMA PostQueueSubmitLinked ==
  Linked(PostQueueSubmit) /\ First(PostQueueSubmit) = Do("LoadTotalSubmits", {})
BY LinkedParts, LinkedEffects, PositionsTyped, LinkedThree DEF PostQueueSubmit

LEMMA QueueSubmitLinked ==
  Linked(QueueSubmit) /\ First(QueueSubmit) = Do("TakeTime", {})
BY LinkedParts, LinkedEffects, PositionsTyped, PreQueueSubmitLinked,
   TrackSubmitLinked, PostQueueSubmitLinked,
   LeavingForLock, LeavingForEffect
   DEF QueueSubmit

LEMMA TracedSubmitLinked ==
  /\ Linked(TrackSubmit \o LogSubmitInfoSemaphores)
  /\ First(TrackSubmit \o LogSubmitInfoSemaphores) = On({}, "queue_device_tracker")
  /\ Leaves(TrackSubmit \o LogSubmitInfoSemaphores, {})
<1>1. /\ Linked(TrackSubmit \o LogSubmitInfoSemaphores)
      /\ First(TrackSubmit \o LogSubmitInfoSemaphores) =
           On({}, "queue_device_tracker")
      /\ Final(TrackSubmit \o LogSubmitInfoSemaphores) =
           Final(LogSubmitInfoSemaphores)
  BY LinkedParts, PositionsTyped, TrackSubmitLinked,
     LogSubmitInfoSemaphoresLinked, LeavingForLock
<1>2. QED BY <1>1, LogSubmitInfoSemaphoresLinked DEF Leaves

LEMMA QueueSubmitTracedLinked ==
  Linked(QueueSubmitTraced) /\ First(QueueSubmitTraced) = Do("TakeTime", {})
BY LinkedParts, LinkedEffects, PositionsTyped, PreQueueSubmitLinked,
   TracedSubmitLinked, PostQueueSubmitLinked,
   LeavingForLock, LeavingForEffect
   DEF QueueSubmitTraced

LEMMA QueueSubmitUntrackedLinked ==
  Linked(QueueSubmitUntracked) /\ First(QueueSubmitUntracked) = Do("TakeTime", {})
BY LinkedParts, LinkedEffects, PositionsTyped, PreQueueSubmitLinked,
   PostQueueSubmitLinked, LeavingForLock, LeavingForEffect
   DEF QueueSubmitUntracked

LEMMA DumpDeviceLinked ==
  /\ Linked(DumpDevice) /\ First(DumpDevice) = On({}, "devices")
  /\ Leaves(DumpDevice, {})
<1>1. PICK a : a = OnDevices \o DumpState
  BY LinkedParts, LinkedEffects, PositionsTyped
<1>2. /\ Linked(OnDevices) /\ First(OnDevices) = On({}, "devices")
      /\ Final(OnDevices) = On({}, "devices")
  BY LinkedParts, LinkedEffects, PositionsTyped
<1>3. Follows(Final(OnDevices), First(DumpState))
  BY LinkedParts, LinkedEffects, PositionsTyped, <1>2, DumpStateLinked
<1>4. /\ Linked(a) /\ First(a) = On({}, "devices") /\ Final(a) = Final(DumpState)
  BY ONLY <1>1, <1>2, <1>3, DumpStateLinked, LinkedConcat
<1>5. Follows(Final(a), First(WriteReport))
  <2>1. Leaves(a, D)
    BY LinkedParts, LinkedEffects, PositionsTyped, <1>4, DumpStateLinked DEF
       Leaves
  <2>2. QED
    BY LinkedParts, LinkedEffects, PositionsTyped, <2>1, WriteReportLinked,
       LeavingForEffect
<1>6. /\ Linked(DumpDevice) /\ First(DumpDevice) = On({}, "devices")
      /\ Final(DumpDevice) = Final(WriteReport)
  BY ONLY <1>1, <1>4, <1>5, WriteReportLinked, LinkedConcat DEF DumpDevice
<1>7. Leaves(DumpDevice, {})
  BY LinkedParts, LinkedEffects, PositionsTyped, <1>6, WriteReportLinked DEF
     Leaves
<1>8. QED BY <1>6, <1>7

LEMMA DumpQueueDeviceLinked ==
  Linked(DumpQueueDevice) /\ First(DumpQueueDevice) = On({}, "queue_device_tracker")
BY LinkedParts, LinkedEffects, PositionsTyped, DumpDeviceLinked,
   LeavingForLock, LeavingForEffect DEF DumpQueueDevice

LEMMA SignalHangLinked ==
  Linked(SignalHang) /\ First(SignalHang) = On({}, "devices")
BY LinkedParts, LinkedEffects, PositionsTyped, DumpDeviceLinked,
   LeavingForLock, LeavingForEffect DEF SignalHang

LEMMA CheckTimerLinked ==
  Linked(CheckTimer) /\ First(CheckTimer) = Do("TakeTime", {})
BY LinkedParts, LinkedEffects, PositionsTyped DEF CheckTimer

LEMMA DumpForWatchdogLinked ==
  Linked(DumpForWatchdog) /\ First(DumpForWatchdog) = On({}, "devices")
BY LinkedParts, LinkedEffects, PositionsTyped, DumpDeviceLinked,
   LeavingForLock, LeavingForEffect DEF DumpForWatchdog

HIDE DEF D, OnDevices, Mutexes, Gated, Outer, Middle, Inner, Nothing, Effects,
         ReportEffects

-----------------------------------------------------------------------------
(* Modes: what a hook has done about the dump options.                     *)

(* The effects that the modes are about.                                   *)
OptionEffects ==
  {"ForceDumpAll", "RestoreDumpAll", "ReadOptions", "SaveReport",
   "TestSubmit", "TestTimer"}

ForcedModes == {"forced", "forcedRead"}

After(m, do) ==
  IF do = "ForceDumpAll" THEN "forced"
  ELSE IF do = "RestoreDumpAll" THEN "plain"
  ELSE IF do = "ReadOptions" THEN IF m = "forced" THEN "forcedRead" ELSE "read"
  ELSE m

Allowed(m, p) ==
  /\ p.do = "ForceDumpAll" => m = "plain"
  /\ p.do = "RestoreDumpAll" => m \in ForcedModes
  /\ p.do = "ReadOptions" => m \in {"plain", "forced"}
  /\ p.do = "SaveReport" => m \in {"read", "forcedRead"}
  /\ p.do \in {"TestSubmit", "TestTimer"} => m = "plain"
  /\ m \in ForcedModes \/ p.do \in {"ForceDumpAll", "ReadOptions"} =>
       "devices" \in p.hold

Leads(s, S, m, n) ==
  /\ s \in Seq(PositionType)
  /\ \E f \in [1..Len(s) + 1 -> S] :
       /\ f[1] = m /\ f[Len(s) + 1] = n
       /\ \A k \in 1..Len(s) :
            Allowed(f[k], s[k]) /\ f[k + 1] = After(f[k], s[k].do)

LEMMA LeadsConcat ==
  ASSUME NEW s, NEW t, NEW S, NEW m, NEW n, NEW o,
         Leads(s, S, m, n), Leads(t, S, n, o)
  PROVE  Leads(s \o t, S, m, o)
<1>1. PICK f \in [1..Len(s) + 1 -> S] :
        /\ f[1] = m /\ f[Len(s) + 1] = n
        /\ \A k \in 1..Len(s) :
             Allowed(f[k], s[k]) /\ f[k + 1] = After(f[k], s[k].do)
  BY DEF Leads
<1>2. PICK g \in [1..Len(t) + 1 -> S] :
        /\ g[1] = n /\ g[Len(t) + 1] = o
        /\ \A k \in 1..Len(t) :
             Allowed(g[k], t[k]) /\ g[k + 1] = After(g[k], t[k].do)
  BY DEF Leads
<1>3. /\ s \o t \in Seq(PositionType) /\ Len(s \o t) = Len(s) + Len(t)
      /\ Len(s) \in Nat /\ Len(t) \in Nat
      /\ \A k \in 1..Len(s \o t) :
           (s \o t)[k] = IF k <= Len(s) THEN s[k] ELSE t[k - Len(s)]
  BY DEF Leads
<1> DEFINE h == [k \in 1..Len(s \o t) + 1 |->
                   IF k <= Len(s) THEN f[k] ELSE g[k - Len(s)]]
<1>4. h \in [1..Len(s \o t) + 1 -> S]
  <2>1. ASSUME NEW k \in 1..Len(s \o t) + 1, ~(k <= Len(s))
        PROVE  k - Len(s) \in 1..Len(t) + 1
    BY <1>3, <2>1
  <2>2. ASSUME NEW k \in 1..Len(s \o t) + 1, k <= Len(s)
        PROVE  k \in 1..Len(s) + 1
    BY <1>3, <2>2
  <2>3. QED BY <2>1, <2>2
<1>5. \A k \in 1..Len(s) : h[k] = f[k] /\ h[k + 1] = f[k + 1]
  <2> TAKE k \in 1..Len(s)
  <2>1. h[k] = f[k] BY <1>3
  <2>2. CASE k < Len(s) BY <1>3, <2>1, <2>2
  <2>3. CASE k = Len(s)
    <3>1. k + 1 \in 1..Len(s \o t) + 1 /\ ~(k + 1 <= Len(s)) /\ (k + 1) - Len(s) = 1
      BY <1>3, <2>3
    <3>2. h[k + 1] = g[1] BY <3>1
    <3>3. QED BY <1>1, <1>2, <2>1, <2>3, <3>2
  <2>4. QED BY <1>3, <2>2, <2>3
<1>6. \A k \in 1..Len(t) + 1 : h[Len(s) + k] = g[k]
  <2> TAKE k \in 1..Len(t) + 1
  <2>1. /\ Len(s) + k \in 1..Len(s \o t) + 1 /\ ~(Len(s) + k <= Len(s))
        /\ (Len(s) + k) - Len(s) = k
    BY <1>3
  <2>2. QED BY <2>1
<1>7. h[1] = m
  <2>1. CASE Len(s) = 0 BY <1>1, <1>2, <1>3, <1>6, <2>1
  <2>2. CASE Len(s) # 0
    <3>1. 1 \in 1..Len(s) BY <1>3, <2>2
    <3>2. QED BY <1>1, <1>5, <3>1
  <2>3. QED BY <2>1, <2>2
<1>8. h[Len(s \o t) + 1] = o
  <2>1. Len(t) + 1 \in 1..Len(t) + 1 /\ Len(s \o t) + 1 = Len(s) + (Len(t) + 1)
    BY <1>3
  <2>2. QED BY <1>2, <1>6, <2>1
<1>9. ASSUME NEW k \in 1..Len(s \o t)
      PROVE  /\ Allowed(h[k], (s \o t)[k])
             /\ h[k + 1] = After(h[k], (s \o t)[k].do)
  <2>1. CASE k <= Len(s)
    <3>1. k \in 1..Len(s) BY <1>3, <2>1
    <3>2. (s \o t)[k] = s[k] BY <1>3, <2>1
    <3>3. QED BY <1>1, <1>5, <3>1, <3>2
  <2>2. CASE ~(k <= Len(s))
    <3> DEFINE j == k - Len(s)
    <3>1. j \in 1..Len(t) /\ k = Len(s) + j /\ k + 1 = Len(s) + (j + 1)
          /\ j \in 1..Len(t) + 1 /\ j + 1 \in 1..Len(t) + 1
      BY <1>3, <2>2
    <3>2. (s \o t)[k] = t[j] BY <1>3, <2>2
    <3>3. h[k] = g[j] /\ h[k + 1] = g[j + 1]
      <4> HIDE DEF h, j
      <4>1. QED BY <1>6, <3>1
    <3>4. QED BY <1>2, <3>1, <3>2, <3>3
  <2>3. QED BY <2>1, <2>2
<1>10. QED
  <2> HIDE DEF h
  <2>1. QED BY <1>3, <1>4, <1>7, <1>8, <1>9 DEF Leads

LEMMA LeadsOne ==
  ASSUME NEW p \in PositionType, NEW S, NEW m \in S, After(m, p.do) \in S,
         Allowed(m, p)
  PROVE  Leads(<<p>>, S, m, After(m, p.do))
<1> DEFINE f == [k \in 1..2 |-> IF k = 1 THEN m ELSE After(m, p.do)]
<1>1. /\ <<p>> \in Seq(PositionType) /\ Len(<<p>>) = 1 /\ <<p>>[1] = p
      /\ f \in [1..Len(<<p>>) + 1 -> S] /\ f[1] = m /\ f[2] = After(m, p.do)
  OBVIOUS
<1> HIDE DEF f
<1>2. \A k \in 1..Len(<<p>>) :
        Allowed(f[k], <<p>>[k]) /\ f[k + 1] = After(f[k], <<p>>[k].do)
  BY <1>1
<1>3. QED BY <1>1, <1>2 DEF Leads

LEMMA Pieces ==
  /\ \A p, q \in PositionType : <<p, q>> = <<p>> \o <<q>>
  /\ \A p, q, r \in PositionType : <<p, q, r>> = (<<p>> \o <<q>>) \o <<r>>
<1>1. ASSUME NEW p \in PositionType, NEW q \in PositionType
      PROVE  <<p, q>> = <<p>> \o <<q>>
  <2>1. /\ <<p, q>> \in Seq(PositionType) /\ <<p>> \o <<q>> \in Seq(PositionType)
        /\ Len(<<p, q>>) = 2 /\ Len(<<p>> \o <<q>>) = 2
        /\ \A k \in 1..2 : <<p, q>>[k] = (<<p>> \o <<q>>)[k]
    OBVIOUS
  <2>2. QED BY <2>1, SeqEqual
<1>2. ASSUME NEW p \in PositionType, NEW q \in PositionType, NEW r \in PositionType
      PROVE  <<p, q, r>> = (<<p>> \o <<q>>) \o <<r>>
  <2>1. /\ <<p, q, r>> \in Seq(PositionType) /\ <<p, q>> \o <<r>> \in Seq(PositionType)
        /\ Len(<<p, q, r>>) = 3 /\ Len(<<p, q>> \o <<r>>) = 3
        /\ \A k \in 1..3 : <<p, q, r>>[k] = (<<p, q>> \o <<r>>)[k]
    OBVIOUS
  <2>2. QED BY <1>1, <2>1, SeqEqual
<1>3. QED BY <1>1, <1>2

(* Scripts that leave the mode as it is.                                   *)
Quiet(s) ==
  /\ s \in Seq(PositionType)
  /\ \A k \in 1..Len(s) : s[k].do \notin OptionEffects

Inside(s) ==
  Quiet(s) /\ \A k \in 1..Len(s) : "devices" \in s[k].hold

LEMMA LeadsQuiet ==
  ASSUME NEW s, NEW S, NEW m \in S, Quiet(s), m \in ForcedModes => Inside(s)
  PROVE  Leads(s, S, m, m)
<1> DEFINE f == [k \in 1..Len(s) + 1 |-> m]
<1>1. f \in [1..Len(s) + 1 -> S] OBVIOUS
<1>2. Len(s) \in Nat BY DEF Quiet
<1>3. /\ f[1] = m /\ f[Len(s) + 1] = m
      /\ \A k \in 1..Len(s) : f[k] = m /\ f[k + 1] = m
  BY <1>2
<1>4. \A k \in 1..Len(s) : Allowed(m, s[k]) /\ After(m, s[k].do) = m
  BY DEF Quiet, Inside, Allowed, After, OptionEffects
<1> HIDE DEF f
<1>5. QED BY <1>1, <1>3, <1>4 DEF Leads, Quiet

LEMMA QuietParts ==
  /\ \A s, t : Quiet(s) /\ Quiet(t) => Quiet(s \o t)
  /\ \A s, t : Inside(s) /\ Inside(t) => Inside(s \o t)
  /\ \A hold \in SUBSET Mutexes, m \in Mutexes :
       /\ Quiet(Section(hold, m)) /\ Quiet(<<On(hold, m)>>)
       /\ "devices" \in hold =>
            Inside(Section(hold, m)) /\ Inside(<<On(hold, m)>>)
  /\ \A p, q \in PositionType :
       p.do \notin OptionEffects /\ q.do \notin OptionEffects =>
         /\ Quiet(<<p>>) /\ Quiet(<<p, q>>)
         /\ "devices" \in p.hold \cap q.hold => Inside(<<p>>) /\ Inside(<<p, q>>)
  /\ \A p, q, r \in PositionType :
       {p.do, q.do, r.do} \cap OptionEffects = {} => Quiet(<<p, q, r>>)
<1>1. ASSUME NEW s, NEW t, Quiet(s), Quiet(t)
      PROVE  /\ Quiet(s \o t)
             /\ Inside(s) /\ Inside(t) => Inside(s \o t)
  <2>1. s \o t \in Seq(PositionType) BY <1>1 DEF Quiet
  <2>2. \A k \in 1..Len(s \o t) :
          \/ k \in 1..Len(s) /\ (s \o t)[k] = s[k]
          \/ k - Len(s) \in 1..Len(t) /\ (s \o t)[k] = t[k - Len(s)]
    BY <1>1 DEF Quiet
  <2>3. Quiet(s \o t) BY <1>1, <2>1, <2>2 DEF Quiet
  <2>4. QED BY <2>2, <2>3 DEF Inside
<1>2. ASSUME NEW p \in PositionType, NEW q \in PositionType,
             p.do \notin OptionEffects, q.do \notin OptionEffects
      PROVE  /\ Quiet(<<p>>) /\ Quiet(<<p, q>>)
             /\ "devices" \in p.hold \cap q.hold => Inside(<<p>>) /\ Inside(<<p, q>>)
  BY <1>2 DEF Quiet, Inside
<1>3. ASSUME NEW hold \in SUBSET Mutexes, NEW m \in Mutexes
      PROVE  /\ Quiet(Section(hold, m)) /\ Quiet(<<On(hold, m)>>)
             /\ "devices" \in hold =>
                  Inside(Section(hold, m)) /\ Inside(<<On(hold, m)>>)
  <2>1. hold \cup {m} \in SUBSET Mutexes OBVIOUS
  <2>2. On(hold, m) \in PositionType /\ At(hold \cup {m}) \in PositionType
    BY <2>1, PositionsTyped
  <2>3. /\ On(hold, m).do \notin OptionEffects /\ On(hold, m).hold = hold
        /\ At(hold \cup {m}).do \notin OptionEffects
        /\ At(hold \cup {m}).hold = hold \cup {m}
    BY DEF On, At, Do, OptionEffects, Nothing
  <2>4. QED BY <1>2, <2>2, <2>3 DEF Section
<1>4. ASSUME NEW p \in PositionType, NEW q \in PositionType, NEW r \in PositionType,
             p.do \notin OptionEffects, q.do \notin OptionEffects,
             r.do \notin OptionEffects
      PROVE  Quiet(<<p, q, r>>)
  BY <1>4 DEF Quiet
<1>5. \A s, t : Inside(s) /\ Inside(t) => Inside(s \o t)
  BY <1>1 DEF Inside
<1>6. \A s, t : Quiet(s) /\ Quiet(t) => Quiet(s \o t) BY <1>1
<1>7. \A hold \in SUBSET Mutexes, m \in Mutexes :
       /\ Quiet(Section(hold, m)) /\ Quiet(<<On(hold, m)>>)
       /\ "devices" \in hold =>
            Inside(Section(hold, m)) /\ Inside(<<On(hold, m)>>)
  BY <1>3
<1>8. \A p, q \in PositionType :
        p.do \notin OptionEffects /\ q.do \notin OptionEffects =>
          /\ Quiet(<<p>>) /\ Quiet(<<p, q>>)
          /\ "devices" \in p.hold \cap q.hold => Inside(<<p>>) /\ Inside(<<p, q>>)
  BY <1>2
<1>9. \A p, q, r \in PositionType :
        {p.do, q.do, r.do} \cap OptionEffects = {} => Quiet(<<p, q, r>>)
  BY <1>4
<1>10. QED BY <1>5, <1>6, <1>7, <1>8, <1>9

-----------------------------------------------------------------------------
USE DEF On, Do, D, OnDevices, Mutexes, Gated, Outer, Middle, Inner, Nothing,
        Effects, OptionEffects

LEMMA DumpContentsInside ==
  ASSUME NEW hold \in SUBSET ({"devices"} \cup Gated), "devices" \in hold
  PROVE  Inside(DumpContents(hold))
BY QuietParts, PositionsTyped DEF DumpContents

LEMMA DumpTrackersInside == Inside(DumpTrackers)
BY QuietParts, PositionsTyped DEF DumpTrackers

LEMMA AllocateMarkerQuiet == Quiet(AllocateMarker(D))
BY QuietParts, PositionsTyped DEF AllocateMarker

LEMMA RecordSubmitFinishQuiet == Quiet(RecordSubmitFinish)
BY QuietParts, PositionsTyped DEF RecordSubmitFinish

LEMMA DeleteCommandBuffersQuiet == Quiet(DeleteCommandBuffers)
BY QuietParts, PositionsTyped DEF DeleteCommandBuffers

LEMMA CreateDeviceQuiet == Quiet(CreateDevice)
BY QuietParts, PositionsTyped DEF CreateDevice

LEMMA GetDeviceQueueQuiet == Quiet(GetDeviceQueue)
BY QuietParts, PositionsTyped DEF GetDeviceQueue

LEMMA CreateShaderModuleQuiet == Quiet(CreateShaderModule)
BY QuietParts, PositionsTyped DEF CreateShaderModule

LEMMA CreatePipelineQuiet == Quiet(CreatePipeline)
BY QuietParts, PositionsTyped DEF CreatePipeline

LEMMA SetObjectNameQuiet == Quiet(SetObjectName)
BY QuietParts, PositionsTyped DEF SetObjectName

LEMMA CreateCommandPoolQuiet == Quiet(CreateCommandPool)
BY QuietParts, PositionsTyped DEF CreateCommandPool

LEMMA ResetCommandPoolQuiet == Quiet(ResetCommandPool)
BY QuietParts, PositionsTyped DEF ResetCommandPool

LEMMA DestroyCommandPoolQuiet == Quiet(DestroyCommandPool)
BY QuietParts, PositionsTyped DEF DestroyCommandPool

LEMMA AllocateCommandBuffersQuiet == Quiet(AllocateCommandBuffers)
BY QuietParts, PositionsTyped, AllocateMarkerQuiet DEF AllocateCommandBuffers

LEMMA FreeCommandBuffersQuiet == Quiet(FreeCommandBuffers)
BY QuietParts, PositionsTyped, DeleteCommandBuffersQuiet DEF FreeCommandBuffers

LEMMA BeginCommandBufferQuiet == Quiet(BeginCommandBuffer)
BY QuietParts, PositionsTyped DEF BeginCommandBuffer

LEMMA BindPipelineQuiet == Quiet(BindPipeline)
BY QuietParts, PositionsTyped DEF BindPipeline

LEMMA CreateSemaphoreQuiet == Quiet(CreateSemaphore)
BY QuietParts, PositionsTyped, AllocateMarkerQuiet DEF CreateSemaphore

LEMMA DestroySemaphoreQuiet == Quiet(DestroySemaphore)
BY QuietParts, PositionsTyped DEF DestroySemaphore

LEMMA DestroySemaphoreTracedQuiet == Quiet(DestroySemaphoreTraced)
BY QuietParts, PositionsTyped DEF DestroySemaphoreTraced

LEMMA GetObjectNameQuiet == Quiet(GetObjectName)
BY QuietParts, PositionsTyped DEF GetObjectName

LEMMA SignalTrackedQuiet == Quiet(SignalTracked)
BY QuietParts, PositionsTyped DEF SignalTracked

LEMMA CreateSemaphoreTracedQuiet == Quiet(CreateSemaphoreTraced)
BY QuietParts, CreateSemaphoreQuiet, GetObjectNameQuiet DEF CreateSemaphoreTraced

LEMMA SignalSemaphoreQuiet ==
  Quiet(SignalSemaphore) /\ Quiet(SignalSemaphoreTraced)
BY QuietParts, PositionsTyped, SignalTrackedQuiet, GetObjectNameQuiet DEF
   SignalSemaphore, SignalSemaphoreTraced

LEMMA WaitSemaphoresQuiet ==
  Quiet(WaitSemaphores) /\ Quiet(WaitSemaphoresTraced)
<1>1. Quiet(BeginWait) BY QuietParts, PositionsTyped DEF BeginWait
<1>2. Quiet(EndWait)
  BY QuietParts, PositionsTyped, SignalTrackedQuiet DEF EndWait
<1>3. QED
  BY QuietParts, <1>1, <1>2, GetObjectNameQuiet DEF
     WaitSemaphores, WaitSemaphoresTraced

LEMMA LogSubmitInfoSemaphoresQuiet == Quiet(LogSubmitInfoSemaphores)
BY QuietParts, PositionsTyped DEF LogSubmitInfoSemaphores

LEMMA TrackSubmitQuiet == Quiet(TrackSubmit)
BY QuietParts, PositionsTyped, AllocateMarkerQuiet, RecordSubmitFinishQuiet DEF
   TrackSubmit

LEMMA QueueBindSparseQuiet ==
  Quiet(QueueBindSparse) /\ Quiet(QueueBindSparseTraced)
<1>1. Quiet(SplitBindSparse)
  BY QuietParts, PositionsTyped, AllocateMarkerQuiet DEF SplitBindSparse
<1>2. Quiet(LogBindSparseInfosSemaphores)
  BY QuietParts, PositionsTyped DEF LogBindSparseInfosSemaphores
<1>3. QED
  BY QuietParts, PositionsTyped, <1>1, <1>2 DEF
     QueueBindSparse, QueueBindSparseTraced

LEMMA PreQueueSubmitQuiet == Quiet(PreQueueSubmit)
BY QuietParts, PositionsTyped DEF PreQueueSubmit

(* The scripts with options.                                               *)
PlainModes == {"plain", "read"}
ValidationModes == {"plain", "forced", "forcedRead"}

LEMMA LeadsEffect ==
  ASSUME NEW do \in Effects, NEW S, NEW m \in S, After(m, do) \in S,
         Allowed(m, Do(do, D))
  PROVE  Leads(<<Do(do, D)>>, S, m, After(m, do))
<1>1. Do(do, D) \in PositionType /\ Do(do, D).do = do
  BY QuietParts, PositionsTyped, PositionsTyped
<1>2. QED BY QuietParts, PositionsTyped, <1>1, LeadsOne

LEMMA DumpStateReads ==
  /\ Leads(DumpState, PlainModes, "plain", "read")
  /\ Leads(DumpState, ValidationModes, "forced", "forcedRead")
<1> DEFINE a == Section(D, "object_info_db") \o DumpTrackers
           r == <<Do("ReadOptions", D)>>
           g == <<On(D, "command_buffers")>>
           c == DumpContents(D \cup {"command_buffers"})
<1>1. Inside(a) BY QuietParts, PositionsTyped, DumpTrackersInside
<1>2. Inside(g) /\ Inside(c) BY QuietParts, PositionsTyped, DumpContentsInside
<1>3. DumpState = (a \o (r \o g)) \o c
  <2>1. <<Do("ReadOptions", D), On(D, "command_buffers")>> = r \o g
    <3>1. PICK p \in PositionType : p = Do("ReadOptions", D)
      BY QuietParts, PositionsTyped
    <3>2. PICK q \in PositionType : q = On(D, "command_buffers")
      BY QuietParts, PositionsTyped
    <3>3. QED BY ONLY <3>1, <3>2, Pieces
  <2>2. QED BY QuietParts, PositionsTyped, <2>1 DEF DumpState
<1> HIDE DEF a, g, c
<1>4. /\ Leads(a, PlainModes, "plain", "plain")
      /\ Leads(a, ValidationModes, "forced", "forced")
  BY QuietParts, PositionsTyped, <1>1, LeadsQuiet DEF Inside, PlainModes,
     ValidationModes
<1>5. /\ Leads(g, PlainModes, "read", "read")
      /\ Leads(g, ValidationModes, "forcedRead", "forcedRead")
      /\ Leads(c, PlainModes, "read", "read")
      /\ Leads(c, ValidationModes, "forcedRead", "forcedRead")
  BY QuietParts, PositionsTyped, <1>2, LeadsQuiet DEF Inside, PlainModes,
     ValidationModes
<1>6. /\ Leads(r, PlainModes, "plain", "read")
      /\ Leads(r, ValidationModes, "forced", "forcedRead")
  BY QuietParts, PositionsTyped, LeadsEffect DEF After, Allowed, PlainModes,
     ValidationModes, ForcedModes
<1>7. QED BY QuietParts, PositionsTyped, <1>3, <1>4, <1>5, <1>6, LeadsConcat

LEMMA WriteReportKeeps ==
  /\ Leads(WriteReport, PlainModes, "read", "read")
  /\ Leads(WriteReport, ValidationModes, "forcedRead", "forcedRead")
<1> DEFINE a == <<Do("NameReport", D)>>
           b == <<Do("CountReport", D)>>
           c == <<Do("SaveReport", D)>>
<1>1. WriteReport = (a \o b) \o c
  <2>1. PICK p \in PositionType : p = Do("NameReport", D)
    BY QuietParts, PositionsTyped
  <2>2. PICK q \in PositionType : q = Do("CountReport", D)
    BY QuietParts, PositionsTyped
  <2>3. PICK r \in PositionType : r = Do("SaveReport", D)
    BY QuietParts, PositionsTyped
  <2>4. QED BY ONLY <2>1, <2>2, <2>3, Pieces DEF WriteReport
<1>2. /\ Leads(a, PlainModes, "read", "read")
      /\ Leads(a, ValidationModes, "forcedRead", "forcedRead")
  BY QuietParts, PositionsTyped, LeadsEffect DEF After, Allowed, PlainModes,
     ValidationModes, ForcedModes
<1>3. /\ Leads(b, PlainModes, "read", "read")
      /\ Leads(b, ValidationModes, "forcedRead", "forcedRead")
  BY QuietParts, PositionsTyped, LeadsEffect DEF After, Allowed, PlainModes,
     ValidationModes, ForcedModes
<1>4. /\ Leads(c, PlainModes, "read", "read")
      /\ Leads(c, ValidationModes, "forcedRead", "forcedRead")
  BY QuietParts, PositionsTyped, LeadsEffect DEF After, Allowed, PlainModes,
     ValidationModes, ForcedModes
<1> HIDE DEF a, b, c
<1>5. QED BY QuietParts, PositionsTyped, <1>1, <1>2, <1>3, <1>4, LeadsConcat

LEMMA DumpValidationFailedRestores ==
  Leads(DumpValidationFailed, ValidationModes, "plain", "plain")
<1> DEFINE f == <<Do("ForceDumpAll", D)>>
           r == <<Do("RestoreDumpAll", D)>>
<1>1. DumpValidationFailed = ((f \o DumpState) \o WriteReport) \o r
  BY QuietParts, PositionsTyped DEF DumpValidationFailed
<1>2. Leads(f, ValidationModes, "plain", "forced")
  BY QuietParts, PositionsTyped, LeadsEffect DEF After, Allowed,
     ValidationModes, ForcedModes
<1>3. Leads(r, ValidationModes, "forcedRead", "plain")
  BY QuietParts, PositionsTyped, LeadsEffect DEF After, Allowed,
     ValidationModes, ForcedModes
<1> HIDE DEF f, r
<1>4. QED
  BY QuietParts, PositionsTyped, <1>1, <1>2, <1>3, DumpStateReads,
     WriteReportKeeps, LeadsConcat

LEMMA DumpDeviceReads == Leads(DumpDevice, PlainModes, "plain", "read")
<1>1. Leads(OnDevices, PlainModes, "plain", "plain")
  <2>1. Quiet(OnDevices) BY QuietParts, PositionsTyped
  <2>2. QED
    BY QuietParts, PositionsTyped, <2>1, LeadsQuiet DEF PlainModes, ForcedModes
<1>2. QED
  BY QuietParts, PositionsTyped, <1>1, DumpStateReads, WriteReportKeeps,
     LeadsConcat DEF DumpDevice

(* A validation hook is plain, forces and restores, and is plain again.    *)
LEMMA ValidationHooksRestore ==
  \A h \in Validating : Leads(Script[h], ValidationModes, "plain", "plain")
<1> DEFINE Restores(s) == Leads(s, ValidationModes, "plain", "plain")
<1>1. ASSUME NEW s, Quiet(s) PROVE Restores(s)
  BY QuietParts, PositionsTyped, <1>1, LeadsQuiet DEF ValidationModes,
     ForcedModes
<1>2. \A s, t : Restores(s) /\ Restores(t) => Restores(s \o t)
  BY QuietParts, PositionsTyped, LeadsConcat
<1>3. Restores(InvalidatePoolInUse)
  <2> DEFINE a == OnDevices \o <<On(D, "command_pools")>>
                    \o DumpContents(D \cup {"command_pools"})
  <2>1. Quiet(a) BY QuietParts, PositionsTyped, DumpContentsInside DEF Inside
  <2>2. InvalidatePoolInUse = a \o DumpValidationFailed
    BY QuietParts, PositionsTyped DEF InvalidatePoolInUse
  <2> HIDE DEF a
  <2>3. QED
    BY QuietParts, PositionsTyped, <1>1, <1>2, <2>1, <2>2,
       DumpValidationFailedRestores
<1>4. Restores(FreeCommandBuffersInUse)
  <2> DEFINE a == OnDevices \o Section(D, "global_commandbuffer_map") \o DumpContents(D)
  <2>1. Quiet(a) BY QuietParts, PositionsTyped, DumpContentsInside DEF Inside
  <2>2. FreeCommandBuffersInUse = (a \o DumpValidationFailed) \o DeleteCommandBuffers
    BY QuietParts, PositionsTyped DEF FreeCommandBuffersInUse
  <2> HIDE DEF a
  <2>3. QED
    BY QuietParts, PositionsTyped, <1>1, <1>2, <2>1, <2>2,
       DumpValidationFailedRestores, DeleteCommandBuffersQuiet
<1>5. Restores(BeginCommandBufferInUse)
  <2> DEFINE a == BeginCommandBuffer \o DumpContents(D)
  <2>1. Quiet(a)
    BY QuietParts, PositionsTyped, DumpContentsInside, BeginCommandBufferQuiet
       DEF Inside
  <2>2. BeginCommandBufferInUse = a \o DumpValidationFailed
    BY QuietParts, PositionsTyped DEF BeginCommandBufferInUse
  <2> HIDE DEF a
  <2>3. QED
    BY QuietParts, PositionsTyped, <1>1, <1>2, <2>1, <2>2,
       DumpValidationFailedRestores
<1>6. QED BY QuietParts, PositionsTyped, <1>3, <1>4, <1>5 DEF Validating, Script

(* The other hooks force nothing, and read the options before they save.   *)
LEMMA OtherHooksRead ==
  \A h \in Hooks \ Validating :
    \E n \in PlainModes : Leads(Script[h], PlainModes, "plain", n)
<1> DEFINE Reads(s) == \E n \in PlainModes : Leads(s, PlainModes, "plain", n)
<1>1. ASSUME NEW s, Quiet(s) PROVE Leads(s, PlainModes, "plain", "plain")
  BY QuietParts, PositionsTyped, <1>1, LeadsQuiet DEF PlainModes, ForcedModes
<1>2. \A s : Quiet(s) => Reads(s)
  BY QuietParts, PositionsTyped, <1>1 DEF PlainModes
<1>3. Reads(DumpDevice)
  BY QuietParts, PositionsTyped, DumpDeviceReads DEF PlainModes
<1>4. Reads(DumpQueueDevice)
  <2>1. Quiet(Section({}, "queue_device_tracker")) BY QuietParts, PositionsTyped
  <2>2. Leads(DumpQueueDevice, PlainModes, "plain", "read")
    BY QuietParts, PositionsTyped, <1>1, <2>1, DumpDeviceReads, LeadsConcat DEF
       DumpQueueDevice
  <2>3. QED BY QuietParts, PositionsTyped, <2>2 DEF PlainModes
<1>5. Reads(DumpForWatchdog)
  <2> DEFINE a == <<Do("TakeTime", {}), Do("StoreSubmitTime", {})>>
  <2>1. Quiet(a) BY QuietParts, PositionsTyped
  <2>2. Leads(a, PlainModes, "read", "read")
    BY QuietParts, PositionsTyped, <2>1, LeadsQuiet DEF PlainModes, ForcedModes
  <2>3. DumpForWatchdog = DumpDevice \o a
    BY QuietParts, PositionsTyped DEF DumpForWatchdog
  <2> HIDE DEF a
  <2>4. Leads(DumpForWatchdog, PlainModes, "plain", "read")
    BY QuietParts, PositionsTyped, <2>2, <2>3, DumpDeviceReads, LeadsConcat
  <2>5. QED BY QuietParts, PositionsTyped, <2>4 DEF PlainModes
<1>6. Reads(SignalHang) BY QuietParts, PositionsTyped, <1>3 DEF SignalHang
<1>7. Reads(CheckTimer)
  <2> DEFINE a == <<Do("TakeTime", {})>>
             b == <<Do("TestTimer", {})>>
  <2>1. Quiet(a)
    <3>1. /\ Do("TakeTime", {}) \in PositionType
          /\ Do("TakeTime", {}).do \notin OptionEffects
      BY QuietParts, PositionsTyped
    <3>2. QED BY ONLY <3>1, QuietParts
  <2>2. /\ Do("TestTimer", {}) \in PositionType
        /\ Allowed("plain", Do("TestTimer", {}))
        /\ After("plain", Do("TestTimer", {}).do) = "plain"
    BY QuietParts, PositionsTyped DEF Allowed, After, ForcedModes
  <2>3. Leads(b, PlainModes, "plain", "plain")
    BY QuietParts, PositionsTyped, <2>2, LeadsOne DEF PlainModes
  <2>4. CheckTimer = a \o b
    <3>1. PICK p \in PositionType : p = Do("TakeTime", {})
      BY QuietParts, PositionsTyped
    <3>2. PICK q \in PositionType : q = Do("TestTimer", {})
      BY QuietParts, PositionsTyped
    <3>3. QED BY ONLY <3>1, <3>2, Pieces DEF CheckTimer
  <2> HIDE DEF a, b
  <2>5. Leads(CheckTimer, PlainModes, "plain", "plain")
    BY QuietParts, PositionsTyped, <1>1, <2>1, <2>3, <2>4, LeadsConcat
  <2>6. QED BY QuietParts, PositionsTyped, <2>5 DEF PlainModes
<1>8. Leads(PostQueueSubmit, PlainModes, "plain", "plain")
  <2> DEFINE a == <<Do("LoadTotalSubmits", {}), Do("StoreTotalSubmits", {})>>
             b == <<Do("TestSubmit", {})>>
  <2>1. Quiet(a) BY QuietParts, PositionsTyped
  <2>2. /\ Do("TestSubmit", {}) \in PositionType
        /\ Allowed("plain", Do("TestSubmit", {}))
        /\ After("plain", Do("TestSubmit", {}).do) = "plain"
    BY QuietParts, PositionsTyped DEF Allowed, After, ForcedModes
  <2>3. Leads(b, PlainModes, "plain", "plain")
    BY QuietParts, PositionsTyped, <2>2, LeadsOne DEF PlainModes
  <2>4. PostQueueSubmit = a \o b
    <3>1. PICK p \in PositionType : p = Do("LoadTotalSubmits", {})
      BY QuietParts, PositionsTyped
    <3>2. PICK q \in PositionType : q = Do("StoreTotalSubmits", {})
      BY QuietParts, PositionsTyped
    <3>3. PICK r \in PositionType : r = Do("TestSubmit", {})
      BY QuietParts, PositionsTyped
    <3>4. /\ <<p, q, r>> = (<<p>> \o <<q>>) \o <<r>> /\ <<p, q>> = <<p>> \o <<q>>
      BY ONLY Pieces
    <3>5. QED BY ONLY <3>1, <3>2, <3>3, <3>4 DEF PostQueueSubmit
  <2> HIDE DEF a, b
  <2>5. QED BY QuietParts, PositionsTyped, <1>1, <2>1, <2>3, <2>4, LeadsConcat
<1>9. Reads(QueueSubmit)
  <2>1. Quiet(PreQueueSubmit \o TrackSubmit)
    BY QuietParts, PositionsTyped, PreQueueSubmitQuiet, TrackSubmitQuiet
  <2>2. Leads(QueueSubmit, PlainModes, "plain", "plain")
    BY QuietParts, PositionsTyped, <1>1, <1>8, <2>1, LeadsConcat DEF QueueSubmit
  <2>3. QED BY QuietParts, PositionsTyped, <2>2 DEF PlainModes
<1>10. Reads(QueueSubmitUntracked)
  <2>1. Quiet(PreQueueSubmit \o Section({}, "layer"))
    BY QuietParts, PositionsTyped, PreQueueSubmitQuiet
  <2>2. Leads(QueueSubmitUntracked, PlainModes, "plain", "plain")
    BY QuietParts, PositionsTyped, <1>1, <1>8, <2>1, LeadsConcat DEF
       QueueSubmitUntracked
  <2>3. QED BY QuietParts, PositionsTyped, <2>2 DEF PlainModes
<1>11. Reads(QueueSubmitTraced)
  <2>1. Quiet(PreQueueSubmit \o (TrackSubmit \o LogSubmitInfoSemaphores))
    BY QuietParts, PositionsTyped, PreQueueSubmitQuiet, TrackSubmitQuiet,
       LogSubmitInfoSemaphoresQuiet
  <2>2. Leads(QueueSubmitTraced, PlainModes, "plain", "plain")
    BY QuietParts, PositionsTyped, <1>1, <1>8, <2>1, LeadsConcat DEF
       QueueSubmitTraced
  <2>3. QED BY QuietParts, PositionsTyped, <2>2 DEF PlainModes
<1> HIDE DEF Reads
<1>12. /\ Reads(CreateDevice) /\ Reads(GetDeviceQueue)
       /\ Reads(CreateShaderModule) /\ Reads(CreatePipeline)
       /\ Reads(SetObjectName) /\ Reads(CreateCommandPool)
       /\ Reads(ResetCommandPool) /\ Reads(DestroyCommandPool)
       /\ Reads(AllocateCommandBuffers) /\ Reads(FreeCommandBuffers)
       /\ Reads(BeginCommandBuffer) /\ Reads(BindPipeline)
       /\ Reads(CreateSemaphore) /\ Reads(DestroySemaphore)
       /\ Reads(DestroySemaphoreTraced) /\ Reads(WaitSemaphores)
       /\ Reads(CreateSemaphoreTraced) /\ Reads(SignalSemaphore)
       /\ Reads(SignalSemaphoreTraced) /\ Reads(WaitSemaphoresTraced)
       /\ Reads(QueueBindSparse) /\ Reads(QueueBindSparseTraced)
  BY QuietParts, PositionsTyped, <1>2, CreateDeviceQuiet, GetDeviceQueueQuiet,
     CreateShaderModuleQuiet,
     CreatePipelineQuiet, SetObjectNameQuiet, CreateCommandPoolQuiet,
     ResetCommandPoolQuiet, DestroyCommandPoolQuiet, AllocateCommandBuffersQuiet,
     FreeCommandBuffersQuiet, BeginCommandBufferQuiet, BindPipelineQuiet,
     CreateSemaphoreQuiet, DestroySemaphoreQuiet, DestroySemaphoreTracedQuiet,
     CreateSemaphoreTracedQuiet, SignalSemaphoreQuiet,
     WaitSemaphoresQuiet, QueueBindSparseQuiet
<1>13. \A h \in Hooks \ Validating : Reads(Script[h])
  BY QuietParts, PositionsTyped, <1>3, <1>4, <1>5, <1>6, <1>7, <1>9, <1>10,
     <1>11, <1>12 DEF Hooks, Script, Validating
<1>14. QED BY QuietParts, PositionsTyped, <1>13 DEF Reads

HIDE DEF On, Do, D, OnDevices, Mutexes, Gated, Outer, Middle, Inner, Nothing,
         Effects, OptionEffects

-----------------------------------------------------------------------------
(* Entering a hook, and its positions.                                     *)

(* A script that can be entered: with no mutex, and not inside a report.    *)
Enterable(s) ==
  /\ Linked(s)
  /\ First(s).hold = {} /\ First(s).do \notin ReportEffects

LEMMA EnterWithLock ==
  ASSUME NEW s, NEW m, Linked(s), First(s) = On({}, m)
  PROVE  Enterable(s)
BY DEF Enterable, On, ReportEffects, Nothing

LEMMA EnterWithTime ==
  ASSUME NEW s, Linked(s), First(s) = Do("TakeTime", {})
  PROVE  Enterable(s)
BY DEF Enterable, Do, ReportEffects

LEMMA HooksEnterable == \A h \in Hooks : Enterable(Script[h])
<1>1. /\ Enterable(CreateDevice) /\ Enterable(GetDeviceQueue)
      /\ Enterable(CreateShaderModule) /\ Enterable(CreatePipeline)
      /\ Enterable(SetObjectName) /\ Enterable(CreateCommandPool)
      /\ Enterable(InvalidatePoolInUse) /\ Enterable(ResetCommandPool)
      /\ Enterable(DestroyCommandPool) /\ Enterable(AllocateCommandBuffers)
      /\ Enterable(FreeCommandBuffers) /\ Enterable(FreeCommandBuffersInUse)
      /\ Enterable(BeginCommandBuffer) /\ Enterable(BeginCommandBufferInUse)
      /\ Enterable(BindPipeline) /\ Enterable(CreateSemaphore)
      /\ Enterable(DestroySemaphore) /\ Enterable(DestroySemaphoreTraced)
      /\ Enterable(CreateSemaphoreTraced) /\ Enterable(SignalSemaphore)
      /\ Enterable(SignalSemaphoreTraced) /\ Enterable(WaitSemaphoresTraced)
      /\ Enterable(WaitSemaphores) /\ Enterable(QueueBindSparse)
      /\ Enterable(QueueBindSparseTraced)
      /\ Enterable(DumpDevice) /\ Enterable(DumpQueueDevice)
      /\ Enterable(SignalHang) /\ Enterable(DumpForWatchdog)
  BY EnterWithLock,
     CreateDeviceLinked, GetDeviceQueueLinked, CreateShaderModuleLinked,
     CreatePipelineLinked, SetObjectNameLinked, CreateCommandPoolLinked,
     InvalidatePoolInUseLinked, ResetCommandPoolLinked,
     DestroyCommandPoolLinked, AllocateCommandBuffersLinked,
     FreeCommandBuffersLinked, FreeCommandBuffersInUseLinked,
     BeginCommandBufferLinked, BeginCommandBufferInUseLinked,
     BindPipelineLinked, CreateSemaphoreLinked, DestroySemaphoreLinked,
     DestroySemaphoreTracedLinked, CreateSemaphoreTracedLinked,
     SignalSemaphoreLinked, SignalSemaphoreTracedLinked, WaitSemaphoresLinked,
     QueueBindSparseLinked, DumpDeviceLinked, DumpQueueDeviceLinked,
     SignalHangLinked, DumpForWatchdogLinked
<1>2. /\ Enterable(QueueSubmit)
      /\ Enterable(QueueSubmitTraced)
      /\ Enterable(QueueSubmitUntracked)
      /\ Enterable(CheckTimer)
  BY EnterWithTime, QueueSubmitLinked, QueueSubmitTracedLinked,
     QueueSubmitUntrackedLinked, CheckTimerLinked
<1>3. QED BY <1>1, <1>2 DEF Hooks, Script

LEMMA HookNames ==
  /\ Idle \notin Hooks
  /\ {"CheckTimer", "DumpForWatchdog", "DumpQueueDevice"} \subseteq Hooks
BY DEF Hooks, Script, Idle

LEMMA NothingIsNoMutex == Nothing \notin Mutexes
BY DEF Nothing, Mutexes, Gated, Outer, Middle, Inner

LEMMA PositionInHook ==
  ASSUME NEW h \in Hooks, NEW k \in 1..Len(Script[h])
  PROVE  Script[h][k] \in PositionType
BY HooksEnterable DEF Enterable, Linked

LEMMA FirstPosition ==
  ASSUME NEW h \in Hooks
  PROVE  /\ 1 \in 1..Len(Script[h])
         /\ Script[h][1].hold = {} /\ Script[h][1].do \notin ReportEffects
BY HooksEnterable DEF Enterable, Linked, First

LEMMA NextPosition ==
  ASSUME NEW h \in Hooks, NEW k \in 1..Len(Script[h]), k < Len(Script[h])
  PROVE  /\ k + 1 \in 1..Len(Script[h])
         /\ Follows(Script[h][k], Script[h][k + 1])
BY HooksEnterable DEF Enterable, Linked

-----------------------------------------------------------------------------
(* Threads and their positions.                                            *)

(* The part of the types that says where threads are.                      *)
Placed ==
  /\ hook \in [Threads -> Hooks \cup {Idle}]
  /\ pc \in [Threads -> Nat]
  /\ \A t \in Threads : hook[t] # Idle => pc[t] \in 1..Len(Script[hook[t]])
  /\ \A t \in Threads : hook[t] = Idle => pc[t] = 0

(* A thread that is not at this step's action.                             *)
Stays(t) == hook'[t] = hook[t] /\ pc'[t] = pc[t]

EffectOf(t) == IF hook[t] = Idle THEN Nothing ELSE Position(t).do

LEMMA StaysInPlace ==
  ASSUME NEW t \in Threads, Stays(t)
  PROVE  Held(t)' = Held(t) /\ EffectOf(t)' = EffectOf(t)
BY DEF Stays, Held, EffectOf, Position

LEMMA DoingIsEffect ==
  ASSUME NEW t, NEW effect, Doing(t, effect)
  PROVE  hook[t] # Idle /\ EffectOf(t) = effect
BY DEF Doing, EffectOf

LEMMA Advances ==
  ASSUME Placed, NEW t \in Threads, hook[t] # Idle, NEW l, Advance(t, l)
  PROVE  /\ Placed'
         /\ \A u \in Threads \ {t} : Stays(u)
         /\ \/ hook'[t] = Idle
            \/ hook'[t] # Idle /\ Follows(Position(t), Position(t)')
<1>1. hook[t] \in Hooks /\ pc[t] \in 1..Len(Script[hook[t]])
  BY DEF Placed
<1>2. CASE pc[t] < Len(Script[hook[t]])
  <2>1. hook' = hook /\ pc' = [pc EXCEPT ![t] = @ + 1]
    BY <1>2 DEF Advance
  <2>2. pc'[t] = pc[t] + 1 /\ \A u \in Threads \ {t} : pc'[u] = pc[u]
    BY <2>1 DEF Placed
  <2>3. /\ pc[t] + 1 \in 1..Len(Script[hook[t]])
        /\ Follows(Script[hook[t]][pc[t]], Script[hook[t]][pc[t] + 1])
    BY <1>1, <1>2, NextPosition
  <2>4. Placed' BY <2>1, <2>2, <2>3 DEF Placed
  <2>5. QED BY <2>1, <2>2, <2>3, <2>4 DEF Stays, Position
<1>3. CASE ~(pc[t] < Len(Script[hook[t]]))
  <2>1. hook' = [hook EXCEPT ![t] = Idle] /\ pc' = [pc EXCEPT ![t] = 0]
    BY <1>3 DEF Advance, Return
  <2>2. QED BY <2>1 DEF Placed, Stays
<1>4. QED BY <1>2, <1>3

LEMMA Enters ==
  ASSUME Placed, NEW t \in Threads, NEW h \in Hooks, Enter(t, h)
  PROVE  /\ Placed'
         /\ \A u \in Threads \ {t} : Stays(u)
         /\ hook'[t] # Idle /\ Position(t)' \in PositionType
         /\ Held(t)' = {} /\ Position(t)'.do \notin ReportEffects
<1>1. hook' = [hook EXCEPT ![t] = h] /\ pc' = [pc EXCEPT ![t] = 1] BY DEF Enter
<1>2. hook'[t] = h /\ pc'[t] = 1 BY <1>1 DEF Placed
<1>3. \A u \in Threads \ {t} : Stays(u) BY <1>1 DEF Placed, Stays
<1>4. h # Idle BY HookNames
<1>5. Placed' BY <1>1, <1>2, <1>4, FirstPosition DEF Placed
<1>6. QED
  BY <1>2, <1>3, <1>4, <1>5, FirstPosition, PositionInHook
  DEF Held, Position

LEMMA EffectsTakeNoMutex ==
  ASSUME Placed, NEW t \in Threads, NEW effect, Doing(t, effect), effect # Nothing
  PROVE  Wants(t) = Nothing
<1>1. hook[t] \in Hooks /\ pc[t] \in 1..Len(Script[hook[t]])
  BY DEF Placed, Doing
<1>2. Position(t) \in PositionType BY <1>1, PositionInHook DEF Position
<1>3. QED BY <1>2 DEF Doing, Wants, PositionType

-----------------------------------------------------------------------------
(* Every step moves at most one thread, which has what it wants.           *)

Runs(t) ==
  \/ /\ hook[t] # Idle
     /\ Wants(t) # Nothing => Free(Wants(t))
     /\ \E l : Advance(t, l)
  \/ \E h \in Hooks : Enter(t, h)

LEMMA NextRuns ==
  ASSUME Placed, Next
  PROVE  (\E t \in Threads : Runs(t)) \/ UNCHANGED <<hook, pc>>
<1>1. CASE Tick BY <1>1 DEF Tick
<1>2. CASE WakeUp
  BY <1>2, HookNames DEF WakeUp, Runs, Threads
<1>3. CASE TestTimer
  <2>1. Watchdog \in Threads BY DEF Threads
  <2>2. Wants(Watchdog) = Nothing
    BY <1>3, <2>1, EffectsTakeNoMutex DEF TestTimer, Nothing
  <2>3. hook[Watchdog] # Idle BY <1>3 DEF TestTimer, Doing
  <2>4. QED BY <1>3, <2>1, <2>2, <2>3, HookNames DEF TestTimer, Runs
<1>4. ASSUME NEW t \in Threads, Step(t) PROVE Runs(t)
  <2>1. CASE Pass(t) BY <2>1 DEF Pass, Doing, Runs
  <2>2. CASE TakeTime(t)
    BY <2>2, EffectsTakeNoMutex DEF TakeTime, Doing, Runs, Nothing
  <2>3. CASE StoreSubmitTime(t)
    BY <2>3, EffectsTakeNoMutex DEF StoreSubmitTime, Doing, Runs, Nothing
  <2>4. CASE LoadTotalSubmits(t)
    BY <2>4, EffectsTakeNoMutex DEF LoadTotalSubmits, Doing, Runs, Nothing
  <2>5. CASE StoreTotalSubmits(t)
    BY <2>5, EffectsTakeNoMutex DEF StoreTotalSubmits, Doing, Runs, Nothing
  <2>6. CASE \E lost \in BOOLEAN : TestSubmit(t, lost)
    BY <2>6, EffectsTakeNoMutex, HookNames DEF TestSubmit, Doing, Runs, Nothing
  <2>7. CASE ForceDumpAll(t)
    BY <2>7, EffectsTakeNoMutex DEF ForceDumpAll, Doing, Runs, Nothing
  <2>8. CASE RestoreDumpAll(t)
    BY <2>8, EffectsTakeNoMutex DEF RestoreDumpAll, Doing, Runs, Nothing
  <2>9. CASE ReadOptions(t)
    BY <2>9, EffectsTakeNoMutex DEF ReadOptions, Doing, Runs, Nothing
  <2>10. CASE NameReport(t)
    BY <2>10, EffectsTakeNoMutex DEF NameReport, Doing, Runs, Nothing
  <2>11. CASE CountReport(t)
    BY <2>11, EffectsTakeNoMutex DEF CountReport, Doing, Runs, Nothing
  <2>12. CASE SaveReport(t)
    BY <2>12, EffectsTakeNoMutex DEF SaveReport, Doing, Runs, Nothing
  <2>13. QED
    BY <1>4, <2>1, <2>2, <2>3, <2>4, <2>5, <2>6, <2>7, <2>8, <2>9, <2>10,
       <2>11, <2>12 DEF Step
<1>5. ASSUME NEW t \in Threads, NEW h \in Hooks, Call(t, h) PROVE Runs(t)
  BY <1>5 DEF Call, Runs
<1>6. QED BY <1>1, <1>2, <1>3, <1>4, <1>5 DEF Next

-----------------------------------------------------------------------------
(* Mutexes exclude, and threads are in their hooks.                        *)

Exclusive ==
  \A t, u \in Threads : t # u => Held(t) \cap Held(u) = {}

Mutual == Placed /\ Exclusive

LEMMA HeldAreMutexes ==
  ASSUME Placed, NEW t \in Threads
  PROVE  Held(t) \subseteq Mutexes
<1>1. CASE hook[t] = Idle BY <1>1 DEF Held
<1>2. CASE hook[t] # Idle
  <2>1. Position(t) \in PositionType
    BY <1>2, PositionInHook DEF Placed, Position
  <2>2. QED BY <1>2, <2>1 DEF Held, PositionType
<1>3. QED BY <1>1, <1>2

LEMMA MutualInit == Init => Mutual
BY DEF Init, Mutual, Placed, Exclusive, Held

LEMMA MutualNext == Mutual /\ [Next]_vars => Mutual'
<1> SUFFICES ASSUME Mutual, [Next]_vars PROVE Mutual'
  OBVIOUS
<1>1. CASE UNCHANGED <<hook, pc>>
  BY <1>1 DEF Mutual, Placed, Exclusive, Held, Position
<1>2. ASSUME NEW t \in Threads, Runs(t) PROVE Mutual'
  <2>1. /\ Placed' /\ \A u \in Threads \ {t} : Held(u)' = Held(u)
        /\ \/ Held(t)' = {}
           \/ /\ Held(t)' \subseteq Held(t) \cup {Wants(t)}
              /\ Wants(t) # Nothing => Free(Wants(t))
    <3>1. CASE /\ hook[t] # Idle
               /\ Wants(t) # Nothing => Free(Wants(t))
               /\ \E l : Advance(t, l)
      <4>1. /\ Placed' /\ \A u \in Threads \ {t} : Stays(u)
            /\ \/ hook'[t] = Idle
               \/ hook'[t] # Idle /\ Follows(Position(t), Position(t)')
        BY <3>1, Advances DEF Mutual
      <4>2. hook'[t] = Idle => Held(t)' = {} BY DEF Held
      <4>3. ASSUME hook'[t] # Idle, Follows(Position(t), Position(t)')
            PROVE  Held(t)' \subseteq Held(t) \cup {Wants(t)}
        BY <3>1, <4>3 DEF Held, Wants, Follows
      <4>4. QED BY <3>1, <4>1, <4>2, <4>3, StaysInPlace
    <3>2. CASE \E h \in Hooks : Enter(t, h)
      BY <3>2, Enters, StaysInPlace DEF Mutual
    <3>3. QED BY <1>2, <3>1, <3>2 DEF Runs
  <2>2. ASSUME NEW u \in Threads \ {t} PROVE Held(t)' \cap Held(u)' = {}
    <3>1. Held(u) \subseteq Mutexes /\ Held(t) \cap Held(u) = {}
      BY HeldAreMutexes DEF Mutual, Exclusive
    <3>2. CASE Held(t)' = {} BY <3>2
    <3>3. CASE /\ Held(t)' \subseteq Held(t) \cup {Wants(t)}
               /\ Wants(t) # Nothing => Free(Wants(t))
      <4>1. Wants(t) \notin Held(u) BY <3>1, <3>3, NothingIsNoMutex DEF Free
      <4>2. QED BY <2>1, <3>1, <3>3, <4>1
    <3>4. QED BY <2>1, <3>2, <3>3
  <2>3. QED BY <2>1, <2>2 DEF Mutual, Exclusive
<1>3. QED BY <1>1, <1>2, NextRuns DEF Mutual, vars

LEMMA MutualAlways == Spec => []Mutual
BY MutualInit, MutualNext, PTL DEF Spec

-----------------------------------------------------------------------------
(* No hooks deadlock.                                                      *)

LEMMA WaitingIsOrdered ==
  ASSUME Mutual, NEW t \in Threads, Wants(t) \in Mutexes,
         hook[t] # "DestroySemaphoreTraced"
  PROVE  Ordered(Position(t)) /\ Held(t) = Position(t).hold
         /\ Wants(t) = Position(t).lock
<1>1. hook[t] # Idle BY NothingIsNoMutex DEF Wants
<1>2. hook[t] \in Hooks \ {"DestroySemaphoreTraced"}
      /\ pc[t] \in 1..Len(Script[hook[t]])
  BY <1>1 DEF Mutual, Placed
<1>3. AllOrdered(Script[hook[t]]) BY <1>2, HooksOrdered DEF HooksAreOrdered
<1>4. QED BY <1>1, <1>2, <1>3 DEF AllOrdered, Position, Held, Wants

LEMMA MutualMeansNoCircularWait == Mutual => NoCircularWait
<1> SUFFICES ASSUME Mutual, NEW S \in SUBSET Threads, CircularWait(S),
                    \A t \in S : hook[t] # "DestroySemaphoreTraced"
             PROVE  FALSE
  BY DEF NoCircularWait
<1>1. \A t \in S : \E u \in S : Wants(t) \in Held(u)
  BY DEF CircularWait
<1>2. \A t \in S : Wants(t) \in Mutexes
  BY <1>1, HeldAreMutexes DEF Mutual
<1>3. \A t \in S : /\ Ordered(Position(t)) /\ Held(t) = Position(t).hold
                   /\ Wants(t) = Position(t).lock
  BY <1>2, WaitingIsOrdered
<1>4. \A t \in S : Wants(t) # Nothing BY <1>2, NothingIsNoMutex
<1>5. \A t \in S : Wants(t) \notin Inner
  BY <1>1, <1>3, <1>4 DEF Ordered
<1>6. \A t \in S : Wants(t) \notin Middle
  BY <1>1, <1>3, <1>4, <1>5 DEF Ordered
<1>7. \A t \in S : Wants(t) \notin Outer
  BY <1>1, <1>3, <1>4, <1>5, <1>6 DEF Ordered
<1>8. \A t \in S : Wants(t) \notin Gated
  <2> SUFFICES ASSUME NEW t \in S, Wants(t) \in Gated PROVE FALSE
    OBVIOUS
  <2>1. PICK u \in S : Wants(t) \in Held(u) BY <1>1
  <2>2. "devices" \in Held(t) /\ Wants(t) \notin Held(t) BY <1>3 DEF Ordered
  <2>3. "devices" \in Held(u) BY <1>3, <2>1 DEF Ordered
  <2>4. t = u BY <2>2, <2>3 DEF Mutual, Exclusive
  <2>5. QED BY <2>1, <2>2, <2>4
<1>9. \A t \in S : Wants(t) = "devices"
  BY <1>2, <1>5, <1>6, <1>7, <1>8 DEF Mutexes
<1>10. \A t \in S : Held(t) = {} BY <1>3, <1>9 DEF Ordered
<1>11. QED BY <1>1, <1>10 DEF CircularWait

(* No hooks deadlock, whatever the threads call and however many they are, *)
(* but for PostDestroySemaphore when it traces (gfr.cc).                   *)
THEOREM DeadlockFree == Spec => []NoCircularWait
BY MutualAlways, MutualMeansNoCircularWait, PTL

-----------------------------------------------------------------------------
(* Types.                                                                  *)

LocalType ==
  [time : 0..config.time, submits : Nat, saved : BOOLEAN, all : BOOLEAN, name : Nat]

ReportType == [log : Nat, all : BOOLEAN, hook : Hooks]

Valued ==
  /\ config \in Configs
  /\ local \in [Threads -> LocalType]
  /\ clock \in 0..config.time /\ wake \in 0..config.time
  /\ last_submit_time_ \in 0..config.time
  /\ total_submits_ \in Nat /\ total_logs_ \in Nat /\ calls \in Nat
  /\ debug_dump_all_command_buffers_ \in BOOLEAN
  /\ reports \in Seq(ReportType)

LEMMA TypeParts == TypeOK <=> Placed /\ Valued
BY DEF TypeOK, Placed, Valued, LocalType, ReportType

LEMMA ConfigTyped ==
  ASSUME config \in Configs
  PROVE  /\ config.timeout \in Nat /\ config.autodump \in Nat
         /\ config.time \in Nat /\ config.logs \in Nat /\ config.dumpAll \in BOOLEAN
BY ConfigAssumption DEF ConfigType

LEMMA AdvanceLocals ==
  ASSUME Valued, NEW t \in Threads, NEW l \in LocalType, Advance(t, l), config' = config
  PROVE  local' \in [Threads -> LocalType]'
<1>1. NoLocals \in LocalType BY ConfigTyped DEF NoLocals, LocalType, Valued
<1>2. LocalType' = LocalType BY DEF LocalType
<1>3. local' = [local EXCEPT ![t] = l] \/ local' = [local EXCEPT ![t] = NoLocals]
  BY DEF Advance, ForgetLocals
<1>4. QED BY <1>1, <1>2, <1>3 DEF Valued

LEMMA ForgetLocalsTyped ==
  ASSUME Valued, NEW t \in Threads, ForgetLocals(t), config' = config
  PROVE  local' \in [Threads -> LocalType]'
<1>1. NoLocals \in LocalType BY ConfigTyped DEF NoLocals, LocalType, Valued
<1>2. LocalType' = LocalType BY DEF LocalType
<1>3. QED BY <1>1, <1>2 DEF Valued, ForgetLocals

LEMMA ValuedInit == Init => Valued
<1> SUFFICES ASSUME Init PROVE Valued
  OBVIOUS
<1>1. config \in Configs BY DEF Init
<1>2. NoLocals \in LocalType BY <1>1, ConfigTyped DEF NoLocals, LocalType
<1>3. QED BY <1>1, <1>2, ConfigTyped DEF Init, Valued

LEMMA ValuedNext == Mutual /\ Valued /\ [Next]_vars => Valued'
<1> SUFFICES ASSUME Mutual, Valued, [Next]_vars PROVE Valued'
  OBVIOUS
<1> USE ConfigTyped DEF Valued
<1>1. CASE UNCHANGED vars BY <1>1 DEF vars, LocalType
<1>2. CASE Tick BY <1>2 DEF Tick, shared, LocalType
<1>3. CASE WakeUp
  <2>1. TestInterval \in Nat
    BY OneSecondAssumption DEF TestInterval, Max2, Min2
  <2>2. Min2(clock + TestInterval, config.time) \in 0..config.time
    BY <2>1 DEF Min2
  <2>3. QED BY <1>3, <2>2 DEF WakeUp, shared, LocalType
<1>4. CASE TestTimer
  <2>1. Watchdog \in Threads BY DEF Threads
  <2>2. local' \in [Threads -> LocalType]'
    BY <1>4, <2>1, AdvanceLocals, ForgetLocalsTyped DEF TestTimer
  <2>3. QED BY <1>4, <2>2 DEF TestTimer, shared
<1>5. ASSUME NEW t \in Threads, NEW h \in Hooks, Call(t, h) PROVE Valued'
  BY <1>5 DEF Call, shared, LocalType
<1>6. ASSUME NEW t \in Threads, Step(t) PROVE Valued'
  <2> DEFINE l == local[t]
  <2>1. l \in LocalType OBVIOUS
  <2>2. CASE Pass(t)
    BY <2>1, <2>2, AdvanceLocals DEF Pass, shared
  <2>3. CASE TakeTime(t)
    <3>1. [l EXCEPT !.time = clock] \in LocalType BY <2>1 DEF LocalType
    <3>2. QED BY <3>1, <2>3, AdvanceLocals DEF TakeTime, shared
  <2>4. CASE StoreSubmitTime(t)
    <3>1. l.time \in 0..config.time BY <2>1 DEF LocalType
    <3>2. QED BY <2>1, <3>1, <2>4, AdvanceLocals DEF StoreSubmitTime
  <2>5. CASE LoadTotalSubmits(t)
    <3>1. [l EXCEPT !.submits = total_submits_] \in LocalType
      BY <2>1 DEF LocalType
    <3>2. QED BY <3>1, <2>5, AdvanceLocals DEF LoadTotalSubmits, shared
  <2>6. CASE StoreTotalSubmits(t)
    <3>1. l.submits + 1 \in Nat /\ Max2(config.autodump, 1) \in Nat \ {0}
      BY <2>1 DEF LocalType, Max2
    <3>2. (l.submits + 1) % Max2(config.autodump, 1) \in Nat BY <3>1
    <3>3. QED BY <2>1, <3>2, <2>6, AdvanceLocals DEF StoreTotalSubmits
  <2>7. CASE \E lost \in BOOLEAN : TestSubmit(t, lost)
    BY <2>1, <2>7, AdvanceLocals, ForgetLocalsTyped DEF TestSubmit, shared
  <2>8. CASE ForceDumpAll(t)
    <3>1. [l EXCEPT !.saved = debug_dump_all_command_buffers_] \in LocalType
      BY <2>1 DEF LocalType
    <3>2. QED BY <3>1, <2>8, AdvanceLocals DEF ForceDumpAll
  <2>9. CASE RestoreDumpAll(t)
    <3>1. l.saved \in BOOLEAN BY <2>1 DEF LocalType
    <3>2. QED BY <2>1, <3>1, <2>9, AdvanceLocals DEF RestoreDumpAll
  <2>10. CASE ReadOptions(t)
    <3>1. [l EXCEPT !.all = debug_dump_all_command_buffers_] \in LocalType
      BY <2>1 DEF LocalType
    <3>2. QED BY <3>1, <2>10, AdvanceLocals DEF ReadOptions, shared
  <2>11. CASE NameReport(t)
    <3>1. [l EXCEPT !.name = total_logs_] \in LocalType BY <2>1 DEF LocalType
    <3>2. QED BY <3>1, <2>11, AdvanceLocals DEF NameReport, shared
  <2>12. CASE CountReport(t)
    <3>1. Min2(total_logs_ + 1, config.logs) \in Nat BY DEF Min2
    <3>2. QED BY <2>1, <3>1, <2>12, AdvanceLocals DEF CountReport
  <2>13. CASE SaveReport(t)
    <3>1. hook[t] \in Hooks
      BY <2>13 DEF SaveReport, Doing, Mutual, Placed
    <3>2. Report(t) \in ReportType
      BY <2>1, <3>1 DEF Report, ReportType, LocalType
    <3>3. reports' \in Seq(ReportType)
      BY <2>13, <3>2, AppendProperties DEF SaveReport
    <3>4. QED BY <2>1, <3>3, <2>13, AdvanceLocals DEF SaveReport
  <2>14. QED
    BY <1>6, <2>2, <2>3, <2>4, <2>5, <2>6, <2>7, <2>8, <2>9, <2>10, <2>11,
       <2>12, <2>13 DEF Step
<1>7. QED BY <1>1, <1>2, <1>3, <1>4, <1>5, <1>6 DEF Next

(* Every variable has its type, and a thread in a hook is at one of its    *)
(* positions.                                                              *)
THEOREM TypeCorrect == Spec => []TypeOK
<1>1. Init => Mutual /\ Valued BY MutualInit, ValuedInit
<1>2. Mutual /\ Valued /\ [Next]_vars => (Mutual /\ Valued)'
  BY MutualNext, ValuedNext
<1>3. Mutual /\ Valued => TypeOK BY TypeParts DEF Mutual
<1>4. QED BY <1>1, <1>2, <1>3, PTL DEF Spec

-----------------------------------------------------------------------------
(* Reports: the log number that a thread has chosen is the one it counts,  *)
(* and no report has it yet when the file is written.                      *)

Numbered ==
  /\ \A t \in Threads : EffectOf(t) = "CountReport" => local[t].name = total_logs_
  /\ \A t \in Threads : EffectOf(t) = "SaveReport" =>
       /\ local[t].name < config.logs => local[t].name < total_logs_
       /\ \A i \in DOMAIN reports : reports[i].log < local[t].name
  /\ \A i \in DOMAIN reports : reports[i].log < total_logs_
  /\ total_logs_ <= config.logs

LEMMA ReportsHoldDevices ==
  ASSUME Placed, NEW t \in Threads, EffectOf(t) \in ReportEffects
  PROVE  "devices" \in Held(t)
<1> DEFINE s == Script[hook[t]]
           k == pc[t]
<1>1. hook[t] # Idle /\ hook[t] \in Hooks /\ k \in 1..Len(s) /\ s[k].do \in ReportEffects
  BY DEF Placed, EffectOf, Position, ReportEffects, Nothing
<1>2. k # 1 BY <1>1, FirstPosition
<1>3. k - 1 \in 1..Len(s) /\ k - 1 < Len(s) /\ (k - 1) + 1 = k BY <1>1, <1>2
<1>4. Follows(s[k - 1], s[(k - 1) + 1]) BY <1>1, <1>3, NextPosition
<1>5. Follows(s[k - 1], s[k]) BY <1>3, <1>4
<1>6. QED BY <1>1, <1>5 DEF Follows, Held, Position

LEMMA OneThreadReports ==
  ASSUME Mutual, NEW t \in Threads, NEW u \in Threads,
         EffectOf(t) \in ReportEffects, EffectOf(u) \in ReportEffects
  PROVE  t = u
BY ReportsHoldDevices DEF Mutual, Exclusive

(* A thread comes to count a report from naming it, and to save it from    *)
(* counting it.                                                            *)
LEMMA AdvanceInReport ==
  ASSUME Mutual, Valued, NEW t \in Threads, NEW l, Advance(t, l), NEW effect,
         Doing(t, effect)
  PROVE  /\ EffectOf(t) = effect
         /\ EffectOf(t)' = "CountReport" => effect = "NameReport"
         /\ EffectOf(t)' = "SaveReport" => effect = "CountReport"
         /\ EffectOf(t)' \in {"CountReport", "SaveReport"} => local'[t] = l
         /\ \A u \in Threads \ {t} : Stays(u) /\ local'[u] = local[u]
<1>1. hook[t] # Idle /\ Position(t).do = effect /\ EffectOf(t) = effect
  BY DEF Doing, EffectOf
<1>2. /\ \A u \in Threads \ {t} : Stays(u)
      /\ \/ hook'[t] = Idle
         \/ hook'[t] # Idle /\ Follows(Position(t), Position(t)')
  BY <1>1, Advances DEF Mutual
<1>3. /\ \A u \in Threads \ {t} : local'[u] = local[u]
      /\ local'[t] = l \/ hook'[t] = Idle
  BY DEF Advance, ForgetLocals, Return, Valued, Mutual, Placed
<1>4. QED BY <1>1, <1>2, <1>3 DEF EffectOf, Follows, Nothing

LEMMA EnterInReport ==
  ASSUME Mutual, NEW t \in Threads, NEW h \in Hooks, Enter(t, h)
  PROVE  /\ EffectOf(t)' # "CountReport" /\ EffectOf(t)' # "SaveReport"
         /\ \A u \in Threads \ {t} : Stays(u)
BY Enters DEF Mutual, EffectOf, ReportEffects, Nothing

(* Steps that neither name, count nor save a report.                       *)
LEMMA OtherSteps ==
  ASSUME Mutual, Valued, Numbered, NEW t \in Threads,
         EffectOf(t)' # "CountReport" /\ EffectOf(t)' # "SaveReport",
         \A u \in Threads \ {t} : Stays(u) /\ local'[u] = local[u],
         UNCHANGED <<config, total_logs_, reports>>
  PROVE  Numbered'
<1>1. \A u \in Threads \ {t} :
        /\ EffectOf(u)' = "CountReport" => EffectOf(u) = "CountReport"
        /\ EffectOf(u)' = "SaveReport" => EffectOf(u) = "SaveReport"
  BY StaysInPlace
<1>2. ASSUME NEW u \in Threads, EffectOf(u)' = "CountReport"
      PROVE  local'[u].name = total_logs_'
  <2>1. u # t BY <1>2
  <2>2. EffectOf(u) = "CountReport" BY <1>1, <1>2, <2>1
  <2>3. local'[u] = local[u] BY <2>1
  <2>4. local[u].name = total_logs_ BY <2>2 DEF Numbered
  <2>5. QED BY <2>3, <2>4
<1>3. ASSUME NEW u \in Threads, EffectOf(u)' = "SaveReport"
      PROVE  /\ local'[u].name < config'.logs => local'[u].name < total_logs_'
             /\ \A i \in DOMAIN reports' : reports'[i].log < local'[u].name
  <2>1. u # t BY <1>3
  <2>2. EffectOf(u) = "SaveReport" /\ local'[u] = local[u] BY <1>1, <1>3, <2>1
  <2>3. QED BY <2>2 DEF Numbered
<1>4. /\ \A i \in DOMAIN reports' : reports'[i].log < total_logs_'
      /\ total_logs_' <= config'.logs
  BY DEF Numbered
<1>5. QED BY <1>2, <1>3, <1>4 DEF Numbered

LEMMA OtherEffects ==
  ASSUME Mutual, Valued, Numbered, NEW t \in Threads, NEW l, Advance(t, l),
         NEW effect, Doing(t, effect), effect \notin {"NameReport", "CountReport"},
         UNCHANGED <<config, total_logs_, reports>>
  PROVE  Numbered'
BY AdvanceInReport, OtherSteps

LEMMA OtherHooks ==
  ASSUME Mutual, Valued, Numbered, NEW t \in Threads, NEW h \in Hooks, Enter(t, h),
         UNCHANGED local \/ ForgetLocals(t),
         UNCHANGED <<config, total_logs_, reports>>
  PROVE  Numbered'
<1>1. \A u \in Threads \ {t} : local'[u] = local[u] BY DEF ForgetLocals, Valued
<1>2. /\ EffectOf(t)' # "CountReport" /\ EffectOf(t)' # "SaveReport"
      /\ \A u \in Threads \ {t} : Stays(u)
  BY EnterInReport
<1>3. QED BY <1>1, <1>2, OtherSteps

LEMMA NumberedInit == Init => Numbered /\ ReportsAreDistinct
BY ConfigTyped DEF Init, Numbered, ReportsAreDistinct, EffectOf, Nothing

LEMMA NumberedNext ==
  Mutual /\ Valued /\ Numbered /\ ReportsAreDistinct /\ [Next]_vars
    => Numbered' /\ ReportsAreDistinct'
<1> SUFFICES ASSUME Mutual, Valued, Numbered, ReportsAreDistinct, [Next]_vars
             PROVE  Numbered' /\ ReportsAreDistinct'
  OBVIOUS
<1>1. ASSUME UNCHANGED reports PROVE ReportsAreDistinct'
  BY <1>1 DEF ReportsAreDistinct
<1>2. CASE UNCHANGED <<config, hook, pc, local, total_logs_, reports>>
  BY <1>2 DEF Numbered, EffectOf, Position, ReportsAreDistinct
<1>3. CASE UNCHANGED vars \/ Tick BY <1>2, <1>3 DEF vars, Tick, shared
<1>4. CASE WakeUp
  <2>1. Watchdog \in Threads /\ "CheckTimer" \in Hooks BY HookNames DEF Threads
  <2>2. QED BY <1>1, <1>4, <2>1, OtherHooks DEF WakeUp, shared
<1>5. CASE TestTimer
  <2>1. Watchdog \in Threads /\ "DumpForWatchdog" \in Hooks
    BY HookNames DEF Threads
  <2>2. QED BY <1>1, <1>5, <2>1, OtherHooks, OtherEffects DEF TestTimer, shared
<1>6. ASSUME NEW t \in Threads, NEW h \in Hooks, Call(t, h)
      PROVE  Numbered' /\ ReportsAreDistinct'
  BY <1>1, <1>6, OtherHooks DEF Call, shared
<1>7. ASSUME NEW t \in Threads, NameReport(t)
      PROVE  Numbered' /\ ReportsAreDistinct'
  <2> DEFINE l == [local[t] EXCEPT !.name = total_logs_]
  <2>1. l.name = total_logs_ BY DEF Valued, LocalType
  <2>2. UNCHANGED <<config, total_logs_, reports>>
    BY <1>7 DEF NameReport, shared
  <2>3. /\ EffectOf(t)' = "CountReport" => local'[t] = l
        /\ EffectOf(t)' # "SaveReport"
        /\ \A u \in Threads \ {t} : Stays(u) /\ local'[u] = local[u]
    BY <1>7, AdvanceInReport DEF NameReport
  <2>4. \A u \in Threads \ {t} :
          /\ EffectOf(u)' = "CountReport" => EffectOf(u) = "CountReport"
          /\ EffectOf(u)' = "SaveReport" => EffectOf(u) = "SaveReport"
    BY <2>3, StaysInPlace
  <2>5. ASSUME NEW u \in Threads, EffectOf(u)' = "CountReport"
        PROVE  local'[u].name = total_logs_'
    <3>1. CASE u = t
      <4>1. local'[u] = l BY <2>3, <2>5, <3>1
      <4>2. local'[u].name = l.name BY <4>1
      <4>3. QED BY <2>1, <2>2, <4>2
    <3>2. CASE u # t
      <4>1. EffectOf(u) = "CountReport" /\ local'[u] = local[u]
        BY <2>3, <2>4, <2>5, <3>2
      <4>2. QED BY <2>2, <4>1 DEF Numbered
    <3>3. QED BY <3>1, <3>2
  <2>6. ASSUME NEW u \in Threads, EffectOf(u)' = "SaveReport"
        PROVE  /\ local'[u].name < config'.logs => local'[u].name < total_logs_'
               /\ \A i \in DOMAIN reports' : reports'[i].log < local'[u].name
    <3>1. u # t BY <2>3, <2>6
    <3>2. EffectOf(u) = "SaveReport" /\ local'[u] = local[u]
      BY <2>3, <2>4, <2>6, <3>1
    <3>3. QED BY <2>2, <3>2 DEF Numbered
  <2>7. /\ \A i \in DOMAIN reports' : reports'[i].log < total_logs_'
        /\ total_logs_' <= config'.logs
    BY <2>2 DEF Numbered
  <2>8. Numbered' BY <2>5, <2>6, <2>7 DEF Numbered
  <2>9. QED BY <1>1, <2>2, <2>8
<1>8. ASSUME NEW t \in Threads, CountReport(t)
      PROVE  Numbered' /\ ReportsAreDistinct'
  <2>1. /\ EffectOf(t) = "CountReport"
        /\ total_logs_' = Min2(total_logs_ + 1, config.logs)
        /\ UNCHANGED <<config, reports>>
    BY <1>8, DoingIsEffect DEF CountReport
  <2>2. /\ EffectOf(t)' # "CountReport"
        /\ EffectOf(t)' = "SaveReport" => local'[t] = local[t]
        /\ \A u \in Threads \ {t} : Stays(u) /\ local'[u] = local[u]
    BY <1>8, AdvanceInReport DEF CountReport
  <2>3. \A u \in Threads \ {t} : EffectOf(u)' # "CountReport" /\ EffectOf(u)' # "SaveReport"
    BY <2>1, <2>2, StaysInPlace, OneThreadReports DEF ReportEffects
  <2>4. local[t].name = total_logs_ /\ total_logs_ \in Nat /\ config.logs \in Nat
    BY <2>1, ConfigTyped DEF Numbered, Valued
  <2>5. total_logs_ < config.logs => total_logs_ < total_logs_'
    BY <2>1, <2>4 DEF Min2
  <2>6. total_logs_ <= total_logs_' /\ total_logs_' <= config.logs
        /\ total_logs_' \in Nat
    <3>1. total_logs_ <= config.logs BY DEF Numbered
    <3>2. QED BY <2>1, <2>4, <3>1 DEF Min2
  <2>7. \A i \in DOMAIN reports : reports[i].log \in Nat
    <3>1. reports \in Seq(ReportType) BY DEF Valued
    <3>2. \A r \in ReportType : r.log \in Nat BY DEF ReportType
    <3>3. QED BY <3>1, <3>2
  <2>8. \A i \in DOMAIN reports : /\ reports[i].log < local[t].name
                                /\ reports[i].log < total_logs_'
    BY <2>4, <2>6, <2>7 DEF Numbered
  <2>9. ASSUME NEW u \in Threads, EffectOf(u)' = "SaveReport"
        PROVE  /\ local'[u].name < config'.logs => local'[u].name < total_logs_'
               /\ \A i \in DOMAIN reports' : reports'[i].log < local'[u].name
    <3>1. u = t /\ local'[u] = local[t] BY <2>2, <2>3, <2>9
    <3>2. QED BY <2>1, <2>4, <2>5, <2>8, <3>1
  <2>10. \A u \in Threads : EffectOf(u)' # "CountReport" BY <2>2, <2>3
  <2>11. Numbered' BY <2>1, <2>6, <2>8, <2>9, <2>10 DEF Numbered
  <2>12. QED BY <1>1, <2>1, <2>11
<1>9. ASSUME NEW t \in Threads, SaveReport(t)
      PROVE  Numbered' /\ ReportsAreDistinct'
  <2> DEFINE new == Report(t)
  <2>1. EffectOf(t) = "SaveReport" /\ UNCHANGED <<config, total_logs_>>
    BY <1>9, DoingIsEffect DEF SaveReport
  <2>2. /\ EffectOf(t)' # "CountReport" /\ EffectOf(t)' # "SaveReport"
        /\ \A u \in Threads \ {t} : Stays(u) /\ local'[u] = local[u]
    BY <1>9, AdvanceInReport DEF SaveReport
  <2>3. \A u \in Threads : EffectOf(u)' # "CountReport" /\ EffectOf(u)' # "SaveReport"
    BY <2>1, <2>2, StaysInPlace, OneThreadReports DEF ReportEffects
  <2>4. CASE UNCHANGED reports
    <3>1. Numbered' BY <2>1, <2>3, <2>4 DEF Numbered
    <3>2. QED BY <1>1, <2>4, <3>1
  <2>5. CASE local[t].name < config.logs /\ reports' = Append(reports, new)
    <3>1. new.log = local[t].name BY DEF Report
    <3>2. /\ local[t].name < total_logs_ /\ local[t].name \in Nat
          /\ \A i \in DOMAIN reports : reports[i].log < new.log
      BY <2>1, <2>5, <3>1 DEF Numbered, Valued, LocalType
    <3>3. /\ reports \in Seq(ReportType) /\ DOMAIN reports = 1..Len(reports)
          /\ Len(reports) \in Nat
          /\ \A i \in DOMAIN reports : reports[i].log \in Nat
      <4>1. reports \in Seq(ReportType) BY DEF Valued
      <4>2. \A r \in ReportType : r.log \in Nat BY DEF ReportType
      <4>3. QED BY <4>1, <4>2
    <3>4. /\ DOMAIN reports' = 1..(Len(reports) + 1)
          /\ \A i \in DOMAIN reports : reports'[i] = reports[i]
          /\ reports'[Len(reports) + 1] = new
      BY <2>5, <3>3
    <3>5. \A i \in DOMAIN reports' : i \in DOMAIN reports \/ i = Len(reports) + 1
      BY <3>3, <3>4
    <3>6. \A i \in DOMAIN reports' : reports'[i].log < total_logs_'
      BY <2>1, <3>1, <3>2, <3>4, <3>5 DEF Numbered
    <3>7. Numbered' BY <2>1, <2>3, <3>6 DEF Numbered
    <3>8. \A i, j \in DOMAIN reports' :
            i # j => reports'[i].log # reports'[j].log
      BY <3>1, <3>2, <3>3, <3>4, <3>5 DEF ReportsAreDistinct
    <3>9. QED BY <3>7, <3>8 DEF ReportsAreDistinct
  <2>6. QED BY <1>9, <2>4, <2>5 DEF SaveReport
<1>10. ASSUME NEW t \in Threads, Step(t) PROVE Numbered' /\ ReportsAreDistinct'
  <2>1. CASE Pass(t)
    BY <1>1, <2>1, OtherEffects DEF Pass, shared, Nothing
  <2>2. CASE TakeTime(t)
    BY <1>1, <2>2, OtherEffects DEF TakeTime, shared
  <2>3. CASE StoreSubmitTime(t)
    BY <1>1, <2>3, OtherEffects DEF StoreSubmitTime
  <2>4. CASE LoadTotalSubmits(t)
    BY <1>1, <2>4, OtherEffects DEF LoadTotalSubmits, shared
  <2>5. CASE StoreTotalSubmits(t)
    BY <1>1, <2>5, OtherEffects DEF StoreTotalSubmits
  <2>6. CASE \E lost \in BOOLEAN : TestSubmit(t, lost)
    BY <1>1, <2>6, OtherEffects, OtherHooks, HookNames DEF TestSubmit, shared
  <2>7. CASE ForceDumpAll(t)
    BY <1>1, <2>7, OtherEffects DEF ForceDumpAll
  <2>8. CASE RestoreDumpAll(t)
    BY <1>1, <2>8, OtherEffects DEF RestoreDumpAll
  <2>9. CASE ReadOptions(t)
    BY <1>1, <2>9, OtherEffects DEF ReadOptions, shared
  <2>10. QED
    BY <1>7, <1>8, <1>9, <1>10, <2>1, <2>2, <2>3, <2>4, <2>5, <2>6, <2>7, <2>8,
       <2>9 DEF Step
<1>11. QED BY <1>3, <1>4, <1>5, <1>6, <1>10 DEF Next

(* No report is written over another, whoever writes them, as a report is  *)
(* named, counted and saved inside devices_mutex_ (gfr.cc, WriteReport).   *)
THEOREM ReportsStayDistinct == Spec => []ReportsAreDistinct
<1> DEFINE IInv == Mutual /\ Valued /\ Numbered /\ ReportsAreDistinct
<1>1. Init => IInv BY MutualInit, ValuedInit, NumberedInit
<1>2. IInv /\ [Next]_vars => IInv'
  BY MutualNext, ValuedNext, NumberedNext
<1>3. QED BY <1>1, <1>2, PTL DEF Spec

-----------------------------------------------------------------------------
(* The mode of a thread is that of its position.                           *)
HookModes(h) == IF h \in Validating THEN ValidationModes ELSE PlainModes

AreModes(f, h) ==
  /\ f[1] = "plain" /\ f[Len(Script[h]) + 1] \notin ForcedModes
  /\ \A k \in 1..Len(Script[h]) :
       Allowed(f[k], Script[h][k]) /\ f[k + 1] = After(f[k], Script[h][k].do)

ModesAlong(h) ==
  CHOOSE f \in [1..Len(Script[h]) + 1 -> HookModes(h)] : AreModes(f, h)

Mode(t) == IF hook[t] = Idle THEN "plain" ELSE ModesAlong(hook[t])[pc[t]]

LEMMA ModesExist ==
  ASSUME NEW h \in Hooks
  PROVE  /\ ModesAlong(h) \in [1..Len(Script[h]) + 1 -> HookModes(h)]
         /\ AreModes(ModesAlong(h), h)
<1>1. \E f \in [1..Len(Script[h]) + 1 -> HookModes(h)] : AreModes(f, h)
  <2>1. CASE h \in Validating
    <3>1. Leads(Script[h], ValidationModes, "plain", "plain")
      BY <2>1, ValidationHooksRestore
    <3>2. QED BY <2>1, <3>1 DEF Leads, AreModes, HookModes, ForcedModes
  <2>2. CASE h \notin Validating
    <3>1. PICK n \in PlainModes : Leads(Script[h], PlainModes, "plain", n)
      BY <2>2, OtherHooksRead
    <3>2. n \notin ForcedModes BY DEF PlainModes, ForcedModes
    <3>3. QED BY <2>2, <3>1, <3>2 DEF Leads, AreModes, HookModes
  <2>3. QED BY <2>1, <2>2
<1>2. QED BY <1>1 DEF ModesAlong

LEMMA ModeAtPosition ==
  ASSUME Placed, NEW t \in Threads, hook[t] # Idle
  PROVE  /\ hook[t] \in Hooks
         /\ Mode(t) \in HookModes(hook[t])
         /\ Allowed(Mode(t), Position(t))
<1>1. hook[t] \in Hooks /\ pc[t] \in 1..Len(Script[hook[t]]) BY DEF Placed
<1>2. Len(Script[hook[t]]) \in Nat
  BY <1>1, HooksEnterable DEF Enterable, Linked
<1>3. pc[t] \in 1..Len(Script[hook[t]]) + 1 BY <1>1, <1>2
<1>4. QED BY <1>1, <1>3, ModesExist DEF Mode, AreModes, Position

LEMMA ForcedHoldDevices ==
  ASSUME Placed, NEW t \in Threads, Mode(t) \in ForcedModes
  PROVE  "devices" \in Held(t)
<1>1. hook[t] # Idle BY DEF Mode, ForcedModes
<1>2. QED BY <1>1, ModeAtPosition DEF Allowed, Held

LEMMA OneThreadForces ==
  ASSUME Mutual, NEW t \in Threads, NEW u \in Threads,
         Mode(t) \in ForcedModes, "devices" \in Held(u)
  PROVE  t = u
BY ForcedHoldDevices DEF Mutual, Exclusive

LEMMA ModeStays ==
  ASSUME NEW t \in Threads, Stays(t)
  PROVE  Mode(t)' = Mode(t)
BY DEF Stays, Mode

(* A thread goes on to the next mode, or ends where nothing is forced.     *)
LEMMA ModeAdvances ==
  ASSUME Mutual, Valued, NEW t \in Threads, NEW l, Advance(t, l), NEW effect,
         Doing(t, effect)
  PROVE  /\ \/ Mode(t)' = After(Mode(t), effect) /\ local'[t] = l
            \/ Mode(t)' = "plain" /\ After(Mode(t), effect) \notin ForcedModes
         /\ \A u \in Threads \ {t} : Mode(u)' = Mode(u) /\ local'[u] = local[u]
<1>1. hook[t] # Idle /\ Position(t).do = effect BY DEF Doing
<1>2. hook[t] \in Hooks /\ pc[t] \in 1..Len(Script[hook[t]])
  BY <1>1 DEF Mutual, Placed
<1>3. /\ Mode(t) = ModesAlong(hook[t])[pc[t]]
      /\ ModesAlong(hook[t])[pc[t] + 1] = After(Mode(t), effect)
      /\ ModesAlong(hook[t])[Len(Script[hook[t]]) + 1] \notin ForcedModes
  BY <1>1, <1>2, ModesExist DEF AreModes, Mode, Position
<1>4. \A u \in Threads \ {t} : Mode(u)' = Mode(u)
  BY <1>1, Advances, ModeStays DEF Mutual
<1>5. \A u \in Threads \ {t} : local'[u] = local[u]
  BY DEF Advance, ForgetLocals, Valued
<1>6. CASE pc[t] < Len(Script[hook[t]])
  <2>1. /\ hook' = hook /\ pc' = [pc EXCEPT ![t] = @ + 1]
        /\ local' = [local EXCEPT ![t] = l]
    BY <1>6 DEF Advance
  <2>2. hook'[t] = hook[t] /\ pc'[t] = pc[t] + 1 /\ local'[t] = l
    BY <2>1 DEF Mutual, Placed, Valued
  <2>3. Mode(t)' = ModesAlong(hook[t])[pc[t] + 1]
    BY <1>1, <2>2 DEF Mode
  <2>4. QED BY <1>3, <1>4, <1>5, <2>2, <2>3
<1>7. CASE ~(pc[t] < Len(Script[hook[t]]))
  <2>1. hook'[t] = Idle BY <1>7 DEF Advance, Return, Mutual, Placed
  <2>2. Mode(t)' = "plain" BY <2>1 DEF Mode
  <2>3. Len(Script[hook[t]]) \in Nat
    BY <1>2, HooksEnterable DEF Enterable, Linked
  <2>4. pc[t] + 1 = Len(Script[hook[t]]) + 1 BY <1>2, <1>7, <2>3
  <2>5. QED BY <1>3, <1>4, <1>5, <2>2, <2>4
<1>8. QED BY <1>6, <1>7

LEMMA ModeEnters ==
  ASSUME Mutual, NEW t \in Threads, NEW h \in Hooks, Enter(t, h)
  PROVE  /\ Mode(t)' = "plain"
         /\ \A u \in Threads \ {t} : Mode(u)' = Mode(u)
<1>1. hook'[t] = h /\ pc'[t] = 1 BY DEF Enter, Mutual, Placed
<1>2. h # Idle BY HookNames
<1>3. Mode(t)' = ModesAlong(h)[1] BY <1>1, <1>2 DEF Mode
<1>4. Mode(t)' = "plain" BY <1>3, ModesExist DEF AreModes
<1>5. QED BY <1>4, Enters, ModeStays DEF Mutual

-----------------------------------------------------------------------------
(* The dump options: while a thread forces them its local variable has the *)
(* configured ones, and otherwise the shared one has; and what a thread    *)
(* has read is what its report should be written with.                     *)

Configured ==
  /\ \A t \in Threads : Mode(t) \in ForcedModes =>
       debug_dump_all_command_buffers_ /\ local[t].saved = config.dumpAll
  /\ \/ \E t \in Threads : Mode(t) \in ForcedModes
     \/ debug_dump_all_command_buffers_ = config.dumpAll
  /\ \A t \in Threads : Mode(t) = "read" => local[t].all = config.dumpAll
  /\ \A t \in Threads : Mode(t) = "forcedRead" => local[t].all = TRUE

LEMMA ConfiguredInit == Init => Configured /\ OptionsAsConfigured
<1> SUFFICES ASSUME Init PROVE Configured /\ OptionsAsConfigured
  OBVIOUS
<1>1. \A t \in Threads : Mode(t) = "plain" BY DEF Init, Mode
<1>2. Configured BY <1>1 DEF Init, Configured, ForcedModes
<1>3. QED BY <1>2 DEF Init, OptionsAsConfigured

(* Steps that leave what a thread has read, forced and saved.              *)
LEMMA ConfiguredKept ==
  ASSUME Configured, NEW t \in Threads,
         \/ /\ Mode(t)' = Mode(t)
            /\ local'[t].saved = local[t].saved /\ local'[t].all = local[t].all
         \/ Mode(t)' = "plain" /\ Mode(t) \notin ForcedModes,
         \A u \in Threads \ {t} : Mode(u)' = Mode(u) /\ local'[u] = local[u],
         UNCHANGED <<config, debug_dump_all_command_buffers_>>
  PROVE  Configured'
<1>1. ASSUME NEW u \in Threads, Mode(u)' # "plain"
      PROVE  /\ Mode(u)' = Mode(u)
             /\ local'[u].saved = local[u].saved /\ local'[u].all = local[u].all
  BY <1>1
<1>2. \A u \in Threads : Mode(u)' \in ForcedModes <=> Mode(u) \in ForcedModes
  BY DEF ForcedModes
<1>3. \A u \in Threads : Mode(u)' \in ForcedModes =>
        debug_dump_all_command_buffers_' /\ local'[u].saved = config'.dumpAll
  BY <1>1, <1>2 DEF Configured, ForcedModes
<1>4. \/ \E u \in Threads : Mode(u)' \in ForcedModes
      \/ debug_dump_all_command_buffers_' = config'.dumpAll
  BY <1>2 DEF Configured
<1>5. \A u \in Threads : Mode(u)' = "read" => local'[u].all = config'.dumpAll
  BY <1>1 DEF Configured
<1>6. \A u \in Threads : Mode(u)' = "forcedRead" => local'[u].all = TRUE
  BY <1>1 DEF Configured
<1>7. QED BY <1>3, <1>4, <1>5, <1>6 DEF Configured

LEMMA ConfiguredAdvances ==
  ASSUME Mutual, Valued, Configured, NEW t \in Threads, NEW l, Advance(t, l),
         NEW effect, Doing(t, effect),
         effect \notin {"ForceDumpAll", "RestoreDumpAll", "ReadOptions"},
         l.saved = local[t].saved /\ l.all = local[t].all,
         UNCHANGED <<config, debug_dump_all_command_buffers_>>
  PROVE  Configured'
<1>1. After(Mode(t), effect) = Mode(t) BY DEF After
<1>2. QED BY <1>1, ModeAdvances, ConfiguredKept

(* A hook that is entered from another one has forced nothing.             *)
LEMMA ConfiguredEnters ==
  ASSUME Mutual, Valued, Configured, NEW t \in Threads, NEW h \in Hooks, Enter(t, h),
         Mode(t) \notin ForcedModes, UNCHANGED local \/ ForgetLocals(t),
         UNCHANGED <<config, debug_dump_all_command_buffers_>>
  PROVE  Configured'
<1>1. \A u \in Threads \ {t} : local'[u] = local[u] BY DEF ForgetLocals, Valued
<1>2. QED BY <1>1, ModeEnters, ConfiguredKept

LEMMA IdleIsPlain ==
  ASSUME NEW t, hook[t] = Idle
  PROVE  Mode(t) \notin ForcedModes
BY DEF Mode, ForcedModes

LEMMA TestsArePlain ==
  ASSUME Mutual, NEW t \in Threads, NEW effect \in {"TestSubmit", "TestTimer"},
         Doing(t, effect)
  PROVE  Mode(t) \notin ForcedModes
BY ModeAtPosition DEF Mutual, Doing, Allowed, ForcedModes

LEMMA ConfiguredNext ==
  Mutual /\ Valued /\ Configured /\ OptionsAsConfigured /\ [Next]_vars
    => Configured' /\ OptionsAsConfigured'
<1> SUFFICES ASSUME Mutual, Valued, Configured, OptionsAsConfigured, [Next]_vars
             PROVE  Configured' /\ OptionsAsConfigured'
  OBVIOUS
<1>1. ASSUME UNCHANGED <<config, reports>> PROVE OptionsAsConfigured'
  BY <1>1 DEF OptionsAsConfigured
<1>2. CASE UNCHANGED <<config, hook, pc, local, debug_dump_all_command_buffers_, reports>>
  BY <1>2 DEF Configured, Mode, OptionsAsConfigured
<1>3. CASE UNCHANGED vars \/ Tick BY <1>2, <1>3 DEF vars, Tick, shared
<1>4. CASE WakeUp
  <2>1. Watchdog \in Threads /\ "CheckTimer" \in Hooks BY HookNames DEF Threads
  <2>2. QED
    BY <1>1, <1>4, <2>1, IdleIsPlain, ConfiguredEnters DEF WakeUp, shared
<1>5. CASE TestTimer
  <2>1. Watchdog \in Threads /\ "DumpForWatchdog" \in Hooks
    BY HookNames DEF Threads
  <2>2. /\ Doing(Watchdog, "TestTimer")
        /\ UNCHANGED <<config, debug_dump_all_command_buffers_, reports>>
        /\ \/ Enter(Watchdog, "DumpForWatchdog") /\ ForgetLocals(Watchdog)
           \/ Advance(Watchdog, local[Watchdog])
    BY <1>5 DEF TestTimer, shared
  <2>3. Configured'
    BY <2>1, <2>2, TestsArePlain, ConfiguredEnters, ConfiguredAdvances
  <2>4. QED BY <1>1, <2>2, <2>3
<1>6. ASSUME NEW t \in Threads, NEW h \in Hooks, Call(t, h)
      PROVE  Configured' /\ OptionsAsConfigured'
  BY <1>1, <1>6, IdleIsPlain, ConfiguredEnters DEF Call, shared
<1>7. ASSUME NEW t \in Threads, ForceDumpAll(t)
      PROVE  Configured' /\ OptionsAsConfigured'
  <2> DEFINE l == [local[t] EXCEPT !.saved = debug_dump_all_command_buffers_]
  <2>1. Doing(t, "ForceDumpAll") /\ Advance(t, l) /\ UNCHANGED <<config, reports>>
        /\ debug_dump_all_command_buffers_' = TRUE
    BY <1>7 DEF ForceDumpAll
  <2>2. Mode(t) = "plain" /\ "devices" \in Held(t)
    BY <2>1, ModeAtPosition DEF Mutual, Doing, Allowed, Held
  <2>3. \A u \in Threads : Mode(u) \notin ForcedModes
    BY <2>2, OneThreadForces DEF ForcedModes
  <2>4. l.saved = config.dumpAll
    BY <2>3 DEF Configured, Valued, LocalType
  <2>5. After(Mode(t), "ForceDumpAll") = "forced" BY DEF After
  <2> HIDE DEF l
  <2>6. /\ Mode(t)' = "forced" /\ local'[t] = l
        /\ \A u \in Threads \ {t} : Mode(u)' = Mode(u) /\ local'[u] = local[u]
    BY <2>1, <2>5, ModeAdvances DEF ForcedModes
  <2>7. Configured' BY <2>1, <2>3, <2>4, <2>6 DEF Configured, ForcedModes
  <2>8. QED BY <1>1, <2>1, <2>7
<1>8. ASSUME NEW t \in Threads, RestoreDumpAll(t)
      PROVE  Configured' /\ OptionsAsConfigured'
  <2>1. Doing(t, "RestoreDumpAll") /\ Advance(t, local[t])
        /\ UNCHANGED <<config, reports>>
        /\ debug_dump_all_command_buffers_' = local[t].saved
    BY <1>8 DEF RestoreDumpAll
  <2>2. Mode(t) \in ForcedModes
    BY <2>1, ModeAtPosition DEF Mutual, Doing, Allowed
  <2>3. \A u \in Threads \ {t} : Mode(u) \notin ForcedModes
    BY <2>2, ForcedHoldDevices, OneThreadForces DEF Mutual
  <2>4. local[t].saved = config.dumpAll BY <2>2 DEF Configured
  <2>5. After(Mode(t), "RestoreDumpAll") = "plain" BY DEF After
  <2>6. /\ Mode(t)' = "plain"
        /\ \A u \in Threads \ {t} : Mode(u)' = Mode(u) /\ local'[u] = local[u]
    BY <2>1, <2>5, ModeAdvances
  <2>7. Configured' BY <2>1, <2>3, <2>4, <2>6 DEF Configured, ForcedModes
  <2>8. QED BY <1>1, <2>1, <2>7
<1>9. ASSUME NEW t \in Threads, ReadOptions(t)
      PROVE  Configured' /\ OptionsAsConfigured'
  <2> DEFINE l == [local[t] EXCEPT !.all = debug_dump_all_command_buffers_]
  <2>1. Doing(t, "ReadOptions") /\ Advance(t, l)
        /\ UNCHANGED <<config, debug_dump_all_command_buffers_, reports>>
    BY <1>9 DEF ReadOptions, shared
  <2>2. Mode(t) \in {"plain", "forced"} /\ "devices" \in Held(t)
    BY <2>1, ModeAtPosition DEF Mutual, Doing, Allowed, Held
  <2>3. \A u \in Threads \ {t} : Mode(u) \notin ForcedModes
    BY <2>2, OneThreadForces
  <2>4. l.saved = local[t].saved /\ l.all = debug_dump_all_command_buffers_
    BY DEF Valued, LocalType
  <2> HIDE DEF l
  <2>5. \A u \in Threads \ {t} : Mode(u)' = Mode(u) /\ local'[u] = local[u]
    BY <2>1, ModeAdvances
  <2>6. debug_dump_all_command_buffers_ \in BOOLEAN BY DEF Valued
  <2>7. CASE Mode(t) = "plain"
    <3>1. debug_dump_all_command_buffers_ = config.dumpAll
      BY <2>3, <2>7 DEF Configured, ForcedModes
    <3>2. After(Mode(t), "ReadOptions") = "read" BY <2>7 DEF After
    <3>3. (Mode(t)' = "read" /\ local'[t] = l) \/ Mode(t)' = "plain"
      BY <2>1, <3>2, ModeAdvances
    <3>4. QED
      BY <1>1, <2>1, <2>3, <2>4, <2>5, <3>1, <3>3 DEF Configured, ForcedModes
  <2>8. CASE Mode(t) = "forced"
    <3>1. debug_dump_all_command_buffers_ = TRUE /\ local[t].saved = config.dumpAll
      BY <2>6, <2>8 DEF Configured, ForcedModes
    <3>2. After(Mode(t), "ReadOptions") = "forcedRead" BY <2>8 DEF After
    <3>3. Mode(t)' = "forcedRead" /\ local'[t] = l
      BY <2>1, <3>2, ModeAdvances DEF ForcedModes
    <3>4. Configured'
      BY <2>1, <2>3, <2>4, <2>5, <3>1, <3>3 DEF Configured, ForcedModes
    <3>5. QED BY <1>1, <2>1, <3>4
  <2>9. QED BY <2>2, <2>7, <2>8
<1>10. ASSUME NEW t \in Threads, SaveReport(t)
       PROVE  Configured' /\ OptionsAsConfigured'
  <2> DEFINE new == Report(t)
  <2>1. /\ Doing(t, "SaveReport") /\ Advance(t, local[t])
        /\ UNCHANGED <<config, debug_dump_all_command_buffers_>>
        /\ \/ reports' = Append(reports, new)
           \/ reports' = reports
    BY <1>10 DEF SaveReport
  <2>2. Configured' BY <2>1, ConfiguredAdvances
  <2>3. new.all <=> config.dumpAll \/ new.hook \in Validating
    <3>1. /\ Mode(t) \in {"read", "forcedRead"} /\ hook[t] # Idle
          /\ Mode(t) \in HookModes(hook[t])
      BY <2>1, ModeAtPosition DEF Mutual, Doing, Allowed
    <3>2. new.all = local[t].all /\ new.hook = hook[t] BY DEF Report
    <3>3. CASE Mode(t) = "read"
      <4>1. hook[t] \notin Validating
        BY <3>1, <3>3 DEF HookModes, ValidationModes
      <4>2. local[t].all = config.dumpAll BY <3>3 DEF Configured
      <4>3. QED BY <3>2, <4>1, <4>2
    <3>4. CASE Mode(t) = "forcedRead"
      <4>1. hook[t] \in Validating BY <3>1, <3>4 DEF HookModes, PlainModes
      <4>2. local[t].all = TRUE BY <3>4 DEF Configured
      <4>3. QED BY <3>2, <4>1, <4>2
    <3>5. QED BY <3>1, <3>3, <3>4
  <2>4. reports \in Seq(ReportType) BY DEF Valued
  <2> HIDE DEF new
  <2>5. \A i \in DOMAIN reports' :
          (i \in DOMAIN reports /\ reports'[i] = reports[i]) \/ reports'[i] = new
    BY <2>1, <2>4
  <2>6. OptionsAsConfigured' BY <2>1, <2>3, <2>5 DEF OptionsAsConfigured
  <2>7. QED BY <2>2, <2>6
<1>11. ASSUME NEW t \in Threads, Step(t) PROVE Configured' /\ OptionsAsConfigured'
  <2>1. CASE Pass(t)
    BY <1>1, <2>1, ConfiguredAdvances DEF Pass, shared, Nothing
  <2>2. CASE TakeTime(t)
    <3> DEFINE l == [local[t] EXCEPT !.time = clock]
    <3>1. l.saved = local[t].saved /\ l.all = local[t].all
      BY DEF Valued, LocalType
    <3> HIDE DEF l
    <3>2. /\ Doing(t, "TakeTime") /\ Advance(t, l)
          /\ UNCHANGED <<config, debug_dump_all_command_buffers_, reports>>
      BY <2>2 DEF TakeTime, shared, l
    <3>3. QED BY <1>1, <3>1, <3>2, ConfiguredAdvances
  <2>3. CASE StoreSubmitTime(t)
    BY <1>1, <2>3, ConfiguredAdvances DEF StoreSubmitTime
  <2>4. CASE LoadTotalSubmits(t)
    <3> DEFINE l == [local[t] EXCEPT !.submits = total_submits_]
    <3>1. l.saved = local[t].saved /\ l.all = local[t].all
      BY DEF Valued, LocalType
    <3> HIDE DEF l
    <3>2. /\ Doing(t, "LoadTotalSubmits") /\ Advance(t, l)
          /\ UNCHANGED <<config, debug_dump_all_command_buffers_, reports>>
      BY <2>4 DEF LoadTotalSubmits, shared, l
    <3>3. QED BY <1>1, <3>1, <3>2, ConfiguredAdvances
  <2>5. CASE StoreTotalSubmits(t)
    BY <1>1, <2>5, ConfiguredAdvances DEF StoreTotalSubmits
  <2>6. CASE \E lost \in BOOLEAN : TestSubmit(t, lost)
    <3>1. /\ Doing(t, "TestSubmit")
          /\ UNCHANGED <<config, debug_dump_all_command_buffers_, reports>>
          /\ \/ Enter(t, "DumpQueueDevice") /\ ForgetLocals(t)
             \/ Advance(t, local[t])
      BY <2>6 DEF TestSubmit, shared
    <3>2. CASE Enter(t, "DumpQueueDevice") /\ ForgetLocals(t)
      BY <1>1, <3>1, <3>2, TestsArePlain, HookNames, ConfiguredEnters
    <3>3. CASE Advance(t, local[t])
      BY <1>1, <3>1, <3>3, ConfiguredAdvances
    <3>4. QED BY <3>1, <3>2, <3>3
  <2>7. CASE NameReport(t)
    <3> DEFINE l == [local[t] EXCEPT !.name = total_logs_]
    <3>1. l.saved = local[t].saved /\ l.all = local[t].all
      BY DEF Valued, LocalType
    <3> HIDE DEF l
    <3>2. /\ Doing(t, "NameReport") /\ Advance(t, l)
          /\ UNCHANGED <<config, debug_dump_all_command_buffers_, reports>>
      BY <2>7 DEF NameReport, shared, l
    <3>3. QED BY <1>1, <3>1, <3>2, ConfiguredAdvances
  <2>8. CASE CountReport(t)
    BY <1>1, <2>8, ConfiguredAdvances DEF CountReport
  <2>9. QED
    BY <1>7, <1>8, <1>9, <1>10, <1>11, <2>1, <2>2, <2>3, <2>4, <2>5, <2>6,
       <2>7, <2>8
    DEF Step
<1>12. QED BY <1>3, <1>4, <1>5, <1>6, <1>11 DEF Next

(* A report contains all commands exactly when it is configured to or tells *)
(* of a failed validation, whichever other threads' validations fail before *)
(* or meanwhile: the option that they force is put back before another      *)
(* thread can have devices_mutex_ (gfr.cc,                                  *)
(* DumpDeviceExecutionStateValidationFailed).                               *)
THEOREM ReportsKeepOptions == Spec => []OptionsAsConfigured
<1> DEFINE IInv == Mutual /\ Valued /\ Configured /\ OptionsAsConfigured
<1>1. Init => IInv BY MutualInit, ValuedInit, ConfiguredInit
<1>2. IInv /\ [Next]_vars => IInv'
  BY MutualNext, ValuedNext, ConfiguredNext
<1>3. QED BY <1>1, <1>2, PTL DEF Spec

=============================================================================
