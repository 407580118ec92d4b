------------------------- MODULE CommandBufferTracker -------------------------
(***************************************************************************)
(* The registries that lead from a VkCommandBuffer handle to the object    *)
(* tracking it: the global map with a one-entry cache per thread           *)
(* (src/command_buffer_tracker.cc), Device::command_buffers_, and the      *)
(* lists of the command pools (src/command_pool.cc).                       *)
(*                                                                         *)
(* vkAllocateCommandBuffers, vkFreeCommandBuffers and vkDestroyCommandPool *)
(* are two steps each: the driver's call, after which the handle values    *)
(* may be handed out again, and the Post hook, which runs under            *)
(* devices_mutex_.  A call names one buffer here.                          *)
(*                                                                         *)
(* Handles belong to nobody: a thread may use and free what another one    *)
(* allocated, and the driver may hand out a value before the Post hook of  *)
(* the call that freed it.  Both lead the registries astray, and two       *)
(* history variables, which only the properties read, keep for which       *)
(* handles they did.  A hook that is given a null or a destroyed object is *)
(* taken to change nothing: what it does is undefined.                     *)
(***************************************************************************)
EXTENDS Integers, Sequences, SequencesExt, Vectors

CONSTANTS
  Threads,     \* the application's threads
  Watchdog,    \* threads of the layer that dump (watchdog, gpuhangd listener)
  Handles,     \* VkCommandBuffer values
  Pools,       \* VkCommandPool values
  MaxObjects   \* bound: CommandBuffer objects ever created

ASSUME MaxObjectsAssumption == MaxObjects \in Nat

ASSUME WatchdogAssumption == Threads \cap Watchdog = {}

VARIABLES
  driver_pool,                  \* the pool of a handle in the driver, or none
  call,                         \* the call each thread is in, after the driver
  global_commandbuffer_map_,    \* handle to object, 0 when absent
  thread_cb_cache_,
  command_buffers_,             \* of the Device, a vector of handles
  pool_buffers,                 \* of each CommandPool, a vector of handles
  created,                      \* the number of objects created
  reused_early,  \* history: handles that the driver handed out before the hook
                 \* of the call that freed them
  deleted_by     \* history: the thread that deleted a handle's last object

history == <<reused_early, deleted_by>>
registries == <<global_commandbuffer_map_, thread_cb_cache_, command_buffers_,
                pool_buffers, created>>
vars == <<driver_pool, call, registries, history>>

None == "none"
NoHandle == "VK_NULL_HANDLE"

ASSUME NamesAssumption ==
  None \notin Pools /\ None \notin Threads /\ NoHandle \notin Handles

Agents == Threads \cup Watchdog

\* nullptr is 0; objects are numbered in the order of their creation.  The
\* map owns them: one that has left it is destroyed.
Objects == 0 .. MaxObjects
Live == {global_commandbuffer_map_[h] : h \in Handles} \ {0}

Idle == [op |-> "idle", pool |-> None, handles |-> {}]

EmptyCache == [vkcb |-> NoHandle, gfrcb |-> 0]

Init ==
  /\ driver_pool = [h \in Handles |-> None]
  /\ call = [t \in Threads |-> Idle]
  /\ global_commandbuffer_map_ = [h \in Handles |-> 0]
  /\ thread_cb_cache_ = [t \in Agents |-> EmptyCache]
  /\ command_buffers_ = <<>>
  /\ pool_buffers = [p \in Pools |-> <<>>]
  /\ created = 0
  /\ reused_early = {}
  /\ deleted_by = [h \in Handles |-> None]

-----------------------------------------------------------------------------
(* GetGfrCommandBuffer and DeleteGfrCommandBuffer.                         *)

\* What GetGfrCommandBuffer(h) returns to a thread with this cache.
Lookup(cache, h) ==
  IF cache.vkcb = h THEN cache.gfrcb ELSE global_commandbuffer_map_[h]

\* Mutant: the iterator's key is cached for its value.
CacheAfterLookupOfKey(cache, h) ==
  IF cache.vkcb # h /\ global_commandbuffer_map_[h] # 0
  THEN [vkcb |-> h, gfrcb |-> h]
  ELSE cache

\* The cache it leaves behind.
CacheAfterLookup(cache, h) ==
  IF cache.vkcb # h /\ global_commandbuffer_map_[h] # 0
  THEN [vkcb |-> h, gfrcb |-> global_commandbuffer_map_[h]]
  ELSE cache

\* Mutant: a deleted entry stays in the deleting thread's cache.
CacheKeptAfterDelete(cache, h) == cache

\* The cache DeleteGfrCommandBuffer(h) leaves: its own thread's only, and
\* only the key is cleared.
CacheAfterDelete(cache, h) ==
  IF cache.vkcb = h THEN [cache EXCEPT !.vkcb = NoHandle] ELSE cache

\* A cache before and after each of the lookups of a vector's handles.
Caches(cache, list) ==
  LET after[n \in 0 .. Len(list)] ==
        IF n = 0 THEN cache ELSE CacheAfterLookup(after[n - 1], list[n])
  IN after

CacheAfterLookups(cache, list) == Caches(cache, list)[Len(list)]

\* The handles that DumpCommandBuffers looks up, which are those of
\* command_buffers_, each with the object that it reads.
DumpReads(w) ==
  LET cache == Caches(thread_cb_cache_[w], command_buffers_)
  IN {<<command_buffers_[n], Lookup(cache[n - 1], command_buffers_[n])>> :
        n \in 1 .. Len(command_buffers_)}

-----------------------------------------------------------------------------
(* The calls.  Vulkan makes the application synchronise the calls on one   *)
(* pool, so that no two threads are in a call on the same pool; the value  *)
(* of a destroyed pool is given to a new one after the hook only.          *)

PoolFree(p) == \A t \in Threads : call[t].pool # p

Enter(t, op, p, H) ==
  /\ call[t] = Idle
  /\ PoolFree(p)
  /\ call' = [call EXCEPT ![t] = [op |-> op, pool |-> p, handles |-> H]]

InCall(h) == \E t \in Threads : h \in call[t].handles

\* The driver hands out a handle value that is not in use.
DriverAllocate(t, p, h) ==
  /\ driver_pool[h] = None
  /\ created + Cardinality({u \in Threads : call[u].op = "allocate"}) < MaxObjects
  /\ driver_pool' = [driver_pool EXCEPT ![h] = p]
  /\ Enter(t, "allocate", p, {h})
  /\ reused_early' = reused_early \cup {g \in {h} : InCall(g)}
  /\ UNCHANGED <<registries, deleted_by>>

\* PostAllocateCommandBuffers: the object at the handle, if there still is
\* one, is overwritten and destroyed.  (The assertion of AddCommandBuffer, that
\* the device's list does not have the handle, is not in a release build.)
PostAllocate(t) ==
  /\ call[t].op = "allocate"
  /\ \E h \in call[t].handles :
       /\ pool_buffers' = [pool_buffers EXCEPT ![call[t].pool] = Append(@, h)]
       /\ global_commandbuffer_map_' =
            [global_commandbuffer_map_ EXCEPT ![h] = created + 1]
       /\ command_buffers_' = Append(command_buffers_, h)
  /\ created' = created + 1
  /\ call' = [call EXCEPT ![t] = Idle]
  /\ UNCHANGED <<driver_pool, thread_cb_cache_, history>>

DriverFree(t, h) ==
  /\ driver_pool[h] # None
  /\ driver_pool' = [driver_pool EXCEPT ![h] = None]
  /\ Enter(t, "free", driver_pool[h], {h})
  /\ UNCHANGED <<registries, history>>

EraseFirst(s, h) ==
  LET places == {i \in DOMAIN s : s[i] = h}
  IN IF places = {} THEN s ELSE RemoveAt(s, Min(places))

\* Mutant: Device::command_buffers_ loses one occurrence.
RemoveOne(h) == command_buffers_' = EraseFirst(command_buffers_, h)

\* std::remove of every occurrence.
RemoveHandle(h) == command_buffers_' = Kept(command_buffers_, Handles \ {h})

\* PostFreeCommandBuffers validates, which looks the handle up, and
\* deletes; CommandPool::FreeCommandBuffers erases the first occurrence.
PostFree(t) ==
  /\ call[t].op = "free"
  /\ \E h \in call[t].handles :
       /\ pool_buffers' =
            [pool_buffers EXCEPT ![call[t].pool] = EraseFirst(@, h)]
       /\ RemoveHandle(h)
       /\ global_commandbuffer_map_' =
            [global_commandbuffer_map_ EXCEPT ![h] = 0]
       /\ thread_cb_cache_' =
            [thread_cb_cache_ EXCEPT
               ![t] = CacheAfterDelete(CacheAfterLookup(@, h), h)]
       /\ deleted_by' = [deleted_by EXCEPT ![h] = t]
  /\ call' = [call EXCEPT ![t] = Idle]
  /\ UNCHANGED <<driver_pool, created, reused_early>>

DriverHandles(p) == {h \in Handles : driver_pool[h] = p}

\* PreDestroyCommandPool looks up the buffers of the layer's list, and
\* vkDestroyCommandPool frees the pool's buffers in the driver.
DriverDestroyPool(t, p) ==
  /\ driver_pool' =
       [h \in Handles |-> IF driver_pool[h] = p THEN None ELSE driver_pool[h]]
  /\ Enter(t, "destroy", p, DriverHandles(p))
  /\ thread_cb_cache_' =
       [thread_cb_cache_ EXCEPT ![t] = CacheAfterLookups(@, pool_buffers[p])]
  /\ UNCHANGED <<global_commandbuffer_map_, command_buffers_, pool_buffers,
                 created, history>>

\* Device::DeleteCommandPool deletes what the layer's list of the pool names
\* and a lookup finds.  (A handle that only the cache finds has left the map
\* and the device's list already.)
PostDestroyPool(t) ==
  LET p == call[t].pool
      found == {h \in ToSet(pool_buffers[p]) :
                  Lookup(thread_cb_cache_[t], h) # 0}
  IN
  /\ call[t].op = "destroy"
  /\ command_buffers_' = Kept(command_buffers_, Handles \ found)
  /\ global_commandbuffer_map_' =
       [h \in Handles |-> IF h \in found THEN 0 ELSE global_commandbuffer_map_[h]]
  /\ thread_cb_cache_' =
       [thread_cb_cache_ EXCEPT ![t].vkcb = IF found = {} THEN @ ELSE NoHandle]
  /\ deleted_by' = [h \in Handles |-> IF h \in found THEN t ELSE deleted_by[h]]
  /\ pool_buffers' = [pool_buffers EXCEPT ![p] = <<>>]
  /\ call' = [call EXCEPT ![t] = Idle]
  /\ UNCHANGED <<driver_pool, created, reused_early>>

\* A thread may use a handle that an allocation has returned and no free has
\* begun on.
Usable(h) ==
  /\ driver_pool[h] # None
  /\ \A t \in Threads : call[t].op = "allocate" => h \notin call[t].handles

\* Any hook of a recorded command, of a submission or of vkBegin/End/Reset.
Use(t, h) ==
  /\ call[t] = Idle
  /\ Usable(h)
  /\ thread_cb_cache_' =
       [thread_cb_cache_ EXCEPT ![t] = CacheAfterLookup(@, h)]
  /\ UNCHANGED <<driver_pool, call, global_commandbuffer_map_,
                 command_buffers_, pool_buffers, created, history>>

\* DumpCommandBuffers on a thread of the layer, under command_buffers_mutex_.
Dump(w) ==
  /\ thread_cb_cache_' =
       [thread_cb_cache_ EXCEPT ![w] = CacheAfterLookups(@, command_buffers_)]
  /\ UNCHANGED <<driver_pool, call, global_commandbuffer_map_,
                 command_buffers_, pool_buffers, created, history>>

Next ==
  \/ \E t \in Threads :
       \/ \E h \in Handles : DriverFree(t, h) \/ Use(t, h)
       \/ \E p \in Pools :
            \/ \E h \in Handles : DriverAllocate(t, p, h)
            \/ DriverDestroyPool(t, p)
       \/ PostAllocate(t) \/ PostFree(t) \/ PostDestroyPool(t)
  \/ \E w \in Watchdog : Dump(w)

Spec == Init /\ [][Next]_vars

-----------------------------------------------------------------------------
\* Type invariant of the registries.
TypeOK ==
  /\ driver_pool \in [Handles -> Pools \cup {None}]
  /\ call \in [Threads ->
       [op : {"idle", "allocate", "free", "destroy"},
        pool : Pools \cup {None}, handles : SUBSET Handles]]
  /\ global_commandbuffer_map_ \in [Handles -> Objects]
  /\ thread_cb_cache_ \in
       [Agents -> [vkcb : Handles \cup {NoHandle}, gfrcb : Objects]]
  /\ command_buffers_ \in Seq(Handles)
  /\ pool_buffers \in [Pools -> Seq(Handles)]
  /\ created \in Objects
  /\ reused_early \in SUBSET Handles
  /\ deleted_by \in [Handles -> Threads \cup {None}]

\* A hook that looks up a handle in use gets an object, and gets the one that
\* the map holds unless another thread has deleted an earlier object of the
\* handle, of which the cache of this one is not told (GetGfrCommandBuffer,
\* DeleteGfrCommandBuffer): a thread's own deletions never leave it with a
\* destroyed object.  Handles that were reused early are not spoken of.
LookupsAreCoherent ==
  \A h \in Handles \ reused_early : \A t \in Threads :
    Usable(h) =>
      /\ Lookup(thread_cb_cache_[t], h) # 0
      /\ deleted_by[h] \in {t, None} =>
           Lookup(thread_cb_cache_[t], h) = global_commandbuffer_map_[h]

Occurrences(s, h) == Cardinality({i \in 1 .. Len(s) : s[i] = h})
One(b) == IF b THEN 1 ELSE 0

\* The device's list names the handles of the map, always, so that a dump
\* finds an object for each.
ListNamesTheMap ==
  \A h \in Handles :
    h \in ToSet(command_buffers_) <=> global_commandbuffer_map_[h] # 0

\* A pool that no call is about lists exactly what the driver has of it, once.
PoolsListTheirOwn ==
  \A p \in Pools : PoolFree(p) =>
    \A h \in Handles : Occurrences(pool_buffers[p], h) = One(driver_pool[h] = p)

\* Device::AddCommandBuffer's assertion: a handle is added to the device's
\* list only when it is not there.
AddedOnce ==
  \A t \in Threads : call[t].op = "allocate" =>
    call[t].handles \cap ToSet(command_buffers_) \subseteq reused_early

\* Outside the calls on it, a handle is known once exactly while the driver
\* has it.
KnownWhileAllocated ==
  \A h \in Handles \ reused_early : ~InCall(h) =>
    /\ (global_commandbuffer_map_[h] # 0) = (driver_pool[h] # None)
    /\ Occurrences(command_buffers_, h) = One(driver_pool[h] # None)

\* The registries agree with each other whichever threads use a handle and
\* however early it is reused; and with the driver but for the handles that
\* were reused early, of which the late hook removes the new object
\* (PostAllocateCommandBuffers, PostFreeCommandBuffers, DeleteCommandPool).
RegistriesAgree ==
  ListNamesTheMap /\ PoolsListTheirOwn /\ AddedOnce /\ KnownWhileAllocated

\* A dump reads, for every handle of the device's list, the object that the
\* map holds for it (Device::DumpCommandBuffers on the watchdog thread).
DumpsReadLiveObjects ==
  \A w \in Watchdog : \A r \in DumpReads(w) : r[2] \in Live
=============================================================================
