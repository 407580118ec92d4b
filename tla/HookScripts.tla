---------------------------- MODULE HookScripts ----------------------------
(***************************************************************************)
(* The mutexes that GFR's hooks lock, in the order in which they lock      *)
(* them.  A hook is the code that runs around one intercepted Vulkan call  *)
(* (gfr.cc, with all that it calls in device.cc, submit_tracker.cc,        *)
(* semaphore_tracker.cc, command_buffer_tracker.cc and object_name_db.cc). *)
(*                                                                         *)
(* A script is a sequence of positions.  A thread at a position holds the  *)
(* mutexes `hold', locks `lock' (or nothing), does `do' and goes to the    *)
(* next position, where the lock_guards that are not in its `hold' have    *)
(* ended.  Mutexes have the names of the code, without their _mutex_; the  *)
(* two for recycled markers are never held together and are one here.      *)
(***************************************************************************)
EXTENDS Sequences, Naturals

Nothing == "nothing"

On(hold, lock) == [hold |-> hold, lock |-> lock, do |-> Nothing]
Do(effect, hold) == [hold |-> hold, lock |-> Nothing, do |-> effect]
At(hold) == Do(Nothing, hold)

(* A lock_guard on m over code that locks nothing else.                    *)
Section(hold, m) == <<On(hold, m), At(hold \cup {m})>>

-----------------------------------------------------------------------------
(* Pieces that several hooks have in common.  D is devices_mutex_.         *)
D == {"devices"}
OnDevices == <<On({}, "devices")>>

(* Device::AllocateMarker: the recycled markers, then the buffers, where a *)
(* new buffer looks up the layer's dispatch table (CreateHostBuffer).      *)
AllocateMarker(hold) ==
  Section(hold, "recycled")
    \o <<On(hold, "marker_buffers")>>
    \o Section(hold \cup {"marker_buffers"}, "layer")

(* SubmitTracker::DumpWaitingSubmits and SemaphoreTracker's                *)
(* DumpWaitingThreads: they read semaphores and object names inside.       *)
DumpTrackers ==
  <<On(D, "submit_infos"), On(D \cup {"submit_infos"}, "queue_submits")>>
    \o Section(D \cup {"submit_infos", "queue_submits"}, "semaphores")
    \o Section(D \cup {"submit_infos", "queue_submits"}, "object_info_db")
    \o <<On(D, "waiting_threads")>>
    \o Section(D \cup {"waiting_threads"}, "semaphores")
    \o Section(D \cup {"waiting_threads"}, "object_info_db")

(* CommandBuffer::DumpContents: secondary buffers, names, the pipeline     *)
(* that is bound, and its shaders when they are dumped on a crash.         *)
DumpContents(hold) ==
  Section(hold, "global_commandbuffer_map")
    \o Section(hold, "object_info_db")
    \o <<On(hold, "pipelines"), On(hold \cup {"pipelines"}, "shader_modules")>>
    \o Section(hold \cup {"pipelines", "shader_modules"}, "object_info_db")

(* GfrContext::GetObjectName, for the hooks that trace semaphores.          *)
GetObjectName == OnDevices \o Section(D, "object_info_db")

(* SemaphoreTracker::SignalSemaphore, which reports a semaphore that it    *)
(* does not know by name.                                                  *)
SignalTracked ==
  <<On(D, "semaphores")>> \o Section(D \cup {"semaphores"}, "object_info_db")

(* DumpDeviceExecutionState, with devices_mutex_ held: the options are     *)
(* read after the trackers and before the command buffers are dumped.      *)
DumpState ==
  Section(D, "object_info_db")
    \o DumpTrackers
    \o <<Do("ReadOptions", D), On(D, "command_buffers")>>
    \o DumpContents(D \cup {"command_buffers"})

(* GfrContext::WriteReport: choose the name, count it, write the file.     *)
WriteReport == <<Do("NameReport", D), Do("CountReport", D), Do("SaveReport", D)>>

(* DumpDeviceExecutionStateValidationFailed: every dump option is forced   *)
(* for this report and put back.                                           *)
DumpValidationFailedUnrestored ==  \* mutant: the option stays forced
  <<Do("ForceDumpAll", D)>> \o DumpState \o WriteReport

DumpValidationFailed ==
  <<Do("ForceDumpAll", D)>> \o DumpState \o WriteReport
    \o <<Do("RestoreDumpAll", D)>>

-----------------------------------------------------------------------------
(* The hooks.                                                              *)
CreateDevice ==
  Section({}, "device_create_infos") \o Section({}, "devices")
    \o Section({}, "layer") \o OnDevices \o Section(D, "helper_command_pools")

GetDeviceQueue ==
  OnDevices \o Section(D, "queue_family_index_trackers")
    \o Section({}, "queue_device_tracker")

CreateShaderModule ==
  OnDevices \o Section(D, "object_info_db") \o Section(D, "shader_modules")

CreatePipeline == OnDevices \o Section(D, "pipelines")

SetObjectName == OnDevices \o Section(D, "object_info_db")

CreateCommandPool == OnDevices \o Section(D, "command_pools")

(* The state check before a pool is reset or destroyed, with a buffer of   *)
(* the pool that the GPU has not finished.                                 *)
InvalidatePoolInUse ==
  OnDevices \o <<On(D, "command_pools")>>
    \o DumpContents(D \cup {"command_pools"})
    \o DumpValidationFailed

ResetCommandPool ==
  OnDevices \o <<On(D, "command_pools")>>
    \o Section(D \cup {"command_pools"}, "global_commandbuffer_map")

(* Device::DeleteCommandPool: the buffers are destroyed inside the global  *)
(* map's mutex, and give their markers back there.                         *)
DestroyCommandPool ==
  OnDevices
    \o <<On(D, "command_pools"),
         On(D \cup {"command_pools"}, "command_buffers"),
         On(D \cup {"command_pools", "command_buffers"},
            "global_commandbuffer_map")>>
    \o Section(D \cup {"command_pools", "command_buffers",
                       "global_commandbuffer_map"}, "recycled")

AllocateCommandBuffers ==
  OnDevices \o Section(D, "command_pools") \o AllocateMarker(D)
    \o <<On(D, "global_commandbuffer_map")>>
    \o Section(D \cup {"global_commandbuffer_map"}, "recycled")
    \o Section(D, "command_buffers")

DeleteCommandBuffers ==
  Section(D, "command_pools")
    \o <<On(D, "command_buffers"),
         On(D \cup {"command_buffers"}, "global_commandbuffer_map")>>
    \o Section(D \cup {"command_buffers", "global_commandbuffer_map"},
               "recycled")

FreeCommandBuffers ==
  OnDevices \o Section(D, "global_commandbuffer_map") \o DeleteCommandBuffers

FreeCommandBuffersInUse ==
  OnDevices \o Section(D, "global_commandbuffer_map") \o DumpContents(D)
    \o DumpValidationFailed \o DeleteCommandBuffers

(* PreBeginCommandBuffer and PreResetCommandBuffer, of a buffer that is    *)
(* free and of one that the GPU has not finished.                          *)
BeginCommandBuffer ==
  Section({}, "global_commandbuffer_map") \o OnDevices
    \o Section(D, "global_commandbuffer_map")

BeginCommandBufferInUse ==
  BeginCommandBuffer \o DumpContents(D) \o DumpValidationFailed

(* PreCmdBindPipeline with GFR_SHADERS_DUMP_ON_BIND: no devices_mutex_.    *)
BindPipeline ==
  Section({}, "global_commandbuffer_map")
    \o <<On({}, "pipelines"), On({"pipelines"}, "shader_modules")>>
    \o Section({"pipelines", "shader_modules"}, "object_info_db")

CreateSemaphore ==
  OnDevices \o Section(D, "semaphores") \o AllocateMarker(D)
    \o Section(D, "semaphores")
CreateSemaphoreTraced == CreateSemaphore \o GetObjectName

DestroySemaphore == OnDevices \o Section(D, "semaphores")

(* PostDestroySemaphore with GFR_TRACE_ALL_SEMAPHORES: GetObjectName(device,  *)
(* ...) locks devices_mutex_, which the hook holds.                        *)
DestroySemaphoreTraced ==
  OnDevices \o <<On(D, "devices")>> \o Section(D, "object_info_db")
    \o Section(D, "semaphores")

SignalSemaphore == OnDevices \o SignalTracked
SignalSemaphoreTraced == SignalSemaphore \o GetObjectName

BeginWait == OnDevices \o Section(D, "waiting_threads")
EndWait ==
  Section({}, "layer") \o OnDevices \o SignalTracked
    \o Section(D, "waiting_threads")

WaitSemaphores == BeginWait \o EndWait
WaitSemaphoresTraced ==
  BeginWait \o GetObjectName \o EndWait \o GetObjectName

(* GfrContext::RecordSubmitFinish: the finish markers, then                *)
(* CleanupSubmitInfos, which locks its mutexes the other way round.        *)
RecordSubmitFinishUngated ==  \* mutant: cleans up without devices_mutex_
  OnDevices \o <<On(D, "submit_infos")>>
    \o Section(D \cup {"submit_infos"}, "semaphores")
    \o <<On({}, "queue_submits")>> \o Section({"queue_submits"}, "submit_infos")

RecordSubmitFinish ==
  OnDevices \o <<On(D, "submit_infos")>>
    \o Section(D \cup {"submit_infos"}, "semaphores")
    \o <<On(D, "queue_submits")>>
    \o Section(D \cup {"queue_submits"}, "submit_infos")

(* QueueSubmit with GFR_TRACK_SEMAPHORES, up to the driver's call.         *)
TrackSubmit ==
  Section({}, "queue_device_tracker") \o Section({}, "layer")
    \o OnDevices \o Section(D, "queue_family_index_trackers")
    \o Section(D, "helper_command_pools")
    \o OnDevices \o AllocateMarker(D) \o Section(D, "submit_infos")
    \o Section(D, "queue_submits")
    \o OnDevices \o <<On(D, "submit_infos")>>
    \o Section(D \cup {"submit_infos"}, "semaphores")
    \o RecordSubmitFinish

(* LogSubmitInfoSemaphores, when semaphores are traced.                    *)
LogSubmitInfoSemaphores ==
  OnDevices \o Section(D, "submit_infos")
    \o <<On(D, "submit_infos")>>
    \o Section(D \cup {"submit_infos"}, "object_info_db")
    \o Section(D \cup {"submit_infos"}, "semaphores")
    \o Section(D \cup {"submit_infos"}, "object_info_db")

(* PreQueueSubmit takes the time and stores it; PostQueueSubmit counts the *)
(* submit (an int that no mutex guards) and may dump.  The second form is  *)
(* that of QueueSubmitWithoutTrackingSemaphores.                           *)
PreQueueSubmit ==
  <<Do("TakeTime", {}), Do("StoreSubmitTime", {})>>
    \o Section({}, "global_commandbuffer_map")

PostQueueSubmit ==
  <<Do("LoadTotalSubmits", {}), Do("StoreTotalSubmits", {}),
    Do("TestSubmit", {})>>

QueueSubmit == PreQueueSubmit \o TrackSubmit \o PostQueueSubmit
QueueSubmitTraced ==
  PreQueueSubmit \o (TrackSubmit \o LogSubmitInfoSemaphores) \o PostQueueSubmit
QueueSubmitUntracked == PreQueueSubmit \o Section({}, "layer") \o PostQueueSubmit

(* QueueBindSparse with GFR_TRACK_SEMAPHORES: find the helper pool, decide *)
(* whether to split the call, record the helpers; and its trace before.    *)
SplitBindSparse ==
  Section({}, "queue_device_tracker")
    \o OnDevices \o Section(D, "queue_family_index_trackers")
    \o Section(D, "helper_command_pools")
    \o Section({}, "queue_device_tracker")
    \o OnDevices \o Section(D, "semaphores")
    \o OnDevices \o <<On(D, "helper_submit_infos")>>
    \o Section(D \cup {"helper_submit_infos"}, "recycled")
    \o AllocateMarker(D) \o <<On(D, "helper_submit_infos")>>
    \o Section(D \cup {"helper_submit_infos"}, "semaphores")

LogBindSparseInfosSemaphores ==
  Section({}, "queue_device_tracker") \o OnDevices
    \o Section(D, "object_info_db") \o Section(D, "semaphores")
    \o Section(D, "object_info_db")

QueueBindSparse == Section({}, "layer") \o SplitBindSparse
QueueBindSparseTraced ==
  Section({}, "layer") \o LogBindSparseInfosSemaphores \o SplitBindSparse

(* DumpDeviceExecutionState(VkDevice) after a call that lost the device,   *)
(* and the same from PostQueueSubmit, which looks the device up first.     *)
DumpDeviceUnlocked ==  \* mutant: writes the report after devices_mutex_
  OnDevices \o DumpState
    \o <<Do("NameReport", {}), Do("CountReport", {}), Do("SaveReport", {})>>

DumpDevice == OnDevices \o DumpState \o WriteReport
DumpQueueDevice == Section({}, "queue_device_tracker") \o DumpDevice

(* DumpAllDevicesExecutionState for a hang that the daemon signals, and    *)
(* one round of the watchdog's loop, which dumps or not.                   *)
SignalHang == DumpDevice
CheckTimer == <<Do("TakeTime", {}), Do("TestTimer", {})>>
DumpForWatchdog ==
  DumpDevice \o <<Do("TakeTime", {}), Do("StoreSubmitTime", {})>>

-----------------------------------------------------------------------------
Script ==
  [CreateDevice |-> CreateDevice, GetDeviceQueue |-> GetDeviceQueue,
   CreateShaderModule |-> CreateShaderModule,
   CreatePipeline |-> CreatePipeline, SetObjectName |-> SetObjectName,
   CreateCommandPool |-> CreateCommandPool,
   InvalidatePoolInUse |-> InvalidatePoolInUse,
   ResetCommandPool |-> ResetCommandPool,
   DestroyCommandPool |-> DestroyCommandPool,
   AllocateCommandBuffers |-> AllocateCommandBuffers,
   FreeCommandBuffers |-> FreeCommandBuffers,
   FreeCommandBuffersInUse |-> FreeCommandBuffersInUse,
   BeginCommandBuffer |-> BeginCommandBuffer,
   BeginCommandBufferInUse |-> BeginCommandBufferInUse,
   BindPipeline |-> BindPipeline, CreateSemaphore |-> CreateSemaphore,
   CreateSemaphoreTraced |-> CreateSemaphoreTraced,
   DestroySemaphore |-> DestroySemaphore,
   DestroySemaphoreTraced |-> DestroySemaphoreTraced,
   SignalSemaphore |-> SignalSemaphore,
   SignalSemaphoreTraced |-> SignalSemaphoreTraced,
   WaitSemaphores |-> WaitSemaphores,
   WaitSemaphoresTraced |-> WaitSemaphoresTraced,
   QueueSubmit |-> QueueSubmit, QueueSubmitTraced |-> QueueSubmitTraced,
   QueueSubmitUntracked |-> QueueSubmitUntracked,
   QueueBindSparse |-> QueueBindSparse,
   QueueBindSparseTraced |-> QueueBindSparseTraced, DumpDevice |-> DumpDevice,
   DumpQueueDevice |-> DumpQueueDevice, SignalHang |-> SignalHang,
   CheckTimer |-> CheckTimer, DumpForWatchdog |-> DumpForWatchdog]

Hooks == DOMAIN Script
=============================================================================
