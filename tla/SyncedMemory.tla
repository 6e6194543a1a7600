---------------------------- MODULE SyncedMemory ---------------------------
(***************************************************************************)
(* SyncedMemory (caffe/src/caffe/syncedmem.cpp): one memory of a blob kept *)
(* on the CPU, on the GPU or on both.  head_ tells which side is current;  *)
(* a side is allocated when it is first needed, with the allocator of the  *)
(* mode Caffe is in then, or is memory its user has set.                   *)
(*                                                                         *)
(* A caller that asked for a pointer uses it before it makes another call. *)
(* What happens to an allocation is followed beside the object: host and   *)
(* device are the blocks this object allocates, at most one of each.       *)
(***************************************************************************)
CONSTANTS Contents,      \* what the memory may hold
          Zero,          \* all zeros
          Garbage,       \* what a new allocation holds
          CpuOnly        \* built without CUDA

ASSUME ZeroIsContent == Zero \in Contents
ASSUME GarbageIsNone == Garbage \notin Contents
ASSUME CpuOnlyBool   == CpuOnly \in BOOLEAN

VARIABLES mode,          \* Caffe::mode()
          head_,
          cpu_ptr_, gpu_ptr_,    \* "null", "own" or "user"
          own_cpu_data_, own_gpu_data_, cpu_malloc_use_cuda_,
          cpu, gpu,      \* what is at the two pointers
          copying,       \* an asynchronous copy to the GPU is not complete
          life,          \* "alive", "deleted" or "aborted"
          host, device,  \* "none", how the block was allocated, or "freed"
          misfreed,      \* history: a block was freed that must not be
          seen           \* history: what the last reader found

flags  == <<own_cpu_data_, own_gpu_data_, cpu_malloc_use_cuda_>>
blocks == <<host, device, misfreed>>
memVars == <<mode, head_, cpu_ptr_, gpu_ptr_, flags, cpu, gpu, copying, life,
             blocks, seen>>

MemInit ==
  /\ mode \in IF CpuOnly THEN {"CPU"} ELSE {"CPU", "GPU"}
  /\ head_ = "UNINITIALIZED"
  /\ cpu_ptr_ = "null" /\ gpu_ptr_ = "null"
  /\ own_cpu_data_ = FALSE /\ own_gpu_data_ = FALSE
  /\ cpu_malloc_use_cuda_ = FALSE
  /\ cpu = Garbage /\ gpu = Garbage
  /\ copying = FALSE /\ life = "alive"
  /\ host = "none" /\ device = "none" /\ misfreed = FALSE
  /\ seen = Zero

\* The caller of async_gpu_push synchronizes on the stream before it goes on.
Ready == life = "alive" /\ ~copying

\* Caffe::set_mode, by anyone in the process.
SetMode ==
  /\ Ready /\ ~CpuOnly
  /\ mode' = IF mode = "CPU" THEN "GPU" ELSE "CPU"
  /\ UNCHANGED <<head_, cpu_ptr_, gpu_ptr_, flags, cpu, gpu, copying, life,
                 blocks, seen>>

\* CaffeMallocHost and cudaMalloc.
MallocHost ==
  /\ cpu_ptr_' = "own" /\ own_cpu_data_' = TRUE
  /\ cpu_malloc_use_cuda_' = (mode = "GPU")
  /\ host' = IF mode = "GPU" THEN "cuda" ELSE "malloc"

MallocDevice ==
  /\ gpu_ptr_' = "own" /\ own_gpu_data_' = TRUE
  /\ device' = "cuda"

SameHost == UNCHANGED <<cpu_ptr_, own_cpu_data_, cpu_malloc_use_cuda_, host>>
SameDevice == UNCHANGED <<gpu_ptr_, own_gpu_data_, device>>

\* to_cpu and the head it leaves.
to_cpu ==
  /\ CASE head_ = "UNINITIALIZED" -> MallocHost /\ cpu' = Zero
       [] head_ = "HEAD_AT_GPU" ->
            (IF cpu_ptr_ = "null" THEN MallocHost ELSE SameHost) /\ cpu' = gpu
       [] OTHER -> SameHost /\ UNCHANGED cpu
  /\ SameDevice /\ UNCHANGED <<gpu, misfreed>>

HeadOnCpu == CASE head_ = "UNINITIALIZED" -> "HEAD_AT_CPU"
               [] head_ = "HEAD_AT_GPU"   -> "SYNCED"
               [] OTHER -> head_

\* to_gpu and the head it leaves.
to_gpu ==
  /\ CASE head_ = "UNINITIALIZED" -> MallocDevice /\ gpu' = Zero
       [] head_ = "HEAD_AT_CPU" ->
            (IF gpu_ptr_ = "null" THEN MallocDevice ELSE SameDevice) /\ gpu' = cpu
       [] OTHER -> SameDevice /\ UNCHANGED gpu
  /\ SameHost /\ UNCHANGED <<cpu, misfreed>>

HeadOnGpu == CASE head_ = "UNINITIALIZED" -> "HEAD_AT_GPU"
               [] head_ = "HEAD_AT_CPU"   -> "SYNCED"
               [] OTHER -> head_

cpu_data ==
  /\ Ready
  /\ to_cpu /\ head_' = HeadOnCpu
  /\ seen' = cpu'
  /\ UNCHANGED <<mode, copying, life>>

gpu_data ==
  /\ Ready /\ ~CpuOnly
  /\ to_gpu /\ head_' = HeadOnGpu
  /\ seen' = gpu'
  /\ UNCHANGED <<mode, copying, life>>

\* mutable_cpu_data returns; the caller's writes through the pointer follow.
mutable_cpu_data ==
  /\ Ready
  /\ to_cpu /\ head_' = "HEAD_AT_CPU"
  /\ UNCHANGED <<mode, copying, life, seen>>

mutable_gpu_data ==
  /\ Ready /\ ~CpuOnly
  /\ to_gpu /\ head_' = "HEAD_AT_GPU"
  /\ UNCHANGED <<mode, copying, life, seen>>

\* A caller writes through a pointer to the side that is current alone.
WriteCpu(c) ==
  /\ Ready /\ head_ = "HEAD_AT_CPU"
  /\ cpu' = c
  /\ UNCHANGED <<mode, head_, cpu_ptr_, gpu_ptr_, flags, gpu, copying, life, blocks, seen>>

WriteGpu(c) ==
  /\ Ready /\ head_ = "HEAD_AT_GPU"
  /\ gpu' = c
  /\ UNCHANGED <<mode, head_, cpu_ptr_, gpu_ptr_, flags, cpu, copying, life, blocks, seen>>

\* CaffeFreeHost with the allocator the object remembers, and cudaFree.
FreeHost ==
  /\ host' = "freed"
  /\ misfreed' = (misfreed \/ cpu_ptr_ # "own"
                           \/ host # IF cpu_malloc_use_cuda_ THEN "cuda" ELSE "malloc")

\* Faulty: the ownership is not given up.
set_cpu_dataOwning(c) ==
  /\ Ready
  /\ IF own_cpu_data_ THEN FreeHost ELSE UNCHANGED <<host, misfreed>>
  /\ cpu_ptr_' = "user" /\ cpu' = c
  /\ head_' = "HEAD_AT_CPU"
  /\ UNCHANGED <<mode, gpu_ptr_, flags, gpu, copying, life, device, seen>>

\* set_cpu_data: memory of the caller's, holding c, that the caller frees.
set_cpu_data(c) ==
  /\ Ready
  /\ IF own_cpu_data_ THEN FreeHost ELSE UNCHANGED <<host, misfreed>>
  /\ cpu_ptr_' = "user" /\ cpu' = c
  /\ head_' = "HEAD_AT_CPU"
  /\ own_cpu_data_' = FALSE
  /\ UNCHANGED <<mode, gpu_ptr_, own_gpu_data_, cpu_malloc_use_cuda_, gpu,
                 copying, life, device, seen>>

FreeDevice ==
  /\ device' = "freed"
  /\ misfreed' = (misfreed \/ gpu_ptr_ # "own" \/ device # "cuda")

\* Faulty: the head stays where it was.
set_gpu_dataHeadless(c) ==
  /\ Ready /\ ~CpuOnly
  /\ IF own_gpu_data_ THEN FreeDevice ELSE UNCHANGED <<device, misfreed>>
  /\ gpu_ptr_' = "user" /\ gpu' = c
  /\ own_gpu_data_' = FALSE
  /\ UNCHANGED <<mode, head_, cpu_ptr_, own_cpu_data_, cpu_malloc_use_cuda_, cpu,
                 copying, life, host, seen>>

set_gpu_data(c) ==
  /\ Ready /\ ~CpuOnly
  /\ IF own_gpu_data_ THEN FreeDevice ELSE UNCHANGED <<device, misfreed>>
  /\ gpu_ptr_' = "user" /\ gpu' = c
  /\ head_' = "HEAD_AT_GPU"
  /\ own_gpu_data_' = FALSE
  /\ UNCHANGED <<mode, cpu_ptr_, own_cpu_data_, cpu_malloc_use_cuda_, cpu,
                 copying, life, host, seen>>

\* async_gpu_push: the head says SYNCED before the copy is complete.
async_gpu_push ==
  /\ Ready /\ ~CpuOnly /\ head_ = "HEAD_AT_CPU"
  /\ IF gpu_ptr_ = "null" THEN MallocDevice ELSE SameDevice
  /\ gpu' = IF gpu_ptr_ = "null" THEN Garbage ELSE gpu
  /\ head_' = "SYNCED" /\ copying' = TRUE
  /\ UNCHANGED <<mode, cpu_ptr_, own_cpu_data_, cpu_malloc_use_cuda_, cpu, life,
                 host, misfreed, seen>>

Copied ==
  /\ copying
  /\ gpu' = cpu /\ copying' = FALSE
  /\ UNCHANGED <<mode, head_, cpu_ptr_, gpu_ptr_, flags, cpu, life, blocks, seen>>

\* A CHECK that fails, of the head or of a null pointer, or a call that needs
\* the GPU in a build without it.
Abort ==
  /\ Ready
  /\ life' = "aborted"
  /\ UNCHANGED <<mode, head_, cpu_ptr_, gpu_ptr_, flags, cpu, gpu, copying, blocks, seen>>

\* ~SyncedMemory
Delete ==
  /\ Ready
  /\ life' = "deleted"
  /\ LET host_ == cpu_ptr_ # "null" /\ own_cpu_data_
         device_ == gpu_ptr_ # "null" /\ own_gpu_data_
     IN  /\ host' = IF host_ THEN "freed" ELSE host
         /\ device' = IF device_ THEN "freed" ELSE device
         /\ misfreed' =
              \/ misfreed
              \/ host_ /\ (\/ cpu_ptr_ # "own"
                           \/ host # IF cpu_malloc_use_cuda_ THEN "cuda" ELSE "malloc")
              \/ device_ /\ (gpu_ptr_ # "own" \/ device # "cuda")
  /\ UNCHANGED <<mode, head_, cpu_ptr_, gpu_ptr_, flags, cpu, gpu, copying, seen>>

MemNext ==
  \/ SetMode \/ cpu_data \/ gpu_data \/ mutable_cpu_data \/ mutable_gpu_data
  \/ \E c \in Contents : \/ WriteCpu(c) \/ WriteGpu(c)
                         \/ set_cpu_data(c) \/ set_gpu_data(c)
  \/ async_gpu_push \/ Copied \/ Abort \/ Delete

MemSpec == MemInit /\ [][MemNext]_memVars

-----------------------------------------------------------------------------
(* The values of the variables.                                            *)
MemTypeOK ==
  /\ mode \in {"CPU", "GPU"}
  /\ head_ \in {"UNINITIALIZED", "HEAD_AT_CPU", "HEAD_AT_GPU", "SYNCED"}
  /\ cpu_ptr_ \in {"null", "own", "user"} /\ gpu_ptr_ \in {"null", "own", "user"}
  /\ own_cpu_data_ \in BOOLEAN /\ own_gpu_data_ \in BOOLEAN
  /\ cpu_malloc_use_cuda_ \in BOOLEAN
  /\ cpu \in Contents \cup {Garbage} /\ gpu \in Contents \cup {Garbage}
  /\ copying \in BOOLEAN /\ life \in {"alive", "deleted", "aborted"}
  /\ host \in {"none", "malloc", "cuda", "freed"} /\ device \in {"none", "cuda", "freed"}
  /\ misfreed \in BOOLEAN /\ seen \in Contents

(* The sides agree with the head: a side that is current has memory and    *)
(* written contents, and two sides that are both current hold the same,    *)
(* but for an asynchronous copy the caller has yet to wait for.            *)
Coherent ==
  /\ head_ = "UNINITIALIZED" => cpu_ptr_ = "null" /\ gpu_ptr_ = "null"
  /\ head_ \in {"HEAD_AT_CPU", "SYNCED"} => cpu_ptr_ # "null" /\ cpu \in Contents
  /\ head_ \in {"HEAD_AT_GPU", "SYNCED"} => gpu_ptr_ # "null"
  /\ head_ = "HEAD_AT_GPU" => gpu \in Contents
  /\ head_ = "SYNCED" /\ ~copying => cpu = gpu

(* The memory the object allocates is freed once, by the allocator it came *)
(* from although the mode may have changed since, never while a pointer    *)
(* leads to it, and all of it when the object is deleted; the memory the   *)
(* user has set is never freed.                                            *)
FreedOnce ==
  /\ ~misfreed
  /\ life = "alive" =>
       /\ cpu_ptr_ = "own" <=> host \in {"malloc", "cuda"}
       /\ gpu_ptr_ = "own" <=> device = "cuda"
  /\ life = "deleted" => host \in {"none", "freed"} /\ device \in {"none", "freed"}

\* The flags say which memory is the object's own, and how it was allocated.
Owned ==
  life = "alive" =>
    /\ own_cpu_data_ <=> cpu_ptr_ = "own"
    /\ own_gpu_data_ <=> gpu_ptr_ = "own"
    /\ cpu_ptr_ = "null" => host = "none"
    /\ gpu_ptr_ = "null" => device = "none"
    /\ own_cpu_data_ => host = IF cpu_malloc_use_cuda_ THEN "cuda" ELSE "malloc"

\* Nothing is copied when the head is not synchronized.
CopyIsSynced == copying => head_ = "SYNCED" /\ life = "alive"

MemIInv == MemTypeOK /\ Coherent /\ FreedOnce /\ Owned /\ CopyIsSynced

\* The one memory: the contents of a side that is current.
Content == CASE head_ = "UNINITIALIZED" -> Zero
             [] head_ = "HEAD_AT_GPU" -> gpu
             [] OTHER -> cpu

OneMemory == INSTANCE Cell WITH content <- Content

(* A reader on either side finds what the last writer on either side left, *)
(* whatever copies lie between.                                            *)
CellSpec == OneMemory!Spec
=============================================================================
