----------------------------- MODULE KernelObjects -----------------------------
(***************************************************************************)
(* The kernel objects that share no state with one another, side by side:  *)
(* no call of one can be seen by another, so a behaviour exercises the     *)
(* object that subject names and interleavings across objects, which would *)
(* add nothing, are left out.                                              *)
(***************************************************************************)
EXTENDS UserMemory, UserContext, Irq, Dma, DeviceBus, KernelHeap, Sync, AtomicTrace, AtomicCell,
        Storage

VARIABLE subject

objectVars == <<memoryVars, copyVars, contextVars, irqVars, dmaVars, busVars, heapVars, syncVars,
                atomicVars, cellVars, storageVars, subject>>

Init ==
  /\ MemoryInit /\ CopyInit /\ ContextInit /\ IrqInit /\ DmaInit /\ BusInit /\ HeapInit
  /\ SyncInit /\ AtomicInit /\ CellInit /\ StorageInit
  /\ subject \in {"space", "copy", "window", "context", "irq", "dma", "mmio", "pio", "heap",
                  "lock", "once", "queue", "barrier", "atomic", "cell",
                  "vec", "map", "bitmap", "ring"}

(* A step of one object, and of what shares a module with it, only. *)
Memory ==
  /\ \/ subject = "space" /\ SpaceNext /\ UNCHANGED copyVars
     \/ subject = "window" /\ WindowNext /\ UNCHANGED copyVars
     \/ subject = "copy" /\ CopyNext
  /\ UNCHANGED <<contextVars, irqVars, dmaVars, busVars, heapVars, syncVars,
                 atomicVars, cellVars, storageVars>>

Context ==
  /\ subject = "context" /\ ContextNext
  /\ UNCHANGED <<memoryVars, copyVars, irqVars, dmaVars, busVars, heapVars,
                 syncVars, atomicVars, cellVars, storageVars>>

Interrupts ==
  /\ subject = "irq" /\ IrqNext
  /\ UNCHANGED <<memoryVars, copyVars, contextVars, dmaVars, busVars, heapVars,
                 syncVars, atomicVars, cellVars, storageVars>>

Devices ==
  /\ \/ subject = "dma" /\ DmaNext /\ UNCHANGED busVars
     \/ subject = "mmio" /\ MmioNext /\ UNCHANGED dmaVars
     \/ subject = "pio" /\ PioNext /\ UNCHANGED dmaVars
  /\ UNCHANGED <<memoryVars, copyVars, contextVars, irqVars, heapVars, syncVars,
                 atomicVars, cellVars, storageVars>>

Heap ==
  /\ subject = "heap" /\ HeapNext
  /\ UNCHANGED <<memoryVars, copyVars, contextVars, irqVars, dmaVars, busVars,
                 syncVars, atomicVars, cellVars, storageVars>>

Synchronisation ==
  /\ \/ subject = "lock" /\ LockNext /\ UNCHANGED <<once_value, queueVars, barrierVars>>
     \/ subject = "once" /\ OnceNext /\ UNCHANGED <<lockVars, queueVars, barrierVars>>
     \/ subject = "queue" /\ QueueNext /\ UNCHANGED <<lockVars, once_value, barrierVars>>
     \/ subject = "barrier" /\ BarrierNext /\ UNCHANGED <<lockVars, once_value, queueVars>>
  /\ UNCHANGED <<memoryVars, copyVars, contextVars, irqVars, dmaVars, busVars,
                 heapVars, atomicVars, cellVars, storageVars>>

Atomics ==
  /\ \/ subject = "atomic" /\ AtomicNext /\ UNCHANGED cellVars
     \/ subject = "cell" /\ CellNext /\ UNCHANGED atomicVars
  /\ UNCHANGED <<memoryVars, copyVars, contextVars, irqVars, dmaVars, busVars,
                 heapVars, syncVars, storageVars>>

Containing ==
  /\ \/ subject = "vec" /\ VecNext
     \/ subject = "map" /\ MapNext
     \/ subject = "bitmap" /\ BitmapNext
     \/ subject = "ring" /\ RingNext
  /\ UNCHANGED <<memoryVars, copyVars, contextVars, irqVars, dmaVars, busVars,
                 heapVars, syncVars, atomicVars, cellVars>>

Next ==
  /\ \/ Memory \/ Context \/ Interrupts \/ Devices \/ Heap \/ Synchronisation \/ Atomics
     \/ Containing
  /\ UNCHANGED subject

Spec == Init /\ [][Next]_objectVars
=============================================================================
