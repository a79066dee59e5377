------------------------------ MODULE KernelHeap ------------------------------
(***************************************************************************)
(* KernelAllocator, the global allocator of runtime/src/post_firmware.rs:  *)
(* a lock-free first-fit search over HEAP_BITMAP, one bit for each page.   *)
(* Every CPU may be inside alloc at any time; an access to HEAP_BITMAP is  *)
(* one step, and the compare-exchange is weak: it may fail without reason. *)
(***************************************************************************)
EXTENDS Integers

CONSTANTS
  HeapCpus,    \* the CPUs that allocate
  HEAP_PAGES,  \* the pages of the heap
  HeapSizes    \* the sizes asked for, in pages, none above HEAP_PAGES

ASSUME HeapAssumption == HEAP_PAGES \in Nat /\ HeapSizes \subseteq 1..HEAP_PAGES

VARIABLES
  heap_pc,      \* what each CPU does next
  pages,        \* the size it asked for
  first,        \* the page its search has reached
  observed,     \* the bitmap it last saw, as a set of pages
  HEAP_BITMAP,  \* the pages in use
  blocks,       \* the <<first, pages>> blocks callers hold
  steady        \* the places that could have served a CPU's request all along

heapVars == <<heap_pc, pages, first, observed, HEAP_BITMAP, blocks, steady>>

Mask(f, n) == f..(f + n - 1)

Places(n) == 0..(HEAP_PAGES - n)

HeapInit ==
  /\ heap_pc = [c \in HeapCpus |-> "idle"]
  /\ pages = [c \in HeapCpus |-> 0] /\ first = [c \in HeapCpus |-> 0]
  /\ observed = [c \in HeapCpus |-> {}]
  /\ HEAP_BITMAP = {} /\ blocks = {}
  /\ steady = [c \in HeapCpus |-> {}]
-----------------------------------------------------------------------------
(* alloc returns, and the locals of the call are gone. *)
Return(c) ==
  /\ heap_pc' = [heap_pc EXCEPT ![c] = "idle"]
  /\ pages' = [pages EXCEPT ![c] = 0] /\ first' = [first EXCEPT ![c] = 0]
  /\ observed' = [observed EXCEPT ![c] = {}]

alloc(c, n) ==
  /\ heap_pc[c] = "idle"
  /\ heap_pc' = [heap_pc EXCEPT ![c] = "load"]
  /\ pages' = [pages EXCEPT ![c] = n] /\ first' = [first EXCEPT ![c] = 0]
  /\ steady' = [steady EXCEPT ![c] = {f \in Places(n) : Mask(f, n) \cap HEAP_BITMAP = {}}]
  /\ UNCHANGED <<observed, HEAP_BITMAP, blocks>>

load_bitmap(c) ==
  /\ heap_pc[c] = "load"
  /\ heap_pc' = [heap_pc EXCEPT ![c] = "try"]
  /\ observed' = [observed EXCEPT ![c] = HEAP_BITMAP]
  /\ UNCHANGED <<pages, first, HEAP_BITMAP, blocks, steady>>

NextPlace(c) ==
  IF first[c] + 1 \in Places(pages[c])
    THEN /\ heap_pc' = [heap_pc EXCEPT ![c] = "load"]
         /\ first' = [first EXCEPT ![c] = @ + 1]
    ELSE heap_pc' = [heap_pc EXCEPT ![c] = "null"] /\ UNCHANGED first

(* The place is taken: go on to the next one, or return null. *)
advance(c) ==
  /\ heap_pc[c] = "try"
  /\ Mask(first[c], pages[c]) \cap observed[c] # {}
  /\ NextPlace(c)
  /\ UNCHANGED <<pages, observed, HEAP_BITMAP, blocks, steady>>

BlindExchange(c) == TRUE

Exchanges(c) == HEAP_BITMAP = observed[c]

(* After a failed exchange the same place is tried again. *)
MovesOn(c) == NextPlace(c)

Retries(c) == UNCHANGED <<heap_pc, first>>

compare_exchange(c) ==
  /\ heap_pc[c] = "try"
  /\ Mask(first[c], pages[c]) \cap observed[c] = {}
  /\ \/ /\ Exchanges(c)
        /\ HEAP_BITMAP' = observed[c] \cup Mask(first[c], pages[c])
        /\ blocks' = blocks \cup {<<first[c], pages[c]>>}
        /\ steady' = [d \in HeapCpus |-> IF d = c THEN {}
                        ELSE {f \in steady[d] : Mask(f, pages[d]) \cap HEAP_BITMAP' = {}}]
        /\ Return(c)
     \/ /\ observed' = [observed EXCEPT ![c] = HEAP_BITMAP]
        /\ Retries(c)
        /\ UNCHANGED <<pages, HEAP_BITMAP, blocks, steady>>

return_null(c) ==
  /\ heap_pc[c] = "null"
  /\ Return(c)
  /\ steady' = [steady EXCEPT ![c] = {}]
  /\ UNCHANGED <<HEAP_BITMAP, blocks>>

(* dealloc by whoever holds the block, with the layout it was asked with. *)
dealloc(b) ==
  /\ HEAP_BITMAP' = HEAP_BITMAP \ Mask(b[1], b[2])
  /\ blocks' = blocks \ {b}
  /\ UNCHANGED <<heap_pc, pages, first, observed, steady>>

HeapNext ==
  \/ \E c \in HeapCpus :
       \/ \E n \in HeapSizes : alloc(c, n)
       \/ load_bitmap(c) \/ advance(c) \/ compare_exchange(c) \/ return_null(c)
  \/ \E b \in blocks : dealloc(b)

HeapSpec == HeapInit /\ [][HeapNext]_heapVars
-----------------------------------------------------------------------------
(* A successful bitmap transition grants exclusive ownership of the whole  *)
(* page run: blocks in use never share a page, although the bitmap may     *)
(* change, even back and forth, between the load and the exchange; and the *)
(* bitmap marks exactly the pages in use.                                  *)
BlocksExclusive ==
  /\ \A a, b \in blocks : a # b => Mask(a[1], a[2]) \cap Mask(b[1], b[2]) = {}
  /\ HEAP_BITMAP = UNION {Mask(b[1], b[2]) : b \in blocks}

(* alloc returns null only if memory was short at some time: no place that *)
(* was free from the call on has been passed over.                         *)
NullMeansContention == \A c \in HeapCpus : heap_pc[c] = "null" => steady[c] = {}
=============================================================================
