------------------------------ MODULE AtomicTrace ------------------------------
(***************************************************************************)
(* AtomicMemoryModel of kernel/src/atomic.rs: every operation on a cell    *)
(* appends an event with the edges it stands for, reads-from, the per-cell *)
(* modification order, synchronises-with and the order of SeqCst events.   *)
(*                                                                         *)
(* An event leaves out its CPU and the kind of a fence, which are recorded *)
(* and never looked at.  0 is None.                                        *)
(*                                                                         *)
(* registered is not part of the code: the length of the trace and the     *)
(* value given when a cell was last registered.                            *)
(***************************************************************************)
EXTENDS Integers, Sequences, FiniteSetsExt

CONSTANTS
  Cells,        \* the cells
  Orderings,    \* the memory orderings in use
  Initials,     \* the values cells are registered with
  Stored,       \* the values stored and added
  ValueLimit,   \* values wrap around here (2^64 in the code)
  MaxTrace      \* bound on the events

ASSUME AtomicAssumption ==
  /\ Orderings \subseteq {"Relaxed", "Acquire", "Release", "AcqRel", "SeqCst"}
  /\ 0 \notin Cells /\ ValueLimit \in Nat \ {0} /\ MaxTrace \in Nat
  /\ Initials \cup Stored \subseteq 0..(ValueLimit - 1)

VARIABLES
  cells,       \* cell -> MemoryCell, for registered cells
  events,      \* the AtomicEvents
  next_id,     \* next_event
  next_sc,
  registered   \* cell -> when and with what value it was last registered

atomicVars == <<cells, events, next_id, next_sc, registered>>

AtomicInit ==
  /\ cells = [c \in {} |-> 0]
  /\ events = << >> /\ next_id = 1 /\ next_sc = 1
  /\ registered = [c \in {} |-> 0]
-----------------------------------------------------------------------------
Acquires(ordering) == ordering \in {"Acquire", "AcqRel", "SeqCst"}

Releases(ordering) == ordering \in {"Release", "AcqRel", "SeqCst"}

(* register: a known cell is overwritten, its last write forgotten, before *)
(* the call reports the duplicate.                                         *)
register(c, initial) ==
  /\ cells' = [d \in DOMAIN cells \cup {c} |->
                 IF d = c THEN [value |-> initial, modification_order |-> 0, last_write |-> 0,
                                last_write_ordering |-> "Relaxed"]
                 ELSE cells[d]]
  /\ registered' = [d \in DOMAIN registered \cup {c} |->
                      IF d = c THEN [after |-> Len(events), initial |-> initial]
                      ELSE registered[d]]
  /\ UNCHANGED <<events, next_id, next_sc>>

(* next_event_id and sc_index *)
Indexed(ordering) ==
  /\ next_id <= MaxTrace
  /\ next_id' = next_id + 1
  /\ next_sc' = IF ordering = "SeqCst" THEN next_sc + 1 ELSE next_sc

ScIndex(ordering) == IF ordering = "SeqCst" THEN next_sc ELSE 0

ReadsLastEvent(c) == next_id - 1

ReadsFrom(c) == cells[c].last_write

load(c, ordering) ==
  /\ ordering \notin {"Release", "AcqRel"}
  /\ c \in DOMAIN cells
  /\ Indexed(ordering)
  /\ LET synchronizes == Acquires(ordering) /\ Releases(cells[c].last_write_ordering)
     IN events' = Append(events,
          [id |-> next_id, cell |-> c, kind |-> "Load", ordering |-> ordering,
           value |-> cells[c].value, reads_from |-> ReadsFrom(c), modification_order |-> 0,
           sc |-> ScIndex(ordering),
           after |-> IF synchronizes THEN cells[c].last_write ELSE 0])
  /\ UNCHANGED <<cells, registered>>

(* write_event: the indices are spent even if the cell is unknown. *)
WriteEvent(c, v, ordering, kind, reads_from, after) ==
  /\ Indexed(ordering)
  /\ IF c \in DOMAIN cells
       THEN /\ cells' = [cells EXCEPT ![c] =
                           [value |-> v, modification_order |-> @.modification_order + 1,
                            last_write |-> next_id, last_write_ordering |-> ordering]]
            /\ events' = Append(events,
                 [id |-> next_id, cell |-> c, kind |-> kind, ordering |-> ordering,
                  value |-> v, reads_from |-> reads_from,
                  modification_order |-> cells[c].modification_order + 1,
                  sc |-> ScIndex(ordering), after |-> after])
       ELSE UNCHANGED <<cells, events>>
  /\ UNCHANGED registered

store(c, v, ordering) ==
  /\ ordering \notin {"Acquire", "AcqRel"}
  /\ WriteEvent(c, v, ordering, "Store", 0, 0)

(* fetch_add looks for what it read in the one event before its own. *)
fetch_add(c, v, ordering) ==
  LET last == events[Len(events)]
      found == events # << >> /\ last.cell = c /\ last.modification_order # 0
      prior == IF found THEN last.id ELSE 0
      synchronizes == found /\ Acquires(ordering) /\ Releases(last.ordering)
  IN /\ c \in DOMAIN cells
     /\ WriteEvent(c, (cells[c].value + v) % ValueLimit, ordering, "ReadModifyWrite",
                   prior, IF synchronizes THEN prior ELSE 0)

fence(ordering) ==
  /\ ordering # "Relaxed"
  /\ Indexed(ordering)
  /\ events' = Append(events,
       [id |-> next_id, cell |-> 0, kind |-> "Fence", ordering |-> ordering, value |-> 0,
        reads_from |-> 0, modification_order |-> 0, sc |-> ScIndex(ordering), after |-> 0])
  /\ UNCHANGED <<cells, registered>>

AtomicNext ==
  \/ \E c \in Cells :
       \/ \E v \in Initials : register(c, v)
       \/ \E o \in Orderings :
            \/ load(c, o)
            \/ \E v \in Stored : store(c, v, o) \/ fetch_add(c, v, o)
  \/ \E o \in Orderings : fence(o)

AtomicSpec == AtomicInit /\ [][AtomicNext]_atomicVars
-----------------------------------------------------------------------------
(* The position of the last write to cell c from position m + 1 to         *)
(* position n of a trace, 0 if there is none.                              *)
LastWrite(trace, m, n, c) ==
  Max({0} \cup {j \in (m + 1)..n : trace[j].cell = c /\ trace[j].modification_order # 0})

(* The load e of a cell, at the end of the trace and after registration r. *)
LoadCoherent(trace, e, r) ==
  LET w == LastWrite(trace, r.after, Len(trace), e.cell)
  IN IF w = 0
       THEN e.reads_from = 0 /\ e.value = r.initial /\ e.after = 0
       ELSE /\ e.reads_from = trace[w].id
            /\ e.value = trace[w].value
            /\ e.after = IF Acquires(e.ordering) /\ Releases(trace[w].ordering)
                           THEN trace[w].id ELSE 0

(* A load's story can be told from the trace: it reads from the last write *)
(* to its cell since the cell was last registered, a registration that was *)
(* reported as a duplicate included, and has that write's value; without   *)
(* one it reads the registered value and from no event.  It happens after  *)
(* that write exactly if it is an acquire and the write a release.         *)
LoadsCoherent ==
  [][\A e \in {events'[i] : i \in (Len(events) + 1)..Len(events')} :
       e.kind = "Load" => LoadCoherent(events, e, registered[e.cell])]_atomicVars

(* The comment in fetch_add: the RMW reads from the immediately preceding  *)
(* modification.  The code takes the immediately preceding event.          *)
RmwReadsPreceding ==
  \A i \in DOMAIN events : events[i].kind = "ReadModifyWrite" =>
    LET w == LastWrite(events, 0, i - 1, events[i].cell)
    IN events[i].reads_from = IF w = 0 THEN 0 ELSE events[w].id
=============================================================================
