------------------------------ MODULE AtomicCell ------------------------------
(***************************************************************************)
(* AtomicCell of kernel/src/atomic.rs: one hardware atomic of a given      *)
(* width.  Values are words; a cell keeps the low part its width allows.   *)
(* An illegal ordering refuses a call without a write, and a load has no   *)
(* effect: neither is a step.                                              *)
(*                                                                         *)
(* hardware is not part of the code: a register as wide as the cell, which *)
(* takes the same calls with the low parts of their operands and computes  *)
(* in its own width, where the code computes on words and masks the result.*)
(***************************************************************************)
EXTENDS Integers, Bitwise

CONSTANTS
  CellWidths,  \* [bytes, limit] of each AtomicWidth: Bool, U32 and U64
  WordLimit,   \* words wrap around here (2^64 in the code)
  CellCaps,    \* the [base, len] ranges of the backing capabilities
  MaxOrder     \* the modification order wraps around here (2^64 in the code)

ASSUME CellAssumption ==
  /\ CellWidths \subseteq [bytes : Nat \ {0}, limit : 2..WordLimit]
  /\ \A w \in CellWidths : WordLimit % w.limit = 0
  /\ CellCaps \subseteq [base : Nat, len : Nat] /\ MaxOrder \in Nat \ {0}

VARIABLES cell, hardware

cellVars == <<cell, hardware>>

Words == 0..(WordLimit - 1)
NoCell == [created |-> FALSE]

CellInit == cell = NoCell /\ hardware = 0

cell_create(cap, w, address, initial) ==
  /\ cell = NoCell
  /\ address % w.bytes = 0
  /\ address >= cap.base /\ address + w.bytes <= cap.base + cap.len
  /\ cell' = [created |-> TRUE, width |-> w, address |-> address, value |-> initial % w.limit,
              modification_order |-> 0]
  /\ hardware' = initial % w.limit

(* write: the value is masked, the modification order wraps. *)
write(value) ==
  cell' = [cell EXCEPT !.value = value % cell.width.limit,
                       !.modification_order = (@ + 1) % MaxOrder]

Low(v) == v % cell.width.limit

cell_store(v) == cell.created /\ write(v) /\ hardware' = Low(v)

cell_swap(v) == cell_store(v)

CurrentAsIs(current) == current

(* The low part of the value compared with, as the cell holds it. *)
Masked(current) == current % cell.width.limit

cell_compare_exchange(current, new) ==
  /\ cell.created
  /\ IF cell.value = Masked(current) THEN write(new) ELSE UNCHANGED cell
  /\ hardware' = IF hardware = Low(current) THEN Low(new) ELSE hardware

(* A spurious failure writes nothing. *)
cell_compare_exchange_weak(current, new, spurious) ==
  ~spurious /\ cell_compare_exchange(current, new)

cell_fetch_add(v) ==
  /\ cell.created
  /\ write((cell.value + v) % WordLimit)
  /\ hardware' = Low(hardware + Low(v))

cell_fetch_sub(v) ==
  /\ cell.created
  /\ write((cell.value + WordLimit - v) % WordLimit)
  /\ hardware' = Low(hardware - Low(v))

cell_fetch_and(v) == cell.created /\ write(cell.value & v) /\ hardware' = (hardware & Low(v))
cell_fetch_or(v) == cell.created /\ write(cell.value | v) /\ hardware' = (hardware | Low(v))
cell_fetch_xor(v) == cell.created /\ write(cell.value ^^ v) /\ hardware' = (hardware ^^ Low(v))

CellNext ==
  \/ \E cap \in CellCaps, w \in CellWidths, address \in 0..WordLimit, v \in Words :
       cell_create(cap, w, address, v)
  \/ \E v \in Words : \/ cell_store(v) \/ cell_swap(v) \/ cell_fetch_add(v) \/ cell_fetch_sub(v)
                      \/ cell_fetch_and(v) \/ cell_fetch_or(v) \/ cell_fetch_xor(v)
  \/ \E current, new \in Words, spurious \in BOOLEAN :
       cell_compare_exchange(current, new) \/ cell_compare_exchange_weak(current, new, spurious)
-----------------------------------------------------------------------------
(* Word arithmetic that is masked after every write is arithmetic in the   *)
(* cell's width: after any sequence of stores, exchanges and arithmetic,   *)
(* wrapping below zero or past the word included, the cell holds what a    *)
(* register of its width would, whatever the callers left in the high part *)
(* of an operand or of the value an exchange compares with.                *)
NarrowAgrees == cell.created => cell.value = hardware
=============================================================================
