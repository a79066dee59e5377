------------------------------- MODULE MemMove -------------------------------
(***************************************************************************)
(* The memmove that the runtime's assembly in post_firmware.rs provides to *)
(* the compiler: source and destination may overlap, so the direction of   *)
(* the byte loop is chosen before the first byte is moved.                 *)
(***************************************************************************)
EXTENDS Integers

CONSTANTS
  MemoryEnd,  \* the end of the memory the ranges lie in
  Contents    \* the byte each address holds before the move

ASSUME MemMoveAssumption == MemoryEnd \in Nat /\ DOMAIN Contents = 0..(MemoryEnd - 1)

VARIABLES
  memory,  \* address -> byte
  rcx, rdx, r8,  \* destination, source and length
  r10,     \* the offset of the loop
  at       \* the label reached: entry, 1 (backward), 3 (forward) or ret

moveVars == <<memory, rcx, rdx, r8, r10, at>>

Addresses == 0..(MemoryEnd - 1)

MoveInit ==
  /\ memory = [a \in Addresses |-> Contents[a]]
  /\ rcx \in Addresses /\ rdx \in Addresses
  /\ r8 \in 0..MemoryEnd /\ rcx + r8 <= MemoryEnd /\ rdx + r8 <= MemoryEnd
  /\ r10 = 0 /\ at = "entry"

AlwaysForward == TRUE

(* The destination does not lie inside the source. *)
Forward == rcx <= rdx \/ rcx >= rdx + r8

choose_direction ==
  /\ at = "entry"
  /\ \/ r8 = 0 /\ at' = "ret" /\ r10' = r10
     \/ r8 # 0 /\ Forward /\ at' = "forward" /\ r10' = 0
     \/ r8 # 0 /\ ~Forward /\ at' = "backward" /\ r10' = r8
  /\ UNCHANGED <<memory, rcx, rdx, r8>>

move_backward ==
  /\ at = "backward"
  /\ r10' = r10 - 1
  /\ memory' = [memory EXCEPT ![rcx + r10 - 1] = memory[rdx + r10 - 1]]
  /\ at' = IF r10 - 1 # 0 THEN "backward" ELSE "ret"
  /\ UNCHANGED <<rcx, rdx, r8>>

move_forward ==
  /\ at = "forward"
  /\ r10' = r10 + 1
  /\ memory' = [memory EXCEPT ![rcx + r10] = memory[rdx + r10]]
  /\ at' = IF r10 + 1 < r8 THEN "forward" ELSE "ret"
  /\ UNCHANGED <<rcx, rdx, r8>>

MoveNext == choose_direction \/ move_backward \/ move_forward

MoveSpec == MoveInit /\ [][MoveNext]_moveVars
-----------------------------------------------------------------------------
(* What memory should hold when the range has been copied as if through a  *)
(* buffer of its own.                                                      *)
Copied(a) == IF rcx <= a /\ a < rcx + r8 THEN Contents[a - rcx + rdx] ELSE Contents[a]

(* When memmove returns, the destination holds what the source held before *)
(* the first byte was moved, however the two overlap, and no other byte    *)
(* has changed.                                                            *)
MoveIsCopy == at = "ret" => \A a \in Addresses : memory[a] = Copied(a)
=============================================================================
