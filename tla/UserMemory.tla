------------------------------ MODULE UserMemory ------------------------------
(***************************************************************************)
(* The copies between the kernel and user memory, and UserMemory itself,   *)
(* of kernel/src/memory.rs.  A copy is taken byte by byte: it first        *)
(* translates every address of the range, then moves the bytes.  The       *)
(* address space is borrowed for the whole call, so no mapping changes     *)
(* under it; between calls any operation of AddressSpace may.              *)
(*                                                                         *)
(* A page holds one byte, so that a range of two bytes is one that crosses *)
(* from one page to another.                                               *)
(***************************************************************************)
EXTENDS AddressSpace, Sequences

CONSTANTS
  PhysicalEnd,  \* the end of the physical addresses (2^64 in the code)
  Bytes,        \* the values of a byte
  Buffers,      \* the buffers the kernel copies from
  MaxCopies,    \* the calls on user memory of a behaviour
  MaxRemaps     \* the changes of the mappings of a behaviour

ASSUME UserMemoryAssumption ==
  PhysicalEnd \in Nat /\ Buffers \subseteq Seq(Bytes) /\ MaxCopies \in Nat /\ MaxRemaps \in Nat

VARIABLES
  user_bytes,  \* UserMemory::bytes, physical address -> byte
  output,      \* the caller's buffer of copy_from_user
  call,        \* the copy in progress, or the last one
  copies       \* the calls begun

copyVars == <<user_bytes, output, call, copies>>

Idle == [pc |-> "idle", op |-> "none", at |-> 0, buffer |-> <<>>, addresses |-> <<>>,
         staged |-> <<>>, bytes |-> <<>>, out |-> <<>>]

CopyInit == user_bytes = <<>> /\ output = <<>> /\ copies = 0 /\ call = Idle

Between == call.pc \in {"idle", "Ok", "Err"}
Finish(result) == call' = [Idle EXCEPT !.pc = result]

With(bytes, physical, value) ==
  [p \in DOMAIN bytes \cup {physical} |-> IF p = physical THEN value ELSE bytes[p]]

(* initialize: the bytes below the end of the address space are written    *)
(* even if the rest does not fit and the call fails.                       *)
initialize_bytes(physical, buffer) ==
  LET fits == {p \in physical..(physical + Len(buffer) - 1) : p < PhysicalEnd}
  IN /\ Between /\ copies < MaxCopies
     /\ copies' = copies + 1
     /\ user_bytes' = [p \in DOMAIN user_bytes \cup fits |->
                         IF p \in fits THEN buffer[p - physical + 1] ELSE user_bytes[p]]
     /\ UNCHANGED <<output, call>>

(* A call to copy between a buffer and the addresses from v on;            *)
(* copy_from_user takes only the length of the buffer.  bytes and out      *)
(* remember what the call found.                                           *)
begin_copy(op, v, buffer) ==
  /\ Between /\ copies < MaxCopies
  /\ copies' = copies + 1
  /\ call' = [pc |-> "validate", op |-> op, at |-> v, buffer |-> buffer, addresses |-> <<>>,
              staged |-> <<>>, bytes |-> user_bytes, out |-> output]
  /\ UNCHANGED <<user_bytes, output>>

copy_to_user(v, buffer) == begin_copy("copy_to_user", v, buffer)
copy_from_user(v, buffer) == begin_copy("copy_from_user", v, buffer)

Right == IF call.op = "copy_to_user" THEN "WRITE" ELSE "READ"

(* What a mapping must permit for the copy. *)
IgnoresUser == {Right}

Needed == {"USER", Right}

(* The frame behind an address, if the copy may access it. *)
UserFrame(v) == {t[1] : t \in {t \in translate(v) : Needed \subseteq t[2]}}

(* One turn of the loop of validate_user_range. *)
validate_user_range ==
  LET next == call.at + Len(call.addresses)
  IN /\ call.pc = "validate"
     /\ \/ Len(call.addresses) = Len(call.buffer) /\ call' = [call EXCEPT !.pc = "move"]
        \/ /\ Len(call.addresses) < Len(call.buffer)
           /\ IF next >= VirtualEnd \/ UserFrame(next) = {} THEN Finish("Err")
              ELSE \E physical \in UserFrame(next) :
                     call' = [call EXCEPT !.addresses = Append(@, physical)]
     /\ UNCHANGED <<user_bytes, output, copies>>

(* The bytes moved so far are counted by staged, in either direction. *)
Moved == Len(call.staged)
Target == call.addresses[Moved + 1]

(* copy_to_user writes the bytes in order. *)
write_byte ==
  /\ call.pc = "move" /\ call.op = "copy_to_user"
  /\ IF Moved = Len(call.buffer) THEN Finish("Ok") /\ UNCHANGED user_bytes
     ELSE /\ user_bytes' = With(user_bytes, Target, call.buffer[Moved + 1])
          /\ call' = [call EXCEPT !.staged = Append(@, call.buffer[Moved + 1])]
  /\ UNCHANGED <<output, copies>>

(* copy_from_user stages the bytes, and fails at one that was never set;   *)
(* the caller's buffer is filled at the end.                               *)
stage_byte ==
  /\ call.pc = "move" /\ call.op = "copy_from_user"
  /\ IF Moved = Len(call.buffer) THEN Finish("Ok") /\ output' = call.staged
     ELSE /\ IF Target \in DOMAIN user_bytes
             THEN call' = [call EXCEPT !.staged = Append(@, user_bytes[Target])]
             ELSE Finish("Err")
          /\ UNCHANGED output
  /\ UNCHANGED <<user_bytes, copies>>

CopyNext ==
  \/ /\ \/ \E b \in Buffers, p \in 0..(PhysicalEnd - 1) : initialize_bytes(p, b)
        \/ \E b \in Buffers, v \in 0..(VirtualEnd - 1) : copy_to_user(v, b) \/ copy_from_user(v, b)
        \/ validate_user_range \/ write_byte \/ stage_byte
     /\ UNCHANGED memoryVars
  \/ Between /\ epoch < MaxRemaps /\ MappingNext /\ UNCHANGED copyVars

CopySpec == MemoryInit /\ CopyInit /\ [][CopyNext]_<<memoryVars, copyVars>>
-----------------------------------------------------------------------------
(* The frame behind an address that is open to the user for the copy. *)
OpenFrame(v) == {t[1] : t \in {t \in translate(v) : "USER" \in t[2] /\ Right \in t[2]}}

OpenFrames == [i \in DOMAIN call.buffer |-> OpenFrame(call.at + i - 1)]

LastInto(i, frames) == \A j \in DOMAIN frames : j > i => frames[j] # frames[i]

(* Each byte of the buffer has landed in its frame, the last one where     *)
(* several share it, and every other frame is as it was before.            *)
Landed(bytes, before, frames, buffer) ==
  /\ DOMAIN bytes = DOMAIN before \cup UNION {frames[i] : i \in DOMAIN frames}
  /\ \A p \in DOMAIN bytes :
       \/ \E i \in DOMAIN frames :
            frames[i] = {p} /\ LastInto(i, frames) /\ bytes[p] = buffer[i]
       \/ (\A i \in DOMAIN frames : frames[i] # {p}) /\ bytes[p] = before[p]

(* What a step that ends a copy leaves. *)
Outcome(frames) ==
  IF call'.pc = "Err" THEN user_bytes' = call.bytes /\ output' = call.out
  ELSE /\ \A i \in DOMAIN frames : frames[i] # {}
       /\ IF call.op = "copy_to_user"
          THEN output' = call.out /\ Landed(user_bytes', call.bytes, frames, call.buffer)
          ELSE /\ user_bytes' = call.bytes
               /\ Len(output') = Len(call.buffer)
               /\ \A i \in DOMAIN frames : \A p \in frames[i] : output'[i] = user_bytes[p]

(* A copy is all or nothing, and for the user only.  A copy that fails has *)
(* written neither user memory nor the caller's buffer, wherever in the    *)
(* range the fault is.  A copy that succeeds moved every byte, to or from  *)
(* the frame its address translates to, each one open to the user, and     *)
(* touched no other frame; where two pages share a frame the later byte    *)
(* stays.                                                                  *)
CopyAllOrNothing == [][~Between /\ Between' => Outcome(OpenFrames)]_copyVars
=============================================================================
