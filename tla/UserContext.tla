------------------------------ MODULE UserContext ------------------------------
(***************************************************************************)
(* UserContext and TrapFrame of kernel/src/context.rs: entering a context  *)
(* or taking a trap from it yields a frame, and resuming with a frame makes*)
(* the context runnable again.  Frames are Copy: every frame that was ever *)
(* handed out may be presented to any context, any number of times.        *)
(*                                                                         *)
(* Register contents are opaque and leave out the result register, which   *)
(* resume sets to the value it is given.  Every frame has user privilege.  *)
(* create checks the two addresses it is given; the contexts here have     *)
(* passed.                                                                 *)
(***************************************************************************)
EXTENDS Integers

CONSTANTS
  Contexts,     \* the contexts, by id
  Registers,    \* the register contents
  Created,      \* those create leaves
  MaxContextGen \* the last generation (u64::MAX in the code)

ASSUME ContextAssumption == MaxContextGen \in Nat /\ Created \in Registers

VARIABLES
  contexts,  \* id -> UserContext
  frames,    \* the TrapFrames handed out
  resumes    \* how often each generation of a context was resumed

contextVars == <<contexts, frames, resumes>>

TrapFrame == [context : Contexts, generation : 0..MaxContextGen, registers : Registers]

ContextInit ==
  /\ contexts = [x \in Contexts |-> [registers |-> Created, generation |-> 0, runnable |-> TRUE]]
  /\ frames = {}
  /\ resumes = [x \in Contexts |-> [g \in 0..MaxContextGen |-> 0]]
-----------------------------------------------------------------------------
Frame(x, regs) == [context |-> x, generation |-> contexts[x].generation, registers |-> regs]

enter(x) ==
  /\ contexts[x].runnable
  /\ contexts' = [contexts EXCEPT ![x].runnable = FALSE]
  /\ frames' = frames \cup {Frame(x, contexts[x].registers)}
  /\ UNCHANGED resumes

(* trap does not ask whether the context is running. *)
trap(x, regs) ==
  /\ frames' = frames \cup {Frame(x, regs)}
  /\ UNCHANGED <<contexts, resumes>>

AnyGeneration(x, f) == f.context = x

CurrentFrame(x, f) == f.context = x /\ f.generation = contexts[x].generation

(* resume: the registers are replaced even if the generation cannot move   *)
(* on, in which case the context does not become runnable.                 *)
resume(x, f) ==
  /\ CurrentFrame(x, f)
  /\ LET fits == contexts[x].generation < MaxContextGen
     IN /\ contexts' = [contexts EXCEPT ![x] =
                          [registers |-> f.registers,
                           generation |-> IF fits THEN @.generation + 1 ELSE @.generation,
                           runnable |-> @.runnable \/ fits]]
        /\ resumes' = IF fits THEN [resumes EXCEPT ![x][f.generation] = @ + 1] ELSE resumes
  /\ UNCHANGED frames

terminate(x) ==
  /\ contexts' = [contexts EXCEPT ![x].runnable = FALSE]
  /\ UNCHANGED <<frames, resumes>>

ContextNext ==
  \E x \in Contexts :
    \/ enter(x) \/ terminate(x)
    \/ \E r \in Registers : trap(x, r)
    \/ \E f \in frames : resume(x, f)

ContextSpec == ContextInit /\ [][ContextNext]_contextVars
-----------------------------------------------------------------------------
(* Generation safety: of all the frames taken in one generation of a       *)
(* context, by enter and by any number of traps, one resumes it, once.     *)
ResumesOnce == \A x \in Contexts, g \in 0..MaxContextGen : resumes[x][g] <= 1
=============================================================================
