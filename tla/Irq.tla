---------------------------------- MODULE Irq ----------------------------------
(***************************************************************************)
(* IrqController of kernel/src/irq.rs: the interrupt flag of each CPU with *)
(* the token that restores it, the routes, and the interrupts in service.  *)
(* Tokens are Copy: every token ever returned may be presented again, on   *)
(* any CPU.  add_cpu and route overwrite an entry before they report it as *)
(* a duplicate.                                                            *)
(*                                                                         *)
(* ended is not part of the code: how often restore accepted the token of  *)
(* each critical section of a CPU since the CPU was last added.            *)
(***************************************************************************)
EXTENDS Integers

CONSTANTS
  IrqCpus,     \* the CPUs
  IrqVectors,  \* vectors from 32 on
  MaxIrqGen    \* the last generation (u64::MAX in the code)

ASSUME IrqAssumption == MaxIrqGen \in Nat

VARIABLES
  locals,     \* CPU -> LocalIrqState, for added CPUs
  routes,     \* vector -> IrqRoute, for routed vectors
  in_service, \* the <<cpu, vector>> pairs
  tokens,     \* the IrqStateTokens returned
  ended       \* CPU -> generation -> how often its token was accepted

irqVars == <<locals, routes, in_service, tokens, ended>>

NeverEnded == [g \in 1..MaxIrqGen |-> 0]

IrqInit ==
  /\ locals = [c \in {} |-> 0] /\ routes = [v \in {} |-> 0]
  /\ in_service = {} /\ tokens = {}
  /\ ended = [c \in IrqCpus |-> NeverEnded]
-----------------------------------------------------------------------------
add_irq_cpu(c) ==
  /\ locals' = [d \in DOMAIN locals \cup {c} |->
                  IF d = c THEN [enabled |-> TRUE, generation |-> 0, outstanding |-> FALSE]
                  ELSE locals[d]]
  /\ ended' = [ended EXCEPT ![c] = NeverEnded]
  /\ UNCHANGED <<routes, in_service, tokens>>

save_disable(c) ==
  /\ c \in DOMAIN locals
  /\ ~locals[c].outstanding
  /\ locals[c].generation < MaxIrqGen
  /\ LET g == locals[c].generation + 1
     IN /\ locals' = [locals EXCEPT ![c] =
                        [enabled |-> FALSE, generation |-> g, outstanding |-> TRUE]]
        /\ tokens' = tokens \cup {[cpu |-> c, generation |-> g,
                                   was_enabled |-> locals[c].enabled]}
  /\ UNCHANGED <<routes, in_service, ended>>

AnyToken(c, token) == TRUE

NewestToken(c, token) == token.cpu = c /\ token.generation = locals[c].generation

restore(c, token) ==
  /\ c \in DOMAIN locals
  /\ NewestToken(c, token)
  /\ locals[c].outstanding
  /\ locals' = [locals EXCEPT ![c].enabled = token.was_enabled, ![c].outstanding = FALSE]
  /\ ended' = [ended EXCEPT ![token.cpu][token.generation] = @ + 1]
  /\ UNCHANGED <<routes, in_service, tokens>>

route(v, c) ==
  /\ c \in DOMAIN locals
  /\ routes' = [w \in DOMAIN routes \cup {v} |->
                  IF w = v THEN [cpu |-> c, masked |-> FALSE] ELSE routes[w]]
  /\ UNCHANGED <<locals, in_service, tokens, ended>>

set_masked(v, masked) ==
  /\ v \in DOMAIN routes
  /\ routes' = [routes EXCEPT ![v].masked = masked]
  /\ UNCHANGED <<locals, in_service, tokens, ended>>

deliver(v) ==
  /\ v \in DOMAIN routes /\ ~routes[v].masked
  /\ in_service' = in_service \cup {<<routes[v].cpu, v>>}
  /\ UNCHANGED <<locals, routes, tokens, ended>>

end_of_interrupt(c, v) ==
  /\ <<c, v>> \in in_service
  /\ in_service' = in_service \ {<<c, v>>}
  /\ UNCHANGED <<locals, routes, tokens, ended>>

IrqNext ==
  \/ \E c \in IrqCpus :
       \/ add_irq_cpu(c) \/ save_disable(c)
       \/ \E t \in tokens : restore(c, t)
       \/ \E v \in IrqVectors : route(v, c) \/ end_of_interrupt(c, v)
  \/ \E v \in IrqVectors : deliver(v) \/ \E b \in BOOLEAN : set_masked(v, b)

IrqSpec == IrqInit /\ [][IrqNext]_irqVars
-----------------------------------------------------------------------------
Over(c, g) == g < locals[c].generation \/ (g = locals[c].generation /\ ~locals[c].outstanding)

(* A critical section ends once, by the token it was entered with: of a    *)
(* CPU's sections all but the one still open have been ended by exactly    *)
(* that token, no token of this or of another CPU has ended any other, and *)
(* interrupts are off exactly while a section is open, although every      *)
(* token stays around and a CPU may be added again inside a section.  (A   *)
(* token is its CPU, generation and flag: those of a CPU added again are   *)
(* the same as the ones it gave out before.)                               *)
SectionsEndOnce ==
  \A c \in DOMAIN locals :
    /\ locals[c].enabled = ~locals[c].outstanding
    /\ \A g \in 1..MaxIrqGen : ended[c][g] = IF Over(c, g) THEN 1 ELSE 0
=============================================================================
