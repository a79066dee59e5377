---------------------------- MODULE CounterProofs ----------------------------
(***************************************************************************)
(* Proof that the counters of the multiprocessor run are exact, for every  *)
(* finite set of APs and with every fault the model has.  Each counter is  *)
(* the number of CPUs beyond some step; the sum of the tasks is the sum of *)
(* the seeds planted and of the tasks taken so far.                        *)
(***************************************************************************)
EXTENDS PostFirmwareProofs, FiniteSetTheorems

(* A leaf that names no prover is for Zenon, with time to spare. *)
USE ZenonT(30)

USE DEF Cpus
-----------------------------------------------------------------------------
(* The counters.  A CPU counts in a tally from the step that adds it on:   *)
(* the tallies are the numbers of CPUs that have passed certain steps.     *)
Unseeded ==
  {"off", "cpu_local", "halted", "online", "ready", "phase_1", "message_ready", "release",
   "message", "message_mask", "seed"}
Running == {"open", "gate", "take", "leave"}
Untaken == Unseeded \cup {"active", "open", "gate", "take"}
Unentered == Untaken \cup {"leave", "ticket", "spin", "enter"}
Unset == Unentered \cup {"unlock", "once"}
Unprobed == Unset \cup {"probe_pre"}
Undone == Unprobed \cup {"mask_pre", "done"}

Past(p, S) == {c \in Cpus : p[c] \notin S}
At(p, S) == {c \in Cpus : p[c] \in S}
DoneAps(p) == {a \in Aps : p[a] \notin Undone}

(* Where the BSP is before it sets the counters up, and after it has seen  *)
(* every AP done.                                                          *)
Preparing == {"start", "await_online", "clear_ack", "send_ipi", "await_ipi", "setup"}
AfterDone ==
  {"check", "remap", "invlpg", "reset_ack", "send_shootdown", "await_shootdown"} \cup GoneSteps
Waiting == {"off", "cpu_local", "halted", "online", "ready", "phase_1"}

Least(a, b) == IF a < b THEN a ELSE b

(* Twice the sum of the numbers below n. *)
Tri(n) == n * (n - 1)

(* What the tasks add up to once r seeds and the tasks below t are taken:  *)
(* the seeds are the first Workers tasks.                                  *)
Balance(sum, r, t) == 2 * sum + Tri(Workers) = Tri(r) + Tri(Least(t, POST_TASKS))

CountTypes ==
  /\ DOMAIN pc = Cpus /\ DOMAIN tlb = Cpus
  /\ {"EXPECTED", "PHASE", "PAYLOAD", "MESSAGE_READY", "MESSAGE_STALE", "TASK_READY",
      "NEXT_TASK", "SUM", "WORKERS", "ACTIVE", "DONE", "LOCK_ENTRIES", "ONCE", "STALE"}
       \subseteq DOMAIN m
  /\ m.EXPECTED \in {0, Workers} /\ m.PHASE \in {0, 1, 2}
  /\ m.NEXT_TASK \in Nat /\ m.SUM \in Nat
  /\ \A c \in Cpus : tlb[c] \in {"none", "A", "B"}
  /\ pte \in {"A", "B"}

(* Before the counters are set up ... *)
Quiet ==
  /\ pc[Bsp] \in Preparing \cup Errors
  /\ m.PHASE = 0 /\ m.LOCK_ENTRIES = 0 /\ pte = "A"

(* ... and from then on. *)
Tallies ==
  /\ pc[Bsp] \notin Preparing
  /\ m.TASK_READY = Cardinality(Past(pc, Unseeded)) /\ m.WORKERS = Past(pc, Unseeded)
  /\ m.ACTIVE = Cardinality(At(pc, Running))
  /\ m.LOCK_ENTRIES = Cardinality(Past(pc, Unentered))
  /\ m.DONE = Cardinality(DoneAps(pc))
  /\ m.NEXT_TASK >= Workers
  /\ Balance(m.SUM, m.TASK_READY, m.NEXT_TASK)
  /\ Past(pc, Untaken) # {} => m.NEXT_TASK >= POST_TASKS
  /\ Past(pc, Unset) # {} => m.ONCE # "unset"
  /\ m.PAYLOAD

CountFacts ==
  /\ m.EXPECTED = 0 => Quiet
  /\ m.EXPECTED # 0 => Tallies
  /\ m.PHASE = 0 => \A a \in Aps : pc[a] \in Waiting
  /\ m.MESSAGE_READY => m.PAYLOAD
  /\ m.MESSAGE_STALE = 0 /\ m.STALE = 0
  /\ pc[Bsp] \in AfterDone => DoneAps(pc) = Aps
  /\ pte = "B" => DoneAps(pc) = Aps /\ pc[Bsp] \notin Unprobed
  /\ pte = "A" => \A c \in Cpus : tlb[c] # "B"
  /\ \A a \in Aps : pc[a] = "probe_post" => m.PHASE = 2

CountInv == CountTypes /\ CountFacts

(* The CPUs beyond a stage, when one of them moves. *)
LEMMA PastMoves ==
  ASSUME NEW c \in Cpus, NEW from, NEW to, Moves(c, from, to), NEW S
  PROVE  /\ (from \in S <=> to \in S) => Past(pc', S) = Past(pc, S) /\ At(pc', S) = At(pc, S)
         /\ from \in S /\ to \notin S =>
              /\ c \notin Past(pc, S) /\ Past(pc', S) = Past(pc, S) \cup {c}
              /\ c \in At(pc, S) /\ At(pc', S) = At(pc, S) \ {c}
         /\ from \notin S /\ to \in S => c \notin At(pc, S) /\ At(pc', S) = At(pc, S) \cup {c}
  BY DEF Moves, Past, At

(* The APs that are done, when a CPU moves. *)
LEMMA DoneMoves ==
  ASSUME NEW c \in Cpus, NEW from, NEW to, Moves(c, from, to),
         c # Bsp => (from \in Undone <=> to \in Undone)
  PROVE  DoneAps(pc') = DoneAps(pc)
  BY SMT, PostFirmwareAssumption DEF Moves, DoneAps

(* The BSP and the APs are finitely many, and so are those in a stage. *)
LEMMA CountsAreFinite ==
  /\ IsFiniteSet(Cpus) /\ Workers \in Nat \ {0} /\ Workers <= POST_TASKS
  /\ \A p, S : /\ IsFiniteSet(Past(p, S)) /\ IsFiniteSet(At(p, S)) /\ IsFiniteSet(DoneAps(p))
               /\ Cardinality(Past(p, S)) \in Nat /\ Cardinality(At(p, S)) \in Nat
               /\ Cardinality(DoneAps(p)) \in Nat
  <1>1. IsFiniteSet(Cpus) /\ Workers = Cardinality(Aps) + 1 /\ Cardinality(Aps) \in Nat
    BY PostFirmwareAssumption, FS_AddElement, FS_CardinalityType DEF Workers
  <1>2. \A p, S : Past(p, S) \subseteq Cpus /\ At(p, S) \subseteq Cpus /\ DoneAps(p) \subseteq Aps
    BY DEF Past, At, DoneAps
  <1>3. \A p, S : IsFiniteSet(Past(p, S)) /\ IsFiniteSet(At(p, S)) /\ IsFiniteSet(DoneAps(p))
    BY <1>1, <1>2, FS_Subset, PostFirmwareAssumption
  <1> HIDE DEF Cpus
  <1> QED
    BY SMT, <1>1, <1>3, FS_CardinalityType, PostFirmwareAssumption

(* The atomics the counters' invariant speaks of, kept by most steps. *)
Kept ==
  /\ DOMAIN m' = DOMAIN m
  /\ m'.EXPECTED = m.EXPECTED /\ m'.PHASE = m.PHASE /\ m'.PAYLOAD = m.PAYLOAD
  /\ m'.MESSAGE_READY = m.MESSAGE_READY /\ m'.MESSAGE_STALE = m.MESSAGE_STALE
  /\ m'.TASK_READY = m.TASK_READY /\ m'.NEXT_TASK = m.NEXT_TASK /\ m'.SUM = m.SUM
  /\ m'.WORKERS = m.WORKERS /\ m'.ACTIVE = m.ACTIVE /\ m'.DONE = m.DONE
  /\ m'.LOCK_ENTRIES = m.LOCK_ENTRIES /\ m'.ONCE = m.ONCE /\ m'.STALE = m.STALE

(* A step that no counter looks at. *)
SameStage(from, to) ==
  \A S \in {Unseeded, Running, Untaken, Unentered, Unset} :
    from \in S <=> to \in S

StageKept(from, to) ==
  /\ from \in Preparing \cup Errors => to \in Preparing \cup Errors
  /\ to \in Preparing => from \in Preparing
  /\ to \in AfterDone => from \in AfterDone
  /\ to \in Unprobed => from \in Unprobed

TlbsLoad ==
  /\ pte' = pte /\ DOMAIN tlb' = Cpus
  /\ \A d \in Cpus : tlb'[d] \in {tlb[d], pte, "none"}

(* A step that no tally counts and that touches no atomic of the counters  *)
(* keeps their invariant.                                                  *)
LEMMA CountMove ==
  ASSUME CountInv, NEW c \in Cpus, NEW from, NEW to, Moves(c, from, to),
         SameStage(from, to), Kept, TlbsLoad,
         c = Bsp => StageKept(from, to),
         c # Bsp => /\ from \in Undone <=> to \in Undone
                    /\ from \in Waiting => to \in Waiting \/ m.PHASE # 0
                    /\ to = "probe_post" => m.PHASE = 2
  PROVE CountInv'
  <1>1. /\ \A S \in {Unseeded, Untaken, Unentered, Unset} : Past(pc', S) = Past(pc, S)
        /\ At(pc', Running) = At(pc, Running)
        /\ DoneAps(pc') = DoneAps(pc)
    BY SMT, PastMoves, DoneMoves DEF SameStage
  <1>2. pc[Bsp] \notin Unprobed => pc'[Bsp] \notin Unprobed
    BY DEF StageKept, Moves
  <1>3. CountTypes'
    BY DEF CountInv, CountTypes, Kept, TlbsLoad, Moves
  <1>4. pc'[Bsp] \in AfterDone => pc[Bsp] \in AfterDone
    BY DEF StageKept, Moves
  <1>5. Quiet => Quiet'
    BY DEF Quiet, StageKept, Moves, Kept, TlbsLoad
  <1>6. Tallies => Tallies'
    BY <1>1 DEF Tallies, StageKept, Moves, Kept
  <1>7. /\ m'.PHASE = 0 => \A a \in Aps : pc'[a] \in Waiting
        /\ \A a \in Aps : pc'[a] = "probe_post" => m'.PHASE = 2
    BY SMT, PostFirmwareAssumption DEF CountInv, CountFacts, Moves, Kept
  <1>8. pte' = "A" => \A d \in Cpus : tlb'[d] # "B"
    BY DEF CountInv, CountFacts, TlbsLoad
  <1> QED
    BY <1>1, <1>2, <1>3, <1>4, <1>5, <1>6, <1>7, <1>8 DEF CountInv, CountFacts, Kept, TlbsLoad
(* A CPU at work works on counters that are set up. *)
LEMMA AtWork ==
  ASSUME CountInv, NEW c \in Cpus, pc[c] \notin Waiting \cup Preparing \cup Errors
  PROVE  m.EXPECTED = Workers /\ m.EXPECTED # 0 /\ Tallies
  BY CountsAreFinite DEF CountInv, CountTypes, CountFacts, Quiet

Working ==
  {"message", "message_mask", "seed", "active", "open", "gate", "take", "leave", "ticket",
   "spin", "enter", "unlock", "once", "probe_pre"}

(* A step at work that changes counters, as the new tallies say. *)
LEMMA CountWork ==
  ASSUME CountInv, NEW c \in Cpus, NEW from \in Working, NEW to \in Working, Moves(c, from, to),
         UNCHANGED <<pte, tlb>>, DOMAIN m' = DOMAIN m,
         m'.EXPECTED = m.EXPECTED, m'.PHASE = m.PHASE, m'.MESSAGE_READY = m.MESSAGE_READY,
         m'.PAYLOAD = m.PAYLOAD, m'.MESSAGE_STALE = m.MESSAGE_STALE, m'.STALE = m.STALE,
         m'.NEXT_TASK \in Nat, m'.SUM \in Nat,
         Tallies'
  PROVE CountInv'
  <1> USE DEF Working
  <1>1. from \in Undone /\ to \in Undone /\ to \in Unprobed
    BY SMT DEF Undone, Unprobed, Unset, Unentered, Untaken, Unseeded
  <1>2. DoneAps(pc') = DoneAps(pc)
    BY <1>1, DoneMoves
  <1>3. CountTypes'
    BY DEF CountInv, CountTypes, Moves
  <1>4. m.EXPECTED # 0
    BY AtWork DEF Moves, Waiting, Preparing, Errors
  <1>5. pc'[Bsp] \in AfterDone => pc[Bsp] \in AfterDone
    BY DEF Moves, AfterDone, GoneSteps
  <1>6. /\ m'.PHASE = 0 => \A a \in Aps : pc'[a] \in Waiting
        /\ \A a \in Aps : pc'[a] = "probe_post" => m'.PHASE = 2
    BY SMT, PostFirmwareAssumption DEF CountInv, CountFacts, Moves, Waiting
  <1>7. pte = "B" => pc'[Bsp] \notin Unprobed
    <2>1. c = Bsp => from \in Unprobed
      BY DEF Unprobed, Unset, Unentered, Untaken, Unseeded
    <2> QED
      BY <2>1 DEF CountInv, CountFacts, Moves
  <1> QED
    BY <1>2, <1>3, <1>4, <1>5, <1>6, <1>7 DEF CountInv, CountFacts

(* The stages that a step at work does not leave or enter, and the one it  *)
(* does.                                                                   *)
Within(from, to, Stages) == \A S \in Stages : from \in S <=> to \in S
Leaves(from, to, S) == from \in S /\ to \notin S

(* Which stages the counting steps of worker stay within and which they    *)
(* leave.                                                                  *)
LEMMA Boundaries ==
  /\ Within("seed", "active", {Running, Untaken, Unentered, Unset, Undone})
  /\ Leaves("seed", "active", Unseeded)
  /\ Within("active", "open", {Unseeded, Untaken, Unentered, Unset, Undone})
  /\ Leaves("open", "active", Running)
  /\ Within("take", "leave", {Unseeded, Running, Unentered, Unset, Undone})
  /\ Within("leave", "ticket", {Unseeded, Untaken, Unentered, Unset, Undone})
  /\ Leaves("leave", "ticket", Running)
  /\ Within("enter", "unlock", {Unseeded, Running, Untaken, Unset, Undone})
  /\ Leaves("enter", "unlock", Unentered)
  /\ Within("once", "probe_pre", {Unseeded, Running, Untaken, Unentered, Undone})
  BY SMT DEF Within, Leaves, Undone, Unprobed, Unset, Unentered, Untaken, Unseeded, Running

(* What such a step keeps. *)
LEMMA WithinKeeps ==
  ASSUME NEW c \in Cpus, NEW from, NEW to, Moves(c, from, to), NEW Stages,
         Within(from, to, Stages), Undone \in Stages
  PROVE  /\ \A S \in Stages : Past(pc', S) = Past(pc, S) /\ At(pc', S) = At(pc, S)
         /\ DoneAps(pc') = DoneAps(pc)
  BY SMT, PastMoves, DoneMoves DEF Within

(* One more, one fewer. *)
LEMMA OneMore ==
  ASSUME NEW S, IsFiniteSet(S), NEW c
  PROVE  /\ c \notin S => Cardinality(S \cup {c}) = Cardinality(S) + 1
         /\ c \in S => Cardinality(S \ {c}) = Cardinality(S) - 1
  BY FS_AddElement, FS_RemoveElement

(* The sum stays in balance, and is exact at the end. *)
LEMMA Balances ==
  ASSUME NEW s \in Nat, NEW r \in Nat, NEW t \in Nat, Balance(s, r, t)
  PROVE  /\ Balance(s + r, r + 1, t)
         /\ t < POST_TASKS => Balance(s + t, r, t + 1)
         /\ t >= POST_TASKS => Balance(s, r, t + 1)
         /\ r = Workers /\ t >= POST_TASKS => s = (POST_TASKS * (POST_TASKS - 1)) \div 2
  <1>1. /\ POST_TASKS \in Nat /\ Workers \in Nat /\ Tri(Workers) \in Int /\ Tri(r) \in Int
        /\ Tri(t) \in Int /\ Tri(POST_TASKS) \in Int
    BY SMT, PostFirmwareAssumption, CountsAreFinite DEF Tri
  <1>2. \A n \in Nat : Tri(n + 1) = Tri(n) + 2 * n
    BY SMT DEF Tri
  <1>3. t < POST_TASKS => Least(t, POST_TASKS) = t /\ Least(t + 1, POST_TASKS) = t + 1
    BY SMT, <1>1 DEF Least
  <1>4. t >= POST_TASKS => Least(t, POST_TASKS) = POST_TASKS /\ Least(t + 1, POST_TASKS) = POST_TASKS
    BY SMT, <1>1 DEF Least
  <1>5. ASSUME r = Workers, t >= POST_TASKS PROVE 2 * s = Tri(POST_TASKS)
    <2>1. Tri(r) = Tri(Workers) /\ Tri(Least(t, POST_TASKS)) = Tri(POST_TASKS)
      BY <1>4, <1>5
    <2>2. 2 * s + Tri(Workers) = Tri(r) + Tri(Least(t, POST_TASKS))
      BY DEF Balance
    <2>3. \A y, z \in Int : 2 * s + y = y + z => 2 * s = z
      BY SMT
    <2> QED
      BY <1>1, <2>1, <2>2, <2>3
  <1>6. Tri(POST_TASKS) = POST_TASKS * (POST_TASKS - 1)
    BY DEF Tri
  <1>7. Tri(Least(t, POST_TASKS)) \in Int
    BY SMTT(30), <1>1, <1>3, <1>4
  <1>8. Balance(s + r, r + 1, t)
    BY SMT, <1>1, <1>2, <1>7 DEF Balance
  <1>9. t < POST_TASKS => Balance(s + t, r, t + 1)
    BY SMT, <1>1, <1>2, <1>3 DEF Balance
  <1>10. t >= POST_TASKS => Balance(s, r, t + 1)
    BY <1>1, <1>4 DEF Balance
  <1>11. 2 * s = Tri(POST_TASKS) => s = Tri(POST_TASKS) \div 2
    BY SMT, <1>1
  <1> QED
    BY <1>5, <1>6, <1>8, <1>9, <1>10, <1>11

(* The seeds are given out in order, and there is one for every CPU. *)
LEMMA CountSeed == ASSUME CountInv, NEW c \in Cpus, seed(c) PROVE CountInv'
  <1>1. pc[c] = "seed" /\ m.EXPECTED = Workers /\ Tallies
    BY AtWork DEF seed, Step, Waiting, Preparing, Errors
  <1>2. c \notin Past(pc, Unseeded) /\ Past(pc, Unseeded) \cup {c} \subseteq Cpus
    BY <1>1, Boundaries DEF Past, Leaves
  <1>3. Cardinality(Past(pc, Unseeded) \cup {c}) = m.TASK_READY + 1
    BY SMTT(30), <1>1, <1>2, OneMore, CountsAreFinite DEF Tallies
  <1>4. m.TASK_READY + 1 <= Workers
    BY SMTT(30), <1>2, <1>3, FS_Subset, CountsAreFinite DEF Workers
  <1>5. m.TASK_READY \in Nat /\ m.SUM \in Nat /\ m.NEXT_TASK \in Nat /\ Workers \in Nat
    BY SMT, <1>1, CountsAreFinite DEF Tallies, CountInv, CountTypes
  <1>6. /\ Moves(c, "seed", "active") /\ UNCHANGED <<pte, tlb>>
        /\ m' = [m EXCEPT !.TASK_READY = m.TASK_READY + 1, !.SUM = @ + m.TASK_READY,
                          !.WORKERS = @ \cup {c}]
    BY SMTT(30), <1>1, <1>4, <1>5 DEF seed, Step, Moves, CountInv, CountTypes, hardware
  <1>7. /\ DOMAIN m' = DOMAIN m
        /\ m'.TASK_READY = m.TASK_READY + 1 /\ m'.SUM = m.SUM + m.TASK_READY
        /\ m'.WORKERS = m.WORKERS \cup {c}
        /\ m'.EXPECTED = m.EXPECTED /\ m'.PHASE = m.PHASE /\ m'.MESSAGE_READY = m.MESSAGE_READY
        /\ m'.PAYLOAD = m.PAYLOAD /\ m'.MESSAGE_STALE = m.MESSAGE_STALE /\ m'.STALE = m.STALE
        /\ m'.NEXT_TASK = m.NEXT_TASK /\ m'.ACTIVE = m.ACTIVE /\ m'.DONE = m.DONE
        /\ m'.LOCK_ENTRIES = m.LOCK_ENTRIES /\ m'.ONCE = m.ONCE
    BY <1>6 DEF CountInv, CountTypes
  <1>8. /\ Past(pc', Unseeded) = Past(pc, Unseeded) \cup {c}
        /\ At(pc', Running) = At(pc, Running)
        /\ \A S \in {Untaken, Unentered, Unset} : Past(pc', S) = Past(pc, S)
        /\ DoneAps(pc') = DoneAps(pc)
    BY SMTT(30), <1>6, WithinKeeps, PastMoves, Boundaries DEF Leaves
  <1>9. Balance(m'.SUM, m'.TASK_READY, m'.NEXT_TASK)
    BY SMTT(30), <1>1, <1>5, <1>7, Balances DEF Tallies
  <1>10. pc'[Bsp] \notin Preparing
    BY <1>1, <1>6 DEF Tallies, Moves, Preparing
  <1>11. Tallies'
    BY <1>1, <1>3, <1>7, <1>8, <1>9, <1>10 DEF Tallies
  <1>12. m'.SUM \in Nat /\ m'.NEXT_TASK \in Nat /\ "seed" \in Working /\ "active" \in Working
    BY SMT, <1>5, <1>7 DEF Working
  <1> QED
    BY <1>6, <1>7, <1>11, <1>12, CountWork

(* A CPU counts itself active before the gate ... *)
LEMMA CountActive == ASSUME CountInv, NEW c \in Cpus, active(c) PROVE CountInv'
  <1>1. pc[c] = "active" /\ Tallies
    BY AtWork DEF active, Step, Waiting, Preparing, Errors
  <1>2. m.ACTIVE \in Nat /\ m.SUM \in Nat /\ m.NEXT_TASK \in Nat
    BY SMT, <1>1, CountsAreFinite DEF Tallies, CountInv, CountTypes
  <1>3. Moves(c, "active", "open") /\ UNCHANGED <<pte, tlb>>
    BY DEF active, Step, Moves, CountInv, CountTypes, hardware
  <1>4. /\ DOMAIN m' = DOMAIN m
        /\ m'.TASK_READY = m.TASK_READY /\ m'.SUM = m.SUM /\ m'.WORKERS = m.WORKERS
        /\ m'.EXPECTED = m.EXPECTED /\ m'.PHASE = m.PHASE /\ m'.MESSAGE_READY = m.MESSAGE_READY
        /\ m'.PAYLOAD = m.PAYLOAD /\ m'.MESSAGE_STALE = m.MESSAGE_STALE /\ m'.STALE = m.STALE
        /\ m'.NEXT_TASK = m.NEXT_TASK /\ m'.ACTIVE = m.ACTIVE + 1 /\ m'.DONE = m.DONE
        /\ m'.LOCK_ENTRIES = m.LOCK_ENTRIES /\ m'.ONCE = m.ONCE
    BY DEF active, CountInv, CountTypes
  <1>5. /\ c \notin At(pc, Running) /\ At(pc', Running) = At(pc, Running) \cup {c}
        /\ \A S \in {Unseeded, Untaken, Unentered, Unset} : Past(pc', S) = Past(pc, S)
        /\ DoneAps(pc') = DoneAps(pc)
    BY SMTT(30), <1>3, WithinKeeps, PastMoves, Boundaries DEF Leaves
  <1>6. m'.ACTIVE = Cardinality(At(pc', Running))
    BY SMTT(30), <1>1, <1>4, <1>5, OneMore, CountsAreFinite DEF Tallies
  <1>7. Tallies'
    BY SMTT(30), <1>1, <1>3, <1>4, <1>5, <1>6 DEF Tallies, Moves, Preparing
  <1>8. m'.SUM \in Nat /\ m'.NEXT_TASK \in Nat /\ "active" \in Working /\ "open" \in Working
    BY <1>2, <1>4 DEF Working
  <1> QED
    BY <1>3, <1>4, <1>7, <1>8, CountWork

(* ... and no longer when it has left the tasks. *)
LEMMA CountLeave == ASSUME CountInv, NEW c \in Cpus, leave(c) PROVE CountInv'
  <1>1. pc[c] = "leave" /\ Tallies
    BY AtWork DEF leave, Step, Waiting, Preparing, Errors
  <1>2. m.ACTIVE \in Nat /\ m.SUM \in Nat /\ m.NEXT_TASK \in Nat
    BY SMT, <1>1, CountsAreFinite DEF Tallies, CountInv, CountTypes
  <1>3. Moves(c, "leave", "ticket") /\ UNCHANGED <<pte, tlb>>
    BY DEF leave, Step, Moves, CountInv, CountTypes, hardware
  <1>4. /\ DOMAIN m' = DOMAIN m
        /\ m'.TASK_READY = m.TASK_READY /\ m'.SUM = m.SUM /\ m'.WORKERS = m.WORKERS
        /\ m'.EXPECTED = m.EXPECTED /\ m'.PHASE = m.PHASE /\ m'.MESSAGE_READY = m.MESSAGE_READY
        /\ m'.PAYLOAD = m.PAYLOAD /\ m'.MESSAGE_STALE = m.MESSAGE_STALE /\ m'.STALE = m.STALE
        /\ m'.NEXT_TASK = m.NEXT_TASK /\ m'.ACTIVE = m.ACTIVE - 1 /\ m'.DONE = m.DONE
        /\ m'.LOCK_ENTRIES = m.LOCK_ENTRIES /\ m'.ONCE = m.ONCE
    BY DEF leave, CountInv, CountTypes
  <1>5. /\ c \in At(pc, Running) /\ At(pc', Running) = At(pc, Running) \ {c}
        /\ \A S \in {Unseeded, Untaken, Unentered, Unset} : Past(pc', S) = Past(pc, S)
        /\ DoneAps(pc') = DoneAps(pc)
    BY SMTT(30), <1>3, WithinKeeps, PastMoves, Boundaries DEF Leaves
  <1>6. m'.ACTIVE = Cardinality(At(pc', Running))
    BY SMTT(30), <1>1, <1>4, <1>5, OneMore, CountsAreFinite DEF Tallies
  <1>7. Tallies'
    BY SMTT(30), <1>1, <1>3, <1>4, <1>5, <1>6 DEF Tallies, Moves, Preparing
  <1>8. m'.SUM \in Nat /\ m'.NEXT_TASK \in Nat /\ "leave" \in Working /\ "ticket" \in Working
    BY <1>2, <1>4 DEF Working
  <1> QED
    BY <1>3, <1>4, <1>7, <1>8, CountWork

(* A task is added by the CPU that took its number, and by no other. *)
LEMMA CountTake == ASSUME CountInv, NEW c \in Cpus, take(c) PROVE CountInv'
  <1>1. pc[c] = "take" /\ Tallies
    BY AtWork DEF take, Step, Waiting, Preparing, Errors
  <1>2. /\ m.TASK_READY \in Nat /\ m.SUM \in Nat /\ m.NEXT_TASK \in Nat /\ Workers \in Nat
        /\ POST_TASKS \in Nat
    BY SMTT(30), <1>1, CountsAreFinite, PostFirmwareAssumption DEF Tallies, CountInv, CountTypes
  <1>3. /\ DOMAIN m' = DOMAIN m
        /\ m'.TASK_READY = m.TASK_READY /\ m'.WORKERS = m.WORKERS
        /\ m'.EXPECTED = m.EXPECTED /\ m'.PHASE = m.PHASE /\ m'.MESSAGE_READY = m.MESSAGE_READY
        /\ m'.PAYLOAD = m.PAYLOAD /\ m'.MESSAGE_STALE = m.MESSAGE_STALE /\ m'.STALE = m.STALE
        /\ m'.NEXT_TASK = m.NEXT_TASK + 1 /\ m'.ACTIVE = m.ACTIVE /\ m'.DONE = m.DONE
        /\ m'.LOCK_ENTRIES = m.LOCK_ENTRIES /\ m'.ONCE = m.ONCE
        /\ m'.SUM = IF m.NEXT_TASK >= POST_TASKS THEN m.SUM ELSE m.SUM + m.NEXT_TASK
    BY DEF take, CountInv, CountTypes
  <1>4. PICK to \in {"take", "leave"} :
          /\ Moves(c, "take", to) /\ UNCHANGED <<pte, tlb>>
          /\ to = "leave" => m.NEXT_TASK >= POST_TASKS
    BY DEF take, Step, Moves, CountInv, CountTypes, hardware
  <1>5. /\ At(pc', Running) = At(pc, Running)
        /\ \A S \in {Unseeded, Unentered, Unset} : Past(pc', S) = Past(pc, S)
        /\ to = "take" => Past(pc', Untaken) = Past(pc, Untaken)
        /\ DoneAps(pc') = DoneAps(pc)
    <2>1. CASE to = "take"
      BY SMTT(30), <1>4, <2>1, PastMoves, DoneMoves
    <2>2. CASE to = "leave"
      BY SMTT(30), <1>4, <2>2, WithinKeeps, Boundaries
    <2> QED
      BY <2>1, <2>2
  <1>6. Balance(m'.SUM, m'.TASK_READY, m'.NEXT_TASK)
    BY SMTT(30), <1>1, <1>2, <1>3, Balances DEF Tallies
  <1>7. m'.NEXT_TASK >= Workers /\ (Past(pc', Untaken) # {} => m'.NEXT_TASK >= POST_TASKS)
    BY SMTT(30), <1>1, <1>2, <1>3, <1>4, <1>5 DEF Tallies
  <1>8. Tallies'
    BY SMTT(30), <1>1, <1>3, <1>4, <1>5, <1>6, <1>7 DEF Tallies, Moves, Preparing
  <1>9. m'.SUM \in Nat /\ m'.NEXT_TASK \in Nat /\ "take" \in Working /\ to \in Working
    BY SMT, <1>2, <1>3 DEF Working
  <1> QED
    BY <1>3, <1>4, <1>8, <1>9, CountWork

(* A CPU enters the lock once. *)
LEMMA CountEnter == ASSUME CountInv, NEW c \in Cpus, enter(c) PROVE CountInv'
  <1>1. pc[c] = "enter" /\ Tallies
    BY AtWork DEF enter, Step, Waiting, Preparing, Errors
  <1>2. m.LOCK_ENTRIES \in Nat /\ m.SUM \in Nat /\ m.NEXT_TASK \in Nat
    BY SMT, <1>1, CountsAreFinite DEF Tallies, CountInv, CountTypes
  <1>3. Moves(c, "enter", "unlock") /\ UNCHANGED <<pte, tlb>>
    BY DEF enter, Step, Moves, CountInv, CountTypes, hardware
  <1>4. /\ DOMAIN m' = DOMAIN m
        /\ m'.TASK_READY = m.TASK_READY /\ m'.SUM = m.SUM /\ m'.WORKERS = m.WORKERS
        /\ m'.EXPECTED = m.EXPECTED /\ m'.PHASE = m.PHASE /\ m'.MESSAGE_READY = m.MESSAGE_READY
        /\ m'.PAYLOAD = m.PAYLOAD /\ m'.MESSAGE_STALE = m.MESSAGE_STALE /\ m'.STALE = m.STALE
        /\ m'.NEXT_TASK = m.NEXT_TASK /\ m'.ACTIVE = m.ACTIVE /\ m'.DONE = m.DONE
        /\ m'.LOCK_ENTRIES = m.LOCK_ENTRIES + 1 /\ m'.ONCE = m.ONCE
    BY DEF enter, CountInv, CountTypes
  <1>5. /\ c \notin Past(pc, Unentered) /\ Past(pc', Unentered) = Past(pc, Unentered) \cup {c}
        /\ \A S \in {Unseeded, Untaken, Unset} : Past(pc', S) = Past(pc, S)
        /\ At(pc', Running) = At(pc, Running) /\ DoneAps(pc') = DoneAps(pc)
    BY SMTT(30), <1>3, WithinKeeps, PastMoves, Boundaries DEF Leaves
  <1>6. m'.LOCK_ENTRIES = Cardinality(Past(pc', Unentered))
    BY SMTT(30), <1>1, <1>4, <1>5, OneMore, CountsAreFinite DEF Tallies
  <1>7. Tallies'
    BY SMTT(30), <1>1, <1>3, <1>4, <1>5, <1>6 DEF Tallies, Moves, Preparing
  <1>8. m'.SUM \in Nat /\ m'.NEXT_TASK \in Nat /\ "enter" \in Working /\ "unlock" \in Working
    BY <1>2, <1>4 DEF Working
  <1> QED
    BY <1>3, <1>4, <1>7, <1>8, CountWork

(* The cell is set when the first CPU has passed it. *)
LEMMA CountOnce == ASSUME CountInv, NEW c \in Cpus, once(c) PROVE CountInv'
  <1>1. pc[c] = "once" /\ Tallies
    BY AtWork DEF once, Step, Waiting, Preparing, Errors
  <1>2. m.SUM \in Nat /\ m.NEXT_TASK \in Nat
    BY DEF CountInv, CountTypes
  <1>3. Moves(c, "once", "probe_pre") /\ UNCHANGED <<pte, tlb>>
    BY DEF once, Step, Moves, CountInv, CountTypes, hardware
  <1>4. /\ DOMAIN m' = DOMAIN m
        /\ m'.TASK_READY = m.TASK_READY /\ m'.SUM = m.SUM /\ m'.WORKERS = m.WORKERS
        /\ m'.EXPECTED = m.EXPECTED /\ m'.PHASE = m.PHASE /\ m'.MESSAGE_READY = m.MESSAGE_READY
        /\ m'.PAYLOAD = m.PAYLOAD /\ m'.MESSAGE_STALE = m.MESSAGE_STALE /\ m'.STALE = m.STALE
        /\ m'.NEXT_TASK = m.NEXT_TASK /\ m'.ACTIVE = m.ACTIVE /\ m'.DONE = m.DONE
        /\ m'.LOCK_ENTRIES = m.LOCK_ENTRIES /\ m'.ONCE # "unset"
    BY PostFirmwareAssumption DEF once, CountInv, CountTypes
  <1>5. /\ \A S \in {Unseeded, Untaken, Unentered} : Past(pc', S) = Past(pc, S)
        /\ At(pc', Running) = At(pc, Running) /\ DoneAps(pc') = DoneAps(pc)
    BY SMTT(30), <1>3, WithinKeeps, Boundaries
  <1>6. Tallies'
    BY SMTT(30), <1>1, <1>3, <1>4, <1>5 DEF Tallies, Moves, Preparing
  <1>7. m'.SUM \in Nat /\ m'.NEXT_TASK \in Nat /\ "once" \in Working /\ "probe_pre" \in Working
    BY <1>2, <1>4 DEF Working
  <1> QED
    BY <1>3, <1>4, <1>6, <1>7, CountWork

(* A probe sees the page the mapping points to: page A before the remap,   *)
(* which waits for every probe, and page B after the shootdown.            *)
LEMMA CountProbe ==
  ASSUME ShootInv, CountInv, NEW c \in Cpus, probe_pre(c) \/ probe_post(c) PROVE CountInv'
  <1>1. CASE probe_pre(c)
    <2>1. pc[c] = "probe_pre" /\ Moves(c, "probe_pre", "mask_pre")
      BY <1>1, StepMoves DEF probe_pre, Probe, Step
    <2>2. "probe_pre" \in Undone /\ "probe_pre" \in Unprobed
      BY DEF Undone, Unprobed
    <2>3. pte = "A"
      BY <2>1, <2>2 DEF CountInv, CountTypes, CountFacts, DoneAps
    <2>4. Observed(c) = "A"
      BY <2>3 DEF CountInv, CountTypes, CountFacts, Observed
    <2>5. Kept /\ TlbsLoad
      BY <1>1, <2>4 DEF probe_pre, Probe, Observed, Kept, TlbsLoad, CountInv, CountTypes
    <2>6. /\ SameStage("probe_pre", "mask_pre") /\ StageKept("probe_pre", "mask_pre")
          /\ "probe_pre" \in Undone /\ "mask_pre" \in Undone
      BY DEF SameStage, StageKept, Unseeded, Running, Untaken, Unentered, Unset, Unprobed, Undone,
             Preparing, Errors, AfterDone, GoneSteps
    <2> QED
      BY <2>1, <2>5, <2>6, CountMove DEF Waiting
  <1>2. CASE probe_post(c)
    <2>1. pc[c] = "probe_post" /\ Moves(c, "probe_post", "mask_post")
      BY <1>2, StepMoves DEF probe_post, Probe, Step
    <2>2. AllGone
      BY <2>1 DEF ShootInv, ShootFacts, CountInv, CountFacts, GoneSteps
    <2>3. Observed(c) = "B"
      BY <2>2 DEF CountInv, CountTypes, Observed, AllGone
    <2>4. Kept /\ TlbsLoad
      BY <1>2, <2>3 DEF probe_post, Probe, Observed, Kept, TlbsLoad, CountInv, CountTypes
    <2>5. /\ SameStage("probe_post", "mask_post") /\ StageKept("probe_post", "mask_post")
          /\ "probe_post" \notin Undone /\ "mask_post" \notin Undone
      BY DEF SameStage, StageKept, Unseeded, Running, Untaken, Unentered, Unset, Unprobed, Undone,
             Preparing, Errors, AfterDone, GoneSteps
    <2> QED
      BY <2>1, <2>4, <2>5, CountMove DEF Waiting
  <1> QED
    BY <1>1, <1>2

(* The other steps, in the order of the code. *)
Plain(from, to) ==
  /\ SameStage(from, to) /\ StageKept(from, to)
  /\ from \in Undone <=> to \in Undone
  /\ from \in Waiting => to \in Waiting
  /\ to # "probe_post"

(* The moves of worker at which no tally changes. *)
LEMMA PlainWorkerSteps ==
  /\ Plain("message", "message_mask") /\ Plain("message_mask", "seed")
  /\ Plain("open", "gate") /\ Plain("gate", "take")
  /\ Plain("ticket", "spin") /\ Plain("spin", "enter") /\ Plain("unlock", "once")
  /\ Plain("mask_pre", "done")
  /\ Plain("mask_post", "await_post") /\ Plain("mask_post", "arm") /\ Plain("arm", "deadline")
  /\ Plain("deadline", "poll") /\ Plain("deadline", "idle") /\ Plain("deadline", "fallback")
  /\ Plain("fallback", "poll") /\ Plain("fallback", "idle")
  BY DEF Plain, SameStage, StageKept, Unseeded, Running, Untaken, Unentered, Unset, Unprobed,
         Undone, Preparing, Errors, AfterDone, GoneSteps, Waiting

(* A move at which no tally changes keeps the invariant when the counters  *)
(* and the translations stay.                                              *)
LEMMA PlainMove ==
  ASSUME CountInv, NEW c \in Cpus, NEW from, NEW to, Step(c, from, to), Plain(from, to),
         Kept, UNCHANGED <<pte, tlb>>
  PROVE CountInv'
  <1>1. Moves(c, from, to)
    BY DEF Step, Moves, CountInv, CountTypes
  <1>2. TlbsLoad
    BY DEF TlbsLoad, CountInv, CountTypes
  <1> QED
    BY <1>1, <1>2, CountMove DEF Plain

(* Each step of worker keeps the counters' invariant: those that count     *)
(* are the lemmas above, the others move within a stage.                   *)
LEMMA CountWorker == ASSUME ShootInv, CountInv, NEW c \in Cpus, worker(c) PROVE CountInv'
  <1> USE PlainMove, PlainWorkerSteps DEF local, hardware
  <1>1. m' = m => Kept
    BY DEF Kept
  <1>2. CASE message(c)
    <2>1. m' = m
      BY <1>2 DEF message, CountInv, CountFacts
    <2> QED
      BY <1>1, <1>2, <2>1 DEF message
  <1>3. CASE message_mask(c)
    <2>1. Kept
      BY SMT, <1>3 DEF message_mask, Kept
    <2> QED
      BY <1>3, <2>1 DEF message_mask
  <1>4. CASE open(c)
    <2>1. Kept
      BY SMT, <1>4 DEF open, Kept
    <2> QED
      BY <1>4, <2>1 DEF open
  <1>5. CASE gate(c)
    BY <1>1, <1>5 DEF gate
  <1>6. CASE ticket(c)
    <2>1. Kept
      BY SMT, <1>6 DEF ticket, Kept
    <2> QED
      BY <1>6, <2>1 DEF ticket
  <1>7. CASE spin(c)
    BY <1>1, <1>7 DEF spin
  <1>8. CASE unlock(c)
    <2>1. Kept
      BY SMT, <1>8 DEF unlock, Kept
    <2> QED
      BY <1>8, <2>1 DEF unlock
  <1>9. CASE mask_pre(c)
    <2>1. Kept
      BY SMT, <1>9 DEF mask_pre, Kept
    <2>2. CASE c # Bsp
      BY <1>9, <2>1, <2>2 DEF mask_pre
    <2>3. CASE c = Bsp
      <3>1. Moves(Bsp, "mask_pre", "await_done") /\ TlbsLoad
        BY <1>9, <2>3 DEF mask_pre, Step, Moves, CountInv, CountTypes, TlbsLoad
      <3>2. SameStage("mask_pre", "await_done") /\ StageKept("mask_pre", "await_done")
        BY DEF SameStage, StageKept, Unseeded, Running, Untaken, Unentered, Unset, Unprobed,
               Preparing, Errors, AfterDone, GoneSteps
      <3> QED
        BY <2>1, <3>1, <3>2, CountMove
    <2> QED
      BY <2>2, <2>3
  <1>10. CASE mask_post(c)
    <2>1. Kept
      BY SMT, <1>10 DEF mask_post, Kept
    <2> QED
      BY <1>10, <2>1 DEF mask_post
  <1>11. CASE arm(c)
    BY <1>1, <1>11 DEF arm
  <1>12. CASE deadline(c)
    BY <1>1, <1>12 DEF deadline, AfterTimer
  <1>13. CASE fallback(c)
    BY <1>1, <1>13 DEF fallback, AfterTimer
  <1> QED
    BY <1>2, <1>3, <1>4, <1>5, <1>6, <1>7, <1>8, <1>9, <1>10, <1>11, <1>12, <1>13,
       CountSeed, CountActive, CountLeave, CountTake, CountEnter, CountOnce, CountProbe
    DEF worker

(* The AP counts itself done when it is beyond everything run looks at. *)
LEMMA CountDone == ASSUME CountInv, NEW a \in Aps, done(a) PROVE CountInv'
  <1>1. pc[a] = "done" /\ Tallies /\ m.EXPECTED # 0
    BY AtWork DEF done, Step, Waiting, Preparing, Errors
  <1>2. Moves(a, "done", "phase_2") /\ UNCHANGED <<pte, tlb>>
    BY DEF done, Step, Moves, CountInv, CountTypes, hardware
  <1>3. /\ DOMAIN m' = DOMAIN m
        /\ m'.TASK_READY = m.TASK_READY /\ m'.SUM = m.SUM /\ m'.WORKERS = m.WORKERS
        /\ m'.EXPECTED = m.EXPECTED /\ m'.PHASE = m.PHASE /\ m'.MESSAGE_READY = m.MESSAGE_READY
        /\ m'.PAYLOAD = m.PAYLOAD /\ m'.MESSAGE_STALE = m.MESSAGE_STALE /\ m'.STALE = m.STALE
        /\ m'.NEXT_TASK = m.NEXT_TASK /\ m'.ACTIVE = m.ACTIVE /\ m'.DONE = m.DONE + 1
        /\ m'.LOCK_ENTRIES = m.LOCK_ENTRIES /\ m'.ONCE = m.ONCE
    BY DEF done, CountInv, CountTypes
  <1>4. SameStage("done", "phase_2") /\ "done" \in Undone /\ "phase_2" \notin Undone
    BY DEF SameStage, Unseeded, Running, Untaken, Unentered, Unset, Unprobed, Undone
  <1>5. /\ \A S \in {Unseeded, Untaken, Unentered, Unset} : Past(pc', S) = Past(pc, S)
        /\ At(pc', Running) = At(pc, Running)
    BY SMTT(30), <1>2, <1>4, PastMoves DEF SameStage
  <1>6. a \notin DoneAps(pc) /\ DoneAps(pc') = DoneAps(pc) \cup {a}
    BY <1>2, <1>4 DEF Moves, DoneAps
  <1>7. m'.DONE = Cardinality(DoneAps(pc'))
    BY SMTT(30), <1>1, <1>3, <1>6, OneMore, CountsAreFinite DEF Tallies
  <1>8. pc'[Bsp] = pc[Bsp]
    BY <1>2, PostFirmwareAssumption DEF Moves
  <1>9. Tallies'
    BY <1>1, <1>3, <1>5, <1>7, <1>8 DEF Tallies
  <1>10. CountTypes'
    BY <1>2, <1>3 DEF CountInv, CountTypes, Moves
  <1>11. pc[Bsp] \notin AfterDone /\ pte # "B"
    BY <1>6 DEF CountInv, CountFacts
  <1>12. /\ m'.PHASE = 0 => \A b \in Aps : pc'[b] \in Waiting
         /\ \A b \in Aps : pc'[b] = "probe_post" => m'.PHASE = 2
    BY <1>2, <1>3 DEF CountInv, CountFacts, Moves, Waiting
  <1> QED
    BY SMTT(30), <1>1, <1>2, <1>3, <1>8, <1>9, <1>10, <1>11, <1>12 DEF CountInv, CountFacts

(* The moves of an AP at which no tally changes. *)
LEMMA PlainApSteps ==
  /\ Plain("cpu_local", "online") /\ Plain("cpu_local", "halted") /\ Plain("online", "ready")
  /\ Plain("ready", "phase_1") /\ Plain("fallback", "idle")
  /\ SameStage("phase_1", "message") /\ "phase_1" \in Undone /\ "message" \in Undone
  /\ SameStage("phase_2", "probe_post") /\ "phase_2" \notin Undone /\ "probe_post" \notin Undone
  BY DEF Plain, SameStage, StageKept, Unseeded, Running, Untaken, Unentered, Unset, Unprobed,
         Undone, Preparing, Errors, AfterDone, GoneSteps, Waiting

(* Each step of an AP keeps the counters' invariant. *)
LEMMA CountAp ==
  ASSUME ShootInv, CountInv, NEW a \in Aps, thermite_ap_rust_entry(a) PROVE CountInv'
  <1>1. CASE worker(a)
    BY <1>1, CountWorker
  <1> USE PlainApSteps DEF local, hardware
  <1>2. m' = m => Kept
    BY DEF Kept
  <1>3. CASE cpu_local(a)
    <2>1. Kept
      BY SMT, <1>3 DEF cpu_local, Kept
    <2> QED
      BY <1>3, <2>1, PlainMove DEF cpu_local
  <1>4. CASE setup_fails(a)
    <2>1. m' = [m EXCEPT !.CPU_LOCAL = @ \cup {a}] => Kept
      BY SMT DEF Kept
    <2>2. Kept
      BY <1>2, <1>4, <2>1 DEF setup_fails
    <2> QED
      BY <1>4, <2>2, PlainMove DEF setup_fails
  <1>5. CASE online(a)
    <2>1. Kept
      BY SMT, <1>5 DEF online, Kept
    <2> QED
      BY <1>5, <2>1, PlainMove DEF online
  <1>6. CASE ready(a)
    <2>1. Kept
      BY SMT, <1>6 DEF ready, Kept
    <2> QED
      BY <1>6, <2>1, PlainMove DEF ready
  <1>7. CASE fallback_gives_up(a)
    BY <1>2, <1>7, PlainMove DEF fallback_gives_up
  <1>8. CASE phase_1(a)
    <2>1. Moves(a, "phase_1", "message") /\ TlbsLoad /\ m' = m /\ m.PHASE # 0 /\ a # Bsp
      BY SMTT(30), <1>8, PostFirmwareAssumption
      DEF phase_1, Step, Moves, TlbsLoad, CountInv, CountTypes
    <2> QED
      BY <1>2, <2>1, CountMove
  <1>9. CASE phase_2(a)
    <2>1. Moves(a, "phase_2", "probe_post") /\ TlbsLoad /\ m' = m /\ m.PHASE = 2 /\ a # Bsp
      BY SMTT(30), <1>9, PostFirmwareAssumption
      DEF phase_2, Step, Moves, TlbsLoad, CountInv, CountTypes
    <2> QED
      BY SMTT(30), <1>2, <2>1, CountMove
  <1> QED
    BY <1>1, <1>3, <1>4, <1>5, <1>6, <1>7, <1>8, <1>9, CountDone DEF thermite_ap_rust_entry

(* The stores before phase 1 find every CPU before its work. *)
LEMMA CountSetup == ASSUME CountInv, setup PROVE CountInv'
  <1>1. /\ Moves(Bsp, "setup", "message_ready") /\ UNCHANGED <<pte, tlb>>
    BY DEF setup, Step, Moves, CountInv, CountTypes, hardware
  <1>2. /\ DOMAIN m' = DOMAIN m
        /\ m'.TASK_READY = 0 /\ m'.SUM = 0 /\ m'.WORKERS = {} /\ m'.EXPECTED = Workers
        /\ m'.PHASE = m.PHASE /\ m'.MESSAGE_READY = m.MESSAGE_READY /\ m'.PAYLOAD = TRUE
        /\ m'.MESSAGE_STALE = m.MESSAGE_STALE /\ m'.STALE = m.STALE
        /\ m'.NEXT_TASK = Workers /\ m'.ACTIVE = 0 /\ m'.DONE = 0
        /\ m'.LOCK_ENTRIES = m.LOCK_ENTRIES
    BY DEF setup, FirstShared, CountInv, CountTypes
  <1>3. Quiet /\ \A a \in Aps : pc'[a] \in Waiting /\ pc'[a] = pc[a]
    BY <1>1, PostFirmwareAssumption
    DEF CountInv, CountTypes, CountFacts, Tallies, Preparing, Moves, Quiet
  <1>4. \A c \in Cpus : pc'[c] \in Waiting \cup {"message_ready"}
    BY <1>1, <1>3 DEF Moves
  <1>5. /\ \A S \in {Unseeded, Untaken, Unentered, Unset} : Past(pc', S) = {}
        /\ At(pc', Running) = {} /\ DoneAps(pc') = {}
    BY <1>4
    DEF Waiting, Past, At, DoneAps, Unseeded, Running, Untaken, Unentered, Unset, Unprobed, Undone
  <1>6. Cardinality({}) = 0
    BY FS_EmptySet
  <1>7. Balance(0, 0, Workers)
    <2>1. Least(Workers, POST_TASKS) = Workers
      BY SMTT(30), CountsAreFinite, PostFirmwareAssumption DEF Least
    <2>2. Tri(0) = 0 /\ Tri(Workers) \in Int
      BY SMTT(30), CountsAreFinite DEF Tri
    <2> QED
      BY SMTT(30), <2>1, <2>2 DEF Balance
  <1>8. Tallies'
    BY SMTT(30), <1>1, <1>2, <1>3, <1>5, <1>6, <1>7, CountsAreFinite DEF Tallies, Quiet, Moves, Preparing
  <1>9. CountTypes'
    BY SMTT(30), <1>1, <1>2, CountsAreFinite DEF CountInv, CountTypes, Moves
  <1>10. pc'[Bsp] \notin AfterDone /\ \A a \in Aps : pc'[a] # "probe_post"
    BY <1>1, <1>3 DEF Moves, AfterDone, GoneSteps, Waiting
  <1> QED
    BY <1>1, <1>2, <1>3, <1>8, <1>9, <1>10, CountsAreFinite DEF CountInv, CountFacts, Quiet

(* The publication of the message and the two phases. *)
LEMMA CountFlags ==
  ASSUME ShootInv, CountInv, message_ready \/ release \/ enter_phase_2 PROVE CountInv'
  <1>1. PICK from, to :
          /\ Moves(Bsp, from, to) /\ TlbsLoad /\ SameStage(from, to)
          /\ from \notin Preparing \cup Errors /\ to \notin Preparing
          /\ to \in AfterDone => from \in AfterDone
          /\ to \in Unprobed => from \in Unprobed
    <2>1. /\ SameStage("message_ready", "release") /\ SameStage("release", "message")
          /\ SameStage("phase_2", "probe_post")
      BY DEF SameStage, Unseeded, Running, Untaken, Unentered, Unset
    <2>2. /\ {"message_ready", "release", "phase_2", "message", "probe_post"}
               \cap (Preparing \cup Errors) = {}
          /\ {"release", "message"} \cap AfterDone = {} /\ "phase_2" \in AfterDone
          /\ {"message_ready", "release"} \subseteq Unprobed /\ "probe_post" \notin Unprobed
      BY DEF Preparing, Errors, AfterDone, GoneSteps, Unprobed, Unset, Unentered, Untaken, Unseeded
    <2>3. \/ Moves(Bsp, "message_ready", "release") \/ Moves(Bsp, "release", "message")
          \/ Moves(Bsp, "phase_2", "probe_post")
      BY DEF message_ready, release, enter_phase_2, Step, Moves, CountInv, CountTypes
    <2>4. TlbsLoad
      BY DEF message_ready, release, enter_phase_2, TlbsLoad, CountInv, CountTypes, hardware
    <2> QED
      BY <2>1, <2>2, <2>3, <2>4
  <1>2. /\ DOMAIN m' = DOMAIN m
        /\ m'.TASK_READY = m.TASK_READY /\ m'.SUM = m.SUM /\ m'.WORKERS = m.WORKERS
        /\ m'.EXPECTED = m.EXPECTED /\ m'.PAYLOAD = m.PAYLOAD
        /\ m'.MESSAGE_STALE = m.MESSAGE_STALE /\ m'.STALE = m.STALE
        /\ m'.NEXT_TASK = m.NEXT_TASK /\ m'.ACTIVE = m.ACTIVE /\ m'.DONE = m.DONE
        /\ m'.LOCK_ENTRIES = m.LOCK_ENTRIES /\ m'.ONCE = m.ONCE
        /\ m'.PHASE = m.PHASE \/ m'.PHASE = 2 \/ (m'.PHASE = 1 /\ pc[Bsp] = "release")
    BY SMT DEF message_ready, release, enter_phase_2, Step, CountInv, CountTypes
  <1>3. Tallies /\ m.EXPECTED # 0
    BY <1>1, CountsAreFinite DEF Moves, CountInv, CountTypes, CountFacts, Quiet
  <1>4. /\ \A S \in {Unseeded, Untaken, Unentered, Unset} : Past(pc', S) = Past(pc, S)
        /\ At(pc', Running) = At(pc, Running) /\ DoneAps(pc') = DoneAps(pc)
    BY SMTT(30), <1>1, PastMoves, DoneMoves DEF SameStage
  <1>5. Tallies'
    BY <1>1, <1>2, <1>3, <1>4 DEF Tallies, Moves
  <1>6. CountTypes'
    BY <1>1, <1>2 DEF CountInv, CountTypes, Moves, TlbsLoad
  <1>7. \A a \in Aps : pc'[a] = pc[a]
    BY <1>1, PostFirmwareAssumption DEF Moves
  <1>8. pc[Bsp] = "release" => m.PHASE # 2
    BY DEF ShootInv, ShootFacts, AllGone, CountInv, CountFacts, Unprobed, Unset, Unentered,
           Untaken, Unseeded
  <1>9. m'.PHASE = 0 => \A a \in Aps : pc'[a] \in Waiting
    BY SMTT(30), <1>2, <1>7 DEF CountInv, CountFacts
  <1>10. \A a \in Aps : pc'[a] = "probe_post" => m'.PHASE = 2
    BY <1>2, <1>7, <1>8 DEF CountInv, CountFacts
  <1>11. pc'[Bsp] \in AfterDone => DoneAps(pc') = Aps
    BY <1>1, <1>4 DEF CountInv, CountFacts, Moves
  <1>12. /\ pte' = "B" => DoneAps(pc') = Aps /\ pc'[Bsp] \notin Unprobed
         /\ pte' = "A" => \A c \in Cpus : tlb'[c] # "B"
    BY <1>1, <1>4 DEF CountInv, CountFacts, Moves, TlbsLoad
  <1>13. /\ m'.EXPECTED # 0 /\ (m'.MESSAGE_READY => m'.PAYLOAD)
         /\ m'.MESSAGE_STALE = 0 /\ m'.STALE = 0
    BY <1>2, <1>3 DEF CountInv, CountFacts, Tallies
  <1> QED
    BY <1>5, <1>6, <1>9, <1>10, <1>11, <1>12, <1>13 DEF CountInv, CountFacts

(* run goes on when every AP has counted itself done. *)
LEMMA CountAwaitDone == ASSUME CountInv, await_done PROVE CountInv'
  <1>1. Moves(Bsp, "await_done", "check") /\ UNCHANGED <<m, pte, tlb>>
    BY DEF await_done, Step, Moves, CountInv, CountTypes, hardware
  <1>2. pc[Bsp] = "await_done" /\ Tallies
    BY <1>1, AtWork DEF Moves, Waiting, Preparing, Errors
  <1>3. DoneAps(pc) = Aps
    <2>1. DoneAps(pc) \subseteq Aps
      BY DEF DoneAps
    <2>2. Cardinality(DoneAps(pc)) >= Cardinality(Aps)
      BY <1>2 DEF Tallies, await_done
    <2>3. Cardinality(DoneAps(pc)) <= Cardinality(Aps)
      BY <2>1, FS_Subset, PostFirmwareAssumption
    <2>4. Cardinality(Aps) \in Nat /\ Cardinality(DoneAps(pc)) \in Nat
      BY CountsAreFinite, FS_CardinalityType, PostFirmwareAssumption
    <2>5. Cardinality(DoneAps(pc)) = Cardinality(Aps)
      BY SMTT(30), <2>2, <2>3, <2>4
    <2> QED
      BY <2>1, <2>5, FS_Subset, PostFirmwareAssumption
  <1>4. SameStage("await_done", "check")
    BY DEF SameStage, Unseeded, Running, Untaken, Unentered, Unset
  <1>5. /\ \A S \in {Unseeded, Untaken, Unentered, Unset} : Past(pc', S) = Past(pc, S)
        /\ At(pc', Running) = At(pc, Running) /\ DoneAps(pc') = DoneAps(pc)
    BY SMTT(30), <1>1, <1>4, PastMoves, DoneMoves DEF SameStage
  <1>6. Tallies'
    BY <1>1, <1>2, <1>5 DEF Tallies, Moves, Preparing
  <1>7. CountTypes' /\ \A a \in Aps : pc'[a] = pc[a]
    BY <1>1, PostFirmwareAssumption DEF CountInv, CountTypes, Moves
  <1>8. pc'[Bsp] \notin Unprobed /\ m.EXPECTED # 0
    BY <1>1, <1>2, AtWork DEF Moves, Unprobed, Unset, Unentered, Untaken, Unseeded, Waiting,
                             Preparing, Errors
  <1> QED
    BY <1>1, <1>3, <1>5, <1>6, <1>7, <1>8 DEF CountInv, CountFacts

(* The remap comes after every probe of page A. *)
LEMMA CountRemap == ASSUME CountInv, remap PROVE CountInv'
  <1>1. Moves(Bsp, "remap", "invlpg") /\ pte' = "B" /\ UNCHANGED <<m, tlb>>
    BY DEF remap, Step, Moves, CountInv, CountTypes
  <1>2. pc[Bsp] = "remap" /\ Tallies /\ m.EXPECTED # 0
    BY <1>1, AtWork DEF Moves, Waiting, Preparing, Errors
  <1>3. SameStage("remap", "invlpg") /\ "remap" \in AfterDone /\ "invlpg" \notin Unprobed
    BY DEF SameStage, Unseeded, Running, Untaken, Unentered, Unset, Unprobed, AfterDone
  <1>4. /\ \A S \in {Unseeded, Untaken, Unentered, Unset} : Past(pc', S) = Past(pc, S)
        /\ At(pc', Running) = At(pc, Running) /\ DoneAps(pc') = DoneAps(pc)
    BY SMTT(30), <1>1, <1>3, PastMoves, DoneMoves DEF SameStage
  <1>5. Tallies'
    BY <1>1, <1>2, <1>4 DEF Tallies, Moves, Preparing
  <1>6. CountTypes' /\ \A a \in Aps : pc'[a] = pc[a]
    BY <1>1, PostFirmwareAssumption DEF CountInv, CountTypes, Moves
  <1>7. DoneAps(pc) = Aps
    BY <1>2, <1>3 DEF CountInv, CountFacts
  <1> QED
    BY <1>1, <1>2, <1>3, <1>4, <1>5, <1>6, <1>7 DEF CountInv, CountFacts, Moves

(* The moves of run at which no tally changes. *)
LEMMA PlainRunSteps ==
  /\ Plain("start", "await_online") /\ Plain("await_online", "clear_ack")
  /\ Plain("clear_ack", "send_ipi") /\ Plain("send_ipi", "send_ipi")
  /\ Plain("send_ipi", "await_ipi") /\ Plain("await_ipi", "setup")
  /\ Plain("check", "remap") /\ Plain("check", "Scheduler") /\ Plain("check", "Tlb")
  /\ Plain("reset_ack", "send_shootdown") /\ Plain("send_shootdown", "send_shootdown")
  /\ Plain("send_shootdown", "await_shootdown") /\ Plain("await_shootdown", "phase_2")
  /\ Plain("await_post", "timer_clear") /\ Plain("await_post", "Tlb")
  /\ Plain("timer_clear", "int_timer") /\ Plain("int_timer", "timer_reset")
  /\ Plain("timer_reset", "arm") /\ Plain("poll", "poll") /\ Plain("poll", "await_timer")
  /\ Plain("await_timer", "Ok") /\ Plain("invlpg", "reset_ack")
  BY DEF Plain, SameStage, StageKept, Unseeded, Running, Untaken, Unentered, Unset, Unprobed,
         Undone, Preparing, Errors, AfterDone, GoneSteps, Waiting

(* A wait that gives up does so before or after the counted work. *)
LEMMA GivesUpOutside ==
  ASSUME NEW from \in DOMAIN GivesUp
  PROVE  SameStage(from, GivesUp[from]) /\ StageKept(from, GivesUp[from])
  <1>1. GivesUp[from] \in Errors
    BY SMT DEF GivesUp, Errors
  <1>2. from \notin Undone /\ from \notin Running
    BY DEF GivesUp, Undone, Unprobed, Unset, Unentered, Untaken, Unseeded, Running
  <1>3. Errors \cap (Undone \cup Running \cup Preparing \cup AfterDone) = {}
    BY SMT DEF Errors, Undone, Unprobed, Unset, Unentered, Untaken, Unseeded, Running, Preparing,
           AfterDone, GoneSteps
  <1>4. /\ Unseeded \subseteq Undone /\ Untaken \subseteq Undone /\ Unentered \subseteq Undone
        /\ Unset \subseteq Undone /\ Unprobed \subseteq Undone
    BY DEF Undone, Unprobed, Unset, Unentered, Untaken
  <1> QED
    BY <1>1, <1>2, <1>3, <1>4 DEF SameStage, StageKept

(* Each step of run keeps the counters' invariant. *)
LEMMA CountRun == ASSUME ShootInv, CountInv, run PROVE CountInv'
  <1>1. CASE worker(Bsp)
    BY <1>1, CountWorker
  <1>2. m' = m => Kept
    BY DEF Kept
  <1>3. CASE \E a \in Aps : start_ap(a)
    <2>1. PICK a \in Aps : start_ap(a)
      BY <1>3
    <2>2. m.EXPECTED = 0 /\ Quiet /\ pc[Bsp] = "start"
      BY <2>1 DEF start_ap, CountInv, CountTypes, CountFacts, Tallies, Preparing
    <2>3. /\ DOMAIN pc' = Cpus /\ pc'[Bsp] = "start" /\ UNCHANGED <<m, pte, tlb>>
          /\ \A b \in Aps : pc'[b] = IF b = a THEN "cpu_local" ELSE pc[b]
      BY <2>1, PostFirmwareAssumption DEF start_ap, CountInv, CountTypes, hardware
    <2>4. \A b \in Aps : pc'[b] \in Waiting
      BY <2>2, <2>3 DEF Quiet, CountInv, CountFacts, Waiting
    <2>5. Quiet'
      BY <2>2, <2>3 DEF Quiet, Preparing
    <2>6. "start" \notin AfterDone /\ "probe_post" \notin Waiting
      BY DEF AfterDone, GoneSteps, Waiting
    <2> QED
      BY <2>2, <2>3, <2>4, <2>5, <2>6 DEF CountInv, CountTypes, CountFacts, Quiet
  <1>4. CASE invlpg
    <2>1. Moves(Bsp, "invlpg", "reset_ack") /\ TlbsLoad /\ m' = m
      BY <1>4 DEF invlpg, Step, Moves, CountInv, CountTypes, TlbsLoad
    <2> QED
      BY <1>2, <2>1, PlainRunSteps, CountMove DEF Plain
  <1>5. CASE bsp_gives_up
    <2>1. PICK from \in DOMAIN GivesUp : Moves(Bsp, from, GivesUp[from]) /\ TlbsLoad /\ m' = m
      BY <1>5 DEF bsp_gives_up, Step, Moves, CountInv, CountTypes, TlbsLoad, hardware
    <2> QED
      BY <1>2, <2>1, GivesUpOutside, CountMove
  <1> USE PlainMove, PlainRunSteps DEF local, hardware
  <1>6. CASE \/ LoopDone("start", "await_online") \/ LoopDone("send_ipi", "await_ipi")
             \/ LoopDone("send_shootdown", "await_shootdown") \/ LoopDone("poll", "await_timer")
    BY <1>2, <1>6 DEF LoopDone
  <1>7. CASE await_online \/ await_post \/ await_timer
    BY <1>2, <1>7 DEF await_online, await_post, await_timer
  <1>8. CASE ClearAck("clear_ack", "send_ipi") \/ ClearAck("reset_ack", "send_shootdown")
    <2>1. m' = [m EXCEPT !.ACK = {}]
      BY <1>8 DEF ClearAck
    <2>2. Kept
      BY SMT, <2>1 DEF Kept
    <2> QED
      BY <1>8, <2>2 DEF ClearAck
  <1>9. CASE \E a \in Aps : \/ Send(a, "send_ipi", "ipi") \/ Send(a, "send_shootdown", "ipi")
                            \/ Send(a, "poll", "timer") \/ poll(a)
    BY <1>2, <1>9 DEF Send, poll
  <1>10. CASE AwaitAck("await_ipi", "setup") \/ AwaitAck("await_shootdown", "phase_2")
    BY <1>2, <1>10 DEF AwaitAck
  <1>11. CASE check
    <2>1. Kept
      BY <1>11 DEF check, Kept, CountInv, CountTypes, CountFacts
    <2> QED
      BY <1>11, <2>1 DEF check
  <1>12. CASE \/ ClearTimer("timer_clear", "int_timer") \/ ClearTimer("timer_reset", "arm")
              \/ int_timer
    <2>1. \E set : m' = [m EXCEPT !.TIMER = set]
      BY <1>12 DEF ClearTimer, int_timer
    <2>2. Kept
      BY SMT, <2>1 DEF Kept
    <2> QED
      BY <1>12, <2>2 DEF ClearTimer, int_timer
  <1> QED
    BY <1>1, <1>3, <1>4, <1>5, <1>6, <1>7, <1>8, <1>9, <1>10, <1>11, <1>12, CountSetup,
       CountFlags, CountAwaitDone, CountRemap DEF run

(* Every step of every CPU, interrupts included, keeps the tallies. *)
LEMMA CountInvStep == ShootInv /\ CountInv /\ [Next]_vars => CountInv'
  <1> SUFFICES ASSUME ShootInv, CountInv, [Next]_vars PROVE CountInv'
    OBVIOUS
  <1>1. ASSUME Kept, TlbsLoad, pc' = pc PROVE CountInv'
    <2>1. CountTypes'
      BY <1>1 DEF CountInv, CountTypes, Kept, TlbsLoad
    <2>2. (Quiet => Quiet') /\ (Tallies => Tallies')
      BY <1>1 DEF Quiet, Tallies, Kept, TlbsLoad
    <2> QED
      BY <1>1, <2>1, <2>2 DEF CountInv, CountFacts, Kept, TlbsLoad
  <1>2. ASSUME NEW c \in Cpus, interrupt(c) \/ timer_fires(c) \/ tlb_loads(c)
        PROVE  pc' = pc /\ TlbsLoad
    BY <1>2 DEF interrupt, ipi_handler, ipi_ack, timer_handler, timer_fires, tlb_loads, TlbsLoad,
                CountInv, CountTypes
  <1>3. ASSUME NEW c \in Cpus, interrupt(c) \/ timer_fires(c) \/ tlb_loads(c) PROVE Kept
    <2>1. CASE m' = m
      BY <2>1 DEF Kept
    <2>2. CASE ipi_ack(c)
      BY SMT, <2>2 DEF ipi_ack, Kept
    <2>3. CASE timer_handler(c)
      BY SMT, <2>3 DEF timer_handler, Kept
    <2> QED
      BY <1>3, <2>1, <2>2, <2>3 DEF interrupt, ipi_handler, timer_fires, tlb_loads
  <1>4. CASE UNCHANGED vars
    BY <1>1, <1>4 DEF vars, Kept, TlbsLoad, CountInv, CountTypes
  <1> QED
    BY <1>1, <1>2, <1>3, <1>4, CountRun, CountAp DEF Next

(* Before the BSP starts nothing is counted. *)
LEMMA CountInvInit == Init => CountInv
  <1> SUFFICES ASSUME Init PROVE CountInv
    OBVIOUS
  <1>1. CountTypes
    BY DEF Init, CountTypes
  <1>2. m.EXPECTED = 0 /\ Quiet
    BY DEF Init, Quiet, Preparing
  <1>3. /\ \A a \in Aps : pc[a] \in Waiting /\ pc[a] # "probe_post"
        /\ pc[Bsp] \notin AfterDone /\ pte = "A"
    BY PostFirmwareAssumption DEF Init, Waiting, AfterDone, GoneSteps
  <1>4. /\ ~m.MESSAGE_READY /\ m.MESSAGE_STALE = 0 /\ m.STALE = 0
        /\ \A c \in Cpus : tlb[c] # "B"
    BY DEF Init
  <1> QED
    BY <1>1, <1>2, <1>3, <1>4 DEF CountInv, CountFacts

(* What the tallies say when run looks at the counters. *)
LEMMA CountersAtCheck == CountInv => CountersExact
  <1> SUFFICES ASSUME CountInv, pc[Bsp] = "check"
               PROVE  MessagesFresh /\ SumIsExact /\ LockAndOnce /\ m.WORKERS = Cpus /\ m.ACTIVE = 0
    BY DEF CountersExact, CountInv, CountFacts
  <1>1. Tallies
    BY AtWork DEF Waiting, Preparing, Errors
  <1>2. DoneAps(pc) = Aps
    BY DEF CountInv, CountFacts, AfterDone
  <1>3. \A c \in Cpus : pc[c] \notin Undone
    BY <1>2 DEF DoneAps, Undone, Unprobed, Unset, Unentered, Untaken, Unseeded
  <1>4. /\ \A S \in {Unseeded, Untaken, Unentered, Unset} : Past(pc, S) = Cpus
        /\ At(pc, Running) = {}
    BY <1>3 DEF Past, At, Undone, Unprobed, Unset, Unentered, Untaken, Unseeded, Running
  <1>5. m.TASK_READY = Workers /\ m.LOCK_ENTRIES = Workers /\ m.ACTIVE = 0
    BY <1>1, <1>4, FS_EmptySet DEF Tallies, Workers
  <1>6. m.NEXT_TASK >= POST_TASKS /\ m.ONCE # "unset"
    BY <1>1, <1>4 DEF Tallies
  <1>7. SumIsExact
    BY <1>1, <1>5, <1>6, Balances, CountsAreFinite
    DEF Tallies, SumIsExact, CountInv, CountTypes
  <1> QED
    BY <1>1, <1>4, <1>5, <1>6, <1>7 DEF MessagesFresh, LockAndOnce, Tallies, CountInv, CountFacts

(* CountersExact for every finite set of APs and every number of tasks     *)
(* above theirs: when run compares the counters every seed and every task  *)
(* was added once, every worker got its bit and left, and every CPU was in *)
(* the lock once, and no probe ever saw the wrong page; so neither check   *)
(* of the counters can fail.                                               *)
THEOREM CountersExactHolds == Spec => []CountersExact
  BY ShootInvInit, ShootInvStep, CountInvInit, CountInvStep, CountersAtCheck, PTL DEF Spec

===========================================================================
