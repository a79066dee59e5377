-------------------------- MODULE PostFirmwareProofs --------------------------
(***************************************************************************)
(* Proofs about the multiprocessor run, for every set of APs and with      *)
(* every fault the model has: waits that give up, APs that halt, TLBs that *)
(* load entries ahead of use.                                              *)
(***************************************************************************)
EXTENDS PostFirmware, TLAPS

(* A leaf that names no prover is for Zenon, with time to spare. *)
USE ZenonT(30)

USE DEF Cpus
-----------------------------------------------------------------------------
(* The ticket lock.  The CPUs between ticket and unlock hold different     *)
(* tickets, none served yet, and one that is inside holds the one being    *)
(* served.                                                                 *)
Queued == {"spin", "enter", "unlock"}

LockInv ==
  /\ DOMAIN pc = Cpus /\ DOMAIN reg = Cpus
  /\ {"LOCK_NEXT", "LOCK_OWNER"} \subseteq DOMAIN m
  /\ m.LOCK_NEXT \in Nat /\ m.LOCK_OWNER \in Nat /\ m.LOCK_OWNER <= m.LOCK_NEXT
  /\ \A c \in Cpus : pc[c] \in Queued =>
       reg[c] \in Nat /\ m.LOCK_OWNER <= reg[c] /\ reg[c] < m.LOCK_NEXT
  /\ \A c, d \in Cpus : pc[c] \in Queued /\ pc[d] \in Queued /\ reg[c] = reg[d] => c = d
  /\ \A c \in Cpus : pc[c] \in {"enter", "unlock"} => reg[c] = m.LOCK_OWNER

(* Steps that leave the lock alone: no CPU gets in line, and the tickets   *)
(* of those in line stay.                                                  *)
LEMMA LockFrame ==
  ASSUME LockInv,
         DOMAIN pc' = Cpus, DOMAIN reg' = Cpus,
         {"LOCK_NEXT", "LOCK_OWNER"} \subseteq DOMAIN m',
         m'.LOCK_NEXT = m.LOCK_NEXT, m'.LOCK_OWNER = m.LOCK_OWNER,
         \A c \in Cpus : pc'[c] \in Queued =>
           /\ pc[c] \in Queued /\ reg'[c] = reg[c]
           /\ pc'[c] \in {"enter", "unlock"} => reg[c] = m.LOCK_OWNER
  PROVE LockInv'
  <1>1. \A c \in Cpus : pc'[c] \in Queued =>
          reg'[c] \in Nat /\ m'.LOCK_OWNER <= reg'[c] /\ reg'[c] < m'.LOCK_NEXT
    BY DEF LockInv
  <1>2. \A c, d \in Cpus : pc'[c] \in Queued /\ pc'[d] \in Queued /\ reg'[c] = reg'[d] => c = d
    BY DEF LockInv
  <1>3. \A c \in Cpus : pc'[c] \in {"enter", "unlock"} => reg'[c] = m'.LOCK_OWNER
    BY DEF Queued
  <1> QED
    BY <1>1, <1>2, <1>3 DEF LockInv

(* No ticket is out when the BSP starts. *)
LEMMA LockInvInit == Init => LockInv
  BY SMT DEF Init, LockInv, Queued

(* A new ticket is larger than all in line. *)
LEMMA LockTicket == ASSUME LockInv, NEW c \in Cpus, ticket(c) PROVE LockInv'
  <1>1. /\ DOMAIN pc' = Cpus /\ DOMAIN reg' = Cpus
        /\ {"LOCK_NEXT", "LOCK_OWNER"} \subseteq DOMAIN m'
        /\ m'.LOCK_NEXT = m.LOCK_NEXT + 1 /\ m'.LOCK_OWNER = m.LOCK_OWNER
    BY DEF ticket, Step, LockInv
  <1>2. pc[c] \notin Queued /\ pc'[c] = "spin" /\ reg'[c] = m.LOCK_NEXT
    BY DEF ticket, Step, LockInv, Queued
  <1>3. \A d \in Cpus : d # c => pc'[d] = pc[d] /\ reg'[d] = reg[d]
    BY DEF ticket, Step, LockInv
  <1>4. \A d \in Cpus : pc'[d] \in Queued =>
          reg'[d] \in Nat /\ m'.LOCK_OWNER <= reg'[d] /\ reg'[d] < m'.LOCK_NEXT
    BY SMT, <1>1, <1>2, <1>3 DEF LockInv
  <1>5. \A d \in Cpus : d # c /\ pc'[d] \in Queued => reg'[d] # reg'[c]
    BY SMT, <1>2, <1>3 DEF LockInv
  <1>6. \A d, e \in Cpus : pc'[d] \in Queued /\ pc'[e] \in Queued /\ reg'[d] = reg'[e] => d = e
    BY <1>3, <1>5 DEF LockInv
  <1>7. \A d \in Cpus : pc'[d] \in {"enter", "unlock"} => reg'[d] = m'.LOCK_OWNER
    BY <1>1, <1>2, <1>3 DEF LockInv
  <1> QED
    BY SMT, <1>1, <1>4, <1>6, <1>7 DEF LockInv

(* Only the CPU being served passes the spin. *)
LEMMA LockSpin == ASSUME LockInv, NEW c \in Cpus, spin(c) PROVE LockInv'
  <1>1. /\ DOMAIN pc' = Cpus /\ reg' = reg /\ m' = m
        /\ pc[c] = "spin" /\ reg[c] = m.LOCK_OWNER
        /\ \A d \in Cpus : pc'[d] = IF d = c THEN "enter" ELSE pc[d]
    BY DEF spin, Served, Step, LockInv, local
  <1> QED
    BY <1>1, LockFrame DEF LockInv, Queued

(* The unlock serves the next ticket, which no CPU inside holds. *)
LEMMA LockUnlock == ASSUME LockInv, NEW c \in Cpus, unlock(c) PROVE LockInv'
  <1>1. /\ DOMAIN pc' = Cpus /\ reg' = reg
        /\ {"LOCK_NEXT", "LOCK_OWNER"} \subseteq DOMAIN m'
        /\ m'.LOCK_NEXT = m.LOCK_NEXT /\ m'.LOCK_OWNER = reg[c] + 1
    BY DEF unlock, Step, LockInv, local
  <1>2. pc[c] = "unlock" /\ pc'[c] = "once" /\ \A d \in Cpus : d # c => pc'[d] = pc[d]
    BY DEF unlock, Step, LockInv
  <1>3. reg[c] = m.LOCK_OWNER /\ reg[c] < m.LOCK_NEXT
    BY <1>2 DEF LockInv, Queued
  <1>4. \A d \in Cpus : pc'[d] \in Queued => pc[d] \in Queued /\ d # c /\ reg[d] # reg[c]
    BY <1>2 DEF LockInv, Queued
  <1>5. \A d \in Cpus : pc'[d] \in Queued =>
          reg[d] \in Nat /\ m'.LOCK_OWNER <= reg[d] /\ reg[d] < m'.LOCK_NEXT
    BY SMT, <1>1, <1>3, <1>4 DEF LockInv
  <1>6. \A d \in Cpus : pc'[d] \notin {"enter", "unlock"}
    BY <1>2, <1>3, <1>4 DEF LockInv, Queued
  <1>7. \A d, e \in Cpus : pc'[d] \in Queued /\ pc'[e] \in Queued /\ reg[d] = reg[e] => d = e
    BY <1>4 DEF LockInv
  <1> QED
    BY SMT, <1>1, <1>3, <1>5, <1>6, <1>7 DEF LockInv

(* The worker's ticket, spin, critical section and release. *)
LEMMA LockWorker == ASSUME LockInv, NEW c \in Cpus, worker(c) PROVE LockInv'
  <1> USE LockFrame DEF Step, local, Queued, LockInv
  <1>1. CASE message(c) \/ message_mask(c)
    BY SMT, <1>1 DEF message, message_mask
  <1>2. CASE seed(c)
    BY <1>2 DEF seed
  <1>3. CASE active(c)
    <2>1. /\ DOMAIN m' = DOMAIN m
          /\ m'.LOCK_NEXT = m.LOCK_NEXT /\ m'.LOCK_OWNER = m.LOCK_OWNER
      BY <1>3 DEF active
    <2> QED
      BY <1>3, <2>1 DEF active
  <1>11. CASE open(c)
    BY <1>11 DEF open
  <1>4. CASE gate(c) \/ leave(c)
    BY SMT, <1>4 DEF gate, leave
  <1>5. CASE take(c)
    BY <1>5 DEF take
  <1>6. CASE enter(c)
    BY SMT, <1>6 DEF enter
  <1>7. CASE once(c)
    BY <1>7 DEF once
  <1>8. CASE probe_pre(c) \/ probe_post(c)
    BY SMT, <1>8 DEF probe_pre, probe_post, Probe
  <1>9. CASE mask_pre(c) \/ mask_post(c)
    BY SMT, <1>9 DEF mask_pre, mask_post
  <1>10. CASE arm(c) \/ deadline(c) \/ fallback(c)
    BY SMT, <1>10 DEF arm, deadline, fallback, AfterTimer
  <1> QED
    BY <1>1, <1>2, <1>3, <1>4, <1>5, <1>6, <1>7, <1>8, <1>9, <1>10, <1>11,
       LockTicket, LockSpin, LockUnlock DEF worker

(* An AP's steps, the worker's among them; the others leave the lock       *)
(* alone.                                                                  *)
LEMMA LockAp == ASSUME LockInv, NEW a \in Aps, thermite_ap_rust_entry(a) PROVE LockInv'
  <1>1. CASE worker(a)
    BY <1>1, LockWorker
  <1> USE LockFrame DEF Step, local, Queued, LockInv
  <1>2. CASE cpu_local(a) \/ online(a) \/ ready(a) \/ done(a)
    BY SMT, <1>2 DEF cpu_local, online, ready, done
  <1>3. CASE setup_fails(a)
    BY <1>3 DEF setup_fails
  <1>4. CASE phase_1(a) \/ phase_2(a) \/ fallback_gives_up(a)
    BY SMT, <1>4 DEF phase_1, phase_2, fallback_gives_up
  <1> QED
    BY <1>1, <1>2, <1>3, <1>4 DEF thermite_ap_rust_entry

(* The BSP's steps, the worker's among them; the others leave the lock     *)
(* alone.                                                                  *)
LEMMA LockRun == ASSUME LockInv, run PROVE LockInv'
  <1>1. CASE worker(Bsp)
    BY <1>1, LockWorker
  <1> USE LockFrame DEF Step, local, Queued, LockInv
  <1>2. CASE \E a \in Aps : start_ap(a)
    BY <1>2 DEF start_ap
  <1>3. CASE \/ LoopDone("start", "await_online") \/ LoopDone("send_ipi", "await_ipi")
             \/ LoopDone("send_shootdown", "await_shootdown") \/ LoopDone("poll", "await_timer")
    BY SMT, <1>3 DEF LoopDone
  <1>4. CASE await_online \/ await_done \/ await_post \/ await_timer
    BY SMT, <1>4 DEF await_online, await_done, await_post, await_timer
  <1>5. CASE ClearAck("clear_ack", "send_ipi") \/ ClearAck("reset_ack", "send_shootdown")
    BY SMT, <1>5 DEF ClearAck
  <1>6. CASE \E a \in Aps : \/ Send(a, "send_ipi", "ipi") \/ Send(a, "send_shootdown", "ipi")
                            \/ Send(a, "poll", "timer") \/ poll(a)
    BY SMT, <1>6 DEF Send, poll
  <1>7. CASE AwaitAck("await_ipi", "setup") \/ AwaitAck("await_shootdown", "phase_2")
    BY SMT, <1>7 DEF AwaitAck
  <1>8. CASE setup
    BY <1>8 DEF setup
  <1>9. CASE message_ready \/ release \/ enter_phase_2 \/ int_timer
    BY SMT, <1>9 DEF message_ready, release, enter_phase_2, int_timer
  <1>10. CASE check
    BY <1>10 DEF check
  <1>11. CASE remap \/ invlpg
    BY SMT, <1>11 DEF remap, invlpg
  <1>12. CASE ClearTimer("timer_clear", "int_timer") \/ ClearTimer("timer_reset", "arm")
    BY SMT, <1>12 DEF ClearTimer
  <1>13. CASE bsp_gives_up
    BY SMT, <1>13 DEF bsp_gives_up, GivesUp
  <1> QED
    BY <1>1, <1>2, <1>3, <1>4, <1>5, <1>6, <1>7, <1>8, <1>9, <1>10, <1>11, <1>12, <1>13 DEF run

(* Every step of every CPU, interrupts included, keeps the queue of        *)
(* tickets.                                                                *)
LEMMA LockInvStep == LockInv /\ [Next]_vars => LockInv'
  <1> SUFFICES ASSUME LockInv, [Next]_vars PROVE LockInv'
    OBVIOUS
  <1>1. ASSUME NEW c \in Cpus, interrupt(c) \/ timer_fires(c) \/ tlb_loads(c) PROVE LockInv'
    BY <1>1, LockFrame
    DEF interrupt, ipi_handler, ipi_ack, timer_handler, timer_fires, tlb_loads, local, LockInv
  <1>2. CASE UNCHANGED vars
    BY <1>2, LockFrame DEF vars, LockInv
  <1> QED
    BY <1>1, <1>2, LockRun, LockAp DEF Next

(* The ticket lock admits one CPU at a time, for any number of APs.        *)
THEOREM MutualExclusionHolds == Spec => []MutualExclusion
  <1>1. LockInv => MutualExclusion
    BY DEF LockInv, MutualExclusion, Queued
  <1> QED
    BY <1>1, LockInvInit, LockInvStep, PTL DEF Spec
-----------------------------------------------------------------------------
(* The shootdown.  Where the BSP is decides what holds of the interrupts:  *)
(* outside the two rounds none is on its way, so an acknowledgement of the *)
(* second round can only come from a handler that ran after the remap.     *)
QuietSteps ==
  {"start", "await_online", "clear_ack", "setup", "message_ready", "release", "message",
   "message_mask", "seed", "active", "open", "gate", "take", "leave", "ticket", "spin", "enter",
   "unlock", "once", "probe_pre", "mask_pre", "await_done", "check", "remap", "invlpg",
   "reset_ack"}

RemappedSteps == {"invlpg", "reset_ack", "send_shootdown", "await_shootdown"}

GoneSteps ==
  {"phase_2", "probe_post", "mask_post", "await_post", "timer_clear", "int_timer", "timer_reset",
   "arm", "deadline", "fallback", "poll", "await_timer", "Ok"}

Ipi(c) == "ipi" \in pending[c]

(* An AP of a round: not yet sent to, its interrupt pending, in its        *)
(* handler, or acknowledged.                                               *)
InRound(a) ==
  /\ a \in todo => ~Ipi(a) /\ ~handler[a] /\ a \notin m.ACK
  /\ a \in m.ACK => ~Ipi(a) /\ ~handler[a]
  /\ ~(Ipi(a) /\ handler[a])

AllGone == pte = "B" /\ \A c \in Cpus : tlb[c] # "A"

ShootDomains ==
  /\ DOMAIN pc = Cpus /\ DOMAIN tlb = Cpus /\ DOMAIN pending = Cpus /\ DOMAIN handler = Cpus
  /\ {"ACK", "PHASE"} \subseteq DOMAIN m
  /\ pc[Bsp] \in QuietSteps \cup GoneSteps \cup Errors
                 \cup {"send_ipi", "await_ipi", "send_shootdown", "await_shootdown"}

ShootFacts ==
  /\ pc[Bsp] \in QuietSteps => \A a \in Aps : ~Ipi(a) /\ ~handler[a]
  /\ pc[Bsp] \in {"send_ipi", "await_ipi", "send_shootdown", "await_shootdown"} =>
       \A a \in Aps : InRound(a)
  /\ pc[Bsp] \in RemappedSteps => pte = "B"
  /\ pc[Bsp] \in {"reset_ack", "send_shootdown", "await_shootdown"} => tlb[Bsp] # "A"
  /\ pc[Bsp] \in {"send_shootdown", "await_shootdown"} =>
       \A a \in Aps : a \in m.ACK \/ handler[a] => tlb[a] # "A"
  /\ pc[Bsp] \in GoneSteps => AllGone
  /\ m.PHASE = 2 => AllGone

ShootInv == ShootDomains /\ ShootFacts

(* Steps that leave the rounds alone: the BSP stays where it is, or within *)
(* the quiet or the last stage, and no TLB gets the old page from a new    *)
(* entry.                                                                  *)
LEMMA ShootFrame ==
  ASSUME ShootInv, ShootDomains',
         \/ pc'[Bsp] = pc[Bsp] /\ todo' = todo
         \/ pc[Bsp] \in QuietSteps \ RemappedSteps /\ pc'[Bsp] \in QuietSteps \ RemappedSteps
         \/ pc[Bsp] \in GoneSteps /\ pc'[Bsp] \in GoneSteps
         \/ pc'[Bsp] \in Errors,
         pte' = pte, handler' = handler, m'.ACK = m.ACK,
         m'.PHASE = m.PHASE \/ m'.PHASE = 1,
         \A c \in Cpus : Ipi(c)' <=> Ipi(c),
         \A c \in Cpus : tlb'[c] = tlb[c] \/ tlb'[c] = pte
  PROVE ShootInv'
  <1>1. AllGone => AllGone'
    BY DEF AllGone
  <1>2. CASE pc'[Bsp] = pc[Bsp] /\ todo' = todo
    BY SMT, <1>1, <1>2 DEF ShootInv, ShootFacts, InRound, RemappedSteps
  <1>3. CASE pc[Bsp] \in QuietSteps \ RemappedSteps /\ pc'[Bsp] \in QuietSteps \ RemappedSteps
    BY SMT, <1>1, <1>3 DEF ShootInv, ShootFacts, QuietSteps, RemappedSteps, GoneSteps
  <1>4. CASE pc[Bsp] \in GoneSteps /\ pc'[Bsp] \in GoneSteps
    BY <1>1, <1>4 DEF ShootInv, ShootFacts, QuietSteps, RemappedSteps, GoneSteps
  <1>5. CASE pc'[Bsp] \in Errors
    BY SMT, <1>1, <1>5 DEF ShootInv, ShootFacts, QuietSteps, RemappedSteps, GoneSteps, Errors
  <1> QED
    BY <1>2, <1>3, <1>4, <1>5

(* The first translation is in force everywhere at first. *)
LEMMA ShootInvInit == Init => ShootInv
  BY SMT DEF Init, ShootInv, ShootDomains, ShootFacts, QuietSteps, RemappedSteps, GoneSteps, Ipi,
         InRound, AllGone

(* What a step of CPU c does to the control state alone. *)
Moves(c, from, to) ==
  /\ DOMAIN pc' = Cpus /\ pc[c] = from /\ pc'[c] = to
  /\ \A d \in Cpus : d # c => pc'[d] = pc[d]

(* A step of CPU c moves no control state but its own. *)
LEMMA StepMoves ==
  ASSUME ShootInv, NEW c \in Cpus, NEW from, NEW to, Step(c, from, to) PROVE Moves(c, from, to)
  BY DEF ShootInv, ShootDomains, Step, Moves

(* A step of a worker in its own stage, on the BSP or on an AP. *)
LEMMA ShootMove ==
  ASSUME ShootInv, NEW c \in Cpus, NEW from, NEW to, Moves(c, from, to),
         c = Bsp => \/ from \in QuietSteps \ RemappedSteps /\ to \in QuietSteps \ RemappedSteps
                    \/ from \in GoneSteps /\ to \in GoneSteps
                    \/ to \in Errors,
         c # Bsp => todo' = todo,
         pte' = pte, handler' = handler, DOMAIN m' = DOMAIN m, m'.ACK = m.ACK,
         m'.PHASE = m.PHASE \/ m'.PHASE = 1,
         DOMAIN pending' = Cpus, \A d \in Cpus : Ipi(d)' <=> Ipi(d),
         DOMAIN tlb' = Cpus, \A d \in Cpus : tlb'[d] = tlb[d] \/ tlb'[d] = pte
  PROVE ShootInv'
  <1>1. \/ pc'[Bsp] = pc[Bsp] /\ todo' = todo
        \/ pc[Bsp] \in QuietSteps \ RemappedSteps /\ pc'[Bsp] \in QuietSteps \ RemappedSteps
        \/ pc[Bsp] \in GoneSteps /\ pc'[Bsp] \in GoneSteps
        \/ pc'[Bsp] \in Errors
    BY DEF Moves
  <1>2. ShootDomains'
    BY <1>1 DEF ShootInv, ShootDomains, Moves
  <1> QED
    BY <1>1, <1>2, ShootFrame

(* The worker's steps: what it loads into its TLB is the translation in    *)
(* force.                                                                  *)
LEMMA ShootWorker == ASSUME ShootInv, NEW c \in Cpus, worker(c) PROVE ShootInv'
  <1> USE ShootMove, StepMoves DEF QuietSteps, RemappedSteps, GoneSteps, local, hardware
  <1>1. {"ACK", "PHASE"} \subseteq DOMAIN m /\ DOMAIN tlb = Cpus /\ DOMAIN pending = Cpus
    BY DEF ShootInv, ShootDomains
  <1>2. \A d \in Cpus : pending' = pending => (Ipi(d)' <=> Ipi(d))
    BY DEF Ipi
  <1>3. CASE message(c)
    BY SMT, <1>1, <1>2, <1>3 DEF message
  <1>4. CASE message_mask(c)
    BY SMT, <1>1, <1>2, <1>4 DEF message_mask
  <1>5. CASE seed(c)
    BY SMT, <1>1, <1>2, <1>5 DEF seed
  <1>6. CASE active(c)
    BY SMT, <1>1, <1>2, <1>6 DEF active
  <1>7. CASE open(c)
    BY SMT, <1>1, <1>2, <1>7 DEF open
  <1>8. CASE gate(c)
    BY SMT, <1>1, <1>2, <1>8 DEF gate
  <1>9. CASE take(c)
    BY SMT, <1>1, <1>2, <1>9 DEF take
  <1>10. CASE leave(c)
    BY SMT, <1>1, <1>2, <1>10 DEF leave
  <1>11. CASE ticket(c)
    BY SMT, <1>1, <1>2, <1>11 DEF ticket
  <1>12. CASE spin(c)
    BY SMT, <1>1, <1>2, <1>12 DEF spin
  <1>13. CASE enter(c)
    BY SMT, <1>1, <1>2, <1>13 DEF enter
  <1>14. CASE unlock(c)
    BY SMT, <1>1, <1>2, <1>14 DEF unlock
  <1>15. CASE once(c)
    BY SMT, <1>1, <1>2, <1>15 DEF once
  <1>16. CASE probe_pre(c)
    BY SMT, <1>1, <1>2, <1>16 DEF probe_pre, Probe, Observed
  <1>17. CASE mask_pre(c)
    BY SMT, <1>1, <1>2, <1>17 DEF mask_pre
  <1>18. CASE probe_post(c)
    BY SMT, <1>1, <1>2, <1>18 DEF probe_post, Probe, Observed
  <1>19. CASE mask_post(c)
    BY SMT, <1>1, <1>2, <1>19 DEF mask_post
  <1>20. CASE arm(c)
    BY SMT, <1>1, <1>2, <1>20 DEF arm
  <1>21. CASE deadline(c)
    BY SMT, <1>1, <1>2, <1>21 DEF deadline, AfterTimer
  <1>22. CASE fallback(c)
    BY SMT, <1>1, <1>22 DEF fallback, AfterTimer, Ipi
  <1> QED
    BY <1>3, <1>4, <1>5, <1>6, <1>7, <1>8, <1>9, <1>10, <1>11, <1>12, <1>13, <1>14, <1>15,
       <1>16, <1>17, <1>18, <1>19, <1>20, <1>21, <1>22 DEF worker

(* An AP's steps, the worker's among them. *)
LEMMA ShootAp == ASSUME ShootInv, NEW a \in Aps, thermite_ap_rust_entry(a) PROVE ShootInv'
  <1>1. CASE worker(a)
    BY <1>1, ShootWorker
  <1> USE ShootMove, StepMoves, PostFirmwareAssumption DEF local, hardware
  <1>2. {"ACK", "PHASE"} \subseteq DOMAIN m /\ DOMAIN tlb = Cpus /\ DOMAIN pending = Cpus
    BY DEF ShootInv, ShootDomains
  <1>3. \A d \in Cpus : pending' = pending => (Ipi(d)' <=> Ipi(d))
    BY DEF Ipi
  <1>4. CASE cpu_local(a)
    BY <1>2, <1>3, <1>4 DEF cpu_local
  <1>5. CASE setup_fails(a)
    BY <1>2, <1>3, <1>5 DEF setup_fails
  <1>6. CASE online(a)
    BY <1>2, <1>3, <1>6 DEF online
  <1>7. CASE ready(a)
    BY <1>2, <1>3, <1>7 DEF ready
  <1>8. CASE phase_1(a)
    BY <1>2, <1>3, <1>8 DEF phase_1
  <1>9. CASE done(a)
    BY <1>2, <1>3, <1>9 DEF done
  <1>10. CASE phase_2(a)
    BY <1>2, <1>3, <1>10 DEF phase_2
  <1>11. CASE fallback_gives_up(a)
    BY <1>2, <1>3, <1>11 DEF fallback_gives_up
  <1> QED
    BY <1>1, <1>4, <1>5, <1>6, <1>7, <1>8, <1>9, <1>10, <1>11 DEF thermite_ap_rust_entry

(* A round starts with nothing on its way and an empty mask ... *)
LEMMA ShootClearAck ==
  ASSUME ShootInv,
         ClearAck("clear_ack", "send_ipi") \/ ClearAck("reset_ack", "send_shootdown")
  PROVE ShootInv'
  <1>1. /\ \/ Moves(Bsp, "clear_ack", "send_ipi") \/ Moves(Bsp, "reset_ack", "send_shootdown")
        /\ m'.ACK = {} /\ m'.PHASE = m.PHASE /\ DOMAIN m' = DOMAIN m
        /\ UNCHANGED hardware
    BY StepMoves DEF ClearAck, ShootInv, ShootDomains
  <1>2. \A a \in Aps : InRound(a)'
    BY <1>1 DEF hardware, ShootInv, ShootFacts, InRound, Ipi, QuietSteps, Moves
  <1>3. AllGone' <=> AllGone
    BY <1>1 DEF hardware, AllGone
  <1>4. ShootDomains'
    BY <1>1 DEF hardware, ShootInv, ShootDomains, Moves
  <1> QED
    BY <1>1, <1>2, <1>3, <1>4
    DEF hardware, ShootInv, ShootFacts, Moves, QuietSteps, RemappedSteps, GoneSteps

(* ... sends to one AP after the other ... *)
LEMMA ShootSend ==
  ASSUME ShootInv, NEW a \in Aps,
         Send(a, "send_ipi", "ipi") \/ Send(a, "send_shootdown", "ipi")
  PROVE ShootInv'
  <1>1. /\ \/ Moves(Bsp, "send_ipi", "send_ipi")
           \/ Moves(Bsp, "send_shootdown", "send_shootdown")
        /\ a \in todo /\ todo' = todo \ {a}
        /\ UNCHANGED <<m, pte, tlb, handler>>
        /\ DOMAIN pending' = Cpus
        /\ \A c \in Cpus : Ipi(c)' <=> c = a \/ Ipi(c)
    BY StepMoves DEF Send, ShootInv, ShootDomains, Ipi
  <1>2. \A b \in Aps : InRound(b)'
    BY <1>1 DEF ShootInv, ShootFacts, InRound, Moves
  <1>3. AllGone' <=> AllGone
    BY <1>1 DEF AllGone
  <1>4. ShootDomains'
    BY <1>1 DEF ShootInv, ShootDomains, Moves
  <1> QED
    BY <1>1, <1>2, <1>3, <1>4
    DEF ShootInv, ShootFacts, Moves, QuietSteps, RemappedSteps, GoneSteps

(* ... and ends when every AP has acknowledged, with nothing on its way;   *)
(* the second round ends with the old page gone.                           *)
LEMMA ShootRoundEnds ==
  ASSUME ShootInv,
         \/ LoopDone("send_ipi", "await_ipi") \/ AwaitAck("await_ipi", "setup")
         \/ LoopDone("send_shootdown", "await_shootdown")
         \/ AwaitAck("await_shootdown", "phase_2")
  PROVE ShootInv'
  <1>1. /\ \/ Moves(Bsp, "send_ipi", "await_ipi")
           \/ Moves(Bsp, "await_ipi", "setup") /\ Aps \subseteq m.ACK
           \/ Moves(Bsp, "send_shootdown", "await_shootdown")
           \/ Moves(Bsp, "await_shootdown", "phase_2") /\ Aps \subseteq m.ACK
        /\ UNCHANGED <<todo, m, pte, tlb, pending, handler>>
    BY StepMoves DEF LoopDone, AwaitAck, local, hardware
  <1>2. \A a \in Aps : (InRound(a)' <=> InRound(a)) /\ (Ipi(a)' <=> Ipi(a))
    BY <1>1 DEF InRound, Ipi
  <1>3. AllGone' <=> AllGone
    BY <1>1 DEF AllGone
  <1>4. ShootDomains'
    BY <1>1 DEF ShootInv, ShootDomains, Moves, QuietSteps, GoneSteps
  <1>5. CASE Moves(Bsp, "await_ipi", "setup") /\ Aps \subseteq m.ACK
    <2>1. \A a \in Aps : ~Ipi(a) /\ ~handler[a]
      BY <1>5 DEF ShootInv, ShootFacts, InRound, Moves
    <2> QED
      BY <1>1, <1>2, <1>3, <1>4, <1>5, <2>1
      DEF ShootInv, ShootFacts, Moves, QuietSteps, RemappedSteps, GoneSteps
  <1>6. CASE Moves(Bsp, "await_shootdown", "phase_2") /\ Aps \subseteq m.ACK
    <2>1. AllGone
      BY <1>6 DEF ShootInv, ShootFacts, Moves, AllGone, RemappedSteps
    <2> QED
      BY <1>1, <1>3, <1>4, <1>6, <2>1
      DEF ShootInv, ShootFacts, Moves, QuietSteps, RemappedSteps, GoneSteps
  <1>7. CASE \/ Moves(Bsp, "send_ipi", "await_ipi")
             \/ Moves(Bsp, "send_shootdown", "await_shootdown")
    BY <1>1, <1>2, <1>3, <1>4, <1>7
    DEF ShootInv, ShootFacts, Moves, QuietSteps, RemappedSteps, GoneSteps
  <1> QED
    BY <1>1, <1>5, <1>6, <1>7

(* The remap and the BSP's own invalidation. *)
LEMMA ShootRemap == ASSUME ShootInv, remap \/ invlpg PROVE ShootInv'
  <1>1. CASE remap
    <2>1. Moves(Bsp, "remap", "invlpg") /\ pte' = "B" /\ UNCHANGED <<m, tlb, pending, handler>>
      BY <1>1, StepMoves DEF remap
    <2>2. \A a \in Aps : Ipi(a)' <=> Ipi(a)
      BY <2>1 DEF Ipi
    <2>3. ShootDomains'
      BY <2>1 DEF ShootInv, ShootDomains, Moves, QuietSteps
    <2> QED
      BY <2>1, <2>2, <2>3
      DEF ShootInv, ShootFacts, Moves, QuietSteps, RemappedSteps, GoneSteps, AllGone
  <1>2. CASE invlpg
    <2>1. /\ Moves(Bsp, "invlpg", "reset_ack") /\ UNCHANGED <<m, pte, pending, handler>>
          /\ DOMAIN tlb' = Cpus /\ tlb'[Bsp] = "none"
          /\ \A c \in Cpus : c # Bsp => tlb'[c] = tlb[c]
      BY <1>2, StepMoves DEF invlpg, ShootInv, ShootDomains
    <2>2. \A a \in Aps : Ipi(a)' <=> Ipi(a)
      BY <2>1 DEF Ipi
    <2>3. ShootDomains'
      BY <2>1 DEF ShootInv, ShootDomains, Moves, QuietSteps
    <2>4. AllGone => AllGone'
      BY <2>1 DEF AllGone
    <2> QED
      BY <2>1, <2>2, <2>3, <2>4
      DEF ShootInv, ShootFacts, Moves, QuietSteps, RemappedSteps, GoneSteps
  <1> QED
    BY <1>1, <1>2

(* The other steps of run stay within a stage, start an AP or set PHASE    *)
(* when everything is gone.                                                *)
LEMMA ShootRun == ASSUME ShootInv, run PROVE ShootInv'
  <1>1. {"ACK", "PHASE"} \subseteq DOMAIN m /\ DOMAIN tlb = Cpus /\ DOMAIN pending = Cpus
    BY DEF ShootInv, ShootDomains
  <1>2. \A d \in Cpus : pending' = pending => (Ipi(d)' <=> Ipi(d))
    BY DEF Ipi
  <1>3. CASE worker(Bsp)
    BY <1>3, ShootWorker
  <1>4. CASE \E a \in Aps : start_ap(a)
    <2>1. /\ DOMAIN pc' = Cpus /\ pc'[Bsp] = "start" /\ pc[Bsp] = "start"
          /\ UNCHANGED <<m, pte, tlb, pending, handler>>
      BY <1>4, PostFirmwareAssumption DEF start_ap, ShootInv, ShootDomains, hardware
    <2>2. ShootDomains'
      BY <2>1 DEF ShootInv, ShootDomains
    <2> QED
      BY <1>2, <2>1, <2>2, ShootFrame DEF QuietSteps, RemappedSteps
  <1>5. CASE \E a \in Aps : Send(a, "send_ipi", "ipi") \/ Send(a, "send_shootdown", "ipi")
    BY <1>5, ShootSend
  <1>6. CASE enter_phase_2
    <2>1. /\ Moves(Bsp, "phase_2", "probe_post") /\ UNCHANGED <<pte, tlb, pending, handler>>
          /\ DOMAIN m' = DOMAIN m
      BY <1>6, StepMoves DEF enter_phase_2, hardware
    <2>2. AllGone'
      BY <2>1 DEF ShootInv, ShootFacts, AllGone, Moves, GoneSteps
    <2>3. ShootDomains'
      BY <1>1, <2>1 DEF ShootInv, ShootDomains, Moves, GoneSteps
    <2> QED
      BY <2>1, <2>2, <2>3
      DEF ShootInv, ShootFacts, Moves, QuietSteps, RemappedSteps, GoneSteps
  <1> USE ShootMove, StepMoves DEF QuietSteps, RemappedSteps, GoneSteps, local, hardware
  <1>7. CASE LoopDone("start", "await_online") \/ LoopDone("poll", "await_timer")
    BY SMT, <1>1, <1>2, <1>7 DEF LoopDone
  <1>8. CASE await_online \/ await_done \/ await_timer
    BY SMT, <1>1, <1>2, <1>8 DEF await_online, await_done, await_timer
  <1>9. CASE await_post
    BY SMT, <1>1, <1>2, <1>9 DEF await_post, Errors
  <1>10. CASE setup
    <2>1. DOMAIN m' = DOMAIN m /\ m'.ACK = m.ACK /\ m'.PHASE = m.PHASE
      BY <1>1, <1>10 DEF setup
    <2>2. Moves(Bsp, "setup", "message_ready") /\ UNCHANGED hardware
      BY <1>10 DEF setup
    <2> QED
      BY <1>1, <1>2, <2>1, <2>2
  <1>11. CASE message_ready
    BY SMT, <1>1, <1>2, <1>11 DEF message_ready
  <1>12. CASE release
    BY SMT, <1>1, <1>2, <1>12 DEF release
  <1>13. CASE check
    BY SMT, <1>1, <1>2, <1>13 DEF check, Errors
  <1>14. CASE ClearTimer("timer_clear", "int_timer") \/ ClearTimer("timer_reset", "arm")
    BY SMT, <1>1, <1>2, <1>14 DEF ClearTimer
  <1>15. CASE int_timer
    BY SMT, <1>1, <1>2, <1>15 DEF int_timer
  <1>16. CASE \E a \in Aps : poll(a)
    BY <1>1, <1>2, <1>16 DEF poll
  <1>17. CASE \E a \in Aps : Send(a, "poll", "timer")
    <2>1. Moves(Bsp, "poll", "poll") /\ UNCHANGED <<m, pte, tlb, handler>>
      BY <1>17 DEF Send
    <2>2. DOMAIN pending' = Cpus /\ \A c \in Cpus : Ipi(c)' <=> Ipi(c)
      BY SMT, <1>1, <1>17 DEF Send, Ipi
    <2> QED
      BY <1>1, <2>1, <2>2
  <1>18. CASE bsp_gives_up
    <2>1. pc[Bsp] \in DOMAIN GivesUp => GivesUp[pc[Bsp]] \in Errors
      BY SMT DEF GivesUp, Errors
    <2> QED
      BY SMT, <1>1, <1>2, <1>18, <2>1 DEF bsp_gives_up
  <1> QED
    BY <1>3, <1>4, <1>5, <1>6, <1>7, <1>8, <1>9, <1>10, <1>11, <1>12, <1>13, <1>14, <1>15,
       <1>16, <1>17, <1>18, ShootClearAck, ShootRoundEnds, ShootRemap DEF run

(* The IPI handler empties the TLB entry before it acknowledges. *)
LEMMA ShootInterrupt == ASSUME ShootInv, NEW c \in Cpus, interrupt(c) PROVE ShootInv'
  <1>1. CASE timer_handler(c)
    <2>1. UNCHANGED <<pc, todo, pte, tlb, handler>> /\ DOMAIN m' = DOMAIN m
      BY <1>1 DEF timer_handler, local
    <2>2. m'.ACK = m.ACK /\ m'.PHASE = m.PHASE
      BY <1>1 DEF timer_handler, ShootInv, ShootDomains
    <2>3. DOMAIN pending' = Cpus /\ \A d \in Cpus : Ipi(d)' <=> Ipi(d)
      BY <1>1 DEF timer_handler, ShootInv, ShootDomains, Ipi
    <2>4. ShootDomains'
      BY <2>1, <2>3 DEF ShootInv, ShootDomains
    <2> QED
      BY <2>1, <2>2, <2>3, <2>4, ShootFrame
  <1>2. CASE ipi_handler(c)
    <2>1. /\ UNCHANGED <<pc, todo, m, pte>> /\ Ipi(c) /\ ~handler[c]
          /\ DOMAIN pending' = Cpus /\ DOMAIN tlb' = Cpus /\ DOMAIN handler' = Cpus
          /\ \A d \in Cpus : d # c =>
               (Ipi(d)' <=> Ipi(d)) /\ tlb'[d] = tlb[d] /\ handler'[d] = handler[d]
          /\ ~Ipi(c)' /\ tlb'[c] = "none" /\ handler'[c] = TRUE
      BY <1>2 DEF ipi_handler, ShootInv, ShootDomains, Ipi, local
    <2>2. c \in Aps => pc[Bsp] \notin QuietSteps
      BY <2>1 DEF ShootInv, ShootFacts
    <2>3. pc[Bsp] \in {"send_ipi", "await_ipi", "send_shootdown", "await_shootdown"} =>
            \A a \in Aps : InRound(a)'
      BY <2>1 DEF ShootInv, ShootFacts, InRound
    <2>4. AllGone => AllGone'
      BY <2>1 DEF AllGone
    <2>5. ShootDomains'
      BY <2>1 DEF ShootInv, ShootDomains
    <2> QED
      BY <2>1, <2>2, <2>3, <2>4, <2>5 DEF ShootInv, ShootFacts
  <1>3. CASE ipi_ack(c)
    <2>1. /\ UNCHANGED <<pc, todo, pte, tlb, pending>> /\ handler[c] /\ DOMAIN m' = DOMAIN m
          /\ m'.ACK = m.ACK \cup {c} /\ m'.PHASE = m.PHASE
          /\ DOMAIN handler' = Cpus /\ ~handler'[c]
          /\ \A d \in Cpus : d # c => handler'[d] = handler[d]
      BY <1>3 DEF ipi_ack, ShootInv, ShootDomains, local
    <2>2. \A d \in Cpus : Ipi(d)' <=> Ipi(d)
      BY <2>1 DEF Ipi
    <2>3. pc[Bsp] \in {"send_ipi", "await_ipi", "send_shootdown", "await_shootdown"} =>
            \A a \in Aps : InRound(a)'
      BY <2>1, <2>2 DEF ShootInv, ShootFacts, InRound
    <2>4. AllGone <=> AllGone'
      BY <2>1 DEF AllGone
    <2>5. ShootDomains'
      BY <2>1 DEF ShootInv, ShootDomains
    <2> QED
      BY <2>1, <2>2, <2>3, <2>4, <2>5 DEF ShootInv, ShootFacts
  <1> QED
    BY <1>1, <1>2, <1>3 DEF interrupt

(* Every step of every CPU, interrupts included, keeps the shootdown       *)
(* invariant.                                                              *)
LEMMA ShootInvStep == ShootInv /\ [Next]_vars => ShootInv'
  <1> SUFFICES ASSUME ShootInv, [Next]_vars PROVE ShootInv'
    OBVIOUS
  <1>1. ASSUME NEW c \in Cpus, timer_fires(c) PROVE ShootInv'
    <2>1. DOMAIN pending' = Cpus /\ \A d \in Cpus : Ipi(d)' <=> Ipi(d)
      BY <1>1 DEF timer_fires, ShootInv, ShootDomains, Ipi
    <2>2. UNCHANGED <<pc, todo, m, pte, tlb, handler>>
      BY <1>1 DEF timer_fires, local
    <2>3. ShootDomains'
      BY <2>1, <2>2 DEF ShootInv, ShootDomains
    <2> QED
      BY <2>1, <2>2, <2>3, ShootFrame
  <1>2. ASSUME NEW c \in Cpus, tlb_loads(c) PROVE ShootInv'
    <2>1. DOMAIN tlb' = Cpus /\ \A d \in Cpus : tlb'[d] = tlb[d] \/ tlb'[d] = pte
      BY <1>2 DEF tlb_loads, ShootInv, ShootDomains
    <2>2. UNCHANGED <<pc, todo, m, pte, pending, handler>>
      BY <1>2 DEF tlb_loads, local
    <2>3. ShootDomains' /\ \A d \in Cpus : Ipi(d)' <=> Ipi(d)
      BY <2>1, <2>2 DEF ShootInv, ShootDomains, Ipi
    <2> QED
      BY <2>1, <2>2, <2>3, ShootFrame
  <1>3. CASE UNCHANGED vars
    <2>1. UNCHANGED <<pc, todo, m, pte, tlb, pending, handler>>
      BY <1>3 DEF vars
    <2>2. ShootDomains' /\ \A d \in Cpus : Ipi(d)' <=> Ipi(d)
      BY <2>1 DEF ShootInv, ShootDomains, Ipi
    <2> QED
      BY <2>1, <2>2, ShootFrame
  <1> QED
    BY <1>1, <1>2, <1>3, ShootRun, ShootAp, ShootInterrupt DEF Next

(* Once run has entered phase 2 no TLB holds the old page, for any number  *)
(* of APs, whichever TLBs load entries ahead of use and wherever waits     *)
(* give up.                                                                *)
THEOREM OldTranslationGoneHolds == Spec => []OldTranslationGone
  <1>1. ShootInv => OldTranslationGone
    BY DEF ShootInv, ShootFacts, AllGone, OldTranslationGone
  <1> QED
    BY <1>1, ShootInvInit, ShootInvStep, PTL DEF Spec
-----------------------------------------------------------------------------
(* The timers.  In the last loop of run a CPU it has dealt with has its    *)
(* bit set or an interrupt on the way that will set it.                    *)
OnItsWay(c) == c \in m.TIMER \/ "timer" \in pending[c]

TimerDomains ==
  DOMAIN pc = Cpus /\ DOMAIN pending = Cpus /\ "TIMER" \in DOMAIN m

TimerInv ==
  /\ TimerDomains
  /\ pc[Bsp] = "fallback" => todo = Aps
  /\ pc[Bsp] \in {"poll", "await_timer"} => OnItsWay(Bsp)
  /\ pc[Bsp] = "poll" => \A a \in Aps : a \in todo \/ OnItsWay(a)
  /\ pc[Bsp] = "await_timer" => \A a \in Aps : OnItsWay(a)

(* Steps that neither clear the mask nor take the BSP into the loop. *)
LEMMA TimerFrame ==
  ASSUME TimerInv, TimerDomains',
         pc'[Bsp] \in {"fallback", "poll", "await_timer"} => pc'[Bsp] = pc[Bsp] /\ todo' = todo,
         pc'[Bsp] \in {"poll", "await_timer"} => \A c \in Cpus : OnItsWay(c) => OnItsWay(c)'
  PROVE TimerInv'
  BY DEF TimerInv

(* No timer is armed at first. *)
LEMMA TimerInvInit == Init => TimerInv
  BY DEF Init, TimerInv, TimerDomains

(* A step that takes no pending timer and does not bring the BSP to its    *)
(* wait for the APs' timers keeps the timer invariant.                     *)
LEMMA TimerStep ==
  ASSUME TimerInv, NEW c \in Cpus, NEW from, NEW to, Step(c, from, to),
         c = Bsp => to \notin {"fallback", "poll", "await_timer"},
         c # Bsp => todo' = todo /\ m'.TIMER = m.TIMER,
         DOMAIN m' = DOMAIN m, DOMAIN pending' = Cpus,
         \A d \in Cpus : pending[d] \subseteq pending'[d]
  PROVE TimerInv'
  <1>1. TimerDomains' /\ \A d \in Cpus : d # c => pc'[d] = pc[d]
    BY DEF TimerInv, TimerDomains, Step
  <1>2. c = Bsp => pc'[Bsp] = to
    BY DEF TimerInv, TimerDomains, Step
  <1>3. c # Bsp => \A d \in Cpus : OnItsWay(d) => OnItsWay(d)'
    BY DEF OnItsWay
  <1> QED
    BY <1>1, <1>2, <1>3, TimerFrame

(* The worker's steps: arming the timer, its deadline, the fallback. *)
LEMMA TimerWorker == ASSUME TimerInv, NEW c \in Cpus, worker(c) PROVE TimerInv'
  <1> USE TimerStep, PostFirmwareAssumption DEF local, hardware
  <1>1. "TIMER" \in DOMAIN m /\ DOMAIN pending = Cpus /\ DOMAIN pc = Cpus
    BY DEF TimerInv, TimerDomains
  <1>2. CASE message(c)
    BY <1>1, <1>2 DEF message
  <1>3. CASE message_mask(c)
    BY <1>1, <1>3 DEF message_mask
  <1>4. CASE seed(c)
    BY <1>1, <1>4 DEF seed
  <1>5. CASE active(c)
    BY <1>1, <1>5 DEF active
  <1>6. CASE open(c)
    BY <1>1, <1>6 DEF open
  <1>7. CASE gate(c)
    BY <1>1, <1>7 DEF gate
  <1>8. CASE take(c)
    BY <1>1, <1>8 DEF take
  <1>9. CASE leave(c)
    BY <1>1, <1>9 DEF leave
  <1>10. CASE ticket(c)
    BY <1>1, <1>10 DEF ticket
  <1>11. CASE spin(c)
    BY <1>1, <1>11 DEF spin
  <1>12. CASE enter(c)
    BY <1>1, <1>12 DEF enter
  <1>13. CASE unlock(c)
    BY <1>1, <1>13 DEF unlock
  <1>14. CASE once(c)
    BY <1>1, <1>14 DEF once
  <1>15. CASE probe_pre(c)
    BY <1>1, <1>15 DEF probe_pre, Probe
  <1>16. CASE mask_pre(c)
    BY <1>1, <1>16 DEF mask_pre
  <1>17. CASE probe_post(c)
    BY <1>1, <1>17 DEF probe_post, Probe
  <1>18. CASE mask_post(c)
    BY <1>1, <1>18 DEF mask_post
  <1>19. CASE arm(c)
    BY <1>1, <1>19 DEF arm
  <1>20. CASE deadline(c)
    <2>1. CASE c = Bsp
      BY <1>1, <1>20, <2>1 DEF deadline, AfterTimer, Step, TimerInv, TimerDomains, OnItsWay
    <2>2. CASE c # Bsp
      BY <1>1, <1>20, <2>2 DEF deadline
    <2> QED
      BY <2>1, <2>2
  <1>21. CASE fallback(c)
    <2>1. CASE c = Bsp
      BY <1>1, <1>21, <2>1 DEF fallback, AfterTimer, Step, TimerInv, TimerDomains, OnItsWay
    <2>2. CASE c # Bsp
      BY <1>1, <1>21, <2>2 DEF fallback
    <2> QED
      BY <2>1, <2>2
  <1> QED
    BY <1>2, <1>3, <1>4, <1>5, <1>6, <1>7, <1>8, <1>9, <1>10, <1>11, <1>12, <1>13, <1>14,
       <1>15, <1>16, <1>17, <1>18, <1>19, <1>20, <1>21 DEF worker

(* An AP's steps, the worker's among them. *)
LEMMA TimerAp == ASSUME TimerInv, NEW a \in Aps, thermite_ap_rust_entry(a) PROVE TimerInv'
  <1>1. CASE worker(a)
    BY <1>1, TimerWorker
  <1> USE TimerStep, PostFirmwareAssumption DEF local, hardware
  <1>2. "TIMER" \in DOMAIN m /\ DOMAIN pending = Cpus
    BY DEF TimerInv, TimerDomains
  <1>3. CASE cpu_local(a) \/ online(a)
    BY <1>2, <1>3 DEF cpu_local, online
  <1>4. CASE setup_fails(a)
    BY <1>2, <1>4 DEF setup_fails
  <1>5. CASE ready(a) \/ done(a)
    BY <1>2, <1>5 DEF ready, done
  <1>6. CASE phase_1(a) \/ phase_2(a) \/ fallback_gives_up(a)
    BY <1>2, <1>6 DEF phase_1, phase_2, fallback_gives_up
  <1> QED
    BY <1>1, <1>3, <1>4, <1>5, <1>6 DEF thermite_ap_rust_entry

(* The loop: an AP leaves todo with its bit set or with an interrupt sent. *)
LEMMA TimerLoop ==
  ASSUME TimerInv, NEW a \in Aps, poll(a) \/ (Broker(a) /\ Send(a, "poll", "timer"))
  PROVE TimerInv'
  <1>1. /\ TimerDomains' /\ pc[Bsp] = "poll" /\ pc'[Bsp] = "poll" /\ todo' = todo \ {a}
        /\ m' = m
    BY DEF poll, Send, Step, TimerInv, TimerDomains, hardware
  <1>2. \A c \in Cpus : OnItsWay(c) => OnItsWay(c)'
    BY SMT DEF poll, Send, Step, TimerInv, TimerDomains, OnItsWay, hardware
  <1>3. OnItsWay(a)'
    BY SMT DEF poll, Send, Broker, Step, TimerInv, TimerDomains, OnItsWay, hardware
  <1> QED
    BY <1>1, <1>2, <1>3 DEF TimerInv

(* The BSP's steps: the worker's, and the polling of the APs whose timer   *)
(* did not fire.                                                           *)
LEMMA TimerRun == ASSUME TimerInv, run PROVE TimerInv'
  <1>1. CASE worker(Bsp)
    BY <1>1, TimerWorker
  <1>2. "TIMER" \in DOMAIN m /\ DOMAIN pending = Cpus /\ DOMAIN pc = Cpus
    BY DEF TimerInv, TimerDomains
  <1>3. CASE \E a \in Aps : start_ap(a)
    <2>1. TimerDomains' /\ pc'[Bsp] = "start"
      BY <1>3, PostFirmwareAssumption DEF start_ap, TimerInv, TimerDomains, hardware
    <2> QED
      BY <2>1, TimerFrame
  <1>4. CASE LoopDone("poll", "await_timer")
    <2>1. /\ TimerDomains' /\ pc[Bsp] = "poll" /\ pc'[Bsp] = "await_timer" /\ todo = {}
          /\ UNCHANGED <<m, pending>>
      BY <1>4 DEF LoopDone, Step, TimerInv, TimerDomains, hardware
    <2> QED
      BY <2>1 DEF TimerInv, OnItsWay
  <1> USE TimerStep DEF local, hardware
  <1>5. CASE \/ LoopDone("start", "await_online") \/ LoopDone("send_ipi", "await_ipi")
             \/ LoopDone("send_shootdown", "await_shootdown")
    BY <1>2, <1>5 DEF LoopDone
  <1>6. CASE await_online \/ await_done \/ await_post \/ await_timer
    BY <1>2, <1>6 DEF await_online, await_done, await_post, await_timer
  <1>7. CASE ClearAck("clear_ack", "send_ipi") \/ ClearAck("reset_ack", "send_shootdown")
    BY <1>2, <1>7 DEF ClearAck
  <1>8. CASE \E a \in Aps : Send(a, "send_ipi", "ipi") \/ Send(a, "send_shootdown", "ipi")
    BY <1>2, <1>8 DEF Send
  <1>9. CASE AwaitAck("await_ipi", "setup") \/ AwaitAck("await_shootdown", "phase_2")
    BY <1>2, <1>9 DEF AwaitAck
  <1>10. CASE setup
    <2>1. DOMAIN m' = DOMAIN m
      BY <1>10 DEF setup
    <2> QED
      BY <1>2, <1>10, <2>1 DEF setup
  <1>11. CASE message_ready \/ release \/ enter_phase_2
    BY <1>2, <1>11 DEF message_ready, release, enter_phase_2
  <1>12. CASE check
    BY <1>2, <1>12 DEF check
  <1>13. CASE remap \/ invlpg
    BY <1>2, <1>13 DEF remap, invlpg
  <1>14. CASE \/ ClearTimer("timer_clear", "int_timer") \/ ClearTimer("timer_reset", "arm")
              \/ int_timer
    BY <1>2, <1>14 DEF ClearTimer, int_timer
  <1>15. CASE bsp_gives_up
    <2>1. pc[Bsp] \in DOMAIN GivesUp => GivesUp[pc[Bsp]] \notin {"fallback", "poll", "await_timer"}
      BY SMT DEF GivesUp
    <2> QED
      BY <1>2, <1>15, <2>1 DEF bsp_gives_up
  <1> QED
    BY <1>1, <1>3, <1>4, <1>5, <1>6, <1>7, <1>8, <1>9, <1>10, <1>11, <1>12, <1>13, <1>14,
       <1>15, TimerLoop DEF run

(* Every step of every CPU, interrupts included, keeps every timer on its  *)
(* way.                                                                    *)
LEMMA TimerInvStep == TimerInv /\ [Next]_vars => TimerInv'
  <1> SUFFICES ASSUME TimerInv, [Next]_vars PROVE TimerInv'
    OBVIOUS
  <1>1. ASSUME NEW c \in Cpus, interrupt(c) \/ timer_fires(c) \/ tlb_loads(c) PROVE TimerInv'
    <2>1. TimerDomains' /\ UNCHANGED <<pc, todo>>
      BY <1>1 DEF interrupt, ipi_handler, ipi_ack, timer_handler, timer_fires, tlb_loads, local,
                  TimerInv, TimerDomains
    <2>2. \A d \in Cpus : OnItsWay(d) => OnItsWay(d)'
      BY SMT, <1>1 DEF interrupt, ipi_handler, ipi_ack, timer_handler, timer_fires, tlb_loads,
                  TimerInv, TimerDomains, OnItsWay
    <2> QED
      BY <2>1, <2>2, TimerFrame
  <1>2. CASE UNCHANGED vars
    BY <1>2 DEF vars, TimerInv, TimerDomains, OnItsWay
  <1> QED
    BY <1>1, <1>2, TimerRun, TimerAp DEF Next

(* When run waits for the timer bits each is set or on its way, whatever   *)
(* its clearing of TIMER_MASK wiped out before, for any number of APs.     *)
THEOREM NoTimerLostHolds == Spec => []NoTimerLost
  <1>1. TimerInv => NoTimerLost
    BY DEF TimerInv, NoTimerLost, OnItsWay
  <1> QED
    BY <1>1, TimerInvInit, TimerInvStep, PTL DEF Spec
=============================================================================
