---------------------------------- MODULE Smp ----------------------------------
(***************************************************************************)
(* SmpState of kernel/src/smp.rs: the lifecycle of every CPU and the IPI   *)
(* and TLB-shootdown epochs with the CPUs that still owe each of them an   *)
(* acknowledgement.  Acknowledgements arrive late, twice or from the wrong *)
(* CPU; those calls fail without a write and are stuttering steps.         *)
(*                                                                         *)
(* discover overwrites the entry of a CPU it then reports as a duplicate.  *)
(***************************************************************************)
EXTENDS Integers, FiniteSetsExt

CONSTANTS
  CpuIds,     \* the CPU identifiers
  MaxIpi,     \* the last IPI epoch (u64::MAX in the code)
  MaxEpoch    \* the last shootdown epoch (u64::MAX in the code)

ASSUME SmpAssumption == MaxIpi \in Nat /\ MaxEpoch \in Nat

Lifecycle == {"Absent", "Discovered", "Prepared", "Starting", "Online", "Failed"}

VARIABLES
  cpus,                  \* the lifecycle of each CPU, Absent before discover
  next_ipi_epoch,        \* the newest IPI epoch
  next_shootdown_epoch,  \* the newest shootdown epoch
  ipis,                  \* epoch -> PendingEpoch
  shootdowns             \* epoch -> PendingEpoch

smpVars == <<cpus, next_ipi_epoch, next_shootdown_epoch, ipis, shootdowns>>

NoEpochs == [e \in {} |-> 0]

SmpInit ==
  /\ cpus = [c \in CpuIds |-> "Absent"]
  /\ next_ipi_epoch = 0 /\ next_shootdown_epoch = 0
  /\ ipis = NoEpochs /\ shootdowns = NoEpochs
-----------------------------------------------------------------------------
online == {c \in CpuIds : cpus[c] = "Online"}

Begun(pending, epoch, targets) ==
  [e \in DOMAIN pending \cup {epoch} |->
     IF e = epoch THEN [targets |-> targets, acknowledgements |-> {}] ELSE pending[e]]

EpochLeft(epoch, last) == epoch < last

(* acknowledge: only the newest pending epoch takes acknowledgements, one  *)
(* from each of its targets.                                               *)
NewestBegun(pending, epoch) == epoch \in DOMAIN pending /\ epoch = next_shootdown_epoch

NewestPending(pending, epoch) == DOMAIN pending # {} /\ epoch = Max(DOMAIN pending)

Acknowledges(pending, epoch, cpu) ==
  /\ NewestPending(pending, epoch)
  /\ cpu \in pending[epoch].targets
  /\ cpu \notin pending[epoch].acknowledgements

Acknowledged(pending, epoch, cpu) ==
  [pending EXCEPT ![epoch].acknowledgements = @ \cup {cpu}]
-----------------------------------------------------------------------------
(* A CPU may be discovered again, even while a shootdown waits for it. *)
discover(c) ==
  /\ cpus' = [cpus EXCEPT ![c] = "Discovered"]
  /\ UNCHANGED <<next_ipi_epoch, next_shootdown_epoch, ipis, shootdowns>>

Legal(current, next) ==
  <<current, next>> \in {<<"Discovered", "Prepared">>, <<"Prepared", "Starting">>,
                         <<"Starting", "Online">>, <<"Prepared", "Failed">>,
                         <<"Starting", "Failed">>}

transition(c, next) ==
  /\ cpus[c] # "Absent"
  /\ Legal(cpus[c], next)
  /\ cpus' = [cpus EXCEPT ![c] = next]
  /\ UNCHANGED <<next_ipi_epoch, next_shootdown_epoch, ipis, shootdowns>>

begin_ipi(targets) ==
  /\ targets \subseteq online
  /\ EpochLeft(next_ipi_epoch, MaxIpi)
  /\ next_ipi_epoch' = next_ipi_epoch + 1
  /\ ipis' = Begun(ipis, next_ipi_epoch + 1, targets)
  /\ UNCHANGED <<cpus, next_shootdown_epoch, shootdowns>>

acknowledge_ipi(epoch, c) ==
  /\ Acknowledges(ipis, epoch, c)
  /\ ipis' = Acknowledged(ipis, epoch, c)
  /\ UNCHANGED <<cpus, next_ipi_epoch, next_shootdown_epoch, shootdowns>>

begin_shootdown ==
  /\ EpochLeft(next_shootdown_epoch, MaxEpoch)
  /\ next_shootdown_epoch' = next_shootdown_epoch + 1
  /\ shootdowns' = Begun(shootdowns, next_shootdown_epoch + 1, online)
  /\ UNCHANGED <<cpus, next_ipi_epoch, ipis>>

acknowledge_shootdown(epoch, c) ==
  /\ Acknowledges(shootdowns, epoch, c)
  /\ shootdowns' = Acknowledged(shootdowns, epoch, c)
  /\ UNCHANGED <<cpus, next_ipi_epoch, next_shootdown_epoch, ipis>>

Completable(epoch) ==
  /\ epoch \in DOMAIN shootdowns
  /\ shootdowns[epoch].acknowledgements = shootdowns[epoch].targets

Completed(epoch) == [e \in DOMAIN shootdowns \ {epoch} |-> shootdowns[e]]

complete_shootdown(epoch) ==
  /\ Completable(epoch)
  /\ shootdowns' = Completed(epoch)
  /\ UNCHANGED <<cpus, next_ipi_epoch, next_shootdown_epoch, ipis>>

SmpNext ==
  \/ \E c \in CpuIds : discover(c) \/ \E s \in Lifecycle : transition(c, s)
  \/ \E T \in SUBSET CpuIds : begin_ipi(T)
  \/ begin_shootdown
  \/ \E e \in 1..MaxIpi, c \in CpuIds : acknowledge_ipi(e, c)
  \/ \E e \in 1..MaxEpoch :
       complete_shootdown(e) \/ \E c \in CpuIds : acknowledge_shootdown(e, c)
-----------------------------------------------------------------------------
(* No shootdown hangs because newer ones overtook it: acknowledge refuses  *)
(* it as stale while a newer one is pending, but it takes acknowledgements *)
(* again once the newer ones are complete and no more of them are begun.   *)
ShootdownsDrain ==
  \A e \in 1..MaxEpoch : (e \in DOMAIN shootdowns) ~> (e \notin DOMAIN shootdowns)
=============================================================================
