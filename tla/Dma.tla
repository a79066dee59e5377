---------------------------------- MODULE Dma ----------------------------------
(***************************************************************************)
(* DmaState of kernel/src/dma.rs: memory is pinned under a slot, mapped    *)
(* into the domain of a device, and handed to the device and back.  Every  *)
(* call presents a slot and a DmaMapping.  Mappings are Copy and do not    *)
(* record their slot, so any mapping ever returned may be presented again, *)
(* with any slot.                                                          *)
(*                                                                         *)
(* A region is opaque; the capabilities presented have the right kind and  *)
(* rights and cover it.                                                    *)
(***************************************************************************)
EXTENDS Integers

CONSTANTS
  DmaSlots,        \* the slots
  Requests,        \* what is pinned: [device, domain, region]
  Domains,         \* the IOMMU domains: [id, device, present]
  DeviceAddresses, \* where regions are mapped: inside or outside an aperture
  Aperture,        \* the addresses inside
  MaxDmaGen        \* the last generation (u64::MAX in the code)

ASSUME DmaAssumption ==
  MaxDmaGen \in Nat /\ Aperture \subseteq DeviceAddresses

VARIABLES
  pins,             \* DmaState::mappings, slot -> DmaMapping
  dma_generations,  \* slot -> generation
  domains,          \* the registered domains
  segments,         \* slot -> the device address it is mapped at
  handles           \* every DmaMapping returned

dmaVars == <<pins, dma_generations, domains, segments, handles>>

DmaInit ==
  /\ pins = [s \in {} |-> 0] /\ dma_generations = [s \in DmaSlots |-> 0]
  /\ domains = {} /\ segments = [s \in {} |-> 0]
  /\ handles = {}
-----------------------------------------------------------------------------
Put(f, s, v) == [t \in DOMAIN f \cup {s} |-> IF t = s THEN v ELSE f[t]]

Drop(f, s) == [t \in DOMAIN f \ {s} |-> f[t]]

pin(s, r) ==
  LET mapping == [request |-> r, generation |-> dma_generations[s], ownership |-> "Cpu"]
  IN /\ s \notin DOMAIN pins
     /\ pins' = Put(pins, s, mapping)
     /\ handles' = handles \cup {mapping}
     /\ UNCHANGED <<dma_generations, domains, segments>>

(* A domain replaces the one of the same id before the duplicate is        *)
(* reported, segments mapped through the old one or not.                   *)
register_domain(d) ==
  /\ domains' = {e \in domains : e.id # d.id} \cup {d}
  /\ UNCHANGED <<pins, dma_generations, segments, handles>>

LivePin(s, mapping) == s \in DOMAIN pins /\ pins[s].generation = mapping.generation

(* map_domain looks only at what it is given: the domain of the mapping    *)
(* presented, and the address the caller chose.  Without an IOMMU that has *)
(* to be the region's own address.                                         *)
map_domain(s, mapping, address) ==
  /\ LivePin(s, mapping)
  /\ s \notin DOMAIN segments
  /\ \E d \in domains : /\ d.id = mapping.request.domain
                        /\ d.device = mapping.request.device
                        /\ address \in IF d.present THEN Aperture
                                       ELSE {mapping.request.region}
  /\ segments' = Put(segments, s, address)
  /\ UNCHANGED <<pins, dma_generations, domains, handles>>

WhoeverOwns(s) == TRUE

CpuOwns(s) == pins[s].ownership = "Cpu"

unmap_domain(s, mapping) ==
  /\ LivePin(s, mapping)
  /\ CpuOwns(s)
  /\ s \in DOMAIN segments
  /\ segments' = Drop(segments, s)
  /\ UNCHANGED <<pins, dma_generations, domains, handles>>

unpin(s, mapping) ==
  /\ LivePin(s, mapping)
  /\ CpuOwns(s)
  /\ s \notin DOMAIN segments
  /\ pins[s].generation < MaxDmaGen
  /\ pins' = Drop(pins, s)
  /\ dma_generations' = [dma_generations EXCEPT ![s] = pins[s].generation + 1]
  /\ UNCHANGED <<domains, segments, handles>>

transition_ownership(s, mapping, expected, next) ==
  /\ LivePin(s, mapping)
  /\ pins[s].ownership = expected /\ mapping.ownership = expected
  /\ LET moved == [pins[s] EXCEPT !.ownership = next]
     IN /\ pins' = [pins EXCEPT ![s] = moved]
        /\ handles' = handles \cup {moved}
  /\ UNCHANGED <<dma_generations, domains, segments>>

sync_for_device(s, mapping) == transition_ownership(s, mapping, "Cpu", "Device")

sync_for_cpu(s, mapping) == transition_ownership(s, mapping, "Device", "Cpu")

DmaNext ==
  \/ \E s \in DmaSlots, r \in Requests : pin(s, r)
  \/ \E d \in Domains : register_domain(d)
  \/ \E s \in DmaSlots, h \in handles :
       \/ \E a \in DeviceAddresses : map_domain(s, h, a)
       \/ unmap_domain(s, h) \/ unpin(s, h)
       \/ sync_for_device(s, h) \/ sync_for_cpu(s, h)

DmaSpec == DmaInit /\ [][DmaNext]_dmaVars
-----------------------------------------------------------------------------
(* While the device owns a buffer nothing is pulled from under it: the     *)
(* memory stays pinned and the segment it is mapped at stays, whichever    *)
(* old or copied mappings the callers present, with whichever slot.        *)
DeviceOwnershipHolds ==
  [][\A s \in DOMAIN pins :
       pins[s].ownership = "Device" =>
         /\ s \in DOMAIN pins'
         /\ pins'[s].generation = pins[s].generation
         /\ s \in DOMAIN segments => s \in DOMAIN segments' /\ segments'[s] = segments[s]]_dmaVars
=============================================================================
