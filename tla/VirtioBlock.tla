------------------------------ MODULE VirtioBlock ------------------------------
(***************************************************************************)
(* virtio_block_dma_probe of post_firmware.rs: the driver that reads one   *)
(* sector through the legacy virtio-blk queue after the firmware is gone,  *)
(* and the device, which runs on its own (external, from how the driver    *)
(* and the legacy virtio interface use it).  The firmware's own driver had *)
(* the device before, so it starts live, on the firmware's queue.          *)
(*                                                                         *)
(* The device looks at the queue whenever it likes once it is told the     *)
(* driver is ready: it fetches the descriptors as they are in memory at    *)
(* that moment, writes the data, then the status byte, then used.idx.      *)
(* x86 keeps the driver's stores in program order.                         *)
(***************************************************************************)
EXTENDS Integers

CONSTANTS QueueSizes, FirmwareSeen

(* QueueSizes: what the queue-size port may report.  FirmwareSeen: the     *)
(* requests the device took from the firmware's queue.                     *)
ASSUME VirtioAssumption == QueueSizes \subseteq Nat /\ FirmwareSeen \subseteq Nat

VARIABLES
  probe_pc,    \* where the driver is
  queue_size,  \* what it read from the queue-size port
  queue,       \* descriptors, avail.idx and used.idx in the queue's memory
  request,     \* the status byte and the data buffer
  complete,    \* whether the driver saw used.idx
  device       \* the device: driver_ok, its queue, its place in it, its work

virtioVars == <<probe_pc, queue_size, queue, request, complete, device>>

(* The regions of the queue, in bytes from its start. *)
available_offset(size) == size * 16
used_offset(size) == ((available_offset(size) + 6 + size * 2 + 4095) \div 4096) * 4096
Fits(size) == used_offset(size) + 6 + size * 8 <= 16 * 1024

VirtioInit ==
  /\ probe_pc = "find" /\ queue_size = 0 /\ complete = FALSE
  /\ queue = [descriptors |-> {}, avail |-> 0, used |-> 0]
  /\ request = [status |-> 0, data |-> "zero"]
  /\ \E n \in FirmwareSeen :
       device = [driver_ok |-> TRUE, pfn |-> "firmware", seen |-> n, work |-> "idle", chain |-> {}]

ProbeAt(from, to) == probe_pc = from /\ probe_pc' = to

ProbeFails(from) ==
  /\ ProbeAt(from, "failed")
  /\ UNCHANGED <<queue_size, queue, request, complete, device>>
-----------------------------------------------------------------------------
(* No such device, or one whose registers are not in I/O space. *)
find_legacy_virtio_block ==
  \/ ProbeFails("find")
  \/ /\ ProbeAt("find", "reset")
     /\ UNCHANGED <<queue_size, queue, request, complete, device>>

(* Status 0 makes the device forget its queue; 1 and 3 announce a driver. *)
Reset(d) == [driver_ok |-> FALSE, pfn |-> "none", seen |-> 0, work |-> "idle", chain |-> {}]

reset_device ==
  /\ ProbeAt("reset", "size")
  /\ device' = Reset(device)
  /\ UNCHANGED <<queue_size, queue, request, complete>>

read_queue_size(size) ==
  /\ IF size \in 3..256 /\ Fits(size) THEN ProbeAt("size", "clear") ELSE ProbeAt("size", "failed")
  /\ queue_size' = size
  /\ UNCHANGED <<queue, request, complete, device>>

(* The legacy device takes 32-bit addresses only. *)
above_4gib == ProbeFails("clear")

clear_memory ==
  /\ ProbeAt("clear", "describe")
  /\ queue' = [descriptors |-> {}, avail |-> 0, used |-> 0]
  /\ request' = [status |-> 255, data |-> "zero"]
  /\ UNCHANGED <<queue_size, complete, device>>

(* Header, data and status descriptors, chained, and the ring's entry. *)
describe_request ==
  /\ ProbeAt("describe", "attach")
  /\ queue' = [queue EXCEPT !.descriptors = {"header", "data", "status"}]
  /\ UNCHANGED <<queue_size, request, complete, device>>

(* The device gets the queue's page number and is told the driver is       *)
(* ready; it may refuse.                                                   *)
attach_queue(accepted) ==
  /\ ProbeAt("attach", IF accepted THEN "publish" ELSE "failed")
  /\ device' = [device EXCEPT !.pfn = "kernel", !.driver_ok = accepted]
  /\ UNCHANGED <<queue_size, queue, request, complete>>

(* "Ownership passes from CPU to device when avail.idx becomes visible."   *)
publish_request ==
  /\ ProbeAt("publish", "poll")
  /\ queue' = [queue EXCEPT !.avail = 1]
  /\ UNCHANGED <<queue_size, request, complete, device>>

(* The poll loop ends with used.idx or after its last round. *)
poll_used(seen) ==
  /\ seen => queue.used = 1
  /\ ProbeAt("poll", "validate")
  /\ complete' = seen
  /\ UNCHANGED <<queue_size, queue, request, device>>

(* Only a complete request is looked at. *)
LooksAnyway == TRUE

Looks == complete

validate ==
  /\ ProbeAt("validate",
       IF Looks /\ request.status = 0 /\ request.data = "signature" THEN "read" ELSE "failed")
  /\ UNCHANGED <<queue_size, queue, request, complete, device>>
-----------------------------------------------------------------------------
DeviceAt(from, to) ==
  /\ device.driver_ok /\ device.pfn = "kernel" /\ device.work = from
  /\ device' = [device EXCEPT !.work = to]
  /\ UNCHANGED <<probe_pc, queue_size, complete>>

device_fetch ==
  /\ device.driver_ok /\ device.pfn = "kernel" /\ device.work = "idle"
  /\ queue.avail # device.seen
  /\ device' = [device EXCEPT !.work = "data", !.chain = queue.descriptors, !.seen = @ + 1]
  /\ UNCHANGED <<probe_pc, queue_size, queue, request, complete>>

(* A failed read leaves some other data and a status that is not zero. *)
device_data(content) ==
  /\ DeviceAt("data", "status")
  /\ request' = [request EXCEPT !.data = content]
  /\ UNCHANGED queue

device_status(status) ==
  /\ DeviceAt("status", "used")
  /\ request' = [request EXCEPT !.status = status]
  /\ UNCHANGED queue

device_used ==
  /\ DeviceAt("used", "idle")
  /\ queue' = [queue EXCEPT !.used = @ + 1]
  /\ UNCHANGED request

DeviceStep ==
  \/ device_fetch \/ device_used
  \/ \E content \in {"signature", "other"} : device_data(content)
  \/ \E status \in {0, 1} : device_status(status)

DriverStep ==
  \/ find_legacy_virtio_block \/ reset_device
  \/ \E size \in QueueSizes : read_queue_size(size)
  \/ above_4gib \/ clear_memory \/ describe_request
  \/ \E accepted \in BOOLEAN : attach_queue(accepted)
  \/ publish_request
  \/ \E seen \in BOOLEAN : poll_used(seen)
  \/ validate

VirtioNext == DriverStep \/ DeviceStep

VirtioSpec == VirtioInit /\ [][VirtioNext]_virtioVars
-----------------------------------------------------------------------------
(* Driver and device never hold the request at the same time: the device   *)
(* only works on the whole chain, while the driver waits for it or has     *)
(* given up, the driver looks at the buffers only after used.idx gave them *)
(* back, and the sector it reports is one the device is done with, even if *)
(* the device answers after the driver's last poll.                        *)
RequestOwnedByOne ==
  /\ device.work # "idle" =>
       /\ device.chain = {"header", "data", "status"}
       /\ probe_pc \in {"poll", "validate", "failed"}
  /\ probe_pc = "validate" /\ Looks => device.work = "idle" /\ queue.used = 1
  /\ probe_pc = "read" => device.seen = queue.avail /\ queue.used = 1
=============================================================================
