------------------------------ MODULE DeviceBus ------------------------------
(***************************************************************************)
(* DeviceBus of kernel/src/device.rs: memory-mapped and port accesses of   *)
(* several widths over byte-addressed device state.  The capabilities      *)
(* presented have the right kind and rights (a call with another one fails *)
(* without a write); what matters of them is their range.                  *)
(*                                                                         *)
(* A byte that was never written reads as 0, so mmio and pio are total.    *)
(***************************************************************************)
EXTENDS Integers

CONSTANTS
  BusEnd,         \* the end of the memory-mapped addresses
  PortEnd,        \* the end of the ports (2^16 in the code)
  Widths,         \* DeviceWidth::bytes
  WidestPort,     \* the widest port access, U32
  ByteValues,     \* the values of a byte (256 in the code)
  BusCaps,        \* the [base, len] ranges of the capabilities
  BusValues,      \* the values written
  MaxBarriers     \* the last barrier epoch (u64::MAX in the code)

ASSUME BusAssumption ==
  /\ PortEnd \in Nat /\ BusEnd \in Nat /\ ByteValues \in Nat \ {0, 1}
  /\ Widths \subseteq Nat \ {0} /\ WidestPort \in Widths
  /\ BusCaps \subseteq [base : Nat, len : Nat] /\ BusValues \subseteq Nat /\ MaxBarriers \in Nat

VARIABLES
  mmio, pio,      \* address -> byte, port -> byte
  barrier_epoch,
  access          \* the last access: its bus, capability, address, width and result

busVars == <<mmio, pio, barrier_epoch, access>>

BusInit ==
  /\ mmio = [a \in 0..(BusEnd - 1) |-> 0] /\ pio = [p \in 0..(PortEnd - 1) |-> 0]
  /\ barrier_epoch = 0
  /\ access = [bus |-> "none"]

BusByte(value, index) == (value \div ByteValues^index) % ByteValues

InRange(cap, address, width) ==
  address >= cap.base /\ address + width <= cap.base + cap.len

IgnoresAlignment(cap, address, width) == InRange(cap, address, width)

validate_range(cap, address, width) ==
  address % width = 0 /\ InRange(cap, address, width)

Answer(bus, cap, address, width, result, value) ==
  access' = [bus |-> bus, cap |-> cap, address |-> address, width |-> width,
             result |-> result, value |-> value]

(* The bytes at those addresses, least significant first. *)
ReadBytes(bytes, address, width) ==
  LET Byte(a) == IF a \in DOMAIN bytes THEN bytes[a] ELSE 0
      Value[n \in 0..width] ==
        IF n = 0 THEN 0 ELSE Value[n - 1] + Byte(address + n - 1) * ByteValues^(n - 1)
  IN Value[width]

mmio_read(cap, address, width) ==
  /\ IF validate_range(cap, address, width)
     THEN Answer("mmio", cap, address, width, "read", ReadBytes(mmio, address, width))
     ELSE Answer("mmio", cap, address, width, "refused", 0)
  /\ UNCHANGED <<mmio, pio, barrier_epoch>>

mmio_write(cap, address, width, value) ==
  /\ IF validate_range(cap, address, width)
     THEN /\ Answer("mmio", cap, address, width, "written", value)
          /\ mmio' = [a \in DOMAIN mmio |-> IF a \in address..(address + width - 1)
                                           THEN BusByte(value, a - address) ELSE mmio[a]]
     ELSE Answer("mmio", cap, address, width, "refused", 0) /\ UNCHANGED mmio
  /\ UNCHANGED <<pio, barrier_epoch>>

(* A port number past the last one is taken for the last one. *)
Saturated(end) == [p \in 0..(end - 1) |-> pio[IF p < PortEnd THEN p ELSE PortEnd - 1]]

pio_read(cap, port, width) ==
  /\ IF width <= WidestPort /\ validate_range(cap, port, width)
     THEN Answer("pio", cap, port, width, "read",
                 ReadBytes(Saturated(port + width), port, width))
     ELSE Answer("pio", cap, port, width, "refused", 0)
  /\ UNCHANGED <<mmio, pio, barrier_epoch>>

(* pio_write: each port number is checked as its byte is written, so an    *)
(* overflow would leave the bytes before it written.                       *)
pio_write(cap, port, width, value) ==
  /\ IF width <= WidestPort /\ validate_range(cap, port, width)
     THEN /\ pio' = [p \in DOMAIN pio |-> IF p \in port..(port + width - 1)
                                         THEN BusByte(value, p - port) ELSE pio[p]]
          /\ Answer("pio", cap, port, width,
                    IF port + width <= PortEnd THEN "written" ELSE "RangeOverflow", value)
     ELSE Answer("pio", cap, port, width, "refused", 0) /\ UNCHANGED pio
  /\ UNCHANGED <<mmio, barrier_epoch>>

barrier ==
  /\ barrier_epoch < MaxBarriers
  /\ barrier_epoch' = barrier_epoch + 1
  /\ UNCHANGED <<mmio, pio, access>>

MmioNext ==
  \/ \E cap \in BusCaps, width \in Widths, address \in 0..(BusEnd - 1) :
       mmio_read(cap, address, width) \/ \E v \in BusValues : mmio_write(cap, address, width, v)
  \/ barrier

PioNext ==
  \E cap \in BusCaps, width \in Widths, port \in 0..(PortEnd - 1) :
    pio_read(cap, port, width) \/ \E v \in BusValues : pio_write(cap, port, width, v)
-----------------------------------------------------------------------------
Covered == access'.cap.base..(access'.cap.base + access'.cap.len - 1)

(* An access is whole and inside its capability.  Whatever was written     *)
(* before, and with whatever widths, an access that is refused changes no  *)
(* byte, one that is performed changes only bytes its capability covers    *)
(* and reads back, at the same width, what it wrote, and no port write     *)
(* stops half way with RangeOverflow: the alignment that validate_range    *)
(* checks keeps the last byte of an access below the last port.            *)
AccessesWhole ==
  [][access' # access =>
       /\ \A a \in DOMAIN mmio : mmio'[a] # mmio[a] =>
            access'.bus = "mmio" /\ access'.result = "written" /\ a \in Covered
       /\ \A p \in DOMAIN pio : pio'[p] # pio[p] =>
            access'.bus = "pio" /\ access'.result = "written" /\ p \in Covered
       /\ access'.result # "RangeOverflow"
       /\ access'.result = "written" =>
            access'.value % ByteValues^access'.width =
              ReadBytes(IF access'.bus = "mmio" THEN mmio' ELSE pio', access'.address, access'.width)
    ]_busVars
=============================================================================
