------------------------------ MODULE MCPlatform ------------------------------
(***************************************************************************)
(* Machines and fw_cfg directories for model checking Platform.            *)
(***************************************************************************)
EXTENDS Platform

Machine(discovered, on, bsp, apic, mute) ==
  [discovered |-> discovered, enabled |-> on, bsp |-> bsp, apic |-> apic, mute |-> mute]

(* n processors whose APIC ids are their numbers. *)
Plain(n) == [p \in 0..(n - 1) |-> p]

MCTopologies ==
  { Machine(1, {0}, 0, Plain(1), {}),                           \* alone
    Machine(3, 0..2, 2, Plain(3), {}),                          \* full, the BSP last
    Machine(3, {0, 1}, 0, Plain(3), {}),                        \* the last disabled
    Machine(3, {0, 2}, 0, Plain(3), {}),                        \* a gap in the numbers
    Machine(4, {0, 3}, 0, Plain(4), {}),                        \* a number out of range
    Machine(4, 0..3, 0, Plain(4), {}),                          \* too many
    Machine(3, 0..2, 1, [Plain(3) EXCEPT ![2] = 1], {}),        \* two with one APIC id
    Machine(3, 0..2, 0, [Plain(3) EXCEPT ![2] = 3], {}),        \* an APIC id out of range
    Machine(2, 0..1, 0, Plain(2), {<<1, "ap_entry">>}),         \* the only AP mute
    Machine(3, 0..2, 0, Plain(3), {<<1, "ap_entry">>}),         \* one of two APs mute
    Machine(3, 0..2, 0, Plain(3), {<<2, "ipi_entry">>}) }       \* one mute later on

FailAp(size, bytes) == [name |-> "opt/thermite/fail-ap", size |-> size, bytes |-> bytes]
Power(size, word) == [name |-> "opt/thermite/power", size |-> size, word |-> word]
Other == [name |-> "other", size |-> 0]

MCFwCfgs ==
  { <<>>, <<FailAp(1, <<1>>), Other>>,
    <<FailAp(2, <<1, Newline>>), FailAp(2, <<0, 2>>), Power(1, "reboot")>>,
    <<FailAp(2, <<2, Letter>>)>>, <<FailAp(2, <<2, 6>>)>>, <<FailAp(1, <<NUL>>)>>,
    <<FailAp(3, <<0, 0, 0>>)>>, <<FailAp(5, <<1, NUL, 0, 0, 0>>)>>,
    <<Power(1, "poweroff"), Power(3, "other")>>, <<Power(0, "other")>>,
    <<Power(4, "poweroff")>>, <<Other, Other, Other, Other>> }

(* All the bytes differ, so no wrong one can pass for the right one. *)
MCContents == [a \in 0..6 |-> a]
=============================================================================
