------------------------------ MODULE MCPciUser ------------------------------
(* Three slots, on two devices of one bus and on a second bus, and two kinds of
   device. *)
EXTENDS OsalPciUser

MCSlots == {<<0, 1, 0>>, <<0, 2, 1>>, <<1, 0, 0>>}
MCIrqOf == [s \in MCSlots |-> 10 + s[1]]
=============================================================================
