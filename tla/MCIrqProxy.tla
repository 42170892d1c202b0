----------------------------- MODULE MCIrqProxy -----------------------------
(* One device, its proxy, one reading thread and its owner. *)
EXTENDS OsalIrqProxy
=============================================================================
