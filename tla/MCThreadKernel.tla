--------------------------- MODULE MCThreadKernel ---------------------------
(* One thread and its owner, who may create the thread again. *)
EXTENDS OsalThreadKernel
=============================================================================
