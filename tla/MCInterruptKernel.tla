-------------------------- MODULE MCInterruptKernel --------------------------
(* Two drivers share the line, and either may release and acquire it again. *)
EXTENDS OsalInterruptKernel
=============================================================================
