------------------------------ MODULE MCKernel ------------------------------
(***************************************************************************)
(* Init and two more processes, and a timeout of two units of time.        *)
(***************************************************************************)
EXTENDS Kernel
=============================================================================
