------------------------------ MODULE MCLifecycle ------------------------------
(***************************************************************************)
(* A small instance of Lifecycle: three processes, so that a deployment    *)
(* can stop one, start another, and meet a third, and a few incidents.     *)
(***************************************************************************)
EXTENDS Lifecycle, TLC
=============================================================================
