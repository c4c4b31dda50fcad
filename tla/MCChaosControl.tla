--------------------------- MODULE MCChaosControl ---------------------------
(***************************************************************************)
(* Instance of ChaosControl.  With two directives, each of which may close *)
(* all workers, two queues need six worker objects.                        *)
(***************************************************************************)
EXTENDS ChaosControl

MCWindows == {1, 2}
=============================================================================
