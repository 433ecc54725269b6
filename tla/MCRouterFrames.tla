--------------------------- MODULE MCRouterFrames ---------------------------
(***************************************************************************)
(* Instances of RouterFrames for TLC: the two threads of the broker and    *)
(* the worker of a run.                                                    *)
(***************************************************************************)
EXTENDS RouterFrames

CONSTANTS main, heartbeat, w1
=============================================================================
