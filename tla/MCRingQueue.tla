---------------------------- MODULE MCRingQueue -----------------------------
(* A ring that starts at size 2 and may double twice.                      *)
EXTENDS RingQueue
=============================================================================
