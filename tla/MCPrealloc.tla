----------------------------- MODULE MCPrealloc -----------------------------
(* Up to six threads; a ring of four and a limit of two, for 32 and 16.    *)
EXTENDS Prealloc
=============================================================================
