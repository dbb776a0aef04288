------------------------------- MODULE MCWork -------------------------------
(* TLC instances of Work: two threads with up to three updates each and    *)
(* buffers of two, so that a thread runs full while the other fills, has   *)
(* finished, or runs full at the same time.                                *)
EXTENDS Work
=============================================================================
