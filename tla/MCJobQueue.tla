----------------------------- MODULE MCJobQueue -----------------------------
(* JobQueue for TLC.  Two workers are enough for one to reclaim what the    *)
(* other has in hand, and two jobs for a queue with an order.               *)
EXTENDS JobQueue
=============================================================================
