----------------------------- MODULE MCWaiters -----------------------------
(* Waiters for TLC.  The clock may run on well past the longest wait, so a *)
(* loop that misses its limit is seen to miss it.                          *)
EXTENDS Waiters

MCHorizon ==
  (BuildTimeout + MigrationTimeout + AttachmentTimeout) * TicksPerSecond
    + BuildInterval + AttachmentInterval + 2 * MaxLatency
=============================================================================
