----------------------------- MODULE MCScheduler -----------------------------
(* Small instances of Scheduler for TLC. The stack page has 16 cells, each   *)
(* thread the seven bytes it needs; the two texts lie in different pages.    *)
EXTENDS SchedulerProofs, TLC

MCTextLo == (0 :> 20) @@ (1 :> 30)
MCTextHi == (0 :> 5) @@ (1 :> 6)
MCOneByte == {9}
=============================================================================
