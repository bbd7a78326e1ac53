---------------------------- MODULE MCSleepyUpdates ----------------------------
(* Instances of SleepyUpdates: objects with an AI (phase 0), a firing tracker   *)
(* (phase 3) and modules of the normal phase.                                  *)
EXTENDS SleepyUpdates

Six == 1 .. 6
ThreeObjects == <<"a", "a", "a", "b", "b", "c">>
ByObject == [a |-> <<1, 2, 3>>, b |-> <<4, 5>>, c |-> <<6>>]
SixPhases == <<0, 2, 3, 3, 2, 0>>

=============================================================================
