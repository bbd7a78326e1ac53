---------------------------- MODULE MCDisconnection ----------------------------
(* Instances of Disconnection: one player crashes, is slow or is voted out.    *)
EXTENDS Disconnection, TLC

Three == 0 .. 2
Four  == 0 .. 3
Nobody == {}
Router == {0}
FirstTwo == {0, 1}

=============================================================================
