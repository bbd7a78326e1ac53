---------------------------- MODULE MCPacketRouter ----------------------------
(* Instances of PacketRouter: slot 0 routes, and leaves the game or crashes.  *)
EXTENDS PacketRouter, TLC

CONSTANTS order, leave

Three == <<0, 1, 2>>
Four  == <<0, 1, 2, 3>>
Nobody == {}
First  == {0}

\* Player 2's command is under way while the router leaves or crashes.
COwner == (order :> 2) @@ (leave :> 0)
CFrame == (order :> 4) @@ (leave :> 4)
OneCommand == {order, leave}
TheLeave  == {leave}

\* A command for the frame the router leaves at.
EFrame == (order :> 3) @@ (leave :> 3)

=============================================================================
