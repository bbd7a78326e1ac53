----------------------------- MODULE MCConnection -----------------------------
(***************************************************************************)
(* Small instances of Connection: players 1 (the packet router) and 2, and  *)
(* player 3, whose commands 1 relays.                                       *)
(***************************************************************************)
EXTENDS Connection

Cmd(p, n) == [type |-> GAMECOMMAND, player |-> p, id |-> n, number |-> n, original |-> p]

MCPlayer   == 1 .. 3
MCEndpoint == {1, 2}
First      == {1}
MCPeer     == [e \in MCEndpoint |-> 3 - e]

\* The router relays a command with the ID of one of his own.
RelayedSends == [e \in MCEndpoint |-> IF e = 1 THEN {{Cmd(1, 1)}, {Cmd(3, 1)}} ELSE {}]
FirstIDs     == [e \in MCEndpoint |-> {{Cmd(e, 0)}}]

=============================================================================
