---------------------------- MODULE MCCommandLists ----------------------------
(***************************************************************************)
(* Small instances of CommandLists: two players and an ID space of six,     *)
(* which the commands of a run wrap around.                                 *)
(***************************************************************************)
EXTENDS CommandLists

MCPlayers == {1, 2}
MCThree   == {1, 2, 3}
ACKBOTH   == 0
MCTypes   == {4, 7}   \* GAMECOMMAND, RUNAHEAD
MCTypeOf  ==
  [p \in Players |-> [n \in 1 .. MaxIssued |-> IF n % 3 = 0 /\ p = 1 THEN 7 ELSE 4]]

AckBoth(from, number, of) ==
  [type |-> ACKBOTH, player |-> from, id |-> 0, number |-> number, original |-> of]

OneAck  == {AckBoth(1, 2, 2)}
\* Player 1 acknowledges the commands of two players that have the same ID
\* (every machine numbers its own from 0).
TwoAcks == {AckBoth(1, 2, 2), AckBoth(1, 2, 3)}

=============================================================================
