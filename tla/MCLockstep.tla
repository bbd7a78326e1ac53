----------------------------- MODULE MCLockstep -----------------------------
(***************************************************************************)
(* Small instances of Lockstep for TLC.                                     *)
(***************************************************************************)
EXTENDS LockstepInvariant, TLC

CONSTANTS
  RouterCommands,   \* commands the packet router may issue
  Talkers,          \* the other players who issue commands
  TalkerCommands    \* how many each of them may issue

MCMaxCommands ==
  [p \in Player |-> IF p = PacketRouter THEN RouterCommands
                    ELSE IF p \in Talkers THEN TalkerCommands ELSE 0]

=============================================================================
