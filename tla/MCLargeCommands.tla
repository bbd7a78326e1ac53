---------------------------- MODULE MCLargeCommands ----------------------------
(* Instances of LargeCommands: a router r, two other players, and commands of *)
(* two or three chunks.                                                       *)
EXTENDS LargeCommands, TLC

CONSTANTS r, a, b, big, huge

MCPlayer == {r, a, b}
MCRouter == r
MCLarge  == {big, huge}
OneLarge == {big}
MCOrigin == (big :> a) @@ (huge :> r)
OneOrigin == big :> a
Ids      == (big :> 1) @@ (huge :> 2)
SameIds  == (big :> 1) @@ (huge :> 1)
OneId    == big :> 1
MCChunks == (big :> 2) @@ (huge :> 2)
OneChunks == big :> 2
MCRelay  == (big :> {r, b}) @@ (huge :> {a, b})
OneRelay == big :> {r, b}

=============================================================================
