------------------------------ MODULE MCLanLobby ------------------------------
(* Instances of LanLobby: one or two joiners, one or two slots. *)
EXTENDS LanLobby, TLC

CONSTANTS ann, bob

One == {ann}
Two == {ann, bob}
Nobody == {}
Nothing == {}
Accepts == {"yes"}
AllAsks == {"yes", "rules", "looks", "inactive"}
AcceptsAndLooks == {"yes", "looks"}
OpenOnly == {Open}
OpenOrClosed == {Open, Closed}
OneSlot == {1}
TwoSlots == {1, 2}
=============================================================================
