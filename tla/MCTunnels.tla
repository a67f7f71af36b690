----------------------------- MODULE MCTunnels -----------------------------
(* Model-checking definitions for Tunnels: the root commutator has a ship in
   its slot, which is a commutator as well. *)
EXTENDS Tunnels, TLC

CONSTANTS rootCom, ship

EmptyShip == (rootCom :> {ship}) @@ (ship :> {})
ShipOnly == rootCom :> {ship}

TokenSymmetry == Permutations(Tokens)
=============================================================================
