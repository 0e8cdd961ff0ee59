----------------------------- MODULE MCOldWitch -----------------------------
(* Instances of OldWitch for TLC.                                          *)
EXTENDS OldWitch, TLC

CONSTANT eth

MCIlkOf == [v \in Vault |-> eth]
MCHasJoin == Ladles \X {eth, Base}

(* A usual configuration; one without dust that starts lower; and one with *)
(* no duration, whose auctions nobody can buy from; and one setIlk rejects. *)
MCIlkParams == {
  [duration |-> 2, initialOffer |-> 1, line |-> 4, dust |-> 1],
  [duration |-> 1, initialOffer |-> 0, line |-> 3, dust |-> 0],
  [duration |-> 0, initialOffer |-> 2, line |-> 4, dust |-> 0],
  [duration |-> 1, initialOffer |-> 3, line |-> 4, dust |-> 0]}

MCDeltas == {-2, 0, 3}

Symmetry == Permutations(Vault)
=============================================================================
