---------------------------- MODULE VaultCustody ----------------------------
(***************************************************************************)
(* What an auction house promises to the owners of the vaults it           *)
(* liquidates.  A vault has a beneficiary, who never loses that title to   *)
(* the auction; collateral leaves a vault on auction only against a        *)
(* proportionate part of the debt; and the auction is over exactly when    *)
(* nothing is owed any more.  OldWitch implements this specification.      *)
(***************************************************************************)
EXTENDS Integers

CONSTANTS Vault, Party, WAD

VARIABLES
  beneficiary,  \* vault -> who has it, or gets it back after the auction
  onAuction,    \* vault -> BOOLEAN
  ink,          \* vault -> collateral
  art           \* vault -> debt

vars == <<beneficiary, onAuction, ink, art>>

TypeOK ==
  /\ beneficiary \in [Vault -> Party]
  /\ onAuction \in [Vault -> BOOLEAN]
  /\ ink \in [Vault -> Nat]
  /\ art \in [Vault -> Nat]

Init ==
  /\ beneficiary \in [Vault -> Party]
  /\ onAuction = [v \in Vault |-> FALSE]
  /\ ink = [v \in Vault |-> 0]
  /\ art = [v \in Vault |-> 0]

(* The beneficiary manages the vault, or hands it over.                    *)
Manage(v) ==
  /\ ~onAuction[v]
  /\ ink' \in [Vault -> Nat] /\ art' \in [Vault -> Nat]
  /\ \A w \in Vault \ {v} : ink'[w] = ink[w] /\ art'[w] = art[w]
  /\ UNCHANGED <<beneficiary, onAuction>>

HandOver(v) ==
  /\ ~onAuction[v]
  /\ \E p \in Party : beneficiary' = [beneficiary EXCEPT ![v] = p]
  /\ UNCHANGED <<onAuction, ink, art>>

Open(v) ==
  /\ ~onAuction[v]
  /\ art[v] > 0
  /\ onAuction' = [onAuction EXCEPT ![v] = TRUE]
  /\ UNCHANGED <<beneficiary, ink, art>>

(* c of collateral for d of debt: never more than the share d/art of the   *)
(* collateral, up to the rounding of the price in the buyer's favour.      *)
Proportionate(c, d, collateral, debt) ==
  c * debt * WAD <= d * (collateral * WAD + debt - 1)

Sell(v) ==
  /\ onAuction[v]
  /\ \E c \in 0..ink[v], d \in 0..art[v] :
       /\ Proportionate(c, d, ink[v], art[v])
       /\ ink' = [ink EXCEPT ![v] = @ - c]
       /\ art' = [art EXCEPT ![v] = @ - d]
       /\ onAuction' = [onAuction EXCEPT ![v] = d < art[v]]
  /\ UNCHANGED beneficiary

Next == \E v \in Vault : Manage(v) \/ HandOver(v) \/ Open(v) \/ Sell(v)

Spec == Init /\ [][Next]_vars
=============================================================================
