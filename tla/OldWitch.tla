------------------------------ MODULE OldWitch ------------------------------
(***************************************************************************)
(* The liquidation engine src/contracts/deprecated/OldWitch.sol: Dutch     *)
(* auctions of undercollateralized vaults.  Every transaction is one       *)
(* action, since a transaction is atomic and a failed require undoes it.   *)
(*                                                                         *)
(* The Cauldron (vaults, balances, spot prices), the Ladle (which Join     *)
(* holds an asset) and the Joins are contracts outside the repository's    *)
(* own sources; they are modelled from the calls OldWitch makes, together  *)
(* with what vault owners, oracles and governance may do between two       *)
(* transactions of the Witch.                                              *)
(***************************************************************************)
EXTENDS Integers, FiniteSetsExt

CONSTANTS
  User,        \* accounts that own vaults
  Witch,       \* address(this)
  NoOne,       \* address(0)
  Vault,       \* vault ids
  Ilk,         \* collateral assets
  IlkOf,       \* the collateral of each vault
  Base,        \* the asset in which debts are paid
  Ladles,      \* the Ladles the Witch can be pointed to
  HasJoin,     \* pairs <<ladle, asset>> for which ladle.joins(asset) # 0
  WAD,         \* the fixed-point one, 1e18 in the code
  IlkParams,   \* the parameters governance may give to an ilk
  Spots,       \* the spot prices the oracle may report
  Accruals,    \* the values of the debt accrual after maturity, WAD before
  Deltas,      \* the changes of ink and of art an owner may ask for
  MinInk,      \* the slippage limits a buyer may ask for
  MaxInk, MaxArt, MaxTime   \* bounds on a vault's ink and art and on the clock

Address == User \cup {Witch}

ASSUME AddressAssumption == NoOne \notin Address /\ Witch \notin User
ASSUME VaultAssumption == IsFiniteSet(Vault)
ASSUME IlkAssumption == IlkOf \in [Vault -> Ilk] /\ Base \notin Ilk
ASSUME WADAssumption == WAD \in Nat \ {0}
ASSUME ParamsAssumption ==
  /\ IlkParams \subseteq [duration: Nat, initialOffer: Nat, line: Nat, dust: Nat]
  /\ Spots \subseteq Nat /\ Accruals \subseteq Nat \ {0} /\ WAD \in Accruals
  /\ Deltas \subseteq Int /\ MinInk \subseteq Nat
  /\ MaxInk \in Nat /\ MaxArt \in Nat /\ MaxTime \in Nat \ {0}

VARIABLES
  auctions,     \* vault -> owner to give it back to, and start (0: no auction)
  ilks,         \* ilk -> duration and initialOffer
  limits,       \* ilk -> line, dust (both times 10**dec) and sum
  ladle,        \* the Ladle whose Joins settle the trades
  owner,        \* Cauldron: vaults[v].owner
  balances,     \* Cauldron: vault -> ink and art
  spot,         \* Cauldron: ilk -> value of one unit of ink, over the ratio
  accrual,      \* Cauldron: base owed per WAD of art
  stored,       \* Joins: ilk -> storedBalance (the base's only receives)
  orchestrated, \* whether Cauldron and Joins still accept calls from the Witch
  now           \* block.timestamp

witchVars == <<auctions, ilks, limits, ladle>>
envVars == <<spot, accrual, orchestrated, now>>
vars == <<witchVars, owner, balances, stored, envVars>>

-----------------------------------------------------------------------------
(* Fixed-point arithmetic (utils-v2 Math) and the auction price.           *)

DivUp(x, y) == (x + y - 1) \div y
WMul(x, y) == (x * y) \div WAD
WMulUp(x, y) == DivUp(x * y, WAD)
WDivUp(x, y) == DivUp(x * WAD, y)

(* Ink per art after `elapsed` seconds: it grows from initialOffer of the  *)
(* vault's ink/art ratio to all of it when the duration is over.           *)
InkPrice(bal, ilk, elapsed) ==
  LET term1 == WDivUp(bal.ink, bal.art)
      dividend2 == IF ilk.duration < elapsed THEN ilk.duration ELSE elapsed
      term2 == ilk.initialOffer
                 + WMulUp(WAD - ilk.initialOffer, WDivUp(dividend2, ilk.duration))
  IN  WMulUp(term1, term2)

Price(v) == InkPrice(balances[v], ilks[IlkOf[v]], now - auctions[v].start)

(* Debt in base terms and back.  The direction in which the Cauldron       *)
(* rounds is not visible in the repository: both are possible.             *)
DebtToBase(art) == {WMul(art, accrual), WMulUp(art, accrual)}
DebtFromBase(base) == {(base * WAD) \div accrual, WDivUp(base, accrual)}

-----------------------------------------------------------------------------
Init ==
  /\ auctions = [v \in Vault |-> [owner |-> NoOne, start |-> 0]]
  /\ ilks = [i \in Ilk |-> [duration |-> 0, initialOffer |-> 0]]
  /\ limits = [i \in Ilk |-> [line |-> 0, dust |-> 0, sum |-> 0]]
  /\ ladle \in Ladles
  /\ owner \in [Vault -> User]
  /\ balances = [v \in Vault |-> [ink |-> 0, art |-> 0]]
  /\ spot \in [Ilk -> Spots]
  /\ accrual = WAD
  /\ stored = [i \in Ilk |-> 0]
  /\ orchestrated = TRUE
  /\ now = 1

-----------------------------------------------------------------------------
(* The Cauldron and the Joins, as OldWitch calls them.                     *)

Level(bal, i) == bal.ink * spot[i] * WAD - bal.art * accrual

(* cauldron.slurp takes ink and art out of a vault; settle sends the ink   *)
(* from its Join to the buyer and the base from the buyer to its Join.     *)
(* Mutant: the Join forgets what it paid out.                              *)
SlurpAndSettle_NoExit(v, ink, art, base) ==
  /\ orchestrated
  /\ ink <= balances[v].ink
  /\ art <= balances[v].art
  /\ balances' = [balances EXCEPT ![v] = [ink |-> @.ink - ink, art |-> @.art - art]]
  /\ UNCHANGED stored

SlurpAndSettle(v, ink, art, base) ==
  /\ orchestrated
  /\ ink <= balances[v].ink
  /\ art <= balances[v].art
  /\ balances' = [balances EXCEPT ![v] = [ink |-> @.ink - ink, art |-> @.art - art]]
  /\ ink # 0 => <<ladle, IlkOf[v]>> \in HasJoin /\ stored[IlkOf[v]] >= ink
  /\ base # 0 => <<ladle, Base>> \in HasJoin
  /\ stored' = [stored EXCEPT ![IlkOf[v]] = @ - ink]

(* Mutant: the auction is not deleted when the vault goes back.            *)
GiveBack_NoDelete(v) ==
  /\ owner' = [owner EXCEPT ![v] = auctions[v].owner]
  /\ UNCHANGED auctions

GiveBack(v) ==
  /\ owner' = [owner EXCEPT ![v] = auctions[v].owner]
  /\ auctions' = [auctions EXCEPT ![v] = [owner |-> NoOne, start |-> 0]]

-----------------------------------------------------------------------------
(* The transactions of OldWitch.                                           *)

Point(l) ==
  /\ ladle' = l
  /\ UNCHANGED <<auctions, ilks, limits, owner, balances, stored, envVars>>

(* Mutants: `sum` is reset with the other limits; the offer is unchecked.  *)
SetIlk_ResetsSum(i, p) ==
  /\ p.initialOffer <= WAD
  /\ ilks' = [ilks EXCEPT ![i] =
       [duration |-> p.duration, initialOffer |-> p.initialOffer]]
  /\ limits' = [limits EXCEPT ![i] = [line |-> p.line, dust |-> p.dust, sum |-> 0]]
  /\ UNCHANGED <<auctions, ladle, owner, balances, stored, envVars>>

SetIlk_AnyOffer(i, p) ==
  /\ ilks' = [ilks EXCEPT ![i] =
       [duration |-> p.duration, initialOffer |-> p.initialOffer]]
  /\ limits' = [limits EXCEPT ![i] =
       [line |-> p.line, dust |-> p.dust, sum |-> @.sum]]
  /\ UNCHANGED <<auctions, ladle, owner, balances, stored, envVars>>

SetIlk(i, p) ==
  /\ p.initialOffer <= WAD
  /\ ilks' = [ilks EXCEPT ![i] =
       [duration |-> p.duration, initialOffer |-> p.initialOffer]]
  /\ limits' = [limits EXCEPT ![i] =
       [line |-> p.line, dust |-> p.dust, sum |-> @.sum]]
  /\ UNCHANGED <<auctions, ladle, owner, balances, stored, envVars>>

(* Mutants: the line is compared before adding; the owner is recorded      *)
(* after the vault was given away.                                         *)
Auction_LineBeforeAdding(v) ==
  LET i == IlkOf[v]
      newSum == limits[i].sum + balances[v].ink
  IN
  /\ auctions[v].start = 0
  /\ Level(balances[v], i) < 0
  /\ limits[i].sum <= limits[i].line
  /\ limits' = [limits EXCEPT ![i].sum = newSum]
  /\ auctions' = [auctions EXCEPT ![v] = [owner |-> owner[v], start |-> now]]
  /\ orchestrated
  /\ owner' = [owner EXCEPT ![v] = Witch]
  /\ UNCHANGED <<ilks, ladle, balances, stored, envVars>>

Auction_OwnerAfterGive(v) ==
  LET i == IlkOf[v]
      newSum == limits[i].sum + balances[v].ink
  IN
  /\ auctions[v].start = 0
  /\ Level(balances[v], i) < 0
  /\ newSum <= limits[i].line
  /\ limits' = [limits EXCEPT ![i].sum = newSum]
  /\ auctions' = [auctions EXCEPT ![v] = [owner |-> Witch, start |-> now]]
  /\ orchestrated
  /\ owner' = [owner EXCEPT ![v] = Witch]
  /\ UNCHANGED <<ilks, ladle, balances, stored, envVars>>

Auction(v) ==
  LET i == IlkOf[v]
      newSum == limits[i].sum + balances[v].ink
  IN
  /\ auctions[v].start = 0
  /\ Level(balances[v], i) < 0
  /\ newSum <= limits[i].line
  /\ limits' = [limits EXCEPT ![i].sum = newSum]
  /\ auctions' = [auctions EXCEPT ![v] = [owner |-> owner[v], start |-> now]]
  /\ orchestrated
  /\ owner' = [owner EXCEPT ![v] = Witch]
  /\ UNCHANGED <<ilks, ladle, balances, stored, envVars>>

(* buy: pay `base`, which retires `art`, for at least `min` ink.  The      *)
(* division by a zero duration reverts.                                    *)
Buy(v, base, art, min) ==
  LET i == IlkOf[v]
      ink == WMul(art, Price(v))
  IN
  /\ auctions[v].start > 0
  /\ balances[v].art > 0
  /\ art \in DebtFromBase(base)
  /\ ilks[i].duration > 0
  /\ ink >= min
  /\ \/ art = balances[v].art
     \/ balances[v].ink - ink >= limits[i].dust
  /\ limits[i].sum >= ink
  /\ limits' = [limits EXCEPT ![i].sum = @ - ink]
  /\ SlurpAndSettle(v, ink, art, base)
  /\ IF balances[v].art = art THEN GiveBack(v) ELSE UNCHANGED <<owner, auctions>>
  /\ UNCHANGED <<ilks, ladle, envVars>>

(* Mutant: the rounded-up ink is not capped at what the vault holds.       *)
PayAllInk_Uncapped(v) == WMul(balances[v].art, Price(v))

PayAllInk(v) ==
  LET ink == WMul(balances[v].art, Price(v))
  IN  IF ink > balances[v].ink THEN balances[v].ink ELSE ink

PayAll(v, base, min) ==
  LET i == IlkOf[v]
      ink == PayAllInk(v)
  IN
  /\ auctions[v].start > 0
  /\ balances[v].art > 0
  /\ ilks[i].duration > 0
  /\ WMul(balances[v].art, Price(v)) >= min
  /\ limits[i].sum >= ink
  /\ limits' = [limits EXCEPT ![i].sum = @ - ink]
  /\ base \in DebtToBase(balances[v].art)
  /\ SlurpAndSettle(v, ink, balances[v].art, base)
  /\ GiveBack(v)
  /\ UNCHANGED <<ilks, ladle, envVars>>

-----------------------------------------------------------------------------
(* What happens around the Witch.  Only the owner of a vault can pour into *)
(* it or give it away, and the Witch never does.                           *)

Pour(v, dink, dart) ==
  LET ink == balances[v].ink + dink
      art == balances[v].art + dart
      bal == [ink |-> ink, art |-> art]
  IN
  /\ owner[v] \in User
  /\ ink \in 0..MaxInk /\ art \in 0..MaxArt
  /\ art > 0 /\ (dink < 0 \/ dart > 0) => Level(bal, IlkOf[v]) >= 0
  /\ stored[IlkOf[v]] + dink >= 0
  /\ balances' = [balances EXCEPT ![v] = bal]
  /\ stored' = [stored EXCEPT ![IlkOf[v]] = @ + dink]
  /\ UNCHANGED <<witchVars, owner, envVars>>

Give(v, to) ==
  /\ owner[v] \in User
  /\ owner' = [owner EXCEPT ![v] = to]
  /\ UNCHANGED <<witchVars, balances, stored, envVars>>

MoveSpot(i, s) ==
  /\ spot' = [spot EXCEPT ![i] = s]
  /\ UNCHANGED <<witchVars, owner, balances, stored, accrual, orchestrated, now>>

Accrue(a) ==
  /\ a >= accrual
  /\ accrual' = a
  /\ UNCHANGED <<witchVars, owner, balances, stored, spot, orchestrated, now>>

(* Governance: replaceWitch.ts takes the Witch's permissions away, the     *)
(* orchestration fragment grants them.                                     *)
Orchestrate(b) ==
  /\ orchestrated' = b
  /\ UNCHANGED <<witchVars, owner, balances, stored, spot, accrual, now>>

Tick ==
  /\ now < MaxTime
  /\ now' = now + 1
  /\ UNCHANGED <<witchVars, owner, balances, stored, spot, accrual, orchestrated>>

-----------------------------------------------------------------------------
Trade(v) ==
  \/ Auction(v)
  \/ \E base \in 0..WMulUp(MaxArt, accrual) : \E art \in DebtFromBase(base), min \in MinInk :
       Buy(v, base, art, min)
  \/ \E base \in DebtToBase(balances[v].art), min \in MinInk : PayAll(v, base, min)

Environment ==
  \/ \E v \in Vault :
       \/ \E dink \in Deltas, dart \in Deltas : Pour(v, dink, dart)
       \/ \E to \in Address : Give(v, to)
  \/ \E i \in Ilk, s \in Spots : MoveSpot(i, s)
  \/ \E a \in Accruals : Accrue(a)
  \/ \E b \in BOOLEAN : Orchestrate(b)
  \/ Tick

Next ==
  \/ \E v \in Vault : Trade(v)
  \/ \E l \in Ladles : Point(l)
  \/ \E i \in Ilk, p \in IlkParams : SetIlk(i, p)
  \/ Environment

Spec == Init /\ [][Next]_vars

-----------------------------------------------------------------------------
(* Properties.                                                             *)

UnderAuction(v) == auctions[v].start > 0
Auctioned(i) == {v \in Vault : IlkOf[v] = i /\ UnderAuction(v)}
SumInk(V) == MapThenSumSet(LAMBDA v : balances[v].ink, V)

(* Every variable has its type; no balance, limit or Join goes below zero. *)
TypeOK ==
  /\ auctions \in [Vault -> [owner: Address \cup {NoOne}, start: Nat]]
  /\ ilks \in [Ilk -> [duration: Nat, initialOffer: 0..WAD]]
  /\ limits \in [Ilk -> [line: Nat, dust: Nat, sum: Nat]]
  /\ ladle \in Ladles
  /\ owner \in [Vault -> Address]
  /\ balances \in [Vault -> [ink: Nat, art: Nat]]
  /\ spot \in [Ilk -> Nat]
  /\ accrual \in Nat \ {0}
  /\ stored \in [Ilk -> Nat]
  /\ orchestrated \in BOOLEAN
  /\ now \in Nat \ {0}

(* A vault under auction is held by the Witch, remembers somebody to give  *)
(* it back to, has a start that is not in the future, and still owes       *)
(* something: without debt both buy and payAll stop at "Nothing to buy"    *)
(* and the vault could never leave the auction.                            *)
AuctionedVaultIsHeld ==
  \A v \in Vault : UnderAuction(v) =>
    /\ owner[v] = Witch
    /\ auctions[v].owner # NoOne
    /\ auctions[v].start <= now
    /\ balances[v].art > 0

(* `sum` never falls below the collateral that is really under auction, so *)
(* that the line bounds it and `sum -= ink` never makes a purchase revert. *)
SumCoversAuctions == \A i \in Ilk : limits[i].sum >= SumInk(Auctioned(i))

(* The Join of an ilk holds exactly the collateral of its vaults: what the *)
(* Witch takes out of a vault and what the Join pays out are the same.     *)
JoinBacksVaults ==
  \A i \in Ilk : stored[i] = SumInk({v \in Vault : IlkOf[v] = i})

(* No auction is wedged: while the Witch has its permissions, its ilk has  *)
(* a duration and the Ladle knows both Joins, payAll goes through on every *)
(* vault under auction, whatever buyers and governance did before.         *)
PayAllGoesThrough ==
  \A v \in Vault :
    LET i == IlkOf[v] IN
    UnderAuction(v) /\ ilks[i].duration > 0 =>
      /\ balances[v].art > 0
      /\ limits[i].sum >= PayAllInk(v)
      /\ stored[i] >= PayAllInk(v)
      /\ PayAllInk(v) <= balances[v].ink

(* Opening an auction never takes the collateral under auction over the    *)
(* line of its ilk, whatever was bought, returned or reconfigured before.  *)
AuctionRespectsLine ==
  [][\A v \in Vault :
       ~UnderAuction(v) /\ UnderAuction(v)'
         => SumInk(Auctioned(IlkOf[v]))' <= limits[IlkOf[v]].line]_vars

(* The comment of `sum` (OldWitch.sol:35): "Current concurrent auctioned   *)
(* collateral".                                                            *)
SumIsAuctionedCollateral == \A i \in Ilk : limits[i].sum = SumInk(Auctioned(i))

(* The auctions keep the promises made to vault owners.                    *)
Custody == INSTANCE VaultCustody WITH
  Party <- Address,
  beneficiary <- [v \in Vault |->
                    IF auctions[v].start > 0 THEN auctions[v].owner ELSE owner[v]],
  onAuction <- [v \in Vault |-> auctions[v].start > 0],
  ink <- [v \in Vault |-> balances[v].ink],
  art <- [v \in Vault |-> balances[v].art]

CustodySpec == Custody!Spec
=============================================================================
