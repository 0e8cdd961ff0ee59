--------------------------- MODULE OldWitchProofs ---------------------------
(***************************************************************************)
(* Proofs about OldWitch, for every set of vaults, every WAD and every     *)
(* choice of parameters.                                                   *)
(***************************************************************************)
EXTENDS OldWitch, FiniteSetTheorems, TLAPS

-----------------------------------------------------------------------------
(* The arithmetic of prices stays in the naturals.                         *)

LEMMA DivType ==
  ASSUME NEW x \in Nat, NEW y \in Nat \ {0}
  PROVE  x \div y \in Nat
  OBVIOUS

LEMMA ProductType ==
  ASSUME NEW x \in Nat, NEW y \in Nat
  PROVE  x * y \in Nat
  OBVIOUS

LEMMA LessOneType ==
  ASSUME NEW x \in Nat, NEW y \in Nat \ {0}
  PROVE  x + y - 1 \in Nat
  OBVIOUS

LEMMA DivUpType ==
  ASSUME NEW x \in Nat, NEW y \in Nat \ {0}
  PROVE  DivUp(x, y) \in Nat
  <1> QED BY LessOneType, DivType DEF DivUp

LEMMA WadType ==
  ASSUME NEW x \in Nat, NEW y \in Nat
  PROVE  /\ WMul(x, y) \in Nat
         /\ WMulUp(x, y) \in Nat
         /\ y # 0 => WDivUp(x, y) \in Nat
  <1>1. x * y \in Nat /\ x * WAD \in Nat
    BY ProductType, WADAssumption
  <1>2. WMul(x, y) \in Nat
    BY <1>1, DivType, WADAssumption DEF WMul
  <1>3. WMulUp(x, y) \in Nat
    BY <1>1, DivUpType, WADAssumption DEF WMulUp
  <1>4. y # 0 => WDivUp(x, y) \in Nat
    BY <1>1, DivUpType DEF WDivUp
  <1> QED BY <1>2, <1>3, <1>4

LEMMA InkPriceType ==
  ASSUME NEW bal \in [ink: Nat, art: Nat], bal.art > 0,
         NEW ilk \in [duration: Nat, initialOffer: 0..WAD], ilk.duration > 0,
         NEW elapsed \in Nat
  PROVE  InkPrice(bal, ilk, elapsed) \in Nat
  <1> DEFINE dividend2 == IF ilk.duration < elapsed THEN ilk.duration ELSE elapsed
             slope == WMulUp(WAD - ilk.initialOffer, WDivUp(dividend2, ilk.duration))
  <1>1. WDivUp(bal.ink, bal.art) \in Nat
    BY WadType
  <1>2. WDivUp(dividend2, ilk.duration) \in Nat
    <2>1. dividend2 \in Nat /\ ilk.duration \in Nat /\ ilk.duration # 0
      OBVIOUS
    <2> HIDE DEF dividend2
    <2> QED BY <2>1, WadType
  <1>3. WAD - ilk.initialOffer \in Nat /\ ilk.initialOffer \in Nat
    BY WADAssumption
  <1>4. slope \in Nat
    BY <1>2, <1>3, WadType
  <1>5. ilk.initialOffer + slope \in Nat
    BY <1>3, <1>4
  <1> HIDE DEF slope
  <1>6. InkPrice(bal, ilk, elapsed) = WMulUp(WDivUp(bal.ink, bal.art), ilk.initialOffer + slope)
    BY DEF InkPrice, slope
  <1> QED BY <1>1, <1>5, <1>6, WadType

-----------------------------------------------------------------------------
(* TypeOK alone is not inductive: the price of a vault is a natural number *)
(* because its auction did not start in the future and its debt is not     *)
(* zero, which AuctionedVaultIsHeld says.  The two are inductive together. *)

Inv == TypeOK /\ AuctionedVaultIsHeld

LEMMA SoldType ==
  ASSUME Inv, NEW v \in Vault, UnderAuction(v), ilks[IlkOf[v]].duration > 0
  PROVE  /\ Price(v) \in Nat
         /\ \A art \in Nat : WMul(art, Price(v)) \in Nat
         /\ PayAllInk(v) \in Nat
  <1> USE IlkAssumption DEF Inv, TypeOK
  <1>1. /\ balances[v] \in [ink: Nat, art: Nat] /\ balances[v].art > 0
        /\ ilks[IlkOf[v]] \in [duration: Nat, initialOffer: 0..WAD]
        /\ now - auctions[v].start \in Nat
    BY DEF AuctionedVaultIsHeld
  <1>2. Price(v) \in Nat
    BY <1>1, InkPriceType DEF Price
  <1>3. \A art \in Nat : WMul(art, Price(v)) \in Nat
    BY <1>2, WadType
  <1>4. PayAllInk(v) \in Nat
    BY <1>1, <1>3 DEF PayAllInk
  <1> QED BY <1>2, <1>3, <1>4

LEMMA DebtType ==
  ASSUME Inv
  PROVE  /\ \A base \in Nat : DebtFromBase(base) \subseteq Nat
         /\ WMulUp(MaxArt, accrual) \in Nat
  <1>1. accrual \in Nat \ {0}
    BY DEF Inv, TypeOK
  <1>2. ASSUME NEW base \in Nat
        PROVE  DebtFromBase(base) \subseteq Nat
    <2>1. (base * WAD) \div accrual \in Nat
      BY <1>1, ProductType, DivType, WADAssumption
    <2>2. WDivUp(base, accrual) \in Nat
      BY <1>1, WadType
    <2> QED BY <2>1, <2>2 DEF DebtFromBase
  <1>3. WMulUp(MaxArt, accrual) \in Nat
    BY <1>1, WadType, ParamsAssumption
  <1> QED BY <1>2, <1>3

LEMMA InitInv == Init => Inv
  <1> SUFFICES ASSUME Init PROVE Inv
    OBVIOUS
  <1>1. /\ auctions \in [Vault -> [owner: Address \cup {NoOne}, start: Nat]]
        /\ ilks \in [Ilk -> [duration: Nat, initialOffer: 0..WAD]]
        /\ limits \in [Ilk -> [line: Nat, dust: Nat, sum: Nat]]
        /\ balances \in [Vault -> [ink: Nat, art: Nat]]
        /\ stored \in [Ilk -> Nat]
    BY WADAssumption DEF Init
  <1>2. owner \in [Vault -> Address] /\ spot \in [Ilk -> Nat]
    BY ParamsAssumption DEF Init, Address
  <1>3. /\ ladle \in Ladles /\ accrual \in Nat \ {0}
        /\ orchestrated \in BOOLEAN /\ now \in Nat \ {0}
    BY WADAssumption DEF Init
  <1>4. AuctionedVaultIsHeld
    BY DEF Init, AuctionedVaultIsHeld, UnderAuction
  <1> QED BY <1>1, <1>2, <1>3, <1>4 DEF Inv, TypeOK

LEMMA AuctionInv ==
  ASSUME Inv, NEW v \in Vault, Auction(v)
  PROVE  Inv'
  <1> USE IlkAssumption DEF Inv, Auction, envVars
  <1>1. /\ owner[v] \in Address /\ Witch \in Address
        /\ owner[v] # NoOne
    BY AddressAssumption DEF TypeOK, Address
  <1>2. limits[IlkOf[v]].sum + balances[v].ink \in Nat
    <2>1. limits[IlkOf[v]].sum \in Nat /\ balances[v].ink \in Nat
      BY DEF TypeOK
    <2> QED BY <2>1
  <1>3. TypeOK'
    BY <1>1, <1>2 DEF TypeOK
  <1>4. balances[v].art > 0
    <2>1. spot[IlkOf[v]] \in Nat /\ balances[v].ink \in Nat /\ balances[v].art \in Nat
      BY DEF TypeOK
    <2>2. balances[v].ink * spot[IlkOf[v]] * WAD \in Nat
      BY <2>1, ProductType, WADAssumption
    <2>3. balances[v].ink * spot[IlkOf[v]] * WAD - balances[v].art * accrual < 0
      BY DEF Level
    <2>4. accrual \in Nat
      BY DEF TypeOK
    <2>5. CASE balances[v].art = 0
      <3>1. balances[v].art * accrual = 0
        BY <2>4, <2>5
      <3> QED BY <2>2, <2>3, <3>1
    <2> QED BY <2>1, <2>5
  <1>5. AuctionedVaultIsHeld'
    BY <1>1, <1>4 DEF AuctionedVaultIsHeld, TypeOK, UnderAuction
  <1> QED BY <1>3, <1>5

(* A settlement leaves no negative balance and touches only its vault.     *)
LEMMA SlurpAndSettleType ==
  ASSUME Inv, NEW v \in Vault, NEW ink \in Nat, NEW art \in Nat, NEW base,
         SlurpAndSettle(v, ink, art, base)
  PROVE  /\ balances' \in [Vault -> [ink: Nat, art: Nat]]
         /\ stored' \in [Ilk -> Nat]
         /\ balances'[v] = [ink |-> balances[v].ink - ink, art |-> balances[v].art - art]
         /\ \A w \in Vault \ {v} : balances'[w] = balances[w]
  <1> USE IlkAssumption DEF Inv, TypeOK, SlurpAndSettle
  <1>1. balances[v].ink - ink \in Nat /\ balances[v].art - art \in Nat
    <2>1. balances[v].ink \in Nat /\ balances[v].art \in Nat
      OBVIOUS
    <2>2. ink <= balances[v].ink /\ art <= balances[v].art
      OBVIOUS
    <2> QED BY <2>1, <2>2
  <1>2. stored[IlkOf[v]] - ink \in Nat
    <2>1. stored[IlkOf[v]] \in Nat
      OBVIOUS
    <2>2. ink # 0 => stored[IlkOf[v]] >= ink
      OBVIOUS
    <2> QED BY <2>1, <2>2
  <1> QED BY <1>1, <1>2

(* Giving a vault back ends its auction, whoever gets it.                  *)
LEMMA GiveBackInv ==
  ASSUME Inv, NEW v \in Vault, UnderAuction(v), GiveBack(v),
         balances' \in [Vault -> [ink: Nat, art: Nat]],
         \A w \in Vault \ {v} : balances'[w] = balances[w],
         now' = now
  PROVE  /\ owner' \in [Vault -> Address]
         /\ auctions' \in [Vault -> [owner: Address \cup {NoOne}, start: Nat]]
         /\ AuctionedVaultIsHeld'
  <1> USE DEF Inv, TypeOK, AuctionedVaultIsHeld, UnderAuction, GiveBack
  <1>1. auctions[v].owner \in Address
    OBVIOUS
  <1>2. /\ owner' \in [Vault -> Address]
        /\ auctions' \in [Vault -> [owner: Address \cup {NoOne}, start: Nat]]
    BY <1>1
  <1>3. AuctionedVaultIsHeld'
    OBVIOUS
  <1> QED BY <1>2, <1>3

LEMMA BuyInv ==
  ASSUME Inv, NEW v \in Vault, NEW base \in Nat, NEW art, NEW min,
         Buy(v, base, art, min)
  PROVE  Inv'
  <1> DEFINE i == IlkOf[v]
             ink == WMul(art, Price(v))
  <1>1. /\ i \in Ilk /\ art \in Nat /\ ink \in Nat
        /\ UnderAuction(v) /\ limits[i].sum >= ink
    BY SoldType, DebtType, IlkAssumption DEF Buy, UnderAuction
  <1>2. SlurpAndSettle(v, ink, art, base) /\ UNCHANGED <<ilks, ladle, envVars>>
    BY DEF Buy
  <1>3. /\ balances' \in [Vault -> [ink: Nat, art: Nat]]
        /\ stored' \in [Ilk -> Nat]
        /\ balances'[v] = [ink |-> balances[v].ink - ink, art |-> balances[v].art - art]
        /\ \A w \in Vault \ {v} : balances'[w] = balances[w]
    BY <1>1, <1>2, SlurpAndSettleType
  <1>4. limits' \in [Ilk -> [line: Nat, dust: Nat, sum: Nat]]
    <2>1. limits[i] \in [line: Nat, dust: Nat, sum: Nat]
      BY <1>1 DEF Inv, TypeOK
    <2>2. limits[i].sum - ink \in Nat
      <3>1. limits[i].sum \in Nat
        BY <2>1
      <3> QED BY <1>1, <3>1
    <2>3. limits' = [limits EXCEPT ![i].sum = @ - ink]
      BY DEF Buy
    <2> HIDE DEF i, ink
    <2> QED BY <1>1, <2>1, <2>2, <2>3 DEF Inv, TypeOK
  <1>5. /\ owner' \in [Vault -> Address]
        /\ auctions' \in [Vault -> [owner: Address \cup {NoOne}, start: Nat]]
        /\ AuctionedVaultIsHeld'
    <2>1. CASE balances[v].art = art
      <3>1. GiveBack(v) /\ now' = now
        BY <1>2, <2>1 DEF Buy, envVars
      <3> QED BY <1>1, <1>3, <3>1, GiveBackInv
    <2>2. CASE balances[v].art # art
      <3>1. owner' = owner /\ auctions' = auctions /\ now' = now
        BY <1>2, <2>2 DEF Buy, envVars
      <3>2. balances'[v].art > 0
        <4>1. balances[v].art \in Nat /\ art <= balances[v].art
          BY <1>2 DEF Inv, TypeOK, SlurpAndSettle
        <4> QED BY <1>1, <1>3, <2>2, <4>1
      <3> QED BY <1>1, <1>3, <3>1, <3>2 DEF Inv, TypeOK, AuctionedVaultIsHeld, UnderAuction
    <2> QED BY <2>1, <2>2
  <1> QED BY <1>2, <1>3, <1>4, <1>5 DEF Inv, TypeOK, envVars

LEMMA PayAllInv ==
  ASSUME Inv, NEW v \in Vault, NEW base, NEW min, PayAll(v, base, min)
  PROVE  Inv'
  <1> DEFINE i == IlkOf[v]
             ink == PayAllInk(v)
             art == balances[v].art
  <1>1. /\ i \in Ilk /\ art \in Nat /\ ink \in Nat
        /\ UnderAuction(v) /\ limits[i].sum >= ink
    BY SoldType, IlkAssumption DEF PayAll, UnderAuction, Inv, TypeOK
  <1>2. /\ SlurpAndSettle(v, ink, art, base) /\ GiveBack(v)
        /\ UNCHANGED <<ilks, ladle, envVars>>
    BY DEF PayAll
  <1>3. /\ balances' \in [Vault -> [ink: Nat, art: Nat]]
        /\ stored' \in [Ilk -> Nat]
        /\ \A w \in Vault \ {v} : balances'[w] = balances[w]
    BY <1>1, <1>2, SlurpAndSettleType
  <1>4. limits' \in [Ilk -> [line: Nat, dust: Nat, sum: Nat]]
    <2>1. limits[i] \in [line: Nat, dust: Nat, sum: Nat]
      BY <1>1 DEF Inv, TypeOK
    <2>2. limits[i].sum - ink \in Nat
      <3>1. limits[i].sum \in Nat
        BY <2>1
      <3> QED BY <1>1, <3>1
    <2>3. limits' = [limits EXCEPT ![i].sum = @ - ink]
      BY DEF PayAll
    <2> HIDE DEF i, ink
    <2> QED BY <1>1, <2>1, <2>2, <2>3 DEF Inv, TypeOK
  <1>5. /\ owner' \in [Vault -> Address]
        /\ auctions' \in [Vault -> [owner: Address \cup {NoOne}, start: Nat]]
        /\ AuctionedVaultIsHeld'
    BY <1>1, <1>2, <1>3, GiveBackInv DEF envVars
  <1> QED BY <1>2, <1>3, <1>4, <1>5 DEF Inv, TypeOK, envVars

(* No owner can disturb a vault under auction, because the Witch owns it.  *)
LEMMA EnvironmentInv ==
  ASSUME Inv, Environment
  PROVE  Inv'
  <1> USE DEF witchVars, envVars
  <1>1. ASSUME NEW v \in Vault, NEW dink \in Deltas, NEW dart \in Deltas, Pour(v, dink, dart)
        PROVE  Inv'
    <2> DEFINE ink == balances[v].ink + dink
               art == balances[v].art + dart
    <2>1. ink \in Nat /\ art \in Nat
      BY <1>1, ParamsAssumption DEF Pour
    <2>2. balances' = [balances EXCEPT ![v] = [ink |-> ink, art |-> art]]
      BY <1>1 DEF Pour
    <2>3. balances' \in [Vault -> [ink: Nat, art: Nat]] /\ \A w \in Vault \ {v} : balances'[w] = balances[w]
      <3> HIDE DEF ink, art
      <3> QED BY <2>1, <2>2 DEF Inv, TypeOK
    <2>4. stored' \in [Ilk -> Nat]
      <3>1. IlkOf[v] \in Ilk /\ stored[IlkOf[v]] \in Nat /\ dink \in Int
        BY IlkAssumption, ParamsAssumption DEF Inv, TypeOK
      <3>2. stored[IlkOf[v]] + dink \in Nat
        BY <1>1, <3>1 DEF Pour
      <3> QED BY <1>1, <3>1, <3>2 DEF Pour, Inv, TypeOK
    <2>5. ~UnderAuction(v)
      BY <1>1, AddressAssumption DEF Inv, AuctionedVaultIsHeld, Pour
    <2>6. /\ auctions' = auctions /\ ilks' = ilks /\ limits' = limits /\ ladle' = ladle
          /\ owner' = owner /\ UNCHANGED envVars
      BY <1>1 DEF Pour
    <2> QED BY <2>3, <2>4, <2>5, <2>6 DEF Inv, TypeOK, AuctionedVaultIsHeld, UnderAuction
  <1>2. ASSUME NEW v \in Vault, NEW to \in Address, Give(v, to)
        PROVE  Inv'
    <2>1. ~UnderAuction(v)
      BY <1>2, AddressAssumption DEF Inv, AuctionedVaultIsHeld, Give
    <2> QED BY <1>2, <2>1 DEF Inv, TypeOK, AuctionedVaultIsHeld, UnderAuction, Give
  <1>3. ASSUME NEW j \in Ilk, NEW x \in Spots, MoveSpot(j, x)
        PROVE  Inv'
    BY <1>3, ParamsAssumption DEF Inv, TypeOK, AuctionedVaultIsHeld, UnderAuction, MoveSpot
  <1>4. ASSUME NEW a \in Accruals, Accrue(a)
        PROVE  Inv'
    BY <1>4, ParamsAssumption DEF Inv, TypeOK, AuctionedVaultIsHeld, UnderAuction, Accrue
  <1>5. ASSUME NEW b \in BOOLEAN, Orchestrate(b)
        PROVE  Inv'
    BY <1>5 DEF Inv, TypeOK, AuctionedVaultIsHeld, UnderAuction, Orchestrate
  <1>6. CASE Tick
    BY <1>6 DEF Inv, TypeOK, AuctionedVaultIsHeld, UnderAuction, Tick
  <1> QED BY <1>1, <1>2, <1>3, <1>4, <1>5, <1>6 DEF Environment

LEMMA NextInv == Inv /\ [Next]_vars => Inv'
  <1> SUFFICES ASSUME Inv, [Next]_vars
               PROVE  Inv'
    OBVIOUS
  <1>1. ASSUME NEW v \in Vault, Trade(v)
        PROVE  Inv'
    <2>1. \A base \in 0..WMulUp(MaxArt, accrual) : base \in Nat
      BY DebtType
    <2> QED BY <1>1, <2>1, AuctionInv, BuyInv, PayAllInv DEF Trade
  <1>2. ASSUME NEW l \in Ladles, Point(l)
        PROVE  Inv'
    BY <1>2 DEF Inv, TypeOK, AuctionedVaultIsHeld, UnderAuction, Point, envVars
  <1>3. ASSUME NEW i \in Ilk, NEW p \in IlkParams, SetIlk(i, p)
        PROVE  Inv'
    <2>1. p \in [duration: Nat, initialOffer: Nat, line: Nat, dust: Nat]
      BY ParamsAssumption
    <2>2. p.initialOffer \in 0..WAD
      BY <1>3, <2>1, WADAssumption DEF SetIlk
    <2> QED BY <1>3, <2>1, <2>2
        DEF Inv, TypeOK, AuctionedVaultIsHeld, UnderAuction, SetIlk, envVars
  <1>4. CASE UNCHANGED vars
    BY <1>4 DEF Inv, TypeOK, AuctionedVaultIsHeld, UnderAuction, vars, witchVars, envVars
  <1> QED BY <1>1, <1>2, <1>3, <1>4, EnvironmentInv DEF Next

LEMMA SpecInv == Spec => []Inv
  BY InitInv, NextInv, PTL DEF Spec

(* Every reachable state is well typed: no subtraction in buy, payAll or   *)
(* the accounts they settle takes an amount below zero.                    *)
THEOREM WitchTypeCorrect == Spec => []TypeOK
  <1>1. Inv => TypeOK
    BY DEF Inv
  <1> QED BY <1>1, SpecInv, PTL

(* A vault under auction belongs to the Witch, has somebody to go back to  *)
(* and still owes something, whatever its owner, governance, the oracle    *)
(* and any number of buyers do.                                            *)
THEOREM WitchHoldsAuctionedVaults == Spec => []AuctionedVaultIsHeld
  <1>1. Inv => AuctionedVaultIsHeld
    BY DEF Inv
  <1> QED BY <1>1, SpecInv, PTL

-----------------------------------------------------------------------------
(* The price of an auction never exceeds the vault's own ratio of ink to   *)
(* art, rounded up: initialOffer is at most one, and so is the time ratio. *)

LEMMA Monotone ==
  ASSUME NEW a \in Nat, NEW b \in Nat, NEW y \in Nat, a <= b
  PROVE  a * y <= b * y
  OBVIOUS

LEMMA DivFloor ==
  ASSUME NEW x \in Nat, NEW y \in Nat \ {0}
  PROVE  /\ x \div y \in Nat
         /\ (x \div y) * y <= x
         /\ x < (x \div y) * y + y
  OBVIOUS

LEMMA DivAtMost ==
  ASSUME NEW x \in Nat, NEW y \in Nat \ {0}, NEW q \in Nat, x < q * y + y
  PROVE  x \div y <= q
  <1> DEFINE k == x \div y
  <1>1. k \in Nat /\ k * y <= x
    BY DivFloor
  <1> HIDE DEF k
  <1>2. CASE q + 1 <= k
    <2>1. (q + 1) * y <= k * y
      BY <1>1, <1>2, Monotone
    <2>2. (q + 1) * y = q * y + y /\ q * y \in Nat
      OBVIOUS
    <2>3. k * y \in Nat
      BY <1>1
    <2> QED BY <1>1, <2>1, <2>2, <2>3
  <1>3. CASE ~(q + 1 <= k)
    BY <1>1, <1>3
  <1> QED BY <1>2, <1>3 DEF k

(* Rounding up: the quotient times the divisor is less than one divisor    *)
(* above the dividend, and at most q when the dividend is at most q times. *)
LEMMA DivUpBounds ==
  ASSUME NEW x \in Nat, NEW y \in Nat \ {0}
  PROVE  /\ DivUp(x, y) * y <= x + y - 1
         /\ \A q \in Nat : x <= q * y => DivUp(x, y) <= q
  <1>1. x + y - 1 \in Nat
    OBVIOUS
  <1>2. DivUp(x, y) * y <= x + y - 1
    BY <1>1, DivFloor DEF DivUp
  <1>3. ASSUME NEW q \in Nat, x <= q * y
        PROVE  DivUp(x, y) <= q
    <2>1. q * y \in Nat
      OBVIOUS
    <2>2. x + y - 1 < q * y + y
      BY <1>3, <2>1
    <2> QED BY <1>1, <2>2, DivAtMost DEF DivUp
  <1> QED BY <1>2, <1>3

LEMMA WMulUpAtMost ==
  ASSUME NEW x \in Nat, NEW y \in Nat, y <= WAD
  PROVE  WMulUp(x, y) <= x
  <1>1. y * x <= WAD * x
    BY Monotone, WADAssumption
  <1>2. x * y <= x * WAD /\ x * y \in Nat
    BY <1>1, WADAssumption
  <1> QED BY <1>2, DivUpBounds, WADAssumption DEF WMulUp

(* What the price never exceeds.                                           *)
LEMMA PriceAtMost ==
  ASSUME NEW bal \in [ink: Nat, art: Nat], bal.art > 0,
         NEW ilk \in [duration: Nat, initialOffer: 0..WAD], ilk.duration > 0,
         NEW elapsed \in Nat
  PROVE  InkPrice(bal, ilk, elapsed) <= WDivUp(bal.ink, bal.art)
  <1> DEFINE dividend2 == IF ilk.duration < elapsed THEN ilk.duration ELSE elapsed
             progress == WDivUp(dividend2, ilk.duration)
             slope == WMulUp(WAD - ilk.initialOffer, progress)
  <1>1. /\ dividend2 \in Nat /\ dividend2 <= ilk.duration
        /\ ilk.duration \in Nat \ {0} /\ ilk.initialOffer \in Nat
        /\ WAD - ilk.initialOffer \in Nat /\ WAD \in Nat
    BY WADAssumption
  <1>2. progress \in Nat /\ progress <= WAD
    <2> HIDE DEF dividend2
    <2>1. dividend2 * WAD <= ilk.duration * WAD /\ dividend2 * WAD \in Nat
      BY <1>1, Monotone
    <2>2. ilk.duration * WAD = WAD * ilk.duration
      BY <1>1
    <2>3. DivUp(dividend2 * WAD, ilk.duration) <= WAD
      BY <1>1, <2>1, <2>2, DivUpBounds
    <2> QED BY <1>1, <2>3, WadType DEF WDivUp
  <1>3. slope \in Nat /\ slope <= WAD - ilk.initialOffer
    <2> HIDE DEF progress
    <2> QED BY <1>1, <1>2, WadType, WMulUpAtMost
  <1> HIDE DEF slope
  <1>4. ilk.initialOffer + slope \in Nat /\ ilk.initialOffer + slope <= WAD
    BY <1>1, <1>3
  <1>5. WDivUp(bal.ink, bal.art) \in Nat
    BY WadType
  <1>6. InkPrice(bal, ilk, elapsed) = WMulUp(WDivUp(bal.ink, bal.art), ilk.initialOffer + slope)
    BY DEF InkPrice, slope
  <1> QED BY <1>4, <1>5, <1>6, WMulUpAtMost

(* Ink sold for a part of the debt is at most that share of the vault.     *)
LEMMA SoldInProportion ==
  ASSUME Inv, NEW v \in Vault, UnderAuction(v), ilks[IlkOf[v]].duration > 0,
         NEW art \in Nat, NEW ink \in Nat, ink <= WMul(art, Price(v))
  PROVE  Custody!Proportionate(ink, art, balances[v].ink, balances[v].art)
  <1> DEFINE bal == balances[v]
             term1 == WDivUp(bal.ink, bal.art)
             price == Price(v)
  <1>1. /\ bal \in [ink: Nat, art: Nat] /\ bal.art > 0
        /\ ilks[IlkOf[v]] \in [duration: Nat, initialOffer: 0..WAD]
        /\ now - auctions[v].start \in Nat
    BY IlkAssumption DEF Inv, TypeOK, AuctionedVaultIsHeld
  <1>2. /\ bal.ink \in Nat /\ bal.art \in Nat \ {0} /\ WAD \in Nat \ {0}
    BY <1>1, WADAssumption
  <1>3. price <= term1
    BY <1>1, PriceAtMost DEF Price
  <1>4. price \in Nat /\ term1 \in Nat
    BY <1>2, SoldType, WadType
  <1>5. term1 * bal.art <= bal.ink * WAD + bal.art - 1
    <2>1. bal.ink * WAD \in Nat
      BY <1>2
    <2> QED BY <1>2, <2>1, DivUpBounds DEF WDivUp
  <1>6. WMul(art, price) * WAD <= art * price /\ WMul(art, price) \in Nat
    <2>1. art * price \in Nat
      BY <1>4
    <2> QED BY <1>2, <2>1, DivFloor DEF WMul
  <1> HIDE DEF bal, price, term1
  <1>7. bal.ink * WAD + bal.art - 1 \in Nat
    <2>1. bal.ink * WAD \in Nat
      BY <1>2
    <2> QED BY ONLY <1>2, <2>1, LessOneType
  <1>8. ink * WAD <= art * price
    <2>1. ink * WAD <= WMul(art, price) * WAD
      BY <1>2, <1>6, Monotone DEF price
    <2>2. ink * WAD \in Nat /\ WMul(art, price) * WAD \in Nat /\ art * price \in Nat
      BY <1>2, <1>4, <1>6
    <2> QED BY <1>6, <2>1, <2>2
  <1>9. art * price <= art * term1
    BY <1>3, <1>4, Monotone
  <1>10. ink * WAD <= art * term1
    <2>1. ink * WAD \in Nat /\ art * price \in Nat /\ art * term1 \in Nat
      BY <1>2, <1>4
    <2> QED BY <1>8, <1>9, <2>1
  <1>11. (ink * WAD) * bal.art <= (art * term1) * bal.art
    <2>1. ink * WAD \in Nat /\ art * term1 \in Nat
      BY <1>2, <1>4
    <2> QED BY <1>2, <1>10, <2>1, Monotone
  <1>12. (art * term1) * bal.art = (term1 * bal.art) * art
    BY <1>2, <1>4
  <1>13. (term1 * bal.art) * art <= (bal.ink * WAD + bal.art - 1) * art
    <2>1. term1 * bal.art \in Nat
      BY <1>2, <1>4
    <2> QED BY <1>5, <1>7, <2>1, Monotone
  <1>14. ink * bal.art * WAD <= art * (bal.ink * WAD + bal.art - 1)
    <2>1. ink * bal.art * WAD = (ink * WAD) * bal.art
      BY <1>2
    <2>2. art * (bal.ink * WAD + bal.art - 1) = (bal.ink * WAD + bal.art - 1) * art
      BY <1>7
    <2>3. /\ (ink * WAD) * bal.art \in Nat /\ (term1 * bal.art) * art \in Nat
          /\ (bal.ink * WAD + bal.art - 1) * art \in Nat
      BY <1>2, <1>4, <1>7, ProductType
    <2> QED BY <1>11, <1>12, <1>13, <2>1, <2>2, <2>3
  <1> QED BY <1>14 DEF Custody!Proportionate, bal

-----------------------------------------------------------------------------
(* Every step of OldWitch is a step of VaultCustody or leaves what it      *)
(* speaks of unchanged.                                                    *)

Beneficiary == [v \in Vault |-> IF auctions[v].start > 0 THEN auctions[v].owner ELSE owner[v]]
OnAuction == [v \in Vault |-> auctions[v].start > 0]
InkOf == [v \in Vault |-> balances[v].ink]
ArtOf == [v \in Vault |-> balances[v].art]

(* What buy and payAll have in common is a sale.                           *)
LEMMA SaleRefines ==
  ASSUME Inv, Inv', NEW v \in Vault, UnderAuction(v), ilks[IlkOf[v]].duration > 0,
         NEW art \in Nat, NEW ink \in Nat, NEW base,
         ink <= WMul(art, Price(v)),
         SlurpAndSettle(v, ink, art, base),
         IF balances[v].art = art THEN GiveBack(v) ELSE UNCHANGED <<owner, auctions>>
  PROVE  Custody!Sell(v)
  <1>1. /\ balances' \in [Vault -> [ink: Nat, art: Nat]]
        /\ balances'[v] = [ink |-> balances[v].ink - ink, art |-> balances[v].art - art]
        /\ \A w \in Vault \ {v} : balances'[w] = balances[w]
    BY SlurpAndSettleType
  <1>2. /\ balances[v].ink \in Nat /\ balances[v].art \in Nat
        /\ ink <= balances[v].ink /\ art <= balances[v].art
    BY DEF Inv, TypeOK, SlurpAndSettle
  <1>3. ink \in 0..InkOf[v] /\ art \in 0..ArtOf[v]
    BY <1>2 DEF InkOf, ArtOf
  <1>4. Custody!Proportionate(ink, art, InkOf[v], ArtOf[v])
    BY SoldInProportion DEF InkOf, ArtOf
  <1>5. /\ InkOf' = [InkOf EXCEPT ![v] = @ - ink]
        /\ ArtOf' = [ArtOf EXCEPT ![v] = @ - art]
    <2>1. /\ InkOf' = [w \in Vault |-> balances'[w].ink]
          /\ ArtOf' = [w \in Vault |-> balances'[w].art]
      BY DEF InkOf, ArtOf
    <2>2. ASSUME NEW w \in Vault
          PROVE  /\ balances'[w].ink = IF w = v THEN InkOf[v] - ink ELSE InkOf[w]
                 /\ balances'[w].art = IF w = v THEN ArtOf[v] - art ELSE ArtOf[w]
      BY <1>1 DEF InkOf, ArtOf
    <2>3. /\ InkOf' = [w \in Vault |-> IF w = v THEN InkOf[v] - ink ELSE InkOf[w]]
          /\ ArtOf' = [w \in Vault |-> IF w = v THEN ArtOf[v] - art ELSE ArtOf[w]]
      BY <2>1, <2>2
    <2> QED BY <2>3 DEF InkOf, ArtOf
  <1>6. /\ OnAuction' = [OnAuction EXCEPT ![v] = art < ArtOf[v]]
        /\ Beneficiary' = Beneficiary
    <2>1. CASE balances[v].art = art
      <3>1. GiveBack(v) /\ ~(art < ArtOf[v])
        BY <1>2, <2>1 DEF ArtOf
      <3>2. /\ auctions' = [auctions EXCEPT ![v] = [owner |-> NoOne, start |-> 0]]
            /\ owner' = [owner EXCEPT ![v] = auctions[v].owner]
        BY <3>1 DEF GiveBack
      <3>3. ASSUME NEW w \in Vault
            PROVE  /\ (auctions'[w].start > 0) = IF w = v THEN FALSE ELSE auctions[w].start > 0
                   /\ (IF auctions'[w].start > 0 THEN auctions'[w].owner ELSE owner'[w])
                        = IF auctions[w].start > 0 THEN auctions[w].owner ELSE owner[w]
        <4>1. CASE w = v
          <5>1. auctions'[w].start = 0 /\ owner'[w] = auctions[w].owner /\ auctions[w].start > 0
            BY <3>2, <4>1 DEF UnderAuction, Inv, TypeOK
          <5>2. (auctions'[w].start > 0) = FALSE /\ (auctions[w].start > 0) = TRUE
            BY <5>1
          <5> QED BY <4>1, <5>1, <5>2
        <4>2. CASE w # v
          <5>1. auctions'[w] = auctions[w] /\ owner'[w] = owner[w]
            BY <3>2, <4>2 DEF Inv, TypeOK
          <5> QED BY <4>2, <5>1
        <4> QED BY <4>1, <4>2
      <3>4. OnAuction' = [w \in Vault |-> IF w = v THEN FALSE ELSE auctions[w].start > 0]
        BY <3>3 DEF OnAuction
      <3>5. (art < ArtOf[v]) = FALSE
        BY <3>1
      <3>6. OnAuction' = [OnAuction EXCEPT ![v] = art < ArtOf[v]]
        BY <3>4, <3>5 DEF OnAuction
      <3>7. Beneficiary' = Beneficiary
        BY <3>3 DEF Beneficiary
      <3> QED BY <3>6, <3>7
    <2>2. CASE balances[v].art # art
      <3>1. art < ArtOf[v] /\ auctions' = auctions /\ owner' = owner
        BY <1>2, <2>2 DEF ArtOf
      <3>2. (art < ArtOf[v]) = TRUE /\ (auctions[v].start > 0) = TRUE
        BY <3>1 DEF UnderAuction
      <3>3. OnAuction' = [OnAuction EXCEPT ![v] = art < ArtOf[v]]
        BY <3>1, <3>2 DEF OnAuction
      <3> QED BY <3>1, <3>3 DEF Beneficiary
    <2> QED BY <2>1, <2>2
  <1>7. OnAuction[v]
    BY DEF OnAuction, UnderAuction
  <1> QED BY <1>3, <1>4, <1>5, <1>6, <1>7
      DEF Custody!Sell, Beneficiary, OnAuction, InkOf, ArtOf

LEMMA AuctionRefines ==
  ASSUME Inv, Inv', NEW v \in Vault, Auction(v)
  PROVE  Custody!Open(v)
  <1>1. /\ auctions[v].start = 0 /\ now > 0
        /\ auctions' = [auctions EXCEPT ![v] = [owner |-> owner[v], start |-> now]]
        /\ owner' = [owner EXCEPT ![v] = Witch]
        /\ balances' = balances
    BY DEF Auction, Inv, TypeOK
  <1>2. balances[v].art > 0
    BY <1>1 DEF Inv, TypeOK, AuctionedVaultIsHeld, UnderAuction
  <1>3. /\ OnAuction' = [OnAuction EXCEPT ![v] = TRUE]
        /\ Beneficiary' = Beneficiary
    <2>1. ASSUME NEW w \in Vault
          PROVE  /\ (auctions'[w].start > 0) = IF w = v THEN TRUE ELSE auctions[w].start > 0
                 /\ (IF auctions'[w].start > 0 THEN auctions'[w].owner ELSE owner'[w])
                      = IF auctions[w].start > 0 THEN auctions[w].owner ELSE owner[w]
      <3>1. CASE w = v
        <4>1. auctions'[w].start = now /\ auctions'[w].owner = owner[w] /\ auctions[w].start = 0
          BY <1>1, <3>1 DEF Inv, TypeOK
        <4>2. (auctions'[w].start > 0) = TRUE /\ (auctions[w].start > 0) = FALSE
          BY <1>1, <4>1 DEF Inv, TypeOK
        <4> QED BY <3>1, <4>1, <4>2
      <3>2. CASE w # v
        <4>1. auctions'[w] = auctions[w] /\ owner'[w] = owner[w]
          BY <1>1, <3>2 DEF Inv, TypeOK
        <4> QED BY <3>2, <4>1
      <3> QED BY <3>1, <3>2
    <2>2. OnAuction' = [w \in Vault |-> IF w = v THEN TRUE ELSE auctions[w].start > 0]
      BY <2>1 DEF OnAuction
    <2> QED BY <2>1, <2>2 DEF OnAuction, Beneficiary
  <1>4. InkOf' = InkOf /\ ArtOf' = ArtOf
    BY <1>1 DEF InkOf, ArtOf
  <1>5. ~OnAuction[v] /\ ArtOf[v] > 0
    <2>1. ~(auctions[v].start > 0)
      BY <1>1
    <2> QED BY <1>2, <2>1 DEF OnAuction, ArtOf
  <1> QED BY <1>3, <1>4, <1>5 DEF Custody!Open, Beneficiary, OnAuction, InkOf, ArtOf

LEMMA TradeRefines ==
  ASSUME Inv, Inv', NEW v \in Vault, Trade(v)
  PROVE  Custody!Next
  <1>1. CASE Auction(v)
    BY <1>1, AuctionRefines DEF Custody!Next
  <1>2. ASSUME NEW base \in 0..WMulUp(MaxArt, accrual), NEW art \in DebtFromBase(base),
               NEW min \in MinInk, Buy(v, base, art, min)
        PROVE  Custody!Next
    <2> DEFINE ink == WMul(art, Price(v))
    <2>1. /\ UnderAuction(v) /\ ilks[IlkOf[v]].duration > 0
          /\ SlurpAndSettle(v, ink, art, base)
          /\ IF balances[v].art = art THEN GiveBack(v) ELSE UNCHANGED <<owner, auctions>>
      BY <1>2 DEF Buy, UnderAuction
    <2>2. art \in Nat
      BY DebtType
    <2>3. ink \in Nat /\ ink <= ink
      BY <2>1, <2>2, SoldType
    <2>4. Custody!Sell(v)
      BY <2>1, <2>2, <2>3, SaleRefines
    <2> QED BY <2>4 DEF Custody!Next
  <1>3. ASSUME NEW base, NEW min, PayAll(v, base, min)
        PROVE  Custody!Next
    <2> DEFINE ink == PayAllInk(v)
               art == balances[v].art
    <2>1. /\ UnderAuction(v) /\ ilks[IlkOf[v]].duration > 0
          /\ SlurpAndSettle(v, ink, art, base) /\ GiveBack(v)
      BY <1>3 DEF PayAll, UnderAuction
    <2>2. art \in Nat /\ balances[v].ink \in Nat
      BY DEF Inv, TypeOK
    <2>3. WMul(art, Price(v)) \in Nat
      BY <2>1, <2>2, SoldType
    <2>4. ink \in Nat /\ ink <= WMul(art, Price(v))
      BY <2>2, <2>3 DEF PayAllInk
    <2>5. Custody!Sell(v)
      BY <2>1, <2>2, <2>4, SaleRefines
    <2> QED BY <2>5 DEF Custody!Next
  <1> QED BY <1>1, <1>2, <1>3 DEF Trade

(* What an owner does to a vault that is not under auction is the          *)
(* beneficiary's business; everything else is not visible.                 *)
LEMMA EnvironmentRefines ==
  ASSUME Inv, Inv', Environment
  PROVE  [Custody!Next]_(Custody!vars)
  <1> USE DEF witchVars
  <1>1. ASSUME NEW v \in Vault, NEW dink \in Deltas, NEW dart \in Deltas, Pour(v, dink, dart)
        PROVE  Custody!Next
    <2>1. ~OnAuction[v]
      BY <1>1, AddressAssumption DEF Inv, AuctionedVaultIsHeld, UnderAuction, Pour, OnAuction
    <2>2. OnAuction' = OnAuction /\ Beneficiary' = Beneficiary
      BY <1>1 DEF Pour, OnAuction, Beneficiary
    <2>3. /\ InkOf' \in [Vault -> Nat] /\ ArtOf' \in [Vault -> Nat]
          /\ \A w \in Vault \ {v} : InkOf'[w] = InkOf[w] /\ ArtOf'[w] = ArtOf[w]
      BY <1>1 DEF Pour, InkOf, ArtOf, Inv, TypeOK
    <2>4. Custody!Manage(v)
      BY <2>1, <2>2, <2>3 DEF Custody!Manage, Beneficiary, OnAuction, InkOf, ArtOf
    <2> QED BY <2>4 DEF Custody!Next
  <1>2. ASSUME NEW v \in Vault, NEW to \in Address, Give(v, to)
        PROVE  Custody!Next
    <2>1. ~OnAuction[v]
      BY <1>2, AddressAssumption DEF Inv, AuctionedVaultIsHeld, UnderAuction, Give, OnAuction
    <2>2. OnAuction' = OnAuction /\ InkOf' = InkOf /\ ArtOf' = ArtOf
      BY <1>2 DEF Give, OnAuction, InkOf, ArtOf
    <2>3. Beneficiary' = [Beneficiary EXCEPT ![v] = to]
      BY <1>2, <2>1 DEF Give, Beneficiary, OnAuction, Inv, TypeOK
    <2>4. Custody!HandOver(v)
      BY <2>1, <2>2, <2>3 DEF Custody!HandOver, Beneficiary, OnAuction, InkOf, ArtOf
    <2> QED BY <2>4 DEF Custody!Next
  <1>3. ASSUME auctions' = auctions, owner' = owner, balances' = balances
        PROVE  UNCHANGED Custody!vars
    BY <1>3 DEF Custody!vars
  <1> QED BY <1>1, <1>2, <1>3 DEF Environment, MoveSpot, Accrue, Orchestrate, Tick

LEMMA StepRefines ==
  ASSUME Inv, Inv', [Next]_vars
  PROVE  [Custody!Next]_(Custody!vars)
  <1>1. ASSUME auctions' = auctions, owner' = owner, balances' = balances
        PROVE  UNCHANGED Custody!vars
    BY <1>1 DEF Custody!vars
  <1>2. CASE \E l \in Ladles : Point(l)
    BY <1>1, <1>2 DEF Point
  <1>3. CASE \E i \in Ilk, p \in IlkParams : SetIlk(i, p)
    BY <1>1, <1>3 DEF SetIlk
  <1>4. CASE UNCHANGED vars
    BY <1>1, <1>4 DEF vars, witchVars
  <1> QED BY <1>2, <1>3, <1>4, TradeRefines, EnvironmentRefines DEF Next

LEMMA InitRefines == Init => Custody!Init
  <1> SUFFICES ASSUME Init PROVE Custody!Init
    OBVIOUS
  <1>1. \A v \in Vault : (auctions[v].start > 0) = FALSE
    BY DEF Init
  <1>2. owner \in [Vault -> Address]
    BY DEF Init, Address
  <1>3. Beneficiary \in [Vault -> Address] /\ OnAuction = [v \in Vault |-> FALSE]
    BY <1>1, <1>2 DEF Beneficiary, OnAuction
  <1>4. InkOf = [v \in Vault |-> 0] /\ ArtOf = [v \in Vault |-> 0]
    BY DEF Init, InkOf, ArtOf
  <1> QED BY <1>3, <1>4 DEF Custody!Init, Beneficiary, OnAuction, InkOf, ArtOf

(* OldWitch implements VaultCustody: the beneficiary keeps the title to    *)
(* the vault for the whole auction, collateral is sold only in proportion  *)
(* to the debt that is repaid, and the auction is over when nothing is     *)
(* owed, for every price, rounding and change of parameters.               *)
THEOREM WitchKeepsCustody == Spec => CustodySpec
  <1>1. Inv /\ Inv' /\ [Next]_vars => [Custody!Next]_(Custody!vars)
    BY StepRefines
  <1> QED BY <1>1, SpecInv, InitRefines, PTL DEF Spec, CustodySpec, Custody!Spec

-----------------------------------------------------------------------------
(* Sums of collateral.  SumInk folds over a set of vaults; it counts the   *)
(* units of ink in them, and the theorems about cardinalities apply.       *)

Bal == [ink: Nat, art: Nat]
Units(b, S) == {p \in S \X Nat : p[2] < b[p[1]].ink}
Size(b, S) == Cardinality(Units(b, S))

LEMMA UnitsOfOne ==
  ASSUME NEW b \in [Vault -> Bal], NEW v \in Vault
  PROVE  IsFiniteSet(Units(b, {v})) /\ Size(b, {v}) = b[v].ink
  <1> DEFINE n == b[v].ink
             I == 0..(n - 1)
             V == {v}
  <1>1. n \in Nat
    BY DEF Bal
  <1>2. Units(b, V) = V \X I
    <2>1. Units(b, V) = {p \in V \X Nat : p[2] < n}
      BY DEF Units
    <2> HIDE DEF n
    <2>2. I = {k \in Nat : k < n}
      BY <1>1
    <2>3. V \X {k \in Nat : k < n} = {p \in V \X Nat : p[2] < n}
      OBVIOUS
    <2> QED BY <2>1, <2>2, <2>3
  <1>3. IsFiniteSet(V) /\ Cardinality(V) = 1
    BY FS_Singleton
  <1>4. IsFiniteSet(I) /\ Cardinality(I) = n
    <2> HIDE DEF n
    <2>1. 0 \in Int /\ n - 1 \in Int
      BY <1>1
    <2>2. IsFiniteSet(I) /\ Cardinality(I) = IF 0 > n - 1 THEN 0 ELSE n - 1 - 0 + 1
      BY <2>1, FS_Interval, Zenon
    <2> QED BY <1>1, <2>2
  <1> HIDE DEF n, I, V
  <1>5. IsFiniteSet(V \X I) /\ Cardinality(V \X I) = 1 * n
    <2>1. IsFiniteSet(V \X I) /\ Cardinality(V \X I) = Cardinality(V) * Cardinality(I)
      BY <1>3, <1>4, FS_Product, Zenon
    <2> QED BY <1>3, <1>4, <2>1
  <1>6. IsFiniteSet(Units(b, V)) /\ Size(b, V) = n
    BY <1>1, <1>2, <1>5 DEF Size
  <1> QED BY <1>6 DEF V, n

LEMMA UnitsFinite ==
  ASSUME NEW b \in [Vault -> Bal], NEW S \in SUBSET Vault
  PROVE  IsFiniteSet(Units(b, S)) /\ Size(b, S) \in Nat
  <1> DEFINE f == [v \in S |-> Units(b, {v})]
             T == {Units(b, {v}) : v \in S}
  <1>1. IsFiniteSet(S)
    BY VaultAssumption, FS_Subset
  <1>2. f \in Surjection(S, T)
    BY DEF Surjection
  <1>3. IsFiniteSet(T)
    <2> HIDE DEF f, T
    <2> QED BY <1>1, <1>2, FS_Surjection
  <1>4. \A U \in T : IsFiniteSet(U)
    BY UnitsOfOne
  <1>5. Units(b, S) = UNION T
    BY DEF Units
  <1>6. IsFiniteSet(Units(b, S))
    <2> HIDE DEF T
    <2> QED BY <1>3, <1>4, <1>5, FS_UNION
  <1> QED BY <1>6, FS_CardinalityType DEF Size

LEMMA UnitsOfMany ==
  ASSUME NEW b \in [Vault -> Bal], NEW S \in SUBSET Vault, NEW T \in SUBSET Vault, S \cap T = {}
  PROVE  Size(b, S \cup T) = Size(b, S) + Size(b, T)
  <1> DEFINE A == Units(b, S)
             B == Units(b, T)
  <1>1. Units(b, S \cup T) = A \cup B /\ A \cap B = {}
    BY DEF Units
  <1>2. IsFiniteSet(A) /\ IsFiniteSet(B) /\ Cardinality(A) \in Nat /\ Cardinality(B) \in Nat
    BY UnitsFinite DEF Size
  <1>3. /\ Size(b, S) = Cardinality(A) /\ Size(b, T) = Cardinality(B)
        /\ Size(b, S \cup T) = Cardinality(A \cup B)
    BY <1>1 DEF Size
  <1> HIDE DEF A, B
  <1>4. Cardinality(A \cup B) = Cardinality(A) + Cardinality(B) - Cardinality({})
    BY <1>1, <1>2, FS_Union
  <1>5. Cardinality({}) = 0
    BY FS_EmptySet
  <1>6. Cardinality(A \cup B) = Cardinality(A) + Cardinality(B)
    BY <1>2, <1>4, <1>5
  <1> QED BY <1>3, <1>6

LEMMA FoldIsUnits ==
  ASSUME NEW b \in [Vault -> Bal], NEW S \in SUBSET Vault
  PROVE  MapThenSumSet(LAMBDA v : b[v].ink, S) = Size(b, S)
  <1> DEFINE pick(s) == CHOOSE x \in s : TRUE
             Def(g) == [s \in SUBSET S |-> IF s = {} THEN 0 ELSE b[pick(s)].ink + g[s \ {pick(s)}]]
             size == [s \in SUBSET S |-> Size(b, s)]
             iter == CHOOSE g : g = Def(g)
  <1>1. MapThenSumSet(LAMBDA v : b[v].ink, S) = iter[S]
    BY DEF MapThenSumSet, MapThenFoldSet
  <1>2. ASSUME NEW s \in SUBSET S, s # {}
        PROVE  pick(s) \in s /\ Size(b, s) = b[pick(s)].ink + Size(b, s \ {pick(s)})
    <2>1. pick(s) \in s
      BY <1>2
    <2> HIDE DEF pick
    <2> DEFINE x == pick(s)
    <2>2. s = (s \ {x}) \cup {x} /\ (s \ {x}) \cap {x} = {}
      BY <2>1
    <2>3. Size(b, s) = Size(b, s \ {x}) + Size(b, {x})
      BY <2>1, <2>2, UnitsOfMany
    <2>4. Size(b, {x}) = b[x].ink /\ b[x].ink \in Nat
      BY <2>1, UnitsOfOne DEF Bal
    <2>5. Size(b, s \ {x}) \in Nat
      BY UnitsFinite
    <2> QED BY <2>1, <2>3, <2>4, <2>5
  <1>3. Size(b, {}) = 0
    BY FS_EmptySet DEF Size, Units
  <1>4. size = Def(size)
    <2> HIDE DEF pick
    <2>1. \A s \in SUBSET S : s # {} => size[s] = b[pick(s)].ink + size[s \ {pick(s)}]
      BY <1>2
    <2> QED BY <2>1, <1>3
  <1>5. iter = Def(iter)
    <2> HIDE DEF Def, size
    <2> QED BY <1>4
  <1> HIDE DEF iter, pick
  <1>6. ASSUME NEW s \in SUBSET S
        PROVE  iter[s] = Size(b, s)
    <2> DEFINE bad == {u \in SUBSET S : iter[u] # Size(b, u)}
    <2>1. IsWellFoundedOn(StrictSubsetOrdering(S), FiniteSubsetsOf(S)) /\ FiniteSubsetsOf(S) = SUBSET S
      <3>1. IsFiniteSet(S)
        BY VaultAssumption, FS_Subset
      <3> QED BY <3>1, FS_StrictSubsetOrderingWellFounded, FS_FiniteSubsetsOfFinite
    <2>2. ASSUME bad # {}
          PROVE  FALSE
      <3>1. bad \subseteq FiniteSubsetsOf(S)
        BY <2>1
      <3> HIDE DEF bad
      <3>2. PICK u \in bad : \A w \in bad : <<w, u>> \notin StrictSubsetOrdering(S)
        BY <2>1, <2>2, <3>1, WFMin
      <3>3. u \in SUBSET S /\ iter[u] # Size(b, u)
        BY DEF bad
      <3>4. CASE u = {}
        <4>1. iter[u] = 0
          BY <1>5, <3>4
        <4> QED BY <1>3, <3>3, <3>4, <4>1
      <3>5. CASE u # {}
        <4> DEFINE w == u \ {pick(u)}
        <4>1. iter[u] = b[pick(u)].ink + iter[w]
          BY <1>5, <3>3, <3>5
        <4>2. <<w, u>> \in StrictSubsetOrdering(S) /\ w \in SUBSET S
          BY <1>2, <3>3, <3>5 DEF StrictSubsetOrdering
        <4>3. iter[w] = Size(b, w)
          BY <3>2, <4>2 DEF bad
        <4> QED BY <1>2, <3>3, <3>5, <4>1, <4>3
      <3> QED BY <3>4, <3>5
    <2> QED BY <2>2
  <1> QED BY <1>1, <1>6
LEMMA SizeOfPart ==
  ASSUME NEW b \in [Vault -> Bal], NEW S \in SUBSET Vault, NEW T \in SUBSET S
  PROVE  Size(b, T) <= Size(b, S)
  <1>1. S = T \cup (S \ T) /\ T \cap (S \ T) = {}
    OBVIOUS
  <1>2. Size(b, S) = Size(b, T) + Size(b, S \ T)
    BY <1>1, UnitsOfMany
  <1> QED BY <1>2, UnitsFinite

LEMMA SizeWithout ==
  ASSUME NEW b \in [Vault -> Bal], NEW S \in SUBSET Vault, NEW v \in S
  PROVE  Size(b, S) = b[v].ink + Size(b, S \ {v})
  <1>1. S = {v} \cup (S \ {v}) /\ {v} \cap (S \ {v}) = {}
    OBVIOUS
  <1>2. Size(b, S) = Size(b, {v}) + Size(b, S \ {v})
    BY <1>1, UnitsOfMany
  <1> QED BY <1>2, UnitsOfOne

LEMMA SizeOfSame ==
  ASSUME NEW b \in [Vault -> Bal], NEW c \in [Vault -> Bal], NEW S \in SUBSET Vault,
         \A v \in S : b[v].ink = c[v].ink
  PROVE  Size(b, S) = Size(c, S)
  BY DEF Size, Units

VaultsOf(i) == {v \in Vault : IlkOf[v] = i}

LEMMA SumInkIsSize ==
  ASSUME TypeOK
  PROVE  \A i \in Ilk : /\ SumInk(Auctioned(i)) = Size(balances, Auctioned(i))
                        /\ SumInk({v \in Vault : IlkOf[v] = i}) = Size(balances, VaultsOf(i))
  <1>1. balances \in [Vault -> Bal]
    BY DEF TypeOK, Bal
  <1>2. \A S \in SUBSET Vault : SumInk(S) = Size(balances, S)
    BY <1>1, FoldIsUnits DEF SumInk
  <1> QED BY <1>2 DEF Auctioned, VaultsOf

LEMMA SumInkIsSizeNext ==
  ASSUME TypeOK'
  PROVE  \A i \in Ilk : /\ SumInk(Auctioned(i))' = Size(balances', Auctioned(i)')
                        /\ SumInk({v \in Vault : IlkOf[v] = i})' = Size(balances', VaultsOf(i))
  <1>1. balances' \in [Vault -> Bal]
    BY DEF TypeOK, Bal
  <1>2. \A S \in SUBSET Vault : MapThenSumSet(LAMBDA v : balances'[v].ink, S) = Size(balances', S)
    BY <1>1, FoldIsUnits
  <1>3. ASSUME NEW i \in Ilk
        PROVE  /\ SumInk(Auctioned(i))' = Size(balances', Auctioned(i)')
               /\ SumInk({v \in Vault : IlkOf[v] = i})' = Size(balances', VaultsOf(i))
    <2>1. Auctioned(i)' \in SUBSET Vault /\ {v \in Vault : IlkOf[v] = i} \in SUBSET Vault
      BY DEF Auctioned
    <2>2. SumInk(Auctioned(i))' = MapThenSumSet(LAMBDA v : balances'[v].ink, Auctioned(i)')
      BY DEF SumInk, MapThenSumSet, MapThenFoldSet
    <2>3. SumInk({v \in Vault : IlkOf[v] = i})'
            = MapThenSumSet(LAMBDA v : balances'[v].ink, {v \in Vault : IlkOf[v] = i})
      BY DEF SumInk, MapThenSumSet, MapThenFoldSet
    <2> QED BY <1>2, <2>1, <2>2, <2>3 DEF VaultsOf
  <1> QED BY <1>3

Sums == SumCoversAuctions /\ JoinBacksVaults

(* What one vault may do to the sums: its ink changes by as much as its    *)
(* Join, and `sum' by as much as its part of the auctions, or by less down.*)
LEMMA SumsOfOneVault ==
  ASSUME Inv, Inv', Sums, NEW v \in Vault, NEW d \in Int,
         balances'[v].ink = balances[v].ink + d,
         \A w \in Vault \ {v} : balances'[w] = balances[w] /\ auctions'[w] = auctions[w],
         stored' = [stored EXCEPT ![IlkOf[v]] = @ + d],
         \A j \in Ilk \ {IlkOf[v]} : limits'[j].sum = limits[j].sum,
         limits'[IlkOf[v]].sum - (IF UnderAuction(v)' THEN balances'[v].ink ELSE 0)
           >= limits[IlkOf[v]].sum - (IF UnderAuction(v) THEN balances[v].ink ELSE 0)
  PROVE  Sums'
  <1> DEFINE i == IlkOf[v]
             b == balances
             c == balances'
  <1>1. /\ i \in Ilk /\ b \in [Vault -> Bal] /\ c \in [Vault -> Bal]
        /\ stored \in [Ilk -> Nat] /\ stored' \in [Ilk -> Nat]
        /\ \A j \in Ilk : limits[j].sum \in Nat /\ limits'[j].sum \in Nat
    BY IlkAssumption DEF Inv, TypeOK, Bal
  <1>2. \A j \in Ilk : /\ SumInk(Auctioned(j)) = Size(b, Auctioned(j))
                       /\ SumInk({w \in Vault : IlkOf[w] = j}) = Size(b, VaultsOf(j))
    BY SumInkIsSize DEF Inv
  <1>3. \A j \in Ilk : /\ SumInk(Auctioned(j))' = Size(c, Auctioned(j)')
                       /\ SumInk({w \in Vault : IlkOf[w] = j})' = Size(c, VaultsOf(j))
    BY SumInkIsSizeNext DEF Inv
  <1>4. \A S \in SUBSET Vault : v \notin S => Size(b, S) = Size(c, S)
    BY <1>1, SizeOfSame
  <1>5. b[v].ink \in Nat /\ c[v].ink \in Nat
    BY <1>1 DEF Bal
  <1>6. ASSUME NEW j \in Ilk
        PROVE  limits'[j].sum >= Size(c, Auctioned(j)')
    <2>1. limits[j].sum >= Size(b, Auctioned(j))
      BY <1>2 DEF Sums, SumCoversAuctions
    <2> DEFINE A == Auctioned(j)
               B == Auctioned(j)'
    <2>2. A \in SUBSET Vault /\ B \in SUBSET Vault /\ A \ {v} = B \ {v}
      BY DEF Auctioned, UnderAuction
    <2>3. CASE j # i
      <3>1. v \notin A /\ v \notin B
        BY <2>3 DEF Auctioned
      <3> HIDE DEF A, B
      <3>2. A = B
        <4>1. A = A \ {v} /\ B = B \ {v}
          BY <3>1
        <4> QED BY <2>2, <4>1
      <3>3. Size(b, A) = Size(c, B)
        BY <1>4, <2>2, <3>1, <3>2
      <3>4. limits[j].sum >= Size(b, A)
        BY <2>1 DEF A
      <3>5. limits'[j].sum >= Size(c, B)
        BY <2>3, <3>3, <3>4
      <3> QED BY <3>5 DEF B
    <2>4. CASE j = i
      <3> DEFINE rest == Size(b, A \ {v})
      <3>1. rest \in Nat /\ rest = Size(c, B \ {v})
        BY <1>1, <1>4, <2>2, UnitsFinite
      <3>2. (v \in A <=> UnderAuction(v)) /\ (v \in B <=> UnderAuction(v)')
        BY <2>4 DEF Auctioned
      <3>3. Size(b, A) = (IF UnderAuction(v) THEN b[v].ink ELSE 0) + rest
        <4>1. v \in A => Size(b, A) = b[v].ink + rest
          BY <1>1, <2>2, SizeWithout
        <4>2. v \notin A => A \ {v} = A
          OBVIOUS
        <4>3. v \notin A => Size(b, A) = rest
          BY <4>2
        <4> HIDE DEF A, rest
        <4> QED BY <3>1, <3>2, <4>1, <4>3
      <3>4. Size(c, B) = (IF UnderAuction(v)' THEN c[v].ink ELSE 0) + rest
        <4>1. v \in B => Size(c, B) = c[v].ink + rest
          BY <1>1, <2>2, <3>1, SizeWithout
        <4>2. v \notin B => B \ {v} = B
          OBVIOUS
        <4>3. v \notin B => Size(c, B) = rest
          BY <3>1, <4>2
        <4> HIDE DEF A, B, rest
        <4> QED BY <3>1, <3>2, <4>1, <4>3
      <3> HIDE DEF A, B, rest
      <3> DEFINE was == IF UnderAuction(v) THEN b[v].ink ELSE 0
                 is == IF UnderAuction(v)' THEN c[v].ink ELSE 0
      <3>5. was \in Nat /\ is \in Nat /\ limits'[j].sum - is >= limits[j].sum - was
        BY <1>5, <2>4
      <3>6. Size(b, A) = was + rest /\ Size(c, B) = is + rest
        BY <3>3, <3>4
      <3> HIDE DEF was, is, b, c
      <3>7. limits[j].sum \in Nat /\ limits'[j].sum \in Nat /\ limits[j].sum >= Size(b, A)
        BY <1>1, <2>1 DEF A
      <3>8. limits'[j].sum >= Size(c, B)
        BY <3>1, <3>5, <3>6, <3>7
      <3> QED BY <3>8 DEF B
    <2> QED BY <2>3, <2>4
  <1>7. ASSUME NEW j \in Ilk
        PROVE  stored'[j] = Size(c, VaultsOf(j))
    <2>1. stored[j] = Size(b, VaultsOf(j)) /\ VaultsOf(j) \in SUBSET Vault
      BY <1>2 DEF Sums, JoinBacksVaults, VaultsOf
    <2>2. CASE j # i
      <3>1. v \notin VaultsOf(j) /\ stored'[j] = stored[j]
        BY <1>1, <2>2 DEF VaultsOf
      <3> QED BY <1>4, <2>1, <3>1
    <2>3. CASE j = i
      <3>1. v \in VaultsOf(j) /\ stored'[j] = stored[j] + d
        BY <1>1, <2>3 DEF VaultsOf
      <3> DEFINE rest == Size(b, VaultsOf(j) \ {v})
      <3>2. rest \in Nat /\ rest = Size(c, VaultsOf(j) \ {v})
        BY <1>1, <1>4, <2>1, UnitsFinite
      <3>3. Size(b, VaultsOf(j)) = b[v].ink + rest /\ Size(c, VaultsOf(j)) = c[v].ink + rest
        BY <1>1, <2>1, <3>1, <3>2, SizeWithout
      <3>4. c[v].ink = b[v].ink + d
        OBVIOUS
      <3> HIDE DEF rest, b, c
      <3> QED BY <1>5, <2>1, <3>1, <3>2, <3>3, <3>4
    <2> QED BY <2>2, <2>3
  <1> QED BY <1>3, <1>6, <1>7 DEF Sums, SumCoversAuctions, JoinBacksVaults

(* Governance keeps `sum' when it changes an ilk, and whoever moves a price,*)
(* a permission or the clock touches no balance.                           *)
LEMMA SumsUntouched ==
  ASSUME Inv, Inv', Sums, UNCHANGED <<auctions, balances, stored>>,
         \A i \in Ilk : limits'[i].sum = limits[i].sum
  PROVE  Sums'
  <1>1. \A i \in Ilk : Auctioned(i)' = Auctioned(i)
    BY DEF Auctioned, UnderAuction
  <1>2. \A i \in Ilk : /\ SumInk(Auctioned(i)) = Size(balances, Auctioned(i))
                       /\ SumInk({w \in Vault : IlkOf[w] = i}) = Size(balances, VaultsOf(i))
    BY SumInkIsSize DEF Inv
  <1>3. \A i \in Ilk : /\ SumInk(Auctioned(i))' = Size(balances, Auctioned(i))
                       /\ SumInk({w \in Vault : IlkOf[w] = i})' = Size(balances, VaultsOf(i))
    <2>1. \A i \in Ilk : /\ SumInk(Auctioned(i))' = Size(balances', Auctioned(i)')
                         /\ SumInk({w \in Vault : IlkOf[w] = i})' = Size(balances', VaultsOf(i))
      BY SumInkIsSizeNext DEF Inv
    <2> QED BY <1>1, <2>1
  <1> QED BY <1>2, <1>3 DEF Sums, SumCoversAuctions, JoinBacksVaults

LEMMA AuctionSums ==
  ASSUME Inv, Inv', Sums, NEW v \in Vault, Auction(v)
  PROVE  Sums'
  <1>1. /\ IlkOf[v] \in Ilk /\ stored \in [Ilk -> Nat] /\ auctions[v].start = 0
        /\ balances[v].ink \in Nat /\ limits[IlkOf[v]].sum \in Nat
    BY IlkAssumption DEF Inv, TypeOK, Auction
  <1>2. /\ balances' = balances /\ stored' = stored /\ ~UnderAuction(v)
        /\ \A w \in Vault \ {v} : auctions'[w] = auctions[w]
    BY <1>1 DEF Auction, UnderAuction, Inv, TypeOK
  <1>3. /\ limits'[IlkOf[v]].sum = limits[IlkOf[v]].sum + balances[v].ink
        /\ \A j \in Ilk \ {IlkOf[v]} : limits'[j].sum = limits[j].sum
    BY <1>1 DEF Auction, Inv, TypeOK
  <1>4. stored' = [stored EXCEPT ![IlkOf[v]] = @ + 0] /\ balances'[v].ink = balances[v].ink + 0
    BY <1>1, <1>2
  <1>5. limits'[IlkOf[v]].sum - (IF UnderAuction(v)' THEN balances'[v].ink ELSE 0)
          >= limits[IlkOf[v]].sum - (IF UnderAuction(v) THEN balances[v].ink ELSE 0)
    BY <1>1, <1>2, <1>3
  <1>6. 0 \in Int /\ \A w \in Vault \ {v} : balances'[w] = balances[w]
    BY <1>2
  <1> QED BY <1>2, <1>3, <1>4, <1>5, <1>6, SumsOfOneVault

(* What buy and payAll have in common: the ink sold leaves the vault, the  *)
(* Join and `sum', whether the auction goes on or is over.                 *)
LEMMA SaleSums ==
  ASSUME Inv, Inv', Sums, NEW v \in Vault, UnderAuction(v),
         NEW ink \in Nat, NEW art \in Nat, NEW base,
         SlurpAndSettle(v, ink, art, base),
         limits[IlkOf[v]].sum >= ink,
         limits' = [limits EXCEPT ![IlkOf[v]].sum = @ - ink],
         GiveBack(v) \/ UNCHANGED auctions
  PROVE  Sums'
  <1>1. /\ IlkOf[v] \in Ilk /\ stored \in [Ilk -> Nat]
        /\ balances[v].ink \in Nat /\ limits[IlkOf[v]].sum \in Nat
    BY IlkAssumption DEF Inv, TypeOK
  <1>2. /\ balances'[v].ink = balances[v].ink - ink
        /\ \A w \in Vault \ {v} : balances'[w] = balances[w]
    <2>1. /\ balances'[v] = [ink |-> balances[v].ink - ink, art |-> balances[v].art - art]
          /\ \A w \in Vault \ {v} : balances'[w] = balances[w]
      BY SlurpAndSettleType
    <2> QED BY <2>1
  <1>3. \A w \in Vault \ {v} : auctions'[w] = auctions[w]
    BY DEF GiveBack, Inv, TypeOK
  <1>4. /\ limits'[IlkOf[v]].sum = limits[IlkOf[v]].sum - ink
        /\ \A j \in Ilk \ {IlkOf[v]} : limits'[j].sum = limits[j].sum
    BY <1>1 DEF Inv, TypeOK
  <1>5. balances'[v].ink = balances[v].ink + (-ink) /\ -ink \in Int
    BY <1>1, <1>2
  <1>6. stored' = [stored EXCEPT ![IlkOf[v]] = @ + (-ink)]
    <2>1. stored' = [stored EXCEPT ![IlkOf[v]] = @ - ink] /\ stored[IlkOf[v]] - ink = stored[IlkOf[v]] + (-ink)
      BY <1>1 DEF SlurpAndSettle
    <2> QED BY <2>1
  <1>7. limits'[IlkOf[v]].sum - (IF UnderAuction(v)' THEN balances'[v].ink ELSE 0)
          >= limits[IlkOf[v]].sum - (IF UnderAuction(v) THEN balances[v].ink ELSE 0)
    <2>1. ink <= balances[v].ink
      BY DEF SlurpAndSettle
    <2> QED BY <1>1, <1>2, <1>4, <2>1
  <1> QED BY <1>2, <1>3, <1>4, <1>5, <1>6, <1>7, SumsOfOneVault

LEMMA TradeSums ==
  ASSUME Inv, Inv', Sums, NEW v \in Vault, Trade(v)
  PROVE  Sums'
  <1>1. ASSUME NEW base \in 0..WMulUp(MaxArt, accrual), NEW art \in DebtFromBase(base),
               NEW min \in MinInk, Buy(v, base, art, min)
        PROVE  Sums'
    <2> DEFINE ink == WMul(art, Price(v))
    <2>1. /\ UnderAuction(v) /\ ilks[IlkOf[v]].duration > 0
          /\ SlurpAndSettle(v, ink, art, base) /\ limits[IlkOf[v]].sum >= ink
          /\ limits' = [limits EXCEPT ![IlkOf[v]].sum = @ - ink]
          /\ GiveBack(v) \/ UNCHANGED auctions
      BY <1>1 DEF Buy, UnderAuction
    <2>2. art \in Nat
      BY DebtType
    <2>3. ink \in Nat
      BY <2>1, <2>2, SoldType
    <2> HIDE DEF ink
    <2> QED BY <2>1, <2>2, <2>3, SaleSums
  <1>2. ASSUME NEW base, NEW min, PayAll(v, base, min)
        PROVE  Sums'
    <2> DEFINE ink == PayAllInk(v)
    <2>1. /\ UnderAuction(v) /\ ilks[IlkOf[v]].duration > 0
          /\ SlurpAndSettle(v, ink, balances[v].art, base) /\ limits[IlkOf[v]].sum >= ink
          /\ limits' = [limits EXCEPT ![IlkOf[v]].sum = @ - ink]
          /\ GiveBack(v)
      BY <1>2 DEF PayAll, UnderAuction
    <2>2. ink \in Nat /\ balances[v].art \in Nat
      BY <2>1, SoldType DEF Inv, TypeOK
    <2> HIDE DEF ink
    <2> QED BY <2>1, <2>2, SaleSums
  <1> QED BY <1>1, <1>2, AuctionSums DEF Trade

(* An owner moves ink between a vault that is not under auction and its    *)
(* Join; all else around the Witch leaves both alone.                      *)
LEMMA EnvironmentSums ==
  ASSUME Inv, Inv', Sums, Environment
  PROVE  Sums'
  <1>1. ASSUME NEW v \in Vault, NEW dink \in Deltas, NEW dart \in Deltas, Pour(v, dink, dart)
        PROVE  Sums'
    <2>1. ~UnderAuction(v) /\ auctions' = auctions /\ limits' = limits
      BY <1>1, AddressAssumption DEF Inv, AuctionedVaultIsHeld, Pour, witchVars
    <2>2. /\ balances'[v].ink = balances[v].ink + dink /\ dink \in Int
          /\ \A w \in Vault \ {v} : balances'[w] = balances[w]
      BY <1>1, ParamsAssumption DEF Pour, Inv, TypeOK
    <2>3. stored' = [stored EXCEPT ![IlkOf[v]] = @ + dink]
      BY <1>1 DEF Pour
    <2>4. ~UnderAuction(v)' /\ limits[IlkOf[v]].sum \in Nat
      BY <2>1, IlkAssumption DEF UnderAuction, Inv, TypeOK
    <2>5. limits'[IlkOf[v]].sum - (IF UnderAuction(v)' THEN balances'[v].ink ELSE 0)
            >= limits[IlkOf[v]].sum - (IF UnderAuction(v) THEN balances[v].ink ELSE 0)
      BY <2>1, <2>4
    <2> QED BY <2>1, <2>2, <2>3, <2>5, SumsOfOneVault
  <1>2. CASE UNCHANGED <<auctions, balances, stored, limits>>
    BY <1>2, SumsUntouched
  <1> QED BY <1>1, <1>2 DEF Environment, Give, MoveSpot, Accrue, Orchestrate, Tick, witchVars

LEMMA NextSums ==
  ASSUME Inv, Inv', Sums, [Next]_vars
  PROVE  Sums'
  <1>1. ASSUME NEW i \in Ilk, NEW p \in IlkParams, SetIlk(i, p)
        PROVE  Sums'
    <2>1. \A j \in Ilk : limits'[j].sum = limits[j].sum
      BY <1>1 DEF SetIlk, Inv, TypeOK
    <2> QED BY <1>1, <2>1, SumsUntouched DEF SetIlk
  <1>2. ASSUME NEW l \in Ladles, Point(l)
        PROVE  Sums'
    BY <1>2, SumsUntouched DEF Point
  <1>3. CASE UNCHANGED vars
    BY <1>3, SumsUntouched DEF vars, witchVars
  <1> QED BY <1>1, <1>2, <1>3, TradeSums, EnvironmentSums DEF Next

LEMMA InitSums == Init => Sums
  <1> SUFFICES ASSUME Init PROVE Sums
    OBVIOUS
  <1>1. TypeOK
    BY InitInv DEF Inv
  <1>2. balances \in [Vault -> Bal] /\ \A v \in Vault : balances[v].ink = 0
    BY DEF Init, Bal
  <1>3. \A S \in SUBSET Vault : Size(balances, S) = 0
    <2>1. \A S \in SUBSET Vault : Units(balances, S) = {}
      BY <1>2 DEF Units
    <2> QED BY <2>1, FS_EmptySet DEF Size
  <1>4. \A i \in Ilk : limits[i].sum = 0 /\ stored[i] = 0
    BY DEF Init
  <1>5. \A i \in Ilk : /\ SumInk(Auctioned(i)) = 0
                       /\ SumInk({v \in Vault : IlkOf[v] = i}) = 0
    BY <1>1, <1>3, SumInkIsSize DEF Auctioned, VaultsOf
  <1>6. ASSUME NEW i \in Ilk
        PROVE  limits[i].sum >= SumInk(Auctioned(i))
    <2>1. limits[i].sum = 0 /\ SumInk(Auctioned(i)) = 0
      BY <1>4, <1>5
    <2>2. 0 >= 0
      OBVIOUS
    <2> QED BY <2>1, <2>2
  <1>7. \A i \in Ilk : stored[i] = SumInk({v \in Vault : IlkOf[v] = i})
    BY <1>4, <1>5
  <1> QED BY <1>6, <1>7 DEF Sums, SumCoversAuctions, JoinBacksVaults

LEMMA SpecSums == Spec => []Sums
  <1>1. Inv /\ Inv' /\ Sums /\ [Next]_vars => Sums'
    BY NextSums
  <1> QED BY <1>1, SpecInv, InitSums, PTL DEF Spec

(* `sum' is never less than the collateral on auction, for any number of   *)
(* vaults, so that the line bounds the collateral and no purchase reverts  *)
(* when it is taken off `sum'.                                             *)
THEOREM WitchSumCovers == Spec => []SumCoversAuctions
  <1>1. Sums => SumCoversAuctions
    BY DEF Sums
  <1> QED BY <1>1, SpecSums, PTL

(* Vaults and Joins agree to the last unit of ink, whatever is bought,     *)
(* poured or given back.                                                   *)
THEOREM WitchJoinsBackVaults == Spec => []JoinBacksVaults
  <1>1. Sums => JoinBacksVaults
    BY DEF Sums
  <1> QED BY <1>1, SpecSums, PTL

(* No auction is wedged: nothing in payAll can revert but a permission, a  *)
(* duration of zero or a Join the Ladle does not know.                     *)
THEOREM WitchPayAllGoesThrough == Spec => []PayAllGoesThrough
  <1>1. ASSUME Inv, Sums
        PROVE  PayAllGoesThrough
    <2> SUFFICES ASSUME NEW v \in Vault, UnderAuction(v), ilks[IlkOf[v]].duration > 0
                 PROVE  /\ balances[v].art > 0
                        /\ limits[IlkOf[v]].sum >= PayAllInk(v)
                        /\ stored[IlkOf[v]] >= PayAllInk(v)
                        /\ PayAllInk(v) <= balances[v].ink
      BY <1>1 DEF PayAllGoesThrough
    <2> DEFINE i == IlkOf[v]
    <2>1. /\ i \in Ilk /\ balances \in [Vault -> Bal] /\ balances[v].ink \in Nat
          /\ limits[i].sum \in Nat /\ stored[i] \in Nat
      BY <1>1, IlkAssumption DEF Inv, TypeOK, Bal
    <2>2. PayAllInk(v) \in Nat /\ PayAllInk(v) <= balances[v].ink
      <3>1. PayAllInk(v) \in Nat /\ WMul(balances[v].art, Price(v)) \in Nat
        BY <1>1, SoldType DEF Inv, TypeOK
      <3> QED BY <2>1, <3>1 DEF PayAllInk
    <2>3. /\ v \in Auctioned(i) /\ Auctioned(i) \in SUBSET Vault
          /\ v \in VaultsOf(i) /\ VaultsOf(i) \in SUBSET Vault
      BY DEF Auctioned, VaultsOf
    <2>4. \A S \in SUBSET Vault : v \in S => Size(balances, S) >= balances[v].ink
      <3> SUFFICES ASSUME NEW S \in SUBSET Vault, v \in S
                   PROVE  Size(balances, S) >= balances[v].ink
        OBVIOUS
      <3>1. S \ {v} \in SUBSET Vault
        OBVIOUS
      <3>2. Size(balances, S \ {v}) \in Nat
        BY <2>1, <3>1, UnitsFinite
      <3>3. Size(balances, S) = balances[v].ink + Size(balances, S \ {v})
        BY <2>1, SizeWithout
      <3> QED BY <2>1, <3>2, <3>3
    <2>5. limits[i].sum >= Size(balances, Auctioned(i)) /\ stored[i] = Size(balances, VaultsOf(i))
      BY <1>1, <2>1, SumInkIsSize DEF Inv, Sums, SumCoversAuctions, JoinBacksVaults
    <2>6. /\ Size(balances, Auctioned(i)) \in Nat /\ Size(balances, Auctioned(i)) >= balances[v].ink
          /\ Size(balances, VaultsOf(i)) >= balances[v].ink
      BY <2>1, <2>3, <2>4, UnitsFinite
    <2>7. balances[v].art > 0
      BY <1>1 DEF Inv, AuctionedVaultIsHeld
    <2> HIDE DEF i
    <2>8. limits[i].sum >= PayAllInk(v) /\ stored[i] >= PayAllInk(v)
      BY <2>1, <2>2, <2>5, <2>6
    <2> QED BY <2>2, <2>7, <2>8 DEF i
  <1>2. Inv /\ Sums => PayAllGoesThrough
    BY <1>1
  <1> QED BY <1>2, SpecInv, SpecSums, PTL

(* Whoever opens an auction, the collateral on auction stays within the    *)
(* line of its ilk: `sum' covers it, and auction() compares `sum'.         *)
THEOREM WitchRespectsLine == Spec => AuctionRespectsLine
  <1> DEFINE Respected == \A v \in Vault : ~UnderAuction(v) /\ UnderAuction(v)'
                            => SumInk(Auctioned(IlkOf[v]))' <= limits[IlkOf[v]].line
  <1>1. ASSUME Inv, Inv', Sums', [Next]_vars, NEW v \in Vault, ~UnderAuction(v), UnderAuction(v)'
        PROVE  SumInk(Auctioned(IlkOf[v]))' <= limits[IlkOf[v]].line
    <2> DEFINE i == IlkOf[v]
    <2>1. Auction(v)
      <3>1. \A w \in Vault : GiveBack(w) => ~UnderAuction(v)'
        BY <1>1 DEF GiveBack, UnderAuction, Inv, TypeOK
      <3>2. auctions' # auctions
        BY <1>1 DEF UnderAuction
      <3>3. \A w \in Vault \ {v} : Auction(w) => ~UnderAuction(v)'
        BY <1>1 DEF Auction, UnderAuction, Inv, TypeOK
      <3>4. ASSUME NEW w \in Vault, Trade(w)
            PROVE  Auction(v)
        BY <3>1, <3>2, <3>3, <3>4, <1>1 DEF Trade, Buy, PayAll
      <3>5. ~Environment /\ ~(UNCHANGED vars)
        BY <3>2 DEF Environment, Pour, Give, MoveSpot, Accrue, Orchestrate, Tick, vars, witchVars
      <3> QED BY <1>1, <3>2, <3>4, <3>5 DEF Next, Point, SetIlk
    <2>2. /\ i \in Ilk /\ limits \in [Ilk -> [line: Nat, dust: Nat, sum: Nat]]
          /\ balances[v].ink \in Nat /\ limits[i].sum \in Nat /\ limits[i].line \in Nat
      BY <1>1, IlkAssumption DEF Inv, TypeOK
    <2>3. limits'[i].sum = limits[i].sum + balances[v].ink /\ limits'[i].sum <= limits[i].line
      BY <2>1, <2>2 DEF Auction
    <2>4. limits'[i].sum >= SumInk(Auctioned(i))'
      BY <1>1, <2>2 DEF Sums, SumCoversAuctions
    <2>5. SumInk(Auctioned(i))' \in Nat
      <3>1. balances' \in [Vault -> Bal] /\ Auctioned(i)' \in SUBSET Vault
        BY <1>1 DEF Inv, TypeOK, Bal, Auctioned
      <3>2. SumInk(Auctioned(i))' = Size(balances', Auctioned(i)')
        BY <1>1, <2>2, SumInkIsSizeNext DEF Inv
      <3> QED BY <3>1, <3>2, UnitsFinite
    <2> HIDE DEF i
    <2>6. SumInk(Auctioned(i))' <= limits[i].line
      BY <2>2, <2>3, <2>4, <2>5
    <2> QED BY <2>6 DEF i
  <1>2. Inv /\ Inv' /\ Sums' /\ [Next]_vars => Respected
    BY <1>1
  <1>3. Inv /\ Inv' /\ Sums' /\ [Next]_vars => [Respected]_vars
    BY <1>2
  <1> HIDE DEF Respected
  <1>4. Spec => [][Respected]_vars
    BY <1>3, SpecInv, SpecSums, PTL DEF Spec
  <1> QED BY <1>4 DEF AuctionRespectsLine, Respected
=============================================================================
