--------------------------- MODULE StrategyProofs ---------------------------
(***************************************************************************)
(* Proofs about Strategy.  The invariant is the conjunction of its three   *)
(* invariants: they need each other, since a mint is for those who hold    *)
(* shares because there are some while something is cached, and a          *)
(* withdrawal can be paid because what is cached is there.                 *)
(***************************************************************************)
EXTENDS Strategy, TLAPS

IInv == TypeOK /\ CachedIsThere /\ SharesMatchHoldings

-----------------------------------------------------------------------------
(* Arithmetic.                                                             *)

LEMMA Products ==
  ASSUME NEW x \in Nat, NEW y \in Nat
  PROVE  x * y \in Nat
  OBVIOUS

LEMMA Floor ==
  ASSUME NEW x \in Nat, NEW y \in Nat \ {0}
  PROVE  /\ x \div y \in Nat
         /\ (x \div y) * y <= x
         /\ x < (x \div y) * y + y
  OBVIOUS

LEMMA Cancel ==
  ASSUME NEW x \in Nat, NEW y \in Nat, NEW z \in Nat \ {0}, x * z <= y * z
  PROVE  x <= y
  OBVIOUS

LEMMA StrictlyMonotone ==
  ASSUME NEW x \in Nat, NEW y \in Nat, NEW z \in Nat \ {0}, x < y
  PROVE  x * z < y * z
  OBVIOUS

LEMMA Distribute ==
  ASSUME NEW x \in Int, NEW y \in Int, NEW z \in Int
  PROVE  /\ (x - y) * z = x * z - y * z
         /\ z * (x - y) = z * x - z * y
         /\ (x + y) * z = x * z + y * z
         /\ z * (x + y) = z * x + z * y
  OBVIOUS

LEMMA Monotone ==
  ASSUME NEW x \in Nat, NEW y \in Nat, NEW z \in Nat, x >= y
  PROVE  x * z >= y * z
  <1>1. x - y \in Nat
    OBVIOUS
  <1>2. (x - y) * z \in Nat /\ x * z \in Nat /\ y * z \in Nat
    BY <1>1, Products
  <1>3. (x - y) * z = x * z - y * z
    BY Distribute
  <1> QED BY <1>2, <1>3

(* What is paid out for b of s shares in `assets` leaves the other shares  *)
(* at least what they stood for; who burns all is paid all.                *)
LEMMA PayOut ==
  ASSUME NEW assets \in Nat, NEW s \in Nat \ {0}, NEW b \in 0..s,
         NEW w, w = (assets * b) \div s
  PROVE  /\ w \in 0..assets
         /\ (assets - w) * s >= assets * (s - b)
         /\ b = s => w = assets
  <1>1. assets * b \in Nat /\ assets * s \in Nat
    BY Products
  <1>2. w \in Nat /\ w * s <= assets * b /\ assets * b < w * s + s
    BY <1>1, Floor
  <1>3. w * s \in Nat
    BY <1>2, Products
  <1>4. (assets - w) * s = assets * s - w * s /\ assets * (s - b) = assets * s - assets * b
    BY <1>2, Distribute
  <1>5. assets * s - w * s >= assets * s - assets * b
    BY <1>1, <1>2, <1>3
  <1>6. assets * b <= assets * s
    <2>1. b <= s /\ b \in Nat
      OBVIOUS
    <2>2. CASE b = s
      BY <2>2, <1>1
    <2>3. CASE assets = 0
      BY <2>3
    <2>4. CASE b < s /\ assets \in Nat \ {0}
      <3>1. b * assets < s * assets
        BY <2>1, <2>4, StrictlyMonotone
      <3>2. b * assets = assets * b /\ s * assets = assets * s
        BY <2>1
      <3> QED BY <1>1, <3>1, <3>2
    <2> QED BY <2>1, <2>2, <2>3, <2>4
  <1>7. w <= assets
    <2>1. w * s <= assets * s
      BY <1>1, <1>2, <1>3, <1>6
    <2> QED BY <1>2, <2>1, Cancel
  <1>8. b = s => w = assets
    <2> SUFFICES ASSUME b = s PROVE w = assets
      OBVIOUS
    <2>1. assets * s < (w + 1) * s
      <3>1. (w + 1) * s = w * s + s
        BY <1>2
      <3> QED BY <1>2, <3>1
    <2>2. assets <= w
      <3> SUFFICES ASSUME w + 1 <= assets PROVE FALSE
        BY <1>2
      <3>1. CASE w + 1 = assets
        BY <2>1, <3>1, <1>1
      <3>2. CASE w + 1 < assets
        <4>1. (w + 1) * s < assets * s
          BY <1>2, <3>2, StrictlyMonotone
        <4>2. (w + 1) * s \in Nat
          BY <1>2, Products
        <4> QED BY <1>1, <2>1, <4>1, <4>2
      <3> QED BY <1>2, <3>1, <3>2
    <2> QED BY <1>2, <1>7, <2>2
  <1> QED BY <1>2, <1>4, <1>5, <1>7, <1>8

(* What is issued for a deposit d to a fund of c with s shares leaves the  *)
(* shares there were at least what they stood for.                         *)
LEMMA Issue ==
  ASSUME NEW c \in Nat \ {0}, NEW d \in Nat, NEW s \in Nat,
         NEW m, m = (s * d) \div c
  PROVE  m \in Nat /\ (c + d) * s >= c * (s + m)
  <1>1. s * d \in Nat /\ c * s \in Nat
    BY Products
  <1>2. m \in Nat /\ m * c <= s * d
    BY <1>1, Floor
  <1>3. m * c \in Nat
    BY <1>2, Products
  <1>4. (c + d) * s = c * s + d * s /\ c * (s + m) = c * s + c * m
    BY <1>2, Distribute
  <1>5. d * s = s * d /\ c * m = m * c
    BY <1>2
  <1> QED BY <1>1, <1>2, <1>3, <1>4, <1>5

-----------------------------------------------------------------------------
(* Every step keeps the invariant and what a share stands for.             *)

ValueKept ==
  supply' > 0 =>
    /\ PoolSelected /\ pool' = pool => cached' * supply >= cached * supply'
    /\ ~PoolSelected /\ pool' = pool => base' * supply >= base * supply'

LEMMA InitInv == Init => IInv
  <1> SUFFICES ASSUME Init PROVE IInv
    OBVIOUS
  <1>1. baseId \in BaseId
    BY ConfigAssumption DEF Init
  <1> QED BY <1>1, PoolAssumption
    DEF Init, IInv, TypeOK, CachedIsThere, SharesMatchHoldings, PoolSelected

(* Nothing is minted or burnt, and nothing but donations moves.            *)
LEMMA QuietInv ==
  ASSUME IInv,
         UNCHANGED <<pool, cached, supply>>,
         ladle' \in Ladle, baseId' \in BaseId, nextPool' \in Pool \cup {NoPool},
         burnable' \in 0..supply, lp' \in [Pool -> Nat], \A p \in Pool : lp'[p] >= lp[p],
         base' \in Nat, base' >= base, matured' \subseteq Pool
  PROVE  IInv' /\ ValueKept
  <1>1. TypeOK'
    BY DEF IInv, TypeOK
  <1>2. CachedIsThere'
    <2> USE DEF CachedIsThere, PoolSelected
    <2>1. CASE pool = NoPool
      BY <2>1 DEF IInv
    <2>2. CASE pool \in Pool /\ pool # NoPool
      <3>1. lp'[pool] >= lp[pool] /\ lp[pool] >= cached
        BY <2>2 DEF IInv
      <3>2. lp'[pool] \in Nat /\ lp[pool] \in Nat /\ cached \in Nat
        BY <2>2 DEF IInv, TypeOK
      <3>3. lp'[pool] >= cached
        BY <3>1, <3>2
      <3> QED BY <2>2, <3>3
    <2> QED BY <2>1, <2>2 DEF IInv, TypeOK
  <1>3. SharesMatchHoldings'
    BY DEF IInv, SharesMatchHoldings, PoolSelected
  <1>4. ValueKept
    <2>1. supply \in Nat /\ cached \in Nat /\ base \in Nat
      BY DEF IInv, TypeOK
    <2>2. cached * supply \in Nat
      BY <2>1, Products
    <2>3. base' * supply >= base * supply
      BY <2>1, Monotone
    <2> QED BY <2>2, <2>3 DEF ValueKept
  <1> QED BY <1>1, <1>2, <1>3, <1>4 DEF IInv

LEMMA GovernanceInv ==
  ASSUME IInv,
         \/ \E l \in Ladle : SetYield(l)
         \/ \E i \in BaseId : SetTokenId(i)
         \/ ResetTokenJoin
         \/ \E p \in Pool : SetNextPool(p) \/ Mature(p)
         \/ UNCHANGED vars
  PROVE  IInv' /\ ValueKept
  <1>1. /\ UNCHANGED <<pool, cached, supply, burnable, lp, base>>
        /\ ladle' \in Ladle /\ baseId' \in BaseId /\ nextPool' \in Pool \cup {NoPool}
        /\ matured' \subseteq Pool
    BY DEF IInv, TypeOK, SetYield, SetTokenId, ResetTokenJoin, SetNextPool, Mature, vars, config
  <1>2. /\ burnable' \in 0..supply /\ lp' \in [Pool -> Nat] /\ \A p \in Pool : lp'[p] >= lp[p]
        /\ base' \in Nat /\ base' >= base
    BY <1>1 DEF IInv, TypeOK
  <1> QED BY <1>1, <1>2, QuietInv

LEMMA ReceiveInv ==
  ASSUME IInv, Receive
  PROVE  IInv' /\ ValueKept
  <1>1. UNCHANGED <<config, pool, nextPool, cached, supply, matured>>
    BY DEF Receive
  <1>2. /\ lp \in [Pool -> Nat] /\ base \in Nat /\ burnable \in 0..supply /\ supply \in Nat
    BY DEF IInv, TypeOK
  <1>3. /\ burnable' \in 0..supply /\ base' \in Nat /\ base' >= base
    BY <1>2 DEF Receive
  <1>4. lp' \in [Pool -> Nat] /\ \A p \in Pool : lp'[p] >= lp[p]
    BY <1>2 DEF Receive
  <1>5. ladle' \in Ladle /\ baseId' \in BaseId /\ nextPool' \in Pool \cup {NoPool} /\ matured' \subseteq Pool
    BY <1>1 DEF IInv, TypeOK, config
  <1> QED BY <1>1, <1>3, <1>4, <1>5, QuietInv

LEMMA StartPoolInv ==
  ASSUME IInv, NEW minted \in Nat, NEW rest \in 0..base, StartPool(minted, rest)
  PROVE  IInv' /\ ValueKept
  <1>1. TypeOK'
    BY DEF IInv, TypeOK, StartPool, config
  <1>2. /\ pool' \in Pool /\ pool' # NoPool /\ pool = NoPool /\ cached' = minted
        /\ supply' = IF supply = 0 THEN minted ELSE supply
        /\ lp' = [lp EXCEPT ![pool'] = @ + minted]
    BY DEF IInv, TypeOK, StartPool, PoolSelected
  <1>3. lp'[pool'] = lp[pool'] + minted /\ lp[pool'] \in Nat /\ supply \in Nat
    BY <1>2 DEF IInv, TypeOK
  <1>4. CachedIsThere' /\ SharesMatchHoldings'
    BY <1>2, <1>3 DEF CachedIsThere, SharesMatchHoldings, PoolSelected
  <1>5. ValueKept
    BY <1>2 DEF ValueKept, PoolSelected
  <1> QED BY <1>1, <1>4, <1>5 DEF IInv

LEMMA EndPoolInv ==
  ASSUME IInv, NEW received \in Nat, EndPool(received)
  PROVE  IInv' /\ ValueKept
  <1>1. TypeOK'
    BY DEF IInv, TypeOK, EndPool, config
  <1>2. pool # NoPool /\ pool' = NoPool /\ cached' = 0
    BY DEF EndPool, PoolSelected
  <1>3. CachedIsThere' /\ SharesMatchHoldings' /\ ValueKept
    BY <1>2 DEF CachedIsThere, SharesMatchHoldings, PoolSelected, ValueKept
  <1> QED BY <1>1, <1>3 DEF IInv

LEMMA MintInv ==
  ASSUME IInv, NEW toItself \in BOOLEAN, Mint(toItself)
  PROVE  IInv' /\ ValueKept
  <1> DEFINE deposit == lp[pool] - cached
             minted == (supply * deposit) \div cached
  <1>1. /\ pool \in Pool /\ pool # NoPool /\ cached \in Nat \ {0} /\ lp[pool] \in Nat
        /\ supply \in Nat \ {0} /\ burnable \in 0..supply
    BY DEF IInv, TypeOK, Mint, PoolSelected, SharesMatchHoldings
  <1>2. deposit \in Nat
    BY <1>1 DEF IInv, CachedIsThere, PoolSelected
  <1>3. /\ cached' = cached + deposit /\ supply' = supply + minted
        /\ burnable' = IF toItself THEN burnable + minted ELSE burnable
        /\ UNCHANGED <<config, pool, nextPool, lp, base, matured>>
    BY DEF Mint
  <1> HIDE DEF deposit
  <1>4. minted \in Nat /\ (cached + deposit) * supply >= cached * (supply + minted)
    BY <1>1, <1>2, Issue
  <1> HIDE DEF minted
  <1>5. cached' = lp[pool]
    BY <1>1, <1>3 DEF deposit
  <1>6. burnable' \in 0..supply' /\ supply' \in Nat /\ cached' \in Nat \ {0}
    BY <1>1, <1>2, <1>3, <1>4
  <1>7. TypeOK'
    BY <1>3, <1>6 DEF IInv, TypeOK, config
  <1>8. CachedIsThere'
    BY <1>1, <1>3, <1>5 DEF CachedIsThere, PoolSelected
  <1>9. SharesMatchHoldings'
    BY <1>1, <1>3, <1>4, <1>6 DEF SharesMatchHoldings, PoolSelected
  <1>10. ValueKept
    BY <1>1, <1>3, <1>4 DEF ValueKept, PoolSelected
  <1> QED BY <1>7, <1>8, <1>9, <1>10 DEF IInv

LEMMA BurnInv ==
  ASSUME IInv, NEW toItself \in BOOLEAN, Burn(toItself)
  PROVE  IInv' /\ ValueKept
  <1> DEFINE w == (cached * burnable) \div supply
  <1>1. /\ pool \in Pool /\ pool # NoPool /\ cached \in Nat /\ lp \in [Pool -> Nat]
        /\ supply \in Nat \ {0} /\ burnable \in 0..supply /\ lp[pool] >= cached
    BY DEF IInv, TypeOK, Burn, PoolSelected, CachedIsThere
  <1>2. /\ cached' = cached - w /\ supply' = supply - burnable /\ burnable' = 0
        /\ lp' = IF toItself THEN lp ELSE [lp EXCEPT ![pool] = @ - w]
        /\ UNCHANGED <<config, pool, nextPool, base, matured>>
    BY DEF Burn, Withdrawal
  <1>3. /\ w \in 0..cached /\ (cached - w) * supply >= cached * (supply - burnable)
        /\ burnable = supply => w = cached
    BY <1>1, PayOut
  <1> HIDE DEF w
  <1>4. lp' \in [Pool -> Nat] /\ lp'[pool] >= cached'
    <2>1. lp[pool] - w \in Nat /\ lp[pool] \in Nat
      BY <1>1, <1>3
    <2>2. CASE toItself
      BY <1>1, <1>2, <1>3, <2>1, <2>2
    <2>3. CASE ~toItself
      <3>1. lp' = [lp EXCEPT ![pool] = lp[pool] - w]
        BY <1>2, <2>3
      <3>2. lp'[pool] = lp[pool] - w
        BY <1>1, <3>1
      <3> QED BY <1>1, <1>2, <1>3, <2>1, <3>1, <3>2
    <2> QED BY <2>2, <2>3
  <1>5. supply' \in Nat /\ cached' \in Nat /\ burnable' \in 0..supply' /\ (supply' = 0 => cached' = 0)
    BY <1>1, <1>2, <1>3
  <1>6. TypeOK'
    BY <1>2, <1>4, <1>5 DEF IInv, TypeOK, config
  <1>7. CachedIsThere' /\ SharesMatchHoldings'
    BY <1>1, <1>2, <1>4, <1>5 DEF CachedIsThere, SharesMatchHoldings, PoolSelected
  <1>8. ValueKept
    BY <1>1, <1>2, <1>3 DEF ValueKept, PoolSelected
  <1> QED BY <1>6, <1>7, <1>8 DEF IInv

LEMMA BurnForBaseInv ==
  ASSUME IInv, NEW toItself \in BOOLEAN, BurnForBase(toItself)
  PROVE  IInv' /\ ValueKept
  <1> DEFINE w == (base * burnable) \div supply
  <1>1. pool = NoPool /\ supply \in Nat \ {0} /\ burnable \in 0..supply /\ base \in Nat
    BY DEF IInv, TypeOK, BurnForBase, PoolSelected
  <1>2. /\ supply' = supply - burnable /\ burnable' = 0
        /\ base' = IF toItself THEN base ELSE base - w
        /\ UNCHANGED <<config, pool, nextPool, cached, lp, matured>>
    BY DEF BurnForBase, Withdrawal
  <1>3. w \in 0..base /\ (base - w) * supply >= base * (supply - burnable)
    BY <1>1, PayOut
  <1> HIDE DEF w
  <1>4. base' \in Nat /\ supply' \in Nat /\ burnable' \in 0..supply'
    BY <1>1, <1>2, <1>3
  <1>5. TypeOK'
    BY <1>2, <1>4 DEF IInv, TypeOK, config
  <1>6. CachedIsThere' /\ SharesMatchHoldings'
    BY <1>1, <1>2 DEF IInv, CachedIsThere, SharesMatchHoldings, PoolSelected
  <1>7. base' * supply >= base * supply'
    <2>1. CASE ~toItself
      BY <1>2, <1>3, <2>1
    <2>2. CASE toItself
      <3>1. base * (supply - burnable) = base * supply - base * burnable
        BY <1>1, Distribute
      <3>2. base * supply \in Nat /\ base * burnable \in Nat
        BY <1>1, Products
      <3> QED BY <1>2, <2>2, <3>1, <3>2
    <2> QED BY <2>1, <2>2
  <1>8. ValueKept
    BY <1>1, <1>2, <1>7 DEF ValueKept, PoolSelected
  <1> QED BY <1>5, <1>6, <1>8 DEF IInv

LEMMA StepInv == IInv /\ [Next]_vars => IInv' /\ ValueKept
  <1> SUFFICES ASSUME IInv, [Next]_vars PROVE IInv' /\ ValueKept
    OBVIOUS
  <1>1. CASE Invest
    <2>1. \A minted \in 0..MaxLP, rest \in 0..base : StartPool(minted, rest) => IInv' /\ ValueKept
      BY BoundAssumption, StartPoolInv
    <2>2. \A received \in 0..(MaxBase - base) : EndPool(received) => IInv' /\ ValueKept
      BY EndPoolInv
    <2> QED BY <1>1, <2>1, <2>2 DEF Invest
  <1>2. CASE Share
    BY <1>2, MintInv, BurnInv, BurnForBaseInv DEF Share
  <1>3. CASE Receive
    BY <1>3, ReceiveInv
  <1> QED BY <1>1, <1>2, <1>3, GovernanceInv DEF Next

-----------------------------------------------------------------------------
THEOREM InductiveInvariant == Spec => []IInv
  <1>1. IInv /\ [Next]_vars => IInv'
    BY StepInv
  <1> QED BY InitInv, <1>1, PTL DEF Spec

(* Every variable of the strategy keeps its type: no subtraction of mint,  *)
(* burn and burnForBase goes below zero.                                   *)
THEOREM StrategyTypeCorrect == Spec => []TypeOK
  <1>1. IInv => TypeOK
    BY DEF IInv
  <1> QED BY InductiveInvariant, <1>1, PTL

(* What StrategyV1 has cached is there.                                    *)
THEOREM StrategyHasWhatItCached == Spec => []CachedIsThere
  <1>1. IInv => CachedIsThere
    BY DEF IInv
  <1> QED BY InductiveInvariant, <1>1, PTL

(* While StrategyV1 invests, whatever its pools mint, nothing is cached    *)
(* without a share that stands for it.                                     *)
THEOREM StrategySharesMatch == Spec => []SharesMatchHoldings
  <1>1. IInv => SharesMatchHoldings
    BY DEF IInv
  <1> QED BY InductiveInvariant, <1>1, PTL

(* No mint, burn or transfer makes a share of StrategyV1 worth less to     *)
(* those who keep it.                                                      *)
THEOREM StrategyKeepsShareValue == Spec => ShareValueNeverFalls
  <1>1. IInv /\ [Next]_vars => ValueKept
    BY StepInv
  <1>2. ValueKept <=> (supply' > 0 =>
       /\ PoolSelected /\ pool' = pool => cached' * supply >= cached * supply'
       /\ ~PoolSelected /\ pool' = pool => base' * supply >= base * supply')
    BY DEF ValueKept
  <1>3. IInv /\ [Next]_vars => [supply' > 0 =>
       /\ PoolSelected /\ pool' = pool => cached' * supply >= cached * supply'
       /\ ~PoolSelected /\ pool' = pool => base' * supply >= base * supply']_vars
    BY <1>1, <1>2
  <1> QED BY InductiveInvariant, <1>3, PTL DEF Spec, ShareValueNeverFalls
=============================================================================
