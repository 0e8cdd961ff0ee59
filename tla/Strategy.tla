------------------------------ MODULE Strategy ------------------------------
(***************************************************************************)
(* src/contracts/deprecated/StrategyV1.sol: a fund that invests base in    *)
(* the liquidity pool of one fyToken at a time, until it matures, and      *)
(* whose shares are tokens.  Deposits and withdrawals are two steps: the   *)
(* tokens are transferred to the strategy, and a later call takes whatever *)
(* is there that it does not account for, for whoever made the call.       *)
(*                                                                         *)
(* Pools, fyTokens, the Ladle and the Cauldron are external.  What a pool  *)
(* gives for the strategy's base, and what comes back from it, is open.    *)
(***************************************************************************)
EXTENDS Integers

CONSTANTS
  Pool,        \* the pools of this base
  NoPool,      \* address(0)
  Ladle,       \* the Ladles the strategy may be given
  BaseId,      \* the ids its base may have
  KnownPools,  \* ladle -> the pools whose series its Cauldron has
  KnownIds,    \* ladle -> the ids its Cauldron has for this base
  JoinOf,      \* ladle -> base id -> the Join registered for it
  FYJoin,      \* pool -> the Join of its fyToken
  MaxLP, MaxBase, MaxSupply   \* bounds on what the strategy holds and issues

ASSUME PoolAssumption == NoPool \notin Pool
ASSUME ConfigAssumption ==
  KnownPools \in [Ladle -> SUBSET Pool] /\ KnownIds \in [Ladle -> SUBSET BaseId]
ASSUME BoundAssumption == MaxLP \in Nat /\ MaxBase \in Nat /\ MaxSupply \in Nat

VARIABLES
  ladle, baseId, baseJoin,
  pool,        \* the pool it invests in
  nextPool,    \* the one it will invest in
  cached,      \* LP tokens owned by the strategy after the last operation
  supply,      \* its own tokens, the shares
  burnable,    \* those of them that the strategy holds itself
  lp,          \* pool -> LP tokens of it that the strategy holds
  base,        \* base the strategy holds
  matured      \* the pools whose fyToken has matured

config == <<ladle, baseId, baseJoin>>
vars == <<config, pool, nextPool, cached, supply, burnable, lp, base, matured>>

Init ==
  /\ ladle \in Ladle /\ baseId \in KnownIds[ladle] /\ baseJoin = JoinOf[ladle][baseId]
  /\ pool = NoPool /\ nextPool = NoPool
  /\ cached = 0 /\ supply = 0 /\ burnable = 0
  /\ lp = [p \in Pool |-> 0] /\ base = 0
  /\ matured = {}

PoolSelected == pool # NoPool

-----------------------------------------------------------------------------
(* Governance.                                                             *)

SetYield(l) ==
  /\ ~PoolSelected
  /\ ladle' = l
  /\ UNCHANGED <<baseId, baseJoin, pool, nextPool, cached, supply, burnable, lp, base, matured>>

SetTokenId(i) ==
  /\ ~PoolSelected
  /\ i \in KnownIds[ladle]
  /\ baseId' = i
  /\ UNCHANGED <<ladle, baseJoin, pool, nextPool, cached, supply, burnable, lp, base, matured>>

ResetTokenJoin ==
  /\ ~PoolSelected
  /\ baseJoin' = JoinOf[ladle][baseId]
  /\ UNCHANGED <<ladle, baseId, pool, nextPool, cached, supply, burnable, lp, base, matured>>

SetNextPool(p) ==
  /\ p \in KnownPools[ladle]
  /\ nextPool' = p
  /\ UNCHANGED <<config, pool, cached, supply, burnable, lp, base, matured>>

(* Mutant: the first pool is started without shares.                       *)
StartPool_MintsNothing(minted, rest) ==
  /\ ~PoolSelected /\ nextPool # NoPool /\ base > 0
  /\ nextPool \notin matured /\ baseJoin = FYJoin[nextPool]
  /\ pool' = nextPool /\ nextPool' = NoPool
  /\ cached' = minted
  /\ lp' = [lp EXCEPT ![nextPool] = @ + minted]
  /\ base' = rest
  /\ UNCHANGED <<config, supply, burnable, matured>>

(* All base goes to the Join, for fyToken, and to the pool, which mints LP *)
(* tokens, none perhaps, and may return some.  A fyToken that has matured  *)
(* is not minted, nor one whose Join did not get the base.                 *)
StartPool(minted, rest) ==
  /\ ~PoolSelected /\ nextPool # NoPool /\ base > 0
  /\ nextPool \notin matured /\ baseJoin = FYJoin[nextPool]
  /\ pool' = nextPool /\ nextPool' = NoPool
  /\ cached' = minted
  /\ lp' = [lp EXCEPT ![nextPool] = @ + minted]
  /\ base' = rest
  /\ supply' = IF supply = 0 THEN minted ELSE supply
  /\ UNCHANGED <<config, burnable, matured>>

-----------------------------------------------------------------------------
(* Anybody.                                                                *)

(* All LP tokens are burnt, and the fyToken that comes back is redeemed.   *)
EndPool(received) ==
  /\ PoolSelected /\ pool \in matured
  /\ lp' = [lp EXCEPT ![pool] = 0]
  /\ base' = base + received
  /\ pool' = NoPool /\ cached' = 0
  /\ UNCHANGED <<config, nextPool, supply, burnable, matured>>

(* The LP tokens that are not cached are a deposit.                        *)
Mint(toItself) ==
  LET deposit == lp[pool] - cached
      minted == (supply * deposit) \div cached IN
  /\ PoolSelected /\ cached > 0
  /\ supply + minted <= MaxSupply
  /\ cached' = cached + deposit
  /\ supply' = supply + minted
  /\ burnable' = IF toItself THEN burnable + minted ELSE burnable
  /\ UNCHANGED <<config, pool, nextPool, lp, base, matured>>

(* What `burnt` of the shares stand for.  Mutant: rounded up.              *)
Withdrawal_RoundsUp(assets, burnt) == (assets * burnt + supply - 1) \div supply

Withdrawal(assets, burnt) == (assets * burnt) \div supply

(* Mutant: what leaves the strategy is still cached.                       *)
Burn_KeepsCached(toItself) ==
  LET withdrawal == Withdrawal(cached, burnable) IN
  /\ PoolSelected /\ supply > 0
  /\ supply' = supply - burnable /\ burnable' = 0
  /\ lp' = IF toItself THEN lp ELSE [lp EXCEPT ![pool] = @ - withdrawal]
  /\ UNCHANGED <<config, pool, nextPool, cached, base, matured>>

(* The shares that the strategy holds are burnt.                           *)
Burn(toItself) ==
  LET withdrawal == Withdrawal(cached, burnable) IN
  /\ PoolSelected /\ supply > 0
  /\ cached' = cached - withdrawal
  /\ supply' = supply - burnable /\ burnable' = 0
  /\ lp' = IF toItself THEN lp ELSE [lp EXCEPT ![pool] = @ - withdrawal]
  /\ UNCHANGED <<config, pool, nextPool, base, matured>>

(* Mutant: the burnt shares can be burnt again.                            *)
BurnForBase_KeepsBalance(toItself) ==
  /\ ~PoolSelected /\ supply > 0
  /\ supply' = supply - burnable
  /\ base' = IF toItself THEN base ELSE base - Withdrawal(base, burnable)
  /\ UNCHANGED <<config, pool, nextPool, cached, burnable, lp, matured>>

BurnForBase(toItself) ==
  /\ ~PoolSelected /\ supply > 0
  /\ supply' = supply - burnable /\ burnable' = 0
  /\ base' = IF toItself THEN base ELSE base - Withdrawal(base, burnable)
  /\ UNCHANGED <<config, pool, nextPool, cached, lp, matured>>

-----------------------------------------------------------------------------
(* Transfers to the strategy, of LP tokens, base and shares; time.         *)

Receive ==
  /\ \/ \E p \in Pool :
          /\ lp[p] < MaxLP
          /\ lp' = [lp EXCEPT ![p] = @ + 1]
          /\ UNCHANGED <<base, burnable>>
     \/ base < MaxBase /\ base' = base + 1 /\ UNCHANGED <<lp, burnable>>
     \/ burnable < supply /\ burnable' = burnable + 1 /\ UNCHANGED <<lp, base>>
  /\ UNCHANGED <<config, pool, nextPool, cached, supply, matured>>

Mature(p) ==
  /\ matured' = matured \cup {p}
  /\ UNCHANGED <<config, pool, nextPool, cached, supply, burnable, lp, base>>

-----------------------------------------------------------------------------
Invest ==
  \/ \E minted \in 0..MaxLP, rest \in 0..base :
       /\ nextPool # NoPool => lp[nextPool] + minted <= MaxLP
       /\ StartPool(minted, rest)
  \/ \E received \in 0..(MaxBase - base) : EndPool(received)

Share == \E toItself \in BOOLEAN : Mint(toItself) \/ Burn(toItself) \/ BurnForBase(toItself)

Next ==
  \/ \E l \in Ladle : SetYield(l)
  \/ \E i \in BaseId : SetTokenId(i)
  \/ ResetTokenJoin
  \/ \E p \in Pool : SetNextPool(p) \/ Mature(p)
  \/ Invest \/ Share \/ Receive

Spec == Init /\ [][Next]_vars

-----------------------------------------------------------------------------
(* Properties.                                                             *)

(* Every variable has its type; no balance goes below zero.                *)
TypeOK ==
  /\ ladle \in Ladle /\ baseId \in BaseId
  /\ pool \in Pool \cup {NoPool} /\ nextPool \in Pool \cup {NoPool}
  /\ cached \in Nat /\ supply \in Nat
  /\ burnable \in 0..supply
  /\ lp \in [Pool -> Nat] /\ base \in Nat
  /\ matured \subseteq Pool

(* The LP tokens that are cached are there: `balance - cached` in mint     *)
(* never fails, and a withdrawal can always be paid, whatever is donated,  *)
(* burnt, or left from an earlier time in the same pool.                   *)
CachedIsThere == IF PoolSelected THEN lp[pool] >= cached ELSE cached = 0

(* While it invests, nothing is cached that no share stands for: whoever   *)
(* burns the last share takes all, and who comes first gets the shares for *)
(* what is there.  The converse does not hold: a pool that mints nothing   *)
(* for what startPool sends it (:200 looks at no amount) leaves shares     *)
(* with nothing cached, with which mint divides by 0 and burn pays nothing *)
(* until endPool.                                                          *)
SharesMatchHoldings == PoolSelected /\ supply = 0 => cached = 0

(* No mint, burn or transfer makes a share worth less to those who keep    *)
(* it, in LP tokens while the strategy invests in a pool, in base while it *)
(* does not: every rounding is for them, and no burn but that of the last  *)
(* share takes all that is cached.                                         *)
ShareValueNeverFalls ==
  [][supply' > 0 =>
       /\ PoolSelected /\ pool' = pool => cached' * supply >= cached * supply'
       /\ ~PoolSelected /\ pool' = pool => base' * supply >= base * supply']_vars
=============================================================================
