------------------------- MODULE OperationFragments -------------------------
(***************************************************************************)
(* The fragments of proposals that operate the protocol: strategies are    *)
(* initialised, invested, rolled and migrated, helpers are orchestrated,   *)
(* and, in an emergency, funds are moved and contracts replaced            *)
(* (scripts/fragments/strategies, utils, emergency and replace).           *)
(***************************************************************************)
EXTENDS AssetFragments

(* strategies: [address, base, initAmount, pool], the pool being that of the
   series to invest in, absent if there is none *)
orchestrateStrategy(deployer, multisig, ctx, strategy) ==
  <<GrantRoles(strategy, {"setRewardsToken", "setRewards", "init", "invest", "eject", "restart"}, TIMELOCK),
    GrantRoles(strategy, {"eject"}, multisig),
    Set(ctx.ladle, "addIntegration", "integrations", <<strategy>>, TRUE),
    Set(ctx.ladle, "addToken", "tokens", <<strategy>>, TRUE)>>
  \o revokeRoot(strategy, deployer)
initStrategy(strategy) ==
  <<Call(strategy.base, "transfer", <<strategy.address, strategy.initAmount>>),
    Call(strategy.address, "init", <<ZERO_ADDRESS>>)>>
\* The permission to initialise the pool stays with the strategy
investStrategy(strategy) ==
  IF "pool" \notin DOMAIN strategy THEN <<Throw>>
  ELSE <<GrantRoles(strategy.pool, {"init"}, strategy.address),
         Call(strategy.address, "invest", <<strategy.pool>>)>>
divestStrategy(strategy) == <<Call(strategy.address, "divest", <<>>)>>
rollStrategy(strategy) == divestStrategy(strategy) \o investStrategy(strategy)
migrateStrategy_starts(s, strategy) ==
  LET old == strategy.address
      new == strategy.next
  IN  <<GrantRoles(new, {"mint"}, old),
        Set(old, "setNextPool", "nextPool", <<>>, new),
        Call(Val(s, <<old, "base">>), "transfer", <<new, 1>>),
        Call(old, "startPool", <<>>), Call(old, "endPool", <<>>),
        RevokeRoles(new, {"mint"}, old)>>
\* A strategy V1 takes a strategy V2 for its next pool; minting is open to it
\* between two calls of the same transaction only
migrateStrategy(s, strategy) ==
  LET old == strategy.address
      new == strategy.next
  IN  <<GrantRoles(new, {"mint"}, old),
        Set(old, "setNextPool", "nextPool", <<>>, new),
        Call(old, "endPool", <<>>),
        Call(Val(s, <<old, "base">>), "transfer", <<new, 1>>),
        Call(old, "startPool", <<>>),
        RevokeRoles(new, {"mint"}, old)>>
orchestrateRewardsWrapper(deployer, wrapper) ==
  <<GrantRoles(wrapper, {"set", "skim", "mint"}, TIMELOCK)>> \o revokeRoot(wrapper, deployer)
setRewardsToken(strategy, token) == <<Set(strategy, "setRewardsToken", "rewardsToken", <<>>, token)>>
setRewardsUnderlying(wrapper, token) == <<Set(wrapper, "set", "underlying", <<>>, token)>>
addRewardsPlan(strategy, plan) == <<Set(strategy, "setRewards", "rewards", <<>>, plan)>>
\* The rewards token is the one set as the proposal is built: without one, the
\* script fails as it asks for its symbol
mintRewardsToken(s, strategy, amount) ==
  IF ~Has(s, <<strategy, "rewardsToken">>) THEN <<Throw>>
  ELSE <<Call(Val(s, <<strategy, "rewardsToken">>), "mint", <<strategy, amount>>)>>

(* emergency *)
\* The Timelock takes a permission, uses it and drops it
Borrow(host, role, calls) ==
  <<GrantRoles(host, {role}, TIMELOCK)>> \o calls \o <<RevokeRoles(host, {role}, TIMELOCK)>>
exitJoin(join, transfer) ==
  Borrow(join, "exit", <<Call(join, "exit", <<transfer.receiver, transfer.amount>>)>>)
mintFYToken(fyToken, receiver, amount) ==
  Borrow(fyToken, "mint", <<Call(fyToken, "mint", <<receiver, amount>>)>>)
\* The balance moved is the one stored as the proposal is built
drainJoinsFragment(s, ctx, joinReplacements) ==
  Each(LAMBDA x :
         LET stored == Amount(s, <<x[1], "storedBalance">>) IN
         <<GrantRoles(x[1], {"exit"}, TIMELOCK), GrantRoles(x[2], {"join"}, TIMELOCK),
           Call(x[1], "exit", <<x[2], stored>>), Call(x[2], "join", <<x[1], stored>>),
           RevokeRoles(x[1], JoinRoles, ctx.ladle),
           RevokeRoles(x[1], {"exit"}, TIMELOCK), RevokeRoles(x[2], {"join"}, TIMELOCK)>>,
       joinReplacements)
ejectStrategy(strategy) == <<Call(strategy, "eject", <<>>)>>
burnDivestedStrategy(strategy, receiver) == <<Call(strategy, "burnDivested", <<receiver>>)>>
buyFYTokenFromStrategy(strategy, receiver) == <<Call(strategy, "buyFYToken", <<receiver, receiver>>)>>
mintStrategy(strategy, receiver) == <<Call(strategy, "mintStrategy", <<receiver>>)>>
mintPool(pool, receiver, remainder) == <<Call(pool, "mintPool", <<receiver, remainder>>)>>
sellFYTokensToPool(pool, receiver, min) == <<Call(pool, "sellFYToken", <<receiver, min>>)>>
orchestratePoolRestorer(deployer, restorer) ==
  <<GrantRoles(restorer, {"restore"}, TIMELOCK)>> \o revokeRoot(restorer, deployer)
isolatePoolRestorer(restorer) == <<RevokeRoles(restorer, {"restore"}, TIMELOCK)>>
restorePool(restorer, r) == <<Set(restorer, "restore", "restored", <<r.seriesId>>, r.receiver)>>
ShifterRoles == {"pour", "tweak"}
orchestrateShifter(deployer, ctx, shifter) ==
  <<GrantRoles(shifter, {"shift"}, TIMELOCK), GrantRoles(ctx.cauldron, ShifterRoles, shifter)>>
  \o revokeRoot(shifter, deployer)
isolateShifter(ctx, shifter) == <<RevokeRoles(ctx.cauldron, ShifterRoles, shifter)>>
migrateDebt(shifter, vaultId, seriesId) == <<Set(shifter, "shift", "shifted", <<vaultId>>, seriesId)>>

(* utils *)
banIlk(giver, ilkId, ban) == <<Set(giver, "banIlk", "banned", <<ilkId>>, ban)>>
onChainTest(s, ctx, test, assets) ==
  Each(LAMBDA a : WithCode(s, a[2], <<Call(test, "valueAndCallEquator", <<a[1], a[2]>>)>>), assets)
sendTokens(t) == <<Call(t.token, "transfer", <<t.receiver, t.amount>>)>>
sellFYTokens(trader, t) == <<Set(trader, "sellFYTokens", "sold", <<t.receiver>>, t.amount)>>
pointCollateralVault(s, wrapper, join) == WithCode(s, wrapper, <<Set(wrapper, "point", "join", <<>>, join)>>)
registerTokenUpgrade(upgrade, tokenIn, tokenOut, root) ==
  <<Set(upgrade, "register", "tokensIn", <<tokenIn>>, <<tokenOut, root>>)>>
orchestrateTokenUpgrade(deployer, upgrade) ==
  <<GrantRoles(upgrade, {"register", "unregister", "extract", "recover"}, TIMELOCK)>> \o revokeRoot(upgrade, deployer)
orchestrateGiver(deployer, ctx, giver) ==
  <<GrantRoles(ctx.cauldron, {"give"}, giver), GrantRoles(giver, {"banIlk"}, TIMELOCK)>> \o revokeRoot(giver, deployer)
orchestrateLever(lever, giver) == <<GrantRoles(giver, {"give"}, lever), GrantRoles(giver, {"seize"}, lever)>>
orchestrateConvexWrapper(deployer, ctx, wrapper) ==
  <<GrantRoles(wrapper, {"point"}, TIMELOCK), GrantRoles(wrapper, {"recoverERC20"}, TIMELOCK),
    GrantRoles(wrapper, {"shutdownAndRescue"}, TIMELOCK), GrantRoles(wrapper, {ROOT}, ctx.cloak)>>
  \o revokeRoot(wrapper, deployer)

\* The wands make assets, ilks and series from one call, with the roles for it.
\* A selector without its closing parenthesis is unknown, and so is the one of a
\* function that the wand does not have: nothing is proposed.
CollateralRoles == {"addAsset", "addIlks", "setSpotOracle", "setDebtLimits"}
orchestrateCollateralWand(deployer, ctx, join, wand, oracle) ==
  <<GrantRoles(wand, {"addChainlinkCollateral"}, TIMELOCK)>> \o revokeRoot(wand, deployer)
  \o <<GrantRoles(ctx.cauldron, CollateralRoles, wand)>>
  \o KnownId(FALSE, <<GrantRoles(ctx.ladle, {"addJoin"}, wand)>>)
  \o <<GrantRoles(oracle, {"setSource"}, wand), GrantRoles(ctx.cloak, {"plan"}, wand),
       GrantRoles(ctx.cloak, {ROOT}, wand), GrantRoles(ctx.witch, {"point", "setIlk"}, wand)>>
orchestrateSeriesWand(deployer, ctx, wand) ==
  <<GrantRoles(ctx.cauldron, {"addSeries", "addIlks"}, wand), GrantRoles(wand, {"addSeries"}, TIMELOCK)>>
  \o KnownId(FALSE, <<GrantRoles(ctx.ladle, {"addPool"}, wand)>>)
  \o <<GrantRoles(ctx.cloak, {"plan"}, wand), GrantRoles(ctx.cloak, {ROOT}, wand)>> \o revokeRoot(wand, deployer)
orchestrateFCashWand(deployer, developer, ctx, wand, oracle, factory, newJoins) ==
  revokeRoot(wand, deployer)
  \o KnownId(FALSE, <<GrantRoles(wand, {"deployAddfCashCollateral"}, developer)>>)
  \o <<GrantRoles(factory, {"deploy"}, wand), GrantRoles(wand, {"addfCashCollateral"}, developer), GrantRoles(ctx.cauldron, CollateralRoles, wand),
       GrantRoles(ctx.ladle, {"addJoin"}, wand), GrantRoles(oracle, {"setSource"}, wand),
       GrantRoles(ctx.cloak, {"plan"}, wand), GrantRoles(ctx.cloak, {ROOT}, wand),
       GrantRoles(ctx.witch, {"point", "setIlk"}, wand)>>
  \o Each(LAMBDA j : grantRoot(j, wand), newJoins)
RelayRoles == {"propose", "proposeRepeated", "approve", "execute", "executeRepeated"}
relay(relayAddress) == <<GrantRoles(TIMELOCK, RelayRoles, relayAddress)>>

(* replace *)
\* A new Ladle gets every join, fyToken, pool and strategy of the old one.  The
\* plans go to EmergencyBrake V1, the old Ladle keeps what it holds.
replaceLadle(ctx, wand, joins, fyTokens, pools, strategies) ==
  <<GrantRoles(ctx.ladle, {"addJoin", "addPool"}, wand), Set(wand, "point", "ladle", <<>>, ctx.ladle)>>
  \o Each(LAMBDA j : <<Set(ctx.ladle, "addJoin", "joins", <<j[1]>>, j[2]),
                       GrantRoles(j[2], JoinRoles, ctx.ladle),
                       CloakPlan(ctx.cloak, ctx.ladle, Permissions(j[2], JoinRoles))>>, joins)
  \o Each(LAMBDA f : <<GrantRoles(f[2], FYTokenRoles, ctx.ladle),
                       CloakPlan(ctx.cloak, ctx.ladle, Permissions(f[2], FYTokenRoles))>>, fyTokens)
  \o Each(LAMBDA p : addPool(ctx, p[1], p[2]), pools)
  \o Each(LAMBDA x : <<Set(ctx.ladle, "addIntegration", "integrations", <<x>>, TRUE),
                       Set(ctx.ladle, "addToken", "tokens", <<x>>, TRUE)>>, strategies)
\* The permissions of the retired Witch are revoked, its plan stays in the Cloak
replaceWitch(s, ctx, witch, bases, ilkIds, fyTokens) ==
  LET JoinOf(id) == Get(s, <<ctx.ladle, "joins", id>>)
      FYTokenOf(id) == Val(s, <<ctx.cauldron, "series", id>>)[1]
  IN  <<RevokeRoles(ctx.cauldron, WitchRoles, witch)>>
      \o Each(LAMBDA b : <<RevokeRoles(JoinOf(b), {"join"}, witch)>>, bases)
      \o Each(LAMBDA f : <<RevokeRoles(FYTokenOf(f[1]), {"burn"}, witch)>>, fyTokens)
      \o Each(LAMBDA i : <<RevokeRoles(JoinOf(i), {"exit"}, witch)>>, ilkIds)
=============================================================================
