------------------------------ MODULE Proposals -----------------------------
(***************************************************************************)
(* The proposals: one operator per script of scripts/governance that       *)
(* builds a proposal from fragments and hands it to `propose'.  `k' is the *)
(* script's configuration (process.env.CONF) as a record, `ctx' the        *)
(* contracts it connects to, `s' the chain as the proposal is built.       *)
(***************************************************************************)
EXTENDS OperationFragments

OrchestrateSeries(s, ctx, k) ==
  Each(LAMBDA x : orchestrateFYToken(s, k.deployers[x.fyToken], ctx, x.fyToken)
                  \o orchestratePool(k.deployers[x.poolAddress], x.poolAddress), k.newSeries)
OrchestrateStrategies(ctx, k) ==
  Each(LAMBDA x : orchestrateStrategy(k.deployers[x.address], k.multisig, ctx, x.address), k.newStrategies)
AddSeries(s, ctx, k) == Each(LAMBDA x : addSeries(s, ctx, x, k.pools), k.newSeries)
InitAndInvest(k) == Each(LAMBDA x : initStrategy(x) \o investStrategy(x), k.newStrategies)
InitThenInvest(k) == Each(initStrategy, k.newStrategies) \o Each(investStrategy, k.newStrategies)
AddIlksToSeries(ctx, k) ==
  Each(LAMBDA x : Each(LAMBDA i : addIlkToSeries(ctx, x.seriesId, i), x.ilks), k.newSeries)

(* add *)
\* All that a base needs: its join, series, pools, strategies, oracles and ilks
AddBase(s, ctx, k, chainlinkSources) ==
  orchestrateFlashJoin(k.deployers[k.joins[k.newBase.assetId]], ctx, k.joins[k.newBase.assetId])
  \o OrchestrateSeries(s, ctx, k)
  \o OrchestrateStrategies(ctx, k)
  \o updateAccumulatorSources(s, k.accumulator, k.accumulators)
  \o chainlinkSources
  \o updateCompositeSources(s, k.composite, k.compositeSources, TRUE)
  \o updateCompositePaths(k.composite, k.compositePaths)
  \o addAsset(ctx, k.newBase, k.joins)
  \o makeBase(ctx, k.newBase, k.joins)
  \o Each(LAMBDA i : makeIlk(s, ctx, i, k.joins), k.newIlks)
  \o AddSeries(s, ctx, k)
  \o InitAndInvest(k)
addBaseMainnet(s, ctx, k) ==
  AddBase(s, ctx, k, updateChainlinkSources(s, k.chainlink, k.chainlinkSources))
addBaseArbitrum(s, ctx, k) ==
  AddBase(s, ctx, k, updateChainlinkUSDSources(s, k.chainlink, k.chainlinkSources))
addRETH(s, ctx, k) ==
  updateCompositeSources(s, k.composite, k.compositeSources, TRUE)
  \o updateCompositePaths(k.composite, k.compositePaths)
  \o orchestrateJoin(k.deployers[k.joins[k.asset.assetId]], ctx, k.joins[k.asset.assetId])
  \o addAsset(ctx, k.asset, k.joins)
  \o Each(LAMBDA i : makeIlk(s, ctx, i, k.joins), k.newIlks)
  \o AddIlksToSeries(ctx, k)
addSensePT(s, ctx, k) ==
  Each(LAMBDA a : orchestrateJoin(k.deployers[k.joins[a.assetId]], ctx, k.joins[a.assetId])
                  \o addAsset(ctx, a, k.joins), k.assets)
  \o Each(LAMBDA i : makeIlk(s, ctx, i, k.joins), k.newIlks)
  \o AddIlksToSeries(ctx, k)
\* fCash of a new maturity, as collateral of one series each
addFCashMaturities(s, ctx, k) ==
  updateNotionalSources(k.notional, k.newSources)
  \o Each(LAMBDA j : orchestrateNotionalJoin(k.deployers[j], ctx, j), k.newJoins)
  \o Each(LAMBDA x : addFCashAsset(s, ctx, x[2].asset, k.joins) \o makeIlk(s, ctx, x[2], k.joins)
                     \o addIlkToSeries(ctx, x[1], x[2].ilkId), k.newSeriesIlks)
addNotionalLever(k) == orchestrateLever(k.lever, k.giver)
addStEthLever(k) == orchestrateLever(k.lever, k.giver)
addAssert(s, ctx, k) == addIntegration(s, ctx, k.limitedAssert)
\* The wrapper is made the rewards token in the proposal that mints with it
addInitialRewards(s, k) ==
  Each(LAMBDA r : orchestrateRewardsWrapper(k.deployers["rewardsWrapper"], r.wrapper)
                  \o setRewardsToken(r.strategy, r.wrapper)
                  \o setRewardsUnderlying(r.wrapper, r.underlying)
                  \o sendTokens([token |-> r.underlying, receiver |-> r.wrapper, amount |-> r.amount])
                  \o mintRewardsToken(s, r.strategy, r.amount)
                  \o addRewardsPlan(r.strategy, r.current), k.newRewards)
orchestrateContangoLadle(ctx, contango) ==
  <<GrantRoles(ctx.ladle, {"deterministicBuild"}, contango),
    CloakPlan(ctx.cloak, ctx.ladle, Permissions(ctx.ladle, {"deterministicBuild"}))>>

(* emergency *)
migrateJunDebt(ctx, k) ==
  orchestrateShifter(k.deployers[k.shifter], ctx, k.shifter)
  \o Each(LAMBDA v : migrateDebt(k.shifter, v[1], v[2]), k.vaultsToMigrate)
  \o isolateShifter(ctx, k.shifter)
RestorePools_keeps(k) ==
  Each(sendTokens, k.transfers)
  \o Each(LAMBDA m : mintPool(k.pools[m.seriesId], m.receiver, TIMELOCK)
                     \o mintStrategy(m.receiver, TIMELOCK), k.mints)
  \o orchestratePoolRestorer(k.deployers[k.restorer], k.restorer)
  \o Each(LAMBDA r : grantPermission(k.fyTokens[r.seriesId], "mint", k.restorer)
                     \o restorePool(k.restorer, r) \o mintStrategy(r.receiver, TIMELOCK), k.poolRestorations)
  \o isolatePoolRestorer(k.restorer)
\* Between its grant and its revocation the restorer mints what the pool lost
RestorePools(k) ==
  Each(sendTokens, k.transfers)
  \o Each(LAMBDA m : mintPool(k.pools[m.seriesId], m.receiver, TIMELOCK)
                     \o mintStrategy(m.receiver, TIMELOCK), k.mints)
  \o orchestratePoolRestorer(k.deployers[k.restorer], k.restorer)
  \o Each(LAMBDA r : grantPermission(k.fyTokens[r.seriesId], "mint", k.restorer)
                     \o restorePool(k.restorer, r) \o mintStrategy(r.receiver, TIMELOCK)
                     \o revokePermission(k.fyTokens[r.seriesId], "mint", k.restorer), k.poolRestorations)
  \o isolatePoolRestorer(k.restorer)
restoreSepStrategies_euler(s, ctx, k) ==
  OrchestrateSeries(s, ctx, k) \o OrchestrateStrategies(ctx, k) \o AddSeries(s, ctx, k)
  \o InitThenInvest(k) \o RestorePools(k)
restoreSepStrategies_eulerAgain(ctx, k) ==
  OrchestrateStrategies(ctx, k) \o InitThenInvest(k) \o RestorePools(k)
\* sellFYToken is imported under a name that its module does not export
TradeAndMint(k) ==
  Each(LAMBDA t : mintFYToken(k.fyTokens[t.seriesId], k.pools[t.seriesId], t.amount)
                  \o KnownId(FALSE, <<>>), k.trades)
  \o Each(sendTokens, k.transfers)
  \o Each(LAMBDA m : mintFYToken(k.fyTokens[m.seriesId], k.pools[m.seriesId], m.amount)
                     \o mintPool(k.pools[m.seriesId], m.receiver, TIMELOCK)
                     \o mintStrategy(m.receiver, TIMELOCK), k.mints)
restoreJunStrategies_euler(s, ctx, k) ==
  orchestrateAccumulatorOracle(k.accumulator)
  \o OrchestrateSeries(s, ctx, k) \o OrchestrateStrategies(ctx, k)
  \o Each(LAMBDA x : updateAccumulatorPerSecondRate(k.accumulator,
                       [baseId |-> x.baseId, kind |-> "RATE", perSecondRate |-> 5])
                     \o updateChiOracle(k.fyTokens[x.seriesId], k.accumulator)
                     \o updateRateOracle(ctx, x.baseId, k.accumulator), k.newSeries)
  \o AddSeries(s, ctx, k) \o InitThenInvest(k) \o TradeAndMint(k)
restoreJunStrategies_eulerAgain(ctx, k) ==
  OrchestrateStrategies(ctx, k) \o InitThenInvest(k) \o TradeAndMint(k)
\* All that the Timelock holds as the proposal is built
strategyTokenUpgrade_euler(s, k) ==
  orchestrateTokenUpgrade(k.deployers[k.upgrade], k.upgrade)
  \o Each(LAMBDA u : sendTokens([token |-> u.tokenOut, receiver |-> k.upgrade,
                                 amount |-> Amount(s, Bal(u.tokenOut, TIMELOCK))])
                     \o registerTokenUpgrade(k.upgrade, u.tokenIn, u.tokenOut, u.merkleRoot), k.upgrades)
strategyTokenUpgrade_eulerAgain(k) ==
  orchestrateTokenUpgrade(k.deployers[k.upgrade], k.upgrade)
  \o Each(LAMBDA u : sendTokens([token |-> u.tokenOut, receiver |-> k.upgrade, amount |-> u.amount])
                     \o registerTokenUpgrade(k.upgrade, u.tokenIn, u.tokenOut, u.merkleRoot), k.upgrades)
redeemJuneLenders(k) == Each(LAMBDA t : exitJoin(k.joins[t.assetId], t), k.transfers)
revokeMintBurn(ctx, k) ==
  Each(LAMBDA id : removeFYToken(ctx, k.fyTokens[id]), k.fyTokenIdsToIsolate) \o checkPlan(ctx, <<ctx.ladle>>)
revokeStir(ctx) ==
  revokeOrchestration(ctx, ctx.cauldron, ctx.ladle, "stir") \o checkPlan(ctx, <<ctx.ladle>>)
burnStrategies(k) ==
  Each(LAMBDA t : sendTokens(t) \o burnDivestedStrategy(t.receiver, TIMELOCK), k.strategyTransfers)
buyFYToken(k) ==
  Each(LAMBDA t : exitJoin(k.joins[t.assetId], t) \o buyFYTokenFromStrategy(t.receiver, TIMELOCK), k.baseTransfers)
initPools(s, k) ==
  Each(sendTokens, k.baseTransfers) \o Each(LAMBDA x : initPool(s, x.poolAddress), k.restoredSeries)
migrateStrategiesArbitrum(ctx, k) ==
  Each(LAMBDA x : orchestratePool(k.deployers[x.poolAddress], x.poolAddress)
                  \o addPool(ctx, x.seriesId, x.poolAddress), k.newSeries)
  \o Each(investStrategy, k.oldStrategies)
  \o Each(LAMBDA x : orchestrateStrategy(k.deployers[x.address], k.multisig, ctx, x.address)
                     \o investStrategy(x), k.newStrategies)
restoreContangoArbitrum(s, ctx, k) ==
  Each(LAMBDA x : addPool(ctx, x.seriesId, x.poolAddress)
                  \o updateYieldSpaceMultiOracleSource(k.yieldSpace, x.baseId, x.seriesId, x.poolAddress),
       k.newSeries)
  \o Each(LAMBDA x : addIntegration(s, ctx, x.address) \o addToken(s, ctx, x.address), k.newStrategies)

(* permissions *)
addDevelopers(ctx, k) == grantDevelopers(ctx, k.newDevelopers)
addGovernors(ctx, k) == grantGovernors(ctx, k.cloakHasPlan, k.newGovernors)
addUnregister(k) == grantPermission(k.upgrade, "unregister", k.multisig)
RevokeDevelopers(ctx, k) == revokeDevelopers(ctx, k.developersRevoked)
RevokeGovernors(ctx, k) == revokeGovernors(ctx, k.cloakHasPlan, k.governorsToRevoke)
RevokeCloakExecute(ctx, k) ==
  (IF "previousProposalHash" \in DOMAIN k THEN proposalRequired(k.previousProposalHash) ELSE <<>>)
  \o revokeCloakExecute(ctx, k.executorsRevoked)

(* replace *)
\* The new Cloak gets ROOT on the Cauldron of Contango
replaceContangoCloak(s, ctx, k) ==
  revokeRoot(ctx.cauldron, k.cloakV1) \o grantRoot(ctx.cauldron, ctx.cloak)
  \o addLadleToCloak(s, ctx, k.fyTokenList, k.joinList)
  \o addWitchToCloak(s, ctx, k.fyTokenList, k.joinList)
  \o checkPlan(ctx, k.users)
\* A pool that someone ended already is not ended again
migrateUSDCStrategy(s, ctx, k) ==
  Each(LAMBDA x : orchestrateStrategy(k.deployers[x.address], k.multisig, ctx, x.address), k.newUSDCStrategies)
  \o Each(LAMBDA x : SelectSeq(migrateStrategy(s, x), LAMBDA c : c.fn # "endPool"), k.oldUSDCStrategies)
  \o Each(investStrategy, k.newUSDCStrategies)
migrateMarStrategies(s, ctx, k) ==
  OrchestrateSeries(s, ctx, k) \o OrchestrateStrategies(ctx, k) \o AddSeries(s, ctx, k)
  \o Each(LAMBDA x : migrateStrategy(s, x), k.oldStrategies)
  \o Each(investStrategy, k.newStrategies)
  \o migrateUSDCStrategy(s, ctx, k)

(* roll *)
rollSeries(s, ctx, k) ==
  Each(LAMBDA x : orchestrateFYToken(s, k.deployers[x.fyToken], ctx, x.fyToken)
                  \o orchestratePool(k.deployers[x.poolAddress], x.poolAddress)
                  \o addSeries(s, ctx, x, k.pools), k.newSeries)
  \o Each(rollStrategy, k.rollStrategies)
fundTrader(k) == Each(sendTokens, k.traderFunding)
SellFYToken(k) == Each(LAMBDA t : sellFYTokens(k.trader, t), k.fyTokenSelling)

(* update *)
updateLimits(ctx, k) == Each(LAMBDA i : updateDebtLimits(ctx, i), k.newLimits)
updateFlashFees(k) ==
  Each(LAMBDA x : setFlashFeeOnJoin(k.joins[x[1]], x[2]), k.joinFlashFees)
  \o Each(LAMBDA x : setFlashFeeOnFytoken(k.fyTokens[x[1]], x[2]), k.fyTokenFlashFees)
unprotectWitchV1(ctx, k) == protectFromLiquidations(ctx, k.witchV1, FALSE)
=============================================================================
