--------------------------- MODULE AssetFragments ---------------------------
(***************************************************************************)
(* The fragments of proposals that make assets, bases, ilks and series:    *)
(* their joins, fyTokens and pools, their auctions in the Witch, their     *)
(* debt limits and their oracles (scripts/fragments/assetsAndSeries,       *)
(* witch, limits, oracles, pools, flash and other/notional).               *)
(***************************************************************************)
EXTENDS PermissionFragments

\* A contract is handed over: the Timelock gets the roles, the Cloak ROOT, and
\* the deployer loses ROOT
HandOver(ctx, deployer, host, roles) ==
  <<GrantRoles(host, roles, TIMELOCK), GrantRoles(host, {ROOT}, ctx.cloak)>> \o revokeRoot(host, deployer)

(* limits and collateralization *)
updateDebtLimits(ctx, ilk) ==
  <<Set(ctx.cauldron, "setDebtLimits", "debt", <<ilk.baseId, ilk.ilkId>>, ilk.debtLimits)>>
updateCollateralization(ctx, c) ==
  <<Set(ctx.cauldron, "setSpotOracle", "spotOracles", <<c.baseId, c.ilkId>>, <<c.oracle, c.ratio>>)>>
updateRateOracle(ctx, assetId, oracle) ==
  <<Set(ctx.cauldron, "setLendingOracle", "lendingOracles", <<assetId>>, oracle)>>

(* witch *)
\* `limit' stands for the duration, the proportions and the maximum
setLineAndLimit(ctx, a) ==
  <<Set(ctx.witch, "setLineAndLimit", "lines", <<a.ilkId, a.baseId>>, a.limit)>>
setAuctionParameters(ctx, auctions) == Each(LAMBDA a : setLineAndLimit(ctx, a), auctions)
protectFromLiquidations(ctx, owner, protect) ==
  <<Set(ctx.witch, "setProtected", "protected", <<owner>>, protect)>>
addBaseToWitch(ctx, join) ==
  <<GrantRoles(join, {"join"}, ctx.witch), CloakAdd(ctx.cloak, ctx.witch, {<<join, "join">>})>>
addFYTokenToWitch(ctx, fyToken) ==
  <<GrantRoles(fyToken, {"burn"}, ctx.witch), CloakAdd(ctx.cloak, ctx.witch, {<<fyToken, "burn">>})>>
\* The permission is granted and planned if it is missing as the proposal is built
addIlkToWitch(s, ctx, ilk, join) ==
  setLineAndLimit(ctx, ilk.auctionLineAndLimit)
  \o IF HasRole(s, join, "exit", ctx.witch) THEN <<>>
     ELSE <<GrantRoles(join, {"exit"}, ctx.witch), CloakAdd(ctx.cloak, ctx.witch, {<<join, "exit">>})>>
\* The same for the bases, series and ilks of a Witch, with EmergencyBrake V1
Missing(s, ctx, host, role) ==
  (IF HasRole(s, host, role, ctx.witch) THEN <<>> ELSE <<GrantRoles(host, {role}, ctx.witch)>>)
  \o (IF <<host, role>> \in PlanOf(s, ctx.cloak, ctx.witch) THEN <<>>
      ELSE <<CloakPlan(ctx.cloak, ctx.witch, {<<host, role>>})>>)
JoinAt(s, ctx, id) == Get(s, <<ctx.ladle, "joins", id>>)
FYTokenAt(s, ctx, id) == Val(s, <<ctx.cauldron, "series", id>>)[1]
orchestrateAuctionAssets_bases(s, ctx, baseIds, ilkIds, seriesIds) ==
  Each(LAMBDA i : Missing(s, ctx, FYTokenAt(s, ctx, i), "burn"), seriesIds)
  \o Each(LAMBDA i : Missing(s, ctx, JoinAt(s, ctx, i), "exit"), ilkIds)
orchestrateAuctionAssets(s, ctx, baseIds, ilkIds, seriesIds) ==
  Each(LAMBDA b : Missing(s, ctx, JoinAt(s, ctx, b), "join"), baseIds)
  \o Each(LAMBDA i : Missing(s, ctx, FYTokenAt(s, ctx, i), "burn"), seriesIds)
  \o Each(LAMBDA i : Missing(s, ctx, JoinAt(s, ctx, i), "exit"), ilkIds)

(* assets and series *)
makeAsset(ctx, asset) ==
  <<Set(ctx.cauldron, "addAsset", "assets", <<asset.assetId>>, asset.address)>>
\* getOrThrow of the map from assets to joins, read from joins.json
addAsset(ctx, asset, joins) ==
  IF asset.assetId \notin DOMAIN joins THEN <<Throw>>
  ELSE makeAsset(ctx, asset) \o addJoin(ctx, asset.assetId, joins[asset.assetId])
makeBase(ctx, base, joins) ==
  IF base.assetId \notin DOMAIN joins THEN <<Throw>>
  ELSE addBaseToWitch(ctx, joins[base.assetId]) \o updateRateOracle(ctx, base.assetId, base.rateOracle)
\* The price of the ilk in ETH is registered along, for liquidators to use
makeIlk(s, ctx, ilk, joins) ==
  updateCollateralization(ctx, ilk.collateralization)
  \o updateDebtLimits(ctx, ilk)
  \o updateCollateralization(ctx, [baseId |-> ilk.collateralization.ilkId, ilkId |-> "ETH",
                                   oracle |-> ilk.collateralization.oracle, ratio |-> 200])
  \o IF "auctionLineAndLimit" \in DOMAIN ilk THEN addIlkToWitch(s, ctx, ilk, joins[ilk.ilkId]) ELSE <<>>
addIlkToSeries(ctx, seriesId, ilkId) ==
  <<Set(ctx.cauldron, "addIlks", "ilks", <<seriesId, ilkId>>, TRUE)>>
addIlk(s, ctx, seriesIds, ilk, joins) ==
  makeAsset(ctx, ilk.asset) \o makeIlk(s, ctx, ilk, joins)
  \o Each(LAMBDA id : addIlkToSeries(ctx, id, ilk.ilkId), seriesIds)
addSeries(s, ctx, series, pools) ==
  LET fyToken == series.fyToken
      id == series.seriesId
  IN  IF series.pool \notin DOMAIN pools THEN <<Throw>>
      ELSE <<Set(ctx.cauldron, "addSeries", "series", <<id>>,
                 <<fyToken, Val(s, <<fyToken, "underlyingId">>)>>)>>
           \o Each(LAMBDA i : addIlkToSeries(ctx, id, i), series.ilks)
           \o addPool(ctx, id, pools[series.pool])
           \o addFYToken(ctx, fyToken)
           \o addFYTokenToWitch(ctx, fyToken)
orchestrateFYToken(s, deployer, ctx, fyToken) ==
  LET join == Val(s, <<fyToken, "join">>)
  IN  revokeRoot(fyToken, deployer) \o addAsHostToCloak(ctx, fyToken)
      \o <<GrantRoles(fyToken, {"point", "setFlashFeeFactor"}, TIMELOCK),
           GrantRoles(join, JoinRoles, fyToken),
           CloakAdd(ctx.cloak, fyToken, Permissions(join, JoinRoles))>>
OrchestrateJoinWith(deployer, ctx, join, roles) ==
  revokeRoot(join, deployer) \o addAsHostToCloak(ctx, join) \o <<GrantRoles(join, roles, TIMELOCK)>>
orchestrateJoin(deployer, ctx, join) == OrchestrateJoinWith(deployer, ctx, join, {"retrieve"})
orchestrateFlashJoin(deployer, ctx, join) ==
  OrchestrateJoinWith(deployer, ctx, join, {"retrieve", "setFlashFeeFactor"})

(* other/notional *)
orchestrateNotionalJoin(deployer, ctx, join) ==
  OrchestrateJoinWith(deployer, ctx, join, {"retrieve", "retrieveERC1155"})
\* Neither permission on the underlying join may be held already
addNotionalJoin(s, ctx, assetId, join) ==
  LET under == Val(s, <<join, "underlyingJoin">>)
  IN  (IF \E r \in JoinRoles : HasRole(s, under, r, join) THEN <<>>
       ELSE <<GrantRoles(under, JoinRoles, join),
              CloakAdd(ctx.cloak, join, Permissions(under, JoinRoles))>>)
      \o addJoin(ctx, assetId, join)
addFCashAsset(s, ctx, asset, joins) ==
  IF asset.assetId \notin DOMAIN joins THEN <<Throw>>
  ELSE makeAsset(ctx, asset) \o addNotionalJoin(s, ctx, asset.assetId, joins[asset.assetId])

(* pools and flash loans *)
orchestratePool(deployer, pool) ==
  <<GrantRoles(pool, {"setFees", "init"}, TIMELOCK)>> \o revokeRoot(pool, deployer)
initPool(s, pool) == WithCode(s, pool, <<Set(pool, "init", "initialised", <<>>, TRUE)>>)
setFlashFeeOnFytoken(fyToken, fee) == <<Set(fyToken, "setFlashFeeFactor", "flashFeeFactor", <<>>, fee)>>
setFlashFeeOnJoin(join, fee) == <<Set(join, "setFlashFeeFactor", "flashFeeFactor", <<>>, fee)>>

(* oracles: orchestration *)
orchestrateChainlinkOracle(deployer, ctx, oracle) == HandOver(ctx, deployer, oracle, {"setSource"})
orchestrateChainlinkUSDOracle(deployer, ctx, oracle) == HandOver(ctx, deployer, oracle, {"setSource"})
orchestrateCompositeOracle(deployer, ctx, oracle) ==
  HandOver(ctx, deployer, oracle, {"setSource", "setPath"})
orchestrateCompoundOracle(deployer, ctx, oracle) == HandOver(ctx, deployer, oracle, {"setSource"})
orchestrateCvx3CrvOracle(deployer, ctx, oracle) == HandOver(ctx, deployer, oracle, {"setSource"})
orchestrateLidoOracle(deployer, ctx, oracle) == HandOver(ctx, deployer, oracle, {"setSource"})
orchestrateNotionalOracle(deployer, ctx, oracle) == HandOver(ctx, deployer, oracle, {"setSource"})
orchestrateStrategyOracle(deployer, ctx, oracle) == HandOver(ctx, deployer, oracle, {"setSource"})
orchestrateUniswapOracle(deployer, ctx, oracle) == HandOver(ctx, deployer, oracle, {"setSource"})
orchestrateYearnOracle(deployer, ctx, oracle) == HandOver(ctx, deployer, oracle, {"setSource"})
\* These two are not known to the Cloak, and the first keeps its deployer
orchestrateAccumulatorOracle(oracle) ==
  <<GrantRoles(oracle, {"setSource", "updatePerSecondRate"}, TIMELOCK)>>
orchestrateYieldSpaceMultiOracle(deployer, oracle) ==
  <<GrantRoles(oracle, {"setSource"}, TIMELOCK)>> \o revokeRoot(oracle, deployer)

(* oracles: sources and paths.  A source is <<base, quote, address>>.      *)
SetSource(oracle, keys, address) == <<Set(oracle, "setSource", "sources", keys, address)>>
updateAccumulatorPerSecondRate(oracle, a) ==
  <<Call(oracle, "get", <<a.baseId, a.kind>>),
    Set(oracle, "updatePerSecondRate", "sources", <<a.baseId, a.kind>>, a.perSecondRate)>>
\* Sources that are set already as the proposal is built are left alone
updateAccumulatorSources(s, oracle, accumulators) ==
  Each(LAMBDA a : IF Has(s, <<oracle, "sources", a.baseId, a.kind>>) THEN <<>>
                  ELSE <<Set(oracle, "setAccumulator", "sources", <<a.baseId, a.kind>>,
                             a.perSecondRate)>>, accumulators)
updateChainlinkSources(s, oracle, sources) ==
  Each(LAMBDA x : WithCode(s, x[3], SetSource(oracle, <<x[1], x[2]>>, x[3])), sources)
updateChainlinkUSDSources(s, oracle, sources) ==
  Each(LAMBDA x : WithCode(s, x[3], SetSource(oracle, <<x[1]>>, x[3])), sources)
updateChiOracle(fyToken, oracle) == <<Set(fyToken, "point", "oracle", <<>>, oracle)>>
updateChiSources(oracle, sources) == Each(LAMBDA x : SetSource(oracle, <<x[1], "CHI">>, x[2]), sources)
updateRateSources(oracle, sources) == Each(LAMBDA x : SetSource(oracle, <<x[1], "RATE">>, x[2]), sources)
updateCompositePaths(oracle, paths) ==
  Each(LAMBDA x : <<Set(oracle, "setPath", "paths", <<x[1], x[2]>>, x[3])>>, paths)
\* Of the sources for a pair, whichever way around, the first one counts
updateCompositeSources(s, oracle, sources, overrideExistent) ==
  LET Seen(i) == \E j \in 1..(i - 1) : {sources[j][1], sources[j][2]} = {sources[i][1], sources[i][2]}
      One(i) == LET x == sources[i] IN
                IF Seen(i) \/ ~(overrideExistent \/ ~Has(s, <<oracle, "sources", x[1], x[2]>>)) THEN <<>>
                ELSE SetSource(oracle, <<x[1], x[2]>>, x[3])
  IN  Each(One, [i \in 1..Len(sources) |-> i])
updateCvx3CrvOracleSources(s, oracle, source) ==
  WithCode(s, oracle, SetSource(oracle, <<source[1], source[2]>>, source[3]))
updateLidoSource(s, oracle, source) == WithCode(s, source, SetSource(oracle, <<>>, source))
\* The fCash id is registered the other way around
updateNotionalSources(oracle, sources) == Each(LAMBDA x : SetSource(oracle, <<x[2], x[1]>>, x[3]), sources)
updatStrategyOracleSources(s, oracle, sources) ==
  Each(LAMBDA x : WithCode(s, x[2], SetSource(oracle, <<x[1]>>, x[2])), sources)
updateUniswapSources(s, oracle, sources) ==
  Each(LAMBDA x : WithCode(s, x[3], SetSource(oracle, <<x[1], x[2]>>, x[3])), sources)
updateYearnSources(s, oracle, sources) ==
  Each(LAMBDA x : WithCode(s, x[3], SetSource(oracle, <<x[1], x[2]>>, x[3])), sources)
updateYieldSpaceMultiOracleSource(oracle, baseId, quoteId, pool) == SetSource(oracle, <<baseId, quoteId>>, pool)
=============================================================================
