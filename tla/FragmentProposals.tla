-------------------------- MODULE FragmentProposals -------------------------
(***************************************************************************)
(* The fragments that orchestrate a contract and those that operate it,    *)
(* in proposals of their own: the oracles and their sources, the helpers   *)
(* of the Ladle, the wands, levers, wrappers and the new fCash.            *)
(***************************************************************************)
EXTENDS Networks

Simple == {"chainlinkUSD", "compound", "cvx", "lido", "notional", "strategies", "uniswap", "yearn"}
Oracles == Simple \cup {"composite2", "multi"}
Helpers == {"accumulator2", "giver", "factory", "lever", "upgrade", "convex", "restorer", "shifter", "wrapper", "joinCASH", "joinPT", "joinYV", "wand", "notionalWand", "joinW"}
NewHosts == Oracles \cup Helpers
Start ==
  LET network == Network(NewHosts,
        JoinOf("joinCASH", "aCASH") @@ (<<"joinCASH", "underlyingJoin">> :> Join("ETH")) @@ JoinOf("joinW", "aW")
        @@ JoinOf("joinPT", "aPT") @@ JoinOf("joinYV", "aYV")
        @@ Code({"feed", "cvx", "convex", "module", "assert", "test", "poolETH", "token"}))
  IN  [network EXCEPT !.perm = @ \cup {<<"ladle", ROOT, TIMELOCK>>} \cup {<<"accumulator", "setSource", TIMELOCK>>}]

OrchestrateOracles ==
  orchestrateChainlinkUSDOracle(DEPLOYER, Core, "chainlinkUSD") \o orchestrateCompoundOracle(DEPLOYER, Core, "compound")
  \o orchestrateCvx3CrvOracle(DEPLOYER, Core, "cvx") \o orchestrateLidoOracle(DEPLOYER, Core, "lido")
  \o orchestrateNotionalOracle(DEPLOYER, Core, "notional") \o orchestrateStrategyOracle(DEPLOYER, Core, "strategies")
  \o orchestrateUniswapOracle(DEPLOYER, Core, "uniswap") \o orchestrateYearnOracle(DEPLOYER, Core, "yearn")
  \o orchestrateCompositeOracle(DEPLOYER, Core, "composite2")
  \o orchestrateYieldSpaceMultiOracle(DEPLOYER, "multi")
UpdateOracles(s) ==
  updateChainlinkUSDSources(s, "chainlinkUSD", <<<<"DAI", "USD", "feed">>>>)
  \o updateChiSources("compound", <<<<"DAI", "cDAI">>>>) \o updateRateSources("compound", <<<<"DAI", "cDAI">>>>)
  \o updateCvx3CrvOracleSources(s, "cvx", <<"CVX", "ETH", "feed">>) \o updateLidoSource(s, "lido", "feed")
  \o updateNotionalSources("notional", <<<<"CASH", "DAI", "fcash">>>>)
  \o updatStrategyOracleSources(s, "strategies", <<<<"YSETH", "feed">>>>)
  \o updateUniswapSources(s, "uniswap", <<<<"UNI", "ETH", "feed">>>>)
  \o updateYearnSources(s, "yearn", <<<<"YV", "DAI", "feed">>>>)
  \o updateCompositeSources(s, "composite2", <<<<"UNI", "ETH", "uniswap">>, <<"DAI", "ETH", "chainlink">>,
                                               <<"ETH", "UNI", "yearn">>>>, FALSE)
  \o updateCompositePaths("composite2", <<<<"UNI", "DAI", <<"ETH">>>>>>)
  \o updateYieldSpaceMultiOracleSource("multi", "ETH", "ETH1", "poolETH")

OrchestrateHelpers(s) ==
  orchestrateGiver(DEPLOYER, Core, "giver") \o addAsHostToCloak(Core, "giver") \o orchestrateLever("lever", "giver")
  \o addGiverToCloak(Core, "giver") \o addLeverToCloak(Core, <<"lever">>, "giver")
  \o addExecutorsToCloak(Core, <<"keeper">>)
  \o orchestrateTokenUpgrade(DEPLOYER, "upgrade") \o orchestrateConvexWrapper(DEPLOYER, Core, "convex")
  \o orchestrateRewardsWrapper(DEPLOYER, "wrapper") \o setRewardsToken("ysETH", "wrapper")
  \o relay("relay") \o orchestrateAccumulatorOracle("accumulator2")
UseHelpers(s) ==
  banIlk("giver", "DAI", TRUE)
  \o addUnregister([upgrade |-> "upgrade", multisig |-> MULTISIG])
  \o registerTokenUpgrade("upgrade", "tokenIn", "tokenOut", "root")
  \o pointCollateralVault(s, "convex", Join("STETH"))
  \o addAssert(s, Core, [limitedAssert |-> "assert"]) \o addModule(s, Core, "module") \o addToken(s, Core, "token")
  \o onChainTest(s, Core, "test", <<<<"module", "token">>>>)
  \o addNotionalLever([lever |-> "lever", giver |-> "giver"]) \o addStEthLever([lever |-> "lever", giver |-> "giver"])
  \o orchestrateContangoLadle(Core, "ladle") \o updateTimelockDelay(2) \o setBorrowingFee(Core, 1)
  \o updateLimits(Core, [newLimits |-> <<Ilk("ETH", "STETH", "chainlink")>>])
  \o updateFlashFees([joins |-> JoinsOf(Old), joinFlashFees |-> <<<<"ETH", 1>>>>,
                      fyTokens |-> ("ETH1" :> "fyETH"), fyTokenFlashFees |-> <<<<"ETH1", 1>>>>])
  \o updateAccumulatorSources(s, "accumulator2", <<[baseId |-> "DAI", kind |-> "RATE", perSecondRate |-> 5]>>)
  \o updateAccumulatorPerSecondRate("accumulator2", [baseId |-> "DAI", kind |-> "RATE", perSecondRate |-> 6])
  \o updateChiOracle("fyETH", "accumulator2") \o ejectStrategy("ysETH")

Rewards == [strategy |-> "ysETH", wrapper |-> "wrapper", underlying |-> "aETH", amount |-> 50, current |-> "first"]
AddInitialRewards(s) ==
  addInitialRewards(s, [deployers |-> ("rewardsWrapper" :> DEPLOYER), newRewards |-> <<Rewards>>])
AddFCash(s) ==
  LET ilk == Ilk("ETH", "CASH", "notional") IN
  addFCashMaturities(s, Core, [notional |-> "notional", newSources |-> <<<<"CASH", "ETH", "fcash">>>>,
    newJoins |-> <<"joinCASH">>, deployers |-> ("joinCASH" :> DEPLOYER), joins |-> ("CASH" :> "joinCASH"),
    newSeriesIlks |-> <<<<"ETH1", Auctioned(ilk)>>>>])

\* Principal tokens of Sense, and an ilk whose join is added along
AddPT(s) ==
  addSensePT(s, Core, [assets |-> <<Asset("PT")>>, deployers |-> ("joinPT" :> DEPLOYER), joins |-> JoinsOf({"PT"}),
                       newIlks |-> <<Auctioned(Ilk("ETH", "PT", "chainlink"))>>,
                       newSeries |-> <<[seriesId |-> "ETH1", ilks |-> <<"PT">>]>>])
  \o orchestrateJoin(DEPLOYER, Core, Join("YV"))
  \o addIlk(s, Core, <<"ETH1">>, Auctioned(Ilk("ETH", "YV", "yearn")), JoinsOf({"YV"}))
  \o addJoin(Core, "YV", Join("YV"))
\* None of these three is ever proposed
Wands == orchestrateCollateralWand(DEPLOYER, Core, Join("DAI"), "wand", "chainlink")
         \o orchestrateSeriesWand(DEPLOYER, Core, "wand")
         \o orchestrateFCashWand(DEPLOYER, DEV, Core, "wand", "notionalWand", "factory", <<"joinW">>)

Assemble(sc, s) ==
  CASE sc = "orchestrateOracles" -> OrchestrateOracles
    [] sc = "updateOracles" -> UpdateOracles(s)
    [] sc = "orchestrateHelpers" -> OrchestrateHelpers(s)
    [] sc = "useHelpers" -> UseHelpers(s)
    [] sc = "addInitialRewards" -> AddInitialRewards(s)
    [] sc = "addFCash" -> AddFCash(s)
    [] sc = "addPT" -> AddPT(s)
    [] sc = "wands" -> Wands

Occasions == {"oracles", "helpers"}
FirstChains == [id \in Occasions |-> [Start EXCEPT !.id = id]]
\* The Ladle of Contango has its plans in a Cloak of the first version, that is
\* not called upon here
UsersOf == [oracles |-> {"ladle", "giver"}, helpers |-> {"giver"}]
OpenTo == [id \in Occasions |-> {}]
ScriptsOf == [oracles |-> {"orchestrateOracles", "updateOracles", "addFCash", "addPT"},
              helpers |-> {"orchestrateHelpers", "useHelpers", "addInitialRewards", "wands"}]
DirOf == [sc \in UNION {ScriptsOf[id] : id \in DOMAIN ScriptsOf} |-> sc]
OperatesOn == {<<"orchestrateOracles", "updateOracles">>, <<"orchestrateHelpers", "useHelpers">>}
=============================================================================
