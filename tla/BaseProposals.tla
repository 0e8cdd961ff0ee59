---------------------------- MODULE BaseProposals ---------------------------
(***************************************************************************)
(* USDT is added as a base with eleven ilks and two series while RETH is   *)
(* added as collateral of ETH, to a mainnet with the bases, the ilks and   *)
(* the series of its configuration.  RETH is an ilk of USDT too, so that   *)
(* one proposal has to wait for the other.                                 *)
(***************************************************************************)
EXTENDS Configurations

(* The chain.  Earlier proposals added each ilk when it had no price in    *)
(* ETH yet, one proposal each, and not RETH.                               *)
AllSeries == series2303 \o series2306
AllIlks == SelectSeq(ethIlks2306 \o daiIlks2306 \o usdcIlks \o fraxIlks, LAMBDA i : i.ilkId # "RETH")
IlksOf(base) == {AllIlks[i].ilkId : i \in {j \in DOMAIN AllIlks : AllIlks[j].baseId = base}}
IdList == <<"ETH", "DAI", "USDC", "FRAX", "WBTC", "WSTETH", "LINK", "UNI", "ENS", "CRAB",
            "FETH2306", "FDAI2306", "FUSDC2306">>
Ids0 == ToSet(IdList)
FYTokens == {AllSeries[i].fyToken : i \in DOMAIN AllSeries}
NewFYTokens == {newSeries[i].fyToken : i \in DOMAIN newSeries}
NewPools == {newSeries[i].poolAddress : i \in DOMAIN newSeries}
NewYs == {newStrategies[i].address : i \in DOMAIN newStrategies}
NewHosts == {Join("USDT"), Join("RETH")} \cup NewFYTokens \cup NewPools \cup NewYs
Oracles == {"chainlink", "chainlinkUSD", "composite", "accumulator"}
FYTokenReg(list) ==
  FoldLeft(LAMBDA r, x : FYTokenOf(x.fyToken, Join(x.base), x.base) @@ PoolOf(x.poolAddress, x.fyToken) @@ r,
           <<>>, list)
Reg ==
  FoldLeft(LAMBDA r, id : JoinOf(Join(id), "a" \o id) @@ r, <<>>, IdList \o <<"USDT", "RETH">>)
  @@ FYTokenReg(AllSeries \o newSeries)
  @@ FoldLeft(LAMBDA r, y : StrategyOf(y.address, y.base) @@ r, <<>>, newStrategies)
  @@ Code({"feedDAI", "feedUSDC", "feedFRAX", "feedSTETH", "feedUSDT"}) @@ (Bal("aUSDT", TIMELOCK) :> 200)
Pools(list) == [id \in {list[i].pool : i \in DOMAIN list} |->
                  list[CHOOSE i \in DOMAIN list : list[i].pool = id].poolAddress]
Feeds == <<<<"DAI", "ETH", "feedDAI">>, <<"USDC", "ETH", "feedUSDC">>, <<"FRAX", "ETH", "feedFRAX">>,
           <<"STETH", "ETH", "feedSTETH">>>>
Composed == [i \in DOMAIN Feeds |-> <<Feeds[i][1], Feeds[i][2], "chainlink">>]
            \o <<<<"ENS", "ETH", "uniswap">>, <<"WSTETH", "STETH", "lido">>, <<"CRAB", "ETH", "crabOracle">>>>
Composite(base) == <<<<base, "ENS", <<"ETH">>>>, <<base, "CRAB", <<"ETH">>>>, <<base, "WSTETH", <<"ETH", "STETH">>>>>>
Stage(s, calls) == IF s.ok THEN Exec(s, calls) ELSE s
AddIlk(s, i) == Stage(s, updateCollateralization(Core, i.collateralization) \o updateDebtLimits(Core, i)
                        \o IF i.ilkId = i.baseId THEN <<>> ELSE addIlkToWitch(s, Core, i, Join(i.ilkId)))
AddSeries0(s, x) ==
  Stage(s, orchestrateFYToken(s, DEPLOYER, Core, x.fyToken)
          \o addSeries(s, Core, [x EXCEPT !.ilks = SelectSeq(@, LAMBDA id : id \in IlksOf(x.base))], Pools(AllSeries)))
JoinStage(s, id) ==
  Stage(s, orchestrateFlashJoin(DEPLOYER, Core, Join(id)) \o addAsset(Core, Asset(id), JoinsOf(Ids0)))
Stage1 ==
  FoldLeft(JoinStage,
    Stage(Genesis({Join(id) : id \in Ids0} \cup FYTokens \cup Oracles \cup NewHosts, Reg),
      CoreOrchestration(Core)
      \o orchestrateAccumulatorOracle("accumulator")
      \o orchestrateChainlinkOracle(DEPLOYER, Core, "chainlink")
      \o orchestrateChainlinkUSDOracle(DEPLOYER, Core, "chainlinkUSD")
      \o orchestrateCompositeOracle(DEPLOYER, Core, "composite")),
    IdList)
Stage2 ==
  Stage(Stage1,
    Each(LAMBDA b : makeBase(Core, b, JoinsOf(Ids0)), bases)
    \o updateChainlinkSources(Stage1, "chainlink", Feeds)
    \o updateCompositeSources(Stage1, "composite", Composed, TRUE)
    \o updateCompositePaths("composite", Composite("DAI") \o Composite("USDC") \o Composite("FRAX")))
Start == FoldLeft(AddSeries0, FoldLeft(AddIlk, Stage2, AllIlks), AllSeries)
Occasions == {"mainnet", "arbitrum"}
FirstChains == [id \in Occasions |-> [Start EXCEPT !.id = id]]
UsersOf == [mainnet |-> {"ladle", "witch"}, arbitrum |-> {}]
OpenTo == [id \in Occasions |-> {}]

(* The proposals.                                                          *)
usdtBase ==
  [newBase |-> usdt, deployers |-> [h \in NewHosts |-> DEPLOYER], multisig |-> MULTISIG,
   joins |-> JoinsOf(Ids0 \cup {"USDT", "RETH"}), pools |-> Pools(newSeries),
   accumulator |-> "accumulator", chainlink |-> "chainlink", composite |-> "composite",
   accumulators |-> accumulators, chainlinkSources |-> chainlinkSources, compositeSources |-> compositeSources,
   compositePaths |-> compositePaths, newIlks |-> newIlks, newSeries |-> newSeries, newStrategies |-> newStrategies]
\* On Arbitrum neither the composite oracle nor RETH is used
usdtArbitrum ==
  [usdtBase EXCEPT !.chainlink = "chainlinkUSD", !.chainlinkSources = chainlinkSourcesArbitrum,
                   !.compositeSources = <<>>, !.compositePaths = <<>>,
                   !.newIlks = newIlksArbitrum, !.newSeries = newSeriesArbitrum]
\* One ilk of the configuration, with its series: the four ilks of all bases make
\* a proposal that plans one permission of the Witch four times, which never
\* goes through
reth ==
  [asset |-> Asset("RETH"), deployers |-> [h \in NewHosts |-> DEPLOYER], joins |-> JoinsOf(Ids0 \cup {"RETH"}),
   composite |-> "composite", compositeSources |-> oracleSources, compositePaths |-> oraclePaths,
   newIlks |-> SubSeq(ilksRETH, 1, 1), newSeries |-> SubSeq(seriesRETH, 1, 2)]
Assemble(sc, s) ==
  CASE sc = "addUSDT" -> addBaseMainnet(s, Core, usdtBase)
    [] sc = "addUSDTArbitrum" -> addBaseArbitrum(s, Core, usdtArbitrum)
    [] sc = "addRETH" -> addRETH(s, Core, reth)

ScriptsOf == [mainnet |-> {"addUSDT", "addRETH"}, arbitrum |-> {"addUSDTArbitrum", "addRETH"}]
DirOf == [sc \in UNION {ScriptsOf[id] : id \in DOMAIN ScriptsOf} |-> sc]
=============================================================================
