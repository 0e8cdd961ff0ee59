---------------------------- MODULE RollProposals ---------------------------
(***************************************************************************)
(* Strategies move on as their series mature: a strategy is rolled to a    *)
(* new series (roll/rollSeries.ts), strategies V1 migrate to V2            *)
(* (replace/strategies), the Timelock funds the Trader and has it sell     *)
(* fyToken (roll/fundTrader, roll/sellFYToken).  When the series matures   *)
(* anyone may divest the strategies and end their pools, as a user did     *)
(* with the pool of USDC before the strategies of March were migrated.     *)
(***************************************************************************)
EXTENDS Networks

NewHosts == {"fyETH2", "poolETH2", "fyETH3", "poolETH3", "ysNew", "ysUNew", "trader"}
OldStrategy(strategy) == StrategyOf(strategy, "aETH") @@ (<<strategy, "fyToken">> :> "fyETH")
Network1 ==
  Network(NewHosts,
    FYTokenOf("fyETH2", Join("ETH"), "ETH") @@ PoolOf("poolETH2", "fyETH2")
    @@ FYTokenOf("fyETH3", Join("ETH"), "ETH") @@ PoolOf("poolETH3", "fyETH3")
    @@ OldStrategy("ysOld") @@ OldStrategy("ysUOld") @@ StrategyOf("ysNew", "aETH") @@ StrategyOf("ysUNew", "aETH"))
\* The strategies V1 are invested in the old series, and the Timelock runs them
Start ==
  [Network1 EXCEPT !.reg = (<<"ysOld", "state">> :> "INVESTED") @@ (<<"ysUOld", "state">> :> "INVESTED") @@ @,
                   !.perm = (@ \ {<<"trader", ROOT, DEPLOYER>>})
                              \cup {<<y, r, TIMELOCK>> : y \in {"ysOld", "ysUOld"}, r \in {"setNextPool", "startPool"}}
                              \cup {<<"trader", "sellFYTokens", TIMELOCK>>}]

SeriesOf(n) == [seriesId |-> "ETH" \o n, fyToken |-> "fyETH" \o n, pool |-> "ETH" \o n,
                poolAddress |-> "poolETH" \o n, ilks |-> <<"STETH">>]
Config(n) == [newSeries |-> <<SeriesOf(n)>>, deployers |-> [h \in NewHosts |-> DEPLOYER], multisig |-> MULTISIG,
              pools |-> ("ETH" \o n :> "poolETH" \o n), trader |-> "trader",
              rollStrategies |-> <<[address |-> "ysETH", pool |-> "poolETH" \o n]>>,
              newStrategies |-> <<[address |-> "ysNew", pool |-> "poolETH" \o n]>>,
              oldStrategies |-> <<[address |-> "ysOld", next |-> "ysNew"]>>,
              newUSDCStrategies |-> <<[address |-> "ysUNew", pool |-> "poolETH" \o n]>>,
              oldUSDCStrategies |-> <<[address |-> "ysUOld", next |-> "ysUNew"]>>,
              traderFunding |-> <<[token |-> "aETH", receiver |-> "trader", amount |-> 10]>>,
              fyTokenSelling |-> <<[receiver |-> "poolETH", amount |-> 10]>>]
Assemble(sc, s) ==
  CASE sc = "rollSeries" -> rollSeries(s, Core, Config("2"))
    [] sc = "migrateMarStrategies" -> migrateMarStrategies(s, Core, Config("3"))
    [] sc = "fundTrader" -> fundTrader(Config("2"))
    [] sc = "sellFYToken" -> SellFYToken(Config("2"))

Occasions == {"roll", "migrate"}
FirstChains == [id \in Occasions |-> [Start EXCEPT !.id = id]]
UsersOf == [id \in Occasions |-> {"ladle"}]
OpenTo == [id \in Occasions |->
           {Set("fyETH", "mature", "mature", <<>>, TRUE), Call("ysETH", "divest", <<>>),
            Call("ysOld", "endPool", <<>>), Call("ysUOld", "endPool", <<>>)}]
ScriptsOf == [roll |-> {"rollSeries", "fundTrader"}, migrate |-> {"migrateMarStrategies", "sellFYToken"}]
DirOf == [sc \in UNION {ScriptsOf[id] : id \in DOMAIN ScriptsOf} |-> sc]
=============================================================================
