------------------------------- MODULE Networks ------------------------------
(***************************************************************************)
(* Chains for the instances: the core of the protocol as its deployer      *)
(* leaves it, and brought under governance with the fragments themselves.  *)
(***************************************************************************)
EXTENDS Proposals

Core == [cloak |-> "cloak", cauldron |-> "cauldron", ladle |-> "ladle", witch |-> "witch"]
Contracts0 == {"cloak", "cauldron", "ladle", "witch"}
DEPLOYER == "deployer"
DEV == "dev"
MULTISIG == "multisig"

\* deploy.ts: the deployer and the Timelock have ROOT on what is deployed
Deployed(hosts) == {<<h, ROOT, u>> : h \in hosts, u \in {DEPLOYER, TIMELOCK}}
\* docs/orchestration.md, the permissions of the developers and the multisig
Team ==
  {<<TIMELOCK, r, DEV>> : r \in {"propose", "execute"}}
  \cup {<<TIMELOCK, r, MULTISIG>> : r \in {"propose", "approve", "execute"}}
  \cup {<<"cloak", "execute", DEV>>} \cup {<<"cloak", r, MULTISIG>> : r \in {"execute", "restore"}}
  \cup {<<TIMELOCK, r, TIMELOCK>> : r \in {ROOT, "setDelay"}}
  \cup {<<"cloak", r, TIMELOCK>> : r \in {"add", "remove", "plan"}}
\* The slots of the storage that constructors set
JoinOf(join, asset) == (<<join, "asset">> :> asset) @@ (<<join, "storedBalance">> :> 0)
FYTokenOf(fy, join, id) == (<<fy, "join">> :> join) @@ (<<fy, "underlyingId">> :> id) @@ (<<fy, "mature">> :> FALSE)
PoolOf(pool, fy) == <<pool, "fyToken">> :> fy
StrategyOf(strategy, base) == (<<strategy, "base">> :> base) @@ (<<strategy, "state">> :> "DEPLOYED")
Code(addresses) == [slot \in {<<a, "code">> : a \in addresses} |-> TRUE]

Genesis(hosts, reg) ==
  [id |-> "", perm |-> Deployed(hosts \cup Contracts0) \cup Team, plan |-> {}, out |-> {}, ok |-> TRUE,
   reg |-> (<<"ladle", "cauldron">> :> "cauldron") @@ reg]

CoreOrchestration(ctx) ==
  orchestrateCloak(DEPLOYER, ctx) \o orchestrateCauldron(DEPLOYER, ctx)
  \o orchestrateLadle(DEPLOYER, ctx) \o orchestrateLadleToCauldron(ctx)
  \o orchestrateWitch(DEPLOYER, ctx) \o orchestrateWitchToCauldron(ctx)

Join(id) == "join" \o id
JoinsOf(ids) == [id \in ids |-> Join(id)]
Asset(id) == [assetId |-> id, address |-> "a" \o id]
Ilk(base, ilk, oracle) ==
  [baseId |-> base, ilkId |-> ilk, asset |-> Asset(ilk), debtLimits |-> 100,
   collateralization |-> [baseId |-> base, ilkId |-> ilk, oracle |-> oracle, ratio |-> 140]]
Auctioned(ilk) == ilk @@ [auctionLineAndLimit |-> [baseId |-> ilk.baseId, ilkId |-> ilk.ilkId, limit |-> 10]]

\* A network at work: ETH is a base with one series, and STETH is its ilk.  The
\* Witch has no business with the Join of DAI.
Old == {"ETH", "DAI", "STETH"}
OldHosts == {Join(id) : id \in Old} \cup {"fyETH", "poolETH", "ysETH", "chainlink", "composite", "accumulator"}
OldReg ==
  JoinOf(Join("ETH"), "aETH") @@ JoinOf(Join("DAI"), "aDAI") @@ JoinOf(Join("STETH"), "aSTETH")
  @@ FYTokenOf("fyETH", Join("ETH"), "ETH") @@ PoolOf("poolETH", "fyETH") @@ StrategyOf("ysETH", "aETH")
  @@ Code({"feedDAI", "feedSTETH"}) @@ (Bal("aETH", TIMELOCK) :> 300)
Network(newHosts, newReg) ==
  LET g == Genesis(OldHosts \cup newHosts, OldReg @@ newReg)
      ysETH == [address |-> "ysETH", base |-> "aETH", initAmount |-> 100, pool |-> "poolETH"]
  IN  Exec(g,
        CoreOrchestration(Core)
        \o orchestrateAccumulatorOracle("accumulator")
        \o orchestrateChainlinkOracle(DEPLOYER, Core, "chainlink")
        \o orchestrateCompositeOracle(DEPLOYER, Core, "composite")
        \o Each(LAMBDA id : orchestrateFlashJoin(DEPLOYER, Core, Join(id)) \o addAsset(Core, Asset(id), JoinsOf(Old)),
                <<"ETH", "DAI", "STETH">>)
        \o orchestrateFYToken(g, DEPLOYER, Core, "fyETH") \o orchestratePool(DEPLOYER, "poolETH")
        \o orchestrateStrategy(DEPLOYER, MULTISIG, Core, "ysETH")
        \o makeBase(Core, [assetId |-> "ETH", rateOracle |-> "accumulator"], JoinsOf(Old))
        \o updateChainlinkSources(g, "chainlink", <<<<"DAI", "ETH", "feedDAI">>, <<"STETH", "ETH", "feedSTETH">>>>)
        \o updateCompositeSources(g, "composite", <<<<"DAI", "ETH", "chainlink">>, <<"STETH", "ETH", "chainlink">>>>, TRUE)
        \o makeIlk(g, Core, Ilk("ETH", "ETH", "chainlink"), JoinsOf(Old))
        \o makeIlk(g, Core, Auctioned(Ilk("ETH", "STETH", "chainlink")), JoinsOf(Old))
        \o addSeries(g, Core, [seriesId |-> "ETH1", fyToken |-> "fyETH", pool |-> "ETH1", ilks |-> <<"STETH">>],
                     ("ETH1" :> "poolETH"))
        \o initStrategy(ysETH) \o investStrategy(ysETH))
=============================================================================
