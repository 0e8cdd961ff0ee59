------------------------- MODULE EmergencyProposals -------------------------
(***************************************************************************)
(* The proposals of two emergencies, each set of scripts in one directory: *)
(* a series and its strategy are restored from what the Timelock was given *)
(* back, debt is moved to the new series and strategy tokens are exchanged *)
(* (emergency/euler); the Joins pay lenders, fyToken is bought back and a  *)
(* fyToken is taken away from the Ladle (emergency/eulerAgain,             *)
(* emergency/strategyBug, emergency/revokeMintBurn); strategies move to    *)
(* new pools on Arbitrum (emergency/strategyBug).                          *)
(***************************************************************************)
EXTENDS Networks

NewHosts == {"fyETH2", "poolETH2", "poolETH3", "ysNew", "restorer", "upgrade", "shifter"}
Start(id) ==
  LET network == Network(NewHosts,
        FYTokenOf("fyETH2", Join("ETH"), "ETH") @@ PoolOf("poolETH2", "fyETH2") @@ PoolOf("poolETH3", "fyETH")
        @@ StrategyOf("ysNew", "aETH") @@ StrategyOf("ysOther", "aETH") @@ Code({"poolETH3", "ysNew"}))
  IN  \* the Joins hold what users deposited
      [network EXCEPT
        !.reg = (<<Join("ETH"), "storedBalance">> :> 50) @@ (Bal("aETH", Join("ETH")) :> 50)
                @@ (Bal("ysETH", TIMELOCK) :> 30) @@ (<<"ysOther", "state">> :> "DIVESTED")
                @@ (IF id = "strategyBugArbitrum" THEN <<"ysETH", "state">> :> "DIVESTED" ELSE <<>>) @@ @,
        !.perm = @ \cup {<<"ysOther", r, TIMELOCK>> : r \in {"init", "invest", "eject"}}
                   \cup {<<"yieldspace", "setSource", TIMELOCK>>}]

k ==
  [deployers |-> [h \in NewHosts |-> DEPLOYER], multisig |-> MULTISIG,
   joins |-> [id \in {"ETH"} |-> Join(id)],
   fyTokens |-> ("ETH1" :> "fyETH") @@ ("ETH2" :> "fyETH2"), pools |-> ("ETH2" :> "poolETH2"),
   newSeries |-> <<[seriesId |-> "ETH2", baseId |-> "ETH", fyToken |-> "fyETH2", pool |-> "ETH2", poolAddress |-> "poolETH2",
                    ilks |-> <<"STETH">>]>>,
   newStrategies |-> <<[address |-> "ysNew", base |-> "aETH", initAmount |-> 100, pool |-> "poolETH2"]>>,
   transfers |-> <<[token |-> "aETH", receiver |-> "poolETH2", amount |-> 20]>>,
   mints |-> <<[seriesId |-> "ETH2", receiver |-> "ysNew", amount |-> 20]>>,
   restorer |-> "restorer", poolRestorations |-> <<[seriesId |-> "ETH2", receiver |-> "ysNew"]>>,
   upgrade |-> "upgrade", upgrades |-> <<[tokenIn |-> "ysETH", tokenOut |-> "ysNew", merkleRoot |-> "root"]>>,
   accumulator |-> "accumulator", trades |-> <<[seriesId |-> "ETH2", amount |-> 10]>>,
   shifter |-> "shifter", vaultsToMigrate |-> <<<<"vault1", "ETH2">>, <<"vault2", "ETH2">>>>]
bug ==
  [joins |-> k.joins, fyTokens |-> k.fyTokens, fyTokenIdsToIsolate |-> <<"ETH1">>,
   transfers |-> <<[assetId |-> "ETH", receiver |-> "lender", amount |-> 15]>>,
   baseTransfers |-> <<[assetId |-> "ETH", receiver |-> "ysETH", amount |-> 20, token |-> "aETH"]>>,
   strategyTransfers |-> <<[token |-> "ysETH", receiver |-> "ysETH", amount |-> 30]>>,
   restoredSeries |-> <<[poolAddress |-> "poolETH3"]>>]
\* The second time, new strategies are restored for the series that is there
again ==
  [deployers |-> k.deployers, multisig |-> MULTISIG, pools |-> ("ETH1" :> "poolETH"), fyTokens |-> k.fyTokens,
   newStrategies |-> <<[address |-> "ysNew", base |-> "aETH", initAmount |-> 100, pool |-> "poolETH"]>>,
   transfers |-> <<[token |-> "aETH", receiver |-> "poolETH", amount |-> 20]>>,
   mints |-> <<[seriesId |-> "ETH1", receiver |-> "ysNew", amount |-> 20]>>,
   trades |-> <<[seriesId |-> "ETH1", amount |-> 20]>>,
   restorer |-> "restorer", poolRestorations |-> <<[seriesId |-> "ETH1", receiver |-> "ysNew"]>>,
   upgrade |-> "upgrade", upgrades |-> <<[tokenIn |-> "ysETH", tokenOut |-> "aETH", merkleRoot |-> "root", amount |-> 40]>>]
arbitrum ==
  [deployers |-> k.deployers, multisig |-> MULTISIG, yieldSpace |-> "yieldspace",
   newSeries |-> <<[seriesId |-> "ETH1", baseId |-> "ETH", poolAddress |-> "poolETH3"]>>,
   oldStrategies |-> <<[address |-> "ysOther", pool |-> "ysNew"]>>,
   newStrategies |-> <<[address |-> "ysNew", base |-> "aETH", pool |-> "poolETH3"]>>]

Assemble(sc, s) ==
  CASE sc = "restoreSepStrategies" -> restoreSepStrategies_euler(s, Core, k)
    [] sc = "restoreJunStrategies" -> restoreJunStrategies_euler(s, Core, k)
    [] sc = "strategyTokenUpgrade" -> strategyTokenUpgrade_euler(s, k)
    [] sc = "migrateJunDebt" -> migrateJunDebt(Core, k)
    [] sc = "restoreSepStrategiesAgain" -> restoreSepStrategies_eulerAgain(Core, again)
    [] sc = "restoreJunStrategiesAgain" -> restoreJunStrategies_eulerAgain(Core, again)
    [] sc = "strategyTokenUpgradeAgain" -> strategyTokenUpgrade_eulerAgain(again)
    [] sc = "redeemJuneLenders" -> redeemJuneLenders(bug)
    [] sc = "buyFYToken" -> buyFYToken(bug)
    [] sc = "burnStrategies" -> burnStrategies(bug)
    [] sc = "revokeMintBurn" -> revokeMintBurn(Core, bug)
    [] sc = "migrateStrategies" -> migrateStrategiesArbitrum(Core, arbitrum)
    [] sc = "restoreContango" -> restoreContangoArbitrum(s, Core, arbitrum)
    [] sc = "initPools" -> initPools(s, bug)

Occasions == {"euler", "eulerAgain", "strategyBug", "strategyBugArbitrum"}
FirstChains == [id \in Occasions |-> [Start(id) EXCEPT !.id = id]]
UsersOf == [id \in Occasions |-> {"ladle"}]
OpenTo == [id \in Occasions |->
           {Set("fyETH", "mature", "mature", <<>>, TRUE), Call("ysETH", "divest", <<>>)}]
ScriptsOf ==
  [euler |-> {"restoreSepStrategies", "restoreJunStrategies", "strategyTokenUpgrade", "migrateJunDebt"},
   eulerAgain |-> {"restoreSepStrategiesAgain", "restoreJunStrategiesAgain", "strategyTokenUpgradeAgain"},
   strategyBug |-> {"redeemJuneLenders", "buyFYToken", "burnStrategies", "revokeMintBurn"},
   strategyBugArbitrum |-> {"migrateStrategies", "restoreContango", "initPools"}]
DirOf == [sc \in UNION {ScriptsOf[id] : id \in DOMAIN ScriptsOf} |->
          CASE sc \in ScriptsOf.euler -> "euler"
            [] sc \in ScriptsOf.eulerAgain -> "eulerAgain"
            [] sc \in ScriptsOf.strategyBugArbitrum \cup {"buyFYToken"} -> "strategyBug"
            [] OTHER -> sc]
=============================================================================
