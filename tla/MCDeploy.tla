------------------------------ MODULE MCDeploy -------------------------------
(***************************************************************************)
(* Two lists of mainnet for TLC.  What the files know from the start is    *)
(* what the lists do not make.                                             *)
(***************************************************************************)
EXTENDS Deploy, Deployments

Base == {"ETH", "DAI", "USDC", "FRAX"}
MCKnown ==
  Key("protocol", {"SAFE_ERC20_NAMER", "YIELDMATH", "ACCUMULATOR", "LADLE", "CAULDRON", "ERC3156_WRAPPER_DXDY"})
  \cup Key("external", {"EULER", "FCASH", "CONTANGO"})
  \cup Assets(Base \cup {"USDT", "EUSDT"}) \cup Key("joins", Base)
\* The first list makes the Join of USDT, that the others need
ContangoUSDT == contango_mainnet(<<"FYUSDT2306">>)
MCLists == {addUSDTSeries_mainnet, ContangoUSDT}

AllLists == {addUSDTSeries_mainnet, addUSDTSeries_arbitrum, addFCashDec23, addFCashSep23, addModule_mainnet,
  addModule_arb_mainnet, addInitialRewards_deployments, trader_mainnet, ContangoUSDT,
  contango_jun23(<<"FYUSDT2306">>), contango_sept23(<<"FYUSDT2306">>), restoreJunStrategies_eulerList, restoreSepStrategies_eulerList,
  restoreJunStrategies_eulerAgainList, restoreSepStrategies_eulerAgainList, strategyTokenUpgrade_list,
  strategyTokenUpgrade_listAgain, migrateStrategies_arbitrum, replaceNotionalJoins_list,
  migrateMarStrategies_arbitrum, migrateMarStrategies_mainnet, rollDec23Series_mainnet,
  rollDec23Series_arbitrum, rollSep23Series_mainnet, rollSep23Series_arbitrum}
EntriesOf(lists) == UNION {{l[i] : i \in DOMAIN l} : l \in lists}
MCKeys == MCKnown \cup {e.key : e \in EntriesOf(AllLists)}
          \cup UNION {e.args \cup e.snap \cup e.libs : e \in EntriesOf(AllLists)}
MCContracts == {e.contract : e \in EntriesOf(AllLists)}
MCOwnerless == {"PoolOracle", "RepayFromLadleModule"}

\* No list looks up what only a later entry of it makes, and no two entries of
\* a list have the same key
ASSUME InOrder ==
  \A l \in AllLists : \A i \in DOMAIN l :
    /\ \A j \in DOMAIN l : l[i].key = l[j].key => i = j
    /\ \A j \in i..Len(l) : l[j].key \notin l[i].libs \cup l[i].snap \cup l[i].args
    /\ \A j \in DOMAIN l : l[j].key \notin l[i].libs \cup l[i].snap
=============================================================================
