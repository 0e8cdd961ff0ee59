---------------------------- MODULE Deployments ------------------------------
(***************************************************************************)
(* The lists of contracts that shared/deploy.ts is run with: the           *)
(* contractDeployments of each *.deployments.ts of scripts/governance.  An *)
(* entry names its key in the address files and the keys it looks up; the  *)
(* numbers and names among the arguments are left out.                     *)
(***************************************************************************)
EXTENDS Sequences, SequencesExt

Key(file, names) == {<<file, n>> : n \in names}
Contract(file, name, contract, libs, snap, args) ==
  [key |-> <<file, name>>, contract |-> contract, libs |-> libs, snap |-> snap, args |-> args]
NAMER == Key("protocol", {"SAFE_ERC20_NAMER"})
MATH == Key("protocol", {"YIELDMATH"})
Assets(names) == Key("assets", names)

(* The fyToken of a base: its Join and the chi oracle are looked up in the
   files as they are (New) or were when the configuration was imported (Old). *)
FYTokenNew(name, base) ==
  Contract("fyTokens", name, "FYToken", NAMER, {}, Key("protocol", {"ACCUMULATOR"}) \cup Key("joins", {base}))
FYTokenOld(name, base) ==
  Contract("fyTokens", name, "FYToken", NAMER, Key("protocol", {"ACCUMULATOR"}) \cup Key("joins", {base}), {})
\* Up to September 2023 a pool has the identifier of its fyToken
Pool(name, base) == Contract("pools", name, "PoolNonTv", MATH, Assets({base}), Key("fyTokens", {name}))
PoolEuler(name, ebase) ==
  Contract("pools", name, "PoolEuler", MATH, Assets({ebase}) \cup Key("external", {"EULER"}), Key("fyTokens", {name}))
Strategy(name, fyToken) ==
  Contract("strategies", name, "Strategy", NAMER, {}, Key("fyTokens", {fyToken}))
NotionalJoin(name, base) ==
  Contract("joins", name, "NotionalJoin", {},
           Key("external", {"FCASH"}) \cup Assets({base}) \cup Key("joins", {base}), {})
JoinOfSeries(series) == Contract("joins", series, "Join", {}, {}, Key("fyTokens", {series}))
\* Lists of pairs, a name and what it is made for
Made(Make(_, _), pairs) == [i \in 1..Len(pairs) |-> Make(pairs[i][1], pairs[i][2])]

(* add *)
USDTFYTokens == <<<<"FYUSDT2303", "USDT">>, <<"FYUSDT2306", "USDT">>>>
USDTStrategies == <<<<"YSUSDT6MJD", "FYUSDT2306">>, <<"YSUSDT6MMS", "FYUSDT2303">>>>
addUSDTSeries_mainnet ==
  <<Contract("joins", "USDT", "TetherJoin", {}, Assets({"USDT"}), {})>>
  \o Made(FYTokenNew, USDTFYTokens)
  \o Made(PoolEuler, <<<<"FYUSDT2303", "EUSDT">>, <<"FYUSDT2306", "EUSDT">>>>)
  \o Made(Strategy, USDTStrategies)
addUSDTSeries_arbitrum ==
  <<Contract("joins", "USDT", "FlashJoin", {}, Assets({"USDT"}), {})>>
  \o Made(FYTokenNew, USDTFYTokens) \o Made(Pool, USDTFYTokens) \o Made(Strategy, USDTStrategies)
addFCashDec23 == Made(NotionalJoin, <<<<"FETH2312", "ETH">>, <<"FDAI2312", "DAI">>, <<"FUSDC2312", "USDC">>>>)
addFCashSep23 == Made(NotionalJoin, <<<<"FETH2309", "ETH">>, <<"FDAI2309", "DAI">>, <<"FUSDC2309", "USDC">>>>)
addModule_mainnet ==
  <<Contract("protocol", "REPAY_FROM_LADLE_MODULE", "RepayFromLadleModule", {}, {},
             Key("protocol", {"CAULDRON"}) \cup Assets({"ETH"}))>>
addModule_arb_mainnet ==
  <<Contract("protocol", "REPAY_FROM_LADLE_MODULE", "RepayFromLadleModule", {}, Assets({"ETH"}),
             Key("protocol", {"CAULDRON"}))>>
addInitialRewards_deployments == <<Contract("strategies", "RWETH6MJD", "ERC20RewardsWrapper", {}, {}, {})>>
trader_mainnet ==
  <<Contract("protocol", "TRADER_DXDY", "Trader", {}, {}, Key("protocol", {"ERC3156_WRAPPER_DXDY"}))>>

(* contango: a Join for each series, named as the series *)
contango_jun23(series) == [i \in 1..Len(series) |-> JoinOfSeries(series[i])]
ContangoOracles ==
  <<Contract("protocol", "POOL_ORACLE", "PoolOracle", {}, {}, {}),
    Contract("protocol", "YIELD_SPACE_MULTI_ORACLE", "YieldSpaceMultiOracle", {}, {}, Key("protocol", {"POOL_ORACLE"}))>>
contango_sept23(series) == contango_jun23(series) \o ContangoOracles
contango_mainnet(series) ==
  <<Contract("protocol", "CONTANGO_CAULDRON", "Cauldron", {}, {}, {}),
    Contract("protocol", "CONTANGO_LADLE", "ContangoLadle", {}, Assets({"ETH"}), Key("protocol", {"CONTANGO_CAULDRON"})),
    Contract("protocol", "CONTANGO_WITCH", "ContangoWitch", {}, {},
             Key("external", {"CONTANGO"}) \cup Key("protocol", {"CONTANGO_CAULDRON", "CONTANGO_LADLE"}))>>
  \o ContangoOracles \o contango_jun23(series)

(* emergency *)
Jun23B == <<<<"FYETH2306B", "ETH">>, <<"FYDAI2306B", "DAI">>, <<"FYUSDC2306B", "USDC">>, <<"FYUSDT2306B", "USDT">>>>
JunStrategies == <<<<"YSETH6MJD", "FYETH2306B">>, <<"YSDAI6MJD", "FYDAI2306B">>,
                   <<"YSUSDC6MJD", "FYUSDC2306B">>, <<"YSUSDT6MJD", "FYUSDT2306B">>>>
Sep23 == <<<<"FYETH2309", "ETH">>, <<"FYDAI2309", "DAI">>, <<"FYUSDC2309", "USDC">>, <<"FYUSDT2309", "USDT">>>>
SepStrategies == <<<<"YSETH6MMS", "FYETH2309">>, <<"YSDAI6MMS", "FYDAI2309">>,
                   <<"YSUSDC6MMS", "FYUSDC2309">>, <<"YSUSDT6MMS", "FYUSDT2309">>>>
restoreJunStrategies_eulerList == Made(FYTokenOld, Jun23B) \o Made(Pool, Jun23B) \o Made(Strategy, JunStrategies)
restoreSepStrategies_eulerList ==
  Made(FYTokenOld, Sep23) \o Made(Pool, Sep23) \o Made(Strategy, SepStrategies)
  \o <<Contract("protocol", "POOL_RESTORER", "PoolRestorer", {}, Key("protocol", {"LADLE"}), {})>>
\* The strategies once more, under the names that the files have already
restoreJunStrategies_eulerAgainList == Made(Strategy, JunStrategies)
restoreSepStrategies_eulerAgainList == Made(Strategy, SepStrategies)
strategyTokenUpgrade_list == <<Contract("protocol", "TOKEN_UPGRADE", "TokenUpgrade", {}, {}, {})>>
strategyTokenUpgrade_listAgain == strategyTokenUpgrade_list
migrateStrategies_arbitrum ==
  LET both == <<<<"FYETH2306", "ETH">>, <<"FYETH2309", "ETH">>, <<"FYDAI2306", "DAI">>, <<"FYDAI2309", "DAI">>,
                <<"FYUSDC2306", "USDC">>, <<"FYUSDC2309", "USDC">>, <<"FYUSDT2306", "USDT">>, <<"FYUSDT2309", "USDT">>>>
  IN  Made(Pool, both)
      \o Made(Strategy, <<<<"YSETH6MJD", "FYETH2306">>, <<"YSETH6MMS", "FYETH2309">>,
                          <<"YSDAI6MJD", "FYDAI2306">>, <<"YSDAI6MMS", "FYDAI2309">>,
                          <<"YSUSDC6MJD", "FYUSDC2306">>, <<"YSUSDC6MMS", "FYUSDC2309">>,
                          <<"YSUSDT6MJD", "FYUSDT2306">>, <<"YSUSDT6MMS", "FYUSDT2309">>>>)

(* replace *)
replaceNotionalJoins_list == Made(NotionalJoin, <<<<"FETH2212", "ETH">>, <<"FETH2303", "ETH">>>>)
migrateMarStrategies_arbitrum ==
  Made(FYTokenOld, SubSeq(Sep23, 1, 3)) \o Made(Pool, SubSeq(Sep23, 1, 3)) \o Made(Strategy, SubSeq(SepStrategies, 1, 3))
FRAX == <<<<"FYFRAX2309", "FRAX">>>>
migrateMarStrategies_mainnet ==
  Made(FYTokenOld, FRAX) \o Made(Pool, FRAX) \o Made(Strategy, <<<<"YSFRAX6MMS", "FYFRAX2309">>>>)

(* roll *)
Dec23 == <<<<"FYETH2312", "ETH">>, <<"FYDAI2312", "DAI">>, <<"FYUSDC2312", "USDC">>, <<"FYUSDT2312", "USDT">>>>
rollDec23Series_mainnet == Made(FYTokenNew, Dec23) \o Made(Pool, Dec23)
rollDec23Series_arbitrum == Made(FYTokenNew, Dec23) \o Made(Pool, Dec23)
rollSep23Series_mainnet == Made(FYTokenNew, FRAX) \o Made(Pool, FRAX)
rollSep23Series_arbitrum ==
  Made(FYTokenNew, <<<<"FYUSDT2309", "USDT">>>>) \o Made(Pool, <<<<"FYUSDT2309", "USDT">>>>)
=============================================================================
