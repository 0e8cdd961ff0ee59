--------------------------- MODULE Configurations --------------------------
(***************************************************************************)
(* The parameters of proposals: the bases, the ilks and the series of      *)
(* mainnet (base.mainnet.config.ts), of USDT (addUSDTSeries.*.config.ts)   *)
(* and of RETH (addRETH.config.ts).  An ilk is one collateral for one      *)
(* base, with its oracle and its ratio in percent; Liquidable has an       *)
(* auction, that starts at 105% of the debt.  Amounts, dust and addresses  *)
(* are left out.                                                           *)
(***************************************************************************)
EXTENDS Networks

Unliquidable(base, ilk, oracle, ratio) ==
  [Ilk(base, ilk, oracle) EXCEPT !.collateralization.ratio = ratio]
Liquidable(base, ilk, oracle, ratio) == Auctioned(Unliquidable(base, ilk, oracle, ratio))
\* The asset of an ilk only matters where the asset is added along with it
WithAsset(id, ilk) == [ilk EXCEPT !.asset = Asset(id)]
Ids(ilks) == [i \in 1..Len(ilks) |-> ilks[i].ilkId]
Series(base, maturity, ilks) ==
  LET id == base \o maturity IN
  [seriesId |-> "FY" \o id, fyToken |-> "fy" \o id, base |-> base,
   pool |-> "FY" \o id, poolAddress |-> "pool" \o id, ilks |-> Ids(ilks)]

(* base.mainnet.config.ts                                                  *)
eth == [assetId |-> "ETH", address |-> "aETH", rateOracle |-> "compound"]
dai == [assetId |-> "DAI", address |-> "aDAI", rateOracle |-> "compound"]
usdc == [assetId |-> "USDC", address |-> "aUSDC", rateOracle |-> "compound"]
frax == [assetId |-> "FRAX", address |-> "aFRAX", rateOracle |-> "accumulator"]
bases == <<eth, dai, usdc, frax>>

ilkETHETH == Unliquidable("ETH", "ETH", "chainlink", 100)
ilkETHDAI == WithAsset("ETH", Liquidable("ETH", "DAI", "chainlink", 140))
ilkETHUSDC == WithAsset("ETH", Liquidable("ETH", "USDC", "chainlink", 140))
ilkETHWBTC == Liquidable("ETH", "WBTC", "chainlink", 150)
ilkETHWSTETH == Liquidable("ETH", "WSTETH", "lido", 140)
ilkETHLINK == Liquidable("ETH", "LINK", "chainlink", 167)
ilkETHUNI == Liquidable("ETH", "UNI", "chainlink", 167)
ilkETHENS == Liquidable("ETH", "ENS", "composite", 167)
ilkETHFRAX == Liquidable("ETH", "FRAX", "chainlink", 115)
ilkETHRETH == Liquidable("ETH", "RETH", "rethOracle", 133)
ilkETHCRAB == Liquidable("ETH", "CRAB", "crabOracle", 140)
ilkETHFETH2306 == Liquidable("ETH", "FETH2306", "notional", 110)

ilkDAIDAI == Unliquidable("DAI", "DAI", "chainlink", 100)
ilkDAIETH == Liquidable("DAI", "ETH", "chainlink", 140)
ilkDAIUSDC == WithAsset("DAI", Liquidable("DAI", "USDC", "chainlink", 110))
ilkDAIWBTC == Liquidable("DAI", "WBTC", "chainlink", 150)
ilkDAIWSTETH == Liquidable("DAI", "WSTETH", "composite", 140)
ilkDAILINK == Liquidable("DAI", "LINK", "chainlink", 167)
ilkDAIUNI == Liquidable("DAI", "UNI", "chainlink", 167)
ilkDAIENS == Liquidable("DAI", "ENS", "composite", 167)
ilkDAIFRAX == Liquidable("DAI", "FRAX", "chainlink", 115)
ilkDAIRETH == Liquidable("DAI", "RETH", "composite", 167)
ilkDAICRAB == Liquidable("DAI", "CRAB", "composite", 133)
ilkDAIFDAI2306 == Liquidable("DAI", "FDAI2306", "notional", 110)

ilkUSDCUSDC == Unliquidable("USDC", "USDC", "chainlink", 100)
ilkUSDCETH == Liquidable("USDC", "ETH", "chainlink", 140)
ilkUSDCDAI == Liquidable("USDC", "DAI", "chainlink", 110)
ilkUSDCWBTC == Liquidable("USDC", "WBTC", "chainlink", 150)
ilkUSDCWSTETH == Liquidable("USDC", "WSTETH", "composite", 140)
ilkUSDCLINK == Liquidable("USDC", "LINK", "chainlink", 167)
ilkUSDCUNI == Liquidable("USDC", "UNI", "chainlink", 167)
ilkUSDCENS == Liquidable("USDC", "ENS", "composite", 167)
ilkUSDCFRAX == Liquidable("USDC", "FRAX", "chainlink", 115)
ilkUSDCRETH == Liquidable("USDC", "RETH", "composite", 167)
ilkUSDCCRAB == Liquidable("USDC", "CRAB", "composite", 133)
ilkUSDCFUSDC2306 == Liquidable("USDC", "FUSDC2306", "notional", 110)

ilkFRAXFRAX == Unliquidable("FRAX", "FRAX", "chainlink", 100)
ilkFRAXETH == Liquidable("FRAX", "ETH", "chainlink", 140)
ilkFRAXDAI == Liquidable("FRAX", "DAI", "chainlink", 115)
ilkFRAXUSDC == WithAsset("FRAX", Liquidable("FRAX", "USDC", "chainlink", 110))
ilkFRAXWBTC == Liquidable("FRAX", "WBTC", "chainlink", 150)
ilkFRAXWSTETH == Liquidable("FRAX", "WSTETH", "composite", 140)
ilkFRAXLINK == Liquidable("FRAX", "LINK", "chainlink", 167)
ilkFRAXUNI == Liquidable("FRAX", "UNI", "chainlink", 167)
ilkFRAXENS == Liquidable("FRAX", "ENS", "composite", 167)
ilkFRAXRETH == Liquidable("FRAX", "RETH", "composite", 167)

ethIlks == <<ilkETHETH, ilkETHDAI, ilkETHUSDC, ilkETHWBTC, ilkETHWSTETH, ilkETHLINK, ilkETHUNI,
             ilkETHENS, ilkETHFRAX, ilkETHRETH, ilkETHCRAB>>
ethIlks2306 == Append(ethIlks, ilkETHFETH2306)
daiIlks == <<ilkDAIETH, ilkDAIDAI, ilkDAIUSDC, ilkDAIWBTC, ilkDAIWSTETH, ilkDAILINK, ilkDAIUNI,
             ilkDAIENS, ilkDAIFRAX, ilkDAIRETH, ilkDAICRAB>>
daiIlks2306 == Append(daiIlks, ilkDAIFDAI2306)
\* fUSDC of June 2023 is an ilk of every series, and twice of that maturity's
usdcIlks == <<ilkUSDCETH, ilkUSDCDAI, ilkUSDCUSDC, ilkUSDCWBTC, ilkUSDCWSTETH, ilkUSDCLINK, ilkUSDCUNI,
              ilkUSDCENS, ilkUSDCFRAX, ilkUSDCRETH, ilkUSDCCRAB, ilkUSDCFUSDC2306>>
usdcIlks2306 == Append(usdcIlks, ilkUSDCFUSDC2306)
fraxIlks == <<ilkFRAXETH, ilkFRAXDAI, ilkFRAXUSDC, ilkFRAXWBTC, ilkFRAXWSTETH, ilkFRAXLINK, ilkFRAXUNI,
              ilkFRAXENS, ilkFRAXFRAX, ilkFRAXRETH>>

\* The series of FRAX are given the ilks of ETH
series2303 == <<Series("ETH", "2303", ethIlks), Series("DAI", "2303", daiIlks),
                Series("USDC", "2303", usdcIlks), Series("FRAX", "2303", ethIlks)>>
series2306 == <<Series("ETH", "2306", ethIlks2306), Series("DAI", "2306", daiIlks2306),
                Series("USDC", "2306", usdcIlks2306), Series("FRAX", "2306", ethIlks)>>

(* addUSDTSeries.mainnet.config.ts                                         *)
usdt == [assetId |-> "USDT", address |-> "aUSDT", rateOracle |-> "accumulator"]
accumulators == <<[baseId |-> "USDT", kind |-> "RATE", perSecondRate |-> 5],
                  [baseId |-> "USDT", kind |-> "CHI", perSecondRate |-> 1]>>
chainlinkSources == <<<<"USDT", "ETH", "feedUSDT">>>>
compositeSources == <<<<"USDT", "ETH", "chainlink">>>>
compositePaths == <<<<"USDT", "ENS", <<"ETH">>>>, <<"USDT", "WSTETH", <<"ETH", "STETH">>>>,
                    <<"USDT", "RETH", <<"ETH">>>>>>

ilkUSDTUSDT == Unliquidable("USDT", "USDT", "chainlink", 100)
ilkUSDTETH == Liquidable("USDT", "ETH", "chainlink", 140)
ilkUSDTDAI == Liquidable("USDT", "DAI", "chainlink", 110)
ilkUSDTUSDC == Liquidable("USDT", "USDC", "chainlink", 110)
ilkUSDTWBTC == Liquidable("USDT", "WBTC", "chainlink", 150)
ilkUSDTWSTETH == Liquidable("USDT", "WSTETH", "composite", 140)
ilkUSDTLINK == Liquidable("USDT", "LINK", "chainlink", 167)
ilkUSDTUNI == Liquidable("USDT", "UNI", "chainlink", 167)
ilkUSDTENS == Liquidable("USDT", "ENS", "composite", 167)
ilkUSDTFRAX == Liquidable("USDT", "FRAX", "chainlink", 115)
ilkUSDTRETH == Liquidable("USDT", "RETH", "composite", 167)
newIlks == <<ilkUSDTUSDT, ilkUSDTETH, ilkUSDTDAI, ilkUSDTUSDC, ilkUSDTWBTC, ilkUSDTWSTETH, ilkUSDTRETH,
             ilkUSDTLINK, ilkUSDTUNI, ilkUSDTENS, ilkUSDTFRAX>>
newSeries == <<Series("USDT", "2303", newIlks), Series("USDT", "2306", newIlks)>>
newStrategies == <<[address |-> "ysUSDT6MMS", base |-> "aUSDT", initAmount |-> 100, pool |-> "poolUSDT2303"],
                   [address |-> "ysUSDT6MJD", base |-> "aUSDT", initAmount |-> 100, pool |-> "poolUSDT2306"]>>

(* addUSDTSeries.arbitrum.config.ts, where prices are in USD                *)
chainlinkSourcesArbitrum == <<<<"USDT", "USD", "feedUSDT">>>>
ilkUSDTUSDTArbitrum == Unliquidable("USDT", "USDT", "chainlinkUSD", 100)
ilkUSDTETHArbitrum == Liquidable("USDT", "ETH", "chainlinkUSD", 140)
ilkUSDTDAIArbitrum == Liquidable("USDT", "DAI", "chainlinkUSD", 110)
ilkUSDTUSDCArbitrum == Liquidable("USDT", "USDC", "chainlinkUSD", 110)
newIlksArbitrum == <<ilkUSDTUSDTArbitrum, ilkUSDTETHArbitrum, ilkUSDTDAIArbitrum, ilkUSDTUSDCArbitrum>>
newSeriesArbitrum == <<Series("USDT", "2303", newIlksArbitrum), Series("USDT", "2306", newIlksArbitrum)>>

(* addRETH.config.ts                                                       *)
ilkToETH == Liquidable("ETH", "RETH", "rethOracle", 133)
ilkToDAI == Liquidable("DAI", "RETH", "composite", 167)
ilkToUSDC == Liquidable("USDC", "RETH", "composite", 167)
ilkToFRAX == Liquidable("FRAX", "RETH", "composite", 167)
ilksRETH == <<ilkToETH, ilkToDAI, ilkToUSDC, ilkToFRAX>>
oracleSources == <<<<"ETH", "RETH", "rethOracle">>>>
oraclePaths == <<<<"RETH", "DAI", <<"ETH">>>>, <<"RETH", "USDC", <<"ETH">>>>, <<"RETH", "FRAX", <<"ETH">>>>>>
seriesRETH ==
  [i \in 1..8 |-> [seriesId |-> <<"FYETH2303", "FYETH2306", "FYDAI2303", "FYDAI2306",
                                  "FYUSDC2303", "FYUSDC2306", "FYFRAX2303", "FYFRAX2306">>[i],
                   ilks |-> <<"RETH">>]]
=============================================================================
