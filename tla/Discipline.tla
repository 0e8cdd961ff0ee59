----------------------------- MODULE Discipline ------------------------------
(***************************************************************************)
(* What the theorems on scripts ask of them.  Most scripts deal with       *)
(* insiders, the users that may have a plan, in one way only: they grant   *)
(* them something and plan all of it.  The rest leaves insiders alone.     *)
(***************************************************************************)
EXTENDS Governance

\* Whatever stands alone concerns no insider, and of a pair one call grants what the
\* other plans
Listed(p) == Len(p) \in Nat /\ p \in Seq({p[i] : i \in 1..Len(p)})
Alone(c, insiders) ==
  /\ c.fn \notin {"add", "plan", "remove"}
  /\ c.fn \in {"grantRoles", "revokeRoles"} => c.user \notin insiders
  /\ c.fn = "revokeRoles" /\ c.user = Ctx.cloak => ROOT \notin c.roles
Pair(g, a, insiders) ==
  /\ g.fn = "grantRoles" /\ g.user \in insiders
  /\ a = CloakAdd(Ctx.cloak, g.user, Permissions(g.to, g.roles))
Paired(c, calls, insiders) ==
  \E j \in 1..Len(calls) : Pair(c, calls[j], insiders) \/ Pair(calls[j], c, insiders)
Orderly(calls, insiders) ==
  /\ Listed(calls)
  /\ \A i \in 1..Len(calls) : Alone(calls[i], insiders) \/ Paired(calls[i], calls, insiders)
\* Only insiders have a plan; they hold all of it, unless they are isolated, and no
\* permission to move value besides, but for the Ladle's `give'
Armed(s, insiders) ==
  /\ \A q \in s.plan : q[2] \in insiders /\ (<<Ctx.cloak, q[2]>> \in s.out \/ HasRole(s, q[3], q[4], q[2]))
  /\ \A q \in s.perm : ToPlan(q[1], q[2], q[3]) /\ q[3] \in insiders => <<Ctx.cloak, q[3], q[1], q[2]>> \in s.plan

-----------------------------------------------------------------------------
(* The configurations of the scripts: lists have a length, what they take  *)
(* over was deployed by outsiders, new fyTokens are insiders and           *)
(* strategies are not.                                                     *)

\* Who is not an insider, nor the Cloak itself; the Timelock is one of them
Outsider(u, insiders) == u \notin insiders \cup {Ctx.cloak}
Setting(insiders) ==
  Outsider(TIMELOCK, insiders) /\ Ctx.cloak \notin insiders /\ {Ctx.ladle, Ctx.witch} \subseteq insiders
Lists(lists) == \A list \in lists : Len(list) \in Nat
SeriesFit(k, insiders) ==
  /\ Lists({k.newSeries})
  /\ \A i \in 1..Len(k.newSeries) : LET x == k.newSeries[i] IN
       /\ x.fyToken \in insiders /\ Lists({x.ilks})
       /\ Outsider(k.deployers[x.fyToken], insiders) /\ Outsider(k.deployers[x.poolAddress], insiders)
StrategiesFit(k, insiders) ==
  /\ k.multisig \notin insiders /\ Lists({k.newStrategies})
  /\ \A i \in 1..Len(k.newStrategies) : LET x == k.newStrategies[i] IN
       x.address \notin insiders /\ Outsider(k.deployers[x.address], insiders)
BaseFit(k, insiders) ==
  /\ SeriesFit(k, insiders) /\ StrategiesFit(k, insiders)
  /\ Lists({k.accumulators, k.chainlinkSources, k.compositeSources, k.compositePaths, k.newIlks})
  /\ Outsider(k.deployers[k.joins[k.newBase.assetId]], insiders)
IlksFit(k) ==
  /\ Lists({k.newIlks, k.newSeries}) /\ \A i \in 1..Len(k.newSeries) : Lists({k.newSeries[i].ilks})
RETHFit(k, insiders) ==
  /\ IlksFit(k) /\ Lists({k.compositeSources, k.compositePaths})
  /\ Outsider(k.deployers[k.joins[k.asset.assetId]], insiders)
SenseFit(k, insiders) ==
  /\ IlksFit(k) /\ Lists({k.assets})
  /\ \A i \in 1..Len(k.assets) : Outsider(k.deployers[k.joins[k.assets[i].assetId]], insiders)
RollFit(k, insiders) ==
  /\ SeriesFit(k, insiders) /\ Lists({k.rollStrategies})
  /\ \A i \in 1..Len(k.rollStrategies) : k.rollStrategies[i].address \notin insiders
\* The accounts of the team are outsiders
TeamFit(accounts, insiders) == Lists({accounts}) /\ \A i \in 1..Len(accounts) : Outsider(accounts[i], insiders)
FCashFit(k, insiders) ==
  /\ Lists({k.newSources, k.newJoins, k.newSeriesIlks})
  /\ \A i \in 1..Len(k.newJoins) : Outsider(k.deployers[k.newJoins[i]], insiders)
  /\ \A i \in 1..Len(k.newSeriesIlks) : k.joins[k.newSeriesIlks[i][2].asset.assetId] \in insiders
RestoreFit(k, insiders) ==
  /\ Lists({k.transfers, k.mints, k.poolRestorations})
  /\ Outsider(k.restorer, insiders) /\ Outsider(k.deployers[k.restorer], insiders)
UpgradeFit(k, insiders) == Lists({k.upgrades}) /\ Outsider(k.deployers[k.upgrade], insiders)
ShiftFit(k, insiders) ==
  /\ Lists({k.vaultsToMigrate})
  /\ Outsider(k.shifter, insiders) /\ Outsider(k.deployers[k.shifter], insiders)
MoveFit(k, insiders) ==
  /\ StrategiesFit(k, insiders) /\ Lists({k.newSeries, k.oldStrategies})
  /\ \A i \in 1..Len(k.newSeries) : Outsider(k.deployers[k.newSeries[i].poolAddress], insiders)
  /\ \A i \in 1..Len(k.oldStrategies) : k.oldStrategies[i].address \notin insiders

\* The scripts that are orderly, whatever the chain, when their configuration fits
Usual(calls, s, k, insiders) ==
  \/ BaseFit(k, insiders) /\ calls \in {addBaseMainnet(s, Ctx, k), addBaseArbitrum(s, Ctx, k)}
  \/ RETHFit(k, insiders) /\ calls = addRETH(s, Ctx, k)
  \/ SenseFit(k, insiders) /\ calls = addSensePT(s, Ctx, k)
  \/ FCashFit(k, insiders) /\ calls = addFCashMaturities(s, Ctx, k)
  \/ RollFit(k, insiders) /\ calls = rollSeries(s, Ctx, k)
  \/ Lists({k.traderFunding}) /\ calls = fundTrader(k)
  \/ Lists({k.fyTokenSelling}) /\ calls = SellFYToken(k)
  \/ Lists({k.newLimits}) /\ calls = updateLimits(Ctx, k)
  \/ Lists({k.joinFlashFees, k.fyTokenFlashFees}) /\ calls = updateFlashFees(k)
  \/ TeamFit(k.newDevelopers, insiders) /\ calls = addDevelopers(Ctx, k)
  \/ TeamFit(k.developersRevoked, insiders) /\ calls = RevokeDevelopers(Ctx, k)
  \/ TeamFit(k.newGovernors, insiders) /\ calls = addGovernors(Ctx, k)
  \/ TeamFit(k.governorsToRevoke, insiders) /\ calls = RevokeGovernors(Ctx, k)
  \/ TeamFit(k.executorsRevoked, insiders) /\ calls = RevokeCloakExecute(Ctx, k)
  \/ Lists({k.transfers}) /\ calls = redeemJuneLenders(k)
  \/ Lists({k.baseTransfers}) /\ calls = buyFYToken(k)
  \/ Lists({k.strategyTransfers}) /\ calls = burnStrategies(k)
  \/ /\ StrategiesFit(k, insiders) /\ RestoreFit(k, insiders)
     /\ \/ SeriesFit(k, insiders) /\ calls = restoreSepStrategies_euler(s, Ctx, k)
        \/ calls = restoreSepStrategies_eulerAgain(Ctx, k)
  \/ /\ StrategiesFit(k, insiders) /\ Lists({k.trades, k.transfers, k.mints})
     /\ \/ SeriesFit(k, insiders) /\ calls = restoreJunStrategies_euler(s, Ctx, k)
        \/ calls = restoreJunStrategies_eulerAgain(Ctx, k)
  \/ UpgradeFit(k, insiders) /\ calls \in {strategyTokenUpgrade_euler(s, k), strategyTokenUpgrade_eulerAgain(k)}
  \/ ShiftFit(k, insiders) /\ calls = migrateJunDebt(Ctx, k)
  \/ Lists({k.baseTransfers, k.restoredSeries}) /\ calls = initPools(s, k)
  \/ MoveFit(k, insiders) /\ calls = migrateStrategiesArbitrum(Ctx, k)
  \/ Lists({k.newSeries, k.newStrategies}) /\ calls = restoreContangoArbitrum(s, Ctx, k)
=============================================================================
