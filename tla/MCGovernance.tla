----------------------------- MODULE MCGovernance ----------------------------
(***************************************************************************)
(* Governance at work on a number of networks, each with the scripts of    *)
(* one occasion: what a run of TLC starts from is any of them.             *)
(***************************************************************************)
EXTENDS Discipline, Networks

TeamOn == INSTANCE TeamProposals
BaseOn == INSTANCE BaseProposals
RollOn == INSTANCE RollProposals
EmergencyOn == INSTANCE EmergencyProposals
ReplaceOn == INSTANCE ReplaceProposals
FragmentOn == INSTANCE FragmentProposals

MCChains == TeamOn!FirstChains @@ BaseOn!FirstChains @@ RollOn!FirstChains @@ EmergencyOn!FirstChains @@ ReplaceOn!FirstChains @@ FragmentOn!FirstChains
ScriptsOn == TeamOn!ScriptsOf @@ BaseOn!ScriptsOf @@ RollOn!ScriptsOf @@ EmergencyOn!ScriptsOf @@ ReplaceOn!ScriptsOf @@ FragmentOn!ScriptsOf
MCScripts == UNION {ScriptsOn[id] : id \in DOMAIN ScriptsOn}
MCDir == TeamOn!DirOf @@ BaseOn!DirOf @@ RollOn!DirOf @@ EmergencyOn!DirOf @@ ReplaceOn!DirOf @@ FragmentOn!DirOf
MCBuild(sc, s) ==
  CASE s.id \in {"team", "governors"} -> TeamOn!Assemble(sc, s)
    [] s.id \in {"mainnet", "arbitrum"} -> BaseOn!Assemble(sc, s)
    [] s.id \in {"roll", "migrate"} -> RollOn!Assemble(sc, s)
    [] s.id \in {"euler", "eulerAgain", "strategyBug", "strategyBugArbitrum"} -> EmergencyOn!Assemble(sc, s)
    [] s.id \in {"join", "witch", "contango"} -> ReplaceOn!Assemble(sc, s)
    [] s.id \in {"oracles", "helpers"} -> FragmentOn!Assemble(sc, s)
MCOperates == FragmentOn!OperatesOn

MCSigners == {DEV, "dev2", MULTISIG}
MCTasks == [id \in DOMAIN ScriptsOn |->
  IF id = "team" THEN TeamOn!TeamTasks ELSE IF id = "governors" THEN TeamOn!GovernorTasks
  ELSE (DEV :> (ScriptsOn[id] \cup {"execute"})) @@ ("dev2" :> {}) @@ (MULTISIG :> {"approve"})]
MCUsers == TeamOn!UsersOf @@ BaseOn!UsersOf @@ RollOn!UsersOf @@ EmergencyOn!UsersOf @@ ReplaceOn!UsersOf @@ FragmentOn!UsersOf
MCOpen == TeamOn!OpenTo @@ BaseOn!OpenTo @@ RollOn!OpenTo @@ EmergencyOn!OpenTo @@ ReplaceOn!OpenTo @@ FragmentOn!OpenTo
MCDeployers == {DEPLOYER}
\* A script is stopped where few of them run, and scripts are run again after the
\* execution where they add something
Crashed == {"arbitrum", "roll", "eulerAgain", "helpers"}
MCMaxCrashes == [id \in DOMAIN ScriptsOn |-> IF id \in Crashed THEN 1 ELSE 0]
MCMaxIncidents == [id \in DOMAIN ScriptsOn |-> 1]
MCMaxRepeats == [id \in DOMAIN ScriptsOn |-> IF id = "arbitrum" THEN 1 ELSE 0]

\* The networks that meet the hypothesis of GovernanceOrderlyScripts, as far
\* as TLC can tell: from the first chain, all their scripts build orderly proposals,
\* and whoever has a plan is armed
OrderlyNetworks ==
  {"governors", "mainnet", "arbitrum", "roll", "migrate", "euler", "eulerAgain", "strategyBugArbitrum", "oracles"}
Insiders(id) ==
  LET planned(sc) == LET calls == MCBuild(sc, MCChains[id]) IN
                     {calls[i].user : i \in {j \in DOMAIN calls : calls[j].fn = "add"}}
  IN  MCUsers[id] \cup {q[2] : q \in MCChains[id].plan} \cup UNION {planned(sc) : sc \in ScriptsOn[id]}
ASSUME OrderlyNetworksAssumption ==
  \A id \in OrderlyNetworks :
    /\ Armed(MCChains[id], Insiders(id)) /\ {TIMELOCK, Core.cloak, DEPLOYER} \cap Insiders(id) = {}
    /\ \A sc \in ScriptsOn[id] : Orderly(MCBuild(sc, MCChains[id]), Insiders(id))

\* Those that meet the hypotheses of GovernanceUsualScripts, whose scripts are orderly
\* from every chain: they are all usual, their configurations fit, with the same insiders
UsualNetworks == {"governors", "mainnet", "arbitrum", "roll", "euler", "eulerAgain", "strategyBugArbitrum"}
UsualInsiders == UNION {Insiders(id) : id \in UsualNetworks}
ASSUME UsualNetworksAssumption ==
  /\ Setting(UsualInsiders)
  /\ \A id \in UsualNetworks : Armed(MCChains[id], UsualInsiders) /\ MCUsers[id] \subseteq UsualInsiders
  /\ TeamFit(<<DEV, "dev2">>, UsualInsiders)
  /\ BaseFit(BaseOn!usdtBase, UsualInsiders) /\ BaseFit(BaseOn!usdtArbitrum, UsualInsiders)
  /\ RETHFit(BaseOn!reth, UsualInsiders)
  /\ LET k == RollOn!Config("2") IN RollFit(k, UsualInsiders) /\ Lists({k.traderFunding})
  /\ \A k \in {EmergencyOn!k, EmergencyOn!again} :
       /\ StrategiesFit(k, UsualInsiders) /\ RestoreFit(k, UsualInsiders) /\ UpgradeFit(k, UsualInsiders)
       /\ Lists({k.trades, k.transfers, k.mints})
  /\ SeriesFit(EmergencyOn!k, UsualInsiders) /\ ShiftFit(EmergencyOn!k, UsualInsiders)
  /\ LET k == EmergencyOn!arbitrum IN MoveFit(k, UsualInsiders) /\ Lists({k.newSeries, k.newStrategies})
  /\ LET k == EmergencyOn!bug IN Lists({k.baseTransfers, k.restoredSeries})
=============================================================================
