\* The networks of MCGovernance, each with two to four scripts, up to three
\* accounts, one isolation and, where there are few scripts, one crash.
SPECIFICATION Spec
CONSTANTS
  Chains <- MCChains
  Scripts <- MCScripts
  Dir <- MCDir
  Build <- MCBuild
  Signers <- MCSigners
  Tasks <- MCTasks
  Ctx <- Core
  Users <- MCUsers
  Open <- MCOpen
  Deployers <- MCDeployers
  Operates <- MCOperates
  MaxCrashes <- MCMaxCrashes
  MaxIncidents <- MCMaxIncidents
  MaxRepeats <- MCMaxRepeats
INVARIANTS TypeOK IsolationWorks IsolatedHoldsNothing ListingsAreWhole PowersAreReturned KeptDiscipline ReadyProposalsGoThrough
PROPERTIES IsolationFrozen
CHECK_DEADLOCK FALSE
