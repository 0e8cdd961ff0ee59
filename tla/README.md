# Formal models of yieldprotocol/environments-v2

The repository holds the operational side of Yield Protocol v2: contracts that
liquidate vaults, invest, move liquidity or take permissions away in an
emergency; a bot that runs the liquidations; and the scripts by which
governance changes all of it through a timelock. This directory models the
parts whose correctness depends on the order of things: auctions against moving
prices and parameters, plans against other plans and against governance, a bot
against a chain, a mempool and its own crashes.

Paths below are relative to the repository.

## 1. Inventory

| part | state it keeps | operations | interacts with |
|---|---|---|---|
| `contracts/deprecated/OldWitch.sol` | auctions (owner, start), ilk parameters, limits (line, dust, sum), ladle | setIlk, point, auction, buy, payAll | Cauldron (vaults, debts), Ladle, Joins; governance; vault owners; bidders |
| `contracts/OldEmergencyBrake.sol` (the copy in `deprecated/` is the same) | plans and their state | plan, cancel, execute, restore, terminate | the AccessControl of every contract that granted it ROOT |
| `flat/Join.sol`, AccessControl | role members and role admins | grantRole(s), revokeRole(s), setRoleAdmin, lockRole, renounceRole | every contract; EmergencyBrake; the timelock |
| `flat/Join.sol`, Join | storedBalance | join, exit, retrieve | Ladle, Witch, fyTokens, flash loans |
| liquidator bot, loop: `modules/liquidator/src/keeper.rs`, `borrowers.rs` | last block, vaults, auctions, the state file | run, on_block, update_vaults, log | node (blocks, event logs), file system, the service that restarts it |
| liquidator bot, actions: `liquidations.rs`, `escalator.rs`, `cache.rs`, `swap_router.rs` | pending transactions with their age, cached ids | remove_or_bump, start_auctions, buy_opportunities | node, mempool, Witch, FlashLiquidator |
| `modules/liquidator/contracts/*FlashLiquidator.sol` | recipient | liquidate, receiveFlashLoan | Balancer vault, Witch, swap router |
| `contracts/deprecated/StrategyV1.sol` | pool, next pool, cached LP tokens, shares | setNextPool, startPool, endPool, mint, burn, burnForBase | pools, fyTokens, Ladle |
| `contracts/Trader.sol`, `Roller.sol`, `PoolRestorer.sol`, `Shifter.sol` | a semaphore (Trader), roles | sellFYToken, buyBase, roll, restore, shift and flash-loan callbacks | flash lenders, pools, Joins, Cauldron |
| `contracts/Solvency.sol`, `contracts/wands/*` | none, or addresses | read-only sums; sequences of grants and settings | Cauldron, Joins, Ladle, Witch, cloak |
| `shared/{helpers,approve,execute}.ts` | `proposal.txt` in the directory of the script | propose, approve, execute | Timelock, signers, the mempool |
| `shared/deploy.ts` | address files, `deployers.json` | deploys the contracts of a list | what is deployed, the Timelock |
| `scripts/fragments`, `scripts/governance` | none; they read the chain while they build | encode the calls of proposals | everything above, through the Timelock, and the Cloak (EmergencyBrake V2) |
| addresses, abis, tools, regression tests, docs | data | | |

What is hard about them:

* **OldWitch.** A purchase touches the auction, the vault, `limits.sum` and two
  Joins. The price rounds up, the ink sold rounds down, and governance may
  change duration, line and initial offer, or the Witch's permissions, at any
  moment of an auction.
* **EmergencyBrake.** Plans overlap; restore gives back what was taken an
  unknown time ago; AccessControl does not complain about a revocation of what
  is not there.
* **Keeper.** Vaults, auctions and the last block are advanced one after the
  other, every request may fail, nodes lag, blocks are queried in batches, the
  file is written only now and then and never truncated.
* **Liquidator.** What the bot remembers of a transaction is one hash per job.
  The mempool may mine it late, lose it, replace it, or keep it beside its
  replacement; a restart forgets it.

* **Governance.** A proposal is built from what the chain says, executed days
  later, and atomic. Two fragments register one thing in two contracts, or grant
  a role that another one plans in the Cloak. The file that the three scripts
  share is overwritten by the next proposal of the directory, transactions are
  mined late, scripts are stopped and run again, users are isolated and anyone
  ends a matured pool meanwhile.
* **deploy.ts.** The address files are its only memory; it may stop between a
  deployment, the two records of it and the first grant of ROOT.
* **Flash loans.** Base leaves the Join or another lender, passes through the
  Join again as backing of fyToken that is minted on the way, and has to be back
  at the end; what is donated to the Join counts for whoever joins first.

For each component, what makes it correct: the Witch keeps the promises to
owners of vaults, and its books (`sum`, Joins) agree with the vaults; a plan
isolates its target until somebody with the right ends it and nobody gains a
permission through plans; the bot misses no vault and no auction, and acts on
them without flooding the chain; the shares of a strategy keep their value; a
Join holds at least what it has recorded, and the fyToken that was issued is
backed, in the middle of flash loans too; a proposal leaves roles, plans and
registries in step, can be isolated from, and returns the powers that are needed once; what the
address files say is true.

The hazards are listed in `PROJECT.json`, each at the line where it bites.

## 2. Modules

| module | models | proofs |
|---|---|---|
| `VaultCustody` | abstract: what an auction house promises to the owner of a vault | |
| `OldWitch` | OldWitch.sol with the calls it makes; implements `VaultCustody` | `OldWitchProofs` |
| `AccessControl` | roles of several contracts, one operator per function | |
| `EmergencyBrake` | OldEmergencyBrake.sol over `AccessControl`, with governance acting beside it | `EmergencyBrakeProofs` |
| `Keeper` | the bot's loop, its scan and its file | `KeeperProofs` |
| `Liquidator` | the bot's transactions and bids, with the mempool | `LiquidatorProofs` |
| `Strategy` | StrategyV1.sol: the fund, its shares and its pools | `StrategyProofs` |
| `FlashLoans` | Trader, Roller, PoolRestorer and the Join they use | `FlashLoansProofs` |
| `Deploy`, `Deployments` | deploy.ts, and 25 lists of contracts it is run with | `DeployProofs` |
| `Protocol` | the governed contracts, as the scripts call them (external) | |
| `PermissionFragments`, `AssetFragments`, `OperationFragments` | `scripts/fragments`, one operator per fragment | |
| `Proposals` | `scripts/governance`, one operator per script that proposes | |
| `Governance` | propose, approve, execute, the Timelock, the Cloak and anyone | `GovernanceProofs` |
| `Discipline` | what the theorems on scripts ask of them and of their configurations | `GovernanceProofs` |
| `Configurations`, `Networks` | parameters of proposals, and chains to start from | |
| `TeamProposals`, `BaseProposals`, `RollProposals`, `EmergencyProposals`, `ReplaceProposals`, `FragmentProposals` | the occasions: a network, the scripts that run on it, with what | |

`MC*` modules hold the definitions that the configurations need. Operators named
`X_Something` are variants of `X` with a fault in them: each property is known
to fail when the variant takes X's place.

### OldWitch and VaultCustody

A transaction is one action, because a failed `require` undoes all of it. State
and names are the contract's: `auctions`, `ilks`, `limits`, `ladle`. Of the
Cauldron the model keeps each vault's owner, ink and art, the spot price and
what debts have accrued; of the Joins, `storedBalance` per collateral; of
governance, whether the Witch has its permissions (`orchestrated`, which
`replaceWitch.ts` clears and sets). Between transactions owners pour and give
away vaults, also to the Witch itself, prices move, time passes and governance
reconfigures. The fixed-point functions are those of the code with the factor
`WAD` a constant. The direction in which the Cauldron rounds between base and
debt is not visible in the repository, so both are possible.

`VaultCustody` knows only a beneficiary, collateral, debt and whether a vault is
on auction. In the refinement mapping the beneficiary is the recorded owner
while an auction is on and the Cauldron's owner otherwise.

### AccessControl and EmergencyBrake

`AccessControl` has `members[contract][role]` and `adminOf[contract][role]`; a
batch is a sequence, and a call reverts if any of its elements would. A plan is
the record that the code hashes. Who holds the planner's and the executor's
roles is left open, so any of the five calls may come at any time, which is
stronger than the code; ROOT holders of the contracts (other than the Brake)
grant, revoke, lock and renounce meanwhile. `granted` and `regranted` are
history: the permissions that somebody but the Brake gave, and those he gave
while a plan was holding them back.

### Keeper

`pc` follows `run`: poll for a block, update vaults, collect auctions, look at
each of them, finish the block. `prev` is `maybe_last_block_number`, `toLog` the
open file. `Covered` translates the chunking of `update_vaults` and of
`buy_opportunities`, with the inclusive ranges of `eth_getLogs`. `Down` is what
is left of a process that ends, for whatever reason; the default state stands
for a missing or unreadable file. The chain has at most one event per block,
and an auction is open, too small to matter, or not there.

### Liquidator

A round runs through `remove_or_bump` (auctions first, then bids),
`update_vaults`, `start_auctions` and `buy_opportunities`. A job is a pair of a
kind and a vault, `pending` is the bot's two maps. Transactions are in the pool,
mined or lost; a hash is used again when nobody can ask about it any more. When
a job is bumped, the node may replace the old transaction, keep both or refuse.
What the bot sees of the chain is read at the step that reads it and used
later: `info` by start_auctions, `seen` (the newest block's timestamp) by the
bids. Swap calldata, gas estimates and a refusing node are reasons for which a
job may be skipped.

### Strategy

Deposits and withdrawals take two steps, a transfer (`Receive`) and a call that
takes whatever is there and not accounted for, so anybody may come between.
Burning "to itself" and minting "to itself" are legal and are distinguished
(`toItself`). What a pool gives is open: `startPool` gets any number of LP
tokens, also none, and any rest of its base back, `endPool` any amount. `startPool` needs
a fyToken that has not matured and whose Join is the one that gets the base.
(A Join that happens to hold unrecorded base would accept another's; Joins are
taken to hold none.)
After the last share is burnt while the strategy is in a pool, and after a
`startPool` whose pool minted nothing, `cached` is 0 and `mint` divides by 0
until the pool is ended; in the second case there are shares, for which `burn`
pays nothing meanwhile. The mapping `invariants`, which the
contract only shows to frontends, and the token's rewards are left out.

### FlashLoans

One base, its Join and the accounts that hold it. A transaction is a sequence of
steps, from the loan (`Lend`) through the callback to the repayment and what the
caller does at the end, with `tx` as its program counter; a step whose `require`s
fail lets `Revert` bring back the ledger as it was `before`. Between transactions
users borrow, repay and donate, governance funds the contracts, sets the next
pool of the strategy, and series mature. Of a pool only what it holds is kept: a
sale takes fyToken and gives base at a discount, `loss`, from 0 to a bound, which
stands for `YieldMath` before maturity. The strategy owns one LP token in `share`
of each pool; startPool and endPool are those of StrategyV1 with the rounding of
`divUp`. What a user borrows is sold to the pool in the same transaction.

### Deploy and Deployments

The variables are the files (keys to addresses), `deployers.json`, the contracts
with the addresses they were constructed with, and on which the Timelock has
ROOT. A run goes through its list entry by entry in five steps, as the loop of
`deploy.ts` does, and ends at an exception (`Unresolved`) or an interruption. An
entry has three kinds of lookups, made at import (`libs`), with maps read at
import (`snap`) and at the deployment (`args`). `Deployments` has the lists of
the repository; `MCDeploy` checks of all of them (as an ASSUME) that none looks
up what it makes only later, and runs two that depend on each other.

### Protocol, fragments and proposals

A chain is a record of who holds which role where, what the Cloak (EmergencyBrake
V2) has planned for whom, who is isolated, and the registries and balances that
the scripts read or write. `Accepts(s, c)` says whether call `c` goes through on
chain `s`, `Result(s, c)` what it does. A proposal is a sequence of calls and
`Exec` its atomic execution. A fragment is an operator with the parameters of
the function and the sequence it returns; one that reads the chain takes it as
`s`, and `KnownId`, `WithCode` and a call to `THROW` stand for the conditions
under which the function throws. Roles are named by their function, amounts are small
numbers, and parameters that nothing depends on are dropped.

### Governance

Each terminal of a signer builds a proposal from the chain (`BuildProposal`),
checks the Timelock's state and writes the file (`WriteProposal`), then sends
(`SendProposal`); `Approve` and `Execute` take whatever is in the file of the
directory they are run in. Transactions wait in `mempool` and are mined in any
order or revert. A script may be stopped at any point (`Crash`). Meanwhile the
Cloak isolates and restores users, and `Anyone` makes the calls that are open to
anyone: divest, endPool, deposits. The Timelock returns a proposal to Unknown
when it is executed, as the real one does, which is why a script that is run
again may propose the same thing twice.

A run of TLC starts from any network of `MCGovernance`:

| network | scripts |
|---|---|
| team, governors | addDevelopers, revokeDevelopers, revokeStir; addGovernors, revokeGovernors, revokeCloakExecute |
| mainnet, arbitrum | addUSDT (eleven ilks, two series) and addRETH |
| roll, migrate | rollSeries and fundTrader; migrateMarStrategies and sellFYToken |
| euler, eulerAgain | restoreSepStrategies, restoreJunStrategies, strategyTokenUpgrade, migrateJunDebt, of both recoveries |
| strategyBug, strategyBugArbitrum | redeemJuneLenders, buyFYToken, burnStrategies, revokeMintBurn; migrateStrategies, restoreContango, initPools |
| join, witch, contango | replaceJoin with addRETH; replaceWitch, replaceLadle, unprotectWitchV1; the Cloak of Contango with addRETH |
| oracles, helpers | the fragments for oracles, fCash and principal tokens; givers, levers, wrappers, rewards, modules, wands |

## 3. Runs

| run | instance | shows |
|---|---|---|
| `OldWitch_safety` | two vaults of one ilk, four parameter sets, two prices, two accruals, WAD 2, time to 3 | types; an auctioned vault is held by the Witch and owes something; `sum` covers what is on auction; Joins back the vaults; payAll is never wedged; the line is respected when an auction opens; `VaultCustody` is implemented |
| `OldWitch_sum` | the same | the comment on `sum` ("Current concurrent auctioned collateral") does not hold: unsold ink of a repaid vault stays in it |
| `EmergencyBrake` | one Join, four plans of which three overlap, one names ROOT and one names a role twice | types; no new permissions; isolation; disjointness; ROOT is left alone; a locked role stays locked |
| `Keeper_safety` | two vaults, batches of 2, file every 2 blocks, 4 blocks, one kill | types; nothing is skipped; the file claims no more than was scanned |
| `Keeper_live` | one vault, no batches, start block 1 | every auction that stays open is looked at |
| `Liquidator_safety` | one vault, three hashes, ratios below and above the threshold, one fault | types; no flood; remembered transactions are the job's own |
| `Liquidator_live` | one vault, two hashes, a high ratio, one fault | an unsafe vault is auctioned; an auction that stays open gets a bid |
| `Liquidator_ratio` | one vault, ratios 100 and 70000 percent | ARCHITECTURE.wsd's conditions for a bid do not hold: a ratio over 65535 counts as 0 |
| `Strategy` | two pools, the second of which needs another Ladle and Join; up to 4 LP tokens, 3 base, 5 shares | types; what is cached is there; nothing is cached of a pool while nobody has a share; no share loses value by what others do |
| `FlashLoans` | two series, a loan of up to 2, fee 1, losses of 0 and 1, one donation, a strategy with all or half of the LP tokens | the Join has what it stored, lenders are paid back and fyToken is backed at each step; a roll with a loan that makes up for what the Join lacks, and costs paid in advance, never fails |
| `deploy` | the lists of USDT and of Contango on mainnet, one interruption | types; what is on record was built on what is on record, the Timelock governs nothing unknown, and each contract without a record, its deployer or the Timelock's ROOT was at hand when a run was interrupted; what is recorded stays; every list gets through |
| `Governance` | the fifteen networks above, three signers, one isolation each | types; the Cloak can isolate whoever has a plan, and whoever is isolated holds nothing of it until RestoreUser; grants are planned and plans are kept; listings are whole; powers that are needed once are returned; a roll that is due, and a script whose needs were executed before, go through |

### Bounds

* `OldWitch`: ink and art up to 3 with WAD 2 let every rounding occur: prices
  that round up once and twice, ink that exceeds what the vault holds, dust and
  line reached exactly. Two vaults are needed for `sum` to mix; a third adds
  nothing to it. Durations 0, 1 and 2 with time up to 3 have auctions before,
  at and after their end.
* `EmergencyBrake`: a permission that appears in two plans, and a plan that
  names one twice, are the interesting overlaps; two functions are enough to have
  plans that overlap in part. A second contact would be independent of the
  first, save that a plan reverts as a whole, which two functions show too.
* `Keeper`: with batches of 2 over 4 blocks, ranges of even and odd length,
  partial batches and batches past the end occur. `MaxFailures` 2 lets the loop
  fail once and recover, and give up; one kill, at every place of the loop.
  Every run of blocks ends at `MaxBlock`, so the blocks stop, and the system
  may stop only then: deadlock is checked in every run.
* `Liquidator`: jobs of different vaults share nothing but the round, so one
  vault is enough for the books of a job. Three hashes let a job have one
  pending and two it lost track of. `MaxExtra` and `MaxFaults` bound how often a
  job loses track and how often rounds fail or the process restarts.
* `Strategy`: with 4 LP tokens, 3 base and 5 shares, mint, burn and burnForBase
  all round, a pool is used again after it was left with tokens in it, and a
  deposit arrives between any two calls. Without a bound on time, pools mature
  in any order.

* `FlashLoans`: a loan of 2 with a fee, a loss and a share of a half has all
  roundings; one donation is enough to make the Join hold more than it stored,
  and the debt of users, up to 2, drains it below what a roll redeems. Pools
  are two since a roll has an old and a new one. 1.5 million states.
* `deploy`: the lists are chosen because the second needs the Join that the
  first makes, whichever is run first. An interruption leaves one
  contract half done at most, and a second one nothing new; the theorems are for any
  number.
* `Governance`: on each network two to four scripts interleave, which is where
  proposals built before others were executed come from. One isolation per
  network, at any moment; a user may be restored and stays so. One script is
  stopped on the networks with few of them (`Crashed`), and scripts run again after
  the execution on `arbitrum` (`MaxRepeats`). 219,587 states, of which the system
  may stop in those where all is executed: its deadlock is not checked.

### Fairness

`Keeper`: blocks keep being mined; the process is started again (it is deployed
as a service, `modules/liquidator/aws`); a request repeated for ever is
in the end answered, by a node that has the newest block; the steps inside the
process are its own. `Poll(head)`, `UpdateVaults` and `CollectAuctions` need
strong fairness because a failure sends the loop back to polling. Nothing is
assumed of a bid's outcome. A node that lags makes a bot without batches panic;
the run shows that restarts make up for it.

`Liquidator`: the bot's steps are weakly fair, as rounds follow new blocks. It is
strongly fair that update_vaults answers for all vaults, that a job which is
wanted again and again is sent once (the node accepts it, the swap is found),
and that a transaction which is in the pool again and again is mined once. Time
passes for auctions and for pending transactions, and nothing stays in the
mempool for ever. Neither rounds that fail nor restarts are fair; they are
bounded.

`Deploy`: a run that is under way goes on (weak), and the team starts a list that
is not through yet again and again (strong, since a list can only be started when
no other run is under way). Interruptions are not fair and bounded.

`Governance` and `FlashLoans` have safety properties only: nothing makes a signer
approve.

## 4. Proofs

All theorems hold for every value of the constants that satisfies the `ASSUME`s
of the modules; those about `Governance` have a condition on proposals or on scripts
besides, which is part of their statement. Each is proved from an inductive invariant, which
joins the property with what it rests on; TLC checks the property on the runs above.

* **OldWitchProofs.** `Inv` is `TypeOK` with `AuctionedVaultIsHeld`. That an
  auctioned vault still owes something is what makes the division in the price
  meaningful, hence types depend on it, and it holds because auction requires a
  negative level and a purchase of all the debt ends the auction.
  `WitchKeepsCustody` is the step simulation; its heart is `SoldInProportion`:
  through three roundings up, the ink sold for d of the debt is at most the
  share d/art of the ink, up to the rounding of one price unit.
  Sums over vaults are folds over a set. `FoldIsUnits` makes them countable: the
  ink of a set of vaults is the number of pairs <<vault, k>> with k below the
  vault's ink, so that the library's facts about cardinalities say what a vault
  adds to a sum and takes from it (`SumsOfOneVault`). It goes over the subsets of
  `Vault`, finite by `VaultAssumption`, by a smallest set for which it fails, in
  place of an induction. On top of it each action changes `limits.sum`, the Joins
  and the sums by the same amounts: `WitchSumCovers` (what is on auction is in
  `sum`), `WitchJoinsBackVaults` (a Join holds what its vaults do),
  `WitchPayAllGoesThrough` (hence the subtractions of the last payment, from `sum`
  and from the Join, never wrap) and `WitchRespectsLine` (an auction opens within
  the line, as `sum` is at least what is on auction).
* **EmergencyBrakeProofs.** The invariant joins types (among them that no
  registered plan names ROOT), `NoNewPermissions`,
  isolation, disjointness of executed plans, that what an executed plan took had
  been granted. Isolation and
  disjointness need each other: a restore could end another plan's isolation
  only if they shared a permission, and execute finds a permission only if no
  executed plan has taken it. `LockedRolesStayLocked` goes over the elements of
  a batch by the least position at which a locked role would be granted
  (`LeastOf`, from the well-foundedness of Nat, in place of an induction).
* **KeeperProofs.** `BatchesCover`: for every batch size, the batches of
  [from, to) cover all blocks of it. The invariant carries, for each `pc`,
  how far vaults and auctions are complete: to `lastBlock` before the scan,
  to `to` after it. From it follow `KeeperSkipsNothing` and
  `KeeperFileIsComplete`, through failures, panics, kills and restarts.
* **StrategyProofs.** The invariant is `TypeOK`, `CachedIsThere` and
  `SharesMatchHoldings`, which need each other: a withdrawal can be paid because
  the shares burnt are at most the supply. `PayOut` and `Issue` are the two
  arithmetic lemmas: a payment rounded down, and shares rounded down, leave every
  other share at least what it stood for, whatever the amounts.
* **LiquidatorProofs.** The invariant adds to `TypeOK` and `PendingIsOwn` that a
  job still to be followed up has a transaction (`TodoOK`), and that those in the
  mempool which it does not remember are as many as `extra` counts at most
  (`LostOK`); `NoFlood` alone is not inductive, since a restart forgets whatever is
  there. `CountedIsOK` is the argument about cardinalities: each step adds nothing
  to what a job has forgotten, or one transaction that `extra` counts. Hashes are
  finitely many (`IdAssumption`), which holds of any run of the bot.
* **DeployProofs.** The invariant says what a run may rely on between two
  writes: the address it holds is off the record before `Record` and on it
  after, and what a contract was constructed with is on record unchanged.
  `DeployLeftByInterrupts` counts the contracts that are not at hand and lack their
  record, their deployer or the Timelock's ROOT: `Create` takes one in hand, `GrantRoot`
  lets it go finished, and a run that ends in between is one of the interruptions.
* **GovernanceProofs.** For any networks, scripts and signers. `GovernanceAssumption`
  says what the code gives of the constants: the networks are well-formed chains on
  which nobody is isolated, and what is open to anyone is neither a grant nor a
  change of plans. What scripts build is open, and the theorems say what they need of
  it, as a condition on the proposals that are on the Timelock:
  `ProposalsAreCalls`, that they are sequences of calls, which TLC checks of all scripts
  here (in `KeptDiscipline`). A proposal is a fold over its calls; `ExecGoesThrough`
  gives the chains between its calls, along which `UpTo` carries what one call preserves.
  `NoOldPlans` asks further that no proposal calls `plan`, the function of the old
  brake, which replaces a plan without looking at its state. Of the scripts here
  `orchestrateAuctionAssets`, `replaceLadle` and `orchestrateContangoLadle` still
  encode it, so the theorems with that condition, `GovernanceTypeCorrect`,
  `GovernanceIsolationFrozen` and `GovernanceIsolatedHoldsNothing`, do not speak of
  the networks that use them, and TLC does. The last one says that an isolated
  user holds nothing of its plan for as long as every proposal plans what it grants
  (`GrantsArePlanned`): `add` and `remove` revert on an isolated user, and the grant
  with them.

  `GovernanceIsolationWorks` needs a discipline, `KeepsPlans`, that can be told from
  what a proposal gives, takes, plans and drops and from the chain that it meets, which
  is not the one it was built from: for each user, what it plans is held or given, what
  it takes is not left planned unless it takes all of the plan, and what it gives of
  value it plans, but for the Ladle's `give` (section 5). `PlansAreKept` says so of what
  is ripe; TLC checks it, with `GrantsArePlanned`, in `KeptDiscipline` for the scripts
  here. The invariant,
  `Isolatable`, is `IsolationWorks` itself with the Cloak's ROOT wherever it has a plan
  (`Rooted`), without which an isolation could not be executed; `HeldIs` and `PlannedIs`
  say what is held and planned after a proposal in terms of what it gives and plans, in
  whichever order of its calls. `FirstPlansAssumption` has all this of the first chains.

  `GovernanceOrderlyScripts` has no condition on what happens, only on what scripts
  build: `Orderly` proposals, that give to insiders nothing that they do not plan, and
  take nothing from them (module `Discipline`). Insiders are those who may have a plan:
  the Ladle, the Witch, fyTokens. The invariant says where each proposal comes from
  (`Good`: its script built it, on some chain), and that insiders hold what is planned
  unless they are isolated (`Armed`). It depends neither on the chain that a script read
  nor on the one its proposal meets, which is why the order and the delay of proposals
  do not matter. The discipline above (`KeptDiscipline`) follows. `UsualIsOrderly` goes through twenty-eight scripts of `Proposals`, fragment
  by fragment, and shows that they are orderly for any chain and for any configuration that
  fits: lists have a length, deployers and the team are not insiders, new fyTokens are,
  new strategies are not. `GovernanceUsualScripts` puts the two together. That real
  networks and configurations meet its hypotheses is an `ASSUME` of `MCGovernance`
  (`UsualNetworksAssumption`, of seven networks with the same insiders), which TLC
  evaluates; `OrderlyNetworksAssumption` says that the proposals of two more networks are
  orderly as built from the first chain.

  Not orderly are the scripts that take from insiders (replacing Joins, the Witch or the
  Ladle, revokeStir, revokeMintBurn); `GovernanceIsolationWorks` speaks of them, and TLC
  checks its condition. Not gone through are migrateMarStrategies, which is orderly on the
  network here but filters its calls with `SelectSeq`, a recursive definition, and the
  scripts for oracles, helpers and rewards.
* **FlashLoansProofs.** The invariant adds to `BooksBalance` what each step of a
  transaction relies on: the user has the loan when it is called back, the
  Roller holds as much fyToken as it minted, there is a next pool where one is
  needed, and that the ledger to go back to balances too. `RoundedUpIsPart` is the
  arithmetic: what startPool sends to the pool, rounded up, is never more than the
  strategy has. `FlashLoansFundedRoll` is Roller's promise, for all amounts: `RollInv`
  says how far each step of a funded roll has come from the state it started
  with (`RollOnCourse`), and `OnCourseProceeds` that each then finds what it needs.
  The divisions of endPool are the same at the beginning and when it happens, and
  into a pool without fyToken of its own all base goes unrounded (`AllToFreshPool`).

Model-checked only:

* `ListingsAreWhole`, `PowersAreReturned` and `ReadyProposalsGoThrough`. They depend on
  what the scripts of the repository build: a theorem would be about these scripts on
  these networks, which TLC goes through one by one. The last one is conditional: a roll
  that comes up goes through if the strategy still holds what it rolls and nobody has
  divested or ended its pool meanwhile; a script goes through if what it needs was
  executed before. `KeptDiscipline` is proved for orderly scripts and checked for all.
* `AuctionsAreWatched`, `UnsafeIsAuctioned`, `BidIsMade` and `AllListsDone`: liveness,
  for which the prover has no rules beyond propositional temporal logic.

## 5. Findings

Checked by runs that fail:

* `limits.sum` of OldWitch (`OldWitch.sol:35`, `:156`) is not the collateral on
  auction. It covers it, so the line is never passed, but it leaks the ink of
  every vault that goes back with some left, until no auction can be opened.
* The bot takes a ratio over 65535% for 0 (`liquidations.rs:578-586`) and bids
  at once, while `ARCHITECTURE.wsd:25-27` gives two conditions, neither of which
  holds.

Met while the scripts were translated, as the operators have them, without a run
of their own (paths under `src/scripts/fragments` unless given in full):

* `timelock/proposalRequired.ts:18` asserts that the Timelock's entry for an earlier
  proposal is 0. It is 0 after the execution and before the proposal as well, so
  revokeCloakExecute goes through although nobody was given the roles, while
  `governance/permissions/revokeCloakExecute/revokeCloakExecute.ts:21` says "Ensure
  that developer roles were given first".
* `permissions/grantGovernors.ts:41` gives the permissions on the Cloak to the
  Timelock and not to the governor; the comment at `:30` says that access is direct.
* `core/orchestrateLadle.ts:74` revokes the deployer's ROOT on the Cauldron and
  leaves it on the Ladle, against `:8`. `oracles/orchestrateAccumulatorOracle.ts:9` says
  that ROOT is removed from the deployer, and that the Cloak gets it; the lines that did
  so, `:38-44`, are commented out. `PowersAreReturned` names both (`LeftToDeployers`): it
  is about the deployers of everything else that the Timelock has taken over.
* `core/orchestrateLadle.ts:64` grants `give` on the Cauldron to the Ladle, as
  `docs/orchestration.md:13` lists, and `cloak/addLadleToCloak.ts:20-47` plans all other
  permissions that are granted there but this one. A Ladle that the Cloak has isolated
  can still give vaults away. `IsolationWorks` names it as the one exception (`LadleGive`).
  In the same way `utils/orchestrateLever.ts:20-26` grants a lever `give` and `seize` on
  the Giver, and `cloak/addLeverToCloak.ts:18-23` plans `seize` only; `IsolationWorks` is
  about users with a power over the Cauldron planned, which levers are not.
* `pools/orchestratePool.ts:26` never gives ROOT to the Cloak, against its comment
  at `:7` and `docs/orchestration.md:33`.
* `shared/helpers.ts:57`: the lines that remove duplicate calls are commented out,
  and the RETH configuration yields some four times, since `addIlkToWitch` asks the
  chain and not the proposal under construction. A Cloak that refuses to plan
  what is planned refuses the whole proposal; the model has RETH with one ilk.
* `assetsAndSeries/makeIlk.ts:33` sets oracle and ratio (200%) of ETH for the base of
  a new ilk, over the terms that ETH had there; the comment says it is there "just
  so that all assets can be priced in ETH terms".
* `emergency/drainJoinsFragment.ts:43` transfers the balance that it read as the
  proposal was built; what is deposited later stays in the old Join, against `:2`.
* `replace/replaceWitch.ts:24` revokes the roles of the old Witch and leaves its plan
  in the Cloak: if it was isolated when the proposal was executed, restoring it
  gives everything back.
* `strategies/mintRewardsToken.ts:17` asks the strategy for a rewards token that the
  same proposal sets: `addInitialRewards` can be built only where one is set already.
* `shared/deploy.ts:53` says that ROOT is given to the Timelock "only if we haven't done
  so yet". The address is recorded first, at `:45`; a run that stops in between leaves a
  recorded contract that the Timelock does not govern, or that is missing in
  `deployers.json`, and no later run makes up for it, as it reuses what is recorded
  (`:59`) and grants nothing there. `RecordIsSound` bounds how many there are. Nor is the
  contract under a name compared with the one that the list means; several lists
  (`migrateMarStrategies`, `rollSep23Series`) use the same names.
* `contracts/deprecated/StrategyV1.sol:200` takes what `pool.mint` returns for `cached`
  without a check. A base so small that it is all rounded into `baseToPool` (`:191`) may
  mint no LP token: if there are shares, `mint` then divides by 0 (`:246`) and `burn` pays
  nothing until somebody ends the pool.
* Two executions of one payment: after the execution the Timelock knows the
  proposal no more, and a script that is run again proposes the same payment.
  Additions of assets and series the contracts refuse the second time.
* Configurations: fyFRAX2303 and 2306 have `ilks: ethIlks`, `usdcIlks` has FUSDC2306 in
  every series; ilkETHDAI, ilkETHUSDC, ilkDAIUSDC and ilkFRAXUSDC of USDT name
  another asset than their name says; the auctions of fETH, fDAI and fUSDC start
  at 105 or 115 percent with a ratio of 110. addUSDT needs addRETH to be executed before.

## 6. Not modelled, and why

* Cauldron, Ladle, Timelock, pools, fyTokens, oracles: other repositories. They
  appear as the calls made to them. The Cauldron's minimum debt and the
  overflow of uint128 amounts are left out.
* `uint32` timestamps wrap in 2106, as the contract's comment says.
* Chain reorganisations: the bot does not handle them, and the models have a
  chain that only grows.
* The whitelist of vaults: it filters vaults of both scans alike, so `Vault` is
  read as the vaults that pass it.
* Wallet nonces and prices of transactions: `Bump` has every outcome a node may
  give.
* The bot's escalator (floating point), cache and swap router (a process), and the
  two flash liquidators, which are one transaction around an external swap.
* `Shifter`, `Solvency`, the wands as contracts: one call each that passes on to the
  Cauldron or the Ladle, or reads only.
* Endings of a pool by anybody else while Roller works: a transaction is not
  interrupted, and `Strategy` has endPool at any other time.
* Scripts that cannot be run at this commit, as they import what is gone or call
  with parameters that have changed: addChainlinkCollateral, the scripts for
  convex, ENS, crab, strategy tokens and STETH converters, Contango's orchestration
  and orchestrateNewInstruments, `updateWitchParams`, replaceNotionalJoins,
  activateWitchV2 and completeWitchV2, updateAuctions, updateRatio, updateSolvency,
  updateTimelockDelay, setupOracles, addModule, addGiver, banIlk, restorePlan,
  `replaceCloak.ts` and its copy for Arbitrum, `initialisePoolOracle`, `contexts.ts`.
  Their fragments are modelled where another script uses them or they stand alone.
* Impersonation and the simulation of proposals on forks, which `propose` does on
  test networks only.
* Amounts, addresses, ABIs, tools and tests: data, one-off reads and test doubles.

## 7. Plan

1. `OldWitch`, `VaultCustody`, `AccessControl`, `EmergencyBrake`, `Keeper`,
   `Liquidator`, `Strategy`: modelled, checked and proved about.
2. `Governance` with the fragments and proposals, `Deploy`, `FlashLoans`: modelled,
   checked, proved about.
3. Proofs: every property of the runs but those listed at the end of section 4. Next:
   the scripts that retire a user, for which `Retires` is the condition, and one
   for `PowersAreReturned`, that a proposal takes back what it lends.
4. Models, in this order: the flash liquidators composed with the Witch's buy; the gas
   escalator against a reference in integers.
