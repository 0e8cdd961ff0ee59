----------------------------- MODULE Liquidator -----------------------------
(***************************************************************************)
(* What the liquidation bot sends to the chain and how it follows it up:   *)
(* src/modules/liquidator/src/liquidations.rs, called by on_block of       *)
(* keeper.rs.  It starts auctions of undercollateralized vaults, bids for  *)
(* those whose terms are good, remembers one transaction for each of these *)
(* jobs, and sends it again at a higher price when it is not mined.        *)
(*                                                                         *)
(* Prices move, others start and take auctions, and the mempool mines,     *)
(* drops or replaces transactions between any two steps of a round.  Which *)
(* vaults and auctions the bot knows of is the subject of module Keeper.   *)
(***************************************************************************)
EXTENDS Integers, FiniteSets

CONSTANTS
  Vault,
  Id,          \* transaction hashes, used again once nobody needs them
  NoTx,        \* no transaction is pending
  Ratio,       \* collateral to debt ratios of a vault, in percent
  MinRatio,    \* min_ratio
  Target,      \* target_collateral_offer, in percent
  Initial,     \* the share of the collateral offered at first, in percent
  Duration,    \* how long it takes until all of it is offered
  MaxExtra,    \* bound: how often a job loses track of a transaction
  MaxFaults    \* bound: how many rounds fail and how often the process restarts

ASSUME IdAssumption == IsFiniteSet(Id)
ASSUME NoTxAssumption == NoTx \notin Id
ASSUME RatioAssumption == Ratio \subseteq Nat /\ Ratio # {} /\ MinRatio \in Nat
ASSUME OfferAssumption ==
  /\ Target \in 0..100 /\ Initial \in 0..100
  /\ Duration \in Nat \ {0} /\ MaxExtra \in Nat /\ MaxFaults \in Nat

U16Max == 65535

Kind == {"auction", "buy"}
Job == Kind \X Vault

VARIABLES
  status,      \* vault -> its state on the chain
  ratio,       \* vault -> its collateral to debt ratio
  elapsed,     \* vault -> time since its auction started
  txs,         \* transaction -> what it is and where
  pc,          \* where the round is
  todo,        \* the jobs this part of the round has still to do
  info,        \* vault -> what update_vaults last read
  seen,        \* vault -> elapsed at the block the bids look at
  pending,     \* job -> the transaction that is remembered for it
  old,         \* the jobs whose transaction is older than bump_gas_delay
  extra,       \* history, job -> transactions it may have lost track of
  faults       \* how many rounds failed, and restarts of the process

chain == <<status, ratio, elapsed>>
bot == <<pending, old, extra>>
vars == <<chain, txs, pc, todo, info, seen, bot, faults>>

Status == {"safe", "unsafe", "auctioned"}
Free == [st |-> "free", job |-> <<>>]
Tx == {Free} \cup [st: {"pool", "mined", "lost"}, job: Job]

Init ==
  /\ status = [v \in Vault |-> "safe"]
  /\ ratio \in [Vault -> Ratio]
  /\ elapsed = [v \in Vault |-> 0]
  /\ txs = [i \in Id |-> Free]
  /\ pc = "idle" /\ todo = {}
  /\ info = [v \in Vault |-> "unknown"]
  /\ seen = [v \in Vault |-> -1]
  /\ pending = [j \in Job |-> NoTx]
  /\ old = {}
  /\ extra = [j \in Job |-> 0]
  /\ faults = 0

Pool(j) == {i \in Id : txs[i] = [st |-> "pool", job |-> j]}

-----------------------------------------------------------------------------
(* The chain and the mempool.                                              *)

(* The effect of a vault coming under auction, or leaving it.              *)
StatusBecomes(v, st) ==
  /\ status' = [status EXCEPT ![v] = st]
  /\ elapsed' = [elapsed EXCEPT ![v] = 0]
  /\ seen' = [seen EXCEPT ![v] = -1]

OthersAct(v) ==
  /\ \/ status[v] = "safe" /\ StatusBecomes(v, "unsafe") /\ UNCHANGED ratio
     \/ status[v] = "unsafe" /\ StatusBecomes(v, "safe") /\ UNCHANGED ratio
     \/ status[v] = "unsafe" /\ StatusBecomes(v, "auctioned") /\ UNCHANGED ratio
     \/ status[v] = "auctioned" /\ StatusBecomes(v, "safe") /\ UNCHANGED ratio
     \/ \E r \in Ratio : ratio' = [ratio EXCEPT ![v] = r] /\ UNCHANGED <<status, elapsed, seen>>
  /\ UNCHANGED <<txs, pc, todo, info, bot, faults>>

Elapse(v) ==
  /\ status[v] = "auctioned" /\ elapsed[v] < Duration
  /\ elapsed' = [elapsed EXCEPT ![v] = @ + 1]
  /\ UNCHANGED <<status, ratio, txs, pc, todo, info, seen, bot, faults>>

(* A transaction nobody asks about any more is forgotten.                  *)
Settled(i, st) ==
  IF \E j \in Job : pending[j] = i THEN [txs[i] EXCEPT !.st = st] ELSE Free

(* auction reverts unless the vault is undercollateralized and not under   *)
(* auction; liquidate, if the vault is not under auction or the collateral *)
(* does not pay for the flash loan.  A reverted transaction is mined too.  *)
Mine(i) ==
  LET v == txs[i].job[2] IN
  /\ txs[i].st = "pool"
  /\ txs' = [txs EXCEPT ![i] = Settled(i, "mined")]
  /\ \/ /\ txs[i].job[1] = "auction" /\ status[v] = "unsafe"
        /\ StatusBecomes(v, "auctioned")
     \/ /\ txs[i].job[1] = "buy" /\ status[v] = "auctioned"
        /\ StatusBecomes(v, "safe")
     \/ /\ txs[i].job[1] = "auction" => status[v] # "unsafe"
        /\ UNCHANGED <<status, elapsed, seen>>
  /\ UNCHANGED <<ratio, pc, todo, info, bot, faults>>

Lose(i) ==
  /\ txs[i].st = "pool"
  /\ txs' = [txs EXCEPT ![i] = Settled(i, "lost")]
  /\ UNCHANGED <<chain, pc, todo, info, seen, bot, faults>>

(* bump_gas_delay passes for a pending transaction.                        *)
Age(j) ==
  /\ pending[j] # NoTx /\ j \notin old
  /\ old' = old \cup {j}
  /\ UNCHANGED <<chain, txs, pc, todo, info, seen, pending, extra, faults>>

-----------------------------------------------------------------------------
(* remove_or_bump.                                                         *)

NewTx(j, i) == txs[i] = Free /\ txs' = [txs EXCEPT ![i] = [st |-> "pool", job |-> j]]

StartRound ==
  /\ pc = "idle"
  /\ pc' = "bump"
  /\ todo' = {j \in Job : pending[j] # NoTx}
  /\ UNCHANGED <<chain, txs, info, seen, bot, faults>>

(* The auctions to start come before the bids.                             *)
Takes(j) ==
  /\ pc = "bump" /\ j \in todo
  /\ j[1] = "buy" => \A k \in todo : k[1] = "buy"
  /\ todo' = todo \ {j}

(* Mutant: the receipt is seen but the entry stays.                        *)
Confirm_Keeps(j) ==
  /\ Takes(j) /\ txs[pending[j]].st = "mined"
  /\ UNCHANGED <<chain, txs, pc, info, seen, bot, faults>>

(* There is a receipt, of success or failure.                              *)
Confirm(j) ==
  LET i == pending[j] IN
  /\ Takes(j) /\ txs[i].st = "mined"
  /\ txs' = [txs EXCEPT ![i] = Free]
  /\ pending' = [pending EXCEPT ![j] = NoTx]
  /\ old' = old \ {j}
  /\ UNCHANGED <<chain, pc, info, seen, extra, faults>>

TooEarly(j) ==
  /\ Takes(j) /\ txs[pending[j]].st # "mined" /\ j \notin old
  /\ UNCHANGED <<chain, txs, pc, info, seen, bot, faults>>

(* Mutant: the transaction that replaces the old one is not remembered.    *)
Bump_KeepsHash(j) ==
  LET i == pending[j] IN
  /\ Takes(j) /\ txs[i].st # "mined" /\ j \in old
  /\ \E n \in Id :
       /\ txs[n] = Free
       /\ txs' = [txs EXCEPT ![i] = Free, ![n] = [st |-> "pool", job |-> j]]
  /\ old' = old \ {j}
  /\ UNCHANGED <<chain, pc, info, seen, pending, extra, faults>>

(* The transaction is sent again with a new price.  The node replaces the  *)
(* one it has, takes the new one as well, or refuses it, and then the job  *)
(* forgets both.                                                           *)
Bump(j) ==
  LET i == pending[j]
      rest == IF txs[i].st = "pool" THEN txs[i] ELSE Free IN
  /\ Takes(j) /\ txs[i].st # "mined" /\ j \in old
  /\ old' = old \ {j}
  /\ \/ \E n \in Id : \E left \in {Free, rest} :
          /\ txs[n] = Free
          /\ txs' = [txs EXCEPT ![i] = left, ![n] = [st |-> "pool", job |-> j]]
          /\ pending' = [pending EXCEPT ![j] = n]
          /\ extra' = [extra EXCEPT ![j] = IF left = Free THEN @ ELSE @ + 1]
     \/ /\ txs' = [txs EXCEPT ![i] = rest]
        /\ pending' = [pending EXCEPT ![j] = NoTx]
        /\ extra' = [extra EXCEPT ![j] = IF rest = Free THEN @ ELSE @ + 1]
  /\ extra'[j] <= MaxExtra
  /\ UNCHANGED <<chain, pc, info, seen, faults>>

-----------------------------------------------------------------------------
(* update_vaults: the details of a vault, or that they could not be read.  *)

Reads(v) == {status[v], "unknown"}

UpdateVaults ==
  /\ pc = "bump" /\ todo = {}
  /\ pc' = "start"
  /\ info' \in [Vault -> Status \cup {"unknown"}]
  /\ \A v \in Vault : info'[v] \in Reads(v)
  /\ todo' = {<<"auction", v>> : v \in Vault}
  /\ UNCHANGED <<chain, txs, seen, bot, faults>>

-----------------------------------------------------------------------------
(* start_auctions.                                                         *)

(* Mutant: a pending transaction does not keep it from sending another.    *)
WantsAuction_Always(v) == info[v] = "unsafe"

WantsAuction(v) ==
  /\ info[v] = "unsafe"
  /\ pending[<<"auction", v>>] = NoTx

(* A job's transaction is sent and remembered, unless one is already.      *)
Send(j) ==
  \E i \in Id :
    /\ NewTx(j, i)
    /\ pending' = [pending EXCEPT ![j] = IF @ = NoTx THEN i ELSE @]
    /\ old' = IF pending[j] = NoTx THEN old \ {j} ELSE old
    /\ UNCHANGED extra

StartAuction(v) ==
  LET j == <<"auction", v>> IN
  /\ pc = "start" /\ j \in todo /\ WantsAuction(v)
  /\ todo' = todo \ {j}
  /\ Send(j)
  /\ UNCHANGED <<chain, pc, info, seen, faults>>

(* It is not to be started, or the node refuses the transaction.           *)
SkipAuction(v) ==
  /\ pc = "start" /\ <<"auction", v>> \in todo
  /\ todo' = todo \ {<<"auction", v>>}
  /\ UNCHANGED <<chain, txs, pc, info, seen, bot, faults>>

-----------------------------------------------------------------------------
(* buy_opportunities.                                                      *)

(* Mutant: the bot's own clock, which is ahead, stands for the timestamp.  *)
CollectAuctions_OwnClock ==
  /\ pc = "start" /\ todo = {}
  /\ pc' = "bid"
  /\ seen' = [v \in Vault |-> IF status[v] = "auctioned" THEN elapsed[v] + 1 ELSE -1]
  /\ todo' = {<<"buy", v>> : v \in Vault}
  /\ UNCHANGED <<chain, txs, info, bot, faults>>

(* The timestamp of the newest block is read once for all bids.            *)
CollectAuctions ==
  /\ pc = "start" /\ todo = {}
  /\ pc' = "bid"
  /\ seen' = [v \in Vault |-> IF status[v] = "auctioned" THEN elapsed[v] ELSE -1]
  /\ todo' = {<<"buy", v>> : v \in Vault}
  /\ UNCHANGED <<chain, txs, info, bot, faults>>

(* current_offer, in percent; 0 if the auction started after the block.    *)
CurrentOffer(time) ==
  IF time < 0 THEN 0
  ELSE IF time >= Duration THEN 100
  ELSE ((time * (100 - Initial)) \div Duration) + Initial

(* A ratio that does not fit an u16 counts as 0.                           *)
RatioPct(r) == IF r > U16Max THEN 0 ELSE r

(* Mutant: only the ratio counts.                                          *)
WantsBid_RatioOnly(v) ==
  /\ pending[<<"buy", v>>] = NoTx
  /\ status[v] = "auctioned"
  /\ RatioPct(ratio[v]) <= MinRatio

WantsBid(v) ==
  /\ pending[<<"buy", v>>] = NoTx
  /\ status[v] = "auctioned"
  /\ RatioPct(ratio[v]) <= MinRatio \/ CurrentOffer(seen[v]) >= Target

Bid(v) ==
  LET j == <<"buy", v>> IN
  /\ pc = "bid" /\ j \in todo /\ WantsBid(v)
  /\ todo' = todo \ {j}
  /\ Send(j)
  /\ UNCHANGED <<chain, pc, info, seen, faults>>

(* Not time to buy, or no swap, no gas estimate, or the node refuses it.   *)
SkipBid(v) ==
  /\ pc = "bid" /\ <<"buy", v>> \in todo
  /\ todo' = todo \ {<<"buy", v>>}
  /\ UNCHANGED <<chain, txs, pc, info, seen, bot, faults>>

EndRound ==
  /\ pc = "bid" /\ todo = {}
  /\ pc' = "idle"
  /\ UNCHANGED <<chain, txs, todo, info, seen, bot, faults>>

(* A request of remove_or_bump, update_vaults or buy_opportunities fails,  *)
(* and with it the round.                                                  *)
RoundFails ==
  /\ faults < MaxFaults /\ faults' = faults + 1
  /\ pc = "bump" \/ (pc = "start" /\ todo = {})
  /\ pc' = "idle" /\ todo' = {}
  /\ UNCHANGED <<chain, txs, info, seen, bot>>

(* The process is started again: what is pending is not in its file.       *)
Restart ==
  /\ faults < MaxFaults /\ faults' = faults + 1
  /\ pc' = "idle" /\ todo' = {}
  /\ info' = [v \in Vault |-> "unknown"]
  /\ pending' = [j \in Job |-> NoTx] /\ old' = {}
  /\ txs' = [i \in Id |-> IF txs[i].st = "pool" THEN txs[i] ELSE Free]
  /\ extra' = [j \in Job |-> extra[j] + IF Pool(j) = {} THEN 0 ELSE 1]
  /\ \A j \in Job : extra'[j] <= MaxExtra
  /\ UNCHANGED <<chain, seen>>

-----------------------------------------------------------------------------
Follow(j) == Confirm(j) \/ TooEarly(j) \/ Bump(j)

BotStep ==
  \/ \E j \in Job : Follow(j)
  \/ \E v \in Vault : StartAuction(v) \/ SkipAuction(v) \/ Bid(v) \/ SkipBid(v)
  \/ StartRound \/ UpdateVaults \/ CollectAuctions \/ EndRound

Next ==
  \/ \E v \in Vault : OthersAct(v) \/ Elapse(v)
  \/ \E i \in Id : Mine(i) \/ Lose(i)
  \/ \E j \in Job : Age(j)
  \/ BotStep \/ RoundFails \/ Restart

Spec == Init /\ [][Next]_vars

MineFor(j) == \E i \in Pool(j) : Mine(i)

(* Rounds follow one another, time passes, a request made again and again  *)
(* is answered in the end, a transaction sent again and again is mined, and *)
(* none stays in the mempool for good.                                     *)
Fairness ==
  /\ WF_vars(BotStep)
  /\ SF_vars(UpdateVaults /\ \A v \in Vault : info'[v] = status[v])
  /\ \A v \in Vault :
       /\ WF_vars(Elapse(v))
       /\ SF_vars(StartAuction(v)) /\ SF_vars(Bid(v))
       /\ SF_vars(MineFor(<<"auction", v>>))
  /\ WF_vars(\E j \in Job : Age(j))
  /\ WF_vars(\E i \in Id : Mine(i) \/ Lose(i))

FairSpec == Spec /\ Fairness

-----------------------------------------------------------------------------
(* Properties.                                                             *)

(* Every variable has its type.                                            *)
TypeOK ==
  /\ status \in [Vault -> Status]
  /\ ratio \in [Vault -> Ratio]
  /\ elapsed \in [Vault -> 0..Duration]
  /\ txs \in [Id -> Tx]
  /\ pc \in {"idle", "bump", "start", "bid"}
  /\ todo \subseteq Job
  /\ info \in [Vault -> Status \cup {"unknown"}]
  /\ seen \in [Vault -> -1..Duration]
  /\ pending \in [Job -> Id \cup {NoTx}]
  /\ old \subseteq Job
  /\ extra \in [Job -> 0..MaxExtra]
  /\ faults \in 0..MaxFaults

(* The bot does not flood the mempool: a job has one transaction there,    *)
(* besides those a bump or a restart made it lose track of.                *)
NoFlood == \A j \in Job : Cardinality(Pool(j)) <= 1 + extra[j]

(* A transaction that is remembered is one for that very job.              *)
PendingIsOwn ==
  \A j \in Job : pending[j] # NoTx => txs[pending[j]].st # "free" /\ txs[pending[j]].job = j

(* An undercollateralized vault is put up for auction, or recovers.        *)
UnsafeIsAuctioned == \A v \in Vault : status[v] = "unsafe" ~> status[v] # "unsafe"

(* For an auction that stays open until it offers all the collateral, the  *)
(* bot has a bid in the mempool at some point.                             *)
BidIsMade ==
  \A v \in Vault : status[v] = "auctioned" ~> status[v] # "auctioned" \/ Pool(<<"buy", v>>) # {}

(* ARCHITECTURE.wsd:25-27: the bot bids for vaults that dropped below      *)
(* min_ratio, or when the auction has released the collateral.             *)
BidsAreForGoodTerms ==
  [][\A v \in Vault : Bid(v) => ratio[v] <= MinRatio \/ CurrentOffer(seen[v]) >= Target]_vars
=============================================================================
