------------------------------- MODULE Keeper -------------------------------
(***************************************************************************)
(* The loop of the liquidation bot, src/modules/liquidator/src/keeper.rs:  *)
(* it polls the chain for blocks, scans the VaultPoured and Auctioned      *)
(* events since the last block it processed, keeps the vaults and auctions *)
(* it found, and now and then writes them to a file it reads when it is    *)
(* started again.                                                          *)
(*                                                                         *)
(* The chain moves between any two of its steps, the node may be a block   *)
(* behind, every request may fail, and the process may die anywhere.  What *)
(* it sends to the chain is the subject of module Liquidator.              *)
(***************************************************************************)
EXTENDS Integers, FiniteSets

CONSTANTS
  Vault,        \* the vaults on the whitelist, or all of them without one
  NoBatch,      \* blocks_per_batch is not given
  Batch,        \* blocks_per_batch
  NoStart,      \* start_block is not given
  StartBlock,   \* start_block
  NoBlock,      \* no block has been seen
  LogEvery,     \* the state is written for blocks that are a multiple of it
  MaxFailures,  \* failures in a row at which the loop gives up
  MaxBlock,     \* bound: the chain stops there
  MaxCrashes    \* bound: how often the process is killed

ASSUME BatchAssumption == Batch = NoBatch \/ Batch \in Nat \ {0}
ASSUME NoBatchAssumption == NoBatch \notin Nat
ASSUME StartAssumption == NoStart \notin Nat /\ StartBlock \in Nat \cup {NoStart}
ASSUME NoBlockAssumption == NoBlock \notin Nat
ASSUME BoundAssumption ==
  LogEvery \in Nat \ {0} /\ MaxFailures \in Nat \ {0} /\ MaxBlock \in Nat /\ MaxCrashes \in Nat

VARIABLES
  head,        \* the newest block
  log,         \* the events of the chain
  auction,     \* vault -> what the Witch knows of it
  pc,          \* where the loop is
  lastBlock,   \* self.last_block
  prev,        \* maybe_last_block_number
  to,          \* the block that is being processed
  toLog,       \* there is an open file to write the state to
  failures,    \* failures_in_row
  vaults,      \* self.borrowers.vaults
  auctions,    \* self.liquidator.auctions
  todo,        \* the auctions this round has still to look at
  disk,        \* the file
  crashes      \* how often the process has been killed

chain == <<head, log, auction>>
scan == <<lastBlock, vaults, auctions>>
round == <<prev, to, toLog, failures, todo>>
vars == <<chain, pc, scan, round, disk, crashes>>

Event == [kind: {"poured", "auctioned"}, vault: Vault, block: Nat]

(* Not on auction; on auction; on auction for less than the bot cares for. *)
AuctionState == {"none", "open", "dust"}

(* What a file that cannot be read stands for, and one that is not there.  *)
Default == [lastBlock |-> 0, vaults |-> {}, auctions |-> {}]

Init ==
  /\ head = 0 /\ log = {} /\ auction = [v \in Vault |-> "none"]
  /\ pc = "down" /\ disk = Default /\ crashes = 0
  /\ lastBlock = 0 /\ vaults = {} /\ auctions = {}
  /\ prev = NoBlock /\ to = 0 /\ toLog = FALSE /\ failures = 0 /\ todo = {}

-----------------------------------------------------------------------------
(* The chain: at most one event in a block.                                *)

NewBlock ==
  /\ head < MaxBlock
  /\ head' = head + 1
  /\ \/ UNCHANGED <<log, auction>>
     \/ \E v \in Vault :
          \/ /\ log' = log \cup {[kind |-> "poured", vault |-> v, block |-> head']}
             /\ UNCHANGED auction
          \/ /\ auction[v] = "none"
             /\ log' = log \cup {[kind |-> "auctioned", vault |-> v, block |-> head']}
             /\ auction' = [auction EXCEPT ![v] = "open"]
          \/ /\ auction[v] # "none"
             /\ auction' = [auction EXCEPT ![v] = "none"]
             /\ UNCHANGED log
          \/ /\ auction[v] = "open"
             /\ auction' = [auction EXCEPT ![v] = "dust"]
             /\ UNCHANGED log
  /\ UNCHANGED <<pc, scan, round, disk, crashes>>

-----------------------------------------------------------------------------
(* The scan.                                                               *)

(* eth_getLogs is asked for [s, s + step - 1], for every s from `from` on  *)
(* in steps of `step` that is below `end`.                                 *)
StepSize(from, end) == IF Batch = NoBatch THEN end - from + 1 ELSE Batch

(* Mutant: a batch ends where the next one starts, less one too many.      *)
Covered_Short(from, end) ==
  {b \in from..(end + StepSize(from, end)) :
     \E k \in 0..(end - from) :
       LET s == from + k * StepSize(from, end) IN
       s < end /\ s <= b /\ b < s + StepSize(from, end) - 1}

Covered(from, end) ==
  {b \in from..(end + StepSize(from, end)) :
     \E k \in 0..(end - from) :
       LET s == from + k * StepSize(from, end) IN
       s < end /\ s <= b /\ b <= s + StepSize(from, end) - 1}

Found(kind) ==
  {v \in Vault : \E b \in Covered(lastBlock, to) :
     [kind |-> kind, vault |-> v, block |-> b] \in log}

(* step_by(0): without batches, when the node answers with the block right *)
(* before the last one that was processed (`to - from + 1` wraps to 0).    *)
StepIsZero == Batch = NoBatch /\ to = lastBlock - 1

(* A block number that was not seen in the round before.                   *)
Poll(n) ==
  /\ pc = "poll" /\ n # prev
  /\ prev' = n
  /\ to' = n
  /\ toLog' = (toLog \/ n % LogEvery = 0)
  /\ pc' = "vaults"
  /\ UNCHANGED <<chain, scan, failures, todo, disk, crashes>>

(* update_vaults: the vaults of the new events join those it knows.        *)
UpdateVaults ==
  /\ pc = "vaults" /\ ~StepIsZero
  /\ vaults' = vaults \cup Found("poured")
  /\ pc' = "auctions"
  /\ UNCHANGED <<chain, lastBlock, auctions, round, disk, crashes>>

(* buy_opportunities collects the auctions it will look at...              *)
CollectAuctions ==
  /\ pc = "auctions"
  /\ todo' = Found("auctioned") \cup auctions
  /\ pc' = "bid"
  /\ UNCHANGED <<chain, scan, prev, to, toLog, failures, disk, crashes>>

(* Mutant: any auction whose details are not as expected is forgotten.     *)
Bid_DropsAny(v) ==
  /\ pc = "bid" /\ v \in todo
  /\ todo' = todo \ {v}
  /\ auctions' \in {auctions \cup {v}, auctions \ {v}}
  /\ UNCHANGED <<chain, pc, lastBlock, vaults, prev, to, toLog, failures, disk, crashes>>

(* ...and looks at them one by one.  One that is over, or not worth it, is *)
(* forgotten; not if its details could not be read or a bid is pending.    *)
Bid(v) ==
  /\ pc = "bid" /\ v \in todo
  /\ todo' = todo \ {v}
  /\ \/ auctions' = auctions \cup {v}
     \/ auction[v] # "open" /\ auctions' = auctions \ {v}
  /\ UNCHANGED <<chain, pc, lastBlock, vaults, prev, to, toLog, failures, disk, crashes>>

(* The round is done at block n, which becomes last_block.  The file is    *)
(* not truncated: a text shorter than the one before leaves its tail       *)
(* behind, and what is there cannot be read.                               *)
Finish(n) ==
  /\ pc = "bid" /\ todo = {}
  /\ lastBlock' = n
  /\ failures' = 0
  /\ pc' = "poll" /\ toLog' = FALSE
  /\ \/ ~toLog /\ UNCHANGED disk
     \/ toLog /\ disk' \in {[lastBlock |-> n, vaults |-> vaults, auctions |-> auctions], Default}
  /\ UNCHANGED <<chain, vaults, auctions, prev, to, todo, crashes>>

(* Mutants: the block that is newest by now, or the one before.            *)
FinishBlock_Newest == Finish(head)
FinishBlock_OneLess == Finish(to - 1)

FinishBlock == Finish(to)

(* What the process leaves when it ends: the file.                         *)
Down ==
  /\ pc' = "down"
  /\ lastBlock' = 0 /\ vaults' = {} /\ auctions' = {}
  /\ prev' = NoBlock /\ to' = 0 /\ toLog' = FALSE /\ failures' = 0 /\ todo' = {}

(* A request of on_block fails: what was found so far is kept, the block   *)
(* is tried again, and the loop ends after too many failures in a row.     *)
RequestFails ==
  /\ pc \in {"vaults", "auctions"}
  /\ IF failures + 1 >= MaxFailures
     THEN Down
     ELSE /\ prev' = NoBlock
          /\ failures' = failures + 1
          /\ pc' = "poll"
          /\ UNCHANGED <<scan, to, toLog, todo>>
  /\ UNCHANGED <<chain, disk, crashes>>

Panic ==
  /\ pc = "vaults" /\ StepIsZero
  /\ Down
  /\ UNCHANGED <<chain, disk, crashes>>

(* Killed, a panic, or an error that ends the loop; the file may be lost   *)
(* with the container, or cut short while it is written.                   *)
Crash ==
  /\ pc # "down" /\ crashes < MaxCrashes
  /\ crashes' = crashes + 1
  /\ Down
  /\ disk' \in {disk, Default}
  /\ UNCHANGED chain

Restart ==
  /\ pc = "down"
  /\ pc' = "poll"
  /\ vaults' = disk.vaults
  /\ auctions' = disk.auctions
  /\ lastBlock' = IF StartBlock = NoStart THEN disk.lastBlock ELSE StartBlock
  /\ UNCHANGED <<chain, round, disk, crashes>>

(* The node that answers may not have the newest block yet.                *)
PollAny == \E n \in {head, head - 1} : n >= 0 /\ Poll(n)

Next ==
  \/ NewBlock \/ PollAny \/ UpdateVaults \/ CollectAuctions
  \/ \E v \in Vault : Bid(v)
  \/ FinishBlock \/ RequestFails \/ Panic \/ Crash \/ Restart

Spec == Init /\ [][Next]_vars

(* Blocks are mined, the process is started again, and a request that is   *)
(* made again and again is answered in the end, by a node that is up to    *)
(* date.  A bid needs no answer: a failure is a result like any other.     *)
Fairness ==
  /\ WF_vars(NewBlock) /\ WF_vars(Restart)
  /\ SF_vars(Poll(head)) /\ SF_vars(UpdateVaults) /\ SF_vars(CollectAuctions)
  /\ \A v \in Vault : WF_vars(Bid(v))
  /\ WF_vars(FinishBlock) /\ WF_vars(Panic)

FairSpec == Spec /\ Fairness

-----------------------------------------------------------------------------
(* Properties.                                                             *)

(* Every variable has its type.                                            *)
TypeOK ==
  /\ head \in Nat
  /\ log \subseteq Event
  /\ auction \in [Vault -> AuctionState]
  /\ pc \in {"down", "poll", "vaults", "auctions", "bid"}
  /\ lastBlock \in Nat
  /\ prev \in Nat \cup {NoBlock}
  /\ to \in Nat
  /\ toLog \in BOOLEAN
  /\ failures \in Nat
  /\ vaults \subseteq Vault
  /\ auctions \subseteq Vault
  /\ todo \subseteq Vault
  /\ disk \in [lastBlock: Nat, vaults: SUBSET Vault, auctions: SUBSET Vault]
  /\ crashes \in Nat

(* Where the bot was told to start.                                        *)
First == IF StartBlock = NoStart THEN 0 ELSE StartBlock

PouredIn(v, b) == [kind |-> "poured", vault |-> v, block |-> b] \in log
AuctionedIn(v, b) == [kind |-> "auctioned", vault |-> v, block |-> b] \in log

(* The auction that is open for v is the one that started in block b.      *)
OpenSince(v, b) ==
  /\ auction[v] = "open" /\ AuctionedIn(v, b)
  /\ \A later \in (b + 1)..head : ~AuctionedIn(v, later)

(* A scan up to `last` that found the vaults vs and holds the auctions as. *)
Complete(last, vs, as) ==
  \A v \in Vault, b \in First..(last - 1) :
    /\ PouredIn(v, b) => v \in vs
    /\ OpenSince(v, b) => v \in as

(* No event below last_block was skipped: every vault poured there is      *)
(* monitored, and every auction started there and still open is, through   *)
(* failed requests, batches, nodes that are behind and restarts.           *)
NothingSkipped == pc # "down" => Complete(lastBlock, vaults, auctions)

(* The file, if it can be read, says no more than was scanned: a bot that  *)
(* starts from it skips nothing either.                                    *)
FileIsComplete == Complete(disk.lastBlock, disk.vaults, disk.auctions)

(* An auction that started before the newest block, and not before         *)
(* start_block, is in the end looked at by the bot, or over or too small.  *)
AuctionsAreWatched ==
  \A v \in Vault, b \in First..(MaxBlock - 1) :
    OpenSince(v, b) ~> v \in auctions \/ auction[v] # "open"
=============================================================================
