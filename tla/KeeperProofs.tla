---------------------------- MODULE KeeperProofs ----------------------------
(***************************************************************************)
(* Proofs about Keeper, for every set of vaults, batch size, start block   *)
(* and bound.  What the properties lack to be inductive is what the round  *)
(* in progress has already made sure of: after UpdateVaults the vaults are *)
(* complete up to `to`, after CollectAuctions so are the auctions it still *)
(* has to look at together with those it looked at.                        *)
(***************************************************************************)
EXTENDS Keeper, TLAPS

(* Events are in blocks that exist, and so is what was processed, except   *)
(* that nothing is where the bot was told to start in the future.          *)
BlocksExist ==
  /\ \A e \in log : e.block <= head
  /\ to <= head
  /\ lastBlock <= head \/ lastBlock = First
  /\ disk.lastBlock <= head

(* What the round in progress knows of the blocks before `to`.             *)
VaultsUpdated ==
  pc \in {"auctions", "bid"} =>
    \A v \in Vault, b \in First..(to - 1) : PouredIn(v, b) => v \in vaults

AuctionsCollected ==
  pc = "bid" =>
    \A v \in Vault, b \in First..(to - 1) : OpenSince(v, b) => v \in todo \cup auctions

IInv ==
  /\ TypeOK
  /\ BlocksExist
  /\ NothingSkipped
  /\ FileIsComplete
  /\ VaultsUpdated
  /\ AuctionsCollected

LEMMA FirstType == First \in Nat
BY StartAssumption DEF First

-----------------------------------------------------------------------------
(* The ranges asked for cover every block from `from` to before `end`, for *)
(* every batch size: block b is in the batch of number (b - from) \div     *)
(* Batch.                                                                  *)
LEMMA BatchesCover ==
  ASSUME NEW from \in Nat, NEW end \in Nat, NEW b \in from..(end - 1)
  PROVE  b \in Covered(from, end)
<1> DEFINE step == StepSize(from, end)
<1>1. CASE Batch = NoBatch
  <2>1. step = end - from + 1
    BY <1>1 DEF StepSize
  <2>2. 0 \in 0..(end - from) /\ from + 0 * step = from
    BY <2>1
  <2> QED BY <2>1, <2>2 DEF Covered
<1>2. CASE Batch # NoBatch
  <2>1. Batch \in Nat \ {0} /\ step = Batch
    BY <1>2, BatchAssumption DEF StepSize
  <2> DEFINE k == (b - from) \div Batch
  <2>2. k \in Nat /\ k * Batch <= b - from /\ b - from < k * Batch + Batch
    BY <2>1
  <2>3. k <= b - from
    BY <2>1, <2>2
  <2>4. k \in 0..(end - from)
    BY <2>2, <2>3
  <2>5. /\ from + k * Batch < end
        /\ from + k * Batch <= b
        /\ b <= from + k * Batch + Batch - 1
    BY <2>1, <2>2
  <2>6. b \in from..(end + step)
    BY <2>1
  <2> HIDE DEF k
  <2> QED BY <2>1, <2>4, <2>5, <2>6 DEF Covered
<1> QED BY <1>1, <1>2

(* So whatever was emitted between last_block and `to` is found.           *)
LEMMA EventsAreFound ==
  ASSUME TypeOK, NEW v \in Vault, NEW b \in lastBlock..(to - 1), NEW kind,
         [kind |-> kind, vault |-> v, block |-> b] \in log
  PROVE  v \in Found(kind)
<1>1. b \in Covered(lastBlock, to)
  BY BatchesCover DEF TypeOK
<1> QED BY <1>1 DEF Found

(* A block that is mined adds nothing to the blocks before it: it has no   *)
(* event there, and an auction it opens is open since then.                *)
LEMMA BlockKeepsPast ==
  ASSUME TypeOK, BlocksExist, NewBlock, NEW v \in Vault, NEW b \in Nat, b <= head
  PROVE  /\ PouredIn(v, b)' => PouredIn(v, b)
         /\ OpenSince(v, b)' => OpenSince(v, b)
<1>1. head' = head + 1 /\ head \in Nat
  BY DEF NewBlock, TypeOK
<1>2. \A e \in log' : e \in log \/ e.block = head + 1
  BY <1>1 DEF NewBlock
<1>3. \A kind : LET e == [kind |-> kind, vault |-> v, block |-> b] IN e \in log' => e \in log
  BY <1>1, <1>2
<1>4. log \subseteq log'
  BY DEF NewBlock
<1>5. PouredIn(v, b)' => PouredIn(v, b)
  BY <1>3 DEF PouredIn
<1>6. ASSUME OpenSince(v, b)' PROVE OpenSince(v, b)
  <2>1. /\ auction'[v] = "open"
        /\ [kind |-> "auctioned", vault |-> v, block |-> b] \in log
        /\ \A later \in (b + 1)..(head + 1) :
             [kind |-> "auctioned", vault |-> v, block |-> later] \notin log'
    BY <1>1, <1>3, <1>6 DEF OpenSince, AuctionedIn
  <2>2. head + 1 \in (b + 1)..(head + 1)
    BY <1>1
  <2>3. [kind |-> "auctioned", vault |-> v, block |-> head + 1] \notin log'
    BY <2>1, <2>2
  <2>4. auction[v] = "open"
    BY <1>1, <2>1, <2>3 DEF NewBlock, TypeOK
  <2>5. \A later \in (b + 1)..head :
          [kind |-> "auctioned", vault |-> v, block |-> later] \notin log
    BY <1>1, <1>4, <2>1
  <2> QED BY <2>1, <2>4, <2>5 DEF OpenSince, AuctionedIn
<1> QED BY <1>5, <1>6

-----------------------------------------------------------------------------
(* One lemma per action, or group of actions that do the same.             *)

LEMMA InitInv == Init => IInv
<1> SUFFICES ASSUME Init PROVE IInv
  OBVIOUS
<1> USE DEF Init, Default
<1>1. TypeOK
  BY DEF TypeOK, AuctionState
<1>2. BlocksExist
  BY DEF BlocksExist
<1>3. \A v \in Vault, b \in Nat : ~PouredIn(v, b) /\ ~OpenSince(v, b)
  BY DEF PouredIn, OpenSince
<1>4. FileIsComplete
  BY <1>3, FirstType DEF FileIsComplete, Complete
<1> QED BY <1>1, <1>2, <1>4 DEF IInv, NothingSkipped, VaultsUpdated, AuctionsCollected

LEMMA NewBlockKeepsInv ==
  ASSUME IInv, NewBlock
  PROVE  IInv'
<1> USE DEF IInv
<1>1. /\ UNCHANGED <<pc, scan, round, disk, crashes>>
      /\ head' = head + 1
      /\ head \in Nat
  BY DEF NewBlock, TypeOK
<1>2. /\ UNCHANGED <<lastBlock, vaults, auctions, prev, to, toLog, failures, todo>>
  BY <1>1 DEF scan, round
<1>3. log' \subseteq Event /\ auction' \in [Vault -> AuctionState]
  <2>1. auction \in [Vault -> AuctionState] /\ log \subseteq Event
    BY DEF TypeOK
  <2>2. \A v \in Vault, kind \in {"poured", "auctioned"} :
          [kind |-> kind, vault |-> v, block |-> head'] \in Event
    BY <1>1 DEF Event
  <2> QED BY <2>1, <2>2 DEF NewBlock, AuctionState
<1>4. TypeOK'
  BY <1>1, <1>2, <1>3 DEF TypeOK
<1>5. BlocksExist'
  <2>1. \A e \in log' : e \in log \/ e.block = head + 1
    BY <1>1 DEF NewBlock
  <2>2. \A e \in log' : e.block <= head + 1
    BY <1>1, <2>1 DEF BlocksExist, TypeOK, Event
  <2>3. to <= head + 1 /\ (lastBlock <= head + 1 \/ lastBlock = First) /\ disk.lastBlock <= head + 1
    <3>1. disk.lastBlock \in Nat /\ to \in Nat /\ lastBlock \in Nat
      BY DEF TypeOK
    <3> QED BY <1>1, <3>1 DEF BlocksExist
  <2> QED BY <1>1, <1>2, <2>2, <2>3 DEF BlocksExist, First
<1>6. \A v \in Vault, b \in Nat :
        b <= head => /\ PouredIn(v, b)' => PouredIn(v, b)
                     /\ OpenSince(v, b)' => OpenSince(v, b)
  BY BlockKeepsPast
<1>7. \A b \in First..(lastBlock - 1) : b \in Nat /\ b <= head
  BY <1>1, FirstType DEF BlocksExist, TypeOK
<1>8. NothingSkipped'
  BY <1>1, <1>2, <1>6, <1>7 DEF NothingSkipped, Complete, First
<1>9. \A b \in First..(disk.lastBlock - 1) : b \in Nat /\ b <= head
  <2>1. disk.lastBlock \in Nat
    BY DEF TypeOK
  <2> QED BY <1>1, <2>1, FirstType DEF BlocksExist
<1>10. FileIsComplete'
  BY <1>1, <1>6, <1>9 DEF FileIsComplete, Complete, First
<1>11. \A b \in First..(to - 1) : b \in Nat /\ b <= head
  BY <1>1, FirstType DEF BlocksExist, TypeOK
<1>12. VaultsUpdated' /\ AuctionsCollected'
  BY <1>1, <1>2, <1>6, <1>11 DEF VaultsUpdated, AuctionsCollected, First
<1> QED BY <1>4, <1>5, <1>8, <1>10, <1>12

(* The bot does not move the chain.                                        *)
LEMMA ChainStays ==
  ASSUME UNCHANGED chain
  PROVE  /\ \A v \in Vault, b \in Nat : PouredIn(v, b)' = PouredIn(v, b)
         /\ \A v \in Vault, b \in Nat : OpenSince(v, b)' = OpenSince(v, b)
         /\ head' = head /\ log' = log /\ auction' = auction
BY DEF chain, PouredIn, OpenSince, AuctionedIn

LEMMA PollKeepsInv ==
  ASSUME IInv, NEW n \in Nat, n <= head, Poll(n)
  PROVE  IInv'
<1> USE DEF IInv, Poll
<1>1. /\ UNCHANGED chain
      /\ UNCHANGED <<lastBlock, vaults, auctions, failures, todo, disk, crashes>>
      /\ pc = "poll" /\ pc' = "vaults"
      /\ prev' = n /\ to' = n
  BY DEF scan
<1>2. toLog' \in BOOLEAN
  BY Zenon DEF TypeOK
<1>3. TypeOK'
  BY <1>1, <1>2, ChainStays DEF TypeOK
<1>4. BlocksExist'
  BY <1>1, ChainStays DEF BlocksExist, First
<1>5. NothingSkipped' /\ FileIsComplete'
  BY <1>1, ChainStays, FirstType DEF NothingSkipped, FileIsComplete, Complete, First
<1>6. VaultsUpdated' /\ AuctionsCollected'
  BY <1>1 DEF VaultsUpdated, AuctionsCollected
<1> QED BY <1>3, <1>4, <1>5, <1>6

(* The events below last_block are known already, those from there on are  *)
(* found.                                                                  *)
LEMMA UpdateVaultsKeepsInv ==
  ASSUME IInv, UpdateVaults
  PROVE  IInv'
<1> USE DEF IInv, UpdateVaults
<1>1. /\ UNCHANGED chain
      /\ UNCHANGED <<lastBlock, auctions, prev, to, toLog, failures, todo, disk, crashes>>
      /\ pc = "vaults" /\ pc' = "auctions"
      /\ vaults' = vaults \cup Found("poured")
  BY DEF round
<1>2. TypeOK'
  BY <1>1, ChainStays DEF TypeOK, Found
<1>3. BlocksExist'
  BY <1>1, ChainStays DEF BlocksExist, First
<1>4. NothingSkipped' /\ FileIsComplete'
  BY <1>1, ChainStays, FirstType DEF NothingSkipped, FileIsComplete, Complete, First
<1>5. VaultsUpdated'
  <2>1. ASSUME NEW v \in Vault, NEW b \in First..(to - 1), PouredIn(v, b)
        PROVE  v \in vaults'
    <3>1. CASE b < lastBlock
      <4>1. b \in First..(lastBlock - 1)
        BY <3>1, FirstType DEF TypeOK
      <4> QED BY <1>1, <2>1, <4>1 DEF NothingSkipped, Complete
    <3>2. CASE b >= lastBlock
      <4>1. b \in lastBlock..(to - 1)
        BY <3>2, FirstType DEF TypeOK
      <4> QED BY <1>1, <2>1, <4>1, EventsAreFound DEF PouredIn
    <3> QED BY <3>1, <3>2, FirstType DEF TypeOK
  <2> QED BY <1>1, <2>1, ChainStays, FirstType DEF VaultsUpdated, First
<1>6. AuctionsCollected'
  BY <1>1 DEF AuctionsCollected
<1> QED BY <1>2, <1>3, <1>4, <1>5, <1>6

LEMMA CollectAuctionsKeepsInv ==
  ASSUME IInv, CollectAuctions
  PROVE  IInv'
<1> USE DEF IInv, CollectAuctions
<1>1. /\ UNCHANGED chain
      /\ UNCHANGED <<lastBlock, vaults, auctions, prev, to, toLog, failures, disk, crashes>>
      /\ pc = "auctions" /\ pc' = "bid"
      /\ todo' = Found("auctioned") \cup auctions
  BY DEF scan
<1>2. TypeOK'
  BY <1>1, ChainStays DEF TypeOK, Found
<1>3. BlocksExist'
  BY <1>1, ChainStays DEF BlocksExist, First
<1>4. NothingSkipped' /\ FileIsComplete'
  BY <1>1, ChainStays, FirstType DEF NothingSkipped, FileIsComplete, Complete, First
<1>5. VaultsUpdated'
  BY <1>1, ChainStays, FirstType DEF VaultsUpdated, First
<1>6. AuctionsCollected'
  <2>1. ASSUME NEW v \in Vault, NEW b \in First..(to - 1), OpenSince(v, b)
        PROVE  v \in todo'
    <3>1. CASE b < lastBlock
      <4>1. b \in First..(lastBlock - 1)
        BY <3>1, FirstType DEF TypeOK
      <4> QED BY <1>1, <2>1, <4>1 DEF NothingSkipped, Complete
    <3>2. CASE b >= lastBlock
      <4>1. b \in lastBlock..(to - 1)
        BY <3>2, FirstType DEF TypeOK
      <4> QED BY <1>1, <2>1, <4>1, EventsAreFound DEF OpenSince, AuctionedIn
    <3> QED BY <3>1, <3>2, FirstType DEF TypeOK
  <2> QED BY <1>1, <2>1, ChainStays, FirstType DEF AuctionsCollected, First
<1> QED BY <1>2, <1>3, <1>4, <1>5, <1>6

(* Only an auction that is not open is forgotten.                          *)
LEMMA BidKeepsInv ==
  ASSUME IInv, NEW v \in Vault, Bid(v)
  PROVE  IInv'
<1> USE DEF IInv, Bid
<1>1. /\ UNCHANGED chain
      /\ UNCHANGED <<pc, lastBlock, vaults, prev, to, toLog, failures, disk, crashes>>
      /\ pc = "bid"
      /\ todo' = todo \ {v}
      /\ \/ auctions' = auctions \cup {v}
         \/ auction[v] # "open" /\ auctions' = auctions \ {v}
  OBVIOUS
<1>2. TypeOK'
  BY <1>1, ChainStays DEF TypeOK
<1>3. BlocksExist'
  BY <1>1, ChainStays DEF BlocksExist, First
<1>4. \A w \in Vault, b \in Nat : OpenSince(w, b) /\ w \in auctions => w \in auctions'
  BY <1>1 DEF OpenSince
<1>5. \A w \in Vault, b \in Nat :
        OpenSince(w, b) /\ w \in todo \cup auctions => w \in todo' \cup auctions'
  BY <1>1 DEF OpenSince
<1>6. NothingSkipped' /\ FileIsComplete'
  BY <1>1, <1>4, ChainStays, FirstType DEF NothingSkipped, FileIsComplete, Complete, First
<1>7. VaultsUpdated' /\ AuctionsCollected'
  BY <1>1, <1>5, ChainStays, FirstType DEF VaultsUpdated, AuctionsCollected, First
<1> QED BY <1>2, <1>3, <1>6, <1>7

(* Nothing is left to look at, so what the round made sure of holds of the *)
(* new last_block, in memory and in the file.                              *)
LEMMA FinishBlockKeepsInv ==
  ASSUME IInv, FinishBlock
  PROVE  IInv'
<1> USE DEF IInv, FinishBlock, Finish
<1> DEFINE saved == [lastBlock |-> to, vaults |-> vaults, auctions |-> auctions]
<1>1. /\ UNCHANGED chain
      /\ UNCHANGED <<vaults, auctions, prev, to, todo, crashes>>
      /\ pc = "bid" /\ pc' = "poll" /\ todo = {}
      /\ lastBlock' = to /\ failures' = 0 /\ toLog' = FALSE
      /\ disk' = disk \/ disk' = saved \/ disk' = Default
  OBVIOUS
<1>2. saved \in [lastBlock: Nat, vaults: SUBSET Vault, auctions: SUBSET Vault]
  BY DEF TypeOK
<1>3. Default \in [lastBlock: Nat, vaults: SUBSET Vault, auctions: SUBSET Vault]
  BY DEF Default
<1>4. TypeOK'
  <2>1. disk' \in [lastBlock: Nat, vaults: SUBSET Vault, auctions: SUBSET Vault]
    <3> HIDE DEF saved
    <3> QED BY <1>1, <1>2, <1>3 DEF TypeOK
  <2>2. toLog' \in BOOLEAN
    BY <1>1, Zenon
  <2>3. /\ lastBlock' \in Nat /\ failures' \in Nat
        /\ pc' \in {"down", "poll", "vaults", "auctions", "bid"}
    BY <1>1 DEF TypeOK
  <2> QED BY <1>1, <2>1, <2>2, <2>3, ChainStays DEF TypeOK
<1>5. BlocksExist'
  <2>1. saved.lastBlock <= head /\ Default.lastBlock <= head
    BY DEF BlocksExist, Default, TypeOK
  <2> HIDE DEF saved
  <2> QED BY <1>1, <2>1, ChainStays DEF BlocksExist, First
<1>6. Complete(to, vaults, auctions)
  BY <1>1 DEF Complete, VaultsUpdated, AuctionsCollected
<1>7. NothingSkipped'
  BY <1>1, <1>6, ChainStays, FirstType DEF NothingSkipped, Complete, First
<1>8. FileIsComplete'
  <2>1. CASE disk' = disk
    BY <1>1, <2>1, ChainStays, FirstType DEF FileIsComplete, Complete, First
  <2>2. CASE disk' = saved
    BY <1>1, <1>6, <2>2, ChainStays, FirstType DEF FileIsComplete, Complete, First
  <2>3. CASE disk' = Default
    BY <2>3, FirstType DEF FileIsComplete, Complete, First, Default
  <2> QED BY <1>1, <2>1, <2>2, <2>3
<1>9. VaultsUpdated' /\ AuctionsCollected'
  BY <1>1 DEF VaultsUpdated, AuctionsCollected
<1> QED BY <1>4, <1>5, <1>7, <1>8, <1>9

(* The process ends, whatever happens to the file.                         *)
LEMMA DownKeepsInv ==
  ASSUME IInv, Down, UNCHANGED chain, disk' \in {disk, Default},
         crashes' \in {crashes, crashes + 1}
  PROVE  IInv'
<1> USE DEF IInv, Down
<1>1. TypeOK'
  <2>1. Default \in [lastBlock: Nat, vaults: SUBSET Vault, auctions: SUBSET Vault]
    BY DEF Default
  <2>2. disk' \in [lastBlock: Nat, vaults: SUBSET Vault, auctions: SUBSET Vault]
    BY <2>1 DEF TypeOK
  <2>3. toLog' \in BOOLEAN
    BY Zenon
  <2>4. /\ lastBlock' \in Nat /\ to' \in Nat /\ failures' \in Nat
        /\ pc' \in {"down", "poll", "vaults", "auctions", "bid"}
        /\ prev' \in Nat \cup {NoBlock} /\ crashes' \in Nat
        /\ vaults' \subseteq Vault /\ auctions' \subseteq Vault /\ todo' \subseteq Vault
    BY DEF TypeOK
  <2> QED BY <2>2, <2>3, <2>4, ChainStays DEF TypeOK
<1>2. BlocksExist'
  BY ChainStays DEF BlocksExist, Default, TypeOK, First
<1>3. FileIsComplete'
  <2>1. CASE disk' = disk
    BY <2>1, ChainStays, FirstType DEF FileIsComplete, Complete, First
  <2>2. CASE disk' = Default
    BY <2>2, FirstType DEF FileIsComplete, Complete, First, Default
  <2> QED BY <2>1, <2>2
<1>4. NothingSkipped' /\ VaultsUpdated' /\ AuctionsCollected'
  BY DEF NothingSkipped, VaultsUpdated, AuctionsCollected
<1> QED BY <1>1, <1>2, <1>3, <1>4

LEMMA RequestFailsKeepsInv ==
  ASSUME IInv, RequestFails
  PROVE  IInv'
<1>1. CASE failures + 1 >= MaxFailures
  BY <1>1, DownKeepsInv DEF RequestFails
<1>2. CASE ~(failures + 1 >= MaxFailures)
  <2> USE DEF IInv
  <2>1. /\ UNCHANGED chain
        /\ UNCHANGED <<lastBlock, vaults, auctions, to, toLog, todo, disk, crashes>>
        /\ prev' = NoBlock /\ failures' = failures + 1
        /\ pc \in {"vaults", "auctions"} /\ pc' = "poll"
    BY <1>2 DEF RequestFails, scan
  <2>2. TypeOK'
    BY <2>1, ChainStays DEF TypeOK
  <2>3. BlocksExist'
    BY <2>1, ChainStays DEF BlocksExist, First
  <2>4. NothingSkipped' /\ FileIsComplete'
    BY <2>1, ChainStays, FirstType DEF NothingSkipped, FileIsComplete, Complete, First
  <2>5. VaultsUpdated' /\ AuctionsCollected'
    BY <2>1 DEF VaultsUpdated, AuctionsCollected
  <2> QED BY <2>2, <2>3, <2>4, <2>5
<1> QED BY <1>1, <1>2

(* A bot that starts from the file believes no more than the file says; if *)
(* it is told where to start, it believes nothing.                         *)
LEMMA RestartKeepsInv ==
  ASSUME IInv, Restart
  PROVE  IInv'
<1> USE DEF IInv, Restart
<1>1. /\ UNCHANGED chain
      /\ UNCHANGED <<prev, to, toLog, failures, todo, disk, crashes>>
      /\ pc' = "poll"
      /\ vaults' = disk.vaults /\ auctions' = disk.auctions
      /\ \/ lastBlock' = disk.lastBlock
         \/ lastBlock' = First
  BY DEF round, First
<1>2. /\ disk.lastBlock \in Nat
      /\ disk.vaults \subseteq Vault
      /\ disk.auctions \subseteq Vault
  BY DEF TypeOK
<1>3. TypeOK'
  BY <1>1, <1>2, ChainStays, FirstType DEF TypeOK
<1>4. BlocksExist'
  BY <1>1, ChainStays DEF BlocksExist, First
<1>5. FileIsComplete'
  BY <1>1, ChainStays, FirstType DEF FileIsComplete, Complete, First
<1>6. NothingSkipped'
  <2>1. CASE lastBlock' = disk.lastBlock
    BY <1>1, <2>1, ChainStays, FirstType DEF NothingSkipped, FileIsComplete, Complete, First
  <2>2. CASE lastBlock' = First
    <3>1. First..(First - 1) = {}
      BY FirstType
    <3> QED BY <2>2, <3>1 DEF NothingSkipped, Complete, First
  <2> QED BY <1>1, <2>1, <2>2
<1>7. VaultsUpdated' /\ AuctionsCollected'
  BY <1>1 DEF VaultsUpdated, AuctionsCollected
<1> QED BY <1>3, <1>4, <1>5, <1>6, <1>7

-----------------------------------------------------------------------------
(* The next-state relation, and the theorems.                              *)

LEMMA StepKeepsInv == IInv /\ [Next]_vars => IInv'
<1> SUFFICES ASSUME IInv, [Next]_vars PROVE IInv'
  OBVIOUS
<1>1. CASE NewBlock
  BY <1>1, NewBlockKeepsInv
<1>2. CASE PollAny
  <2>1. PICK n \in {head, head - 1} : n >= 0 /\ Poll(n)
    BY <1>2 DEF PollAny
  <2>2. n \in Nat /\ n <= head
    BY <2>1 DEF IInv, TypeOK
  <2> QED BY <2>1, <2>2, PollKeepsInv
<1>3. CASE UpdateVaults
  BY <1>3, UpdateVaultsKeepsInv
<1>4. CASE CollectAuctions
  BY <1>4, CollectAuctionsKeepsInv
<1>5. ASSUME NEW v \in Vault, Bid(v) PROVE IInv'
  BY <1>5, BidKeepsInv
<1>6. CASE FinishBlock
  BY <1>6, FinishBlockKeepsInv
<1>7. CASE RequestFails
  BY <1>7, RequestFailsKeepsInv
<1>8. CASE Panic \/ Crash
  BY <1>8, DownKeepsInv DEF Panic, Crash
<1>9. CASE Restart
  BY <1>9, RestartKeepsInv
<1>10. CASE UNCHANGED vars
  <2> USE <1>10 DEF IInv, vars, chain, scan, round
  <2>1. TypeOK' /\ BlocksExist'
    BY DEF TypeOK, BlocksExist, First
  <2>2. NothingSkipped' /\ FileIsComplete' /\ VaultsUpdated' /\ AuctionsCollected'
    BY ChainStays, FirstType
       DEF NothingSkipped, FileIsComplete, VaultsUpdated, AuctionsCollected, Complete, First
  <2> QED BY <2>1, <2>2
<1> QED BY <1>1, <1>2, <1>3, <1>4, <1>5, <1>6, <1>7, <1>8, <1>9, <1>10 DEF Next

THEOREM InductiveInvariant == Spec => []IInv
<1>1. Init => IInv
  BY InitInv
<1>2. IInv /\ [Next]_vars => IInv'
  BY StepKeepsInv
<1> QED BY <1>1, <1>2, PTL DEF Spec

(* Every variable of the bot and of the chain keeps its type, last_block   *)
(* and the file included.                                                  *)
THEOREM KeeperTypeCorrect == Spec => []TypeOK
BY InductiveInvariant, PTL DEF IInv

(* keeper.rs:287-313: on_block loses no event, whatever fails in it, with  *)
(* any blocks_per_batch and start_block, through any number of restarts.   *)
THEOREM KeeperSkipsNothing == Spec => []NothingSkipped
BY InductiveInvariant, PTL DEF IInv

(* keeper.rs:315-325: what log writes is complete up to the last_block it  *)
(* writes, and stays so while the chain moves on without the bot.          *)
THEOREM KeeperFileIsComplete == Spec => []FileIsComplete
BY InductiveInvariant, PTL DEF IInv
=============================================================================
