------------------------------- MODULE Deploy --------------------------------
(***************************************************************************)
(* shared/deploy.ts: the contracts of a configuration file are deployed    *)
(* one after the other, unless the address files know them already, and    *)
(* their addresses are recorded.  The script may be interrupted anywhere   *)
(* and is then run again: what it finds in the files decides what it does. *)
(*                                                                         *)
(* A key is <<address file, name>>.  An entry of contractDeployments is a  *)
(* record: key, contract, and the keys it looks up                         *)
(*   libs  when the configuration is imported,                             *)
(*   snap  when it is deployed, in maps read when it was imported,         *)
(*   args  when it is deployed, in the files as they are then.             *)
(***************************************************************************)
EXTENDS Integers, Sequences, FiniteSets

CONSTANTS
  Keys,          \* the keys of the address files
  Contracts,     \* the contracts that can be deployed
  Ownerless,     \* those that do not inherit AccessControl
  Known,         \* the keys recorded from the start
  Lists,         \* the contractDeployments that are run
  MaxInterrupts  \* bound on the runs that are interrupted

Entries == [key : Keys, contract : Contracts,
            libs : SUBSET Keys, snap : SUBSET Keys, args : SUBSET Keys]

ASSUME DeployAssumption ==
  /\ Lists \subseteq Seq(Entries)
  /\ Known \subseteq Keys
  /\ MaxInterrupts \in Nat

VARIABLES
  files,      \* the address files: from keys to addresses
  deployers,  \* deployers.json: the addresses whose deployer is recorded
  code,       \* the contracts deployed, their address being their position
  rooted,     \* the addresses on which the Timelock holds ROOT
  run,        \* the run of the script: pc, list, i, seen (keys at import), address
  done,       \* the lists that a run has gone through
  interrupts  \* how many runs were interrupted

vars == <<files, deployers, code, rooted, run, done, interrupts>>

Idle == [pc |-> "idle", list |-> <<>>, i |-> 0, seen |-> {}, address |-> 0]
Entry == run.list[run.i]

\* The contracts known from the start have the address 0: they were deployed
\* and handed over by earlier runs.
Init ==
  /\ files = [k \in Known |-> 0]
  /\ deployers = {0}
  /\ code = <<>>
  /\ rooted = {0}
  /\ run = Idle
  /\ done = {}
  /\ interrupts = 0

\* The configuration is imported: getOrThrow of a library throws there.
Start(l) ==
  /\ run.pc = "idle"
  /\ \A i \in 1..Len(l) : l[i].libs \subseteq DOMAIN files
  /\ run' = [Idle EXCEPT !.pc = "next", !.list = l, !.i = 1, !.seen = DOMAIN files]
  /\ UNCHANGED <<files, deployers, code, rooted, done, interrupts>>

\* Mutants: an entry is passed over with the one reused; a name that is taken
\* is an error
Reuse_two ==
  /\ run.pc = "next" /\ run.i \in 1..Len(run.list) /\ Entry.key \in DOMAIN files
  /\ run' = [run EXCEPT !.i = @ + 2]
  /\ UNCHANGED <<files, deployers, code, rooted, done, interrupts>>
Reuse_throws ==
  /\ run.pc = "next" /\ run.i \in 1..Len(run.list) /\ Entry.key \in DOMAIN files
  /\ run' = Idle
  /\ UNCHANGED <<files, deployers, code, rooted, done, interrupts>>
\* The name is in the address file: the contract is reused.
Reuse ==
  /\ run.pc = "next" /\ run.i \in 1..Len(run.list)
  /\ Entry.key \in DOMAIN files
  /\ run' = [run EXCEPT !.i = @ + 1]
  /\ UNCHANGED <<files, deployers, code, rooted, done, interrupts>>

\* The arguments are looked up, and the contract is deployed with them.
Resolved == Entry.snap \subseteq run.seen /\ Entry.args \subseteq DOMAIN files
Create ==
  /\ run.pc = "next" /\ run.i \in 1..Len(run.list)
  /\ Entry.key \notin DOMAIN files
  /\ Resolved
  /\ code' = Append(code, [contract |-> Entry.contract,
                           with |-> [k \in Entry.snap \cup Entry.args |-> files[k]]])
  /\ run' = [run EXCEPT !.pc = "deployed", !.address = Len(code) + 1]
  /\ UNCHANGED <<files, deployers, rooted, done, interrupts>>
\* getOrThrow throws: the run is over.
Unresolved ==
  /\ run.pc = "next" /\ run.i \in 1..Len(run.list)
  /\ Entry.key \notin DOMAIN files
  /\ ~Resolved
  /\ run' = Idle
  /\ UNCHANGED <<files, deployers, code, rooted, done, interrupts>>

\* Mutant: the file is written with the new address only
writeAddressMap_only(key, address) == [k \in {key} |-> address]
\* writeAddressMap: the file is read again and written with the new address
writeAddressMap(key, address) ==
  [k \in DOMAIN files \cup {key} |-> IF k = key THEN address ELSE files[k]]

\* Mutant: the deployer is not recorded
Record_nodeployer ==
  /\ run.pc = "deployed"
  /\ files' = writeAddressMap(Entry.key, run.address)
  /\ run' = [run EXCEPT !.pc = "listed"]
  /\ UNCHANGED <<deployers, code, rooted, done, interrupts>>
Record ==
  /\ run.pc = "deployed"
  /\ files' = writeAddressMap(Entry.key, run.address)
  /\ run' = [run EXCEPT !.pc = "recorded"]
  /\ UNCHANGED <<deployers, code, rooted, done, interrupts>>

\* writeAddressMap('deployers.json', ...)
RecordDeployer ==
  /\ run.pc = "recorded"
  /\ deployers' = deployers \cup {run.address}
  /\ run' = [run EXCEPT !.pc = "listed"]
  /\ UNCHANGED <<files, code, rooted, done, interrupts>>

\* ROOT goes to the Timelock, if the contract knows roles.
GrantRoot ==
  /\ run.pc = "listed"
  /\ rooted' = IF Entry.contract \in Ownerless THEN rooted ELSE rooted \cup {run.address}
  /\ run' = [run EXCEPT !.pc = "next", !.i = @ + 1]
  /\ UNCHANGED <<files, deployers, code, done, interrupts>>

Finish ==
  /\ run.pc = "next" /\ run.i > Len(run.list)
  /\ done' = done \cup {run.list}
  /\ run' = Idle
  /\ UNCHANGED <<files, deployers, code, rooted, interrupts>>

\* The process, the node or the network fails.
Interrupt ==
  /\ run.pc # "idle" /\ interrupts < MaxInterrupts
  /\ interrupts' = interrupts + 1
  /\ run' = Idle
  /\ UNCHANGED <<files, deployers, code, rooted, done>>

Next ==
  \/ \E l \in Lists : Start(l)
  \/ Reuse \/ Create \/ Unresolved \/ Record \/ RecordDeployer \/ GrantRoot \/ Finish
  \/ Interrupt

Spec == Init /\ [][Next]_vars
\* A run goes on, and the team gets around to every list that is not through;
\* only so many runs are interrupted.
Work == Reuse \/ Create \/ Unresolved \/ Record \/ RecordDeployer \/ GrantRoot \/ Finish
FairSpec == Spec /\ WF_vars(Work) /\ \A l \in Lists : SF_vars(l \notin done /\ Start(l))
-----------------------------------------------------------------------------
\* Partial functions from the keys to the addresses in use
Map(f) == DOMAIN f \subseteq Keys /\ f \in [DOMAIN f -> 0..Len(code)]
TypeOK ==
  /\ Map(files)
  /\ deployers \subseteq 0..Len(code) /\ rooted \subseteq 0..Len(code)
  /\ code \in Seq({code[a] : a \in 1..Len(code)})
  /\ \A a \in 1..Len(code) : code[a].contract \in Contracts /\ Map(code[a].with)
  /\ run.pc \in {"idle", "next", "deployed", "recorded", "listed"}
  /\ run.list \in Lists \cup {<<>>} /\ run.i \in 0..(Len(run.list) + 1)
  /\ run.seen \subseteq DOMAIN files /\ run.address \in 0..Len(code)
  /\ done \subseteq Lists /\ interrupts \in 0..MaxInterrupts

\* An address that was recorded stays, whatever is interrupted and run again:
\* the proposals and the arguments of later contracts rely on it.
RecordedForGood ==
  [][\A k \in DOMAIN files : k \in DOMAIN files' /\ files'[k] = files[k]]_vars

\* A recorded contract was built with the addresses that the files still give
\* for its arguments, and no address is recorded under two names.
BuiltOnRecorded ==
  \A k \in DOMAIN files : files[k] > 0 =>
    /\ \A a \in DOMAIN code[files[k]].with : a \in DOMAIN files /\ code[files[k]].with[a] = files[a]
    /\ \A j \in DOMAIN files : files[j] = files[k] => j = k

\* The Timelock governs no contract that the files of addresses and deployers
\* do not have: the script that hands it over needs both.
GovernedIsKnown ==
  \A a \in rooted : a \in deployers /\ (a > 0 => \E k \in DOMAIN files : files[k] = a)

\* A contract is finished when it is on record, as its deployer is, and the Timelock
\* governs it, if it knows roles.  A run that stops may leave the contract that it has
\* at hand half done, at any of three places, and the next run, that only asks whether
\* the name is on record (Reuse), does not finish it: it deploys it again, or uses it
\* as it is.  No other contract is ever left so.
AtHand == IF run.pc \in {"deployed", "recorded", "listed"} THEN {run.address} ELSE {}
Finished(a) ==
  /\ \E k \in DOMAIN files : files[k] = a
  /\ a \in deployers
  /\ a \in rooted \/ code[a].contract \in Ownerless
LeftBehind == {a \in 1..Len(code) \ AtHand : ~Finished(a)}
LeftByInterrupts == Cardinality(LeftBehind) <= interrupts

\* The files of addresses are the only memory from one run to the next.  What is on
\* record was built with what is on record, under one name; the Timelock governs
\* nothing that the files do not know; and each contract that lacks a record, its
\* deployer or the Timelock's ROOT is one that an interrupted run had at hand.
RecordIsSound == BuiltOnRecorded /\ GovernedIsKnown /\ LeftByInterrupts

\* Every list is gone through in the end, since a run takes up what the last one
\* left: no list needs what it only makes later, or what the files never had.
AllListsDone == \A l \in Lists : <>(l \in done)
=============================================================================
