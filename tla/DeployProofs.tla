---------------------------- MODULE DeployProofs -----------------------------
(***************************************************************************)
(* Proofs about Deploy, for any lists of entries, whatever they name and   *)
(* look up, and any number of interrupts.  The invariant says what a run   *)
(* may rely on between two writes: the address it holds is not on record   *)
(* before Record and is after it, and what a contract was built with is on *)
(* record unchanged.                                                       *)
(***************************************************************************)
EXTENDS Deploy, FiniteSetTheorems, TLAPS

Busy == {"deployed", "recorded", "listed"}
RunOK ==
  /\ run \in [pc : {"idle", "next"} \cup Busy, list : Lists \cup {<<>>}, i : Nat,
              seen : SUBSET DOMAIN files, address : Nat]
  /\ run.pc = "next" => run.list \in Lists /\ run.i \in 1..(Len(run.list) + 1)
  /\ run.pc \in Busy => run.list \in Lists /\ run.i \in 1..Len(run.list) /\ run.address \in 1..Len(code)
  /\ run.pc \in Busy => code[run.address].contract = Entry.contract
  /\ run.pc = "deployed" => Entry.key \notin DOMAIN files /\ \A k \in DOMAIN files : files[k] # run.address
  /\ run.pc \in {"recorded", "listed"} => Entry.key \in DOMAIN files /\ files[Entry.key] = run.address
  /\ run.pc = "listed" => run.address \in deployers
WithRecorded ==
  \A a \in 1..Len(code) : \A k \in DOMAIN code[a].with :
    k \in DOMAIN files /\ files[k] = code[a].with[k]
Unique ==
  \A j, k \in DOMAIN files : files[j] = files[k] /\ files[j] > 0 => j = k
Strong == RunOK /\ WithRecorded /\ Unique /\ GovernedIsKnown
IInv == TypeOK /\ Strong

-----------------------------------------------------------------------------
(* Sequences and entries.                                                  *)

LEMMA EntryIsTyped ==
  ASSUME IInv, run.pc \in {"next"} \cup Busy, run.i \in 1..Len(run.list)
  PROVE  Entry \in Entries
  <1>1. run.list \in Seq(Entries)
    BY DeployAssumption DEF IInv, Strong, RunOK, Busy
  <1> QED BY <1>1 DEF Entry

LEMMA LengthOfList ==
  ASSUME IInv
  PROVE  run.list \in Seq(Entries) /\ Len(run.list) \in Nat /\ code \in Seq({code[a] : a \in 1..Len(code)})
         /\ Len(code) \in Nat
  <1>1. run.list \in Seq(Entries)
    <2>1. run.list \in Lists \/ run.list = <<>>
      BY DEF IInv, Strong, RunOK
    <2>2. <<>> \in Seq(Entries)
      OBVIOUS
    <2> QED BY <2>1, <2>2, DeployAssumption
  <1> QED BY <1>1 DEF IInv, TypeOK

LEMMA AppendIsSeq ==
  ASSUME NEW S, NEW s \in Seq(S), NEW x
  PROVE  /\ Len(Append(s, x)) = Len(s) + 1
         /\ Append(s, x)[Len(s) + 1] = x
         /\ \A a \in 1..Len(s) : Append(s, x)[a] = s[a]
         /\ Append(s, x) \in Seq({Append(s, x)[a] : a \in 1..(Len(s) + 1)})
  <1> DEFINE t == Append(s, x)
  <1>1. s \in Seq(S \cup {x}) /\ x \in S \cup {x}
    OBVIOUS
  <1>2. t \in Seq(S \cup {x}) /\ Len(t) = Len(s) + 1 /\ t[Len(s) + 1] = x /\ \A a \in 1..Len(s) : t[a] = s[a]
    BY <1>1
  <1>3. t \in Seq({t[a] : a \in 1..Len(t)})
    BY <1>2
  <1> QED BY <1>2, <1>3

-----------------------------------------------------------------------------
(* What an action leaves alone.                                            *)

LEMMA InitHolds == ASSUME Init PROVE IInv
  <1>1. Len(code) = 0 /\ code \in Seq({code[a] : a \in 1..Len(code)}) /\ 1..Len(code) = {}
    BY DEF Init
  <1>2. TypeOK
    BY <1>1, DeployAssumption DEF Init, TypeOK, Map, Idle
  <1>3. RunOK
    BY DEF Init, RunOK, Idle, Busy
  <1>4. WithRecorded /\ Unique /\ GovernedIsKnown
    BY <1>1 DEF Init, WithRecorded, Unique, GovernedIsKnown
  <1> QED BY <1>2, <1>3, <1>4 DEF IInv, Strong

\* The files and the contracts as they were: only the run has to be looked at
LEMMA OnlyTheRun ==
  ASSUME IInv, UNCHANGED <<files, deployers, code, rooted>>, RunOK',
         done' \subseteq Lists, interrupts' \in 0..MaxInterrupts,
         run'.i \in 0..(Len(run'.list) + 1), run'.address \in 0..Len(code)
  PROVE  IInv'
  <1>1. TypeOK'
    BY DEF IInv, TypeOK, Map, Strong, RunOK, Busy
  <1>2. (WithRecorded /\ Unique /\ GovernedIsKnown)'
    BY DEF IInv, Strong, WithRecorded, Unique, GovernedIsKnown
  <1> QED BY <1>1, <1>2 DEF IInv, Strong

LEMMA StopHolds ==
  ASSUME IInv, UNCHANGED <<files, deployers, code, rooted>>, run' = Idle,
         done' \subseteq Lists, interrupts' \in 0..MaxInterrupts
  PROVE  IInv'
  <1>1. RunOK'
    BY DEF RunOK, Idle, Busy
  <1>2. run'.i \in 0..(Len(run'.list) + 1) /\ run'.address \in 0..Len(code)
    BY LengthOfList DEF Idle
  <1> QED BY <1>1, <1>2, OnlyTheRun

LEMMA StartHolds == ASSUME IInv, NEW l \in Lists, Start(l) PROVE IInv'
  <1>1. l \in Seq(Entries) /\ Len(l) \in Nat /\ Len(code) \in Nat
    BY DeployAssumption, LengthOfList
  <1>2. run' = [pc |-> "next", list |-> l, i |-> 1, seen |-> DOMAIN files, address |-> 0]
    BY DEF Start, Idle
  <1>3. RunOK'
    BY <1>1, <1>2 DEF RunOK, Busy, Start
  <1>4. done' \subseteq Lists /\ interrupts' \in 0..MaxInterrupts
    BY DEF Start, IInv, TypeOK
  <1>5. run'.i \in 0..(Len(run'.list) + 1) /\ run'.address \in 0..Len(code)
    BY <1>1, <1>2
  <1> QED BY <1>3, <1>4, <1>5, OnlyTheRun DEF Start

LEMMA ReuseHolds == ASSUME IInv, Reuse PROVE IInv'
  <1>1. /\ run.pc = "next" /\ run.i \in 1..Len(run.list) /\ run' = [run EXCEPT !.i = run.i + 1]
        /\ UNCHANGED <<files, deployers, code, rooted, done, interrupts>>
    BY DEF Reuse
  <1>2. RunOK /\ Len(run.list) \in Nat
    BY LengthOfList DEF IInv, Strong
  <1>3. RunOK'
    BY <1>1, <1>2 DEF RunOK, Busy
  <1>4. run'.i \in 0..(Len(run'.list) + 1) /\ run'.address \in 0..Len(code)
    BY <1>1, <1>2 DEF RunOK, IInv, TypeOK
  <1> QED BY <1>1, <1>3, <1>4, OnlyTheRun DEF IInv, TypeOK

LEMMA CreateHolds == ASSUME IInv, Create PROVE IInv'
  <1> DEFINE new == [contract |-> Entry.contract,
                     with |-> [k \in Entry.snap \cup Entry.args |-> files[k]]]
             n == Len(code) + 1
  <1>1. /\ run.pc = "next" /\ run.i \in 1..Len(run.list) /\ Entry.key \notin DOMAIN files
        /\ Entry.snap \subseteq run.seen /\ Entry.args \subseteq DOMAIN files
        /\ code' = Append(code, new) /\ run' = [run EXCEPT !.pc = "deployed", !.address = n]
        /\ UNCHANGED <<files, deployers, rooted, done, interrupts>>
    BY DEF Create, Resolved
  <1>2. Entry \in Entries /\ run.list \in Lists /\ Len(code) \in Nat /\ Len(run.list) \in Nat
    BY <1>1, EntryIsTyped, LengthOfList DEF IInv, Strong, RunOK, Busy
  <1>3. /\ Len(code') = n /\ code'[n] = new /\ \A a \in 1..Len(code) : code'[a] = code[a]
        /\ code' \in Seq({code'[a] : a \in 1..n})
    <2> DEFINE S == {code[a] : a \in 1..Len(code)}
    <2>1. code \in Seq(S)
      BY LengthOfList
    <2>2. /\ Len(Append(code, new)) = n /\ Append(code, new)[n] = new
          /\ \A a \in 1..Len(code) : Append(code, new)[a] = code[a]
          /\ Append(code, new) \in Seq({Append(code, new)[a] : a \in 1..n})
      <3> HIDE DEF S, new
      <3> QED BY <2>1, AppendIsSeq
    <2> QED BY <1>1, <2>2
  <1>4. Entry.snap \cup Entry.args \subseteq DOMAIN files
    BY <1>1 DEF IInv, Strong, RunOK
  <1>5. RunOK'
    <2>1. \A k \in DOMAIN files : files[k] # n
      BY <1>2 DEF IInv, TypeOK, Map
    <2>2. Entry' = Entry /\ run'.i = run.i /\ run'.list = run.list /\ run'.pc = "deployed" /\ run'.address = n
      BY <1>1 DEF Entry, IInv, Strong, RunOK
    <2>3. run' \in [pc : {"idle", "next"} \cup Busy, list : Lists \cup {<<>>}, i : Nat,
                    seen : SUBSET DOMAIN files, address : Nat]
      <3>1. run \in [pc : {"idle", "next"} \cup Busy, list : Lists \cup {<<>>}, i : Nat,
                      seen : SUBSET DOMAIN files, address : Nat]
        BY DEF IInv, Strong, RunOK
      <3>2. n \in Nat
        BY <1>2
      <3> QED BY <1>1, <3>1, <3>2 DEF Busy
    <2>4. run'.address \in 1..Len(code') /\ run'.i \in 1..Len(run'.list) /\ run'.list \in Lists
      BY <1>1, <1>2, <1>3, <2>2
    <2>5. Entry'.key \notin DOMAIN files' /\ \A k \in DOMAIN files' : files'[k] # run'.address
      BY <1>1, <2>1, <2>2
    <2>6. code'[run'.address].contract = Entry'.contract
      BY <1>3, <2>2
    <2> QED BY <1>1, <2>2, <2>3, <2>4, <2>5, <2>6 DEF RunOK, Busy
  <1>6. TypeOK'
    <2> DEFINE w == [k \in Entry.snap \cup Entry.args |-> files[k]]
    <2>1. DOMAIN w \subseteq Keys /\ w \in [DOMAIN w -> 0..n]
      BY <1>2, <1>4 DEF IInv, TypeOK, Map
    <2>5. Map(files)'
      <3>1. DOMAIN files \subseteq Keys /\ files \in [DOMAIN files -> 0..Len(code)]
        BY DEF IInv, TypeOK, Map
      <3>2. files \in [DOMAIN files -> 0..n]
        BY <1>2, <3>1
      <3> QED BY <1>1, <1>3, <3>1, <3>2 DEF Map
    <2>2. \A a \in 1..n : code'[a].contract \in Contracts /\ Map(code[a].with)'
      <3> TAKE a \in 1..n
      <3>1. CASE a = n
        <4>1. code'[a].contract = Entry.contract /\ code'[a].with = w
          BY <1>3, <3>1
        <4>2. Map(code[a].with)'
          BY <1>3, <2>1, <4>1 DEF Map
        <4> QED BY <1>2, <4>1, <4>2 DEF Entries
      <3>2. CASE a # n
        <4>1. a \in 1..Len(code) /\ code'[a] = code[a]
          BY <1>2, <1>3, <3>2
        <4>2. /\ code[a].contract \in Contracts
              /\ DOMAIN code[a].with \subseteq Keys /\ code[a].with \in [DOMAIN code[a].with -> 0..Len(code)]
          BY <4>1 DEF IInv, TypeOK, Map
        <4>3. code[a].with \in [DOMAIN code[a].with -> 0..n]
          BY <1>2, <4>2
        <4> QED BY <1>3, <4>1, <4>2, <4>3 DEF Map
      <3> QED BY <3>1, <3>2
    <2>3. run'.i \in 0..(Len(run'.list) + 1) /\ run'.list \in Lists /\ run'.address \in 0..n
      BY <1>1, <1>2, <1>3, <1>5 DEF RunOK, Busy
    <2>4. deployers' \subseteq 0..n /\ rooted' \subseteq 0..n /\ run'.seen \subseteq DOMAIN files'
      BY <1>1, <1>2 DEF IInv, TypeOK, Strong, RunOK
    <2>6. code' \in Seq({code'[a] : a \in 1..Len(code')})
      BY <1>3
    <2>7. run'.pc = "deployed" /\ done' \subseteq Lists /\ interrupts' \in 0..MaxInterrupts
      BY <1>1 DEF IInv, TypeOK, Strong, RunOK
    <2> QED BY <1>3, <2>5, <2>2, <2>3, <2>4, <2>6, <2>7 DEF TypeOK
  <1>7. WithRecorded'
    BY <1>1, <1>2, <1>3, <1>4 DEF IInv, Strong, WithRecorded
  <1>8. Unique' /\ GovernedIsKnown'
    BY <1>1 DEF IInv, Strong, Unique, GovernedIsKnown
  <1> QED BY <1>5, <1>6, <1>7, <1>8 DEF IInv, Strong

LEMMA RecordHolds == ASSUME IInv, Record PROVE IInv' /\ \A k \in DOMAIN files : k \in DOMAIN files' /\ files'[k] = files[k]
  <1>1. /\ run.pc = "deployed" /\ files' = [k \in DOMAIN files \cup {Entry.key} |->
                                              IF k = Entry.key THEN run.address ELSE files[k]]
        /\ run' = [run EXCEPT !.pc = "recorded"]
        /\ UNCHANGED <<deployers, code, rooted, done, interrupts>>
    BY DEF Record, writeAddressMap
  <1>2. /\ run.list \in Lists /\ run.i \in 1..Len(run.list) /\ run.address \in 1..Len(code)
        /\ Entry.key \notin DOMAIN files /\ \A k \in DOMAIN files : files[k] # run.address
    BY <1>1 DEF IInv, Strong, RunOK, Busy
  <1>3. Entry \in Entries /\ Entry' = Entry /\ Len(code) \in Nat /\ Len(run.list) \in Nat
    BY <1>1, <1>2, EntryIsTyped, LengthOfList DEF Busy, Entry, IInv, Strong, RunOK
  <1>4. \A k \in DOMAIN files : k \in DOMAIN files' /\ files'[k] = files[k]
    BY <1>1, <1>2
  <1>5. Entry.key \in DOMAIN files' /\ files'[Entry.key] = run.address /\ DOMAIN files' = DOMAIN files \cup {Entry.key}
    BY <1>1
  <1>6. RunOK'
    BY <1>1, <1>2, <1>3, <1>5 DEF IInv, Strong, RunOK, Busy
  <1>7. TypeOK'
    <2>1. Map(files)'
      BY <1>1, <1>2, <1>3 DEF IInv, TypeOK, Map, Entries
    <2>2. \A a \in 1..Len(code) : Map(code[a].with)'
      BY <1>1 DEF IInv, TypeOK, Map
    <2> QED BY <1>1, <1>2, <1>5, <1>6, <2>1, <2>2 DEF IInv, TypeOK, RunOK
  <1>8. WithRecorded'
    BY <1>1, <1>4 DEF IInv, Strong, WithRecorded
  <1>9. Unique'
    BY <1>1, <1>2, <1>4, <1>5 DEF IInv, Strong, Unique
  <1>10. GovernedIsKnown'
    BY <1>1, <1>4 DEF IInv, Strong, GovernedIsKnown
  <1> QED BY <1>4, <1>6, <1>7, <1>8, <1>9, <1>10 DEF IInv, Strong

LEMMA RecordDeployerHolds == ASSUME IInv, RecordDeployer PROVE IInv'
  <1>1. /\ run.pc = "recorded" /\ deployers' = deployers \cup {run.address}
        /\ run' = [run EXCEPT !.pc = "listed"] /\ UNCHANGED <<files, code, rooted, done, interrupts>>
    BY DEF RecordDeployer
  <1>2. RunOK' /\ Entry' = Entry
    BY <1>1 DEF IInv, Strong, RunOK, Busy, Entry
  <1>3. TypeOK'
    <2>1. Len(code) \in Nat /\ run.address \in 1..Len(code)
      BY <1>1, LengthOfList DEF IInv, Strong, RunOK, Busy
    <2> QED BY <1>1, <1>2, <2>1 DEF IInv, TypeOK, Map, Strong, RunOK
  <1>4. (WithRecorded /\ Unique /\ GovernedIsKnown)'
    BY <1>1 DEF IInv, Strong, WithRecorded, Unique, GovernedIsKnown
  <1> QED BY <1>2, <1>3, <1>4 DEF IInv, Strong

LEMMA GrantRootHolds == ASSUME IInv, GrantRoot PROVE IInv'
  <1>1. /\ run.pc = "listed" /\ rooted' \subseteq rooted \cup {run.address}
        /\ run' = [run EXCEPT !.pc = "next", !.i = run.i + 1]
        /\ UNCHANGED <<files, deployers, code, done, interrupts>>
    BY DEF GrantRoot
  <1>2. /\ run.list \in Lists /\ run.i \in 1..Len(run.list) /\ run.address \in 1..Len(code)
        /\ Entry.key \in DOMAIN files /\ files[Entry.key] = run.address /\ run.address \in deployers
    BY <1>1 DEF IInv, Strong, RunOK, Busy
  <1>3. Len(code) \in Nat /\ Len(run.list) \in Nat
    BY LengthOfList
  <1>4. RunOK'
    <2>1. run' \in [pc : {"idle", "next"} \cup Busy, list : Lists \cup {<<>>}, i : Nat,
                    seen : SUBSET DOMAIN files, address : Nat]
      <3>1. run \in [pc : {"idle", "next"} \cup Busy, list : Lists \cup {<<>>}, i : Nat,
                      seen : SUBSET DOMAIN files, address : Nat]
        BY DEF IInv, Strong, RunOK
      <3>2. run.i + 1 \in Nat
        BY <1>2
      <3> QED BY <1>1, <3>1, <3>2
    <2>2. run'.pc = "next" /\ run'.list \in Lists /\ run'.i \in 1..(Len(run'.list) + 1)
      BY <1>1, <1>2, <1>3 DEF IInv, Strong, RunOK
    <2> QED BY <1>1, <2>1, <2>2 DEF RunOK, Busy
  <1>5. TypeOK'
    <2>1. run'.i \in 0..(Len(run'.list) + 1) /\ run'.list \in Lists /\ run'.address \in 0..Len(code)
          /\ run'.seen \subseteq DOMAIN files /\ run'.pc = "next"
      BY <1>1, <1>2, <1>3 DEF IInv, Strong, RunOK
    <2>2. rooted' \subseteq 0..Len(code)
      BY <1>1, <1>2, <1>3 DEF IInv, TypeOK
    <2> QED BY <1>1, <2>1, <2>2 DEF IInv, TypeOK, Map
  <1>6. (WithRecorded /\ Unique)' /\ GovernedIsKnown'
    BY <1>1, <1>2 DEF IInv, Strong, WithRecorded, Unique, GovernedIsKnown
  <1> QED BY <1>4, <1>5, <1>6 DEF IInv, Strong

LEMMA FinishHolds == ASSUME IInv, Finish PROVE IInv'
  <1>1. run.list \in Lists /\ done' = done \cup {run.list}
    BY DEF Finish, IInv, Strong, RunOK
  <1>2. done' \subseteq Lists /\ interrupts' \in 0..MaxInterrupts
    BY <1>1 DEF Finish, IInv, TypeOK
  <1> QED BY <1>2, StopHolds DEF Finish

LEMMA InterruptHolds == ASSUME IInv, Interrupt PROVE IInv'
  <1>1. done' \subseteq Lists /\ interrupts' \in 0..MaxInterrupts
    BY DeployAssumption DEF Interrupt, IInv, TypeOK
  <1> QED BY <1>1, StopHolds DEF Interrupt

LEMMA NextHolds == ASSUME IInv, [Next]_vars PROVE IInv'
  <1>1. CASE \E l \in Lists : Start(l)
    BY <1>1, StartHolds
  <1>2. CASE Unresolved
    BY <1>2, StopHolds DEF Unresolved, IInv, TypeOK
  <1>3. CASE Reuse \/ Create \/ Record \/ RecordDeployer \/ GrantRoot \/ Finish \/ Interrupt
    BY <1>3, ReuseHolds, CreateHolds, RecordHolds, RecordDeployerHolds, GrantRootHolds, FinishHolds, InterruptHolds
  <1>4. CASE UNCHANGED vars
    BY <1>4 DEF vars, IInv, TypeOK, Map, Strong, RunOK, Busy, Entry, WithRecorded, Unique, GovernedIsKnown
  <1> QED BY <1>1, <1>2, <1>3, <1>4 DEF Next

\* The inductive invariant: what is on record and what the run works on agree
THEOREM DeployInvariant == Spec => []IInv
  BY InitHolds, NextHolds, PTL DEF Spec

-----------------------------------------------------------------------------
\* Deploy!TypeOK: the files, the deployers and the contracts keep their types
THEOREM DeployTypeCorrect == Spec => []TypeOK
  <1>1. IInv => TypeOK
    BY DEF IInv
  <1> QED BY <1>1, DeployInvariant, PTL

\* Deploy!GovernedIsKnown: what the Timelock governs is on record, with its deployer
THEOREM DeployGovernedIsKnown == Spec => []GovernedIsKnown
  <1>1. IInv => GovernedIsKnown
    BY DEF IInv, Strong
  <1> QED BY <1>1, DeployInvariant, PTL

\* Deploy!BuiltOnRecorded: the arguments of a recorded contract are on record still
THEOREM DeployBuiltOnRecorded == Spec => []BuiltOnRecorded
  <1>1. ASSUME IInv PROVE BuiltOnRecorded
    <2> SUFFICES ASSUME NEW k \in DOMAIN files, files[k] > 0
                 PROVE  /\ \A a \in DOMAIN code[files[k]].with :
                             a \in DOMAIN files /\ code[files[k]].with[a] = files[a]
                        /\ \A j \in DOMAIN files : files[j] = files[k] => j = k
      BY DEF BuiltOnRecorded
    <2>1. files[k] \in 1..Len(code)
      BY <1>1, LengthOfList DEF IInv, TypeOK, Map
    <2> QED BY <1>1, <2>1 DEF IInv, Strong, WithRecorded, Unique
  <1> QED BY <1>1, DeployInvariant, PTL

\* Deploy!RecordedForGood: no step of the script, interrupted or not, changes or
\* forgets an address that was recorded
THEOREM DeployRecordedForGood == Spec => RecordedForGood
  <1> DEFINE Kept == \A k \in DOMAIN files : k \in DOMAIN files' /\ files'[k] = files[k]
  <1>1. ASSUME IInv, [Next]_vars PROVE Kept
    <2>1. CASE Record
      BY <1>1, <2>1, RecordHolds
    <2>2. CASE ~Record
      <3>1. files' = files
        BY <1>1, <2>2 DEF Next, vars, Start, Reuse, Create, Unresolved, RecordDeployer, GrantRoot, Finish, Interrupt
      <3> QED BY <3>1
    <2> QED BY <2>1, <2>2
  <1>2. IInv /\ [Next]_vars => [Kept]_vars
    BY <1>1
  <1> QED BY <1>2, DeployInvariant, PTL DEF Spec, RecordedForGood

(* What is left behind.  The contract at hand becomes one of them only when *)
(* the run is interrupted: if it goes on, it finishes it.                  *)
Counted == Cardinality(LeftBehind) <= interrupts

LEMMA LeftIsFinite ==
  ASSUME IInv
  PROVE  IsFiniteSet(LeftBehind) /\ Cardinality(LeftBehind) \in Nat /\ interrupts \in Nat
  <1>1. IsFiniteSet(1..Len(code))
    BY LengthOfList, FS_Interval
  <1>2. IsFiniteSet(LeftBehind)
    BY <1>1, FS_Subset DEF LeftBehind
  <1> QED BY <1>2, FS_CardinalityType DEF IInv, TypeOK

\* Fewer are left behind, and as many runs were interrupted
LEMMA FewerCount ==
  ASSUME IInv, Counted, LeftBehind' \subseteq LeftBehind, interrupts' = interrupts
  PROVE  Counted'
  <1>1. Cardinality(LeftBehind') <= Cardinality(LeftBehind) /\ Cardinality(LeftBehind') \in Nat
    BY LeftIsFinite, FS_Subset, FS_CardinalityType
  <1> QED BY <1>1, LeftIsFinite DEF Counted

LEMMA RunIs ==
  ASSUME IInv
  PROVE  /\ run \in [pc : {"idle", "next"} \cup Busy, list : Lists \cup {<<>>}, i : Nat,
                      seen : SUBSET DOMAIN files, address : Nat]
         /\ AtHand = IF run.pc \in Busy THEN {run.address} ELSE {}
  BY DEF IInv, Strong, RunOK, AtHand, Busy

LEMMA CreateCounts == ASSUME IInv, Counted, Create PROVE Counted'
  <1> DEFINE n == Len(code) + 1
  <1>1. Len(code) \in Nat /\ code \in Seq({code[a] : a \in 1..Len(code)})
    BY LengthOfList
  <1>2. /\ run.pc = "next" /\ run'.pc = "deployed" /\ run'.address = n
        /\ Len(code') = n /\ \A a \in 1..Len(code) : code'[a] = code[a]
        /\ UNCHANGED <<files, deployers, rooted, interrupts>>
    BY <1>1, RunIs, AppendIsSeq DEF Create
  <1>3. AtHand = {} /\ AtHand' = {n}
    BY <1>2 DEF AtHand
  <1>4. LeftBehind' \subseteq LeftBehind
    BY <1>1, <1>2, <1>3 DEF LeftBehind, Finished
  <1> QED BY <1>2, <1>4, FewerCount

LEMMA RecordsCount == ASSUME IInv, Counted, Record \/ RecordDeployer PROVE Counted'
  <1>1. /\ run'.pc \in Busy /\ run.pc \in Busy /\ run'.address = run.address
        /\ UNCHANGED <<code, rooted, interrupts>> /\ deployers \subseteq deployers'
    BY RunIs DEF Record, RecordDeployer, Busy
  <1>2. \A k \in DOMAIN files : k \in DOMAIN files' /\ files'[k] = files[k]
    BY RecordHolds DEF RecordDeployer
  <1>3. AtHand' = AtHand
    BY <1>1 DEF AtHand, Busy
  <1>4. LeftBehind' \subseteq LeftBehind
    BY <1>1, <1>2, <1>3 DEF LeftBehind, Finished
  <1> QED BY <1>1, <1>4, FewerCount

LEMMA GrantRootCounts == ASSUME IInv, Counted, GrantRoot PROVE Counted'
  <1>1. /\ run.pc = "listed" /\ run'.pc = "next" /\ UNCHANGED <<files, deployers, code, interrupts>>
        /\ rooted \subseteq rooted' /\ (Entry.contract \in Ownerless \/ run.address \in rooted')
    BY RunIs DEF GrantRoot
  <1>2. /\ Entry.key \in DOMAIN files /\ files[Entry.key] = run.address /\ run.address \in deployers
        /\ code[run.address].contract = Entry.contract
    BY <1>1 DEF IInv, Strong, RunOK, Busy
  <1> PICK n : n = run.address
    OBVIOUS
  <1>3. Finished(n)'
    BY <1>1, <1>2 DEF Finished
  <1>4. AtHand = {n} /\ AtHand' = {}
    BY <1>1 DEF AtHand
  <1>5. ASSUME NEW a \in LeftBehind' PROVE a \in LeftBehind
    <2>1. a \in 1..Len(code) /\ ~Finished(a)'
      BY <1>1, <1>5 DEF LeftBehind
    <2>2. a # n
      BY <1>3, <2>1
    <2>3. ~Finished(a)
      BY <1>1, <2>1 DEF Finished
    <2> QED BY <1>4, <2>1, <2>2, <2>3 DEF LeftBehind
  <1> QED BY <1>1, <1>5, FewerCount

LEMMA InterruptCounts == ASSUME IInv, Counted, Interrupt PROVE Counted'
  <1>1. interrupts' = interrupts + 1 /\ run'.pc = "idle" /\ UNCHANGED <<files, deployers, code, rooted>>
    BY DEF Interrupt, Idle
  <1>2. LeftBehind' \subseteq LeftBehind \cup {run.address}
    BY <1>1 DEF LeftBehind, Finished, AtHand
  <1>3. /\ IsFiniteSet(LeftBehind \cup {run.address})
        /\ Cardinality(LeftBehind \cup {run.address}) \in {Cardinality(LeftBehind), Cardinality(LeftBehind) + 1}
    BY LeftIsFinite, FS_AddElement
  <1>4. Cardinality(LeftBehind') <= Cardinality(LeftBehind \cup {run.address}) /\ Cardinality(LeftBehind') \in Nat
    BY <1>2, <1>3, FS_Subset, FS_CardinalityType
  <1> QED BY <1>1, <1>3, <1>4, LeftIsFinite DEF Counted

\* Deploy!LeftByInterrupts: each contract without its record, its deployer or the
\* Timelock's ROOT was at hand when a run was interrupted
THEOREM DeployLeftByInterrupts == Spec => []LeftByInterrupts
  <1>1. Init => Counted
    <2> SUFFICES ASSUME Init PROVE Counted
      OBVIOUS
    <2>1. LeftBehind = {} /\ interrupts = 0
      BY DEF Init, LeftBehind
    <2> QED BY <2>1, FS_EmptySet DEF Counted
  <1>2. ASSUME IInv, Counted, [Next]_vars PROVE Counted'
    <2>1. CASE \E l \in Lists : Start(l)
      <3>1. AtHand = {} /\ AtHand' = {} /\ UNCHANGED <<files, deployers, code, rooted, interrupts>>
        BY <2>1 DEF Start, Idle, AtHand
      <3> QED BY <1>2, <3>1, FewerCount DEF LeftBehind, Finished
    <2>2. CASE Unresolved \/ Finish
      <3>1. AtHand = {} /\ AtHand' = {} /\ UNCHANGED <<files, deployers, code, rooted, interrupts>>
        BY <2>2 DEF Unresolved, Finish, Idle, AtHand
      <3> QED BY <1>2, <3>1, FewerCount DEF LeftBehind, Finished
    <2>3. CASE Reuse
      <3>1. AtHand = {} /\ AtHand' = {} /\ UNCHANGED <<files, deployers, code, rooted, interrupts>>
        BY <1>2, <2>3, RunIs DEF Reuse, AtHand
      <3> QED BY <1>2, <3>1, FewerCount DEF LeftBehind, Finished
    <2>4. CASE Create \/ Record \/ RecordDeployer \/ GrantRoot \/ Interrupt
      BY <1>2, <2>4, CreateCounts, RecordsCount, GrantRootCounts, InterruptCounts
    <2>5. CASE UNCHANGED vars
      <3>1. LeftBehind' = LeftBehind /\ interrupts' = interrupts
        BY <2>5 DEF vars, LeftBehind, Finished, AtHand
      <3> QED BY <1>2, <3>1 DEF Counted
    <2> QED BY <1>2, <2>1, <2>2, <2>3, <2>4, <2>5 DEF Next
  <1>3. Counted => LeftByInterrupts
    BY DEF Counted, LeftByInterrupts
  <1> QED BY <1>1, <1>2, <1>3, DeployInvariant, PTL DEF Spec

\* The files are sound: the three parts together (RecordIsSound).
THEOREM DeployRecordIsSound == Spec => []RecordIsSound
  <1>1. BuiltOnRecorded /\ GovernedIsKnown /\ LeftByInterrupts => RecordIsSound
    BY DEF RecordIsSound
  <1> QED BY <1>1, DeployBuiltOnRecorded, DeployGovernedIsKnown, DeployLeftByInterrupts, PTL
=============================================================================
