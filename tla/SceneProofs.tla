----------------------------- MODULE SceneProofs -----------------------------
(***************************************************************************)
(* Proofs about the scenes: what the parties of a scene choose is chosen   *)
(* once, by those who may.                                                 *)
(***************************************************************************)
EXTENDS Scenes, Recursion, FiniteSetTheorems, SequenceTheorems, TLAPS

-----------------------------------------------------------------------------
(* Facts about finite sets.                                                *)

\* A finite set of integers that has an element has a greatest one.
LEMMA GreatestElement ==
    ASSUME NEW S \in SUBSET Int, IsFiniteSet(S), S # {}
    PROVE  \E x \in S : \A y \in S : x >= y
<1> DEFINE above(x) == {y \in S : y > x}
           sizes == {Cardinality(above(x)) : x \in S}
<1>1. \A x \in S : IsFiniteSet(above(x)) /\ Cardinality(above(x)) \in Nat
  <2> SUFFICES ASSUME NEW x \in S PROVE IsFiniteSet(above(x)) /\ Cardinality(above(x)) \in Nat
    OBVIOUS
  <2>1. above(x) \in SUBSET S
    OBVIOUS
  <2> HIDE DEF above
  <2> QED
    BY <2>1, FS_Subset, FS_CardinalityType
<1>2. \E n \in sizes : \A m \in sizes : n <= m
  <2>1. sizes \in SUBSET Nat /\ sizes # {}
    BY <1>1
  <2> HIDE DEF sizes
  <2> QED
    BY <2>1, SmallestElement
<1>3. PICK x \in S : \A y \in S : Cardinality(above(x)) <= Cardinality(above(y))
  <2> HIDE DEF above
  <2> QED
    BY <1>2
<1>4. ASSUME NEW y \in S, ~(x >= y) PROVE FALSE
  <2>0. x \in Int /\ y \in Int /\ y > x
    BY <1>4
  <2>1. above(y) \in SUBSET above(x) /\ y \in above(x) /\ y \notin above(y)
    <3>1. \A z \in S : z \in Int /\ (z > y => z > x)
      BY <2>0
    <3>2. above(y) \subseteq above(x)
      BY <3>1
    <3>3. y \in above(x) /\ y \notin above(y)
      BY <2>0
    <3> QED
      BY <3>2, <3>3
  <2> HIDE DEF above
  <2>2. Cardinality(above(y)) <= Cardinality(above(x)) /\ Cardinality(above(x)) # Cardinality(above(y))
    BY <1>1, <2>1, FS_Subset
  <2> QED
    BY <1>1, <1>3, <2>2
<1> QED
  BY <1>4

\* The values of a function on a finite set are finite in number.
LEMMA FiniteValues ==
    ASSUME NEW S, IsFiniteSet(S), NEW f
    PROVE  IsFiniteSet({f[x] : x \in S})
<1> DEFINE T == {f[x] : x \in S}
           g == [x \in S |-> f[x]]
<1>1. g \in Surjection(S, T)
  BY DEF Surjection
<1> HIDE DEF T, g
<1>2. IsFiniteSet(T)
  BY <1>1, FS_Surjection
<1> QED
  BY <1>2 DEF T

\* Two parts of a finite set that are both more than half of it meet.
LEMMA MajoritiesMeet ==
    ASSUME NEW S, IsFiniteSet(S), NEW A \in SUBSET S, NEW B \in SUBSET S,
           Cardinality(A) >= Cardinality(S) \div 2 + 1, Cardinality(B) >= Cardinality(S) \div 2 + 1
    PROVE  A \intersect B # {}
<1> SUFFICES ASSUME A \intersect B = {} PROVE FALSE
  OBVIOUS
<1>1. IsFiniteSet(A) /\ IsFiniteSet(B)
  BY FS_Subset
<1>2. Cardinality(A \union B) = Cardinality(A) + Cardinality(B)
  <2>1. Cardinality(A \union B) = Cardinality(A) + Cardinality(B) - Cardinality(A \intersect B)
    BY <1>1, FS_Union
  <2>2. Cardinality(A \intersect B) = 0 /\ Cardinality(A) \in Nat /\ Cardinality(B) \in Nat
    BY <1>1, FS_EmptySet, FS_CardinalityType
  <2> QED
    BY <2>1, <2>2
<1>3. Cardinality(A \union B) <= Cardinality(S)
  BY FS_Subset
<1>4. Cardinality(A) \in Nat /\ Cardinality(B) \in Nat /\ Cardinality(S) \in Nat
  BY <1>1, FS_CardinalityType
<1> QED
  BY <1>2, <1>3, <1>4

\* The library's operators are those of each scene.
LEMMA SameOperators ==
    /\ \A S : /\ Contract!Cardinality(S) = Cardinality(S) /\ Partition!Cardinality(S) = Cardinality(S)
             /\ Pos!Cardinality(S) = Cardinality(S) /\ Pbft!Cardinality(S) = Cardinality(S)
             /\ Dpos!Cardinality(S) = Cardinality(S) /\ Raft!Cardinality(S) = Cardinality(S)
    /\ \A S : Partition!Max(S) = CHOOSE x \in S : \A y \in S : x >= y
    /\ \A S : Raft!Max(S) = CHOOSE x \in S : \A y \in S : x >= y
    /\ \A S : Raft!Min(S) = CHOOSE x \in S : \A y \in S : x <= y
BY DEF Cardinality, Contract!Cardinality, Partition!Cardinality, Pos!Cardinality, Pbft!Cardinality, Dpos!Cardinality,
       Raft!Cardinality, Raft!Max, Raft!Min,
       Partition!Max

-----------------------------------------------------------------------------
(* The contract of smartcontract/contractstatemachine.                     *)

Ballot == [yes : SUBSET Voters, no : SUBSET Voters]
Execution == Nat \X SUBSET Voters
ContractState ==
    [owner : Callers, paused : BOOLEAN, state : {"Idle", "Proposed", "Voting", "Executed", "Rejected"},
     votes : Ballot, id : Nat, executed : SUBSET Execution]

\* While a proposal is open it has not been executed.
ContractInv ==
    /\ st \in ContractState
    /\ st.votes.yes \intersect st.votes.no = {}
    /\ \A e \in st.executed :
         /\ e[1] <= st.id /\ (st.state \in {"Proposed", "Voting"} => e[1] < st.id)
         /\ 3 * Cardinality(e[2]) >= 2 * Cardinality(Voters)
         /\ \A f \in st.executed : e[1] = f[1] => e = f

\* What is a ballot, and what is an execution.
LEMMA BallotsTyped ==
    /\ Contract!NoVotes \in Ballot /\ Contract!NoVotes.yes \intersect Contract!NoVotes.no = {}
    /\ \A e \in Execution : e[1] \in Nat /\ e[2] \subseteq Voters
    /\ \A v \in Ballot : v.yes \subseteq Voters /\ v.no \subseteq Voters
    /\ \A n \in Nat, v \in Ballot : <<n, v.yes>> \in Execution
    /\ \A v \in Ballot, c \in Voters : [v EXCEPT !.yes = @ \union {c}] \in Ballot /\ [v EXCEPT !.no = @ \union {c}] \in Ballot
BY DEF Ballot, Execution, Contract!NoVotes

\* ContractScene starts there.
LEMMA ContractStarts ==
    ASSUME ContractAssumption, Contract!Init PROVE ContractInv
BY BallotsTyped DEF Contract!Init, Contract!Fresh, ContractInv, ContractState, ContractAssumption

\* ContractScene stays there.
LEMMA ContractGoesOn ==
    ASSUME ContractAssumption, ContractInv, Contract!Next PROVE ContractInv'
<1> USE DEF ContractInv, ContractState
<1>1. CASE Contract!Reset
  BY <1>1, BallotsTyped DEF Contract!Reset, Contract!Fresh, ContractAssumption
<1>2. ASSUME NEW c \in Callers, Contract!Propose(c) PROVE ContractInv'
  <2>1. st' = [st EXCEPT !.id = @ + 1, !.votes = Contract!NoVotes, !.state = "Proposed"]
    BY <1>2 DEF Contract!Propose
  <2>2. st' \in ContractState /\ st'.executed = st.executed /\ st'.id = st.id + 1 /\ st'.votes = Contract!NoVotes
    <3> DEFINE none == Contract!NoVotes
    <3>1. none \in Ballot
      BY BallotsTyped
    <3>2. st \in ContractState /\ st' = [st EXCEPT !.id = @ + 1, !.votes = none, !.state = "Proposed"]
      BY <2>1
    <3> HIDE DEF none, ContractInv
    <3>3. st.id + 1 \in Nat
      BY <3>2
    <3>4. st' \in ContractState
      BY <3>1, <3>2, <3>3
    <3> QED
      BY <3>2, <3>4 DEF none
  <2>3. \A e \in st.executed : e[1] \in Nat /\ e[1] <= st.id
    BY BallotsTyped
  <2> QED
    BY <2>2, <2>3, BallotsTyped
<1>3. ASSUME NEW c \in Callers, Contract!StartVoting(c) PROVE ContractInv'
  BY <1>3 DEF Contract!StartVoting
<1>4. ASSUME NEW c \in Callers, Contract!Execute(c) PROVE ContractInv'
  <2> DEFINE e0 == <<st.id, st.votes.yes>>
  <2>1. /\ st.state = "Voting"
        /\ \/ /\ 3 * Cardinality(st.votes.yes) >= 2 * Cardinality(Voters)
              /\ st' = [st EXCEPT !.state = "Executed", !.executed = @ \union {e0}]
           \/ st' = [st EXCEPT !.state = "Rejected", !.executed = @]
    <3> DEFINE passed == 3 * Cardinality(st.votes.yes) >= 2 * Cardinality(Voters)
    <3>0. /\ st.state = "Voting"
          /\ st' = [st EXCEPT !.state = IF passed THEN "Executed" ELSE "Rejected",
                              !.executed = IF passed THEN @ \union {e0} ELSE @]
      BY <1>4, SameOperators DEF Contract!Execute
    <3> HIDE DEF passed, e0
    <3>1. CASE passed
      BY <3>0, <3>1 DEF passed
    <3>2. CASE ~passed
      BY <3>0, <3>2
    <3> QED
      BY <3>1, <3>2
  <2>2. CASE st' = [st EXCEPT !.state = "Rejected", !.executed = @]
    BY <2>2
  <2>3. CASE /\ 3 * Cardinality(st.votes.yes) >= 2 * Cardinality(Voters)
             /\ st' = [st EXCEPT !.state = "Executed", !.executed = @ \union {e0}]
    <3>1. e0 \in Execution /\ e0[1] = st.id /\ e0[2] = st.votes.yes /\ st.id \in Nat
      BY BallotsTyped
    <3>2. /\ st' \in ContractState /\ st'.votes = st.votes /\ st'.executed = st.executed \union {e0} /\ st'.id = st.id
          /\ st'.state = "Executed"
      <4> HIDE DEF e0
      <4> QED
        BY <2>3, <3>1
    <3>3. \A e \in st.executed : e[1] \in Nat /\ e[1] < st.id
      BY <2>1, BallotsTyped
    <3> HIDE DEF e0, ContractState
    <3> QED
      BY <2>3, <3>1, <3>2, <3>3
  <2> QED
    BY <2>1, <2>2, <2>3
<1>5. ASSUME NEW c \in Callers, NEW new \in Callers, Contract!TransferOwnership(c, new) PROVE ContractInv'
  BY <1>5 DEF Contract!TransferOwnership
<1>6. ASSUME NEW c \in Callers, NEW b \in BOOLEAN, Contract!SetPaused(c, b) PROVE ContractInv'
  BY <1>6 DEF Contract!SetPaused
<1>7. ASSUME NEW c \in Callers, NEW b \in BOOLEAN, Contract!Vote(c, b) PROVE ContractInv'
  <2>1. /\ c \in Voters /\ c \notin st.votes.yes /\ c \notin st.votes.no
        /\ \/ st' = [st EXCEPT !.votes = [st.votes EXCEPT !.yes = @ \union {c}]]
           \/ st' = [st EXCEPT !.votes = [st.votes EXCEPT !.no = @ \union {c}]]
    BY <1>7 DEF Contract!Vote
  <2>2. /\ st' \in ContractState /\ st'.executed = st.executed /\ st'.id = st.id /\ st'.state = st.state
        /\ \/ st'.votes.yes = st.votes.yes \union {c} /\ st'.votes.no = st.votes.no
           \/ st'.votes.no = st.votes.no \union {c} /\ st'.votes.yes = st.votes.yes
    <3>1. st.votes \in Ballot
      OBVIOUS
    <3>2. CASE st' = [st EXCEPT !.votes = [st.votes EXCEPT !.yes = @ \union {c}]]
      BY <2>1, <3>1, <3>2, BallotsTyped DEF Ballot
    <3>3. CASE st' = [st EXCEPT !.votes = [st.votes EXCEPT !.no = @ \union {c}]]
      BY <2>1, <3>1, <3>3, BallotsTyped DEF Ballot
    <3> QED
      BY <2>1, <3>2, <3>3
  <2> HIDE DEF ContractState
  <2> QED
    BY <2>1, <2>2
<1> HIDE DEF ContractInv, ContractState
<1> QED
  BY <1>1, <1>2, <1>3, <1>4, <1>5, <1>6, <1>7 DEF Contract!Next

\* And there it chooses once.
LEMMA ContractHolds ==
    ASSUME ContractInv PROVE Contract!TypeOK /\ Contract!ExecutedByVoters
<1>1. \A e \in st.executed : e[2] \subseteq Voters
  BY BallotsTyped DEF ContractInv, ContractState
<1>2. Contract!TypeOK
  BY DEF ContractInv, ContractState, Contract!TypeOK
<1>3. Contract!ExecutedByVoters
  BY <1>1, SameOperators DEF ContractInv, Contract!ExecutedByVoters
<1> QED
  BY <1>2, <1>3

-----------------------------------------------------------------------------
(* The partitions of nodenetwork/networkpartition.                         *)

PartitionState ==
    [part : [Partition!Names -> 0 .. 2], down : SUBSET Partition!Names, kv : [Partition!Names -> [Keys -> Nat]],
     mode : {"cp", "ap"}, split : BOOLEAN, version : Nat, took : SUBSET (0 .. 2)]

\* A partition that took a write still has its majority; a value is at most the latest
\* version, and when nobody crashed some node has that one.
PartitionInv ==
    /\ st \in PartitionState
    /\ \A i \in Partition!Names, key \in Keys : st.kv[i][key] <= st.version
    /\ st.down = {} => \E i \in Partition!Names, key \in Keys : st.kv[i][key] = st.version
    /\ ~st.split => \A i, j \in Partition!Live : st.kv[i] = st.kv[j]
    /\ \A p \in st.took : st.split /\ Cardinality(Partition!PartitionMembers(p)) >= Partition!Majority

\* The nodes are finitely many.
LEMMA PartitionNodes ==
    ASSUME PartitionAssumption, st \in PartitionState
    PROVE  /\ IsFiniteSet(Partition!Live) /\ Partition!Live \subseteq Partition!Names
           /\ 1 \in Partition!Names /\ IsFiniteSet(Partition!Names)
           /\ Partition!Majority = Cardinality(Partition!Live) \div 2 + 1
<1>1. IsFiniteSet(Partition!Names) /\ 1 \in Partition!Names
  BY FS_Interval DEF PartitionAssumption, Partition!Names
<1>2. Partition!Live \in SUBSET Partition!Names
  BY DEF Partition!Live
<1> QED
  BY <1>1, <1>2, FS_Subset, SameOperators DEF Partition!Majority

\* PartitionScene starts there, and does after a reset.
LEMMA PartitionStarts ==
    ASSUME PartitionAssumption PROVE (Partition!Init => PartitionInv) /\ (Partition!Reset => PartitionInv')
<1> DEFINE fresh == Partition!Fresh
<1>1. /\ fresh.down = {} /\ fresh.kv = [i \in Partition!Names |-> [k \in Keys |-> 0]] /\ fresh.version = 0
      /\ fresh.took = {} /\ fresh \in PartitionState
  BY DEF Partition!Fresh, PartitionState
<1>2. 1 \in Partition!Names /\ \E key : key \in Keys
  BY DEF PartitionAssumption, Partition!Names
<1> HIDE DEF fresh
<1>3. ASSUME st = fresh PROVE PartitionInv
  BY <1>1, <1>2, <1>3 DEF PartitionInv, Partition!Live
<1>4. ASSUME st' = fresh PROVE PartitionInv'
  BY <1>1, <1>2, <1>4 DEF PartitionInv, Partition!Live
<1> QED
  BY <1>3, <1>4 DEF Partition!Init, Partition!Reset, fresh

\* A write.
LEMMA PartitionWrites ==
    ASSUME PartitionAssumption, PartitionInv, NEW i \in Partition!Names, NEW key \in Keys, Partition!WriteKV(i, key)
    PROVE  PartitionInv'
<1> DEFINE members == Partition!PartitionMembers(st.part[i])
<1>1. /\ i \in Partition!Live
      /\ st.mode = "cp" /\ st.split => Cardinality(members) >= Partition!Majority
      /\ st' = [st EXCEPT
                 !.version = @ + 1,
                 !.kv = [j \in Partition!Names |->
                            IF j \in members THEN [@[j] EXCEPT ![key] = st.version + 1] ELSE @[j]],
                 !.took = IF st.mode = "cp" /\ st.split THEN @ \union {st.part[i]} ELSE @]
  BY SameOperators DEF Partition!WriteKV
<1>2. st \in PartitionState
  BY DEF PartitionInv
<1> HIDE DEF members
<1>3. /\ st'.version = st.version + 1 /\ st'.down = st.down /\ st'.split = st.split /\ st'.part = st.part
      /\ st'.took = IF st.mode = "cp" /\ st.split THEN st.took \union {st.part[i]} ELSE st.took
      /\ st'.kv = [j \in Partition!Names |-> IF j \in members THEN [st.kv[j] EXCEPT ![key] = st.version + 1] ELSE st.kv[j]]
      /\ st'.mode = st.mode /\ DOMAIN st' = DOMAIN st
  BY <1>1, <1>2 DEF PartitionState
<1>4. st.version \in Nat /\ st.kv \in [Partition!Names -> [Keys -> Nat]] /\ st.part[i] \in 0 .. 2
  BY <1>2 DEF PartitionState
<1>5. st'.kv \in [Partition!Names -> [Keys -> Nat]]
  BY <1>3, <1>4
<1>6. st' \in PartitionState
  <2>1. st'.version \in Nat /\ st'.took \subseteq 0 .. 2
    BY <1>2, <1>3, <1>4 DEF PartitionState
  <2> QED
    BY <1>1, <1>2, <1>5, <2>1, <1>3 DEF PartitionState
<1>7. i \in members
  BY <1>1 DEF members, Partition!PartitionMembers
<1>8. \A j \in Partition!Names, k \in Keys : st'.kv[j][k] = IF j \in members /\ k = key THEN st.version + 1 ELSE st.kv[j][k]
  BY <1>3, <1>4
<1>9. \A j \in Partition!Names, k \in Keys : st'.kv[j][k] <= st'.version
  BY <1>3, <1>4, <1>8 DEF PartitionInv
<1>10. Partition!Live' = Partition!Live /\ Partition!Majority' = Partition!Majority
       /\ \A p : Partition!PartitionMembers(p)' = Partition!PartitionMembers(p)
  BY <1>3 DEF Partition!Live, Partition!Majority, Partition!PartitionMembers
<1>11. ~st.split => members = Partition!Live
  BY DEF members, Partition!PartitionMembers
<1>12. ~st'.split => \A a, b \in Partition!Live' : st'.kv[a] = st'.kv[b]
  <2> SUFFICES ASSUME ~st.split, NEW a \in Partition!Live, NEW b \in Partition!Live PROVE st'.kv[a] = st'.kv[b]
    BY <1>3, <1>10
  <2>1. st.kv[a] = st.kv[b] /\ a \in members /\ b \in members
    BY <1>11 DEF PartitionInv
  <2>2. a \in Partition!Names /\ b \in Partition!Names
    BY DEF Partition!Live
  <2> QED
    BY <1>3, <2>1, <2>2
<1>13. \A p \in st'.took : st'.split /\ Cardinality(Partition!PartitionMembers(p)') >= Partition!Majority'
  <2>1. \A p \in st'.took : st.split /\ Cardinality(Partition!PartitionMembers(p)) >= Partition!Majority
    BY <1>1, <1>3 DEF PartitionInv, members
  <2> QED
    BY <1>3, <1>10, <2>1
<1>14. st'.kv[i][key] = st'.version
  BY <1>3, <1>7, <1>8
<1> QED
  BY <1>6, <1>9, <1>12, <1>13, <1>14 DEF PartitionInv

\* The recovery.
LEMMA PartitionRecovers ==
    ASSUME PartitionAssumption, PartitionInv, Partition!RecoverPartition
    PROVE  PartitionInv'
<1> DEFINE values(key) == {st.kv[i][key] : i \in Partition!Live}
           latest(key) == IF Partition!Live = {} THEN 0 ELSE Partition!Max(values(key))
<1>1. st' = [st EXCEPT !.split = FALSE, !.took = {}, !.part = [i \in Partition!Names |-> 0],
                       !.kv = [i \in Partition!Names |-> [key \in Keys |-> latest(key)]]]
  BY DEF Partition!RecoverPartition
<1>2. st \in PartitionState
  BY DEF PartitionInv
<1>3. ASSUME NEW key \in Keys, Partition!Live # {}
      PROVE  latest(key) \in values(key) /\ \A v \in values(key) : v <= latest(key)
  <2>1. values(key) \in SUBSET Nat /\ values(key) # {}
    BY <1>2, <1>3, PartitionNodes DEF PartitionState
  <2>2. IsFiniteSet(values(key))
    <3>1. PICK L, f : L = Partition!Live /\ f = [i \in L |-> st.kv[i][key]]
      OBVIOUS
    <3>2. values(key) = {f[i] : i \in L}
      BY <3>1
    <3>3. IsFiniteSet(L)
      BY <1>2, <3>1, PartitionNodes
    <3> HIDE DEF values
    <3> QED
      BY <3>2, <3>3, FiniteValues
  <2>3. latest(key) = CHOOSE x \in values(key) : \A y \in values(key) : x >= y
    BY <1>3, SameOperators
  <2> HIDE DEF values, latest
  <2>4. values(key) \in SUBSET Int
    BY <2>1
  <2>5. \E x \in values(key) : \A y \in values(key) : x >= y
    BY <2>1, <2>2, <2>4, GreatestElement
  <2>6. latest(key) \in values(key) /\ \A y \in values(key) : latest(key) >= y
    BY <2>3, <2>5
  <2> QED
    BY <2>1, <2>6
<1>4. ASSUME NEW key \in Keys PROVE latest(key) \in Nat /\ latest(key) <= st.version
  <2>1. CASE Partition!Live = {}
    BY <1>2, <2>1 DEF PartitionState
  <2>2. CASE Partition!Live # {}
    <3>1. \A v \in values(key) : v \in Nat /\ v <= st.version
      BY <1>2, PartitionNodes DEF PartitionState, PartitionInv
    <3> HIDE DEF values, latest
    <3> QED
      BY <1>3, <2>2, <3>1
  <2> QED
    BY <2>1, <2>2
<1>5. ASSUME st.down = {} PROVE \E key \in Keys : latest(key) = st.version
  <2>1. PICK i \in Partition!Names, key \in Keys : st.kv[i][key] = st.version
    BY <1>5 DEF PartitionInv
  <2>2. i \in Partition!Live
    BY <1>5 DEF Partition!Live
  <2>3. st.version \in values(key)
    BY <2>1, <2>2
  <2>4. st.version <= latest(key) /\ latest(key) \in Nat /\ latest(key) <= st.version
    <3> HIDE DEF values, latest
    <3> QED
      BY <1>3, <1>4, <2>2, <2>3
  <2>5. st.version \in Nat
    BY <1>2 DEF PartitionState
  <2> HIDE DEF latest
  <2> QED
    BY <2>4, <2>5
<1> HIDE DEF latest
<1>6. /\ st'.split = FALSE /\ st'.took = {} /\ st'.down = st.down /\ st'.version = st.version
      /\ st'.kv = [i \in Partition!Names |-> [key \in Keys |-> latest(key)]]
  BY <1>1, <1>2 DEF PartitionState
<1>7. st'.kv \in [Partition!Names -> [Keys -> Nat]]
  BY <1>4, <1>6
<1>8. st' \in PartitionState
  <2>1. [i \in Partition!Names |-> 0] \in [Partition!Names -> 0 .. 2]
    OBVIOUS
  <2> QED
    BY <1>1, <1>2, <1>6, <1>7, <2>1 DEF PartitionState
<1>9. \A i \in Partition!Names, key \in Keys : st'.kv[i][key] = latest(key)
  BY <1>6
<1>10. st'.down = {} => \E i \in Partition!Names, key \in Keys : st'.kv[i][key] = st'.version
  <2>1. 1 \in Partition!Names
    BY <1>2, PartitionNodes
  <2> QED
    BY <1>5, <1>6, <1>9, <2>1
<1>11. \A i, j \in Partition!Live' : st'.kv[i] = st'.kv[j]
  BY <1>6 DEF Partition!Live
<1> QED
  BY <1>4, <1>6, <1>8, <1>9, <1>10, <1>11 DEF PartitionInv

\* PartitionScene stays there.
LEMMA PartitionGoesOn ==
    ASSUME PartitionAssumption, PartitionInv, Partition!Next PROVE PartitionInv'
<1>1. CASE Partition!Reset
  BY <1>1, PartitionStarts
<1>2. ASSUME NEW mode \in {"cp", "ap"}, Partition!SetMode(mode) PROVE PartitionInv'
  <2>1. st \in PartitionState /\ st' = [st EXCEPT !.mode = mode]
    BY <1>2 DEF Partition!SetMode, PartitionInv
  <2>2. /\ st' \in PartitionState /\ st'.kv = st.kv /\ st'.version = st.version /\ st'.down = st.down
        /\ st'.split = st.split /\ st'.took = st.took /\ st'.part = st.part
    BY <2>1 DEF PartitionState
  <2> QED
    BY <2>2 DEF PartitionInv, Partition!Live, Partition!Majority, Partition!PartitionMembers
<1>3. ASSUME NEW at \in 1 .. Nodes - 1, Partition!ApplyPartition(at) PROVE PartitionInv'
  <2>1. st \in PartitionState
    BY DEF PartitionInv
  <2>2. /\ st' \in PartitionState /\ st'.kv = st.kv /\ st'.version = st.version /\ st'.down = st.down
        /\ st'.split /\ st'.took = {}
    <3> DEFINE sides == [i \in Partition!Names |-> IF i <= at THEN 1 ELSE 2]
    <3>1. sides \in [Partition!Names -> 0 .. 2]
      OBVIOUS
    <3>2. st' = [st EXCEPT !.split = TRUE, !.took = {}, !.part = sides]
      BY <1>3 DEF Partition!ApplyPartition
    <3> HIDE DEF sides
    <3> QED
      BY <2>1, <3>1, <3>2 DEF PartitionState
  <2> QED
    BY <2>2 DEF PartitionInv
<1>4. ASSUME NEW i \in Partition!Names, Partition!CrashNode(i) PROVE PartitionInv'
  <2>1. st \in PartitionState
    BY DEF PartitionInv
  <2>2. /\ st' \in PartitionState /\ st'.kv = st.kv /\ st'.version = st.version /\ st'.down = st.down \union {i}
        /\ st'.split = st.split /\ st'.took = {}
    BY <1>4, <2>1 DEF PartitionState, Partition!CrashNode
  <2>3. Partition!Live' \subseteq Partition!Live
    BY <2>2 DEF Partition!Live
  <2> QED
    BY <2>2, <2>3 DEF PartitionInv
<1> QED
  BY <1>1, <1>2, <1>3, <1>4, PartitionRecovers, PartitionWrites DEF Partition!Next

\* And there the nodes agree.
LEMMA PartitionHolds ==
    ASSUME PartitionAssumption, PartitionInv PROVE Partition!TypeOK /\ Partition!Agreement
<1>1. st \in PartitionState
  BY DEF PartitionInv
<1>2. Partition!TypeOK
  <2>1. \A i \in Partition!Names : st.part[i] \in 0 .. 2 /\ \A key \in Keys : st.kv[i][key] \in Nat
    BY <1>1 DEF PartitionState
  <2>2. st.version \in Nat
    BY <1>1 DEF PartitionState
  <2> QED
    BY <2>1, <2>2 DEF PartitionInv, Partition!TypeOK
<1>3. ASSUME ~st.split, st.down = {}, NEW i \in Partition!Live
      PROVE  st.version = Partition!Max({st.kv[i][key] : key \in Keys})
  <2>1. i \in Partition!Names
    BY <1>1, PartitionNodes
  <2>2. PICK j \in Partition!Names, key \in Keys : st.kv[j][key] = st.version
    BY <1>3 DEF PartitionInv
  <2>3. st.kv[i][key] = st.version
    BY <1>3, <2>2 DEF PartitionInv, Partition!Live
  <2> DEFINE S == {st.kv[i][k] : k \in Keys}
  <2>4. st.version \in S /\ (\A y \in S : y \in Nat /\ y <= st.version) /\ st.version \in Nat
    BY <1>1, <2>1, <2>3 DEF PartitionInv, PartitionState
  <2>5. Partition!Max(S) = CHOOSE x \in S : \A y \in S : x >= y
    BY SameOperators
  <2> HIDE DEF S
  <2>6. \A x \in S : (\A y \in S : x >= y) => x = st.version
    BY <2>4
  <2>7. \E x \in S : \A y \in S : x >= y
    BY <2>4
  <2>8. Partition!Max(S) = st.version
    BY <2>5, <2>6, <2>7
  <2> QED
    BY <2>8 DEF S
<1>4. Partition!Cardinality(st.took) <= 1
  <2>1. ASSUME NEW p \in st.took, NEW q \in st.took, p # q PROVE FALSE
    <3>1. Partition!PartitionMembers(p) \intersect Partition!PartitionMembers(q) = {}
      BY <2>1 DEF PartitionInv, Partition!PartitionMembers
    <3>2. Partition!PartitionMembers(p) \in SUBSET Partition!Live /\ Partition!PartitionMembers(q) \in SUBSET Partition!Live
      BY DEF Partition!PartitionMembers
    <3>3. /\ Cardinality(Partition!PartitionMembers(p)) >= Cardinality(Partition!Live) \div 2 + 1
          /\ Cardinality(Partition!PartitionMembers(q)) >= Cardinality(Partition!Live) \div 2 + 1
      BY <1>1, PartitionNodes DEF PartitionInv
    <3> QED
      BY <1>1, <3>1, <3>2, <3>3, MajoritiesMeet, PartitionNodes
  <2>2. CASE st.took = {}
    BY <2>2, FS_EmptySet, SameOperators
  <2>3. CASE st.took # {}
    <3>1. PICK p : st.took = {p}
      BY <2>1, <2>3
    <3>2. Cardinality(st.took) = 1
      BY <3>1, FS_Singleton
    <3> QED
      BY <3>2, SameOperators
  <2> QED
    BY <2>2, <2>3
<1>5. ~st.split => \A i, j \in Partition!Live : st.kv[i] = st.kv[j]
  BY DEF PartitionInv
<1> QED
  BY <1>2, <1>3, <1>4, <1>5 DEF Partition!Agreement

-----------------------------------------------------------------------------
(* The validators of consensus/posvalidator.                               *)

Rewarded(v) == {e \in DOMAIN st.history : st.history[e] = v}

PosState ==
    [stake : [Pos!Validators -> Nat], start : [Pos!Validators -> Nat], at : [Pos!Validators -> Int],
     delegated : [Pos!Validators -> Nat], epoch : Nat, history : Seq(Pos!Validators)]

\* The invariant of the validators: stake, rewards and slashes fit together.
PosInv ==
    /\ st \in PosState
    /\ Len(st.history) = st.epoch
    /\ \A v \in Pos!Validators :
         /\ st.at[v] <= st.epoch
         /\ \A e \in Rewarded(v) : Pos!Slashed(v) => e <= st.at[v]
         /\ ~Pos!Slashed(v) => st.stake[v] = st.start[v] + st.delegated[v] + Reward * Cardinality(Rewarded(v))

\* A sequence and one more element.
LEMMA OneMoreElement ==
    ASSUME NEW S, NEW h \in Seq(S), NEW x \in S
    PROVE  /\ Append(h, x) \in Seq(S) /\ Len(Append(h, x)) = Len(h) + 1
           /\ DOMAIN h = 1 .. Len(h) /\ DOMAIN Append(h, x) = DOMAIN h \union {Len(h) + 1} /\ Len(h) + 1 \notin DOMAIN h
           /\ \A e \in DOMAIN h : Append(h, x)[e] = h[e]
           /\ Append(h, x)[Len(h) + 1] = x
OBVIOUS

\* The places of an element in a sequence are finitely many.
LEMMA FinitePlaces ==
    ASSUME NEW S, NEW h \in Seq(S), NEW v
    PROVE  /\ IsFiniteSet({e \in DOMAIN h : h[e] = v})
           /\ Cardinality({e \in DOMAIN h : h[e] = v}) \in Nat
<1>1. {e \in DOMAIN h : h[e] = v} \in SUBSET (1 .. Len(h)) /\ Len(h) \in Nat
  OBVIOUS
<1>2. IsFiniteSet({e \in DOMAIN h : h[e] = v})
  BY <1>1, FS_Interval, FS_Subset
<1> QED
  BY <1>2, FS_CardinalityType

\* A factor times one more.
LEMMA OneTimeMore ==
    ASSUME NEW a \in Nat, NEW n \in Nat PROVE a * (n + 1) = a * n + a /\ a * n \in Nat /\ a * 0 = 0
OBVIOUS

\* The validators start there, also a new group of them.
LEMMA PosStarts ==
    ASSUME PosAssumption, NEW g \in DOMAIN Groups
    PROVE  (st = Pos!Fresh(Groups[g]) => PosInv) /\ (st' = Pos!Fresh(Groups[g]) => PosInv')
<1> DEFINE stakes == Groups[g]
           V == DOMAIN stakes
           fresh == Pos!Fresh(Groups[g])
<1>1. /\ fresh.stake = stakes /\ fresh.start = stakes /\ fresh.at = [v \in V |-> -1] /\ fresh.epoch = 0
      /\ fresh.delegated = [v \in V |-> 0] /\ fresh.history = <<>>
      /\ fresh = [stake |-> stakes, start |-> stakes, at |-> fresh.at, delegated |-> fresh.delegated,
                  epoch |-> 0, history |-> <<>>]
  BY DEF Pos!Fresh, Pos!NotSlashed
<1>2. stakes \in [V -> Nat] /\ <<>> \in Seq(V) /\ Len(<<>>) = 0 /\ DOMAIN <<>> = {}
  <2>1. stakes \in Seq(Nat)
    BY DEF PosAssumption
  <2> QED
    BY <2>1
<1> HIDE DEF fresh, stakes, V
<1>3. fresh \in [stake : [V -> Nat], start : [V -> Nat], at : [V -> Int], delegated : [V -> Nat], epoch : Nat, history : Seq(V)]
  <2>1. fresh.at \in [V -> Int] /\ fresh.delegated \in [V -> Nat]
    BY <1>1
  <2> DEFINE Stakes == [V -> Nat]
             Times == [V -> Int]
             History == Seq(V)
  <2>2. stakes \in Stakes /\ fresh.at \in Times /\ fresh.delegated \in Stakes /\ <<>> \in History
    BY <1>2, <2>1
  <2>4. PICK a, b : a = fresh.at /\ b = fresh.delegated
    OBVIOUS
  <2>5. fresh = [stake |-> stakes, start |-> stakes, at |-> a, delegated |-> b, epoch |-> 0, history |-> <<>>]
    BY <1>1, <2>4
  <2> HIDE DEF Stakes, Times, History
  <2>3. fresh \in [stake : Stakes, start : Stakes, at : Times, delegated : Stakes, epoch : Nat, history : History]
    BY <2>2, <2>4, <2>5
  <2> QED
    BY <2>3 DEF Stakes, Times, History
<1>4. \A v \in V : fresh.at[v] = -1 /\ fresh.delegated[v] = 0 /\ fresh.stake[v] \in Nat /\ fresh.start[v] = fresh.stake[v]
  BY <1>1, <1>2
<1>5. {e \in DOMAIN <<>> : FALSE} = {} /\ Cardinality({}) = 0 /\ Reward * 0 = 0
  BY FS_EmptySet DEF PosAssumption
<1>8. \A v \in V : fresh.stake[v] = fresh.start[v] + fresh.delegated[v] + Reward * Cardinality({})
  BY <1>4, <1>5
<1>6. ASSUME st = fresh PROVE PosInv
  <2>1. Pos!Validators = V /\ \A v : Rewarded(v) = {}
    BY <1>1, <1>2, <1>6 DEF Pos!Validators, Rewarded, V
  <2>2. \A v \in V : ~Pos!Slashed(v)
    BY <1>4, <1>6 DEF Pos!Slashed, Pos!NotSlashed
  <2>3. st \in PosState
    BY <1>3, <1>6, <2>1 DEF PosState
  <2> QED
    <3>1. Len(st.history) = 0 /\ st.epoch = 0
      BY <1>1, <1>2, <1>6
    <3>2. \A v \in V : st.at[v] <= st.epoch
      BY <1>4, <1>6, <3>1
    <3> QED
      BY <2>1, <2>2, <2>3, <3>1, <3>2, <1>8, <1>6 DEF PosInv
<1>7. ASSUME st' = fresh PROVE PosInv'
  <2>1. Pos!Validators' = V /\ \A v : Rewarded(v)' = {}
    BY <1>1, <1>2, <1>7 DEF Pos!Validators, Rewarded, V
  <2>2. \A v \in V : ~Pos!Slashed(v)'
    BY <1>4, <1>7 DEF Pos!Slashed, Pos!NotSlashed
  <2>3. (st \in PosState)'
    BY <1>3, <1>7, <2>1 DEF PosState
  <2> QED
    <3>1. Len(st'.history) = 0 /\ st'.epoch = 0
      BY <1>1, <1>2, <1>7
    <3>2. \A v \in V : st'.at[v] <= st'.epoch
      BY <1>4, <1>7, <3>1
    <3> QED
      BY <2>1, <2>2, <2>3, <3>1, <3>2, <1>8, <1>7 DEF PosInv
<1> QED
  BY <1>6, <1>7 DEF fresh

\* A block's reward.
LEMMA PosRewards ==
    ASSUME PosAssumption, PosInv, Pos!RunEpoch PROVE PosInv'
<1>1. PICK p \in Pos!Validators :
        /\ Pos!Drawn(p)
        /\ st' = [st EXCEPT !.stake[p] = @ + Reward, !.history = Append(@, p), !.epoch = @ + 1]
  BY DEF Pos!RunEpoch
<1>2. st \in PosState
  BY DEF PosInv
<1>3. /\ st'.stake = [st.stake EXCEPT ![p] = @ + Reward] /\ st'.history = Append(st.history, p)
      /\ st'.epoch = st.epoch + 1 /\ st'.at = st.at /\ st'.start = st.start /\ st'.delegated = st.delegated
  BY <1>1, <1>2 DEF PosState
<1>4. Pos!Validators' = Pos!Validators
  BY <1>3 DEF Pos!Validators
<1>5. /\ st.stake \in [Pos!Validators -> Nat] /\ st.history \in Seq(Pos!Validators) /\ st.epoch \in Nat /\ Reward \in Nat
      /\ st.at \in [Pos!Validators -> Int] /\ st.start \in [Pos!Validators -> Nat] /\ st.delegated \in [Pos!Validators -> Nat]
  BY <1>2 DEF PosState, PosAssumption
<1>6. (st \in PosState)'
  <2>1. st'.stake \in [Pos!Validators -> Nat] /\ st'.history \in Seq(Pos!Validators) /\ st'.epoch \in Nat
    BY <1>1, <1>3, <1>5
  <2> QED
    BY <1>1, <1>2, <1>4, <2>1 DEF PosState
<1>7. /\ Len(st'.history) = st.epoch + 1 /\ DOMAIN st'.history = DOMAIN st.history \union {st.epoch + 1}
      /\ \A e \in DOMAIN st.history : st'.history[e] = st.history[e] /\ e # st.epoch + 1
      /\ st'.history[st.epoch + 1] = p
  <2>1. PICK h, V : h = st.history /\ V = Pos!Validators
    OBVIOUS
  <2>2. Len(h) = st.epoch /\ h \in Seq(V) /\ p \in V /\ st'.history = Append(h, p)
    BY <1>1, <1>3, <1>5, <2>1 DEF PosInv
  <2> QED
    BY <2>1, <2>2, OneMoreElement
<1>8. \A v : v # p => Rewarded(v)' = Rewarded(v)
  BY <1>7 DEF Rewarded
<1>9. Rewarded(p)' = Rewarded(p) \union {st.epoch + 1} /\ st.epoch + 1 \notin Rewarded(p)
  BY <1>7 DEF Rewarded
<1>10. IsFiniteSet(Rewarded(p)) /\ Cardinality(Rewarded(p)') = Cardinality(Rewarded(p)) + 1
       /\ Cardinality(Rewarded(p)) \in Nat
  <2>2. IsFiniteSet(Rewarded(p))
    BY <1>5, FinitePlaces DEF Rewarded
  <2>3. PICK S, x : S = Rewarded(p) /\ x = st.epoch + 1
    OBVIOUS
  <2> QED
    BY <1>9, <2>2, <2>3, FS_AddElement, FS_CardinalityType
<1>11. \A v : Pos!Slashed(v)' = Pos!Slashed(v)
  BY <1>3 DEF Pos!Slashed
<1>12. ~Pos!Slashed(p)
  BY <1>1 DEF Pos!Drawn
<1>13. Reward * (Cardinality(Rewarded(p)) + 1) = Reward * Cardinality(Rewarded(p)) + Reward
       /\ Reward * Cardinality(Rewarded(p)) \in Nat
  <2>1. PICK n : n = Cardinality(Rewarded(p))
    OBVIOUS
  <2> QED
    BY <1>5, <1>10, <2>1, OneTimeMore
<1>14. ASSUME NEW v \in Pos!Validators
       PROVE  /\ st'.at[v] <= st'.epoch
              /\ \A e \in Rewarded(v)' : Pos!Slashed(v)' => e <= st'.at[v]
              /\ ~Pos!Slashed(v)' => st'.stake[v] = st'.start[v] + st'.delegated[v] + Reward * Cardinality(Rewarded(v)')
  <2>1. st'.at[v] <= st'.epoch
    BY <1>3, <1>5 DEF PosInv
  <2>2. CASE v # p
    BY <1>3, <1>5, <1>8, <1>11, <2>1, <2>2 DEF PosInv
  <2>3. CASE v = p
    <3>1. st.stake[p] = st.start[p] + st.delegated[p] + Reward * Cardinality(Rewarded(p))
      BY <1>1, <1>12 DEF PosInv
    <3>2. st'.stake[p] = st.stake[p] + Reward /\ st.stake[p] \in Nat /\ st.start[p] \in Nat /\ st.delegated[p] \in Nat
      BY <1>1, <1>3, <1>5
    <3>3. st'.stake[p] = st.start[p] + st.delegated[p] + Reward * Cardinality(Rewarded(p)')
      <4>1. PICK r : r = Reward * Cardinality(Rewarded(p))
        OBVIOUS
      <4>2. r \in Nat /\ Reward * Cardinality(Rewarded(p)') = r + Reward
        BY <1>10, <1>13, <4>1
      <4> QED
        BY <1>5, <3>1, <3>2, <4>1, <4>2
    <3> QED
      BY <1>3, <1>11, <1>12, <2>1, <2>3, <3>3
  <2> QED
    BY <2>2, <2>3
<1> QED
  BY <1>3, <1>4, <1>6, <1>7, <1>14 DEF PosInv

\* A slash, and what is delegated.
LEMMA PosChanges ==
    ASSUME PosAssumption, PosInv, NEW v \in Pos!Validators,
           Pos!SlashValidator(v) \/ \E n \in Amounts : Pos!DelegateStake(v, n)
    PROVE  PosInv'
<1>1. st \in PosState
  BY DEF PosInv
<1>2. /\ st.stake \in [Pos!Validators -> Nat] /\ st.history \in Seq(Pos!Validators) /\ st.epoch \in Nat /\ Reward \in Nat
      /\ st.at \in [Pos!Validators -> Int] /\ st.start \in [Pos!Validators -> Nat] /\ st.delegated \in [Pos!Validators -> Nat]
  BY <1>1 DEF PosState, PosAssumption
<1>3. CASE Pos!SlashValidator(v)
  <2>1. ~Pos!Slashed(v) /\ st' = [st EXCEPT !.stake[v] = (@ * 7) \div 10, !.at[v] = st.epoch]
    BY <1>3 DEF Pos!SlashValidator
  <2>2. /\ st'.stake = [st.stake EXCEPT ![v] = (@ * 7) \div 10] /\ st'.history = st.history
        /\ st'.epoch = st.epoch /\ st'.at = [st.at EXCEPT ![v] = st.epoch] /\ st'.start = st.start /\ st'.delegated = st.delegated
    BY <1>1, <2>1 DEF PosState
  <2>3. (st.stake[v] * 7) \div 10 \in Nat
    BY <1>2
  <2>4. st'.stake \in [Pos!Validators -> Nat] /\ st'.at \in [Pos!Validators -> Int]
    BY <1>2, <2>2, <2>3
  <2>5. Pos!Validators' = Pos!Validators /\ \A x : Rewarded(x)' = Rewarded(x)
    BY <1>2, <2>2, <2>4 DEF Pos!Validators, Rewarded
  <2>6. (st \in PosState)'
    BY <1>1, <2>1, <2>4, <2>5 DEF PosState
  <2>7. \A e \in Rewarded(v) : e <= st.epoch
    BY <1>2 DEF Rewarded, PosInv
  <2>8. Pos!Slashed(v)' /\ st'.at[v] = st.epoch
    BY <1>2, <2>2 DEF Pos!Slashed, Pos!NotSlashed
  <2>9. \A x \in Pos!Validators : x # v => /\ Pos!Slashed(x)' = Pos!Slashed(x) /\ st'.at[x] = st.at[x]
                                           /\ st'.stake[x] = st.stake[x]
    BY <1>2, <2>2 DEF Pos!Slashed
  <2>10. \A x \in Pos!Validators :
            /\ st'.at[x] <= st'.epoch
            /\ \A e \in Rewarded(x)' : Pos!Slashed(x)' => e <= st'.at[x]
            /\ ~Pos!Slashed(x)' => st'.stake[x] = st'.start[x] + st'.delegated[x] + Reward * Cardinality(Rewarded(x)')
    <3> TAKE x \in Pos!Validators
    <3>1. CASE x = v
      BY <1>2, <2>2, <2>5, <2>7, <2>8, <3>1
    <3>2. CASE x # v
      BY <2>2, <2>5, <2>9, <3>2 DEF PosInv
    <3> QED
      BY <3>1, <3>2
  <2> QED
    BY <2>2, <2>5, <2>6, <2>10 DEF PosInv
<1>4. ASSUME NEW n \in Amounts, Pos!DelegateStake(v, n) PROVE PosInv'
  <2>1. st' = [st EXCEPT !.stake[v] = @ + n, !.delegated[v] = @ + n] /\ n \in Nat
    BY <1>4 DEF Pos!DelegateStake, PosAssumption
  <2>2. /\ st'.stake = [st.stake EXCEPT ![v] = @ + n] /\ st'.history = st.history
        /\ st'.epoch = st.epoch /\ st'.at = st.at /\ st'.start = st.start /\ st'.delegated = [st.delegated EXCEPT ![v] = @ + n]
    BY <1>1, <2>1 DEF PosState
  <2>3. st'.stake \in [Pos!Validators -> Nat] /\ st'.delegated \in [Pos!Validators -> Nat]
    <3>1. st.stake[v] + n \in Nat /\ st.delegated[v] + n \in Nat
      BY <1>2, <2>1
    <3> QED
      BY <1>2, <2>2, <3>1
  <2>4. Pos!Validators' = Pos!Validators /\ (\A x : Rewarded(x)' = Rewarded(x)) /\ \A x : Pos!Slashed(x)' = Pos!Slashed(x)
    BY <1>2, <2>2, <2>3 DEF Pos!Validators, Rewarded, Pos!Slashed
  <2>5. (st \in PosState)'
    BY <1>1, <2>1, <2>3, <2>4 DEF PosState
  <2>6. \A x \in Pos!Validators :
           ~Pos!Slashed(x)' => st'.stake[x] = st'.start[x] + st'.delegated[x] + Reward * Cardinality(Rewarded(x)')
    <3> SUFFICES ASSUME NEW x \in Pos!Validators, ~Pos!Slashed(x)
                 PROVE  st'.stake[x] = st'.start[x] + st'.delegated[x] + Reward * Cardinality(Rewarded(x))
      BY <2>4
    <3>1. st.stake[x] = st.start[x] + st.delegated[x] + Reward * Cardinality(Rewarded(x))
      BY DEF PosInv
    <3>2. PICK r : r = Reward * Cardinality(Rewarded(x))
      OBVIOUS
    <3>3. r \in Nat
      <4>2. Cardinality(Rewarded(x)) \in Nat
        BY <1>2, FinitePlaces DEF Rewarded
      <4> QED
        BY <1>2, <3>2, <4>2
    <3>4. CASE x = v
      BY <1>2, <2>1, <2>2, <3>1, <3>2, <3>3, <3>4
    <3>5. CASE x # v
      BY <1>2, <2>2, <3>1, <3>5
    <3> QED
      BY <3>4, <3>5
  <2> QED
    BY <2>2, <2>4, <2>5, <2>6 DEF PosInv
<1> QED
  BY <1>3, <1>4

\* The invariant of the validators is kept.
LEMMA PosGoesOn ==
    ASSUME PosAssumption, PosInv, Pos!Next PROVE PosInv'
<1>1. 1 \in DOMAIN Groups
  BY DEF PosAssumption
<1>2. Pos!Reset => PosInv'
  BY <1>1, PosStarts DEF Pos!Reset
<1>3. Pos!SetValidators => PosInv'
  BY PosStarts DEF Pos!SetValidators
<1> QED
  BY <1>2, <1>3, PosRewards, PosChanges DEF Pos!Next

\* Under it the slashed stay out.
LEMMA PosHolds ==
    ASSUME PosInv PROVE Pos!TypeOK /\ Pos!SlashedStaysOut
<1>1. \A v \in Pos!Validators : st.stake[v] \in Nat
  BY DEF PosInv, PosState
<1>2. Pos!TypeOK
  BY <1>1 DEF PosInv, Pos!TypeOK
<1>3. \A v \in Pos!Validators : \A e \in DOMAIN st.history : st.history[e] = v /\ Pos!Slashed(v) => e <= st.at[v]
  BY DEF PosInv, Rewarded
<1>4. \A v \in Pos!Validators :
         ~Pos!Slashed(v) => st.stake[v] = st.start[v] + st.delegated[v]
                              + Reward * Pos!Cardinality({e \in DOMAIN st.history : st.history[e] = v})
  BY SameOperators DEF PosInv, Rewarded
<1> QED
  BY <1>2, <1>3, <1>4 DEF Pos!SlashedStaysOut


-----------------------------------------------------------------------------
(* The replicas of consensus/pbftconsensus.                                *)

LogEntry == [seq : Nat, view : Nat]
PbftReplica(n) ==
    [down : BOOLEAN, byzantine : BOOLEAN, digest : BOOLEAN, prepares : SUBSET (0 .. n - 1),
     commits : SUBSET (0 .. n - 1), prepared : BOOLEAN, committed : BOOLEAN, log : Seq(LogEntry)]
PbftCluster(n) ==
    [reps : [0 .. n - 1 -> PbftReplica(n)], view : 0 .. MaxView, seq : Nat, request : Nat,
     phase : {"idle", "pre-prepare", "prepare", "commit", "reply"}, votes : SUBSET (0 .. n - 1)]
Prepared(c) == {j \in DOMAIN c.reps : c.reps[j].prepared}

\* The commits a replica counted came from prepared replicas.
Quorate(c) ==
    \A i \in DOMAIN c.reps :
        /\ c.reps[i].commits \subseteq Prepared(c)
        /\ c.reps[i].committed => Cardinality(Prepared(c)) >= Pbft!Quorum(c)

LogsOrdered(c) ==
    \A i \in DOMAIN c.reps : \A k \in DOMAIN c.reps[i].log :
        /\ c.reps[i].log[k].seq <= c.seq
        /\ k < Len(c.reps[i].log) => c.reps[i].log[k].seq <= c.reps[i].log[k + 1].seq

PbftGood(c) == (\E n \in Nat : c \in PbftCluster(n)) /\ Quorate(c) /\ LogsOrdered(c)
PbftInv == PbftGood(st)

\* A log that was in order and got one more entry is in order.
LEMMA LogGrows ==
    ASSUME NEW h \in Seq(LogEntry), NEW s \in Nat, NEW v \in Nat,
           \A k \in DOMAIN h : h[k].seq <= s /\ (k < Len(h) => h[k].seq <= h[k + 1].seq),
           NEW g, g = Append(h, [seq |-> s, view |-> v])
    PROVE  /\ g \in Seq(LogEntry)
           /\ \A k \in DOMAIN g : g[k].seq <= s /\ (k < Len(g) => g[k].seq <= g[k + 1].seq)
<1> DEFINE e == [seq |-> s, view |-> v]
<1>1. e \in LogEntry /\ e.seq = s
  BY DEF LogEntry
<1> HIDE DEF e
<1>2. /\ g \in Seq(LogEntry) /\ Len(g) = Len(h) + 1
      /\ DOMAIN h = 1 .. Len(h) /\ DOMAIN g = DOMAIN h \union {Len(h) + 1} /\ Len(h) + 1 \notin DOMAIN h
      /\ \A k \in DOMAIN h : g[k] = h[k]
      /\ g[Len(h) + 1] = e
  BY <1>1, OneMoreElement DEF e
<1>3. Len(h) \in Nat
  OBVIOUS
<1>4. ASSUME NEW k \in DOMAIN g PROVE g[k].seq <= s /\ (k < Len(g) => g[k].seq <= g[k + 1].seq)
  <2>1. CASE k = Len(h) + 1
    BY <1>1, <1>2, <1>3, <2>1
  <2>2. CASE k # Len(h) + 1
    <3>1. k \in DOMAIN h /\ g[k] = h[k] /\ k \in 1 .. Len(h)
      BY <1>2, <2>2
    <3>2. CASE k = Len(h)
      <4>1. g[k + 1] = e
        BY <1>2, <3>2
      <4> QED
        BY <1>1, <3>1, <4>1
    <3>3. CASE k # Len(h)
      <4>1. k < Len(h) /\ k + 1 \in DOMAIN h
        BY <1>2, <1>3, <3>1, <3>3
      <4>2. g[k + 1] = h[k + 1]
        BY <1>2, <4>1
      <4> QED
        BY <3>1, <4>1, <4>2
    <3> QED
      BY <3>2, <3>3
  <2> QED
    BY <2>1, <2>2
<1> QED
  BY <1>2, <1>4

\* The replicas are finitely many.
LEMMA PbftReplicas ==
    ASSUME NEW n \in Nat, NEW c \in PbftCluster(n)
    PROVE  /\ DOMAIN c.reps = 0 .. n - 1 /\ IsFiniteSet(0 .. n - 1)
           /\ Pbft!Quorum(c) = 2 * ((Cardinality(0 .. n - 1) - 1) \div 3) + 1
           /\ Pbft!Up(c) \subseteq 0 .. n - 1 /\ Pbft!Bearers(c) \subseteq 0 .. n - 1
           /\ Prepared(c) \subseteq 0 .. n - 1
           /\ \A i \in 0 .. n - 1 : c.reps[i] \in PbftReplica(n)
<1>1. c.reps \in [0 .. n - 1 -> PbftReplica(n)]
  BY DEF PbftCluster
<1>2. DOMAIN c.reps = 0 .. n - 1 /\ \A i \in 0 .. n - 1 : c.reps[i] \in PbftReplica(n)
  BY <1>1
<1>3. IsFiniteSet(0 .. n - 1)
  BY FS_Interval
<1>4. Pbft!Quorum(c) = 2 * ((Cardinality(0 .. n - 1) - 1) \div 3) + 1
  BY <1>2, SameOperators DEF Pbft!Quorum, Pbft!Size
<1> QED
  BY <1>2, <1>3, <1>4 DEF Pbft!Up, Pbft!Bearers, Prepared

\* A cluster whose logs grew, and whose commits came from prepared replicas or are all
\* forgotten, is as good as before.
LEMMA PbftKept ==
    ASSUME NEW n \in Nat, NEW c \in PbftCluster(n), NEW d \in PbftCluster(n), Quorate(c), LogsOrdered(c),
           d.seq >= c.seq,
           \A i \in 0 .. n - 1 :
              \/ d.reps[i].log = c.reps[i].log
              \/ d.seq = c.seq /\ d.reps[i].log = Append(c.reps[i].log, [seq |-> c.seq, view |-> c.view]),
           \/ \A i \in 0 .. n - 1 : d.reps[i].commits = {} /\ ~d.reps[i].committed
           \/ \A i \in 0 .. n - 1 :
                 /\ c.reps[i].prepared => d.reps[i].prepared
                 /\ d.reps[i].commits \subseteq c.reps[i].commits \union Prepared(d)
                 /\ d.reps[i].committed => \/ c.reps[i].committed
                                           \/ Cardinality(d.reps[i].commits) >= Pbft!Quorum(c)
    PROVE  PbftGood(d)
<1>1. /\ DOMAIN c.reps = 0 .. n - 1 /\ DOMAIN d.reps = 0 .. n - 1 /\ Pbft!Quorum(d) = Pbft!Quorum(c)
      /\ IsFiniteSet(0 .. n - 1) /\ Prepared(c) \subseteq 0 .. n - 1 /\ Prepared(d) \subseteq 0 .. n - 1
      /\ Pbft!Quorum(c) = 2 * ((Cardinality(0 .. n - 1) - 1) \div 3) + 1
      /\ \A i \in 0 .. n - 1 : c.reps[i] \in PbftReplica(n)
  BY PbftReplicas
<1>2. Quorate(d)
  <2> SUFFICES ASSUME NEW i \in 0 .. n - 1
               PROVE  /\ d.reps[i].commits \subseteq Prepared(d)
                      /\ d.reps[i].committed => Cardinality(Prepared(d)) >= Pbft!Quorum(d)
    BY <1>1 DEF Quorate
  <2>1. CASE \A j \in 0 .. n - 1 : d.reps[j].commits = {} /\ ~d.reps[j].committed
    BY <2>1
  <2>2. CASE \A j \in 0 .. n - 1 :
                 /\ c.reps[j].prepared => d.reps[j].prepared
                 /\ d.reps[j].commits \subseteq c.reps[j].commits \union Prepared(d)
                 /\ d.reps[j].committed => \/ c.reps[j].committed
                                           \/ Cardinality(d.reps[j].commits) >= Pbft!Quorum(c)
    <3>1. Prepared(c) \subseteq Prepared(d)
      BY <1>1, <2>2 DEF Prepared
    <3>2. d.reps[i].commits \subseteq Prepared(d)
      BY <1>1, <2>2, <3>1 DEF Quorate
    <3>3. ASSUME d.reps[i].committed PROVE Cardinality(Prepared(d)) >= Pbft!Quorum(c)
      <4>1. PICK S \in SUBSET Prepared(d) : Cardinality(S) >= Pbft!Quorum(c)
        <5>1. CASE c.reps[i].committed
          <6>1. Cardinality(Prepared(c)) >= Pbft!Quorum(c)
            BY <1>1, <5>1 DEF Quorate
          <6> QED
            BY <3>1, <6>1
        <5>2. CASE ~c.reps[i].committed
          <6>1. Cardinality(d.reps[i].commits) >= Pbft!Quorum(c)
            BY <2>2, <3>3, <5>2
          <6> QED
            BY <3>2, <6>1
        <5> QED
          BY <5>1, <5>2
      <4>2. IsFiniteSet(Prepared(d)) /\ IsFiniteSet(S) /\ Cardinality(S) <= Cardinality(Prepared(d))
        BY <1>1, FS_Subset
      <4>3. Cardinality(Prepared(d)) \in Nat /\ Cardinality(S) \in Nat /\ Cardinality(0 .. n - 1) \in Nat
        BY <1>1, <4>2, FS_CardinalityType
      <4>4. Pbft!Quorum(c) \in Int
        BY <1>1, <4>3
      <4> QED
        BY <4>1, <4>2, <4>3, <4>4
    <3> QED
      BY <1>1, <3>2, <3>3
  <2> QED
    BY <2>1, <2>2
<1>3. LogsOrdered(d)
  <2> SUFFICES ASSUME NEW i \in 0 .. n - 1, NEW g, g = d.reps[i].log, NEW t, t = d.seq
               PROVE  \A k \in DOMAIN g : g[k].seq <= t /\ (k < Len(g) => g[k].seq <= g[k + 1].seq)
    BY <1>1 DEF LogsOrdered
  <2>1. PICK h, s, v : h = c.reps[i].log /\ s = c.seq /\ v = c.view
    OBVIOUS
  <2>2. h \in Seq(LogEntry) /\ s \in Nat /\ v \in Nat /\ t \in Nat /\ s <= t
    <3>1. h \in Seq(LogEntry)
      BY <1>1, <2>1 DEF PbftReplica
    <3>2. s \in Nat /\ t \in Nat /\ v \in 0 .. MaxView
      BY <2>1 DEF PbftCluster
    <3> QED
      BY <2>1, <3>1, <3>2
  <2>3. \A k \in DOMAIN h : h[k].seq <= s /\ (k < Len(h) => h[k].seq <= h[k + 1].seq)
    BY <1>1, <2>1 DEF LogsOrdered
  <2>4. CASE g = h
    <3>1. \A k \in DOMAIN h : h[k].seq \in Nat
      <4>1. \A k \in DOMAIN h : h[k] \in LogEntry
        BY <2>2
      <4> QED
        BY <4>1 DEF LogEntry
    <3> QED
      BY <2>2, <2>3, <2>4, <3>1
  <2>5. CASE t = s /\ g = Append(h, [seq |-> s, view |-> v])
    BY <2>2, <2>3, <2>5, LogGrows
  <2> QED
    BY <2>1, <2>4, <2>5
<1> QED
  BY <1>2, <1>3 DEF PbftGood

\* A new cluster is good.
LEMMA PbftStarts ==
    ASSUME PbftAssumption, NEW n \in Nat PROVE PbftGood(Pbft!DefaultCluster(n))
<1> DEFINE c == Pbft!DefaultCluster(n)
<1>1. Pbft!Fresh \in PbftReplica(n) /\ Pbft!Fresh.commits = {} /\ ~Pbft!Fresh.committed /\ Pbft!Fresh.log = <<>>
  BY DEF Pbft!Fresh, PbftReplica
<1>2. c \in PbftCluster(n) /\ DOMAIN c.reps = 0 .. n - 1 /\ \A i \in DOMAIN c.reps : c.reps[i] = Pbft!Fresh
  BY <1>1 DEF Pbft!DefaultCluster, PbftCluster, PbftAssumption
<1> HIDE DEF c
<1>3. Quorate(c) /\ LogsOrdered(c)
  BY <1>1, <1>2 DEF Quorate, LogsOrdered
<1> QED
  BY <1>2, <1>3 DEF PbftGood, c

\* A cluster with other replicas, or another phase.
LEMMA PbftTyped ==
    ASSUME NEW n \in Nat, NEW c \in PbftCluster(n), NEW d, NEW reps \in [0 .. n - 1 -> PbftReplica(n)],
           NEW phase \in {"idle", "pre-prepare", "prepare", "commit", "reply"},
           d = [c EXCEPT !.phase = phase, !.reps = reps]
    PROVE  d \in PbftCluster(n) /\ d.seq = c.seq /\ d.reps = reps /\ d.view = c.view
BY DEF PbftCluster

\* Each of the four phases.
LEMMA PbftPrePrepares ==
    ASSUME NEW n \in Nat, NEW c \in PbftCluster(n), Quorate(c), LogsOrdered(c), NEW d, d = Pbft!RunPrePrepare(c)
    PROVE  PbftGood(d)
<1> DEFINE to(i) == [c.reps[i] EXCEPT !.digest = c.reps[i].digest \/ i \in Pbft!Up(c)]
           reps == [i \in 0 .. n - 1 |-> to(i)]
<1>1. \A i \in 0 .. n - 1 : /\ to(i) \in PbftReplica(n) /\ to(i).log = c.reps[i].log
                            /\ to(i).commits = c.reps[i].commits /\ to(i).prepared = c.reps[i].prepared
                            /\ to(i).committed = c.reps[i].committed
  <2> TAKE i \in 0 .. n - 1
  <2>1. PICK r, b : r = c.reps[i] /\ b = (c.reps[i].digest \/ i \in Pbft!Up(c))
    OBVIOUS
  <2>2. r \in PbftReplica(n) /\ b \in BOOLEAN
    BY <2>1, PbftReplicas
  <2>3. to(i) = [r EXCEPT !.digest = b]
    BY <2>1
  <2> HIDE DEF to
  <2> QED
    BY <2>1, <2>2, <2>3 DEF PbftReplica
<1>2. d = c \/ d = [c EXCEPT !.phase = "pre-prepare", !.reps = reps]
  BY PbftReplicas DEF Pbft!RunPrePrepare
<1>3. CASE d = c
  BY <1>3 DEF PbftGood
<1>4. CASE d = [c EXCEPT !.phase = "pre-prepare", !.reps = reps]
  <2>1. reps \in [0 .. n - 1 -> PbftReplica(n)] /\ \A i \in 0 .. n - 1 : reps[i] = to(i)
    BY <1>1
  <2> HIDE DEF reps, to
  <2>2. d \in PbftCluster(n) /\ d.seq = c.seq /\ d.reps = reps
    BY <1>4, <2>1 DEF PbftCluster
  <2>3. d.seq >= c.seq
    BY <2>2 DEF PbftCluster
  <2> QED
    BY <1>1, <2>1, <2>2, <2>3, PbftKept
<1> QED
  BY <1>2, <1>3, <1>4

LEMMA PbftPrepares ==
    ASSUME NEW n \in Nat, NEW c \in PbftCluster(n), Quorate(c), LogsOrdered(c), NEW d, d = Pbft!RunPrepare(c)
    PROVE  PbftGood(d)
<1> DEFINE senders == {i \in Pbft!Bearers(c) : ~c.reps[i].byzantine}
           got(i) == IF i \in Pbft!Bearers(c) THEN c.reps[i].prepares \union senders ELSE c.reps[i].prepares
           now(i) == c.reps[i].prepared \/ (i \in Pbft!Up(c) /\ Pbft!Cardinality(got(i)) >= Pbft!Quorum(c))
           to(i) == [c.reps[i] EXCEPT !.prepares = got(i), !.prepared = now(i)]
           reps == [i \in 0 .. n - 1 |-> to(i)]
<1>1. \A i \in 0 .. n - 1 : /\ to(i) \in PbftReplica(n) /\ to(i).log = c.reps[i].log
                            /\ to(i).commits = c.reps[i].commits /\ (c.reps[i].prepared => to(i).prepared)
                            /\ to(i).committed = c.reps[i].committed
  <2> TAKE i \in 0 .. n - 1
  <2>1. PICK r, b, g : r = c.reps[i] /\ b = now(i) /\ g = got(i)
    OBVIOUS
  <2>2. r \in PbftReplica(n) /\ b \in BOOLEAN /\ (r.prepared => b)
    BY <2>1, PbftReplicas
  <2>3. to(i) = [r EXCEPT !.prepares = g, !.prepared = b]
    BY <2>1
  <2>4. g \in SUBSET (0 .. n - 1)
    BY <2>1, <2>2, PbftReplicas DEF PbftReplica
  <2> HIDE DEF to
  <2> QED
    BY <2>1, <2>2, <2>3, <2>4 DEF PbftReplica
<1>2. d = [c EXCEPT !.phase = "prepare", !.reps = reps]
  BY PbftReplicas DEF Pbft!RunPrepare
<1>3. reps \in [0 .. n - 1 -> PbftReplica(n)] /\ \A i \in 0 .. n - 1 : reps[i] = to(i)
  BY <1>1
<1> HIDE DEF reps, to
<1>4. d \in PbftCluster(n) /\ d.seq = c.seq /\ d.reps = reps
  BY <1>2, <1>3 DEF PbftCluster
<1>5. d.seq >= c.seq
  BY <1>4 DEF PbftCluster
<1> QED
  BY <1>1, <1>3, <1>4, <1>5, PbftKept

LEMMA PbftCommits ==
    ASSUME NEW n \in Nat, NEW c \in PbftCluster(n), Quorate(c), LogsOrdered(c), NEW d, d = Pbft!RunCommit(c)
    PROVE  PbftGood(d)
<1> DEFINE senders == {i \in Pbft!Up(c) : c.reps[i].prepared /\ ~c.reps[i].byzantine}
           got(i) == IF i \in Pbft!Bearers(c) THEN c.reps[i].commits \union senders ELSE c.reps[i].commits
           now(i) == c.reps[i].committed \/ (i \in Pbft!Up(c) /\ Pbft!Cardinality(got(i)) >= Pbft!Quorum(c))
           to(i) == [c.reps[i] EXCEPT !.commits = got(i), !.committed = now(i)]
           reps == [i \in 0 .. n - 1 |-> to(i)]
<1>1. \A i \in 0 .. n - 1 : /\ to(i) \in PbftReplica(n) /\ to(i).log = c.reps[i].log
                            /\ to(i).commits \subseteq c.reps[i].commits \union senders
                            /\ to(i).prepared = c.reps[i].prepared
                            /\ to(i).committed => c.reps[i].committed \/ Cardinality(to(i).commits) >= Pbft!Quorum(c)
  <2> TAKE i \in 0 .. n - 1
  <2>1. PICK r, b, g : r = c.reps[i] /\ b = now(i) /\ g = got(i)
    OBVIOUS
  <2>2. r \in PbftReplica(n) /\ b \in BOOLEAN /\ (b => r.committed \/ Cardinality(g) >= Pbft!Quorum(c))
    BY <2>1, PbftReplicas, SameOperators
  <2>3. to(i) = [r EXCEPT !.commits = g, !.committed = b]
    BY <2>1
  <2>4. g \in SUBSET (0 .. n - 1) /\ g \subseteq r.commits \union senders
    BY <2>1, <2>2, PbftReplicas DEF PbftReplica
  <2> HIDE DEF to, senders
  <2> QED
    BY <2>1, <2>2, <2>3, <2>4 DEF PbftReplica
<1>2. d = [c EXCEPT !.phase = "commit", !.reps = reps]
  BY PbftReplicas DEF Pbft!RunCommit
<1>3. reps \in [0 .. n - 1 -> PbftReplica(n)] /\ \A i \in 0 .. n - 1 : reps[i] = to(i)
  BY <1>1
<1>4. senders \subseteq {i \in 0 .. n - 1 : c.reps[i].prepared}
  BY PbftReplicas
<1> HIDE DEF reps, to, senders
<1>5. d \in PbftCluster(n) /\ d.seq = c.seq /\ d.reps = reps
  BY <1>2, <1>3 DEF PbftCluster
<1>6. senders \subseteq Prepared(d)
  BY <1>1, <1>3, <1>4, <1>5, PbftReplicas DEF Prepared
<1>7. d.seq >= c.seq
  BY <1>5 DEF PbftCluster
<1>8. \A i \in 0 .. n - 1 :
         /\ c.reps[i].prepared => d.reps[i].prepared
         /\ d.reps[i].commits \subseteq c.reps[i].commits \union Prepared(d)
         /\ d.reps[i].committed => c.reps[i].committed \/ Cardinality(d.reps[i].commits) >= Pbft!Quorum(c)
         /\ d.reps[i].log = c.reps[i].log
  BY <1>1, <1>3, <1>5, <1>6
<1> QED
  BY <1>5, <1>7, <1>8, PbftKept

LEMMA PbftReplies ==
    ASSUME NEW n \in Nat, NEW c \in PbftCluster(n), Quorate(c), LogsOrdered(c), NEW d, d = Pbft!RunReply(c)
    PROVE  PbftGood(d)
<1> DEFINE entry == [seq |-> c.seq, view |-> c.view]
           to(i) == IF c.reps[i].committed /\ i \in Pbft!Up(c)
                    THEN [c.reps[i] EXCEPT !.log = Append(c.reps[i].log, entry)] ELSE c.reps[i]
           reps == [i \in 0 .. n - 1 |-> to(i)]
<1>1. \A i \in 0 .. n - 1 : /\ to(i) \in PbftReplica(n)
                            /\ to(i).log = c.reps[i].log \/ to(i).log = Append(c.reps[i].log, entry)
                            /\ to(i).commits = c.reps[i].commits /\ to(i).prepared = c.reps[i].prepared
                            /\ to(i).committed = c.reps[i].committed
  <2> TAKE i \in 0 .. n - 1
  <2>1. PICK r, e, h : r = c.reps[i] /\ e = entry /\ h = Append(r.log, e)
    OBVIOUS
  <2>2. r \in PbftReplica(n) /\ e \in LogEntry
    BY <2>1, PbftReplicas DEF PbftCluster, LogEntry
  <2>3. to(i) = r \/ to(i) = [r EXCEPT !.log = h]
    BY <2>1
  <2>4. h \in Seq(LogEntry)
    BY <2>1, <2>2 DEF PbftReplica
  <2> HIDE DEF to, entry
  <2> QED
    BY <2>1, <2>2, <2>3, <2>4 DEF PbftReplica
<1>2. d = [c EXCEPT !.phase = "reply", !.reps = reps]
  BY PbftReplicas DEF Pbft!RunReply
<1>3. reps \in [0 .. n - 1 -> PbftReplica(n)] /\ \A i \in 0 .. n - 1 : reps[i] = to(i)
  BY <1>1
<1> HIDE DEF reps, to
<1>4. d \in PbftCluster(n) /\ d.seq = c.seq /\ d.reps = reps
  BY <1>2, <1>3 DEF PbftCluster
<1>5. d.seq >= c.seq
  BY <1>4 DEF PbftCluster
<1> QED
  BY <1>1, <1>3, <1>4, <1>5, PbftKept

\* A step of the round.
LEMMA PbftSteps ==
    ASSUME NEW c, PbftGood(c) PROVE PbftGood(Pbft!StepOf(c))
<1>1. PICK n \in Nat : c \in PbftCluster(n)
  BY DEF PbftGood
<1>2. Quorate(c) /\ LogsOrdered(c)
  BY DEF PbftGood
<1>3. /\ PbftGood(Pbft!RunPrePrepare(c)) /\ PbftGood(Pbft!RunPrepare(c))
      /\ PbftGood(Pbft!RunCommit(c)) /\ PbftGood(Pbft!RunReply(c))
  BY <1>1, <1>2, PbftPrePrepares, PbftPrepares, PbftCommits, PbftReplies
<1> QED
  BY <1>3 DEF Pbft!StepOf

\* The rounds are cleared.
LEMMA PbftClears ==
    ASSUME NEW n \in Nat, NEW c \in PbftCluster(n), Quorate(c), LogsOrdered(c), NEW d,
           NEW reps, reps = [i \in 0 .. n - 1 |-> Pbft!Cleared(c.reps[i])], d.reps = reps,
           d \in PbftCluster(n) \/ (reps \in [0 .. n - 1 -> PbftReplica(n)] => d \in PbftCluster(n)),
           d.seq >= c.seq
    PROVE  PbftGood(d)
<1>1. \A i \in 0 .. n - 1 : LET r == Pbft!Cleared(c.reps[i]) IN
         r \in PbftReplica(n) /\ r.log = c.reps[i].log /\ r.commits = {} /\ ~r.committed
  <2> TAKE i \in 0 .. n - 1
  <2>1. PICK r : r = c.reps[i]
    OBVIOUS
  <2>2. r \in PbftReplica(n)
    BY <2>1, PbftReplicas
  <2> QED
    BY <2>1, <2>2 DEF PbftReplica, Pbft!Cleared
<1>2. reps \in [0 .. n - 1 -> PbftReplica(n)]
  BY <1>1
<1>3. \A i \in 0 .. n - 1 : d.reps[i].log = c.reps[i].log /\ d.reps[i].commits = {} /\ ~d.reps[i].committed
  BY <1>1
<1>4. d \in PbftCluster(n)
  BY <1>2
<1> QED
  BY <1>3, <1>4, PbftKept

\* The replicas stay good.
LEMMA PbftGoesOn ==
    ASSUME PbftAssumption, PbftInv, Pbft!Next PROVE PbftInv'
<1>1. PICK c, d : c = st /\ d = st'
  OBVIOUS
<1>2. PbftGood(c)
  BY <1>1 DEF PbftInv
<1>3. PICK n \in Nat : c \in PbftCluster(n)
  BY <1>2 DEF PbftGood
<1>4. Quorate(c) /\ LogsOrdered(c)
  BY <1>2 DEF PbftGood
<1> SUFFICES PbftGood(d)
  BY <1>1 DEF PbftInv
<1>5. /\ DOMAIN c.reps = 0 .. n - 1 /\ c.reps \in [0 .. n - 1 -> PbftReplica(n)]
      /\ c.seq \in Nat /\ c.view \in 0 .. MaxView /\ c.request \in Nat /\ c.votes \subseteq 0 .. n - 1
      /\ MaxView \in Nat
  BY <1>3 DEF PbftCluster, PbftAssumption
<1> DEFINE cleared == [i \in 0 .. n - 1 |-> Pbft!Cleared(c.reps[i])]
<1>6. CASE Pbft!ProposeRequest
  <2>1. d = [c EXCEPT !.seq = c.seq + 1, !.request = c.seq + 1, !.phase = "idle", !.reps = cleared]
    BY <1>1, <1>5, <1>6 DEF Pbft!ProposeRequest
  <2> HIDE DEF cleared
  <2>2. cleared \in [0 .. n - 1 -> PbftReplica(n)] => d \in PbftCluster(n)
    <3> DEFINE Reps == [0 .. n - 1 -> PbftReplica(n)]
    <3>1. PICK s \in Nat : s = c.seq + 1
      BY <1>5
    <3>2. d = [c EXCEPT !.seq = s, !.request = s, !.phase = "idle", !.reps = cleared]
      BY <2>1, <3>1
    <3> HIDE DEF Reps
    <3>3. cleared \in Reps => d \in PbftCluster(n)
      BY <1>3, <3>2 DEF PbftCluster, Reps
    <3> QED
      BY <3>3 DEF Reps
  <2>3. d.reps = cleared /\ d.seq = c.seq + 1
    BY <1>3, <2>1 DEF PbftCluster
  <2>4. d.seq >= c.seq
    BY <1>5, <2>3
  <2> QED
    BY <1>3, <1>4, <2>2, <2>3, <2>4, PbftClears DEF cleared
<1>7. CASE Pbft!StepPhase
  BY <1>1, <1>2, <1>7, PbftSteps DEF Pbft!StepPhase
<1>8. CASE Pbft!RunFullRound
  <2>1. d = Pbft!StepOf(Pbft!StepOf(Pbft!StepOf(Pbft!StepOf(c))))
    BY <1>1, <1>8 DEF Pbft!RunFullRound
  <2> QED
    BY <1>2, <2>1, PbftSteps
<1>9. CASE Pbft!TriggerViewChange
  <2> DEFINE votes == c.votes \union {i \in Pbft!Up(c) : ~c.reps[i].byzantine}
             enough == Pbft!Cardinality(votes) >= Pbft!Quorum(c)
  <2>1. /\ c.view < MaxView
        /\ d = IF enough THEN [c EXCEPT !.view = c.view + 1, !.phase = "idle", !.votes = {}, !.reps = cleared]
                         ELSE [c EXCEPT !.votes = votes]
    BY <1>1, <1>5, <1>9 DEF Pbft!TriggerViewChange
  <2>2. votes \subseteq 0 .. n - 1
    BY <1>3, <1>5, PbftReplicas
  <2> HIDE DEF votes, enough, cleared
  <2>3. CASE enough
    <3>1. d = [c EXCEPT !.view = c.view + 1, !.phase = "idle", !.votes = {}, !.reps = cleared]
      BY <2>1, <2>3
    <3>2. c.view + 1 \in 0 .. MaxView
      BY <1>5, <2>1
    <3>3. cleared \in [0 .. n - 1 -> PbftReplica(n)] => d \in PbftCluster(n)
      BY <1>3, <3>1, <3>2 DEF PbftCluster
    <3>4. d.reps = cleared /\ d.seq = c.seq
      BY <1>3, <3>1 DEF PbftCluster
    <3>5. d.seq >= c.seq
      BY <1>5, <3>4
    <3> QED
      BY <1>3, <1>4, <3>3, <3>4, <3>5, PbftClears DEF cleared
  <2>4. CASE ~enough
    <3>1. d = [c EXCEPT !.votes = votes]
      BY <2>1, <2>4
    <3>2. d \in PbftCluster(n) /\ d.reps = c.reps /\ d.seq = c.seq
      BY <1>3, <2>2, <3>1 DEF PbftCluster
    <3>3. d.seq >= c.seq
      BY <1>5, <3>2
    <3> QED
      BY <1>3, <1>4, <3>2, <3>3, PbftKept
  <2> QED
    BY <2>3, <2>4
<1>10. ASSUME NEW i \in 0 .. n - 1, NEW b \in BOOLEAN,
              d = [c EXCEPT !.reps[i].byzantine = b] \/ d = [c EXCEPT !.reps[i].down = b]
       PROVE  PbftGood(d)
  <2>1. PICK r : r = c.reps[i]
    OBVIOUS
  <2>2. r \in PbftReplica(n)
    BY <1>5, <2>1
  <2> DEFINE to == IF d = [c EXCEPT !.reps[i].byzantine = b] THEN [r EXCEPT !.byzantine = b] ELSE [r EXCEPT !.down = b]
             reps == [c.reps EXCEPT ![i] = to]
  <2>3. /\ to \in PbftReplica(n) /\ to.log = r.log /\ to.commits = r.commits /\ to.prepared = r.prepared
        /\ to.committed = r.committed
    <3>1. to = [r EXCEPT !.byzantine = b] \/ to = [r EXCEPT !.down = b]
      OBVIOUS
    <3> HIDE DEF to
    <3> QED
      BY <2>2, <3>1 DEF PbftReplica
  <2>4. d = [c EXCEPT !.reps = reps]
    BY <1>10, <2>1
  <2> HIDE DEF to
  <2>5. reps \in [0 .. n - 1 -> PbftReplica(n)] /\ \A j \in 0 .. n - 1 : reps[j] = IF j = i THEN to ELSE c.reps[j]
    BY <1>5, <2>3
  <2> HIDE DEF reps
  <2>6. d \in PbftCluster(n) /\ d.reps = reps /\ d.seq = c.seq
    BY <1>3, <2>4, <2>5 DEF PbftCluster
  <2>7. d.seq >= c.seq
    BY <1>5, <2>6
  <2>8. \A j \in 0 .. n - 1 :
           /\ d.reps[j].log = c.reps[j].log /\ d.reps[j].commits = c.reps[j].commits
           /\ d.reps[j].prepared = c.reps[j].prepared /\ d.reps[j].committed = c.reps[j].committed
    BY <2>1, <2>3, <2>5, <2>6
  <2> QED
    BY <1>3, <1>4, <2>6, <2>7, <2>8, PbftKept
<1>11. CASE Pbft!InjectByzantine \/ Pbft!RecoverByzantine \/ Pbft!CrashReplica
  BY <1>1, <1>5, <1>10, <1>11 DEF Pbft!InjectByzantine, Pbft!RecoverByzantine, Pbft!CrashReplica
<1>12. CASE Pbft!SetReplicas \/ Pbft!Reset
  <2>1. \E m \in Nat : d = Pbft!DefaultCluster(m)
    BY <1>1, <1>12 DEF Pbft!SetReplicas, Pbft!Reset, PbftAssumption
  <2> QED
    BY <2>1, PbftStarts
<1> QED
  BY <1>6, <1>7, <1>8, <1>9, <1>11, <1>12 DEF Pbft!Next

\* And what they commit a quorum has prepared.
LEMMA PbftHolds ==
    ASSUME PbftInv PROVE Pbft!TypeOK /\ Pbft!CommittedByQuorum
<1>1. PICK n \in Nat : st \in PbftCluster(n)
  BY DEF PbftInv, PbftGood
<1>2. st.reps \in [0 .. n - 1 -> PbftReplica(n)]
  BY <1>1 DEF PbftCluster
<1>3. Quorate(st) /\ LogsOrdered(st)
  BY DEF PbftInv, PbftGood
<1>4. Pbft!CommittedByQuorum
  BY <1>3, SameOperators DEF Pbft!CommittedByQuorum, Quorate, Prepared
<1>5. ASSUME NEW i \in DOMAIN st.reps, NEW k \in 1 .. Len(st.reps[i].log) - 1
      PROVE  st.reps[i].log[k].seq <= st.reps[i].log[k + 1].seq
  <2>1. PICK h : h = st.reps[i].log
    OBVIOUS
  <2>2. h \in Seq(LogEntry)
    BY <1>2, <2>1 DEF PbftReplica
  <2>3. k \in DOMAIN h /\ k < Len(h)
    BY <1>5, <2>1, <2>2
  <2> QED
    BY <1>3, <2>1, <2>3 DEF LogsOrdered
<1>6. /\ st.phase \in {"idle", "pre-prepare", "prepare", "commit", "reply"} /\ st.view \in 0 .. MaxView
      /\ \A i \in DOMAIN st.reps : st.reps[i].prepares \subseteq DOMAIN st.reps /\ st.reps[i].commits \subseteq DOMAIN st.reps
  <2>1. \A i \in 0 .. n - 1 : st.reps[i].prepares \subseteq 0 .. n - 1 /\ st.reps[i].commits \subseteq 0 .. n - 1
    BY <1>2 DEF PbftReplica
  <2> QED
    BY <1>1, <1>2, <2>1 DEF PbftCluster
<1>7. Pbft!TypeOK
  BY <1>5, <1>6 DEF Pbft!TypeOK
<1> QED
  BY <1>4, <1>7

-----------------------------------------------------------------------------
(* The candidates of consensus/dposvoting.                                 *)

Electorate == DOMAIN StakeOf
Candidate == [votes : Nat, blocks : Nat, impeached : BOOLEAN, active : BOOLEAN]
DposState == [votedFor : [Electorate -> 0 .. Candidates], cand : [Dpos!Names -> Candidate], slots : Nat, height : Nat]
Supporters(s, c) == {v \in Electorate : s.votedFor[v] = c}
Active(s) == {c \in Dpos!Names : s.cand[c].active}

\* Nobody votes for the impeached; a candidate has the stakes of its supporters.
DposGood(s) ==
    /\ s \in DposState
    /\ \A c \in Dpos!Names :
         /\ s.cand[c].blocks <= s.height
         /\ s.cand[c].active => ~s.cand[c].impeached
         /\ s.cand[c].impeached => Supporters(s, c) = {}
         /\ s.cand[c].votes = SumOver(StakeOf, Supporters(s, c))
    /\ Cardinality(Active(s)) <= s.slots
DposInv == DposGood(st)

\* The stake of some voters, and nobody's.
LEMMA StakesAdd ==
    ASSUME DposAssumption, NEW S \in SUBSET Electorate
    PROVE  /\ IsFiniteSet(S) /\ \A v \in S : StakeOf[v] \in Nat
           /\ SumOver(StakeOf, S) \in Nat /\ SumOver(StakeOf, {}) = 0
           /\ Dpos!MapThenSumSet(LAMBDA v : StakeOf[v], S) = SumOver(StakeOf, S)
<1>1. IsFiniteSet(S) /\ \A v \in S : StakeOf[v] \in Nat
  BY FS_Subset DEF DposAssumption, Electorate
<1>2. SumOver(StakeOf, S) \in Nat
  BY <1>1, SumsNatural
<1>3. SumOver(StakeOf, {}) = 0
  BY Sums, FS_EmptySet
<1>4. Dpos!MapThenSumSet(LAMBDA v : StakeOf[v], S) = SumOver(StakeOf, S)
  BY DEF Dpos!MapThenSumSet, Dpos!MapThenFoldSet, SumOver, IsSumOf
<1> QED
  BY <1>1, <1>2, <1>3, <1>4

\* Counting the votes again.
LEMMA DposRebuilds ==
    ASSUME DposAssumption, NEW s \in DposState, NEW r, r = Dpos!RebuildVotes(s)
    PROVE  /\ r \in DposState /\ r.votedFor = s.votedFor /\ r.slots = s.slots /\ r.height = s.height
           /\ \A c \in Dpos!Names :
                /\ r.cand[c].blocks = s.cand[c].blocks /\ r.cand[c].impeached = s.cand[c].impeached
                /\ r.cand[c].active = s.cand[c].active
                /\ r.cand[c].votes = IF s.cand[c].impeached THEN 0 ELSE SumOver(StakeOf, Supporters(s, c))
<1> DEFINE now(c) == IF s.cand[c].impeached THEN 0 ELSE SumOver(StakeOf, Supporters(s, c))
           to(c) == [s.cand[c] EXCEPT !.votes = now(c)]
           cand == [c \in Dpos!Names |-> to(c)]
<1>1. \A c \in Dpos!Names : now(c) \in Nat
  BY StakesAdd DEF Supporters
<1>2. \A c : Dpos!MapThenSumSet(LAMBDA v : StakeOf[v], {v \in DOMAIN StakeOf : s.votedFor[v] = c}) = SumOver(StakeOf, Supporters(s, c))
  BY DEF Dpos!MapThenSumSet, Dpos!MapThenFoldSet, SumOver, IsSumOf, Supporters, Electorate
<1>3. r = [s EXCEPT !.cand = cand]
  BY <1>2 DEF Dpos!RebuildVotes
<1>4. \A c \in Dpos!Names : s.cand[c] \in Candidate
  BY DEF DposState
<1>5. \A c \in Dpos!Names : /\ to(c) \in Candidate /\ to(c).votes = now(c) /\ to(c).blocks = s.cand[c].blocks
                            /\ to(c).impeached = s.cand[c].impeached /\ to(c).active = s.cand[c].active
  <2> TAKE c \in Dpos!Names
  <2>1. PICK x, n : x = s.cand[c] /\ n = now(c)
    OBVIOUS
  <2>2. x \in Candidate /\ n \in Nat /\ to(c) = [x EXCEPT !.votes = n]
    BY <1>1, <1>4, <2>1
  <2> HIDE DEF to, now
  <2> QED
    BY <2>1, <2>2 DEF Candidate
<1> HIDE DEF to
<1>6. cand \in [Dpos!Names -> Candidate] /\ \A c \in Dpos!Names : cand[c] = to(c)
  BY <1>5
<1> HIDE DEF cand
<1>7. /\ r \in DposState /\ r.votedFor = s.votedFor /\ r.slots = s.slots /\ r.height = s.height /\ r.cand = cand
  BY <1>3, <1>6 DEF DposState
<1> QED
  BY <1>5, <1>6, <1>7

\* Of the fit, those that have fewer than n of them before them are at most n.
LEMMA DposSeats ==
    ASSUME DposAssumption, NEW s \in DposState
    PROVE  Dpos!Elected(s) \subseteq Dpos!Names /\ Cardinality(Dpos!Elected(s)) <= s.slots
           /\ \A c \in Dpos!Elected(s) : ~s.cand[c].impeached
<1> DEFINE fit == {c \in Dpos!Names : ~s.cand[c].impeached /\ s.cand[c].votes > 0}
           ahead(c) == {b \in fit : Dpos!Before(s, b, c)}
           n(c) == Cardinality(ahead(c))
           E == Dpos!Elected(s)
<1>1. E = {c \in fit : n(c) < s.slots}
  BY SameOperators DEF Dpos!Elected
<1>2. IsFiniteSet(fit) /\ IsFiniteSet(E) /\ E \subseteq fit /\ Cardinality(E) \in Nat
  <2>1. IsFiniteSet(Dpos!Names)
    <3>1. Candidates \in Int /\ 1 \in Int
      BY DEF DposAssumption
    <3> QED
      BY <3>1, FS_Interval DEF Dpos!Names
  <2>2. fit \in SUBSET Dpos!Names /\ E \in SUBSET fit
    BY <1>1
  <2> HIDE DEF fit, E
  <2> QED
    BY <2>1, <2>2, FS_Subset, FS_CardinalityType
<1>3. \A c \in fit : IsFiniteSet(ahead(c)) /\ n(c) \in Nat
  <2> TAKE c \in fit
  <2>1. ahead(c) \in SUBSET fit
    OBVIOUS
  <2> HIDE DEF ahead, fit
  <2> QED
    BY <1>2, <2>1, FS_Subset, FS_CardinalityType
<1>4. \A a \in Dpos!Names, b \in Dpos!Names :
         /\ Dpos!Before(s, a, b) \/ Dpos!Before(s, b, a) \/ a = b
         /\ ~Dpos!Before(s, a, a)
         /\ \A c \in Dpos!Names : Dpos!Before(s, a, b) /\ Dpos!Before(s, b, c) => Dpos!Before(s, a, c)
  <2>1. \A a \in Dpos!Names : s.cand[a].votes \in Nat
    <3>1. \A a \in Dpos!Names : s.cand[a] \in Candidate
      BY DEF DposState
    <3> QED
      BY <3>1 DEF Candidate
  <2>2. Dpos!Names \subseteq Int
    BY DEF Dpos!Names
  <2> QED
    BY <2>1, <2>2 DEF Dpos!Before
<1>5. s.slots \in Nat
  BY DEF DposState
<1>6. CASE E = {}
  BY <1>5, <1>6, FS_EmptySet
<1>7. CASE E # {}
  <2> DEFINE places == {n(c) : c \in E}
  <2>1. PICK c \in E : \A e \in E : n(c) >= n(e)
    <3> DEFINE f == [c \in E |-> n(c)]
    <3>1. IsFiniteSet({f[c] : c \in E})
      <4> HIDE DEF f, E
      <4> QED
        BY <1>2, FiniteValues
    <3>2. {f[c] : c \in E} \in SUBSET Int /\ {f[c] : c \in E} # {} /\ \A c \in E : f[c] = n(c)
      <4> HIDE DEF n, E, fit
      <4>1. \A c \in E : f[c] = n(c)
        OBVIOUS
      <4>2. \A c \in E : n(c) \in Int
        <5> HIDE DEF ahead
        <5>1. \A c \in fit : n(c) \in Nat
          BY <1>3
        <5> QED
          BY <1>2, <5>1
      <4> HIDE DEF f
      <4> QED
        BY <1>7, <4>1, <4>2
    <3> DEFINE T == {f[c] : c \in E}
    <3> HIDE DEF f, n, E, fit
    <3>3. T # {} /\ T \in SUBSET Int /\ IsFiniteSet(T)
      BY <3>1, <3>2
    <3> HIDE DEF T
    <3>4. \E x \in T : \A y \in T : x >= y
      BY <3>3, GreatestElement
    <3> QED
      BY <3>2, <3>4 DEF T
  <2>2. \A e \in E : e # c => e \in ahead(c)
    <3> SUFFICES ASSUME NEW e \in E, e # c PROVE e \in ahead(c)
      OBVIOUS
    <3>1. e \in fit /\ c \in fit /\ e \in Dpos!Names /\ c \in Dpos!Names
      BY <1>1
    <3>2. ASSUME Dpos!Before(s, c, e) PROVE FALSE
      <4>1. ahead(c) \union {c} \subseteq ahead(e) /\ c \notin ahead(c)
        BY <1>4, <3>1, <3>2
      <4> HIDE DEF ahead, fit, E
      <4>2. Cardinality(ahead(c) \union {c}) = n(c) + 1
        BY <1>3, <3>1, <4>1, FS_AddElement
      <4>3. n(c) + 1 <= n(e)
        BY <1>3, <3>1, <4>1, <4>2, FS_Subset
      <4> HIDE DEF n
      <4> QED
        BY <1>3, <2>1, <3>1, <4>3
    <3>3. Dpos!Before(s, e, c)
      BY <1>4, <3>1, <3>2
    <3> QED
      BY <3>1, <3>3
  <2>3. c \in fit /\ n(c) < s.slots
    BY <1>1
  <2> HIDE DEF ahead, E, fit
  <2>4. Cardinality(E \ {c}) = Cardinality(E) - 1
    BY <1>2, FS_RemoveElement
  <2>5. Cardinality(E \ {c}) <= n(c)
    BY <1>3, <2>2, <2>3, FS_Subset
  <2> QED
    <3>1. Cardinality(E) <= s.slots
      <4> HIDE DEF n
      <4> QED
        BY <1>2, <1>3, <1>5, <2>3, <2>4, <2>5
    <3> QED
      BY <3>1, <1>1 DEF E, fit
<1> QED
  BY <1>1, <1>6, <1>7

\* An election.
LEMMA DposElects ==
    ASSUME DposAssumption, NEW s \in DposState, NEW r, r = Dpos!RunElection(s),
           \A c \in Dpos!Names : /\ s.cand[c].blocks <= s.height
                                 /\ s.cand[c].impeached => Supporters(s, c) = {}
    PROVE  DposGood(r)
<1> DEFINE t == Dpos!RebuildVotes(s)
           chosen == Dpos!Elected(t)
           to(c) == [t.cand[c] EXCEPT !.active = c \in chosen]
           cand == [c \in Dpos!Names |-> to(c)]
<1>1. /\ t \in DposState /\ t.votedFor = s.votedFor /\ t.slots = s.slots /\ t.height = s.height
      /\ \A c \in Dpos!Names :
           /\ t.cand[c].blocks = s.cand[c].blocks /\ t.cand[c].impeached = s.cand[c].impeached
           /\ t.cand[c].votes = IF s.cand[c].impeached THEN 0 ELSE SumOver(StakeOf, Supporters(s, c))
  BY DposRebuilds
<1>2. chosen \subseteq Dpos!Names /\ Cardinality(chosen) <= t.slots /\ \A c \in chosen : ~t.cand[c].impeached
  <2> HIDE DEF t
  <2> QED
    BY <1>1, DposSeats
<1>3. r = [t EXCEPT !.cand = cand]
  BY DEF Dpos!RunElection
<1> HIDE DEF t, chosen
<1>4. \A c \in Dpos!Names : t.cand[c] \in Candidate
  BY <1>1 DEF DposState
<1>5. \A c \in Dpos!Names : /\ to(c) \in Candidate /\ to(c).votes = t.cand[c].votes /\ to(c).blocks = t.cand[c].blocks
                            /\ to(c).impeached = t.cand[c].impeached /\ (to(c).active <=> c \in chosen)
  <2> TAKE c \in Dpos!Names
  <2>1. PICK x, b : x = t.cand[c] /\ b = (c \in chosen)
    OBVIOUS
  <2>2. x \in Candidate /\ b \in BOOLEAN /\ to(c) = [x EXCEPT !.active = b]
    BY <1>4, <2>1
  <2> HIDE DEF to
  <2> QED
    BY <2>1, <2>2 DEF Candidate
<1> HIDE DEF to
<1>6. cand \in [Dpos!Names -> Candidate] /\ \A c \in Dpos!Names : cand[c] = to(c)
  BY <1>5
<1> HIDE DEF cand
<1>7. r \in DposState /\ r.votedFor = s.votedFor /\ r.slots = s.slots /\ r.height = s.height /\ r.cand = cand
  BY <1>1, <1>3, <1>6 DEF DposState
<1>8. \A c : Supporters(r, c) = Supporters(s, c)
  BY <1>7 DEF Supporters
<1>9. Active(r) = chosen
  BY <1>2, <1>5, <1>6, <1>7 DEF Active
<1>10. SumOver(StakeOf, {}) = 0
  BY StakesAdd
<1>11. \A c \in Dpos!Names :
         /\ r.cand[c].blocks <= r.height
         /\ r.cand[c].active => ~r.cand[c].impeached
         /\ r.cand[c].impeached => Supporters(r, c) = {}
         /\ r.cand[c].votes = SumOver(StakeOf, Supporters(r, c))
  <2> TAKE c \in Dpos!Names
  <2>1. /\ r.cand[c].blocks = s.cand[c].blocks /\ r.cand[c].impeached = s.cand[c].impeached
        /\ r.cand[c].votes = IF s.cand[c].impeached THEN 0 ELSE SumOver(StakeOf, Supporters(s, c))
        /\ r.cand[c].active <=> c \in chosen
    BY <1>1, <1>5, <1>6, <1>7
  <2>2. c \in chosen => ~s.cand[c].impeached
    BY <1>1, <1>2
  <2>3. s.cand[c].blocks <= s.height /\ (s.cand[c].impeached => Supporters(s, c) = {})
    OBVIOUS
  <2> QED
    BY <1>7, <1>8, <1>10, <2>1, <2>2, <2>3
<1> QED
  BY <1>1, <1>2, <1>7, <1>9, <1>11 DEF DposGood

\* Another vote.
LEMMA DposVotes ==
    ASSUME DposAssumption, NEW s, DposGood(s), NEW v \in Electorate, NEW c \in 0 .. Candidates,
           c \in Dpos!Names => ~s.cand[c].impeached,
           NEW r, r = Dpos!RebuildVotes([s EXCEPT !.votedFor[v] = c])
    PROVE  DposGood(r)
<1> DEFINE t == [s EXCEPT !.votedFor[v] = c]
<1>0. s \in DposState
  BY DEF DposGood
<1>1. /\ t \in DposState /\ t.cand = s.cand /\ t.height = s.height /\ t.slots = s.slots
      /\ \A u \in Electorate : t.votedFor[u] = IF u = v THEN c ELSE s.votedFor[u]
  BY <1>0 DEF DposState
<1>8. r = Dpos!RebuildVotes(t)
  OBVIOUS
<1> HIDE DEF t
<1>2. /\ r \in DposState /\ r.votedFor = t.votedFor /\ r.slots = t.slots /\ r.height = t.height
      /\ \A x \in Dpos!Names :
           /\ r.cand[x].blocks = t.cand[x].blocks /\ r.cand[x].impeached = t.cand[x].impeached
           /\ r.cand[x].active = t.cand[x].active
           /\ r.cand[x].votes = IF t.cand[x].impeached THEN 0 ELSE SumOver(StakeOf, Supporters(t, x))
  BY <1>1, <1>8, DposRebuilds
<1>3. \A x : Supporters(r, x) = Supporters(t, x)
  BY <1>2 DEF Supporters
<1>4. ASSUME NEW x \in Dpos!Names, s.cand[x].impeached PROVE Supporters(t, x) = {}
  <2>1. Supporters(s, x) = {} /\ x # c
    BY <1>4 DEF DposGood
  <2> QED
    BY <1>1, <2>1 DEF Supporters
<1>5. SumOver(StakeOf, {}) = 0
  BY StakesAdd
<1>6. Active(r) = Active(s)
  BY <1>1, <1>2 DEF Active
<1>7. \A x \in Dpos!Names :
         /\ r.cand[x].blocks <= r.height
         /\ r.cand[x].active => ~r.cand[x].impeached
         /\ r.cand[x].impeached => Supporters(r, x) = {}
         /\ r.cand[x].votes = SumOver(StakeOf, Supporters(r, x))
  BY <1>1, <1>2, <1>3, <1>4, <1>5 DEF DposGood
<1> QED
  BY <1>1, <1>2, <1>6, <1>7 DEF DposGood

\* The candidates start there.
LEMMA DposStarts ==
    ASSUME DposAssumption PROVE DposGood(Dpos!Fresh)
<1> DEFINE s == Dpos!Fresh
           none == [votes |-> 0, blocks |-> 0, impeached |-> FALSE, active |-> FALSE]
<1>1. none \in Candidate /\ ~none.active /\ ~none.impeached /\ none.votes = 0 /\ none.blocks = 0
  BY DEF Candidate
<1>2. Slots[1] \in Nat /\ 0 \in 0 .. Candidates
  BY DEF DposAssumption
<1>3. s = [votedFor |-> [v \in Electorate |-> 0], cand |-> [c \in Dpos!Names |-> none], slots |-> Slots[1], height |-> 0]
  BY DEF Dpos!Fresh, Dpos!NoOne, Electorate
<1> SUFFICES DposGood(s)
  OBVIOUS
<1> HIDE DEF s, none
<1>4. /\ s \in DposState /\ s.slots = Slots[1] /\ s.height = 0 /\ \A c \in Dpos!Names : s.cand[c] = none
      /\ \A v \in Electorate : s.votedFor[v] = 0
  BY <1>1, <1>2, <1>3 DEF DposState
<1>5. \A c \in Dpos!Names : Supporters(s, c) = {}
  BY <1>4 DEF Supporters, Dpos!Names
<1>6. Active(s) = {} /\ Cardinality({}) = 0
  BY <1>1, <1>4, FS_EmptySet DEF Active
<1>7. SumOver(StakeOf, {}) = 0
  BY StakesAdd
<1> QED
  <2>1. \A c \in Dpos!Names : /\ s.cand[c].blocks = 0 /\ ~s.cand[c].active /\ s.cand[c].votes = 0
    BY <1>1, <1>4
  <2>2. \A c \in Dpos!Names : SumOver(StakeOf, Supporters(s, c)) = 0
    BY <1>5, <1>7
  <2>3. 0 <= s.height /\ Cardinality(Active(s)) <= s.slots
    BY <1>2, <1>4, <1>6
  <2>4. \A c \in Dpos!Names : s.cand[c].blocks <= s.height
    BY <2>1, <2>3
  <2> QED
    BY <1>4, <1>5, <2>1, <2>2, <2>3, <2>4 DEF DposGood

\* The candidates stay there.
LEMMA DposGoesOn ==
    ASSUME DposAssumption, DposInv, Dpos!Next PROVE DposInv'
<1>1. PICK s, d : s = st /\ d = st'
  OBVIOUS
<1>2. DposGood(s)
  BY <1>1 DEF DposInv
<1> SUFFICES DposGood(d)
  BY <1>1 DEF DposInv
<1>3. s \in DposState
  BY <1>2 DEF DposGood
<1>4. CASE Dpos!Reset
  BY <1>1, <1>4, DposStarts DEF Dpos!Reset
<1>5. CASE Dpos!Elect
  BY <1>1, <1>2, <1>3, <1>5, DposElects DEF Dpos!Elect, DposGood
<1>6. CASE Dpos!SetActiveSlots
  <2>1. PICK n \in DOMAIN Slots : d = Dpos!RunElection([s EXCEPT !.slots = Slots[n]])
    BY <1>1, <1>6 DEF Dpos!SetActiveSlots
  <2> DEFINE t == [s EXCEPT !.slots = Slots[n]]
  <2>2. Slots[n] \in Nat
    BY DEF DposAssumption
  <2>3. t \in DposState /\ t.cand = s.cand /\ t.height = s.height /\ t.votedFor = s.votedFor
    BY <1>3, <2>2 DEF DposState
  <2>4. d = Dpos!RunElection(t)
    BY <2>1
  <2> HIDE DEF t
  <2>5. \A c \in Dpos!Names : t.cand[c].blocks <= t.height /\ (t.cand[c].impeached => Supporters(t, c) = {})
    BY <1>2, <2>3 DEF DposGood, Supporters
  <2> QED
    BY <2>3, <2>4, <2>5, DposElects
<1>7. ASSUME NEW v \in Electorate, NEW c \in Dpos!Names, Dpos!Vote(v, c) PROVE DposGood(d)
  <2>1. c \in 0 .. Candidates /\ ~s.cand[c].impeached /\ d = Dpos!RebuildVotes([s EXCEPT !.votedFor[v] = c])
    BY <1>1, <1>7 DEF Dpos!Vote, Dpos!Names, DposAssumption
  <2> QED
    BY <1>2, <2>1, DposVotes
<1>8. ASSUME NEW v \in Electorate, Dpos!WithdrawVote(v) PROVE DposGood(d)
  <2>1. 0 \in 0 .. Candidates /\ 0 \notin Dpos!Names /\ d = Dpos!RebuildVotes([s EXCEPT !.votedFor[v] = 0])
    BY <1>1, <1>8 DEF Dpos!WithdrawVote, Dpos!Names, Dpos!NoOne, DposAssumption
  <2> QED
    BY <1>2, <2>1, DposVotes
<1>9. ASSUME NEW c \in Dpos!Names, Dpos!Impeach(c) PROVE DposGood(d)
  <2> DEFINE votedFor == [v \in Electorate |-> IF s.votedFor[v] = c THEN 0 ELSE s.votedFor[v]]
             t == [s EXCEPT !.cand[c].impeached = TRUE, !.votedFor = votedFor]
  <2>1. s.votedFor \in [Electorate -> 0 .. Candidates] /\ s.cand \in [Dpos!Names -> Candidate]
    BY <1>3 DEF DposState
  <2>2. d = Dpos!RunElection(t)
    BY <1>1, <1>9, <2>1 DEF Dpos!Impeach, Dpos!NoOne
  <2>3. votedFor \in [Electorate -> 0 .. Candidates]
    BY <2>1 DEF DposAssumption
  <2>4. PICK x : x = s.cand[c]
    OBVIOUS
  <2>5. x \in Candidate
    BY <2>1, <2>4
  <2>6. [x EXCEPT !.impeached = TRUE] \in Candidate /\ [x EXCEPT !.impeached = TRUE].blocks = x.blocks
    BY <2>5 DEF Candidate
  <2> DEFINE cand == [s.cand EXCEPT ![c] = [x EXCEPT !.impeached = TRUE]]
  <2>7. cand \in [Dpos!Names -> Candidate] /\ \A b \in Dpos!Names : /\ cand[b].blocks = s.cand[b].blocks
                                                                    /\ b # c => cand[b] = s.cand[b]
    BY <2>1, <2>4, <2>6
  <2>8. t = [s EXCEPT !.cand = cand, !.votedFor = votedFor]
    BY <2>4
  <2> HIDE DEF t, cand, votedFor
  <2>9. t \in DposState /\ t.cand = cand /\ t.votedFor = votedFor /\ t.height = s.height
    BY <1>3, <2>3, <2>7, <2>8 DEF DposState
  <2>10. \A b \in Dpos!Names : t.cand[b].blocks <= t.height
    BY <1>2, <2>7, <2>9 DEF DposGood
  <2>11. \A b \in Dpos!Names : t.cand[b].impeached => Supporters(t, b) = {}
    <3> SUFFICES ASSUME NEW b \in Dpos!Names, t.cand[b].impeached, NEW v \in Electorate PROVE votedFor[v] # b
      BY <2>9 DEF Supporters
    <3>1. b # 0
      BY DEF Dpos!Names
    <3>2. CASE b = c
      BY <3>1, <3>2 DEF votedFor
    <3>3. CASE b # c
      <4>1. s.votedFor[v] # b
        BY <1>2, <2>7, <2>9, <3>3 DEF DposGood, Supporters
      <4> QED
        BY <3>1, <4>1 DEF votedFor
    <3> QED
      BY <3>2, <3>3
  <2> QED
    BY <2>2, <2>9, <2>10, <2>11, DposElects
<1>10. CASE Dpos!ProduceBlock
  <2>1. PICK p : d = [s EXCEPT !.height = @ + 1, !.cand[p].blocks = @ + 1]
    BY <1>1, <1>10 DEF Dpos!ProduceBlock
  <2>2. s.cand \in [Dpos!Names -> Candidate] /\ s.height \in Nat
    BY <1>3 DEF DposState
  <2> DEFINE cand == [s.cand EXCEPT ![p] = [s.cand[p] EXCEPT !.blocks = s.cand[p].blocks + 1]]
  <2>3. d = [s EXCEPT !.height = s.height + 1, !.cand = cand]
    BY <2>1
  <2>4. /\ cand \in [Dpos!Names -> Candidate]
        /\ \A c \in Dpos!Names :
             /\ cand[c].blocks \in Nat /\ cand[c].blocks <= s.cand[c].blocks + 1 /\ cand[c].votes = s.cand[c].votes
             /\ cand[c].impeached = s.cand[c].impeached /\ cand[c].active = s.cand[c].active
    <3>1. CASE p \notin Dpos!Names
      <4>1. cand = s.cand
        BY <2>2, <3>1
      <4>2. \A c \in Dpos!Names : s.cand[c].blocks \in Nat
        BY <2>2 DEF Candidate
      <4> HIDE DEF cand
      <4> QED
        BY <2>2, <4>1, <4>2
    <3>2. CASE p \in Dpos!Names
      <4>1. PICK x : x = s.cand[p]
        OBVIOUS
      <4>2. x \in Candidate
        BY <2>2, <3>2, <4>1
      <4> DEFINE y == [x EXCEPT !.blocks = x.blocks + 1]
      <4>3. y \in Candidate /\ y.blocks = x.blocks + 1 /\ y.votes = x.votes /\ y.impeached = x.impeached /\ y.active = x.active
        BY <4>2 DEF Candidate
      <4>4. cand = [s.cand EXCEPT ![p] = y]
        BY <4>1
      <4>5. \A c \in Dpos!Names : s.cand[c].blocks \in Nat
        BY <2>2 DEF Candidate
      <4> HIDE DEF y, cand
      <4>6. cand \in [Dpos!Names -> Candidate] /\ \A c \in Dpos!Names : cand[c] = IF c = p THEN y ELSE s.cand[c]
        BY <2>2, <4>3, <4>4
      <4> QED
        BY <3>2, <4>1, <4>3, <4>5, <4>6
    <3> QED
      BY <3>1, <3>2
  <2> HIDE DEF cand
  <2>10. PICK n \in Nat : n = s.height + 1
    BY <2>2
  <2>11. d = [s EXCEPT !.height = n, !.cand = cand] /\ cand \in [Dpos!Names -> Candidate]
    BY <2>3, <2>4, <2>10
  <2>12. d \in DposState /\ d.cand = cand /\ d.height = n /\ d.votedFor = s.votedFor /\ d.slots = s.slots
    BY <1>3, <2>11 DEF DposState
  <2>5. d \in DposState /\ d.cand = cand /\ d.height = s.height + 1 /\ d.votedFor = s.votedFor /\ d.slots = s.slots
    BY <2>10, <2>12
  <2>6. \A c \in Dpos!Names : s.cand[c].blocks \in Nat
    BY <2>2 DEF Candidate
  <2>7. \A c : Supporters(d, c) = Supporters(s, c)
    BY <2>5 DEF Supporters
  <2>8. Active(d) = Active(s)
    BY <2>4, <2>5 DEF Active
  <2>9. \A c \in Dpos!Names : d.cand[c].blocks <= d.height
    BY <1>2, <2>2, <2>4, <2>5, <2>6 DEF DposGood
  <2> QED
    BY <1>2, <2>4, <2>5, <2>7, <2>8, <2>9 DEF DposGood
<1> QED
  BY <1>4, <1>5, <1>6, <1>7, <1>8, <1>9, <1>10 DEF Dpos!Next, Electorate

\* And there the seats are right.
LEMMA DposHolds ==
    ASSUME DposAssumption, DposInv PROVE Dpos!TypeOK /\ Dpos!SeatsRight
<1>0. PICK s : s = st
  OBVIOUS
<1>1. s \in DposState /\ DposGood(s)
  BY <1>0 DEF DposInv, DposGood
<1>2. s.cand \in [Dpos!Names -> Candidate] /\ s.votedFor \in [Electorate -> 0 .. Candidates]
  BY <1>1 DEF DposState
<1>3. \A c \in Dpos!Names : s.cand[c].votes \in Nat
  BY <1>2 DEF Candidate
<1>4. Dpos!TypeOK
  <2>1. \A v \in DOMAIN StakeOf : s.votedFor[v] \in Dpos!Names \union {Dpos!NoOne}
    BY <1>2 DEF Electorate, Dpos!Names, Dpos!NoOne, DposAssumption
  <2> QED
    BY <1>0, <1>1, <1>3, <2>1 DEF Dpos!TypeOK, DposGood
<1> DEFINE votes == [c \in Dpos!Names |-> s.cand[c].votes]
           IsSum(h) == h = [S \in SUBSET Dpos!Names |-> IF S = {} THEN 0
                              ELSE LET c == CHOOSE c \in S : TRUE IN s.cand[c].votes + h[S \ {c}]]
<1>5. \A h : IsSum(h) <=> IsSumOf(h, votes, Dpos!Names)
  <2> TAKE h
  <2>1. \A S \in SUBSET Dpos!Names : S # {} => LET c == CHOOSE c \in S : TRUE IN votes[c] = s.cand[c].votes
    <3> SUFFICES ASSUME NEW S \in SUBSET Dpos!Names, S # {}, NEW c, c = CHOOSE x \in S : TRUE
                 PROVE  votes[c] = s.cand[c].votes
      OBVIOUS
    <3>1. c \in S
      OBVIOUS
    <3> QED
      BY <3>1
  <2> DEFINE counts(S) == IF S = {} THEN 0 ELSE LET c == CHOOSE c \in S : TRUE IN s.cand[c].votes + h[S \ {c}]
             table(S) == IF S = {} THEN 0 ELSE LET c == CHOOSE c \in S : TRUE IN votes[c] + h[S \ {c}]
  <2>2. \A S \in SUBSET Dpos!Names : counts(S) = table(S)
    BY <2>1
  <2>3. IsSum(h) <=> h = [S \in SUBSET Dpos!Names |-> counts(S)]
    OBVIOUS
  <2>4. IsSumOf(h, votes, Dpos!Names) <=> h = [S \in SUBSET Dpos!Names |-> table(S)]
    BY DEF IsSumOf
  <2> HIDE DEF votes, IsSum, counts, table
  <2> QED
    BY <2>2, <2>3, <2>4
<1>6. IsFiniteSet(Dpos!Names) /\ \A c \in Dpos!Names : votes[c] = s.cand[c].votes /\ votes[c] \in Int
  <2>1. Candidates \in Int
    BY DEF DposAssumption
  <2> QED
    BY <1>3, <2>1, FS_Interval DEF Dpos!Names
<1>7. Dpos!MapThenSumSet(LAMBDA c : st.cand[c].votes, Dpos!Names) = SumOver(votes, Dpos!Names)
  <2> HIDE DEF votes
  <2>1. \E h : IsSumOf(h, votes, Dpos!Names)
    BY <1>6, AdderExists
  <2> DEFINE h0 == CHOOSE h : IsSum(h)
  <2>2. IsSum(h0)
    <3> HIDE DEF IsSum
    <3> QED
      BY <1>5, <2>1
  <2>3. h0[Dpos!Names] = SumOver(votes, Dpos!Names)
    <3> HIDE DEF IsSum, h0
    <3>1. IsSumOf(h0, votes, Dpos!Names)
      BY <1>5, <2>2
    <3> QED
      BY <1>6, <3>1, Sums
  <2>4. Dpos!MapThenSumSet(LAMBDA c : st.cand[c].votes, Dpos!Names) = h0[Dpos!Names]
    BY <1>0 DEF Dpos!MapThenSumSet, Dpos!MapThenFoldSet
  <2> QED
    BY <2>3, <2>4
<1>8. SumOver(votes, 1 .. Candidates) = SumOver(StakeOf, {v \in Electorate : s.votedFor[v] \in 1 .. Candidates})
  <2>1. \A k \in 1 .. Candidates : votes[k] = SumOver(StakeOf, {v \in Electorate : s.votedFor[v] = k})
    BY <1>1, <1>6 DEF DposGood, Supporters, Dpos!Names
  <2>2. Candidates \in Nat /\ IsFiniteSet(Electorate) /\ \A v \in Electorate : StakeOf[v] \in Int
    <3>1. Electorate \in SUBSET Electorate /\ Candidates \in Nat
      BY DEF DposAssumption
    <3>2. IsFiniteSet(Electorate) /\ \A v \in Electorate : StakeOf[v] \in Nat
      BY <3>1, StakesAdd
    <3> QED
      BY <3>1, <3>2
  <2>3. PICK part, e : part = s.votedFor /\ e = votes
    OBVIOUS
  <2> HIDE DEF votes
  <2>4. \A k \in 1 .. Candidates : e[k] = SumOver(StakeOf, PartAt(Electorate, part, k))
    BY <2>1, <2>3 DEF PartAt
  <2>5. SumOver(e, 1 .. Candidates) = SumOver(StakeOf, PartsTo(Electorate, part, Candidates))
    BY <2>2, <2>4, SumByParts
  <2> QED
    BY <2>3, <2>5 DEF PartsTo
<1>9. {v \in Electorate : s.votedFor[v] \in 1 .. Candidates} = {v \in DOMAIN StakeOf : st.votedFor[v] # Dpos!NoOne}
  BY <1>0, <1>2 DEF Electorate, Dpos!NoOne, DposAssumption
<1>10. Dpos!MapThenSumSet(LAMBDA v : StakeOf[v], {v \in DOMAIN StakeOf : st.votedFor[v] # Dpos!NoOne})
         = SumOver(StakeOf, {v \in DOMAIN StakeOf : st.votedFor[v] # Dpos!NoOne})
  BY DEF Dpos!MapThenSumSet, Dpos!MapThenFoldSet, SumOver, IsSumOf
<1>11. Dpos!MapThenSumSet(LAMBDA c : st.cand[c].votes, Dpos!Names)
         = Dpos!MapThenSumSet(LAMBDA v : StakeOf[v], {v \in DOMAIN StakeOf : st.votedFor[v] # Dpos!NoOne})
  <2> HIDE DEF votes
  <2> QED
    BY <1>7, <1>8, <1>9, <1>10 DEF Dpos!Names
<1>12. \A c \in Active(s) : ~s.cand[c].impeached
  BY <1>1 DEF DposGood, Active
<1>13. Dpos!SeatsRight
  BY <1>0, <1>1, <1>11, <1>12, SameOperators DEF Dpos!SeatsRight, DposGood, Active
<1> QED
  BY <1>4, <1>13

-----------------------------------------------------------------------------
(* The proposals of economic/governancevoting.                             *)

People == Holders \union Newcomers
Choices == {"yes", "no", "abstain"}
VoteRecord == People \X Choices \X Nat
Proposal ==
    [by : People,
     state : {"pending", "active", "succeeded", "defeated", "queued", "executed", "canceled"},
     start : Nat, end : Nat, quorum : Int, records : SUBSET VoteRecord, queued : Nat, due : Nat, at : Nat]
Member(D) == [balance : Nat, to : D \union {""}, from : SUBSET D]
GovernanceState(D) ==
    [voters : [D -> Member(D)], props : Seq(Proposal), epoch : Nat, mode : Modes \union {"token"},
     quorum : Nat, delay : Nat, period : Nat, timelock : Nat]

\* A proposal, as far as it has come: voted on once by each, tallied after its end, due
\* after it was queued.
ProposalFair(p, epoch) ==
    /\ p.start <= p.end /\ IsFiniteSet(p.records)
    /\ \A r, q \in p.records : r[1] = q[1] => r = q
    /\ p.state \in {"succeeded", "queued", "executed"} =>
         /\ Governance!Weight(p, "yes") > Governance!Weight(p, "no") /\ 2 * Governance!Turnout(p) >= p.quorum
         /\ p.end <= epoch
    /\ p.state \in {"queued", "executed"} => p.end <= p.queued
    /\ p.state = "executed" => p.due <= p.at

GovernanceGood(s) ==
    /\ \E D \in SUBSET People : s \in GovernanceState(D)
    /\ \A v \in DOMAIN s.voters : v \notin s.voters[v].from
    /\ \A k \in DOMAIN s.props : ProposalFair(s.props[k], s.epoch)
GovernanceInv == GovernanceGood(st)

\* One element of a sequence is replaced, or each.
LEMMA OneElementChanged ==
    ASSUME NEW S, NEW h \in Seq(S), NEW k \in DOMAIN h, NEW x \in S
    PROVE  /\ [h EXCEPT ![k] = x] \in Seq(S) /\ DOMAIN [h EXCEPT ![k] = x] = DOMAIN h
           /\ \A i \in DOMAIN h : [h EXCEPT ![k] = x][i] = IF i = k THEN x ELSE h[i]
OBVIOUS

LEMMA EachElementChanged ==
    ASSUME NEW S, NEW h \in Seq(S), NEW g, DOMAIN g = DOMAIN h, g = [i \in DOMAIN h |-> g[i]],
           \A i \in DOMAIN h : g[i] \in S
    PROVE  g \in Seq(S)
<1>1. PICK n \in Nat : DOMAIN h = 1 .. n
  OBVIOUS
<1>2. g \in [1 .. n -> S]
  BY <1>1
<1> QED
  BY <1>2

\* The fields of a proposal.
LEMMA ProposalFields ==
    ASSUME NEW p \in Proposal
    PROVE  /\ p.start \in Nat /\ p.end \in Nat /\ p.quorum \in Int /\ p.queued \in Nat /\ p.due \in Nat /\ p.at \in Nat
           /\ p.records \subseteq VoteRecord
BY DEF Proposal

\* What records weigh together is an integer, and depends on them alone.
LEMMA WeightsTyped ==
    ASSUME NEW p, IsFiniteSet(p.records), p.records \subseteq VoteRecord, NEW support
    PROVE  Governance!Weight(p, support) \in Int
<1> DEFINE R == {r \in p.records : r[2] = support}
           f == [r \in R |-> r[3]]
           IsSum(h) == h = [S \in SUBSET R |-> IF S = {} THEN 0
                              ELSE LET r == CHOOSE r \in S : TRUE IN r[3] + h[S \ {r}]]
<1>1. IsFiniteSet(R)
  <2>1. R \in SUBSET p.records
    OBVIOUS
  <2> HIDE DEF R
  <2> QED
    BY <2>1, FS_Subset
<1>2. \A r \in R : f[r] = r[3] /\ f[r] \in Int
  BY DEF VoteRecord
<1> HIDE DEF R, f
<1>3. \A h : IsSum(h) <=> IsSumOf(h, f, R)
  <2> TAKE h
  <2>1. \A S \in SUBSET R : S # {} => LET r == CHOOSE r \in S : TRUE IN f[r] = r[3]
    <3> SUFFICES ASSUME NEW S \in SUBSET R, S # {}, NEW r, r = CHOOSE x \in S : TRUE PROVE f[r] = r[3]
      OBVIOUS
    <3>1. r \in S
      OBVIOUS
    <3> QED
      BY <1>2, <3>1
  <2> QED
    BY <2>1 DEF IsSumOf
<1> DEFINE h0 == CHOOSE h : IsSum(h)
<1>4. \E h : IsSumOf(h, f, R)
  BY <1>1, <1>2, AdderExists
<1>5. IsSumOf(h0, f, R)
  <2>1. IsSum(h0)
    <3> HIDE DEF IsSum
    <3> QED
      BY <1>3, <1>4
  <2> HIDE DEF IsSum, h0
  <2> QED
    BY <1>3, <2>1
<1>6. Governance!Weight(p, support) = h0[R]
  BY DEF Governance!Weight, Governance!MapThenSumSet, Governance!MapThenFoldSet, R
<1> HIDE DEF h0
<1>7. h0[R] = SumOver(f, R) /\ SumOver(f, R) \in Int
  BY <1>1, <1>2, <1>5, Sums
<1> QED
  BY <1>6, <1>7

\* A whole root.
LEMMA RootsTyped ==
    ASSUME NEW n \in Nat PROVE Governance!Root(n) \in Nat
<1> DEFINE S == {r \in 0 .. n : r * r <= n}
<1>1. S \in SUBSET Int /\ 0 \in S /\ S \subseteq Nat
  OBVIOUS
<1>2. IsFiniteSet(S)
  <2>1. S \in SUBSET (0 .. n) /\ IsFiniteSet(0 .. n)
    BY FS_Interval
  <2> HIDE DEF S
  <2> QED
    BY <2>1, FS_Subset
<1>3. Governance!Root(n) = CHOOSE x \in S : \A y \in S : x >= y
  BY DEF Governance!Root, Governance!Max
<1> HIDE DEF S
<1>4. \E x \in S : \A y \in S : x >= y
  BY <1>1, <1>2, GreatestElement
<1> QED
  BY <1>1, <1>3, <1>4

\* What a member weighs, alone, with others, and with those who delegated to it.
LEMMA PowersTyped ==
    ASSUME GovernanceAssumption, NEW D \in SUBSET People, NEW s \in GovernanceState(D)
    PROVE  /\ \A v \in D : Governance!Power(s, v) \in Nat /\ Governance!EffectivePower(s, v) \in Nat
           /\ Governance!Supply(s) \in Nat
<1>1. IsFiniteSet(D)
  BY FS_Subset, FS_Union DEF GovernanceAssumption, People
<1>2. s.voters \in [D -> Member(D)]
  BY DEF GovernanceState
<1>3. \A v \in D : s.voters[v].balance \in Nat /\ s.voters[v].from \in SUBSET D
  BY <1>2 DEF Member
<1>4. \A v \in D : Governance!Power(s, v) \in Nat
  BY <1>3, RootsTyped DEF Governance!Power
<1>5. ASSUME NEW R \in SUBSET D PROVE Governance!Total(s, R) \in Nat
  <2> DEFINE f == [v \in R |-> Governance!Power(s, v)]
             IsSum(h) == h = [S \in SUBSET R |-> IF S = {} THEN 0
                              ELSE LET v == CHOOSE v \in S : TRUE IN Governance!Power(s, v) + h[S \ {v}]]
  <2>1. IsFiniteSet(R)
    BY <1>1, FS_Subset
  <2>2. \A v \in R : f[v] = Governance!Power(s, v) /\ f[v] \in Nat
    BY <1>4
  <2> HIDE DEF f
  <2>3. \A h : IsSum(h) <=> IsSumOf(h, f, R)
    <3> TAKE h
    <3>1. \A S \in SUBSET R : S # {} => LET v == CHOOSE v \in S : TRUE IN f[v] = Governance!Power(s, v)
      <4> SUFFICES ASSUME NEW S \in SUBSET R, S # {}, NEW v, v = CHOOSE x \in S : TRUE
                   PROVE  f[v] = Governance!Power(s, v)
        OBVIOUS
      <4>1. v \in S
        OBVIOUS
      <4> QED
        BY <2>2, <4>1
    <3> DEFINE powers(S) == IF S = {} THEN 0 ELSE LET v == CHOOSE v \in S : TRUE IN Governance!Power(s, v) + h[S \ {v}]
               table(S) == IF S = {} THEN 0 ELSE LET v == CHOOSE v \in S : TRUE IN f[v] + h[S \ {v}]
    <3>2. \A S \in SUBSET R : powers(S) = table(S)
      BY <3>1
    <3>3. IsSum(h) <=> h = [S \in SUBSET R |-> powers(S)]
      OBVIOUS
    <3>4. IsSumOf(h, f, R) <=> h = [S \in SUBSET R |-> table(S)]
      BY DEF IsSumOf
    <3> HIDE DEF IsSum, powers, table
    <3> QED
      BY <3>2, <3>3, <3>4
  <2> DEFINE h0 == CHOOSE h : IsSum(h)
  <2>4. \E h : IsSumOf(h, f, R)
    BY <2>1, <2>2, AdderExists
  <2>5. IsSumOf(h0, f, R)
    <3>1. IsSum(h0)
      <4> HIDE DEF IsSum
      <4> QED
        BY <2>3, <2>4
    <3> HIDE DEF IsSum, h0
    <3> QED
      BY <2>3, <3>1
  <2>6. Governance!Total(s, R) = h0[R]
    BY DEF Governance!Total, Governance!MapThenSumSet, Governance!MapThenFoldSet
  <2> HIDE DEF h0
  <2>7. h0[R] = SumOver(f, R) /\ SumOver(f, R) \in Nat
    BY <2>1, <2>2, <2>5, Sums, SumsNatural
  <2> QED
    BY <2>6, <2>7
<1>6. \A v \in D : Governance!EffectivePower(s, v) \in Nat
  <2> TAKE v \in D
  <2>1. Governance!Total(s, s.voters[v].from) \in Nat /\ Governance!Power(s, v) \in Nat
    BY <1>3, <1>4, <1>5
  <2> QED
    BY <2>1 DEF Governance!EffectivePower
<1>7. Governance!Supply(s) \in Nat
  <2>1. DOMAIN s.voters = D
    BY <1>2
  <2> QED
    BY <1>5, <2>1 DEF Governance!Supply
<1> QED
  BY <1>4, <1>6, <1>7

\* Another proposal in the place of one, and other members.
LEMMA ProposalReplaced ==
    ASSUME NEW s, GovernanceGood(s), NEW k \in DOMAIN s.props, NEW q \in Proposal, ProposalFair(q, s.epoch),
           NEW d, d = [s EXCEPT !.props = [s.props EXCEPT ![k] = q]]
    PROVE  GovernanceGood(d)
<1>1. PICK D \in SUBSET People : s \in GovernanceState(D)
  BY DEF GovernanceGood
<1>2. PICK h, g : h = s.props /\ g = [s.props EXCEPT ![k] = q]
  OBVIOUS
<1>3. h \in Seq(Proposal)
  BY <1>1, <1>2 DEF GovernanceState
<1>4. g \in Seq(Proposal) /\ DOMAIN g = DOMAIN h /\ \A i \in DOMAIN h : g[i] = IF i = k THEN q ELSE h[i]
  BY <1>2, <1>3, OneElementChanged
<1> DEFINE Props == Seq(Proposal)
<1>5. g \in Props /\ d = [s EXCEPT !.props = g]
  BY <1>2, <1>4
<1> HIDE DEF Props
<1>6. d \in GovernanceState(D) /\ d.props = g /\ d.voters = s.voters /\ d.epoch = s.epoch
  BY <1>1, <1>5 DEF GovernanceState, Props
<1> QED
  BY <1>2, <1>4, <1>6 DEF GovernanceGood

LEMMA MembersReplaced ==
    ASSUME NEW s, GovernanceGood(s), NEW E \in SUBSET People, NEW voters \in [E -> Member(E)],
           \A v \in E : v \notin voters[v].from, NEW d, d = [s EXCEPT !.voters = voters]
    PROVE  GovernanceGood(d)
<1>1. PICK D \in SUBSET People : s \in GovernanceState(D)
  BY DEF GovernanceGood
<1> DEFINE Props == Seq(Proposal)
<1> HIDE DEF Props
<1>2. d \in GovernanceState(E) /\ d.props = s.props /\ d.voters = voters /\ d.epoch = s.epoch
  BY <1>1 DEF GovernanceState, Props
<1> QED
  BY <1>2 DEF GovernanceGood

\* The DAO starts fair.
LEMMA GovernanceStarts ==
    ASSUME GovernanceAssumption PROVE GovernanceGood(Governance!Fresh)
<1> DEFINE s == Governance!Fresh
           voters == [v \in Holders |-> Governance!Voter(Tokens[v])]
           Props == Seq(Proposal)
<1>1. s = [voters |-> voters, props |-> <<>>, epoch |-> 0, mode |-> "token", quorum |-> 1, delay |-> 1,
           period |-> 1, timelock |-> 1]
  BY DEF Governance!Fresh
<1>2. voters \in [Holders -> Member(Holders)] /\ \A v \in Holders : voters[v].from = {}
  BY DEF GovernanceAssumption, Governance!Voter, Governance!None, Member
<1>3. <<>> \in Props /\ DOMAIN <<>> = {}
  OBVIOUS
<1> SUFFICES GovernanceGood(s)
  OBVIOUS
<1> HIDE DEF s, voters, Props
<1>4. s \in GovernanceState(Holders) /\ s.props = <<>> /\ s.voters = voters
  BY <1>1, <1>2, <1>3 DEF GovernanceState, Props
<1>5. Holders \in SUBSET People
  BY DEF People
<1> QED
  BY <1>2, <1>3, <1>4, <1>5 DEF GovernanceGood

\* What the members do among themselves.
LEMMA GovernanceMembers ==
    ASSUME GovernanceAssumption, NEW s, s = st, GovernanceGood(s), NEW d, d = st',
           \/ \E v \in DOMAIN s.voters, to \in DOMAIN s.voters : Governance!DelegateTo(v, to)
           \/ \E v \in Newcomers : Governance!DistributeTokens(v)
           \/ \E v \in DOMAIN s.voters : \E new \in Newcomers \ {v} : Governance!SybilAttack(v, new)
    PROVE  GovernanceGood(d)
<1>1. PICK D \in SUBSET People : s \in GovernanceState(D)
  BY DEF GovernanceGood
<1>2. PICK f : f = s.voters
  OBVIOUS
<1>3. f \in [D -> Member(D)] /\ DOMAIN s.voters = D /\ \A v \in D : v \notin f[v].from
  BY <1>1, <1>2 DEF GovernanceState, GovernanceGood
<1>4. \A v \in D : f[v] \in Member(D)
  BY <1>3
<1>5. ASSUME NEW v \in D, NEW to \in D, Governance!DelegateTo(v, to) PROVE GovernanceGood(d)
  <2> DEFINE old == f[v].to
             from(x) == IF x = to THEN f[x].from \union {v} ELSE IF x = old THEN f[x].from \ {v} ELSE f[x].from
             one(x) == [f[x] EXCEPT !.to = IF x = v THEN to ELSE f[x].to, !.from = from(x)]
             voters == [x \in D |-> one(x)]
  <2>1. v # to /\ d = [s EXCEPT !.voters = voters]
    BY <1>2, <1>3, <1>5 DEF Governance!DelegateTo
  <2>2. \A x \in D : one(x) \in Member(D) /\ x \notin one(x).from
    <3> TAKE x \in D
    <3>1. PICK m, a, b : m = f[x] /\ a = (IF x = v THEN to ELSE f[x].to) /\ b = from(x)
      OBVIOUS
    <3>2. m \in Member(D) /\ x \notin m.from
      BY <1>3, <1>4, <3>1
    <3>3. m.to \in D \union {""} /\ m.from \subseteq D
      BY <3>2 DEF Member
    <3>4. b \subseteq D /\ x \notin b
      BY <2>1, <3>1, <3>2, <3>3
    <3>5. a \in D \union {""} /\ one(x) = [m EXCEPT !.to = a, !.from = b]
      BY <3>1, <3>3
    <3> HIDE DEF one
    <3> QED
      BY <3>2, <3>4, <3>5 DEF Member
  <2> HIDE DEF one
  <2>3. voters \in [D -> Member(D)] /\ \A x \in D : x \notin voters[x].from
    BY <2>2
  <2> HIDE DEF voters
  <2> QED
    BY <2>1, <2>3, MembersReplaced
<1>6. ASSUME NEW E \in SUBSET People, D \subseteq E, NEW m \in Member(D), m.from = {} PROVE m \in Member(E)
  BY <1>6 DEF Member
<1>7. ASSUME NEW E \in SUBSET People, D \subseteq E, NEW v \in D PROVE f[v] \in Member(E)
  BY <1>4, <1>7 DEF Member
<1>8. ASSUME NEW v \in Newcomers, Governance!DistributeTokens(v) PROVE GovernanceGood(d)
  <2> DEFINE E == D \union {v}
             one(x) == IF x \notin D THEN Governance!Voter(Gift)
                       ELSE IF x = v THEN [f[x] EXCEPT !.balance = f[x].balance + Gift] ELSE f[x]
             voters == [x \in E |-> one(x)]
  <2>1. d = [s EXCEPT !.voters = voters]
    BY <1>2, <1>3, <1>8 DEF Governance!DistributeTokens
  <2>2. E \in SUBSET People /\ D \subseteq E
    BY DEF People
  <2>3. \A x \in E : one(x) \in Member(E) /\ x \notin one(x).from
    <3> TAKE x \in E
    <3>1. CASE x \notin D
      BY <3>1 DEF Governance!Voter, Governance!None, Member, GovernanceAssumption
    <3>2. CASE x \in D
      <4>1. PICK m : m = f[x]
        OBVIOUS
      <4>2. m \in Member(E) /\ x \notin m.from
        <5> HIDE DEF E
        <5> QED
          BY <1>3, <1>7, <2>2, <3>2, <4>1
      <4>3. m.balance + Gift \in Nat
        <5>1. m.balance \in Nat
          BY <4>2 DEF Member
        <5>2. Gift \in Nat
          BY DEF GovernanceAssumption
        <5> QED
          BY <5>1, <5>2
      <4>4. one(x) = m \/ one(x) = [m EXCEPT !.balance = m.balance + Gift]
        BY <3>2, <4>1
      <4> HIDE DEF one, E
      <4> QED
        BY <4>2, <4>3, <4>4 DEF Member
    <3> QED
      BY <3>1, <3>2
  <2> HIDE DEF one, E
  <2>4. voters \in [E -> Member(E)] /\ \A x \in E : x \notin voters[x].from
    BY <2>3
  <2> HIDE DEF voters
  <2> QED
    BY <2>1, <2>2, <2>4, MembersReplaced
<1>9. ASSUME NEW v \in D, NEW new \in Newcomers \ {v}, Governance!SybilAttack(v, new) PROVE GovernanceGood(d)
  <2> DEFINE E == D \union {new}
             half == f[v].balance \div 2
             one(x) == IF x = v THEN [f[x] EXCEPT !.balance = half] ELSE IF x = new THEN Governance!Voter(half) ELSE f[x]
             voters == [x \in E |-> one(x)]
  <2>1. d = [s EXCEPT !.voters = voters]
    BY <1>2, <1>3, <1>9 DEF Governance!SybilAttack
  <2>2. E \in SUBSET People /\ D \subseteq E
    BY DEF People
  <2>3. half \in Nat
    <3>1. f[v].balance \in Nat
      BY <1>4 DEF Member
    <3> QED
      BY <3>1
  <2> HIDE DEF half
  <2>4. \A x \in E : one(x) \in Member(E) /\ x \notin one(x).from
    <3> TAKE x \in E
    <3>1. CASE x \in D
      <4>1. PICK m : m = f[x]
        OBVIOUS
      <4>2. m \in Member(E) /\ x \notin m.from
        <5> HIDE DEF E
        <5> QED
          BY <1>3, <1>7, <2>2, <3>1, <4>1
      <4>3. Governance!Voter(half) \in Member(E) /\ x \notin Governance!Voter(half).from
        BY <2>3 DEF Governance!Voter, Governance!None, Member
      <4>4. one(x) = m \/ one(x) = [m EXCEPT !.balance = half] \/ one(x) = Governance!Voter(half)
        BY <4>1
      <4> HIDE DEF one, E
      <4> QED
        BY <2>3, <4>2, <4>3, <4>4 DEF Member
    <3>2. CASE x \notin D
      BY <2>3, <3>2 DEF Governance!Voter, Governance!None, Member
    <3> QED
      BY <3>1, <3>2
  <2> HIDE DEF one, E
  <2>5. voters \in [E -> Member(E)] /\ \A x \in E : x \notin voters[x].from
    BY <2>4
  <2> HIDE DEF voters
  <2> QED
    BY <2>1, <2>2, <2>5, MembersReplaced
<1> QED
  BY <1>3, <1>5, <1>8, <1>9

\* What one proposal goes through.
LEMMA GovernanceProposals ==
    ASSUME GovernanceAssumption, NEW s, s = st, GovernanceGood(s), NEW d, d = st', NEW k \in DOMAIN s.props,
           \/ /\ s.props[k].state = "active"
              /\ \E v \in DOMAIN s.voters, support \in Choices : Governance!Cast(k, v, support)
           \/ s.props[k].state \in {"pending", "active"} /\ Governance!Cancel(k)
           \/ s.props[k].state = "succeeded" /\ Governance!Queue(k)
           \/ s.props[k].state = "queued" /\ Governance!Execute(k)
    PROVE  GovernanceGood(d)
<1>1. PICK D \in SUBSET People : s \in GovernanceState(D)
  BY DEF GovernanceGood
<1>2. s.voters \in [D -> Member(D)] /\ s.props \in Seq(Proposal) /\ s.epoch \in Nat /\ s.timelock \in Nat
  BY <1>1 DEF GovernanceState
<1>3. PICK p, h : p = s.props[k] /\ h = s.props
  OBVIOUS
<1>4. p \in Proposal /\ ProposalFair(p, s.epoch)
  BY <1>2, <1>3 DEF GovernanceGood
<1>5. /\ p.start \in Nat /\ p.end \in Nat /\ p.quorum \in Int /\ p.queued \in Nat /\ p.due \in Nat /\ p.at \in Nat
      /\ p.records \subseteq VoteRecord
  BY <1>4, ProposalFields
<1>6. ASSUME NEW v \in D, NEW support \in Choices, p.state = "active", Governance!Cast(k, v, support)
      PROVE  GovernanceGood(d)
  <2> DEFINE r == <<v, support, Governance!EffectivePower(s, v)>>
             records == p.records \union {r}
             q == [p EXCEPT !.records = records]
  <2>1. (\A x \in p.records : x[1] # v) /\ d = [s EXCEPT !.props = [s.props EXCEPT ![k] = q]]
    BY <1>3, <1>6 DEF Governance!Cast
  <2>2. r \in VoteRecord /\ r[1] = v
    BY <1>1, PowersTyped DEF VoteRecord
  <2>3. records \in SUBSET VoteRecord /\ IsFiniteSet(records) /\ \A x, y \in records : x[1] = y[1] => x = y
    <3>1. IsFiniteSet(p.records) /\ \A x, y \in p.records : x[1] = y[1] => x = y
      BY <1>4 DEF ProposalFair
    <3> HIDE DEF r
    <3> QED
      BY <1>5, <2>1, <2>2, <3>1, FS_AddElement
  <2> HIDE DEF records
  <2>4. q \in Proposal /\ q.state = "active" /\ q.records = records /\ q.start = p.start /\ q.end = p.end
    BY <1>4, <1>6, <2>3 DEF Proposal
  <2> HIDE DEF q, r
  <2>5. ProposalFair(q, s.epoch)
    BY <1>4, <2>3, <2>4 DEF ProposalFair
  <2> QED
    BY <2>1, <2>4, <2>5, ProposalReplaced
<1>7. CASE p.state \in {"pending", "active"} /\ Governance!Cancel(k)
  <2> DEFINE q == [p EXCEPT !.state = "canceled"]
  <2>1. d = [s EXCEPT !.props = [s.props EXCEPT ![k] = q]]
    BY <1>3, <1>7 DEF Governance!Cancel
  <2>2. q \in Proposal /\ q.state = "canceled" /\ q.records = p.records /\ q.start = p.start /\ q.end = p.end
    BY <1>4 DEF Proposal
  <2> HIDE DEF q
  <2>3. ProposalFair(q, s.epoch)
    BY <1>4, <2>2 DEF ProposalFair
  <2> QED
    BY <2>1, <2>2, <2>3, ProposalReplaced
<1>8. \A q : q.records = p.records =>
         /\ Governance!Weight(q, "yes") = Governance!Weight(p, "yes") /\ Governance!Weight(q, "no") = Governance!Weight(p, "no")
         /\ Governance!Turnout(q) = Governance!Turnout(p)
  BY DEF Governance!Weight, Governance!Turnout, Governance!MapThenSumSet, Governance!MapThenFoldSet
<1>9. CASE p.state = "succeeded" /\ Governance!Queue(k)
  <2> DEFINE q == [p EXCEPT !.state = "queued", !.queued = s.epoch, !.due = s.epoch + s.timelock]
  <2>1. d = [s EXCEPT !.props = [s.props EXCEPT ![k] = q]]
    BY <1>3, <1>9 DEF Governance!Queue
  <2>2. PICK n \in Nat, m \in Nat : n = s.epoch /\ m = s.epoch + s.timelock
    BY <1>2
  <2>3. /\ q \in Proposal /\ q.state = "queued" /\ q.records = p.records /\ q.start = p.start /\ q.end = p.end
        /\ q.quorum = p.quorum /\ q.queued = s.epoch
    <3>1. q = [p EXCEPT !.state = "queued", !.queued = n, !.due = m]
      BY <2>2
    <3> HIDE DEF q
    <3> QED
      BY <1>4, <2>2, <3>1 DEF Proposal
  <2> HIDE DEF q
  <2>4. ProposalFair(q, s.epoch)
    BY <1>4, <1>8, <1>9, <2>3 DEF ProposalFair
  <2> QED
    BY <2>1, <2>3, <2>4, ProposalReplaced
<1>10. CASE p.state = "queued" /\ Governance!Execute(k)
  <2> DEFINE q == [p EXCEPT !.state = "executed", !.at = s.epoch]
  <2>1. s.epoch >= p.due /\ d = [s EXCEPT !.props = [s.props EXCEPT ![k] = q]]
    BY <1>3, <1>10 DEF Governance!Execute
  <2>2. PICK n \in Nat : n = s.epoch
    BY <1>2
  <2>3. /\ q \in Proposal /\ q.state = "executed" /\ q.records = p.records /\ q.start = p.start /\ q.end = p.end
        /\ q.quorum = p.quorum /\ q.queued = p.queued /\ q.due = p.due /\ q.at = s.epoch
    <3>1. q = [p EXCEPT !.state = "executed", !.at = n]
      BY <2>2
    <3> HIDE DEF q
    <3> QED
      BY <1>4, <2>2, <3>1 DEF Proposal
  <2> HIDE DEF q
  <2>4. p.due <= s.epoch
    BY <1>2, <1>5, <2>1
  <2>5. ProposalFair(q, s.epoch)
    BY <1>4, <1>8, <1>10, <2>3, <2>4 DEF ProposalFair
  <2> QED
    BY <2>1, <2>3, <2>5, ProposalReplaced
<1>11. DOMAIN s.voters = D
  BY <1>2
<1> QED
  BY <1>3, <1>6, <1>7, <1>9, <1>10, <1>11

\* Proposals come, and the epoch goes on.
LEMMA GovernanceTime ==
    ASSUME GovernanceAssumption, NEW s, s = st, GovernanceGood(s), NEW d, d = st',
           \/ Governance!SetParams \/ Governance!AdvanceEpoch
           \/ \E v \in DOMAIN s.voters : Governance!Submit(v)
    PROVE  GovernanceGood(d)
<1>1. PICK D \in SUBSET People : s \in GovernanceState(D)
  BY DEF GovernanceGood
<1> DEFINE Props == Seq(Proposal)
<1>2. /\ s.voters \in [D -> Member(D)] /\ s.props \in Props /\ s.epoch \in Nat /\ s.delay \in Nat /\ s.period \in Nat
      /\ s.quorum \in Nat
  BY <1>1 DEF GovernanceState
<1>3. PICK h : h = s.props
  OBVIOUS
<1>4. h \in Seq(Proposal) /\ \A k \in DOMAIN h : h[k] \in Proposal /\ ProposalFair(h[k], s.epoch)
  BY <1>2, <1>3 DEF GovernanceGood
<1>5. CASE Governance!SetParams
  <2>1. PICK mode \in Modes, q \in Quorums, timelock \in Delays :
          d = [s EXCEPT !.mode = mode, !.quorum = q, !.timelock = timelock]
    BY <1>5 DEF Governance!SetParams
  <2>2. q \in Nat /\ timelock \in Nat
    BY DEF GovernanceAssumption
  <2> HIDE DEF Props
  <2>3. d \in GovernanceState(D) /\ d.props = s.props /\ d.voters = s.voters /\ d.epoch = s.epoch
    BY <1>1, <2>1, <2>2 DEF GovernanceState, Props
  <2> QED
    BY <2>3 DEF GovernanceGood
<1>6. ASSUME NEW v \in D, Governance!Submit(v) PROVE GovernanceGood(d)
  <2> DEFINE start == s.epoch + s.delay
             end == s.epoch + s.delay + s.period
             quorum == Governance!Supply(s) * s.quorum
             p == [by |-> v, state |-> "pending", start |-> start, end |-> end, quorum |-> quorum,
                   records |-> {}, queued |-> 0, due |-> 0, at |-> 0]
             g == Append(h, p)
  <2>1. d = [s EXCEPT !.props = g]
    BY <1>3, <1>6 DEF Governance!Submit
  <2>2. start \in Nat /\ end \in Nat /\ start <= end
    BY <1>2
  <2>3. quorum \in Int
    <3>1. Governance!Supply(s) \in Nat
      BY <1>1, PowersTyped
    <3> QED
      BY <1>2, <3>1
  <2> HIDE DEF start, end, quorum
  <2>4. p \in Proposal /\ p.state = "pending" /\ p.records = {} /\ p.start = start /\ p.end = end
    BY <2>2, <2>3 DEF Proposal, People
  <2> HIDE DEF p
  <2>5. ProposalFair(p, s.epoch)
    BY <2>2, <2>4, FS_EmptySet DEF ProposalFair
  <2>6. /\ g \in Seq(Proposal) /\ DOMAIN g = DOMAIN h \union {Len(h) + 1} /\ g[Len(h) + 1] = p
        /\ \A k \in DOMAIN h : g[k] = h[k]
    BY <1>4, <2>4, OneMoreElement
  <2> HIDE DEF g
  <2>7. g \in Props
    BY <2>6
  <2> HIDE DEF Props
  <2>8. d \in GovernanceState(D) /\ d.props = g /\ d.voters = s.voters /\ d.epoch = s.epoch
    BY <1>1, <2>1, <2>7 DEF GovernanceState, Props
  <2>9. \A k \in DOMAIN g : ProposalFair(g[k], s.epoch)
    BY <1>4, <2>5, <2>6
  <2> QED
    BY <2>8, <2>9 DEF GovernanceGood
<1>7. CASE Governance!AdvanceEpoch
  <2>1. PICK n \in Nat : n = s.epoch + 1 /\ s.epoch <= n
    <3>1. PICK e : e = s.epoch
      OBVIOUS
    <3>2. e \in Nat
      BY <1>2, <3>1
    <3>3. e + 1 \in Nat /\ e <= e + 1
      BY <3>2
    <3> QED
      BY <3>1, <3>3
  <2> DEFINE state(p) == CASE p.state = "pending" /\ n >= p.start -> "active"
                           [] p.state = "active" /\ n >= p.end -> Governance!Tally(p)
                           [] OTHER -> p.state
             g == [k \in DOMAIN h |-> [h[k] EXCEPT !.state = state(h[k])]]
  <2>2. d = [s EXCEPT !.epoch = n, !.props = g]
    BY <1>3, <1>7, <2>1 DEF Governance!AdvanceEpoch
  <2>3. ASSUME NEW p \in Proposal, ProposalFair(p, s.epoch), NEW q, q = [p EXCEPT !.state = state(p)]
        PROVE  q \in Proposal /\ ProposalFair(q, n)
    <3>1. /\ p.start \in Nat /\ p.end \in Nat /\ p.quorum \in Int /\ p.queued \in Nat /\ p.due \in Nat /\ p.at \in Nat
          /\ p.records \subseteq VoteRecord
      BY ProposalFields
    <3>2. Governance!Tally(p) \in {"succeeded", "defeated"}
      BY DEF Governance!Tally
    <3>3. Governance!Tally(p) = "succeeded" => /\ Governance!Weight(p, "yes") > Governance!Weight(p, "no")
                                               /\ 2 * Governance!Turnout(p) >= p.quorum
      <4>1. \A support : Governance!Weight(p, support) \in Int
        BY <2>3, <3>1, WeightsTyped DEF ProposalFair
      <4>2. Governance!Turnout(p) \in Int
        BY <4>1 DEF Governance!Turnout
      <4> QED
        BY <3>1, <4>2 DEF Governance!Tally
    <3>4. PICK to : to = state(p)
      OBVIOUS
    <3>5. \/ to = p.state
          \/ to = "active"
          \/ to = "defeated"
          \/ to = "succeeded" /\ Governance!Tally(p) = "succeeded" /\ p.end <= n
      <4>1. CASE p.state = "pending" /\ n >= p.start
        BY <3>4, <4>1
      <4>2. CASE p.state = "active" /\ n >= p.end
        BY <3>1, <3>2, <3>4, <4>2
      <4>3. CASE ~(p.state = "pending" /\ n >= p.start) /\ ~(p.state = "active" /\ n >= p.end)
        BY <3>4, <4>3
      <4> QED
        BY <4>1, <4>2, <4>3
    <3> HIDE DEF state
    <3>6. /\ q \in Proposal /\ q.state = to /\ q.records = p.records /\ q.start = p.start /\ q.end = p.end
          /\ q.quorum = p.quorum /\ q.queued = p.queued /\ q.due = p.due /\ q.at = p.at
      <4>1. p.state \in {"pending", "active", "succeeded", "defeated", "queued", "executed", "canceled"}
        BY DEF Proposal
      <4>2. to \in {"pending", "active", "succeeded", "defeated", "queued", "executed", "canceled"}
        BY <3>5, <4>1
      <4>3. q = [p EXCEPT !.state = to]
        BY <2>3, <3>4
      <4> QED
        BY <4>2, <4>3 DEF Proposal
    <3>7. /\ Governance!Weight(q, "yes") = Governance!Weight(p, "yes") /\ Governance!Weight(q, "no") = Governance!Weight(p, "no")
          /\ Governance!Turnout(q) = Governance!Turnout(p)
      BY <3>6 DEF Governance!Weight, Governance!Turnout, Governance!MapThenSumSet, Governance!MapThenFoldSet
    <3>8. p.end <= s.epoch => p.end <= n
      BY <1>2, <2>1, <3>1
    <3> QED
      BY <2>3, <3>3, <3>5, <3>6, <3>7, <3>8 DEF ProposalFair
  <2> HIDE DEF state
  <2>4. g = [k \in DOMAIN h |-> g[k]] /\ DOMAIN g = DOMAIN h /\ \A k \in DOMAIN h : g[k] \in Proposal /\ ProposalFair(g[k], n)
    BY <1>4, <2>3
  <2> HIDE DEF g
  <2>5. g \in Props
    BY <1>4, <2>4, EachElementChanged
  <2> HIDE DEF Props
  <2>6. d \in GovernanceState(D) /\ d.props = g /\ d.voters = s.voters /\ d.epoch = n
    BY <1>1, <2>2, <2>5 DEF GovernanceState, Props
  <2> QED
    BY <2>4, <2>6 DEF GovernanceGood
<1>8. DOMAIN s.voters = D
  BY <1>2
<1> QED
  BY <1>5, <1>6, <1>7, <1>8

\* The DAO stays fair.
LEMMA GovernanceGoesOn ==
    ASSUME GovernanceAssumption, GovernanceInv, Governance!Next PROVE GovernanceInv'
<1>1. PICK s, d : s = st /\ d = st'
  OBVIOUS
<1>2. GovernanceGood(s)
  BY <1>1 DEF GovernanceInv
<1> SUFFICES GovernanceGood(d)
  BY <1>1 DEF GovernanceInv
<1>3. CASE Governance!Reset
  BY <1>1, <1>3, GovernanceStarts DEF Governance!Reset
<1>4. ASSUME \/ Governance!SetParams \/ Governance!AdvanceEpoch
             \/ \E v \in DOMAIN s.voters : Governance!Submit(v)
      PROVE  GovernanceGood(d)
  BY <1>1, <1>2, <1>4, GovernanceTime
<1>5. ASSUME \/ \E v \in DOMAIN s.voters, to \in DOMAIN s.voters : Governance!DelegateTo(v, to)
             \/ \E v \in Newcomers : Governance!DistributeTokens(v)
             \/ \E v \in DOMAIN s.voters : \E new \in Newcomers \ {v} : Governance!SybilAttack(v, new)
      PROVE  GovernanceGood(d)
  BY <1>1, <1>2, <1>5, GovernanceMembers
<1>6. ASSUME NEW k \in DOMAIN s.props,
             \/ /\ s.props[k].state = "active"
                /\ \E v \in DOMAIN s.voters, support \in Choices : Governance!Cast(k, v, support)
             \/ s.props[k].state \in {"pending", "active"} /\ Governance!Cancel(k)
             \/ s.props[k].state = "succeeded" /\ Governance!Queue(k)
             \/ s.props[k].state = "queued" /\ Governance!Execute(k)
      PROVE  GovernanceGood(d)
  BY <1>1, <1>2, <1>6, GovernanceProposals
<1>7. \A phase, k : k \in Governance!Phase(phase) <=> k \in DOMAIN s.props /\ s.props[k].state = phase
  BY <1>1 DEF Governance!Phase
<1>8. ASSUME NEW v \in DOMAIN s.voters, NEW k \in Governance!Phase("active"), NEW support \in Choices,
             Governance!Cast(k, v, support)
      PROVE  GovernanceGood(d)
  BY <1>6, <1>7, <1>8
<1>9. ASSUME NEW k \in Governance!Phase("pending") \union Governance!Phase("active"), Governance!Cancel(k)
      PROVE  GovernanceGood(d)
  BY <1>6, <1>7, <1>9
<1>10. ASSUME NEW k \in Governance!Phase("succeeded"), Governance!Queue(k) PROVE GovernanceGood(d)
  BY <1>6, <1>7, <1>10
<1>11. ASSUME NEW k \in Governance!Phase("queued"), Governance!Execute(k) PROVE GovernanceGood(d)
  BY <1>6, <1>7, <1>11
<1> QED
  BY <1>1, <1>3, <1>4, <1>5, <1>8, <1>9, <1>10, <1>11 DEF Governance!Next, Choices

\* And there what is executed was won, and had waited.
LEMMA GovernanceHolds ==
    ASSUME GovernanceInv PROVE Governance!TypeOK /\ Governance!ExecutedFairly
<1>0. PICK s : s = st
  OBVIOUS
<1>1. PICK D \in SUBSET People : s \in GovernanceState(D)
  BY <1>0 DEF GovernanceInv, GovernanceGood
<1>2. s.voters \in [D -> Member(D)] /\ s.props \in Seq(Proposal)
  BY <1>1 DEF GovernanceState
<1>3. \A v \in DOMAIN s.voters : s.voters[v].balance >= 0 /\ v \notin s.voters[v].from
  <2>1. \A v \in D : s.voters[v].balance \in Nat
    BY <1>2 DEF Member
  <2> QED
    BY <1>0, <1>2, <2>1 DEF GovernanceInv, GovernanceGood
<1>4. \A k \in DOMAIN s.props : ProposalFair(s.props[k], s.epoch)
  BY <1>0 DEF GovernanceInv, GovernanceGood
<1>5. Governance!TypeOK
  BY <1>0, <1>3, <1>4 DEF Governance!TypeOK, ProposalFair
<1>6. Governance!ExecutedFairly
  BY <1>0, <1>4 DEF Governance!ExecutedFairly, ProposalFair
<1> QED
  BY <1>5, <1>6

-----------------------------------------------------------------------------
(* The nodes of consensus/raftelection.                                    *)

RaftRoles == {"follower", "candidate", "leader", "down"}
RaftLog == {h \in Seq(Nat) : Len(h) <= MaxLog}
Committable(commit, log) == commit \in -1 .. MaxLog - 1 /\ (commit <= 0 \/ commit <= Len(log) - 1)
RaftNode(n) ==
    {r \in [role : RaftRoles, term : Nat, voted : 0 .. n, log : RaftLog, commit : Int,
            timer : 0 .. TimeoutMax, beat : 0 .. 2, side : 0 .. 2] : Committable(r.commit, r.log)}
RaftCluster(n) ==
    [nodes : [1 .. n -> RaftNode(n)], tick : Nat, parted : BOOLEAN, led : SUBSET (Nat \X (1 .. n))]

\* The second half of the nodes, the side of a partition that may hold a majority.
Half(n) == {i \in 1 .. n : i > n \div 2}

\* The term T of leader a is over: everyone has come to it, or the second half has, and
\* those of it that are still there voted for a; or a has stepped down, for a later term of
\* the first half.
Settled(n, c, T, a) ==
    \/ \A x \in 1 .. n : c.nodes[x].term >= T
    \/ /\ a \in Half(n)
       /\ \A x \in Half(n) :
            \/ c.nodes[x].term > T
            \/ c.nodes[x].term = T /\ c.nodes[x].voted = a
            \/ x = a /\ c.nodes[x].term = T /\ \E k \in 1 .. n : k \notin Half(n) /\ c.nodes[k].term > T

RaftSafe(n, c) ==
    /\ \A x, y \in Half(n) : c.nodes[x].term = c.nodes[y].term
    /\ \A i \in 1 .. n : c.nodes[i].role = "leader" => <<c.nodes[i].term, i>> \in c.led
    /\ \A T \in Nat, a \in 1 .. n : <<T, a>> \in c.led => Settled(n, c, T, a)
    /\ \A T \in Nat, a \in 1 .. n, b \in 1 .. n : <<T, a>> \in c.led /\ <<T, b>> \in c.led => a = b

RaftGood(n, c) ==
    /\ c \in RaftCluster(n)
    /\ c.parted => \A i \in 1 .. n : c.nodes[i].side = IF i \in Half(n) THEN 2 ELSE 1
    /\ Raft!Live(c) = 1 .. n => RaftSafe(n, c)
RaftInv ==
    /\ \E n \in Nat : RaftGood(n, st)
    /\ \A i \in DOMAIN st.nodes : st.nodes[i].term <= MaxTerm

\* A node, taken apart and put together.
LEMMA RaftNodeFields ==
    ASSUME NEW n \in Nat, NEW r \in RaftNode(n)
    PROVE  /\ r.role \in RaftRoles /\ r.term \in Nat /\ r.voted \in 0 .. n /\ r.log \in RaftLog /\ r.commit \in Int
           /\ r.timer \in 0 .. TimeoutMax /\ r.beat \in 0 .. 2 /\ r.side \in 0 .. 2
           /\ Committable(r.commit, r.log)
BY DEF RaftNode

LEMMA RaftNodeMade ==
    ASSUME NEW n \in Nat, NEW r \in RaftNode(n), NEW role \in RaftRoles, NEW term \in Nat, NEW voted \in 0 .. n,
           NEW timer \in 0 .. TimeoutMax, NEW beat \in 0 .. 2, NEW side \in 0 .. 2
    PROVE  \A q : q = [r EXCEPT !.role = role, !.term = term, !.voted = voted, !.timer = timer, !.beat = beat, !.side = side]
             => /\ q \in RaftNode(n) /\ q.role = role /\ q.term = term /\ q.voted = voted /\ q.side = side
                /\ q.log = r.log /\ q.commit = r.commit
BY DEF RaftNode

\* The timer of an election.
LEMMA TimeoutsTyped ==
    ASSUME RaftAssumption, NEW tick \in Nat, NEW i \in Nat \ {0}
    PROVE  /\ Raft!Timeout(tick, i) \in 0 .. TimeoutMax
           /\ TimeoutMin + ((2 * (i - 1)) % Raft!Span) \in 0 .. TimeoutMax
           /\ (tick + 1) % Raft!Span \in Nat
<1>1. Raft!Span \in Nat \ {0} /\ TimeoutMax = TimeoutMin + Raft!Span - 1 /\ TimeoutMin \in Nat
  BY DEF Raft!Span, RaftAssumption
<1>2. \A x \in Nat : x % Raft!Span \in 0 .. Raft!Span - 1
  BY <1>1
<1>3. tick + 7 * (i - 1) \in Nat /\ 2 * (i - 1) \in Nat /\ tick + 1 \in Nat
  OBVIOUS
<1>4. /\ (tick + 7 * (i - 1)) % Raft!Span \in 0 .. Raft!Span - 1
      /\ (2 * (i - 1)) % Raft!Span \in 0 .. Raft!Span - 1
      /\ (tick + 1) % Raft!Span \in 0 .. Raft!Span - 1
  BY <1>2, <1>3
<1> QED
  BY <1>1, <1>4 DEF Raft!Timeout

\* A log that takes over what it lacks of another.
LEMMA LogExtends ==
    ASSUME NEW h \in RaftLog, NEW l \in RaftLog, NEW g, g = h \o SubSeq(l, Len(h) + 1, Len(l)), MaxLog \in Nat
    PROVE  g \in RaftLog /\ Len(h) <= Len(g)
<1>1. h \in Seq(Nat) /\ l \in Seq(Nat) /\ Len(h) \in Nat /\ Len(l) \in Nat /\ Len(h) <= MaxLog /\ Len(l) <= MaxLog
  BY DEF RaftLog
<1> DEFINE m == SubSeq(l, Len(h) + 1, Len(l))
<1>2. m \in Seq(Nat) /\ Len(m) = IF Len(h) + 1 <= Len(l) THEN Len(l) - Len(h) ELSE 0
  BY <1>1
<1> HIDE DEF m
<1>3. h \o m \in Seq(Nat) /\ Len(h \o m) = Len(h) + Len(m)
  BY <1>1, <1>2, ConcatProperties, Zenon
<1>4. g = h \o m
  BY DEF m
<1>5. Len(g) <= MaxLog /\ Len(h) <= Len(g)
  BY <1>1, <1>2, <1>3, <1>4
<1> QED
  BY <1>3, <1>4, <1>5 DEF RaftLog

\* What a follower appends.
LEMMA RaftAppends ==
    ASSUME RaftAssumption, NEW n \in Nat, NEW c \in RaftCluster(n), NEW i \in 1 .. n, NEW j \in 1 .. n,
           NEW q, q = Raft!Appended(c, c.nodes[i], j)
    PROVE  /\ q \in RaftNode(n) /\ q.role = "follower" /\ q.term = c.nodes[i].term /\ q.side = c.nodes[j].side
           /\ q.voted = IF c.nodes[i].term > c.nodes[j].term THEN 0 ELSE c.nodes[j].voted
<1>1. PICK f, l, t : f = c.nodes[j] /\ l = c.nodes[i] /\ t = Raft!Timeout(c.tick, j)
  OBVIOUS
<1>2. f \in RaftNode(n) /\ l \in RaftNode(n) /\ c.tick \in Nat
  BY <1>1 DEF RaftCluster
<1>3. t \in 0 .. TimeoutMax
  <2>1. j \in Nat \ {0}
    OBVIOUS
  <2> QED
    BY <1>1, <1>2, <2>1, TimeoutsTyped
<1>4. PICK g, v : g = f.log \o SubSeq(l.log, Len(f.log) + 1, Len(l.log)) /\ v = IF l.term > f.term THEN 0 ELSE f.voted
  OBVIOUS
<1>5. /\ f.role \in RaftRoles /\ f.term \in Nat /\ f.voted \in 0 .. n /\ f.log \in RaftLog /\ f.commit \in Int
      /\ f.timer \in 0 .. TimeoutMax /\ f.beat \in 0 .. 2 /\ f.side \in 0 .. 2 /\ Committable(f.commit, f.log)
      /\ l.term \in Nat /\ l.log \in RaftLog
  BY <1>2, RaftNodeFields
<1>6. g \in RaftLog /\ Len(f.log) <= Len(g)
  BY <1>4, <1>5, LogExtends DEF RaftAssumption
<1>7. Committable(f.commit, g)
  <2>1. Len(f.log) \in Nat /\ Len(g) \in Nat
    BY <1>5, <1>6 DEF RaftLog
  <2> QED
    BY <1>5, <1>6, <2>1 DEF Committable
<1>8. v \in 0 .. n
  BY <1>4, <1>5
<1>9. q = [f EXCEPT !.role = "follower", !.term = l.term, !.voted = v, !.timer = t, !.log = g]
  BY <1>1, <1>4 DEF Raft!Appended, Raft!NoVote
<1>10. /\ q \in RaftNode(n) /\ q.role = "follower" /\ q.term = l.term /\ q.side = f.side /\ q.voted = v
  <2>1. "follower" \in RaftRoles
    BY DEF RaftRoles
  <2>2. f \in [role : RaftRoles, term : Nat, voted : 0 .. n, log : RaftLog, commit : Int,
               timer : 0 .. TimeoutMax, beat : 0 .. 2, side : 0 .. 2]
    BY <1>2 DEF RaftNode
  <2>3. /\ q \in [role : RaftRoles, term : Nat, voted : 0 .. n, log : RaftLog, commit : Int,
                  timer : 0 .. TimeoutMax, beat : 0 .. 2, side : 0 .. 2]
        /\ q.role = "follower" /\ q.term = l.term /\ q.side = f.side /\ q.voted = v /\ q.log = g /\ q.commit = f.commit
    BY <1>3, <1>5, <1>6, <1>8, <1>9, <2>1, <2>2
  <2> QED
    BY <1>7, <2>3 DEF RaftNode
<1> QED
  BY <1>1, <1>4, <1>10

\* Two nodes that differ in their log, their commit index or their timers only.
RaftAlike(p, q) == p.role = q.role /\ p.term = q.term /\ p.voted = q.voted /\ p.side = q.side

\* A leader that advances its commit index has the entry it commits.
LEMMA RaftCommits ==
    ASSUME RaftAssumption, NEW n \in Nat, NEW c \in RaftCluster(n), NEW i \in 1 .. n,
           NEW d, d = Raft!AdvanceCommitIndex(c, i)
    PROVE  /\ d \in RaftCluster(n) /\ d.parted = c.parted /\ d.led = c.led /\ d.tick = c.tick
           /\ \A j \in 1 .. n : RaftAlike(d.nodes[j], c.nodes[j])
<1>1. PICK l, R : /\ l = c.nodes[i] /\ R \subseteq l.commit + 2 .. Len(l.log)
                  /\ d = IF R = {} THEN c ELSE [c EXCEPT !.nodes[i].commit = Raft!Max(R) - 1]
  BY DEF Raft!AdvanceCommitIndex
<1>2. l \in RaftNode(n) /\ c.nodes \in [1 .. n -> RaftNode(n)]
  BY <1>1 DEF RaftCluster
<1>3. CASE R = {}
  BY <1>1, <1>3 DEF RaftAlike
<1>4. CASE R # {}
  <2>1. l.commit \in Int /\ Committable(l.commit, l.log) /\ l.log \in RaftLog
    BY <1>2, RaftNodeFields
  <2>2. Len(l.log) \in Nat /\ Len(l.log) <= MaxLog /\ MaxLog \in Nat /\ l.commit >= -1
    BY <2>1 DEF RaftLog, Committable, RaftAssumption
  <2>3. R \in SUBSET Int /\ R \subseteq 1 .. Len(l.log)
    BY <1>1, <2>1, <2>2
  <2>4. IsFiniteSet(1 .. Len(l.log))
    <3>1. 1 \in Int /\ Len(l.log) \in Int
      BY <2>2
    <3> QED
      BY <3>1, FS_Interval
  <2>5. IsFiniteSet(R)
    BY <2>3, <2>4, FS_Subset
  <2>6. \E x \in R : \A y \in R : x >= y
    BY <1>4, <2>3, <2>5, GreatestElement
  <2>7. Raft!Max(R) = CHOOSE x \in R : \A y \in R : x >= y
    BY SameOperators
  <2>8. Raft!Max(R) \in R
    BY <2>6, <2>7
  <2>9. PICK e : e = Raft!Max(R) - 1
    OBVIOUS
  <2>10. e \in Int /\ Committable(e, l.log)
    <3>1. PICK m, k : m = Raft!Max(R) /\ k = Len(l.log)
      OBVIOUS
    <3>2. m \in 1 .. k /\ k \in Nat /\ k <= MaxLog /\ MaxLog \in Nat /\ e = m - 1
      BY <2>2, <2>3, <2>8, <2>9, <3>1
    <3>3. e \in -1 .. MaxLog - 1 /\ e <= k - 1
      BY <3>2
    <3> QED
      BY <3>1, <3>3 DEF Committable
  <2>11. PICK q : q = [l EXCEPT !.commit = e]
    OBVIOUS
  <2>12. l \in [role : RaftRoles, term : Nat, voted : 0 .. n, log : RaftLog, commit : Int,
                timer : 0 .. TimeoutMax, beat : 0 .. 2, side : 0 .. 2]
    BY <1>2 DEF RaftNode
  <2>13. /\ q \in [role : RaftRoles, term : Nat, voted : 0 .. n, log : RaftLog, commit : Int,
                   timer : 0 .. TimeoutMax, beat : 0 .. 2, side : 0 .. 2]
         /\ q.log = l.log /\ q.commit = e /\ RaftAlike(q, l)
    BY <2>10, <2>11, <2>12 DEF RaftAlike
  <2>14. q \in RaftNode(n)
    BY <2>10, <2>13 DEF RaftNode
  <2>15. PICK g : g = [c.nodes EXCEPT ![i] = q]
    OBVIOUS
  <2>16. g \in [1 .. n -> RaftNode(n)] /\ \A j \in 1 .. n : g[j] = IF j = i THEN q ELSE c.nodes[j]
    BY <1>2, <2>14, <2>15
  <2>17. d = [c EXCEPT !.nodes = g]
    BY <1>1, <1>4, <2>9, <2>11, <2>15
  <2>18. d \in RaftCluster(n) /\ d.nodes = g /\ d.parted = c.parted /\ d.led = c.led /\ d.tick = c.tick
    BY <2>16, <2>17 DEF RaftCluster
  <2>19. \A j \in 1 .. n : RaftAlike(g[j], c.nodes[j])
    BY <1>1, <2>13, <2>16 DEF RaftAlike
  <2> QED
    BY <2>18, <2>19
<1> QED
  BY <1>3, <1>4

\* Node i tells its peers P its term, in their order, until one that is in a later term.
RaftTells(n, c, d, i, P) ==
    /\ d.parted = c.parted /\ d.led = c.led
    /\ \A j \in 1 .. n : /\ d.nodes[j].side = c.nodes[j].side
                         /\ d.nodes[j].role = "down" <=> c.nodes[j].role = "down"
                         /\ j \notin P \union {i} => RaftAlike(d.nodes[j], c.nodes[j])
    /\ \A j \in P :
         \/ /\ d.nodes[j].role = "follower" /\ d.nodes[j].term = c.nodes[i].term
            /\ d.nodes[j].voted = IF c.nodes[i].term > c.nodes[j].term THEN 0 ELSE c.nodes[j].voted
            /\ \A k \in P : c.nodes[k].term > c.nodes[i].term => j < k
         \/ /\ RaftAlike(d.nodes[j], c.nodes[j])
            /\ \E k \in P : k <= j /\ c.nodes[k].term > c.nodes[i].term
    /\ IF \A k \in P : c.nodes[k].term <= c.nodes[i].term THEN RaftAlike(d.nodes[i], c.nodes[i])
       ELSE d.nodes[i].role = "follower" /\ d.nodes[i].term = c.nodes[i].term /\ d.nodes[i].voted = 0

LEMMA RaftHeartbeats ==
    ASSUME RaftAssumption, NEW n \in Nat, NEW c \in RaftCluster(n), NEW i \in 1 .. n, c.nodes[i].role # "down",
           NEW d, d = Raft!SendHeartbeats(c, i)
    PROVE  d \in RaftCluster(n) /\ RaftTells(n, c, d, i, Raft!Peers(c, i))
<1>1. PICK l, P, A, F : /\ l = c.nodes[i] /\ P = Raft!Peers(c, i)
                        /\ A = {j \in P : c.nodes[j].term > l.term}
                        /\ F = {j \in P : \A k \in A : j < k}
  OBVIOUS
<1>2. PICK g, s : /\ g = [j \in DOMAIN c.nodes |-> IF j \in F THEN Raft!Appended(c, l, j) ELSE c.nodes[j]]
                  /\ s = [c EXCEPT !.nodes = g]
  OBVIOUS
<1>3. d = IF A = {} THEN Raft!AdvanceCommitIndex(s, i)
          ELSE [s EXCEPT !.nodes[i] = [s.nodes[i] EXCEPT !.role = "follower", !.voted = 0,
                                                         !.timer = Raft!Timeout(c.tick, i)]]
  BY <1>1, <1>2 DEF Raft!SendHeartbeats, Raft!NoVote
<1>4. /\ l \in RaftNode(n) /\ c.nodes \in [1 .. n -> RaftNode(n)] /\ DOMAIN c.nodes = 1 .. n
      /\ c.tick \in Nat /\ l.term \in Nat /\ l.role # "down"
      /\ \A j \in 1 .. n : c.nodes[j] \in RaftNode(n) /\ c.nodes[j].term \in Nat
  BY <1>1, RaftNodeFields DEF RaftCluster
<1>5. P \subseteq 1 .. n /\ i \notin P /\ \A j \in P : c.nodes[j].role # "down"
  BY <1>1, <1>4 DEF Raft!Peers, Raft!Live
<1>6. \A j \in F : /\ g[j] \in RaftNode(n) /\ g[j].role = "follower" /\ g[j].term = l.term
                   /\ g[j].side = c.nodes[j].side
                   /\ g[j].voted = IF l.term > c.nodes[j].term THEN 0 ELSE c.nodes[j].voted
  <2>1. SUFFICES ASSUME NEW j \in F
                 PROVE  /\ g[j] \in RaftNode(n) /\ g[j].role = "follower" /\ g[j].term = l.term
                        /\ g[j].side = c.nodes[j].side
                        /\ g[j].voted = IF l.term > c.nodes[j].term THEN 0 ELSE c.nodes[j].voted
    OBVIOUS
  <2>2. j \in 1 .. n
    BY <1>1, <1>5
  <2>3. PICK q : q = Raft!Appended(c, l, j)
    OBVIOUS
  <2>4. g[j] = q
    BY <1>2, <1>4, <2>2, <2>3
  <2>5. q = Raft!Appended(c, c.nodes[i], j)
    BY <1>1, <2>3
  <2> QED
    BY <1>1, <2>2, <2>4, <2>5, RaftAppends
<1>7. \A j \in 1 .. n : j \notin F => g[j] = c.nodes[j]
  BY <1>2, <1>4
<1>8. g \in [1 .. n -> RaftNode(n)]
  <2>1. \A j \in 1 .. n : g[j] \in RaftNode(n)
    BY <1>4, <1>6, <1>7
  <2> QED
    BY <1>2, <1>4, <2>1
<1>9. s \in RaftCluster(n) /\ s.nodes = g /\ s.parted = c.parted /\ s.led = c.led /\ s.tick = c.tick
  BY <1>2, <1>8 DEF RaftCluster
<1>10. F \subseteq P /\ i \notin F /\ g[i] = l
  BY <1>1, <1>5, <1>7
<1>11. \A j \in F : \A k \in P : c.nodes[k].term > l.term => j < k
  BY <1>1
<1>12. \A j \in P : j \notin F => \E k \in P : k <= j /\ c.nodes[k].term > l.term
  <2>1. \A j, k \in 1 .. n : ~(j < k) => k <= j
    OBVIOUS
  <2> QED
    BY <1>1, <1>5, <2>1
<1>13. A = {} <=> \A k \in P : c.nodes[k].term <= l.term
  BY <1>1, <1>4, <1>5
<1>14. /\ d \in RaftCluster(n) /\ d.parted = c.parted /\ d.led = c.led
       /\ \A j \in 1 .. n : j # i => RaftAlike(d.nodes[j], g[j])
       /\ A = {} => RaftAlike(d.nodes[i], l)
       /\ A # {} => /\ d.nodes[i].role = "follower" /\ d.nodes[i].term = l.term /\ d.nodes[i].voted = 0
                    /\ d.nodes[i].side = l.side
  <2>1. CASE A = {}
    <3>1. d = Raft!AdvanceCommitIndex(s, i)
      BY <1>3, <2>1
    <3>2. /\ d \in RaftCluster(n) /\ d.parted = s.parted /\ d.led = s.led
          /\ \A j \in 1 .. n : RaftAlike(d.nodes[j], s.nodes[j])
      BY <1>9, <3>1, RaftCommits
    <3> QED
      BY <1>9, <1>10, <2>1, <3>2
  <2>2. CASE A # {}
    <3>1. PICK t, q : t = Raft!Timeout(c.tick, i) /\ q = [l EXCEPT !.role = "follower", !.voted = 0, !.timer = t]
      OBVIOUS
    <3>2. t \in 0 .. TimeoutMax
      <4>1. i \in Nat \ {0}
        OBVIOUS
      <4> QED
        BY <1>4, <3>1, <4>1, TimeoutsTyped
    <3>3. l \in [role : RaftRoles, term : Nat, voted : 0 .. n, log : RaftLog, commit : Int,
                 timer : 0 .. TimeoutMax, beat : 0 .. 2, side : 0 .. 2]
      BY <1>4 DEF RaftNode
    <3>4. "follower" \in RaftRoles /\ 0 \in 0 .. n
      BY DEF RaftRoles
    <3>5. /\ q \in [role : RaftRoles, term : Nat, voted : 0 .. n, log : RaftLog, commit : Int,
                    timer : 0 .. TimeoutMax, beat : 0 .. 2, side : 0 .. 2]
          /\ q.log = l.log /\ q.commit = l.commit /\ q.role = "follower" /\ q.term = l.term /\ q.voted = 0
          /\ q.side = l.side
      BY <3>1, <3>2, <3>3, <3>4
    <3>6. q \in RaftNode(n)
      BY <1>4, <3>5 DEF RaftNode
    <3>7. PICK h : h = [g EXCEPT ![i] = q]
      OBVIOUS
    <3>8. h \in [1 .. n -> RaftNode(n)] /\ \A j \in 1 .. n : h[j] = IF j = i THEN q ELSE g[j]
      BY <1>8, <3>6, <3>7
    <3>9. d = [s EXCEPT !.nodes = h]
      BY <1>3, <1>9, <1>10, <2>2, <3>1, <3>7
    <3>10. d \in RaftCluster(n) /\ d.nodes = h /\ d.parted = s.parted /\ d.led = s.led
      BY <1>9, <3>8, <3>9 DEF RaftCluster
    <3> QED
      BY <1>9, <2>2, <3>5, <3>8, <3>10 DEF RaftAlike
  <2> QED
    BY <2>1, <2>2
<1>15. \A j \in 1 .. n : /\ d.nodes[j].side = c.nodes[j].side
                         /\ d.nodes[j].role = "down" <=> c.nodes[j].role = "down"
                         /\ j \notin P \union {i} => RaftAlike(d.nodes[j], c.nodes[j])
  <2> SUFFICES ASSUME NEW j \in 1 .. n
               PROVE  /\ d.nodes[j].side = c.nodes[j].side
                      /\ d.nodes[j].role = "down" <=> c.nodes[j].role = "down"
                      /\ j \notin P \union {i} => RaftAlike(d.nodes[j], c.nodes[j])
    OBVIOUS
  <2>1. CASE j = i
    BY <1>1, <1>4, <1>14, <2>1 DEF RaftAlike
  <2>2. CASE j # i /\ j \in F
    <3>1. d.nodes[j].side = c.nodes[j].side /\ d.nodes[j].role = "follower"
      BY <1>6, <1>14, <2>2 DEF RaftAlike
    <3> QED
      BY <1>5, <1>10, <2>2, <3>1
  <2>3. CASE j # i /\ j \notin F
    BY <1>7, <1>14, <2>3 DEF RaftAlike
  <2> QED
    BY <2>1, <2>2, <2>3
<1>16. \A j \in P :
         \/ /\ d.nodes[j].role = "follower" /\ d.nodes[j].term = c.nodes[i].term
            /\ d.nodes[j].voted = IF c.nodes[i].term > c.nodes[j].term THEN 0 ELSE c.nodes[j].voted
            /\ \A k \in P : c.nodes[k].term > c.nodes[i].term => j < k
         \/ /\ RaftAlike(d.nodes[j], c.nodes[j])
            /\ \E k \in P : k <= j /\ c.nodes[k].term > c.nodes[i].term
  <2> SUFFICES ASSUME NEW j \in P
               PROVE  \/ /\ d.nodes[j].role = "follower" /\ d.nodes[j].term = c.nodes[i].term
                         /\ d.nodes[j].voted = IF c.nodes[i].term > c.nodes[j].term THEN 0 ELSE c.nodes[j].voted
                         /\ \A k \in P : c.nodes[k].term > c.nodes[i].term => j < k
                      \/ /\ RaftAlike(d.nodes[j], c.nodes[j])
                         /\ \E k \in P : k <= j /\ c.nodes[k].term > c.nodes[i].term
    OBVIOUS
  <2>1. j \in 1 .. n /\ j # i /\ RaftAlike(d.nodes[j], g[j])
    BY <1>5, <1>14
  <2>2. CASE j \in F
    BY <1>1, <1>6, <1>11, <2>1, <2>2 DEF RaftAlike
  <2>3. CASE j \notin F
    BY <1>1, <1>7, <1>12, <2>1, <2>3 DEF RaftAlike
  <2> QED
    BY <2>2, <2>3
<1>17. IF \A k \in P : c.nodes[k].term <= c.nodes[i].term THEN RaftAlike(d.nodes[i], c.nodes[i])
       ELSE d.nodes[i].role = "follower" /\ d.nodes[i].term = c.nodes[i].term /\ d.nodes[i].voted = 0
  BY <1>1, <1>13, <1>14
<1> QED
  BY <1>1, <1>14, <1>15, <1>16, <1>17 DEF RaftTells

\* With nobody down, the peers of a node are the others on its side.
RaftPeers(n, c, i) == {j \in 1 .. n : j # i /\ (c.parted => (j \in Half(n) <=> i \in Half(n)))}

LEMMA RaftTermsTyped ==
    ASSUME NEW n \in Nat, NEW c \in RaftCluster(n)
    PROVE  \A x \in 1 .. n : c.nodes[x].term \in Nat
BY RaftNodeFields DEF RaftCluster

LEMMA HeartbeatsSafe ==
    ASSUME NEW n \in Nat, NEW c \in RaftCluster(n), NEW d \in RaftCluster(n), NEW i \in 1 .. n,
           c.nodes[i].role = "leader", RaftSafe(n, c), RaftTells(n, c, d, i, RaftPeers(n, c, i))
    PROVE  RaftSafe(n, d)
<1>1. PICK P, S : P = RaftPeers(n, c, i) /\ S = Half(n)
  OBVIOUS
<1>2. /\ P \subseteq 1 .. n /\ i \notin P /\ S \subseteq 1 .. n
      /\ \A x \in S : \A y \in 1 .. n : y <= x \/ y \in S
      /\ i \in S => S \subseteq P \union {i}
      /\ \A x \in P : x \in S /\ i \notin S => S \subseteq P
  BY <1>1 DEF RaftPeers, Half
<1>3. \A x \in 1 .. n : c.nodes[x].term \in Nat /\ d.nodes[x].term \in Nat
  BY RaftTermsTyped
<1>4. \A x, y \in S : c.nodes[x].term = c.nodes[y].term
  BY <1>1 DEF RaftSafe
<1>5. PICK t : t = c.nodes[i].term /\ t \in Nat
  BY <1>3
<1>6. /\ \A x \in 1 .. n : x \notin P \union {i} => RaftAlike(d.nodes[x], c.nodes[x])
      /\ \A x \in P : \/ /\ d.nodes[x].role = "follower" /\ d.nodes[x].term = t
                         /\ d.nodes[x].voted = IF t > c.nodes[x].term THEN 0 ELSE c.nodes[x].voted
                         /\ \A k \in P : c.nodes[k].term > t => x < k
                      \/ /\ RaftAlike(d.nodes[x], c.nodes[x])
                         /\ \E k \in P : k <= x /\ c.nodes[k].term > t
      /\ \/ RaftAlike(d.nodes[i], c.nodes[i])
         \/ /\ d.nodes[i].role = "follower" /\ d.nodes[i].term = t /\ d.nodes[i].voted = 0
            /\ \E k \in P : c.nodes[k].term > t
      /\ d.led = c.led
  BY <1>1, <1>2, <1>3, <1>5 DEF RaftTells
<1>7. /\ \A x \in 1 .. n : d.nodes[x].term >= c.nodes[x].term
      /\ \A x \in 1 .. n : d.nodes[x].role = "leader" => c.nodes[x].role = "leader" /\ d.nodes[x].term = c.nodes[x].term
      /\ \A x \in 1 .. n : d.nodes[x].term = c.nodes[x].term =>
            \/ d.nodes[x].voted = c.nodes[x].voted
            \/ x = i /\ \E k \in P : c.nodes[k].term > t
  <2> SUFFICES ASSUME NEW x \in 1 .. n
               PROVE  /\ d.nodes[x].term >= c.nodes[x].term
                      /\ d.nodes[x].role = "leader" => c.nodes[x].role = "leader" /\ d.nodes[x].term = c.nodes[x].term
                      /\ d.nodes[x].term = c.nodes[x].term =>
                            \/ d.nodes[x].voted = c.nodes[x].voted
                            \/ x = i /\ \E k \in P : c.nodes[k].term > t
    OBVIOUS
  <2>1. CASE x \in P
    <3>1. CASE /\ d.nodes[x].role = "follower" /\ d.nodes[x].term = t
               /\ d.nodes[x].voted = IF t > c.nodes[x].term THEN 0 ELSE c.nodes[x].voted
               /\ \A k \in P : c.nodes[k].term > t => x < k
      <4>1. ~(c.nodes[x].term > t)
        BY <1>2, <2>1, <3>1
      <4> QED
        BY <1>3, <1>5, <3>1, <4>1
    <3>2. CASE RaftAlike(d.nodes[x], c.nodes[x])
      BY <1>3, <3>2 DEF RaftAlike
    <3> QED
      BY <1>6, <2>1, <3>1, <3>2
  <2>2. CASE x = i
    BY <1>3, <1>5, <1>6, <2>2 DEF RaftAlike
  <2>3. CASE x \notin P \union {i}
    BY <1>3, <1>6, <2>3 DEF RaftAlike
  <2> QED
    BY <2>1, <2>2, <2>3
<1>8. \A x, y \in S : d.nodes[x].term = d.nodes[y].term
  <2>1. CASE i \in S
    <3>1. \A x \in S : c.nodes[x].term = t
      BY <1>4, <1>5, <2>1
    <3>2. \A x \in S : d.nodes[x].term = t
      <4> SUFFICES ASSUME NEW x \in S PROVE d.nodes[x].term = t
        OBVIOUS
      <4>1. CASE x \in P
        BY <1>6, <3>1, <4>1 DEF RaftAlike
      <4>2. CASE x = i
        BY <1>5, <1>6, <4>2 DEF RaftAlike
      <4> QED
        BY <1>2, <2>1, <4>1, <4>2
    <3> QED
      BY <3>2
  <2>2. CASE i \notin S /\ P \intersect S = {}
    <3>1. \A x \in S : d.nodes[x].term = c.nodes[x].term
      BY <1>2, <1>6, <2>2 DEF RaftAlike
    <3> QED
      BY <1>4, <3>1
  <2>3. CASE i \notin S /\ P \intersect S # {}
    <3>1. S \subseteq P
      BY <1>2, <2>3
    <3>2. CASE \E k \in P : c.nodes[k].term > t
      <4>1. \A x \in S : d.nodes[x].term = c.nodes[x].term
        <5> SUFFICES ASSUME NEW x \in S PROVE d.nodes[x].term = c.nodes[x].term
          OBVIOUS
        <5>1. PICK k \in P : c.nodes[k].term > t
          BY <3>2
        <5>2. CASE c.nodes[x].term > t
          BY <1>2, <1>6, <3>1, <5>2 DEF RaftAlike
        <5>3. CASE ~(c.nodes[x].term > t)
          <6>1. k \notin S
            BY <1>4, <5>1, <5>3
          <6>2. ~(x < k)
            BY <1>2, <5>1, <6>1
          <6> QED
            BY <1>6, <3>1, <5>1, <6>2 DEF RaftAlike
        <5> QED
          BY <5>2, <5>3
      <4> QED
        BY <1>4, <4>1
    <3>3. CASE ~\E k \in P : c.nodes[k].term > t
      <4>1. \A x \in S : d.nodes[x].term = t
        BY <1>6, <3>1, <3>3
      <4> QED
        BY <4>1
    <3> QED
      BY <3>2, <3>3
  <2> QED
    BY <2>1, <2>2, <2>3
<1>9. \A x \in 1 .. n : d.nodes[x].role = "leader" => <<d.nodes[x].term, x>> \in d.led
  <2>1. \A x \in 1 .. n : c.nodes[x].role = "leader" => <<c.nodes[x].term, x>> \in c.led
    BY DEF RaftSafe
  <2> QED
    BY <1>6, <1>7, <2>1
<1>10. ASSUME NEW T \in Nat, NEW a \in 1 .. n, <<T, a>> \in d.led PROVE Settled(n, d, T, a)
  <2>1. Settled(n, c, T, a)
    BY <1>6, <1>10 DEF RaftSafe
  <2>2. CASE \A x \in 1 .. n : c.nodes[x].term >= T
    <3>1. \A x \in 1 .. n : d.nodes[x].term >= T
      BY <1>3, <1>7, <2>2
    <3> QED
      BY <3>1 DEF Settled
  <2>3. CASE ~\A x \in 1 .. n : c.nodes[x].term >= T
    <3>1. /\ a \in S
          /\ \A x \in S : \/ c.nodes[x].term > T
                          \/ c.nodes[x].term = T /\ c.nodes[x].voted = a
                          \/ x = a /\ c.nodes[x].term = T /\ \E k \in 1 .. n : k \notin S /\ c.nodes[k].term > T
      BY <1>1, <2>1, <2>3 DEF Settled
    <3>2. ASSUME NEW x \in S
          PROVE  \/ d.nodes[x].term > T
                 \/ d.nodes[x].term = T /\ d.nodes[x].voted = a
                 \/ x = a /\ d.nodes[x].term = T /\ \E k \in 1 .. n : k \notin S /\ d.nodes[k].term > T
      <4>0. x \in 1 .. n
        BY <1>2
      <4>1. CASE d.nodes[x].term > T
        BY <4>1
      <4>2. CASE ~(d.nodes[x].term > T)
        <5>1. c.nodes[x].term = T /\ d.nodes[x].term = T
          BY <1>3, <1>7, <3>1, <4>0, <4>2
        <5>2. CASE x = a /\ \E k \in 1 .. n : k \notin S /\ c.nodes[k].term > T
          BY <1>3, <1>7, <5>1, <5>2
        <5>3. CASE ~(x = a /\ \E k \in 1 .. n : k \notin S /\ c.nodes[k].term > T)
          <6>1. c.nodes[x].voted = a
            BY <1>3, <3>1, <4>0, <5>1, <5>3
          <6>2. CASE d.nodes[x].voted = c.nodes[x].voted
            BY <5>1, <6>1, <6>2
          <6>3. CASE x = i /\ \E k \in P : c.nodes[k].term > t
            <7>1. <<T, i>> \in c.led
              BY <1>5, <5>1, <6>3 DEF RaftSafe
            <7>2. x = a
              BY <1>6, <1>10, <6>3, <7>1 DEF RaftSafe
            <7>3. PICK k \in P : c.nodes[k].term > T
              BY <1>5, <5>1, <6>3
            <7>4. k \notin S
              BY <1>2, <1>3, <1>4, <5>1, <7>3
            <7> QED
              BY <1>2, <5>3, <7>2, <7>3, <7>4
          <6> QED
            BY <1>7, <4>0, <5>1, <6>2, <6>3
        <5> QED
          BY <5>2, <5>3
      <4> QED
        BY <4>1, <4>2
    <3> QED
      BY <1>1, <3>1, <3>2 DEF Settled
  <2> QED
    BY <2>2, <2>3
<1>11. \A T \in Nat, a \in 1 .. n, b \in 1 .. n : <<T, a>> \in d.led /\ <<T, b>> \in d.led => a = b
  BY <1>6 DEF RaftSafe
<1>12. \A T \in Nat, a \in 1 .. n : <<T, a>> \in d.led => Settled(n, d, T, a)
  BY <1>10
<1> QED
  BY <1>1, <1>8, <1>9, <1>11, <1>12 DEF RaftSafe

\* Node i has asked its peers P for their votes in its next term, and V gave them.
RaftPolls(n, c, d, i, P, V) ==
    LET T == c.nodes[i].term + 1 IN
    /\ d.parted = c.parted /\ d.led = c.led
    /\ \A j \in 1 .. n : /\ d.nodes[j].side = c.nodes[j].side
                         /\ d.nodes[j].role = "down" <=> c.nodes[j].role = "down"
                         /\ j \notin P \union {i} => RaftAlike(d.nodes[j], c.nodes[j])
    /\ d.nodes[i].role = "candidate" /\ d.nodes[i].term = T /\ d.nodes[i].voted = i
    /\ V \subseteq P \union {i}
    /\ \A j \in P :
         \/ /\ c.nodes[j].term < T /\ d.nodes[j].term = T /\ d.nodes[j].role = "follower"
            /\ d.nodes[j].voted = IF j \in V THEN i ELSE 0
         \/ /\ c.nodes[j].term = T /\ d.nodes[j].term = T /\ d.nodes[j].role = c.nodes[j].role
            /\ IF j \in V THEN c.nodes[j].voted \in {0, i} /\ d.nodes[j].voted = i
               ELSE d.nodes[j].voted = c.nodes[j].voted
         \/ c.nodes[j].term > T /\ RaftAlike(d.nodes[j], c.nodes[j]) /\ j \notin V

LEMMA RaftVotes ==
    ASSUME RaftAssumption, NEW n \in Nat, NEW c \in RaftCluster(n), NEW i \in 1 .. n, NEW j \in 1 .. n,
           c.nodes[j].role # "down", NEW T, T = c.nodes[i].term, NEW q, q = Raft!HandleRequestVote(c, i, j)
    PROVE  /\ q \in RaftNode(n) /\ q.side = c.nodes[j].side /\ q.role # "down"
           /\ \/ /\ c.nodes[j].term < T /\ q.term = T /\ q.role = "follower"
                 /\ q.voted = IF Raft!Grants(c, i, j) THEN i ELSE 0
              \/ /\ c.nodes[j].term = T /\ q.term = T /\ q.role = c.nodes[j].role
                 /\ IF Raft!Grants(c, i, j) THEN c.nodes[j].voted \in {0, i} /\ q.voted = i
                    ELSE q.voted = c.nodes[j].voted
              \/ c.nodes[j].term > T /\ RaftAlike(q, c.nodes[j]) /\ ~Raft!Grants(c, i, j)
<1>1. PICK r, t, s : /\ r = c.nodes[j] /\ t = Raft!Timeout(c.tick, j)
                     /\ s = IF r.term < T THEN [r EXCEPT !.term = T, !.role = "follower", !.voted = 0] ELSE r
  OBVIOUS
<1>2. q = IF Raft!Grants(c, i, j) THEN [s EXCEPT !.voted = i, !.timer = t] ELSE s
  BY <1>1 DEF Raft!HandleRequestVote, Raft!NoVote
<1>3. r \in RaftNode(n) /\ c.nodes[i] \in RaftNode(n) /\ c.tick \in Nat
  BY <1>1 DEF RaftCluster
<1>4. r.term \in Nat /\ T \in Nat
  BY <1>3, RaftNodeFields
<1>5. t \in 0 .. TimeoutMax
  <2>1. j \in Nat \ {0}
    OBVIOUS
  <2> QED
    BY <1>1, <1>3, <2>1, TimeoutsTyped
<1>6. Raft!Grants(c, i, j) => r.term < T \/ (r.term = T /\ r.voted \in {0, i})
  BY <1>1 DEF Raft!Grants, Raft!NoVote
<1>7. /\ r \in [role : RaftRoles, term : Nat, voted : 0 .. n, log : RaftLog, commit : Int,
                timer : 0 .. TimeoutMax, beat : 0 .. 2, side : 0 .. 2]
      /\ Committable(r.commit, r.log)
  BY <1>3 DEF RaftNode
<1>8. "follower" \in RaftRoles /\ 0 \in 0 .. n /\ i \in 0 .. n
  BY DEF RaftRoles
<1>9. /\ s \in [role : RaftRoles, term : Nat, voted : 0 .. n, log : RaftLog, commit : Int,
                timer : 0 .. TimeoutMax, beat : 0 .. 2, side : 0 .. 2]
      /\ s.log = r.log /\ s.commit = r.commit /\ s.side = r.side
      /\ IF r.term < T THEN s.term = T /\ s.role = "follower" /\ s.voted = 0 ELSE s = r
  BY <1>1, <1>4, <1>7, <1>8
<1>10. /\ q \in [role : RaftRoles, term : Nat, voted : 0 .. n, log : RaftLog, commit : Int,
                 timer : 0 .. TimeoutMax, beat : 0 .. 2, side : 0 .. 2]
       /\ q.log = s.log /\ q.commit = s.commit /\ q.side = s.side /\ q.role = s.role /\ q.term = s.term
       /\ q.voted = IF Raft!Grants(c, i, j) THEN i ELSE s.voted
  BY <1>2, <1>5, <1>8, <1>9
<1>11. q \in RaftNode(n)
  BY <1>7, <1>9, <1>10 DEF RaftNode
<1>12. q.role # "down"
  BY <1>1, <1>9, <1>10
<1>13. CASE r.term < T
  BY <1>1, <1>9, <1>10, <1>11, <1>12, <1>13
<1>14. CASE r.term = T
  BY <1>1, <1>4, <1>6, <1>9, <1>10, <1>11, <1>12, <1>14
<1>15. CASE r.term > T
  <2>1. ~Raft!Grants(c, i, j)
    BY <1>4, <1>6, <1>15
  <2> QED
    BY <1>1, <1>4, <1>9, <1>10, <1>11, <1>12, <1>15, <2>1 DEF RaftAlike
<1> QED
  BY <1>4, <1>13, <1>14, <1>15

LEMMA RaftElections ==
    ASSUME RaftAssumption, NEW n \in Nat, NEW c \in RaftCluster(n), NEW i \in 1 .. n, c.nodes[i].role # "down"
    PROVE  \E p \in RaftCluster(n) : \E V :
              /\ RaftPolls(n, c, p, i, Raft!Peers(c, i), V)
              /\ Raft!StartElection(c, i) =
                   IF Raft!Cardinality(V) >= Raft!Majority(c) THEN Raft!BecomeLeader(p, i) ELSE p
<1>1. PICK l, t : l = c.nodes[i] /\ t = Raft!Timeout(c.tick, i)
  OBVIOUS
<1>2. PICK q, h : /\ q = [l EXCEPT !.role = "candidate", !.term = l.term + 1, !.voted = i, !.timer = t]
                  /\ h = [c.nodes EXCEPT ![i] = q]
  OBVIOUS
<1> DEFINE a == [c EXCEPT !.nodes[i] = [c.nodes[i] EXCEPT !.role = "candidate", !.term = @ + 1, !.voted = i,
                                                          !.timer = Raft!Timeout(c.tick, i)]]
           P == Raft!Peers(a, i)
           V == {i} \union {j \in P : Raft!Grants(a, i, j)}
           p == [a EXCEPT !.nodes = [j \in DOMAIN @ |-> IF j \in P THEN Raft!HandleRequestVote(a, i, j) ELSE @[j]]]
<1>15. Raft!StartElection(c, i) = IF Raft!Cardinality(V) >= Raft!Majority(c) THEN Raft!BecomeLeader(p, i) ELSE p
  BY DEF Raft!StartElection
<1>0. a = [c EXCEPT !.nodes = h]
  BY <1>1, <1>2
<1> HIDE DEF a
<1>3. PICK g : /\ P = Raft!Peers(a, i)
               /\ V = {i} \union {j \in P : Raft!Grants(a, i, j)}
               /\ g = [j \in DOMAIN a.nodes |-> IF j \in P THEN Raft!HandleRequestVote(a, i, j) ELSE a.nodes[j]]
               /\ p = [a EXCEPT !.nodes = g]
  OBVIOUS
<1> HIDE DEF P, V, p
<1>4. /\ l \in RaftNode(n) /\ c.nodes \in [1 .. n -> RaftNode(n)] /\ c.tick \in Nat /\ l.role # "down"
      /\ l.term \in Nat /\ \A j \in 1 .. n : c.nodes[j].term \in Nat
  BY <1>1, RaftNodeFields DEF RaftCluster
<1>5. t \in 0 .. TimeoutMax
  <2>1. i \in Nat \ {0}
    OBVIOUS
  <2> QED
    BY <1>1, <1>4, <2>1, TimeoutsTyped
<1>6. q \in RaftNode(n) /\ q.role = "candidate" /\ q.term = l.term + 1 /\ q.voted = i /\ q.side = l.side
  <2>1. /\ l \in [role : RaftRoles, term : Nat, voted : 0 .. n, log : RaftLog, commit : Int,
                  timer : 0 .. TimeoutMax, beat : 0 .. 2, side : 0 .. 2]
        /\ Committable(l.commit, l.log)
    BY <1>4 DEF RaftNode
  <2>2. PICK T : T = l.term + 1 /\ T \in Nat
    BY <1>4
  <2>3. "candidate" \in RaftRoles /\ i \in 0 .. n
    BY DEF RaftRoles
  <2>4. q = [l EXCEPT !.role = "candidate", !.term = T, !.voted = i, !.timer = t]
    BY <1>2, <2>2
  <2>5. /\ q \in [role : RaftRoles, term : Nat, voted : 0 .. n, log : RaftLog, commit : Int,
                  timer : 0 .. TimeoutMax, beat : 0 .. 2, side : 0 .. 2]
        /\ q.log = l.log /\ q.commit = l.commit /\ q.role = "candidate" /\ q.term = T /\ q.voted = i /\ q.side = l.side
    BY <1>5, <2>1, <2>2, <2>3, <2>4
  <2> QED
    BY <2>1, <2>2, <2>5 DEF RaftNode
<1>7. h \in [1 .. n -> RaftNode(n)] /\ DOMAIN h = 1 .. n /\ h[i] = q /\ \A j \in 1 .. n : j # i => h[j] = c.nodes[j]
  BY <1>2, <1>4, <1>6
<1>8. a \in RaftCluster(n) /\ a.nodes = h /\ a.parted = c.parted /\ a.led = c.led /\ a.tick = c.tick
  BY <1>0, <1>7 DEF RaftCluster
<1>9. P = Raft!Peers(c, i)
  <2>1. \A j \in 1 .. n : h[j].side = c.nodes[j].side /\ (h[j].role = "down" <=> c.nodes[j].role = "down")
    BY <1>1, <1>4, <1>6, <1>7
  <2>2. DOMAIN a.nodes = 1 .. n /\ DOMAIN c.nodes = 1 .. n
    BY <1>4, <1>7, <1>8
  <2>3. Raft!Live(a) = Raft!Live(c)
    BY <1>8, <2>1, <2>2 DEF Raft!Live
  <2>4. \A j \in Raft!Live(c) : Raft!CanCommunicate(a, i, j) = Raft!CanCommunicate(c, i, j)
    BY <1>8, <2>1, <2>2 DEF Raft!Live, Raft!CanCommunicate
  <2> QED
    BY <1>3, <2>3, <2>4 DEF Raft!Peers
<1>10. P \subseteq 1 .. n /\ i \notin P /\ \A j \in P : c.nodes[j].role # "down"
  BY <1>4, <1>9 DEF Raft!Peers, Raft!Live
<1>11. \A j \in P : /\ g[j] \in RaftNode(n) /\ g[j].side = c.nodes[j].side /\ g[j].role # "down"
                    /\ \/ /\ c.nodes[j].term < q.term /\ g[j].term = q.term /\ g[j].role = "follower"
                          /\ g[j].voted = IF j \in V THEN i ELSE 0
                       \/ /\ c.nodes[j].term = q.term /\ g[j].term = q.term /\ g[j].role = c.nodes[j].role
                          /\ IF j \in V THEN c.nodes[j].voted \in {0, i} /\ g[j].voted = i
                             ELSE g[j].voted = c.nodes[j].voted
                       \/ c.nodes[j].term > q.term /\ RaftAlike(g[j], c.nodes[j]) /\ j \notin V
  <2> SUFFICES ASSUME NEW j \in P
               PROVE  /\ g[j] \in RaftNode(n) /\ g[j].side = c.nodes[j].side /\ g[j].role # "down"
                      /\ \/ /\ c.nodes[j].term < q.term /\ g[j].term = q.term /\ g[j].role = "follower"
                            /\ g[j].voted = IF j \in V THEN i ELSE 0
                         \/ /\ c.nodes[j].term = q.term /\ g[j].term = q.term /\ g[j].role = c.nodes[j].role
                            /\ IF j \in V THEN c.nodes[j].voted \in {0, i} /\ g[j].voted = i
                               ELSE g[j].voted = c.nodes[j].voted
                         \/ c.nodes[j].term > q.term /\ RaftAlike(g[j], c.nodes[j]) /\ j \notin V
    OBVIOUS
  <2>1. j \in 1 .. n /\ j # i
    BY <1>10
  <2>2. PICK w : w = Raft!HandleRequestVote(a, i, j)
    OBVIOUS
  <2>3. g[j] = w
    BY <1>3, <1>7, <1>8, <2>1, <2>2
  <2>4. a.nodes[j] = c.nodes[j] /\ a.nodes[i].term = q.term /\ a.nodes[j].role # "down"
    BY <1>7, <1>8, <1>10, <2>1
  <2>5. j \in V <=> Raft!Grants(a, i, j)
    BY <1>3, <2>1
  <2>6. /\ w \in RaftNode(n) /\ w.side = a.nodes[j].side /\ w.role # "down"
        /\ \/ /\ a.nodes[j].term < q.term /\ w.term = q.term /\ w.role = "follower"
              /\ w.voted = IF Raft!Grants(a, i, j) THEN i ELSE 0
           \/ /\ a.nodes[j].term = q.term /\ w.term = q.term /\ w.role = a.nodes[j].role
              /\ IF Raft!Grants(a, i, j) THEN a.nodes[j].voted \in {0, i} /\ w.voted = i
                 ELSE w.voted = a.nodes[j].voted
           \/ a.nodes[j].term > q.term /\ RaftAlike(w, a.nodes[j]) /\ ~Raft!Grants(a, i, j)
    BY <1>8, <2>1, <2>2, <2>4, RaftVotes
  <2> QED
    BY <2>3, <2>4, <2>5, <2>6
<1>12. \A j \in 1 .. n : j \notin P => g[j] = h[j]
  BY <1>3, <1>7, <1>8
<1>13. g \in [1 .. n -> RaftNode(n)]
  <2>1. \A j \in 1 .. n : g[j] \in RaftNode(n)
    BY <1>7, <1>11, <1>12
  <2> QED
    BY <1>3, <1>7, <1>8, <2>1
<1>14. p \in RaftCluster(n) /\ p.nodes = g /\ p.parted = c.parted /\ p.led = c.led
  BY <1>3, <1>8, <1>13 DEF RaftCluster
<1>16. RaftPolls(n, c, p, i, P, V)
  <2>1. g[i] = q
    BY <1>7, <1>10, <1>12
  <2>2. \A j \in 1 .. n : /\ g[j].side = c.nodes[j].side
                          /\ g[j].role = "down" <=> c.nodes[j].role = "down"
                          /\ j \notin P \union {i} => RaftAlike(g[j], c.nodes[j])
    BY <1>1, <1>4, <1>6, <1>7, <1>10, <1>11, <1>12, <2>1 DEF RaftAlike
  <2>3. V \subseteq P \union {i}
    BY <1>3
  <2>4. q.term = c.nodes[i].term + 1
    BY <1>1, <1>6
  <2>5. p.nodes[i].role = "candidate" /\ p.nodes[i].term = c.nodes[i].term + 1 /\ p.nodes[i].voted = i
    BY <1>6, <1>14, <2>1, <2>4
  <2> QED
    BY <1>11, <1>14, <2>2, <2>3, <2>4, <2>5 DEF RaftPolls
<1> QED
  BY <1>9, <1>14, <1>15, <1>16

LEMMA PollsSafe ==
    ASSUME NEW n \in Nat, NEW c \in RaftCluster(n), NEW d \in RaftCluster(n), NEW i \in 1 .. n, NEW V,
           RaftSafe(n, c), RaftPolls(n, c, d, i, RaftPeers(n, c, i), V)
    PROVE  RaftSafe(n, d)
<1>1. PICK P, S, T : P = RaftPeers(n, c, i) /\ S = Half(n) /\ T = c.nodes[i].term + 1
  OBVIOUS
<1>2. /\ P \subseteq 1 .. n /\ i \notin P /\ S \subseteq 1 .. n
      /\ i \in S => S \subseteq P \union {i}
      /\ \A x \in P : x \in S /\ i \notin S => S \subseteq P
  BY <1>1 DEF RaftPeers, Half
<1>3. T \in Nat /\ \A x \in 1 .. n : c.nodes[x].term \in Nat /\ d.nodes[x].term \in Nat
  BY <1>1, RaftTermsTyped
<1>4. \A x, y \in S : c.nodes[x].term = c.nodes[y].term
  BY <1>1 DEF RaftSafe
<1>5. /\ d.led = c.led
      /\ \A j \in 1 .. n : j \notin P \union {i} => RaftAlike(d.nodes[j], c.nodes[j])
      /\ d.nodes[i].role = "candidate" /\ d.nodes[i].term = T /\ d.nodes[i].voted = i
      /\ \A j \in P :
           \/ /\ c.nodes[j].term < T /\ d.nodes[j].term = T /\ d.nodes[j].role = "follower"
              /\ d.nodes[j].voted = IF j \in V THEN i ELSE 0
           \/ /\ c.nodes[j].term = T /\ d.nodes[j].term = T /\ d.nodes[j].role = c.nodes[j].role
              /\ IF j \in V THEN c.nodes[j].voted \in {0, i} /\ d.nodes[j].voted = i
                 ELSE d.nodes[j].voted = c.nodes[j].voted
           \/ c.nodes[j].term > T /\ RaftAlike(d.nodes[j], c.nodes[j])
  BY <1>1 DEF RaftPolls
<1>6. /\ \A x \in 1 .. n : d.nodes[x].term >= c.nodes[x].term
      /\ \A x \in 1 .. n : d.nodes[x].role = "leader" => c.nodes[x].role = "leader" /\ d.nodes[x].term = c.nodes[x].term
      /\ \A x \in 1 .. n : d.nodes[x].term = c.nodes[x].term =>
            d.nodes[x].voted = c.nodes[x].voted \/ c.nodes[x].voted \in {0, d.nodes[x].voted}
  <2> SUFFICES ASSUME NEW x \in 1 .. n
               PROVE  /\ d.nodes[x].term >= c.nodes[x].term
                      /\ d.nodes[x].role = "leader" => c.nodes[x].role = "leader" /\ d.nodes[x].term = c.nodes[x].term
                      /\ d.nodes[x].term = c.nodes[x].term =>
                            d.nodes[x].voted = c.nodes[x].voted \/ c.nodes[x].voted \in {0, d.nodes[x].voted}
    OBVIOUS
  <2>1. CASE x \in P
    <3>1. CASE /\ c.nodes[x].term < T /\ d.nodes[x].term = T /\ d.nodes[x].role = "follower"
               /\ d.nodes[x].voted = IF x \in V THEN i ELSE 0
      BY <1>3, <3>1
    <3>2. CASE /\ c.nodes[x].term = T /\ d.nodes[x].term = T /\ d.nodes[x].role = c.nodes[x].role
               /\ IF x \in V THEN c.nodes[x].voted \in {0, i} /\ d.nodes[x].voted = i
                  ELSE d.nodes[x].voted = c.nodes[x].voted
      BY <1>3, <3>2
    <3>3. CASE c.nodes[x].term > T /\ RaftAlike(d.nodes[x], c.nodes[x])
      BY <1>3, <3>3 DEF RaftAlike
    <3> QED
      BY <1>5, <2>1, <3>1, <3>2, <3>3
  <2>2. CASE x = i
    <3>1. c.nodes[i].term \in Nat /\ T = c.nodes[i].term + 1
      BY <1>1, <1>3
    <3> QED
      BY <1>5, <2>2, <3>1
  <2>3. CASE x \notin P \union {i}
    BY <1>3, <1>5, <2>3 DEF RaftAlike
  <2> QED
    BY <2>1, <2>2, <2>3
<1>7. \A x, y \in S : d.nodes[x].term = d.nodes[y].term
  <2>1. CASE i \in S
    <3>1. \A x \in S : c.nodes[x].term < T
      BY <1>1, <1>2, <1>3, <1>4, <2>1
    <3>2. \A x \in S : d.nodes[x].term = T
      BY <1>2, <1>3, <1>5, <2>1, <3>1
    <3> QED
      BY <3>2
  <2>2. CASE i \notin S /\ P \intersect S = {}
    <3>1. \A x \in S : d.nodes[x].term = c.nodes[x].term
      BY <1>2, <1>5, <2>2 DEF RaftAlike
    <3> QED
      BY <1>4, <3>1
  <2>3. CASE i \notin S /\ P \intersect S # {}
    <3>1. S \subseteq P
      BY <1>2, <2>3
    <3>2. \A x \in S : d.nodes[x].term = IF c.nodes[x].term > T THEN c.nodes[x].term ELSE T
      BY <1>2, <1>3, <1>5, <3>1 DEF RaftAlike
    <3> QED
      BY <1>4, <3>2
  <2> QED
    BY <2>1, <2>2, <2>3
<1>8. \A x \in 1 .. n : d.nodes[x].role = "leader" => <<d.nodes[x].term, x>> \in d.led
  <2>1. \A x \in 1 .. n : c.nodes[x].role = "leader" => <<c.nodes[x].term, x>> \in c.led
    BY DEF RaftSafe
  <2> QED
    BY <1>5, <1>6, <2>1
<1>9. ASSUME NEW U \in Nat, NEW a \in 1 .. n, <<U, a>> \in d.led PROVE Settled(n, d, U, a)
  <2>1. Settled(n, c, U, a)
    BY <1>5, <1>9 DEF RaftSafe
  <2>2. CASE \A x \in 1 .. n : c.nodes[x].term >= U
    <3>1. \A x \in 1 .. n : d.nodes[x].term >= U
      BY <1>3, <1>6, <2>2
    <3> QED
      BY <3>1 DEF Settled
  <2>3. CASE ~\A x \in 1 .. n : c.nodes[x].term >= U
    <3>1. /\ a \in S
          /\ \A x \in S : \/ c.nodes[x].term > U
                          \/ c.nodes[x].term = U /\ c.nodes[x].voted = a
                          \/ x = a /\ c.nodes[x].term = U /\ \E k \in 1 .. n : k \notin S /\ c.nodes[k].term > U
      BY <1>1, <2>1, <2>3 DEF Settled
    <3>2. ASSUME NEW x \in S
          PROVE  \/ d.nodes[x].term > U
                 \/ d.nodes[x].term = U /\ d.nodes[x].voted = a
                 \/ x = a /\ d.nodes[x].term = U /\ \E k \in 1 .. n : k \notin S /\ d.nodes[k].term > U
      <4>0. x \in 1 .. n
        BY <1>2
      <4>1. CASE d.nodes[x].term > U
        BY <4>1
      <4>2. CASE ~(d.nodes[x].term > U)
        <5>1. c.nodes[x].term = U /\ d.nodes[x].term = U
          BY <1>3, <1>6, <3>1, <4>0, <4>2
        <5>2. CASE x = a /\ \E k \in 1 .. n : k \notin S /\ c.nodes[k].term > U
          BY <1>3, <1>6, <5>1, <5>2
        <5>3. CASE ~(x = a /\ \E k \in 1 .. n : k \notin S /\ c.nodes[k].term > U)
          <6>1. c.nodes[x].voted = a /\ a # 0
            BY <1>3, <3>1, <4>0, <5>1, <5>3
          <6>2. d.nodes[x].voted = a
            BY <1>6, <4>0, <5>1, <6>1
          <6> QED
            BY <5>1, <6>2
        <5> QED
          BY <5>2, <5>3
      <4> QED
        BY <4>1, <4>2
    <3> QED
      BY <1>1, <3>1, <3>2 DEF Settled
  <2> QED
    BY <2>2, <2>3
<1>10. \A U \in Nat, a \in 1 .. n : <<U, a>> \in d.led => Settled(n, d, U, a)
  BY <1>9
<1>11. \A U \in Nat, a \in 1 .. n, b \in 1 .. n : <<U, a>> \in d.led /\ <<U, b>> \in d.led => a = b
  BY <1>5 DEF RaftSafe
<1> QED
  BY <1>1, <1>7, <1>8, <1>10, <1>11 DEF RaftSafe

\* The halves of the nodes: the first is no majority, and one more node than it is one.
LEMMA RaftHalves ==
    ASSUME NEW n \in Nat
    PROVE  /\ IsFiniteSet(1 .. n) /\ Cardinality(1 .. n) = n
           /\ IsFiniteSet(Half(n)) /\ Cardinality(Half(n)) <= n \div 2 + 1
           /\ IsFiniteSet((1 .. n) \ Half(n)) /\ Cardinality((1 .. n) \ Half(n)) = n \div 2
           /\ n \div 2 \in Nat
<1>1. PICK h : h = n \div 2
  OBVIOUS
<1>2. h \in Nat /\ n <= 2 * h + 1 /\ 2 * h <= n
  BY <1>1
<1>3. Half(n) = h + 1 .. n /\ (1 .. n) \ Half(n) = 1 .. h
  BY <1>1, <1>2 DEF Half
<1>4. 1 \in Int /\ n \in Int /\ h \in Int /\ h + 1 \in Int
  BY <1>2
<1>5. /\ IsFiniteSet(1 .. n) /\ Cardinality(1 .. n) = IF 1 > n THEN 0 ELSE n - 1 + 1
      /\ IsFiniteSet(1 .. h) /\ Cardinality(1 .. h) = IF 1 > h THEN 0 ELSE h - 1 + 1
      /\ IsFiniteSet(h + 1 .. n) /\ Cardinality(h + 1 .. n) = IF h + 1 > n THEN 0 ELSE n - (h + 1) + 1
  BY <1>4, FS_Interval
<1>6. PICK a, b, c : a = Cardinality(1 .. n) /\ b = Cardinality(1 .. h) /\ c = Cardinality(h + 1 .. n)
  OBVIOUS
<1>7. a = n /\ b = h /\ c <= h + 1
  BY <1>2, <1>5, <1>6
<1> QED
  BY <1>1, <1>2, <1>3, <1>5, <1>6, <1>7

\* A candidate that a majority voted for leads its term, alone.
LEMMA WinnersSafe ==
    ASSUME NEW n \in Nat, NEW c \in RaftCluster(n), NEW d \in RaftCluster(n), NEW e \in RaftCluster(n),
           NEW i \in 1 .. n, NEW V, NEW T, T = c.nodes[i].term + 1,
           RaftSafe(n, c), RaftPolls(n, c, d, i, RaftPeers(n, c, i), V), Cardinality(V) >= n \div 2 + 1,
           \A j \in 1 .. n : /\ e.nodes[j].term = d.nodes[j].term /\ e.nodes[j].voted = d.nodes[j].voted
                             /\ j # i => e.nodes[j].role = d.nodes[j].role,
           e.led = d.led \union {<<T, i>>}
    PROVE  RaftSafe(n, e)
<1>1. PICK P, S : P = RaftPeers(n, c, i) /\ S = Half(n)
  OBVIOUS
<1>2. /\ P \subseteq 1 .. n /\ i \notin P /\ S \subseteq 1 .. n
      /\ ~c.parted => P \union {i} = 1 .. n
      /\ c.parted /\ i \in S => P \union {i} = S
      /\ c.parted /\ i \notin S => P \union {i} = (1 .. n) \ S
  BY <1>1 DEF RaftPeers, Half
<1>3. T \in Nat /\ \A x \in 1 .. n : c.nodes[x].term \in Nat /\ d.nodes[x].term \in Nat
  BY RaftTermsTyped
<1>4. /\ d.led = c.led /\ V \subseteq P \union {i}
      /\ d.nodes[i].term = T /\ d.nodes[i].voted = i
      /\ \A j \in P :
           \/ /\ c.nodes[j].term < T /\ d.nodes[j].term = T
              /\ d.nodes[j].voted = IF j \in V THEN i ELSE 0
           \/ /\ c.nodes[j].term = T /\ d.nodes[j].term = T
              /\ IF j \in V THEN c.nodes[j].voted \in {0, i} /\ d.nodes[j].voted = i
                 ELSE d.nodes[j].voted = c.nodes[j].voted
           \/ c.nodes[j].term > T /\ d.nodes[j].term = c.nodes[j].term /\ j \notin V
  BY <1>1 DEF RaftPolls, RaftAlike
<1>5. RaftSafe(n, d)
  BY PollsSafe
<1>6. /\ IsFiniteSet(1 .. n) /\ IsFiniteSet(S) /\ Cardinality(S) <= n \div 2 + 1 /\ n \div 2 \in Nat
      /\ IsFiniteSet((1 .. n) \ S) /\ Cardinality((1 .. n) \ S) = n \div 2
  BY <1>1, RaftHalves
<1>7. /\ \A Z \in SUBSET (1 .. n) : IsFiniteSet(Z) /\ Cardinality(Z) \in Nat
      /\ \A Z \in SUBSET ((1 .. n) \ S) : Cardinality(Z) <= n \div 2
      /\ \A Z \in SUBSET S : Cardinality(Z) <= Cardinality(S) /\ (Cardinality(Z) = Cardinality(S) => Z = S)
  <2>1. ASSUME NEW Z \in SUBSET (1 .. n) PROVE IsFiniteSet(Z) /\ Cardinality(Z) \in Nat
    BY <1>6, FS_Subset, FS_CardinalityType
  <2>2. ASSUME NEW Z \in SUBSET ((1 .. n) \ S) PROVE Cardinality(Z) <= n \div 2
    BY <1>6, FS_Subset
  <2>3. ASSUME NEW Z \in SUBSET S
        PROVE  Cardinality(Z) <= Cardinality(S) /\ (Cardinality(Z) = Cardinality(S) => Z = S)
    BY <1>6, FS_Subset
  <2> QED
    BY <2>1, <2>2, <2>3
<1>8. Cardinality(V) \in Nat /\ ~(V \subseteq (1 .. n) \ S)
  BY <1>2, <1>4, <1>6, <1>7
<1>9. \A j \in V : d.nodes[j].term = T /\ d.nodes[j].voted = i /\ (j # i => c.nodes[j].term <= T)
  BY <1>2, <1>3, <1>4
<1>10. Settled(n, e, T, i)
  <2>1. CASE ~c.parted
    <3>1. \A x \in 1 .. n : e.nodes[x].term >= T
      BY <1>2, <1>3, <1>4, <2>1
    <3> QED
      BY <3>1 DEF Settled
  <2>2. CASE c.parted
    <3>1. i \in S /\ V \subseteq S
      BY <1>2, <1>4, <1>8, <2>2
    <3>2. Cardinality(S) \in Nat
      BY <1>2, <1>7
    <3>3. V = S
      BY <1>6, <1>7, <1>8, <3>1, <3>2
    <3>4. \A x \in S : e.nodes[x].term = T /\ e.nodes[x].voted = i
      BY <1>2, <1>9, <3>3
    <3> QED
      BY <1>1, <3>1, <3>4 DEF Settled
  <2> QED
    BY <2>1, <2>2
<1>11. ASSUME NEW b \in 1 .. n, <<T, b>> \in d.led PROVE b = i
  <2> SUFFICES ASSUME b # i PROVE FALSE
    OBVIOUS
  <2>0. c.nodes[i].term < T
    BY <1>3
  <2>1. Settled(n, c, T, b)
    BY <1>3, <1>4, <1>11 DEF RaftSafe
  <2>2. /\ b \in S
        /\ \A x \in S : \/ c.nodes[x].term > T
                        \/ c.nodes[x].term = T /\ c.nodes[x].voted = b
                        \/ x = b /\ c.nodes[x].term = T /\ \E k \in 1 .. n : k \notin S /\ c.nodes[k].term > T
    <3>1. ~\A x \in 1 .. n : c.nodes[x].term >= T
      BY <1>3, <2>0
    <3> QED
      BY <1>1, <2>1, <3>1 DEF Settled
  <2>3. i \notin S
    BY <1>3, <2>0, <2>2
  <2>4. ASSUME NEW x \in S, x \in V
        PROVE  x = b /\ \E k \in 1 .. n : k \notin S /\ c.nodes[k].term > T
    <3>1. x \in P /\ x \in 1 .. n
      BY <1>2, <1>4, <2>3, <2>4
    <3>2. c.nodes[x].term <= T
      BY <1>9, <2>3, <2>4
    <3>3. ~(c.nodes[x].term > T)
      BY <1>3, <3>1, <3>2
    <3>4. c.nodes[x].term = T
      BY <2>2, <3>3
    <3>5. c.nodes[x].voted \in {0, i}
      BY <1>3, <1>4, <2>4, <3>1, <3>4
    <3>6. c.nodes[x].voted # b
      BY <3>5
    <3> QED
      BY <2>2, <3>3, <3>6
  <2>5. PICK k \in 1 .. n : k \notin S /\ c.nodes[k].term > T
    BY <1>2, <1>4, <1>8, <2>4
  <2>6. k \notin V
    BY <1>3, <1>9, <2>0, <2>5
  <2> DEFINE First == (1 .. n) \ S
             Others == First \ {k}
  <2>7. V \subseteq Others \union {b}
    BY <1>2, <1>4, <2>4, <2>6
  <2>8. IsFiniteSet(First) /\ Cardinality(First) = n \div 2 /\ k \in First /\ b \notin Others
    BY <1>6, <2>2, <2>5
  <2> HIDE DEF First
  <2>9. IsFiniteSet(Others) /\ Cardinality(Others) = n \div 2 - 1
    BY <2>8, FS_RemoveElement
  <2> HIDE DEF Others
  <2>10. IsFiniteSet(Others \union {b}) /\ Cardinality(Others \union {b}) = n \div 2 - 1 + 1
    BY <2>8, <2>9, FS_AddElement
  <2>11. Cardinality(V) <= Cardinality(Others \union {b})
    BY <2>7, <2>10, FS_Subset
  <2> QED
    BY <1>6, <1>8, <2>10, <2>11
<1>12. \A U \in Nat, a \in 1 .. n, b \in 1 .. n : <<U, a>> \in e.led /\ <<U, b>> \in e.led => a = b
  <2>1. \A U \in Nat, a \in 1 .. n, b \in 1 .. n : <<U, a>> \in d.led /\ <<U, b>> \in d.led => a = b
    BY <1>5 DEF RaftSafe
  <2>2. \A U \in Nat, a \in 1 .. n : <<U, a>> \in e.led => <<U, a>> \in d.led \/ (U = T /\ a = i)
    OBVIOUS
  <2> QED
    BY <1>11, <2>1, <2>2
<1>13. \A x \in 1 .. n : e.nodes[x].role = "leader" => <<e.nodes[x].term, x>> \in e.led
  <2>1. \A x \in 1 .. n : d.nodes[x].role = "leader" => <<d.nodes[x].term, x>> \in d.led
    BY <1>5 DEF RaftSafe
  <2> QED
    BY <1>4, <2>1
<1>14. \A U \in Nat, a \in 1 .. n : <<U, a>> \in e.led => Settled(n, e, U, a)
  <2> SUFFICES ASSUME NEW U \in Nat, NEW a \in 1 .. n, <<U, a>> \in e.led PROVE Settled(n, e, U, a)
    OBVIOUS
  <2>1. CASE <<U, a>> \in d.led
    <3>1. Settled(n, d, U, a)
      BY <1>5, <2>1 DEF RaftSafe
    <3> QED
      BY <1>1, <1>2, <3>1 DEF Settled
  <2>2. CASE U = T /\ a = i
    BY <1>10, <2>2
  <2> QED
    BY <2>1, <2>2
<1>15. \A x, y \in S : e.nodes[x].term = e.nodes[y].term
  BY <1>1, <1>2, <1>5 DEF RaftSafe
<1> QED
  BY <1>1, <1>12, <1>13, <1>14, <1>15 DEF RaftSafe

\* With nobody down, the sides of a partition are the halves of the nodes.
LEMMA RaftPeersAre ==
    ASSUME NEW n \in Nat, NEW c, RaftGood(n, c), NEW i \in 1 .. n, Raft!Live(c) = 1 .. n
    PROVE  Raft!Peers(c, i) = RaftPeers(n, c, i)
<1>1. \A j \in 1 .. n : c.parted => c.nodes[j].side = IF j \in Half(n) THEN 2 ELSE 1
  BY DEF RaftGood
<1>2. \A j \in 1 .. n : Raft!CanCommunicate(c, i, j) <=> (c.parted => (j \in Half(n) <=> i \in Half(n)))
  BY <1>1 DEF Raft!CanCommunicate
<1> QED
  BY <1>2 DEF Raft!Peers, RaftPeers

LEMMA RaftLives ==
    ASSUME NEW n \in Nat, NEW c \in RaftCluster(n)
    PROVE  /\ DOMAIN c.nodes = 1 .. n /\ Raft!Live(c) = {j \in 1 .. n : c.nodes[j].role # "down"}
           /\ c.nodes \in Seq(RaftNode(n)) /\ Len(c.nodes) = n
<1>1. c.nodes \in [1 .. n -> RaftNode(n)]
  BY DEF RaftCluster
<1>2. DOMAIN c.nodes = 1 .. n
  BY <1>1
<1>3. Raft!Live(c) = {j \in 1 .. n : c.nodes[j].role # "down"}
  BY <1>2 DEF Raft!Live
<1>4. PICK h, R : h = c.nodes /\ R = RaftNode(n)
  OBVIOUS
<1>5. h \in Seq(R) /\ Len(h) = n
  BY <1>1, <1>4
<1> QED
  BY <1>2, <1>3, <1>4, <1>5

LEMMA RaftLivesSame ==
    ASSUME NEW n \in Nat, NEW c \in RaftCluster(n), NEW d \in RaftCluster(n),
           \A j \in 1 .. n : d.nodes[j].role = "down" <=> c.nodes[j].role = "down"
    PROVE  Raft!Live(d) = Raft!Live(c)
<1>1. Raft!Live(c) = {j \in 1 .. n : c.nodes[j].role # "down"}
  BY RaftLives
<1>2. Raft!Live(d) = {j \in 1 .. n : d.nodes[j].role # "down"}
  BY RaftLives
<1> QED
  BY <1>1, <1>2

LEMMA RaftSafeSame ==
    ASSUME NEW n \in Nat, NEW c, NEW d, RaftSafe(n, c), d.led = c.led,
           \A j \in 1 .. n : /\ d.nodes[j].role = c.nodes[j].role /\ d.nodes[j].term = c.nodes[j].term
                            /\ d.nodes[j].voted = c.nodes[j].voted
    PROVE  RaftSafe(n, d)
<1>1. Half(n) \subseteq 1 .. n
  BY DEF Half
<1>2. \A T, a : Settled(n, c, T, a) => Settled(n, d, T, a)
  BY <1>1 DEF Settled
<1> QED
  BY <1>1, <1>2 DEF RaftSafe

\* What only changes logs, commit indices and timers changes nothing else.
LEMMA RaftAlikeGood ==
    ASSUME NEW n \in Nat, NEW c, RaftGood(n, c), NEW d \in RaftCluster(n), d.parted = c.parted, d.led = c.led,
           \A j \in 1 .. n : RaftAlike(d.nodes[j], c.nodes[j])
    PROVE  RaftGood(n, d)
<1>1. c \in RaftCluster(n)
  BY DEF RaftGood
<1>2. Raft!Live(d) = Raft!Live(c)
  BY <1>1, RaftLivesSame DEF RaftAlike
<1>3. d.parted => \A j \in 1 .. n : d.nodes[j].side = IF j \in Half(n) THEN 2 ELSE 1
  BY DEF RaftGood, RaftAlike
<1>4. ASSUME Raft!Live(d) = 1 .. n PROVE RaftSafe(n, d)
  <2>1. RaftSafe(n, c)
    BY <1>2, <1>4 DEF RaftGood
  <2>2. \A j \in 1 .. n : /\ d.nodes[j].role = c.nodes[j].role /\ d.nodes[j].term = c.nodes[j].term
                          /\ d.nodes[j].voted = c.nodes[j].voted
    BY DEF RaftAlike
  <2> QED
    BY <2>1, <2>2, RaftSafeSame
<1> QED
  BY <1>3, <1>4 DEF RaftGood

\* The timers of a node change.
LEMMA RaftNodeChanged ==
    ASSUME NEW n \in Nat, NEW c, RaftGood(n, c), NEW i \in 1 .. n, NEW q \in RaftNode(n), RaftAlike(q, c.nodes[i]),
           NEW d, d = [c EXCEPT !.nodes[i] = q]
    PROVE  /\ RaftGood(n, d) /\ \A j \in 1 .. n : RaftAlike(d.nodes[j], c.nodes[j])
           /\ d.nodes[i] = q
<1>1. c \in RaftCluster(n)
  BY DEF RaftGood
<1>2. PICK g : g = [c.nodes EXCEPT ![i] = q]
  OBVIOUS
<1>3. g \in [1 .. n -> RaftNode(n)] /\ \A j \in 1 .. n : g[j] = IF j = i THEN q ELSE c.nodes[j]
  BY <1>1, <1>2 DEF RaftCluster
<1>4. d = [c EXCEPT !.nodes = g]
  BY <1>2
<1>5. d \in RaftCluster(n) /\ d.nodes = g /\ d.parted = c.parted /\ d.led = c.led
  BY <1>1, <1>3, <1>4 DEF RaftCluster
<1>6. \A j \in 1 .. n : RaftAlike(g[j], c.nodes[j])
  BY <1>3 DEF RaftAlike
<1>7. RaftGood(n, d)
  BY <1>5, <1>6, RaftAlikeGood
<1> QED
  BY <1>3, <1>5, <1>6, <1>7

LEMMA HeartbeatsGood ==
    ASSUME RaftAssumption, NEW n \in Nat, NEW c, RaftGood(n, c), NEW i \in 1 .. n, c.nodes[i].role = "leader",
           NEW d, d = Raft!SendHeartbeats(c, i)
    PROVE  RaftGood(n, d) /\ \A j \in 1 .. n : d.nodes[j].term \in {c.nodes[j].term, c.nodes[i].term}
<1>1. c \in RaftCluster(n)
  BY DEF RaftGood
<1>2. d \in RaftCluster(n) /\ RaftTells(n, c, d, i, Raft!Peers(c, i))
  BY <1>1, RaftHeartbeats
<1>3. /\ d.parted = c.parted
      /\ \A j \in 1 .. n : d.nodes[j].side = c.nodes[j].side /\ (d.nodes[j].role = "down" <=> c.nodes[j].role = "down")
  BY <1>2 DEF RaftTells
<1>4. Raft!Live(d) = Raft!Live(c)
  BY <1>1, <1>2, <1>3, RaftLivesSame
<1>5. d.parted => \A j \in 1 .. n : d.nodes[j].side = IF j \in Half(n) THEN 2 ELSE 1
  BY <1>3 DEF RaftGood
<1>6. ASSUME Raft!Live(d) = 1 .. n PROVE RaftSafe(n, d)
  <2>1. RaftSafe(n, c) /\ Raft!Peers(c, i) = RaftPeers(n, c, i)
    BY <1>4, <1>6, RaftPeersAre DEF RaftGood
  <2> QED
    BY <1>1, <1>2, <2>1, HeartbeatsSafe
<1>7. \A j \in 1 .. n : d.nodes[j].term \in {c.nodes[j].term, c.nodes[i].term}
  <2> SUFFICES ASSUME NEW j \in 1 .. n PROVE d.nodes[j].term \in {c.nodes[j].term, c.nodes[i].term}
    OBVIOUS
  <2>1. CASE j \in Raft!Peers(c, i)
    BY <1>2, <2>1 DEF RaftTells, RaftAlike
  <2>2. CASE j = i
    BY <1>2, <2>2 DEF RaftTells, RaftAlike
  <2>3. CASE j \notin Raft!Peers(c, i) \union {i}
    BY <1>2, <2>3 DEF RaftTells, RaftAlike
  <2> QED
    BY <2>1, <2>2, <2>3
<1> QED
  BY <1>2, <1>5, <1>6, <1>7 DEF RaftGood

LEMMA ElectionsGood ==
    ASSUME RaftAssumption, NEW n \in Nat, NEW c, RaftGood(n, c), NEW i \in 1 .. n, c.nodes[i].role # "down",
           NEW d, d = Raft!StartElection(c, i)
    PROVE  RaftGood(n, d)
<1>1. c \in RaftCluster(n)
  BY DEF RaftGood
<1>2. PICK p \in RaftCluster(n) : \E V :
         /\ RaftPolls(n, c, p, i, Raft!Peers(c, i), V)
         /\ d = IF Raft!Cardinality(V) >= Raft!Majority(c) THEN Raft!BecomeLeader(p, i) ELSE p
  BY <1>1, RaftElections
<1>3. PICK V : /\ RaftPolls(n, c, p, i, Raft!Peers(c, i), V)
               /\ d = IF Cardinality(V) >= Raft!Majority(c) THEN Raft!BecomeLeader(p, i) ELSE p
  BY <1>2, SameOperators
<1>4. /\ p.parted = c.parted /\ p.led = c.led
      /\ \A j \in 1 .. n : p.nodes[j].side = c.nodes[j].side /\ (p.nodes[j].role = "down" <=> c.nodes[j].role = "down")
      /\ p.nodes[i].role = "candidate" /\ p.nodes[i].term = c.nodes[i].term + 1
  BY <1>3 DEF RaftPolls
<1>5. Raft!Live(p) = Raft!Live(c)
  BY <1>1, <1>4, RaftLivesSame
<1>6. p.parted => \A j \in 1 .. n : p.nodes[j].side = IF j \in Half(n) THEN 2 ELSE 1
  BY <1>4 DEF RaftGood
<1>7. CASE ~(Cardinality(V) >= Raft!Majority(c))
  <2>1. d = p
    BY <1>3, <1>7
  <2>2. ASSUME Raft!Live(p) = 1 .. n PROVE RaftSafe(n, p)
    <3>1. RaftSafe(n, c) /\ Raft!Peers(c, i) = RaftPeers(n, c, i)
      BY <1>5, <2>2, RaftPeersAre DEF RaftGood
    <3> QED
      BY <1>1, <1>3, <3>1, PollsSafe
  <2> QED
    BY <1>6, <2>1, <2>2 DEF RaftGood
<1>8. CASE Cardinality(V) >= Raft!Majority(c)
  <2>1. PICK q, l, T : /\ l = p.nodes[i] /\ T = c.nodes[i].term + 1
                       /\ q = [l EXCEPT !.role = "leader", !.beat = 2]
    OBVIOUS
  <2>2. PICK g : g = [p.nodes EXCEPT ![i] = q]
    OBVIOUS
  <2>3. PICK e : e = [p EXCEPT !.nodes = g, !.led = p.led \union {<<T, i>>}]
    OBVIOUS
  <2>4. d = Raft!SendHeartbeats(e, i)
    <3>1. e = [p EXCEPT !.nodes[i].role = "leader", !.nodes[i].beat = 2,
                        !.led = @ \union {<<p.nodes[i].term, i>>}]
      <4>1. T = p.nodes[i].term
        BY <1>4, <2>1
      <4>2. p.nodes \in [1 .. n -> RaftNode(n)]
        BY DEF RaftCluster
      <4>3. p = [nodes |-> p.nodes, tick |-> p.tick, parted |-> p.parted, led |-> p.led]
        BY DEF RaftCluster
      <4>4. PICK m, t, b, L : m = p.nodes /\ t = p.tick /\ b = p.parted /\ L = p.led
        OBVIOUS
      <4>5. [m EXCEPT ![i] = [m[i] EXCEPT !.role = "leader", !.beat = 2]]
              = [[m EXCEPT ![i] = [m[i] EXCEPT !.role = "leader"]]
                   EXCEPT ![i] = [[m EXCEPT ![i] = [m[i] EXCEPT !.role = "leader"]][i] EXCEPT !.beat = 2]]
        BY <4>2, <4>4
      <4> QED
        BY <2>1, <2>2, <2>3, <4>1, <4>3, <4>4, <4>5
    <3>2. d = Raft!BecomeLeader(p, i)
      BY <1>3, <1>8
    <3> QED
      BY <3>1, <3>2 DEF Raft!BecomeLeader, Raft!HeartbeatInterval
  <2>5. l \in RaftNode(n) /\ T \in Nat
    <3>1. c.nodes[i].term \in Nat
      BY <1>1, RaftTermsTyped
    <3> QED
      BY <2>1, <3>1 DEF RaftCluster
  <2>6. q \in RaftNode(n) /\ q.role = "leader" /\ q.term = l.term /\ q.voted = l.voted /\ q.side = l.side
    <3>1. /\ l \in [role : RaftRoles, term : Nat, voted : 0 .. n, log : RaftLog, commit : Int,
                    timer : 0 .. TimeoutMax, beat : 0 .. 2, side : 0 .. 2]
          /\ Committable(l.commit, l.log)
      BY <2>5 DEF RaftNode
    <3>2. "leader" \in RaftRoles /\ 2 \in 0 .. 2
      BY DEF RaftRoles
    <3>3. /\ q \in [role : RaftRoles, term : Nat, voted : 0 .. n, log : RaftLog, commit : Int,
                    timer : 0 .. TimeoutMax, beat : 0 .. 2, side : 0 .. 2]
          /\ q.log = l.log /\ q.commit = l.commit /\ q.role = "leader" /\ q.term = l.term /\ q.voted = l.voted
          /\ q.side = l.side
      BY <2>1, <3>1, <3>2
    <3> QED
      BY <3>1, <3>3 DEF RaftNode
  <2>7. g \in [1 .. n -> RaftNode(n)] /\ \A j \in 1 .. n : g[j] = IF j = i THEN q ELSE p.nodes[j]
    BY <2>2, <2>6 DEF RaftCluster
  <2>8. PICK L : L = p.led \union {<<T, i>>}
    OBVIOUS
  <2>9. L \subseteq Nat \X (1 .. n)
    BY <2>5, <2>8 DEF RaftCluster
  <2>10. e = [p EXCEPT !.nodes = g, !.led = L]
    BY <2>3, <2>8
  <2>11. e \in RaftCluster(n) /\ e.nodes = g /\ e.parted = p.parted /\ e.led = L
    BY <2>7, <2>9, <2>10 DEF RaftCluster
  <2>12. \A j \in 1 .. n : /\ e.nodes[j].term = p.nodes[j].term /\ e.nodes[j].voted = p.nodes[j].voted
                           /\ j # i => e.nodes[j].role = p.nodes[j].role
                           /\ e.nodes[j].side = p.nodes[j].side
                           /\ e.nodes[j].role = "down" <=> p.nodes[j].role = "down"
    BY <1>4, <2>1, <2>6, <2>7, <2>11
  <2>13. Raft!Live(e) = Raft!Live(c)
    BY <1>5, <2>11, <2>12, RaftLivesSame
  <2>14. e.parted => \A j \in 1 .. n : e.nodes[j].side = IF j \in Half(n) THEN 2 ELSE 1
    BY <1>6, <2>11, <2>12
  <2>15. ASSUME Raft!Live(e) = 1 .. n PROVE RaftSafe(n, e)
    <3>1. RaftSafe(n, c) /\ Raft!Peers(c, i) = RaftPeers(n, c, i) /\ Raft!Live(c) = 1 .. n
      BY <2>13, <2>15, RaftPeersAre DEF RaftGood
    <3>2. Cardinality(V) >= n \div 2 + 1
      BY <1>8, <3>1, SameOperators, RaftHalves DEF Raft!Majority
    <3>3. RaftPolls(n, c, p, i, RaftPeers(n, c, i), V)
      BY <1>3, <3>1
    <3>4. e.led = p.led \union {<<T, i>>}
      BY <2>8, <2>11
    <3> QED
      BY <1>1, <2>1, <2>11, <2>12, <3>1, <3>2, <3>3, <3>4, WinnersSafe
  <2>16. RaftGood(n, e)
    BY <2>11, <2>14, <2>15 DEF RaftGood
  <2>17. e.nodes[i].role = "leader"
    BY <2>6, <2>7, <2>11
  <2> QED
    BY <2>4, <2>16, <2>17, HeartbeatsGood
<1> QED
  BY <1>7, <1>8

\* A node is stepped.
LEMMA RaftSteps ==
    ASSUME RaftAssumption, NEW n \in Nat, NEW c, RaftGood(n, c), NEW i \in 1 .. n, NEW d, d = Raft!StepNode(c, i)
    PROVE  RaftGood(n, d)
<1>1. PICK l : l = c.nodes[i]
  OBVIOUS
<1>2. /\ l \in RaftNode(n) /\ l.role \in RaftRoles /\ l.beat \in 0 .. 2 /\ l.timer \in 0 .. TimeoutMax
      /\ l \in [role : RaftRoles, term : Nat, voted : 0 .. n, log : RaftLog, commit : Int,
                timer : 0 .. TimeoutMax, beat : 0 .. 2, side : 0 .. 2]
      /\ Committable(l.commit, l.log)
  <2>1. l \in RaftNode(n)
    BY <1>1 DEF RaftGood, RaftCluster
  <2> QED
    BY <2>1, RaftNodeFields DEF RaftNode
<1>3. CASE d = c
  BY <1>3
<1>4. ASSUME NEW b \in 0 .. 2, d = [c EXCEPT !.nodes[i].beat = b] PROVE RaftGood(n, d)
  <2>1. PICK q : q = [l EXCEPT !.beat = b]
    OBVIOUS
  <2>2. q \in RaftNode(n) /\ RaftAlike(q, l)
    BY <1>2, <2>1 DEF RaftNode, RaftAlike
  <2>3. d = [c EXCEPT !.nodes[i] = q]
    BY <1>1, <1>4, <2>1
  <2> QED
    BY <1>1, <2>2, <2>3, RaftNodeChanged
<1>5. ASSUME NEW t \in 0 .. TimeoutMax, d = [c EXCEPT !.nodes[i].timer = t] PROVE RaftGood(n, d)
  <2>1. PICK q : q = [l EXCEPT !.timer = t]
    OBVIOUS
  <2>2. q \in RaftNode(n) /\ RaftAlike(q, l)
    BY <1>2, <2>1 DEF RaftNode, RaftAlike
  <2>3. d = [c EXCEPT !.nodes[i] = q]
    BY <1>1, <1>5, <2>1
  <2> QED
    BY <1>1, <2>2, <2>3, RaftNodeChanged
<1>6. CASE l.role = "leader" /\ d = [Raft!SendHeartbeats(c, i) EXCEPT !.nodes[i].beat = 2]
  <2>1. PICK e, m : e = Raft!SendHeartbeats(c, i) /\ m = e.nodes[i]
    OBVIOUS
  <2>2. RaftGood(n, e)
    BY <1>1, <1>6, <2>1, HeartbeatsGood
  <2>3. m \in RaftNode(n)
    BY <2>1, <2>2 DEF RaftGood, RaftCluster
  <2>4. PICK q : q = [m EXCEPT !.beat = 2]
    OBVIOUS
  <2>5. q \in RaftNode(n) /\ RaftAlike(q, m)
    BY <2>3, <2>4 DEF RaftNode, RaftAlike
  <2>6. d = [e EXCEPT !.nodes[i] = q]
    BY <1>6, <2>1, <2>4
  <2> QED
    BY <2>1, <2>2, <2>5, <2>6, RaftNodeChanged
<1>7. CASE l.role # "down" /\ d = Raft!StartElection(c, i)
  BY <1>1, <1>7, ElectionsGood
<1>8. \/ l.role = "down" /\ d = c
      \/ l.role = "leader" /\ l.beat > 1 /\ d = [c EXCEPT !.nodes[i].beat = l.beat - 1]
      \/ l.role = "leader" /\ d = [Raft!SendHeartbeats(c, i) EXCEPT !.nodes[i].beat = 2]
      \/ l.timer > 1 /\ d = [c EXCEPT !.nodes[i].timer = l.timer - 1]
      \/ l.role # "down" /\ d = Raft!StartElection(c, i)
  BY <1>1, <1>2 DEF Raft!StepNode, Raft!HeartbeatInterval, RaftRoles
<1>9. CASE l.role = "leader" /\ l.beat > 1 /\ d = [c EXCEPT !.nodes[i].beat = l.beat - 1]
  <2>1. PICK b : b = l.beat - 1 /\ b \in 0 .. 2
    BY <1>2, <1>9
  <2> QED
    BY <1>4, <1>9, <2>1
<1>10. CASE l.timer > 1 /\ d = [c EXCEPT !.nodes[i].timer = l.timer - 1]
  <2>1. PICK t : t = l.timer - 1 /\ t \in 0 .. TimeoutMax
    BY <1>2, <1>10
  <2> QED
    BY <1>5, <1>10, <2>1
<1> QED
  BY <1>3, <1>6, <1>7, <1>8, <1>9, <1>10

\* A cluster as it is made.
LEMMA RaftFresh ==
    ASSUME RaftAssumption, NEW n \in Nat \ {0}, NEW commit \in {-1, 0}, NEW c, c = Raft!Cluster(n, commit)
    PROVE  RaftGood(n, c) /\ \A j \in 1 .. n : c.nodes[j].term = 0
<1>1. PICK g : g = [i \in 1 .. n |->
                [role |-> "follower", term |-> 0, voted |-> 0, log |-> <<>>, commit |-> commit,
                 timer |-> TimeoutMin + ((2 * (i - 1)) % Raft!Span), beat |-> 0, side |-> 0]]
  OBVIOUS
<1>2. c = [nodes |-> g, tick |-> 0, parted |-> FALSE, led |-> {}]
  BY <1>1 DEF Raft!Cluster, Raft!NoVote
<1>3. ASSUME NEW i \in 1 .. n PROVE g[i] \in RaftNode(n) /\ g[i].role = "follower" /\ g[i].term = 0
  <2>1. PICK t : t = TimeoutMin + ((2 * (i - 1)) % Raft!Span)
    OBVIOUS
  <2>2. t \in 0 .. TimeoutMax
    <3>1. i \in Nat \ {0} /\ 0 \in Nat
      OBVIOUS
    <3> QED
      BY <2>1, <3>1, TimeoutsTyped
  <2>3. g[i] = [role |-> "follower", term |-> 0, voted |-> 0, log |-> <<>>, commit |-> commit,
                timer |-> t, beat |-> 0, side |-> 0]
    BY <1>1, <2>1
  <2>4. Committable(commit, <<>>) /\ <<>> \in RaftLog
    BY DEF Committable, RaftLog, RaftAssumption
  <2>5. "follower" \in RaftRoles /\ 0 \in 0 .. n /\ commit \in Int
    BY DEF RaftRoles
  <2> QED
    BY <2>2, <2>3, <2>4, <2>5 DEF RaftNode
<1>4. g \in [1 .. n -> RaftNode(n)]
  BY <1>1, <1>3
<1>5. c \in RaftCluster(n) /\ c.nodes = g /\ c.parted = FALSE /\ c.led = {}
  BY <1>2, <1>4 DEF RaftCluster
<1>6. RaftSafe(n, c)
  <2>1. Half(n) \subseteq 1 .. n
    BY DEF Half
  <2> QED
    BY <1>3, <1>5, <2>1 DEF RaftSafe
<1> QED
  BY <1>3, <1>5, <1>6 DEF RaftGood

\* The nodes are stepped one after another.
LEMMA RaftTicks ==
    ASSUME RaftAssumption, NEW n \in Nat, NEW c, RaftGood(n, c), NEW after,
           after = CHOOSE f : f = [k \in 0 .. Len(c.nodes) |->
                                     IF k = 0 THEN [c EXCEPT !.tick = (@ + 1) % Raft!Span]
                                     ELSE Raft!StepNode(f[k - 1], k)]
    PROVE  RaftGood(n, after[Len(c.nodes)])
<1>1. c \in RaftCluster(n) /\ Len(c.nodes) = n
  BY RaftLives DEF RaftGood
<1>2. PICK s : s = [c EXCEPT !.tick = (c.tick + 1) % Raft!Span]
  OBVIOUS
<1>3. RaftGood(n, s)
  <2>1. c.tick \in Nat /\ 1 \in Nat \ {0}
    BY <1>1 DEF RaftCluster
  <2>2. PICK t : t = (c.tick + 1) % Raft!Span
    OBVIOUS
  <2>3. t \in Nat
    BY <2>1, <2>2, TimeoutsTyped
  <2>4. s = [c EXCEPT !.tick = t]
    BY <1>2, <2>2
  <2>5. s \in RaftCluster(n) /\ s.nodes = c.nodes /\ s.parted = c.parted /\ s.led = c.led
    BY <1>1, <2>3, <2>4 DEF RaftCluster
  <2> QED
    BY <2>5, RaftAlikeGood DEF RaftAlike
<1> DEFINE Good == {x \in RaftCluster(n) : RaftGood(n, x)}
           step == [x \in Nat \X Good |-> IF x[1] < n THEN Raft!StepNode(x[2], x[1] + 1) ELSE x[2]]
           Steps(f) == f = [k \in 0 .. n |-> IF k = 0 THEN s ELSE Raft!StepNode(f[k - 1], k)]
<1>4. s \in Good /\ step \in [Nat \X Good -> Good]
  <2>1. \A x \in Good, k \in Nat : k < n => Raft!StepNode(x, k + 1) \in Good
    <3> SUFFICES ASSUME NEW x \in Good, NEW k \in Nat, k < n PROVE Raft!StepNode(x, k + 1) \in Good
      OBVIOUS
    <3>1. PICK i, d : i = k + 1 /\ d = Raft!StepNode(x, i)
      OBVIOUS
    <3>2. i \in 1 .. n
      BY <3>1
    <3>3. RaftGood(n, d)
      BY <3>1, <3>2, RaftSteps
    <3> QED
      BY <3>1, <3>3 DEF RaftGood
  <2>2. s \in Good
    BY <1>3 DEF RaftGood
  <2> HIDE DEF Good
  <2> QED
    BY <2>1, <2>2
<1>5. PICK g : Follows(g, Good, s, step)
  <2> HIDE DEF Good, step
  <2> QED
    BY <1>4, RecursionExists
<1>6. /\ g \in [Nat -> Good] /\ g[0] = s
      /\ \A k \in Nat : k < n => g[k + 1] = Raft!StepNode(g[k], k + 1)
  <2>1. g \in [Nat -> Good] /\ g[0] = s /\ \A k \in Nat : g[k + 1] = step[<<k, g[k]>>]
    BY <1>5 DEF Follows
  <2> HIDE DEF Good
  <2> QED
    BY <2>1
<1>7. PICK h : h = [k \in 0 .. n |-> g[k]]
  OBVIOUS
<1>8. Steps(h)
  <2>1. ASSUME NEW k \in 0 .. n PROVE h[k] = IF k = 0 THEN s ELSE Raft!StepNode(h[k - 1], k)
    <3>1. CASE k = 0
      BY <1>6, <1>7, <3>1
    <3>2. CASE k # 0
      <4>1. k - 1 \in Nat /\ (k - 1) + 1 = k /\ k - 1 < n /\ k - 1 \in 0 .. n
        BY <3>2
      <4>2. g[k] = Raft!StepNode(g[k - 1], k)
        BY <1>6, <4>1
      <4> QED
        BY <1>7, <3>2, <4>1, <4>2
    <3> QED
      BY <3>1, <3>2
  <2> QED
    BY <1>7, <2>1
<1>9. Steps(after)
  <2>1. after = CHOOSE f : Steps(f)
    BY <1>1, <1>2
  <2> HIDE DEF Steps
  <2> QED
    BY <1>8, <2>1
<1>10. after[0] = s /\ \A k \in Nat : k < n => after[k + 1] = Raft!StepNode(after[k], k + 1)
  <2>1. \A k \in 0 .. n : after[k] = IF k = 0 THEN s ELSE Raft!StepNode(after[k - 1], k)
    BY <1>9
  <2>2. ASSUME NEW k \in Nat, k < n PROVE after[k + 1] = Raft!StepNode(after[k], k + 1)
    <3>1. k + 1 \in 0 .. n /\ k + 1 # 0 /\ (k + 1) - 1 = k
      BY <2>2
    <3> QED
      BY <2>1, <3>1
  <2>3. 0 \in 0 .. n
    OBVIOUS
  <2> QED
    BY <2>1, <2>2, <2>3
<1> DEFINE S == {k \in Nat : k <= n => RaftGood(n, after[k])}
<1>11. S = Nat
  <2>1. S \in SUBSET Nat /\ 0 \in S
    BY <1>3, <1>10
  <2>2. ASSUME NEW k \in S PROVE k + 1 \in S
    <3>1. k \in Nat /\ (k <= n => RaftGood(n, after[k]))
      OBVIOUS
    <3>2. CASE k < n
      <4>1. PICK i, x, d : i = k + 1 /\ x = after[k] /\ d = after[k + 1]
        OBVIOUS
      <4>2. i \in 1 .. n /\ RaftGood(n, x) /\ d = Raft!StepNode(x, i)
        BY <1>10, <3>1, <3>2, <4>1
      <4>3. RaftGood(n, d)
        BY <4>2, RaftSteps
      <4> QED
        BY <3>1, <4>1, <4>3
    <3>3. CASE ~(k < n)
      BY <3>1, <3>3
    <3> QED
      BY <3>2, <3>3
  <2> HIDE DEF S
  <2> QED
    BY <2>1, <2>2, Induction
<1> QED
  BY <1>1, <1>11

\* Of the leaders L, those of the latest term have a first one.
LEMMA NewestLeader ==
    ASSUME NEW n \in Nat, NEW L \in SUBSET (1 .. n), L # {}, NEW f \in [1 .. n -> Nat],
           NEW N, N = {k \in L : \A j \in L : f[j] <= f[k]}
    PROVE  Raft!Min(N) \in L
<1>1. IsFiniteSet(L)
  BY RaftHalves, FS_Subset
<1>2. PICK U : U = {f[j] : j \in L}
  OBVIOUS
<1>3. IsFiniteSet(U)
  <2>1. IsFiniteSet({f[j] : j \in L})
    BY <1>1, FiniteValues
  <2> QED
    BY <1>2, <2>1
<1>4. \A j \in L : f[j] \in Nat /\ f[j] \in U
  BY <1>2
<1>5. U \subseteq Nat
  BY <1>2
<1>6. U \in SUBSET Int /\ U # {}
  <2>1. PICK j : j \in L
    OBVIOUS
  <2>2. U # {}
    BY <1>4, <2>1
  <2>3. U \subseteq Int
    BY <1>5
  <2> QED
    BY <2>2, <2>3
<1>7. PICK u \in U : \A v \in U : u >= v
  BY <1>3, <1>6, GreatestElement
<1>8. PICK k \in L : f[k] = u
  BY <1>2
<1>9. \A j \in L : f[j] <= f[k]
  BY <1>4, <1>7, <1>8
<1>10. k \in N /\ N \subseteq L
  BY <1>9
<1>11. N \in SUBSET Nat /\ N # {}
  <2>1. \A x \in 1 .. n : x \in Nat
    OBVIOUS
  <2>2. \A x \in N : x \in 1 .. n
    BY <1>10
  <2>3. \A x \in N : x \in Nat
    BY <2>1, <2>2
  <2> QED
    BY <1>10, <2>3
<1>12. \E x \in N : \A y \in N : x <= y
  BY <1>11, SmallestElement
<1>13. Raft!Min(N) = CHOOSE x \in N : \A y \in N : x <= y
  BY SameOperators
<1>14. Raft!Min(N) \in N
  BY <1>12, <1>13
<1> QED
  BY <1>10, <1>14

\* A node that appends an entry.
LEMMA RaftAppended ==
    ASSUME RaftAssumption, NEW n \in Nat, NEW l \in RaftNode(n), Len(l.log) < MaxLog,
           NEW m, m = Append(l.log, l.term), NEW q, q = [l EXCEPT !.log = m]
    PROVE  q \in RaftNode(n) /\ RaftAlike(q, l)
<1>6. /\ l.log \in RaftLog /\ l.term \in Nat /\ Committable(l.commit, l.log) /\ l.commit \in Int
      /\ l \in [role : RaftRoles, term : Nat, voted : 0 .. n, log : RaftLog, commit : Int,
                timer : 0 .. TimeoutMax, beat : 0 .. 2, side : 0 .. 2]
  BY RaftNodeFields DEF RaftNode
<1>7. m \in RaftLog /\ Len(m) = Len(l.log) + 1 /\ Len(l.log) \in Nat
  <2>1. l.log \in Seq(Nat) /\ Len(l.log) < MaxLog
    BY <1>6 DEF RaftLog
  <2>2. PICK h, t : h = l.log /\ t = l.term
    OBVIOUS
  <2>3. h \in Seq(Nat) /\ t \in Nat /\ m = Append(h, t)
    BY <1>6, <2>1, <2>2
  <2>4. m \in Seq(Nat) /\ Len(m) = Len(h) + 1 /\ Len(h) \in Nat
    BY <2>3, OneMoreElement, LenProperties
  <2>5. PICK k, g : k = Len(m) /\ g = Len(h)
    OBVIOUS
  <2>6. k = g + 1 /\ g \in Nat /\ g < MaxLog /\ MaxLog \in Nat
    BY <2>1, <2>2, <2>4, <2>5 DEF RaftAssumption
  <2>7. k <= MaxLog
    BY <2>6
  <2>8. m \in RaftLog
    BY <2>4, <2>5, <2>7 DEF RaftLog
  <2> QED
    BY <2>2, <2>4, <2>8
<1>8. Committable(l.commit, m)
  <2>1. PICK k, g, x : k = Len(m) /\ g = Len(l.log) /\ x = l.commit
    OBVIOUS
  <2>2. k = g + 1 /\ g \in Nat /\ x \in Int /\ x \in -1 .. MaxLog - 1 /\ (x <= 0 \/ x <= g - 1)
    BY <1>6, <1>7, <2>1 DEF Committable
  <2>3. x <= 0 \/ x <= k - 1
    BY <2>2
  <2> QED
    BY <2>1, <2>2, <2>3 DEF Committable
<1>9. q \in RaftNode(n) /\ RaftAlike(q, l)
  <2>1. /\ q \in [role : RaftRoles, term : Nat, voted : 0 .. n, log : RaftLog, commit : Int,
                  timer : 0 .. TimeoutMax, beat : 0 .. 2, side : 0 .. 2]
        /\ q.log = m /\ q.commit = l.commit /\ RaftAlike(q, l)
    BY <1>6, <1>7 DEF RaftAlike
  <2> QED
    BY <1>8, <2>1 DEF RaftNode
<1> QED
  BY <1>9

\* The sides change, and nothing else.
LEMMA RaftParts ==
    ASSUME NEW n \in Nat, NEW c, RaftGood(n, c), NEW d \in RaftCluster(n), d.led = c.led,
           \A j \in 1 .. n : /\ d.nodes[j].role = c.nodes[j].role /\ d.nodes[j].term = c.nodes[j].term
                             /\ d.nodes[j].voted = c.nodes[j].voted
                             /\ d.parted => d.nodes[j].side = IF j \in Half(n) THEN 2 ELSE 1
    PROVE  RaftGood(n, d)
<1>1. c \in RaftCluster(n)
  BY DEF RaftGood
<1>2. Raft!Live(d) = Raft!Live(c)
  BY <1>1, RaftLivesSame
<1>3. ASSUME Raft!Live(d) = 1 .. n PROVE RaftSafe(n, d)
  <2>1. RaftSafe(n, c)
    BY <1>2, <1>3 DEF RaftGood
  <2> QED
    BY <2>1, RaftSafeSame
<1> QED
  BY <1>3 DEF RaftGood

LEMMA RaftSided ==
    ASSUME NEW n \in Nat, NEW l \in RaftNode(n), NEW s \in 0 .. 2, NEW q, q = [l EXCEPT !.side = s]
    PROVE  q \in RaftNode(n) /\ q.role = l.role /\ q.term = l.term /\ q.voted = l.voted /\ q.side = s
BY DEF RaftNode

LEMMA RaftCrashes ==
    ASSUME NEW n \in Nat, NEW c, RaftGood(n, c), NEW i \in 1 .. n, NEW d, d = [c EXCEPT !.nodes[i].role = "down"]
    PROVE  RaftGood(n, d) /\ \A j \in 1 .. n : d.nodes[j].term = c.nodes[j].term
<1>1. c \in RaftCluster(n)
  BY DEF RaftGood
<1>2. PICK l, q : l = c.nodes[i] /\ q = [l EXCEPT !.role = "down"]
  OBVIOUS
<1>3. q \in RaftNode(n) /\ q.term = l.term /\ q.side = l.side /\ q.role = "down"
  <2>1. /\ l \in [role : RaftRoles, term : Nat, voted : 0 .. n, log : RaftLog, commit : Int,
                  timer : 0 .. TimeoutMax, beat : 0 .. 2, side : 0 .. 2]
        /\ Committable(l.commit, l.log)
    BY <1>1, <1>2 DEF RaftCluster, RaftNode
  <2>2. "down" \in RaftRoles
    BY DEF RaftRoles
  <2> QED
    BY <1>2, <2>1, <2>2 DEF RaftNode
<1>4. PICK g : g = [c.nodes EXCEPT ![i] = q]
  OBVIOUS
<1>5. g \in [1 .. n -> RaftNode(n)] /\ \A j \in 1 .. n : g[j] = IF j = i THEN q ELSE c.nodes[j]
  BY <1>1, <1>3, <1>4 DEF RaftCluster
<1>6. d = [c EXCEPT !.nodes = g]
  BY <1>2, <1>4
<1>7. d \in RaftCluster(n) /\ d.nodes = g /\ d.parted = c.parted
  BY <1>1, <1>5, <1>6 DEF RaftCluster
<1>8. Raft!Live(d) = {j \in 1 .. n : d.nodes[j].role # "down"}
  BY <1>7, RaftLives
<1>9. Raft!Live(d) # 1 .. n
  BY <1>3, <1>5, <1>7, <1>8
<1>10. d.parted => \A j \in 1 .. n : d.nodes[j].side = IF j \in Half(n) THEN 2 ELSE 1
  BY <1>2, <1>3, <1>5, <1>7 DEF RaftGood
<1> QED
  BY <1>2, <1>3, <1>5, <1>7, <1>9, <1>10 DEF RaftGood

LEMMA RaftGoesOn ==
    ASSUME RaftAssumption, RaftInv, Raft!Next
    PROVE  RaftInv'
<1>1. PICK s, d : s = st /\ d = st'
  OBVIOUS
<1>2. PICK n \in Nat : RaftGood(n, s)
  BY <1>1 DEF RaftInv
<1>3. s \in RaftCluster(n) /\ DOMAIN s.nodes = 1 .. n /\ Len(s.nodes) = n
  BY <1>2, RaftLives DEF RaftGood
<1>4. \A j \in 1 .. n : s.nodes[j].term <= MaxTerm
  BY <1>1, <1>3 DEF RaftInv
<1>5. ASSUME RaftGood(n, d), \A j \in 1 .. n : d.nodes[j].term <= MaxTerm PROVE RaftInv'
  <2>1. DOMAIN d.nodes = 1 .. n
    BY <1>5, RaftLives DEF RaftGood
  <2> QED
    BY <1>1, <1>5, <2>1 DEF RaftInv
<1>6. ASSUME RaftGood(n, d), Raft!Within(d) PROVE RaftInv'
  <2>1. DOMAIN d.nodes = 1 .. n
    BY <1>6, RaftLives DEF RaftGood
  <2>2. \A j \in 1 .. n : d.nodes[j].term <= MaxTerm
    BY <1>6, <2>1 DEF Raft!Within
  <2> QED
    BY <1>5, <1>6, <2>2
<1>7. ASSUME NEW m \in Nat \ {0}, NEW commit \in {-1, 0}, d = Raft!Cluster(m, commit) PROVE RaftInv'
  <2>1. RaftGood(m, d) /\ \A j \in 1 .. m : d.nodes[j].term = 0
    BY <1>7, RaftFresh
  <2>2. DOMAIN d.nodes = 1 .. m
    BY <2>1, RaftLives DEF RaftGood
  <2>3. 0 <= MaxTerm
    BY DEF RaftAssumption
  <2>4. \A j \in 1 .. m : d.nodes[j].term <= MaxTerm
    BY <2>1, <2>3
  <2> QED
    BY <1>1, <2>1, <2>2, <2>4 DEF RaftInv
<1>8. CASE Raft!StepTick
  <2>1. PICK after : /\ after = CHOOSE f : f = [k \in 0 .. Len(s.nodes) |->
                                                   IF k = 0 THEN [s EXCEPT !.tick = (s.tick + 1) % Raft!Span]
                                                   ELSE Raft!StepNode(f[k - 1], k)]
                     /\ d = after[Len(s.nodes)] /\ Raft!Within(d)
    BY <1>1, <1>8 DEF Raft!StepTick
  <2>2. RaftGood(n, d)
    BY <1>2, <2>1, RaftTicks
  <2> QED
    BY <1>6, <2>1, <2>2
<1>9. CASE Raft!ForceElection
  <2>1. PICK i \in Raft!Live(s) : d = Raft!StartElection(s, i)
    BY <1>1, <1>9 DEF Raft!ForceElection
  <2>2. Raft!Within(d)
    BY <1>1, <1>9 DEF Raft!ForceElection
  <2>3. i \in 1 .. n /\ s.nodes[i].role # "down"
    BY <1>3 DEF Raft!Live
  <2>4. RaftGood(n, d)
    BY <1>2, <2>1, <2>3, ElectionsGood
  <2> QED
    BY <1>6, <2>2, <2>4
<1>10. CASE Raft!ProposeLog
  <2> DEFINE L == {i \in DOMAIN s.nodes : s.nodes[i].role = "leader"}
             newest == {i \in L : \A j \in L : s.nodes[j].term <= s.nodes[i].term}
             first == Raft!Min(newest)
  <2>1. /\ L # {} /\ Len(s.nodes[first].log) < MaxLog
        /\ d = Raft!SendHeartbeats([s EXCEPT !.nodes[first].log = Append(@, s.nodes[first].term)], first)
    BY <1>1, <1>10 DEF Raft!ProposeLog
  <2>2. L \subseteq 1 .. n /\ \A j \in L : s.nodes[j].role = "leader"
    BY <1>3
  <2>3. PICK f : f = [j \in 1 .. n |-> s.nodes[j].term]
    OBVIOUS
  <2>4. f \in [1 .. n -> Nat]
    BY <1>3, <2>3, RaftTermsTyped
  <2> HIDE DEF L
  <2>5. newest = {k \in L : \A j \in L : f[j] <= f[k]}
    BY <2>2, <2>3
  <2> HIDE DEF newest
  <2>6. first \in L
    BY <2>1, <2>2, <2>4, <2>5, NewestLeader
  <2> HIDE DEF first
  <2>7. PICK i : i = first /\ i \in 1 .. n /\ s.nodes[i].role = "leader"
    BY <2>2, <2>6
  <2>8. PICK l, m, q : l = s.nodes[i] /\ m = Append(l.log, l.term) /\ q = [l EXCEPT !.log = m]
    OBVIOUS
  <2>9. l \in RaftNode(n) /\ Len(l.log) < MaxLog
    BY <1>3, <2>1, <2>7, <2>8 DEF RaftCluster
  <2>10. q \in RaftNode(n) /\ RaftAlike(q, l)
    BY <2>8, <2>9, RaftAppended
  <2>11. PICK e : e = [s EXCEPT !.nodes[i] = q]
    OBVIOUS
  <2>12. d = Raft!SendHeartbeats(e, i)
    BY <2>1, <2>7, <2>8, <2>11
  <2>13. q \in RaftNode(n) /\ RaftAlike(q, s.nodes[i])
    BY <2>8, <2>10
  <2>14. RaftGood(n, e) /\ e.nodes[i] = q /\ \A j \in 1 .. n : RaftAlike(e.nodes[j], s.nodes[j])
    <3>1. RaftGood(n, s) /\ i \in 1 .. n /\ q \in RaftNode(n) /\ RaftAlike(q, s.nodes[i])
      BY <1>2, <2>7, <2>13
    <3>2. RaftGood(n, e)
      BY <2>11, <3>1, RaftNodeChanged
    <3>3. e.nodes[i] = q
      BY <1>3, <2>7, <2>11 DEF RaftCluster
    <3>4. \A j \in 1 .. n : RaftAlike(e.nodes[j], s.nodes[j])
      BY <2>11, <3>1, RaftNodeChanged
    <3> QED
      BY <3>2, <3>3, <3>4
  <2>15. e.nodes[i].role = "leader" /\ \A j \in 1 .. n : e.nodes[j].term = s.nodes[j].term
    BY <2>7, <2>14 DEF RaftAlike
  <2>16. RaftGood(n, d) /\ \A j \in 1 .. n : d.nodes[j].term \in {e.nodes[j].term, e.nodes[i].term}
    BY <2>7, <2>12, <2>14, <2>15, HeartbeatsGood
  <2>17. \A j \in 1 .. n : d.nodes[j].term <= MaxTerm
    BY <1>4, <2>7, <2>15, <2>16
  <2> QED
    BY <1>5, <2>16, <2>17
<1>11. ASSUME NEW h \in [1 .. n -> 0 .. 2], NEW b \in BOOLEAN, b => \A j \in 1 .. n : h[j] = IF j \in Half(n) THEN 2 ELSE 1,
              d = [s EXCEPT !.parted = b, !.nodes = [j \in 1 .. n |-> [s.nodes[j] EXCEPT !.side = h[j]]]]
       PROVE  RaftInv'
  <2>1. PICK g : g = [j \in 1 .. n |-> [s.nodes[j] EXCEPT !.side = h[j]]]
    OBVIOUS
  <2>2. ASSUME NEW j \in 1 .. n
        PROVE  /\ g[j] \in RaftNode(n) /\ g[j].role = s.nodes[j].role /\ g[j].term = s.nodes[j].term
               /\ g[j].voted = s.nodes[j].voted /\ g[j].side = h[j]
    <3>1. PICK l, x : l = s.nodes[j] /\ x = h[j]
      OBVIOUS
    <3>2. l \in RaftNode(n) /\ x \in 0 .. 2 /\ g[j] = [l EXCEPT !.side = x]
      BY <1>3, <2>1, <3>1 DEF RaftCluster
    <3> QED
      BY <3>1, <3>2, RaftSided
  <2>3. g \in [1 .. n -> RaftNode(n)]
    BY <2>1, <2>2
  <2>4. d = [s EXCEPT !.parted = b, !.nodes = g]
    BY <1>11, <2>1
  <2>5. d \in RaftCluster(n) /\ d.nodes = g /\ d.parted = b /\ d.led = s.led
    BY <1>3, <2>3, <2>4 DEF RaftCluster
  <2>6. \A j \in 1 .. n : /\ d.nodes[j].role = s.nodes[j].role /\ d.nodes[j].term = s.nodes[j].term
                          /\ d.nodes[j].voted = s.nodes[j].voted
                          /\ d.parted => d.nodes[j].side = IF j \in Half(n) THEN 2 ELSE 1
    BY <1>11, <2>2, <2>5
  <2>7. RaftGood(n, d)
    BY <1>2, <2>5, <2>6, RaftParts
  <2> QED
    BY <1>4, <1>5, <2>6, <2>7
<1>12. CASE Raft!PartitionNetwork
  <2>1. PICK h : h = [j \in 1 .. n |-> IF j <= n \div 2 THEN 1 ELSE 2]
    OBVIOUS
  <2>2. d = [s EXCEPT !.parted = TRUE,
                      !.nodes = [i \in DOMAIN s.nodes |->
                         [s.nodes[i] EXCEPT !.side = IF i <= Len(s.nodes) \div 2 THEN 1 ELSE 2]]]
    BY <1>1, <1>12 DEF Raft!PartitionNetwork
  <2>3. [j \in 1 .. n |-> [s.nodes[j] EXCEPT !.side = h[j]]]
          = [i \in DOMAIN s.nodes |-> [s.nodes[i] EXCEPT !.side = IF i <= Len(s.nodes) \div 2 THEN 1 ELSE 2]]
    BY <1>3, <2>1
  <2>4. d = [s EXCEPT !.parted = TRUE, !.nodes = [j \in 1 .. n |-> [s.nodes[j] EXCEPT !.side = h[j]]]]
    BY <2>2, <2>3
  <2>5. \A j \in 1 .. n : h[j] = IF j \in Half(n) THEN 2 ELSE 1
    <3>1. n \div 2 \in Nat
      OBVIOUS
    <3> QED
      BY <2>1, <3>1 DEF Half
  <2>6. h \in [1 .. n -> 0 .. 2]
    BY <2>1
  <2> QED
    BY <1>11, <2>4, <2>5, <2>6
<1>13. CASE Raft!RecoverPartition
  <2>1. PICK h : h = [j \in 1 .. n |-> 0]
    OBVIOUS
  <2>2. d = [s EXCEPT !.parted = FALSE, !.nodes = [i \in DOMAIN s.nodes |-> [s.nodes[i] EXCEPT !.side = 0]]]
    BY <1>1, <1>13 DEF Raft!RecoverPartition
  <2>3. [j \in 1 .. n |-> [s.nodes[j] EXCEPT !.side = h[j]]] = [i \in DOMAIN s.nodes |-> [s.nodes[i] EXCEPT !.side = 0]]
    BY <1>3, <2>1
  <2>4. d = [s EXCEPT !.parted = FALSE, !.nodes = [j \in 1 .. n |-> [s.nodes[j] EXCEPT !.side = h[j]]]]
    BY <2>2, <2>3
  <2>5. h \in [1 .. n -> 0 .. 2]
    BY <2>1
  <2> QED
    BY <1>11, <2>4, <2>5
<1>14. CASE Raft!CrashNode
  <2>1. PICK i \in 1 .. n : d = [s EXCEPT !.nodes[i].role = "down"]
    BY <1>1, <1>3, <1>14 DEF Raft!CrashNode
  <2>2. RaftGood(n, d) /\ \A j \in 1 .. n : d.nodes[j].term = s.nodes[j].term
    BY <1>2, <2>1, RaftCrashes
  <2> QED
    BY <1>4, <1>5, <2>2
<1>15. CASE Raft!SetCluster
  <2>1. PICK m \in RaftSizes : d = Raft!Cluster(m, -1)
    BY <1>1, <1>15 DEF Raft!SetCluster
  <2>2. m \in Nat \ {0}
    BY DEF RaftAssumption
  <2> QED
    BY <1>7, <2>1, <2>2
<1>16. CASE Raft!Reset
  <2>1. d = Raft!Cluster(DefaultNodes, 0) /\ DefaultNodes \in Nat \ {0}
    BY <1>1, <1>16 DEF Raft!Reset, RaftAssumption
  <2> QED
    BY <1>7, <2>1
<1> QED
  BY <1>8, <1>9, <1>10, <1>12, <1>13, <1>14, <1>15, <1>16 DEF Raft!Next

LEMMA RaftStarts ==
    ASSUME RaftAssumption, Raft!Init
    PROVE  RaftInv
<1>1. PICK n, c : n = DefaultNodes /\ c = st
  OBVIOUS
<1>2. n \in Nat \ {0} /\ c = Raft!Cluster(n, 0) /\ 0 <= MaxTerm
  BY <1>1 DEF Raft!Init, RaftAssumption
<1>3. RaftGood(n, c) /\ \A j \in 1 .. n : c.nodes[j].term = 0
  BY <1>2, RaftFresh
<1>4. DOMAIN c.nodes = 1 .. n
  BY <1>2, <1>3, RaftLives DEF RaftGood
<1>5. \A j \in 1 .. n : c.nodes[j].term <= MaxTerm
  BY <1>2, <1>3
<1> QED
  BY <1>1, <1>2, <1>3, <1>4, <1>5 DEF RaftInv

LEMMA RaftHolds ==
    ASSUME RaftAssumption, RaftInv
    PROVE  Raft!TypeOK /\ Raft!OneLeaderPerTerm
<1>1. PICK s : s = st
  OBVIOUS
<1>2. PICK n \in Nat : RaftGood(n, s)
  BY <1>1 DEF RaftInv
<1>3. s \in RaftCluster(n) /\ DOMAIN s.nodes = 1 .. n /\ Len(s.nodes) = n
  BY <1>2, RaftLives DEF RaftGood
<1>4. \A j \in 1 .. n : s.nodes[j].term <= MaxTerm
  BY <1>1, <1>3 DEF RaftInv
<1>5. ASSUME NEW i \in 1 .. n, NEW l, l = s.nodes[i]
      PROVE  /\ l.role \in {"follower", "candidate", "leader", "down"}
             /\ l.term \in 0 .. MaxTerm /\ l.voted \in 0 .. n
             /\ l.timer \in 0 .. TimeoutMax /\ l.beat \in 0 .. 2
             /\ l.commit \in -1 .. MaxLog - 1 /\ l.commit <= Raft!Max({0, Len(l.log) - 1})
  <2>1. l \in RaftNode(n)
    BY <1>3, <1>5 DEF RaftCluster
  <2>2. /\ l.role \in RaftRoles /\ l.term \in Nat /\ l.voted \in 0 .. n /\ l.log \in RaftLog /\ l.commit \in Int
        /\ l.timer \in 0 .. TimeoutMax /\ l.beat \in 0 .. 2
        /\ Committable(l.commit, l.log)
    BY <2>1, RaftNodeFields
  <2>3. l.term \in 0 .. MaxTerm
    BY <1>4, <1>5, <2>2 DEF RaftAssumption
  <2>4. PICK k, m, x : k = Len(l.log) /\ x = l.commit /\ m = Raft!Max({0, k - 1})
    OBVIOUS
  <2>5. k \in Nat /\ x \in -1 .. MaxLog - 1 /\ (x <= 0 \/ x <= k - 1) /\ x \in Int
    BY <2>2, <2>4 DEF RaftLog, Committable
  <2>6. m \in {0, k - 1} /\ \A y \in {0, k - 1} : m >= y
    <3>1. \E z \in {0, k - 1} : \A y \in {0, k - 1} : z >= y
      BY <2>5
    <3>2. m = CHOOSE z \in {0, k - 1} : \A y \in {0, k - 1} : z >= y
      BY <2>4, SameOperators
    <3> QED
      BY <3>1, <3>2
  <2>7. x <= m
    BY <2>5, <2>6
  <2> QED
    BY <2>2, <2>3, <2>4, <2>5, <2>7 DEF RaftRoles
<1>6. Raft!TypeOK
  BY <1>1, <1>3, <1>5 DEF Raft!TypeOK, Raft!HeartbeatInterval
<1>7. Raft!OneLeaderPerTerm
  <2> SUFFICES ASSUME Raft!Live(s) = 1 .. n, NEW a \in s.led, NEW b \in s.led, a[1] = b[1] PROVE a = b
    BY <1>1, <1>3 DEF Raft!OneLeaderPerTerm
  <2>1. RaftSafe(n, s)
    BY <1>2 DEF RaftGood
  <2>2. a \in Nat \X (1 .. n) /\ b \in Nat \X (1 .. n)
    BY <1>3 DEF RaftCluster
  <2>3. a = <<a[1], a[2]>> /\ b = <<b[1], b[2]>> /\ a[1] \in Nat /\ a[2] \in 1 .. n /\ b[2] \in 1 .. n
    BY <2>2
  <2>4. <<a[1], a[2]>> \in s.led /\ <<a[1], b[2]>> \in s.led
    BY <2>3
  <2>5. a[2] = b[2]
    BY <2>1, <2>3, <2>4 DEF RaftSafe
  <2> QED
    BY <2>3, <2>5
<1> QED
  BY <1>6, <1>7

-----------------------------------------------------------------------------
(* The scenes side by side.                                                *)

\* What each scene maintains while it is the one that is played.
ScenesInv ==
    /\ scene = "raft" => RaftInv
    /\ scene = "pbft" => PbftInv
    /\ scene = "dpos" => DposInv
    /\ scene = "contract" => ContractInv
    /\ scene = "governance" => GovernanceInv
    /\ scene = "pos" => PosInv
    /\ scene = "partition" => PartitionInv

LEMMA ScenesStart == Init => ScenesInv
<1> SUFFICES ASSUME Init PROVE ScenesInv
  OBVIOUS
<1>1. /\ scene = "raft" => Raft!Init
      /\ scene = "pbft" => Pbft!Init
      /\ scene = "dpos" => Dpos!Init
      /\ scene = "contract" => Contract!Init
      /\ scene = "governance" => Governance!Init
      /\ scene = "pos" => Pos!Init
      /\ scene = "partition" => Partition!Init
  BY DEF Init
<1>2. Raft!Init => RaftInv
  BY RaftStarts, RaftAssumption
<1>3. Pbft!Init => PbftInv
  BY PbftStarts, PbftAssumption DEF Pbft!Init, PbftInv
<1>4. Dpos!Init => DposInv
  BY DposStarts, DposAssumption DEF Dpos!Init, DposInv
<1>5. Contract!Init => ContractInv
  BY ContractStarts, ContractAssumption
<1>6. Governance!Init => GovernanceInv
  BY GovernanceStarts, GovernanceAssumption DEF Governance!Init, GovernanceInv
<1>7. Pos!Init => PosInv
  <2>1. 1 \in DOMAIN Groups
    BY PosAssumption DEF PosAssumption
  <2> QED
    BY <2>1, PosStarts, PosAssumption DEF Pos!Init
<1>8. Partition!Init => PartitionInv
  BY PartitionStarts, PartitionAssumption
<1> QED
  BY <1>1, <1>2, <1>3, <1>4, <1>5, <1>6, <1>7, <1>8 DEF ScenesInv

LEMMA ScenesGoOn == ScenesInv /\ [Next]_<<scene, st, left>> => ScenesInv'
<1> SUFFICES ASSUME ScenesInv, [Next]_<<scene, st, left>> PROVE ScenesInv'
  OBVIOUS
<1>1. scene' = scene
  BY DEF Next, Plays
<1>2. CASE UNCHANGED <<scene, st, left>>
  <2>1. st' = st
    BY <1>2
  <2>2. RaftInv => RaftInv'
    BY <2>1 DEF RaftInv
  <2>3. PbftInv => PbftInv'
    BY <2>1 DEF PbftInv
  <2>4. DposInv => DposInv'
    BY <2>1 DEF DposInv
  <2>5. ContractInv => ContractInv'
    BY <2>1 DEF ContractInv
  <2>6. GovernanceInv => GovernanceInv'
    BY <2>1 DEF GovernanceInv
  <2>7. PosInv => PosInv'
    BY <2>1 DEF PosInv, PosState, Rewarded, Pos!Validators, Pos!Slashed
  <2>8. PartitionInv => PartitionInv'
    BY <2>1 DEF PartitionInv, PartitionState, Partition!Live, Partition!PartitionMembers, Partition!Majority
  <2> QED
    BY <1>1, <2>2, <2>3, <2>4, <2>5, <2>6, <2>7, <2>8 DEF ScenesInv
<1>3. CASE Next
  <2>1. /\ scene = "raft" => Raft!Next
        /\ scene = "pbft" => Pbft!Next
        /\ scene = "dpos" => Dpos!Next
        /\ scene = "contract" => Contract!Next
        /\ scene = "governance" => Governance!Next
        /\ scene = "pos" => Pos!Next
        /\ scene = "partition" => Partition!Next
    BY <1>3 DEF Next, Plays
  <2>2. scene = "raft" => RaftInv'
    BY <2>1, RaftGoesOn, RaftAssumption DEF ScenesInv
  <2>3. scene = "pbft" => PbftInv'
    BY <2>1, PbftGoesOn, PbftAssumption DEF ScenesInv
  <2>4. scene = "dpos" => DposInv'
    BY <2>1, DposGoesOn, DposAssumption DEF ScenesInv
  <2>5. scene = "contract" => ContractInv'
    BY <2>1, ContractGoesOn, ContractAssumption DEF ScenesInv
  <2>6. scene = "governance" => GovernanceInv'
    BY <2>1, GovernanceGoesOn, GovernanceAssumption DEF ScenesInv
  <2>7. scene = "pos" => PosInv'
    BY <2>1, PosGoesOn, PosAssumption DEF ScenesInv
  <2>8. scene = "partition" => PartitionInv'
    BY <2>1, PartitionGoesOn, PartitionAssumption DEF ScenesInv
  <2> QED
    BY <1>1, <2>2, <2>3, <2>4, <2>5, <2>6, <2>7, <2>8 DEF ScenesInv
<1> QED
  BY <1>2, <1>3

LEMMA ScenesHold == ScenesInv => OneChoice
<1> SUFFICES ASSUME ScenesInv PROVE OneChoice
  OBVIOUS
<1>1. scene = "raft" => Raft!TypeOK /\ Raft!OneLeaderPerTerm
  BY RaftHolds, RaftAssumption DEF ScenesInv
<1>2. scene = "pbft" => Pbft!TypeOK /\ Pbft!CommittedByQuorum
  BY PbftHolds DEF ScenesInv
<1>3. scene = "dpos" => Dpos!TypeOK /\ Dpos!SeatsRight
  BY DposHolds, DposAssumption DEF ScenesInv
<1>4. scene = "contract" => Contract!TypeOK /\ Contract!ExecutedByVoters
  BY ContractHolds DEF ScenesInv
<1>5. scene = "governance" => Governance!TypeOK /\ Governance!ExecutedFairly
  BY GovernanceHolds DEF ScenesInv
<1>6. scene = "pos" => Pos!TypeOK /\ Pos!SlashedStaysOut
  BY PosHolds DEF ScenesInv
<1>7. scene = "partition" => Partition!TypeOK /\ Partition!Agreement
  BY PartitionHolds, PartitionAssumption DEF ScenesInv
<1> QED
  BY <1>1, <1>2, <1>3, <1>4, <1>5, <1>6, <1>7 DEF OneChoice

\* In every scene in which several parties choose, what they choose is chosen once and by
\* those who may: a leader per term while no node is down, a request committed by a quorum
\* of the replicas, delegates for the places there are, proposals executed that the voters
\* or the holders passed, producers that were not slashed, and in CP mode the one partition
\* that takes writes.
THEOREM ChoicesAreMadeOnce == Spec => []OneChoice
<1>1. Init => ScenesInv
  BY ScenesStart
<1>2. ScenesInv /\ [Next]_<<scene, st, left>> => ScenesInv'
  BY ScenesGoOn
<1>3. ScenesInv => OneChoice
  BY ScenesHold
<1> QED
  BY <1>1, <1>2, <1>3, PTL DEF Spec
=============================================================================
