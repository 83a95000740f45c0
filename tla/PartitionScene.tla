--------------------------- MODULE PartitionScene ---------------------------
(***************************************************************************)
(* The scene nodenetwork/networkpartition: replicas of a register, in CP   *)
(* or AP mode, through partitions, crashes and recovery.                   *)
(*                                                                         *)
(* A written value is its version: both grow with the tick, so that the    *)
(* last writer is the one with the highest version.  The list of conflicts *)
(* is only shown.  A crashed node never comes back.                        *)
(***************************************************************************)
EXTENDS Integers, FiniteSets, FiniteSetsExt

CONSTANTS Nodes, Keys, MaxVersion   \* the number of nodes, the keys, a bound

VARIABLE st    \* snapState, and a history of the partitions that took a write in CP mode

Names == 1 .. Nodes
Fresh == [part |-> [i \in Names |-> 0], down |-> {}, kv |-> [i \in Names |-> [k \in Keys |-> 0]],
          mode |-> "ap", split |-> FALSE, version |-> 0, took |-> {}]

Live == Names \ st.down
Majority == Cardinality(Live) \div 2 + 1
PartitionMembers(p) == {i \in Live : ~st.split \/ st.part[i] = p}

-----------------------------------------------------------------------------
SetMode(mode) == st' = [st EXCEPT !.mode = mode]

ApplyPartition(at) ==
    st' = [st EXCEPT !.split = TRUE, !.took = {}, !.part = [i \in Names |-> IF i <= at THEN 1 ELSE 2]]

WriteKV(i, key) ==
    LET members == PartitionMembers(st.part[i]) IN
    /\ i \in Live /\ st.version < MaxVersion
    /\ st.mode = "cp" /\ st.split => Cardinality(members) >= Majority
    /\ st' = [st EXCEPT
         !.version = @ + 1,
         !.kv = [j \in Names |-> IF j \in members THEN [@[j] EXCEPT ![key] = st.version + 1] ELSE @[j]],
         !.took = IF st.mode = "cp" /\ st.split THEN @ \union {st.part[i]} ELSE @]

\* The latest write of a live node wins, and the crashed ones get it too.
RecoverPartition ==
    LET latest(key) == IF Live = {} THEN 0 ELSE Max({st.kv[i][key] : i \in Live}) IN
    /\ st.split
    /\ st' = [st EXCEPT !.split = FALSE, !.took = {}, !.part = [i \in Names |-> 0],
                        !.kv = [i \in Names |-> [key \in Keys |-> latest(key)]]]

\* Fewer live nodes make a smaller majority.
CrashNode(i) == st' = [st EXCEPT !.down = @ \union {i}, !.took = {}]
Reset == st' = Fresh

Init == st = Fresh
Next ==
    \/ RecoverPartition \/ Reset
    \/ \E mode \in {"cp", "ap"} : SetMode(mode)
    \/ \E at \in 1 .. Nodes - 1 : ApplyPartition(at)
    \/ \E i \in Names : CrashNode(i) \/ \E key \in Keys : WriteKV(i, key)
Spec == Init /\ [][Next]_st

-----------------------------------------------------------------------------
TypeOK == \A i \in Names : st.part[i] \in 0 .. 2 /\ \A key \in Keys : st.kv[i][key] \in 0 .. st.version

\* Outside of a partition the live nodes agree, with the last write when nobody crashed;
\* and in CP mode one partition takes writes, as long as nobody crashes in it.
Agreement ==
    /\ ~st.split =>
         /\ \A i, j \in Live : st.kv[i] = st.kv[j]
         /\ st.down = {} => \A i \in Live : st.version = Max({st.kv[i][key] : key \in Keys})
    /\ Cardinality(st.took) <= 1
=============================================================================
