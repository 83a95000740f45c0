----------------------------- MODULE RaftScene -----------------------------
(***************************************************************************)
(* The scene consensus/raftelection: a cluster whose nodes call each other *)
(* directly while one of them is being stepped.                            *)
(*                                                                         *)
(* Nodes are numbered as in the code.  The tick is kept modulo the span of *)
(* the election timeout, which is all that is read of it; an entry of a    *)
(* log is the term it was proposed in; who voted is needed only while a    *)
(* node counts.  Several ticks at once are several ticks.                  *)
(***************************************************************************)
EXTENDS Integers, Sequences, FiniteSets, FiniteSetsExt

CONSTANTS
    DefaultNodes, RaftSizes,  \* node counts, of a new cluster and of set_cluster
    TimeoutMin, TimeoutMax,   \* of the election timer
    MaxTerm, MaxLog           \* bounds

VARIABLE st    \* clusterState

NoVote == 0
HeartbeatInterval == 2
Span == TimeoutMax - TimeoutMin + 1
Timeout(tick, i) == TimeoutMin + ((tick + 7 * (i - 1)) % Span)

Cluster(n, commit) ==
    [nodes |-> [i \in 1 .. n |->
        [role |-> "follower", term |-> 0, voted |-> NoVote, log |-> <<>>, commit |-> commit,
         timer |-> TimeoutMin + ((2 * (i - 1)) % Span), beat |-> 0, side |-> 0]],
     tick |-> 0, parted |-> FALSE,
     led |-> {}]    \* history: the leaders of each term

Live(c) == {i \in DOMAIN c.nodes : c.nodes[i].role # "down"}
Majority(c) == Cardinality(Live(c)) \div 2 + 1
CanCommunicate(c, i, j) == c.parted => c.nodes[i].side = c.nodes[j].side
Peers(c, i) == {j \in Live(c) \ {i} : CanCommunicate(c, i, j)}
LastTerm(log) == IF log = <<>> THEN 0 ELSE log[Len(log)]

-----------------------------------------------------------------------------
(* AppendEntries: the suffix the follower lacks is copied, without asking  *)
(* whether what comes before it agrees.                                    *)

Appended(c, leader, j) ==
    LET f == c.nodes[j] IN
    [f EXCEPT !.role = "follower", !.term = leader.term,
              !.voted = IF leader.term > f.term THEN NoVote ELSE @,
              !.timer = Timeout(c.tick, j),
              !.log = @ \o SubSeq(leader.log, Len(@) + 1, Len(leader.log))]

AdvanceCommitIndex(c, i) ==
    LET leader == c.nodes[i]
        has(n) == {j \in Peers(c, i) \union {i} :
                     Len(c.nodes[j].log) >= n /\ c.nodes[j].log[n] = leader.log[n]}
        replicated == {n \in leader.commit + 2 .. Len(leader.log) :
                         Cardinality(has(n)) >= Majority(c)}
    IN IF replicated = {} THEN c ELSE [c EXCEPT !.nodes[i].commit = Max(replicated) - 1]

\* The nodes are told in their order, until one that is in a later term.
SendHeartbeats(c, i) ==
    LET leader == c.nodes[i]
        ahead == {j \in Peers(c, i) : c.nodes[j].term > leader.term}
        told == {j \in Peers(c, i) : \A k \in ahead : j < k}
        sent == [c EXCEPT !.nodes = [j \in DOMAIN @ |-> IF j \in told THEN Appended(c, leader, j) ELSE @[j]]]
    IN IF ahead = {} THEN AdvanceCommitIndex(sent, i)
       ELSE [sent EXCEPT !.nodes[i] = [@ EXCEPT !.role = "follower", !.voted = NoVote,
                                                !.timer = Timeout(c.tick, i)]]

-----------------------------------------------------------------------------
(* RequestVote.                                                            *)

UpToDate(log, than) ==
    \/ LastTerm(log) > LastTerm(than)
    \/ LastTerm(log) = LastTerm(than) /\ Len(log) >= Len(than)

Grants_again(c, i, j) ==    \* mutant: whoever voted may vote again
    /\ c.nodes[j].term <= c.nodes[i].term
    /\ UpToDate(c.nodes[i].log, c.nodes[j].log)

Grants(c, i, j) ==
    LET r == c.nodes[j] IN
    /\ r.term < c.nodes[i].term \/ (r.term = c.nodes[i].term /\ r.voted \in {NoVote, i})
    /\ UpToDate(c.nodes[i].log, r.log)

HandleRequestVote(c, i, j) ==
    LET r == c.nodes[j]
        seen == IF r.term < c.nodes[i].term
                THEN [r EXCEPT !.term = c.nodes[i].term, !.role = "follower", !.voted = NoVote] ELSE r
    IN IF Grants(c, i, j) THEN [seen EXCEPT !.voted = i, !.timer = Timeout(c.tick, j)] ELSE seen

BecomeLeader(c, i) ==
    SendHeartbeats([c EXCEPT !.nodes[i].role = "leader", !.nodes[i].beat = HeartbeatInterval,
                             !.led = @ \union {<<c.nodes[i].term, i>>}], i)

StartElection(c, i) ==
    LET asks == [c EXCEPT !.nodes[i] = [c.nodes[i] EXCEPT !.role = "candidate", !.term = @ + 1, !.voted = i,
                                                          !.timer = Timeout(c.tick, i)]]
        votes == {i} \union {j \in Peers(asks, i) : Grants(asks, i, j)}
        polled == [asks EXCEPT !.nodes = [j \in DOMAIN @ |->
                     IF j \in Peers(asks, i) THEN HandleRequestVote(asks, i, j) ELSE @[j]]]
    IN IF Cardinality(votes) >= Majority(c) THEN BecomeLeader(polled, i) ELSE polled

-----------------------------------------------------------------------------
(* The actions of the scene.                                               *)

StepNode(c, i) ==
    LET n == c.nodes[i] IN
    CASE n.role = "down" -> c
      [] n.role = "leader" /\ n.beat > 1 -> [c EXCEPT !.nodes[i].beat = @ - 1]
      [] n.role = "leader" /\ n.beat <= 1 -> [SendHeartbeats(c, i) EXCEPT !.nodes[i].beat = HeartbeatInterval]
      [] n.role \in {"follower", "candidate"} /\ n.timer > 1 -> [c EXCEPT !.nodes[i].timer = @ - 1]
      [] OTHER -> StartElection(c, i)

Within(c) == \A i \in DOMAIN c.nodes : c.nodes[i].term <= MaxTerm

\* The nodes are stepped in their order.
StepTick ==
    LET after[k \in 0 .. Len(st.nodes)] ==
          IF k = 0 THEN [st EXCEPT !.tick = (@ + 1) % Span] ELSE StepNode(after[k - 1], k)
    IN st' = after[Len(st.nodes)] /\ Within(st')

ForceElection ==
    /\ \E i \in Live(st) : st' = StartElection(st, i)
    /\ Within(st')

\* The first of the leaders of the latest term appends, and tells the others.
ProposeLog ==
    LET leaders == {i \in DOMAIN st.nodes : st.nodes[i].role = "leader"}
        newest == {i \in leaders : \A j \in leaders : st.nodes[j].term <= st.nodes[i].term}
        i == Min(newest)
    IN /\ leaders # {} /\ Len(st.nodes[i].log) < MaxLog
       /\ st' = SendHeartbeats([st EXCEPT !.nodes[i].log = Append(@, st.nodes[i].term)], i)

PartitionNetwork ==
    st' = [st EXCEPT !.parted = TRUE,
                     !.nodes = [i \in DOMAIN @ |->
                        [@[i] EXCEPT !.side = IF i <= Len(st.nodes) \div 2 THEN 1 ELSE 2]]]
RecoverPartition ==
    st' = [st EXCEPT !.parted = FALSE, !.nodes = [i \in DOMAIN @ |-> [@[i] EXCEPT !.side = 0]]]
CrashNode == \E i \in DOMAIN st.nodes : st' = [st EXCEPT !.nodes[i].role = "down"]
SetCluster == \E n \in RaftSizes : st' = Cluster(n, -1)
Reset == st' = Cluster(DefaultNodes, 0)

Init == st = Cluster(DefaultNodes, 0)
Next ==
    \/ StepTick \/ ForceElection \/ ProposeLog \/ PartitionNetwork \/ RecoverPartition
    \/ CrashNode \/ SetCluster \/ Reset
Spec == Init /\ [][Next]_st

-----------------------------------------------------------------------------
TypeOK ==
    \A i \in DOMAIN st.nodes : LET n == st.nodes[i] IN
        /\ n.role \in {"follower", "candidate", "leader", "down"}
        /\ n.term \in 0 .. MaxTerm /\ n.voted \in 0 .. Len(st.nodes)
        /\ n.timer \in 0 .. TimeoutMax /\ n.beat \in 0 .. HeartbeatInterval
        /\ n.commit \in -1 .. MaxLog - 1 /\ n.commit <= Max({0, Len(n.log) - 1})

\* As long as no node is down a term has one leader, whatever partitions, recoveries and
\* forced elections there were.
OneLeaderPerTerm ==
    Live(st) = DOMAIN st.nodes => \A a, b \in st.led : a[1] = b[1] => a = b
=============================================================================
