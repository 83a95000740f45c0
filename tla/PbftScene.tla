----------------------------- MODULE PbftScene -----------------------------
(***************************************************************************)
(* The scene consensus/pbftconsensus: one request at a time goes through   *)
(* the phases of PBFT, with crashed and Byzantine replicas and changes of  *)
(* view.                                                                   *)
(*                                                                         *)
(* A request is known by its sequence number: all replicas that have a     *)
(* digest have that of the current request.                                *)
(***************************************************************************)
EXTENDS Integers, Sequences, FiniteSets

CONSTANTS PbftSizes, MaxSequence, MaxView    \* replica counts of set_replicas; bounds

VARIABLE st    \* clusterState

Fresh == [down |-> FALSE, byzantine |-> FALSE, digest |-> FALSE, prepares |-> {}, commits |-> {},
          prepared |-> FALSE, committed |-> FALSE, log |-> <<>>]
Cleared(r) == [r EXCEPT !.digest = FALSE, !.prepares = {}, !.commits = {},
                        !.prepared = FALSE, !.committed = FALSE]
DefaultCluster(n) ==
    [reps |-> [i \in 0 .. n - 1 |-> Fresh], view |-> 0, seq |-> 0, request |-> 0,
     phase |-> "idle", votes |-> {}]

Size(c) == Cardinality(DOMAIN c.reps)
Quorum(c) == 2 * ((Size(c) - 1) \div 3) + 1
Primary(c) == c.view % Size(c)
Up(c) == {i \in DOMAIN c.reps : ~c.reps[i].down}
Bearers(c) == {i \in Up(c) : c.reps[i].digest}

-----------------------------------------------------------------------------
(* The phases.                                                             *)

RunPrePrepare(c) ==
    IF c.request = 0 \/ c.reps[Primary(c)].down THEN c
    ELSE [c EXCEPT !.phase = "pre-prepare",
                   !.reps = [i \in DOMAIN @ |-> [c.reps[i] EXCEPT !.digest = @ \/ i \in Up(c)]]]

RunPrepare(c) ==
    LET senders == {i \in Bearers(c) : ~c.reps[i].byzantine}
        got(i) == IF i \in Bearers(c) THEN c.reps[i].prepares \union senders ELSE c.reps[i].prepares
    IN [c EXCEPT !.phase = "prepare",
                 !.reps = [i \in DOMAIN @ |->
                     [c.reps[i] EXCEPT !.prepares = got(i),
                                       !.prepared = @ \/ (i \in Up(c) /\ Cardinality(got(i)) >= Quorum(c))]]]

\* Whoever is prepared and not Byzantine sends a commit.
RunCommit(c) ==
    LET senders == {i \in Up(c) : c.reps[i].prepared /\ ~c.reps[i].byzantine}
        got(i) == IF i \in Bearers(c) THEN c.reps[i].commits \union senders ELSE c.reps[i].commits
    IN [c EXCEPT !.phase = "commit",
                 !.reps = [i \in DOMAIN @ |->
                     [c.reps[i] EXCEPT !.commits = got(i),
                                       !.committed = @ \/ (i \in Up(c) /\ Cardinality(got(i)) >= Quorum(c))]]]

RunReply(c) ==
    [c EXCEPT !.phase = "reply",
              !.reps = [i \in DOMAIN @ |->
                  IF @[i].committed /\ i \in Up(c)
                  THEN [c.reps[i] EXCEPT !.log = Append(@, [seq |-> c.seq, view |-> c.view])] ELSE @[i]]]

StepOf(c) ==
    CASE c.phase = "idle" -> RunPrePrepare(c)
      [] c.phase = "pre-prepare" -> RunPrepare(c)
      [] c.phase = "prepare" -> RunCommit(c)
      [] c.phase = "commit" -> RunReply(c)
      [] OTHER -> c

-----------------------------------------------------------------------------
(* The actions of the scene.                                               *)

ProposeRequest ==
    /\ st.phase \in {"idle", "reply"} /\ st.seq < MaxSequence
    /\ st' = [st EXCEPT !.seq = @ + 1, !.request = st.seq + 1, !.phase = "idle",
                        !.reps = [i \in DOMAIN @ |-> Cleared(@[i])]]

StepPhase == st' = StepOf(st)

\* With a request and the primary down the loop of the code does not end.
RunFullRound ==
    /\ st.request # 0
    /\ st.phase = "idle" => ~st.reps[Primary(st)].down
    /\ st' = StepOf(StepOf(StepOf(StepOf(st))))

\* The request stays, and is proposed again in the new view.
TriggerViewChange ==
    /\ st.view < MaxView
    /\ LET votes == st.votes \union {i \in Up(st) : ~st.reps[i].byzantine} IN
       st' = IF Cardinality(votes) >= Quorum(st)
             THEN [st EXCEPT !.view = @ + 1, !.phase = "idle", !.votes = {},
                             !.reps = [i \in DOMAIN @ |-> Cleared(@[i])]]
             ELSE [st EXCEPT !.votes = votes]

InjectByzantine == \E i \in DOMAIN st.reps : st' = [st EXCEPT !.reps[i].byzantine = TRUE]
RecoverByzantine == \E i \in DOMAIN st.reps : st' = [st EXCEPT !.reps[i].byzantine = FALSE]
CrashReplica == \E i \in DOMAIN st.reps : st' = [st EXCEPT !.reps[i].down = TRUE]
SetReplicas == \E n \in PbftSizes : st' = DefaultCluster(n)
Reset == st' = DefaultCluster(4)

Init == st = DefaultCluster(4)
Next ==
    \/ ProposeRequest \/ StepPhase \/ RunFullRound \/ TriggerViewChange
    \/ InjectByzantine \/ RecoverByzantine \/ CrashReplica \/ SetReplicas \/ Reset
Spec == Init /\ [][Next]_st

-----------------------------------------------------------------------------
\* What a replica counted came from replicas of this cluster; a log is in the order of
\* the requests.
TypeOK ==
    /\ st.phase \in {"idle", "pre-prepare", "prepare", "commit", "reply"} /\ st.view \in 0 .. MaxView
    /\ \A i \in DOMAIN st.reps : LET r == st.reps[i] IN
         /\ r.prepares \subseteq DOMAIN st.reps /\ r.commits \subseteq DOMAIN st.reps
         /\ \A k \in 1 .. Len(r.log) - 1 : r.log[k].seq <= r.log[k + 1].seq

\* A replica is committed only when a quorum is prepared, and then so is every log entry
\* of this round, although replicas crash, turn Byzantine, recover, or vote for a new
\* view between the phases.
CommittedByQuorum ==
    \A i \in DOMAIN st.reps :
        st.reps[i].committed => Cardinality({j \in DOMAIN st.reps : st.reps[j].prepared}) >= Quorum(st)
=============================================================================
