--------------------------- MODULE ContractScene ---------------------------
(***************************************************************************)
(* The scene smartcontract/contractstatemachine: a contract whose voters   *)
(* propose and vote, with an owner, a pause and a guard against reentry.   *)
(* The guard is taken and given back within a call.                        *)
(***************************************************************************)
EXTENDS Integers, FiniteSets

CONSTANTS Voters, Owner, Callers, MaxProposals   \* Callers: who may call; a bound

VARIABLE st    \* snapState; proposals are kept as their outcomes

NoVotes == [yes |-> {}, no |-> {}]
Fresh == [owner |-> Owner, paused |-> FALSE, state |-> "Idle", votes |-> NoVotes, id |-> 0,
          executed |-> {}]    \* history: what was executed, by whom it was supported

-----------------------------------------------------------------------------
TransferOwnership(c, new) == c = st.owner /\ st' = [st EXCEPT !.owner = new]
SetPaused(c, paused) == c = st.owner /\ st' = [st EXCEPT !.paused = paused]

Propose(c) ==
    /\ ~st.paused /\ c \in Voters /\ st.state \in {"Idle", "Executed", "Rejected"}
    /\ st.id < MaxProposals
    /\ st' = [st EXCEPT !.id = @ + 1, !.votes = NoVotes, !.state = "Proposed"]

StartVoting(c) ==
    c = st.owner /\ ~st.paused /\ st.state = "Proposed" /\ st' = [st EXCEPT !.state = "Voting"]

Vote(c, support) ==
    /\ ~st.paused /\ c \in Voters /\ st.state = "Voting"
    /\ c \notin st.votes.yes \union st.votes.no
    /\ st' = [st EXCEPT !.votes = IF support THEN [st.votes EXCEPT !.yes = @ \union {c}]
                                  ELSE [st.votes EXCEPT !.no = @ \union {c}]]

\* Two thirds of the voters, whoever of them voted; the owner need not wait for them.
Execute(c) ==
    LET passed == 3 * Cardinality(st.votes.yes) >= 2 * Cardinality(Voters) IN
    /\ c = st.owner /\ ~st.paused /\ st.state = "Voting"
    /\ st' = [st EXCEPT !.state = IF passed THEN "Executed" ELSE "Rejected",
                        !.executed = IF passed THEN @ \union {<<st.id, st.votes.yes>>} ELSE @]
Reset == st' = Fresh

Init == st = Fresh
Next ==
    \/ Reset
    \/ \E c \in Callers :
         \/ Propose(c) \/ StartVoting(c) \/ Execute(c)
         \/ \E new \in Callers : TransferOwnership(c, new)
         \/ \E b \in BOOLEAN : SetPaused(c, b) \/ Vote(c, b)
Spec == Init /\ [][Next]_st

-----------------------------------------------------------------------------
TypeOK ==
    /\ st.owner \in Callers /\ st.state \in {"Idle", "Proposed", "Voting", "Executed", "Rejected"}
    /\ st.votes.yes \intersect st.votes.no = {}

\* A proposal is executed once, and only when two thirds of all the voters want it,
\* whoever owns the contract by then.
ExecutedByVoters ==
    \A e \in st.executed :
        /\ e[2] \subseteq Voters /\ 3 * Cardinality(e[2]) >= 2 * Cardinality(Voters)
        /\ \A f \in st.executed : e[1] = f[1] => e = f
=============================================================================
