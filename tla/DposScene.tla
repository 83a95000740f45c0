----------------------------- MODULE DposScene -----------------------------
(***************************************************************************)
(* The scene consensus/dposvoting: voters choose candidates, an election   *)
(* makes the best of them delegates, who produce the blocks in turn.       *)
(* Candidates are numbered in the order of their names.                    *)
(***************************************************************************)
EXTENDS Integers, Sequences, FiniteSets, FiniteSetsExt

CONSTANTS
    StakeOf,              \* the stake of each voter
    Candidates, Slots,    \* how many candidates; the values of ActiveSlots, first the default
    MaxHeight             \* bound

VARIABLE st    \* snapState

NoOne == 0
Names == 1 .. Candidates
Fresh ==
    [votedFor |-> [v \in DOMAIN StakeOf |-> NoOne],
     cand |-> [c \in Names |-> [votes |-> 0, blocks |-> 0, impeached |-> FALSE, active |-> FALSE]],
     slots |-> Slots[1], height |-> 0]

RebuildVotes(s) ==
    [s EXCEPT !.cand = [c \in Names |-> [@[c] EXCEPT !.votes =
        IF s.cand[c].impeached THEN 0
        ELSE MapThenSumSet(LAMBDA v : StakeOf[v], {v \in DOMAIN StakeOf : s.votedFor[v] = c})]]]

Before(s, a, b) ==    \* a comes before b in the order of votes
    \/ s.cand[a].votes > s.cand[b].votes
    \/ s.cand[a].votes = s.cand[b].votes /\ a < b

Elected(s) ==
    LET fit == {c \in Names : ~s.cand[c].impeached /\ s.cand[c].votes > 0}
    IN {c \in fit : Cardinality({b \in fit : Before(s, b, c)}) < s.slots}

RunElection(s) ==
    LET r == RebuildVotes(s) IN
    [r EXCEPT !.cand = [c \in Names |-> [@[c] EXCEPT !.active = c \in Elected(r)]]]

\* The delegates take turns in the order of the votes of this moment.
Delegates(s) == {c \in Names : s.cand[c].active /\ ~s.cand[c].impeached}
NextProducer(s) ==
    LET D == Delegates(s) IN
    CHOOSE c \in D : Cardinality({b \in D : Before(s, b, c)}) = s.height % Cardinality(D)

-----------------------------------------------------------------------------
SetActiveSlots == \E n \in DOMAIN Slots : st' = RunElection([st EXCEPT !.slots = Slots[n]])

Vote(v, c) == ~st.cand[c].impeached /\ st' = RebuildVotes([st EXCEPT !.votedFor[v] = c])
WithdrawVote(v) == st' = RebuildVotes([st EXCEPT !.votedFor[v] = NoOne])
Elect == st' = RunElection(st)

ProduceBlock ==
    /\ Delegates(st) # {} /\ st.height < MaxHeight
    /\ st' = [st EXCEPT !.height = @ + 1, !.cand[NextProducer(st)].blocks = @ + 1]

Impeach(c) ==
    /\ ~st.cand[c].impeached
    /\ st' = RunElection([st EXCEPT
               !.cand[c].impeached = TRUE,
               !.votedFor = [v \in DOMAIN @ |-> IF @[v] = c THEN NoOne ELSE @[v]]])

Reset == st' = Fresh

Init == st = Fresh
Next ==
    \/ SetActiveSlots \/ Elect \/ ProduceBlock \/ Reset
    \/ \E v \in DOMAIN StakeOf : WithdrawVote(v) \/ \E c \in Names : Vote(v, c)
    \/ \E c \in Names : Impeach(c)
Spec == Init /\ [][Next]_st

-----------------------------------------------------------------------------
TypeOK ==
    /\ \A c \in Names : st.cand[c].votes >= 0 /\ st.cand[c].blocks <= st.height
    /\ \A v \in DOMAIN StakeOf : st.votedFor[v] \in Names \union {NoOne}

\* The places are never overfilled nor held by an impeached candidate, whatever votes,
\* withdrawals, elections and changes of their number there were; every vote counts once.
SeatsRight ==
    LET active == {c \in Names : st.cand[c].active} IN
    /\ Cardinality(active) <= st.slots
    /\ \A c \in active : ~st.cand[c].impeached
    /\ MapThenSumSet(LAMBDA c : st.cand[c].votes, Names)
         = MapThenSumSet(LAMBDA v : StakeOf[v], {v \in DOMAIN StakeOf : st.votedFor[v] # NoOne})
=============================================================================
