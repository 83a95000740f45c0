---------------------------- MODULE CtfScoreboard ----------------------------
(***************************************************************************)
(* What a jeopardy competition promises its teams: a team solves a         *)
(* challenge once, is paid the price of its place in the order of solvers, *)
(* the first one with a bonus, and what was paid is never adjusted later   *)
(* (docs/modules/05, AC-22, AC-23 and AC-25).                              *)
(***************************************************************************)
EXTENDS Naturals, Sequences

CONSTANTS Teams, Challenges, Award(_)  \* Award(k): pay of the k-th solver
VARIABLES solvers,  \* for each challenge the teams that solved it, in order
          points    \* for each team what it was paid

vars == <<solvers, points>>

Init == /\ solvers = [c \in Challenges |-> <<>>]
        /\ points = [t \in Teams |-> 0]

Solved(t, c) == \E k \in 1..Len(solvers[c]) : solvers[c][k] = t

Solve(t, c) ==
    /\ ~Solved(t, c)
    /\ solvers' = [solvers EXCEPT ![c] = Append(@, t)]
    /\ points' = [points EXCEPT ![t] = @ + Award(Len(solvers[c]) + 1)]

Next == \E t \in Teams, c \in Challenges : Solve(t, c)

Spec == Init /\ [][Next]_vars
=============================================================================
