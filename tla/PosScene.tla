------------------------------ MODULE PosScene ------------------------------
(***************************************************************************)
(* The scene consensus/posvalidator: an epoch's producer is drawn by       *)
(* stake, rewarded with stake, and out of the draw once slashed.           *)
(*                                                                         *)
(* The draw is a hash: anyone with stake may win.  Several epochs at once  *)
(* are several epochs.  What was delegated is kept as its sum.             *)
(***************************************************************************)
EXTENDS Integers, Sequences, FiniteSets

CONSTANTS Groups, Amounts, Reward, MaxEpoch   \* stakes of the validators, the default first; values; a bound

VARIABLE st    \* snapState

NotSlashed == -1
Fresh(stakes) ==
    [stake |-> stakes, start |-> stakes, at |-> [v \in DOMAIN stakes |-> NotSlashed],
     delegated |-> [v \in DOMAIN stakes |-> 0], epoch |-> 0, history |-> <<>>]
Validators == DOMAIN st.stake
Slashed(v) == st.at[v] # NotSlashed
Drawn(v) == ~Slashed(v) /\ st.stake[v] > 0    \* pickProducer

-----------------------------------------------------------------------------
RunEpoch ==
    /\ st.epoch < MaxEpoch
    /\ \E v \in Validators :
         /\ Drawn(v)
         /\ st' = [st EXCEPT !.stake[v] = @ + Reward, !.history = Append(@, v), !.epoch = @ + 1]

\* Thirty percent; the delegators' lists stay.
SlashValidator(v) == ~Slashed(v) /\ st' = [st EXCEPT !.stake[v] = (@ * 7) \div 10, !.at[v] = st.epoch]

\* To a slashed validator too.
DelegateStake(v, n) == st' = [st EXCEPT !.stake[v] = @ + n, !.delegated[v] = @ + n]

SetValidators == \E g \in DOMAIN Groups : st' = Fresh(Groups[g])
Reset == st' = Fresh(Groups[1])

Init == st = Fresh(Groups[1])
Next ==
    \/ RunEpoch \/ SetValidators \/ Reset
    \/ \E v \in Validators : SlashValidator(v) \/ \E n \in Amounts : DelegateStake(v, n)
Spec == Init /\ [][Next]_st

-----------------------------------------------------------------------------
TypeOK == Len(st.history) = st.epoch /\ \A v \in Validators : st.stake[v] >= 0 /\ st.at[v] <= st.epoch

\* Nobody produces after it was slashed, and until then the stake is what it was, what was
\* delegated, and a reward for each block.
SlashedStaysOut ==
    \A v \in Validators :
        /\ \A e \in DOMAIN st.history : st.history[e] = v /\ Slashed(v) => e <= st.at[v]
        /\ ~Slashed(v) => st.stake[v] = st.start[v] + st.delegated[v]
                                        + Reward * Cardinality({e \in DOMAIN st.history : st.history[e] = v})
=============================================================================
