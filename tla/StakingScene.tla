---------------------------- MODULE StakingScene ----------------------------
(***************************************************************************)
(* The scene economic/posstaking: delegators stake with validators, earn   *)
(* at each epoch, wait to get their stake back, and lose part of it when   *)
(* their validator is slashed.                                             *)
(*                                                                         *)
(* Amounts are integers and a slashed fraction is a number of halves.  The *)
(* inflation curve is left out: a delegation to a working validator earns  *)
(* in proportion to its amount, and here as much as its amount.            *)
(***************************************************************************)
EXTENDS Integers, Sequences, FiniteSetsExt

CONSTANTS
    Validators, Founders, Delegators,  \* that may exist; that exist at first
    Stake, Share,                      \* amounts: of a validator, of a delegation
    Waits                              \* values of UnbondingDuration and MinJailDuration

VARIABLE st    \* snapState, and a history of what was put in, given back and slashed

NoStake == [amount |-> 0, pending |-> 0, unbonding |-> <<>>]
Validator(self) == [self |-> self, delegated |-> 0, jailed |-> FALSE, until |-> 0, registered |-> self > 0]
Delegate(s, d, v, n) ==
    [s EXCEPT !.vals[v].delegated = @ + n, !.dels[<<d, v>>].amount = @ + n, !.put = @ + n]
Fresh ==
    LET empty == [vals |-> [v \in Validators |-> Validator(IF v \in Founders THEN Stake ELSE 0)],
                  dels |-> [p \in Delegators \X Validators |-> NoStake],
                  epoch |-> 0, wait |-> Max(Waits), jail |-> Max(Waits), half |-> 1,
                  put |-> 0, released |-> 0, slashed |-> 0]
    IN FoldSet(LAMBDA v, s : FoldSet(LAMBDA d, t : Delegate(t, d, v, Share), s, Delegators), empty, Founders)

Owed(e, K) == MapThenSumSet(LAMBDA k : e.unbonding[k].amount, K)
Unbonding(e) == Owed(e, DOMAIN e.unbonding)
Working(v) == st.vals[v].registered /\ ~st.vals[v].jailed

-----------------------------------------------------------------------------
SetParams == \E w, j \in Waits, h \in 1 .. 2 : st' = [st EXCEPT !.wait = w, !.jail = j, !.half = h]

RegisterValidator(v) == ~st.vals[v].registered /\ st' = [st EXCEPT !.vals[v] = Validator(Stake)]

DelegateTo(d, v) == Working(v) /\ st' = Delegate(st, d, v, Share)

\* The unbonding amount no longer belongs to the validator.
Undelegate(d, v, n) ==
    /\ 0 < n /\ n <= st.dels[d, v].amount
    /\ st' = [st EXCEPT !.vals[v].delegated = @ - n,
                        !.dels[<<d, v>>].amount = @ - n,
                        !.dels[<<d, v>>].unbonding = Append(@, [amount |-> n, at |-> st.epoch + st.wait])]

\* Rewards go by who was jailed before the epoch; what is due is released; who served
\* its time comes back.
AdvanceEpoch ==
    LET epoch == st.epoch + 1
        due(e) == Owed(e, {k \in DOMAIN e.unbonding : e.unbonding[k].at <= epoch})
    IN st' = [st EXCEPT
         !.epoch = epoch,
         !.dels = [p \in DOMAIN @ |-> [st.dels[p] EXCEPT
             !.pending = @ + (IF Working(p[2]) THEN st.dels[p].amount ELSE 0),
             !.unbonding = SelectSeq(@, LAMBDA u : u.at > epoch)]],
         !.released = @ + MapThenSumSet(LAMBDA p : due(st.dels[p]), DOMAIN st.dels),
         !.vals = [v \in DOMAIN @ |-> [st.vals[v] EXCEPT !.jailed = @ /\ epoch < st.vals[v].until]]]

\* The stake of the validator and of each of its delegations is cut, that being unbonded
\* is not.
Slash(v) ==
    LET cut(x) == (x * st.half) \div 2
        val == st.vals[v]
    IN /\ val.registered
       /\ st' = [st EXCEPT
            !.vals[v] = [val EXCEPT !.self = @ - cut(@), !.delegated = @ - cut(@),
                                    !.jailed = TRUE, !.until = st.epoch + st.jail],
            !.dels = [p \in DOMAIN @ |-> IF p[2] = v THEN [st.dels[p] EXCEPT !.amount = @ - cut(@)] ELSE @[p]],
            !.slashed = @ + cut(val.delegated)]

WithdrawRewards(d, v) == st' = [st EXCEPT !.dels[<<d, v>>].pending = 0]

\* Nobody asks whether the validator is jailed.
RestakeRewards(d, v) ==
    LET r == st.dels[d, v].pending IN
    r > 0 /\ st' = [Delegate(st, d, v, r) EXCEPT !.dels[<<d, v>>].pending = 0]

Reset == st' = Fresh

Init == st = Fresh
Next ==
    \/ SetParams \/ AdvanceEpoch \/ Reset
    \/ \E v \in Validators : RegisterValidator(v) \/ Slash(v)
    \/ \E d \in Delegators, v \in Validators :
         \/ DelegateTo(d, v) \/ WithdrawRewards(d, v) \/ RestakeRewards(d, v)
         \/ \E n \in {Share, Share \div 2} : Undelegate(d, v, n)
Spec == Init /\ [][Next]_st

-----------------------------------------------------------------------------
TypeOK ==
    /\ \A v \in Validators : st.vals[v].self >= 0 /\ st.vals[v].delegated >= 0
    /\ \A p \in DOMAIN st.dels : st.dels[p].amount >= 0 /\ st.dels[p].pending >= 0

\* A validator's delegated stake is that of its delegations, and what delegators put in is
\* staked, waiting, given back or slashed.
StakeKept ==
    /\ \A v \in Validators :
         st.vals[v].delegated = MapThenSumSet(LAMBDA d : st.dels[d, v].amount, Delegators)
    /\ st.put = st.released + st.slashed
                + MapThenSumSet(LAMBDA p : st.dels[p].amount + Unbonding(st.dels[p]), DOMAIN st.dels)
=============================================================================
