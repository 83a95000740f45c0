----------------------------- MODULE SupplyScene -----------------------------
(***************************************************************************)
(* The scene economic/tokeneconomics: a coin is issued by blocks whose     *)
(* reward is halved, burnt with fees or by hand, and locked.               *)
(*                                                                         *)
(* Amounts are integers, halving rounds down, and half of the fees burn.   *)
(* With a fixed inflation a block may issue any of the rewards.            *)
(***************************************************************************)
EXTENDS Integers, FiniteSetsExt

CONSTANTS Caps, Rewards, Intervals,   \* MaxSupply (0 for none), BlockReward, HalvingInterval: sets
          Amounts, MaxHeight          \* to lock, burn and pay as fees; a bound

VARIABLE st    \* snapState, and histories of the highest cap and of a burn

Fresh == [cap |-> Max(Caps), most |-> Max(Caps), interval |-> Max(Intervals), reward |-> Max(Rewards),
          fixed |-> FALSE, height |-> 0, issued |-> 0, burned |-> 0, locked |-> 0, burnt |-> FALSE]
TotalSupply(s) == s.issued - s.burned
Least(a, b) == IF a < b THEN a ELSE b

-----------------------------------------------------------------------------
\* Without a cap there is no limit from then on.
SetParams ==
    \E cap \in Caps \union {0}, r \in Rewards, i \in Intervals, fixed \in BOOLEAN :
        st' = [st EXCEPT !.cap = cap, !.reward = r, !.interval = i, !.fixed = fixed,
                         !.most = IF cap = 0 \/ @ = 0 THEN 0 ELSE Max({@, cap})]

\* A block that finds the cap reached issues nothing and does not halve either.
MineBlock ==
    LET room == st.cap - TotalSupply(st)
        next == [st EXCEPT !.height = @ + 1]
        halves == ~st.fixed /\ next.height % st.interval = 0
    IN /\ st.height < MaxHeight
       /\ IF st.cap > 0 /\ room <= 0 THEN st' = next
          ELSE \E r \in IF st.fixed THEN Rewards ELSE {st.reward} :
                 st' = [next EXCEPT !.issued = @ + IF st.cap > 0 THEN Least(r, room) ELSE r,
                                    !.reward = IF halves THEN @ \div 2 ELSE @]

HalvingNow == st' = [st EXCEPT !.reward = @ \div 2]

\* Fees burn whatever the supply is.
BurnFees(fees) == st' = [st EXCEPT !.burned = @ + fees \div 2, !.burnt = TRUE]

LockTokens(n) == st.locked + n <= TotalSupply(st) /\ st' = [st EXCEPT !.locked = @ + n]
UnlockTokens(n) == n <= st.locked /\ st' = [st EXCEPT !.locked = @ - n]
ManualBurn(n) == n <= TotalSupply(st) /\ st' = [st EXCEPT !.burned = @ + n, !.burnt = TRUE]
Reset == st' = Fresh

Init == st = Fresh
Next ==
    \/ SetParams \/ MineBlock \/ HalvingNow \/ Reset
    \/ \E n \in Amounts : BurnFees(n) \/ LockTokens(n) \/ UnlockTokens(n) \/ ManualBurn(n)
Spec == Init /\ [][Next]_st

-----------------------------------------------------------------------------
TypeOK == st.locked >= 0 /\ st.issued >= 0 /\ st.reward >= 0

\* The supply never passes the highest cap it was given, with rewards cut to the room that
\* is left; and until something is burnt, no more is locked than there is.
SupplyCapped ==
    /\ st.most > 0 => TotalSupply(st) <= st.most
    /\ ~st.burnt => st.locked <= TotalSupply(st)
=============================================================================
