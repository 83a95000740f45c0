------------------------------ MODULE MevScene ------------------------------
(***************************************************************************)
(* The scene transaction/txorderingmev: swaps wait in a mempool and are    *)
(* executed by gas against a constant product pool; an attacker runs ahead *)
(* of them or puts them between two swaps of its own.                      *)
(*                                                                         *)
(* Which swaps come first among those of one gas is any choice.            *)
(***************************************************************************)
EXTENDS Integers, Sequences, FiniteSets, FiniteSetsExt

CONSTANTS Pools, AmountsIn, MinOuts, Gas, MaxPending   \* pairs <<x, y>>, the default first; values; a bound

VARIABLE st    \* snapState, and a history of what traders put in and got out

Fresh(pool) == [x |-> pool[1], y |-> pool[2], k |-> pool[1] * pool[2], mempool |-> <<>>, profit |-> 0,
                traderX |-> 0, traderY |-> 0, start |-> pool]
Swap(dir, n, min, gas, tag) == [dir |-> dir, n |-> n, min |-> min, gas |-> gas, tag |-> tag]

\* What a swap of this amount would give.
EstimateOut(s, dir, n) ==
    IF dir = "buy_y" THEN s.y - s.k \div (s.x + n) ELSE s.x - s.k \div (s.y + n)

Applied(s, dir, n, out) ==
    IF dir = "buy_y"
    THEN [s EXCEPT !.x = @ + n, !.y = @ - out, !.traderX = @ - n, !.traderY = @ + out]
    ELSE [s EXCEPT !.y = @ + n, !.x = @ - out, !.traderY = @ - n, !.traderX = @ + out]

TakenBack(s, dir, n, out) ==
    IF dir = "buy_y"
    THEN [s EXCEPT !.x = @ - n, !.y = @ + out, !.traderX = @ + n, !.traderY = @ - out]
    ELSE [s EXCEPT !.y = @ - n, !.x = @ + out, !.traderY = @ + n, !.traderX = @ - out]

\* Executed when it gives anything; taken back when it gives less than its minimum.
Execute(s, t) ==
    LET out == EstimateOut(s, t.dir, t.n) IN
    IF t.n <= 0 \/ out <= 0 THEN s
    ELSE LET r == Applied(s, t.dir, t.n, out) IN
         CASE out < t.min -> TakenBack(r, t.dir, t.n, out)
           [] out >= t.min /\ t.tag = "pre" -> [r EXCEPT !.pre = t.n]
           [] out >= t.min /\ t.tag = "post" -> [r EXCEPT !.post = out]
           [] OTHER -> r

-----------------------------------------------------------------------------
\* calculateAttackerProfit: of the last sandwich of the block.
MineBlock ==
    \E order \in Bijection(DOMAIN st.mempool, DOMAIN st.mempool) :
        /\ \A a, b \in DOMAIN order : a < b => st.mempool[order[a]].gas >= st.mempool[order[b]].gas
        /\ LET start == [f \in DOMAIN st \union {"pre", "post"} |-> IF f \in DOMAIN st THEN st[f] ELSE 0]
               after[k \in 0 .. Len(st.mempool)] ==
                 IF k = 0 THEN start ELSE Execute(after[k - 1], st.mempool[order[k]])
               done == after[Len(st.mempool)]
           IN st' = [f \in DOMAIN st |->
                       CASE f = "mempool" -> <<>>
                         [] f = "profit" -> IF done.pre > 0 /\ done.post > 0
                                            THEN st.profit + done.post - done.pre ELSE st.profit
                         [] OTHER -> done[f]]

Waits(swaps) == /\ Len(st.mempool) + Len(swaps) <= MaxPending
                /\ st' = [st EXCEPT !.mempool = @ \o swaps]

SubmitUserSwap ==
    \E dir \in {"buy_y", "sell_y"}, n \in AmountsIn, min \in MinOuts, gas \in Gas :
        Waits(<<Swap(dir, n, min, gas, "user")>>)
InjectFrontrun ==
    \E dir \in {"buy_y", "sell_y"}, n \in AmountsIn : Waits(<<Swap(dir, n, 0, Max(Gas), "frontrun")>>)

\* The second half sells what the first was to buy from the pool of this moment.
InjectSandwich ==
    \E n \in AmountsIn : Waits(<<Swap("buy_y", n, 0, Max(Gas), "pre"),
                                 Swap("sell_y", EstimateOut(st, "buy_y", n), 0, Min(Gas), "post")>>)
SetPool == \E p \in DOMAIN Pools : st' = Fresh(Pools[p])
Reset == st' = Fresh(Pools[1])

Init == st = Fresh(Pools[1])
Next == MineBlock \/ SubmitUserSwap \/ InjectFrontrun \/ InjectSandwich \/ SetPool \/ Reset
Spec == Init /\ [][Next]_st

-----------------------------------------------------------------------------
TypeOK == st.x >= 0 /\ st.y >= 0 /\ st.k = st.start[1] * st.start[2]

\* Whatever is ordered, refused and taken back, the pool stays on its curve but for one
\* rounding, and the traders together hold what the pool lost.
OnTheCurve ==
    /\ st.x = st.k \div st.y \/ st.y = st.k \div st.x
    /\ st.x + st.traderX = st.start[1] /\ st.y + st.traderY = st.start[2]
=============================================================================
