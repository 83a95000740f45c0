--------------------------- MODULE LifecycleScene ---------------------------
(***************************************************************************)
(* The scene transaction/txlifecycle: transactions wait in the mempool,    *)
(* are put into blocks, confirmed and final, or dropped or replaced.       *)
(*                                                                         *)
(* The tick is kept modulo the block interval; blocks are not kept.        *)
(***************************************************************************)
EXTENDS Integers, Sequences, FiniteSets

CONSTANTS
    Senders, Gas,            \* the values a transaction may have
    Intervals, Thresholds,   \* BlockInterval, and pairs <<confirmed, final>>: the default first
    Sizes,                   \* MaxBlockSize, the default first
    MaxTxs, MaxHeight        \* the code's limit of transactions; a bound

VARIABLE st    \* snapState

Fresh == [tick |-> 0, height |-> 0, interval |-> Intervals[1], limits |-> Thresholds[1],
          size |-> Sizes[1], txs |-> <<>>, next |-> [s \in Senders |-> 0]]
Tx(s, gas, nonce) ==
    [from |-> s, gas |-> gas, nonce |-> nonce, phase |-> "mempool", block |-> 0, conf |-> 0]
Mempool == {i \in DOMAIN st.txs : st.txs[i].phase = "mempool"}

-----------------------------------------------------------------------------
\* Advanced by one phase or two.
Confirmed(t, height) ==
    LET conf == height - t.block
        phase == IF t.phase = "included" /\ conf >= st.limits[1] THEN "confirmed" ELSE t.phase
    IN IF t.phase \notin {"included", "confirmed"} THEN t
       ELSE [t EXCEPT !.conf = conf,
                      !.phase = IF phase = "confirmed" /\ conf >= st.limits[2] THEN "finalized" ELSE phase]

Fills(chosen) ==    \* the dearest fill the block; among equals any may
    /\ Cardinality(chosen) = IF Cardinality(Mempool) < st.size THEN Cardinality(Mempool) ELSE st.size
    /\ \A i \in chosen, j \in Mempool \ chosen : st.txs[i].gas >= st.txs[j].gas

Mined(s, chosen) ==
    [s EXCEPT !.height = @ + 1,
              !.txs = [i \in DOMAIN @ |->
                 Confirmed(IF i \in chosen THEN [@[i] EXCEPT !.phase = "included", !.block = st.height]
                           ELSE @[i], st.height + 1)]]

MineBlock ==
    /\ st.height < MaxHeight
    /\ \E chosen \in SUBSET Mempool : Fills(chosen) /\ st' = Mined(st, chosen)

StepTick ==
    LET ticked == [st EXCEPT !.tick = (@ + 1) % st.interval] IN
    IF ticked.tick # 0 THEN st' = ticked
    ELSE /\ st.height < MaxHeight
         /\ \E chosen \in SUBSET Mempool : Fills(chosen) /\ st' = Mined(ticked, chosen)

SubmitTx(s, gas) ==
    /\ Len(st.txs) < MaxTxs
    /\ st' = [st EXCEPT !.txs = Append(@, Tx(s, gas, st.next[s])), !.next[s] = @ + 1]

DropTx(i) == st' = [st EXCEPT !.txs[i].phase = "dropped"]

\* As if a transaction that is already in a block could be replaced.
ReplaceTx_any(i, gas) ==
    LET t == st.txs[i] IN
    /\ gas > t.gas /\ Len(st.txs) < MaxTxs
    /\ st' = [st EXCEPT !.txs = Append([st.txs EXCEPT ![i].phase = IF @ = "mempool" THEN "replaced" ELSE @],
                                       Tx(t.from, gas, t.nonce))]

ReplaceTx(i, gas) ==
    LET t == st.txs[i] IN
    /\ t.phase = "mempool" /\ gas > t.gas /\ Len(st.txs) < MaxTxs
    /\ st' = [st EXCEPT !.txs = Append([@ EXCEPT ![i].phase = "replaced"], Tx(t.from, gas, t.nonce))]

\* Thresholds and sizes may change with transactions on their way; no pair is ordered.
\* The tick of the code is not reset: how far the next block is, is any number.
SetParams ==
    \E b \in DOMAIN Intervals, l \in DOMAIN Thresholds, z \in DOMAIN Sizes :
        \E tick \in 0 .. Intervals[b] - 1 :
            st' = [st EXCEPT !.interval = Intervals[b], !.limits = Thresholds[l], !.size = Sizes[z],
                             !.tick = tick]
Reset == st' = Fresh

Init == st = Fresh
Next ==
    \/ MineBlock \/ StepTick \/ SetParams \/ Reset
    \/ \E s \in Senders, gas \in Gas : SubmitTx(s, gas)
    \/ \E i \in Mempool : DropTx(i)
    \/ \E i \in DOMAIN st.txs, gas \in Gas : ReplaceTx(i, gas)
Spec == Init /\ [][Next]_st

-----------------------------------------------------------------------------
TypeOK ==
    \A i \in DOMAIN st.txs : LET t == st.txs[i] IN
        /\ t.phase \in {"mempool", "included", "confirmed", "finalized", "dropped", "replaced"}
        /\ t.conf \in 0 .. MaxHeight /\ t.conf <= st.height

\* Of the transactions with one nonce of one sender, at most one is waiting or in the chain.
OneTxPerNonce ==
    \A i, j \in DOMAIN st.txs :
        /\ st.txs[i].from = st.txs[j].from /\ st.txs[i].nonce = st.txs[j].nonce
        /\ st.txs[i].phase \notin {"dropped", "replaced"} /\ st.txs[j].phase \notin {"dropped", "replaced"}
        => i = j
=============================================================================
