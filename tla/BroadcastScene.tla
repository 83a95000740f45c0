--------------------------- MODULE BroadcastScene ---------------------------
(***************************************************************************)
(* The scene nodenetwork/txbroadcast: nodes flood the transactions of      *)
(* their mempools to each other, mempools are bounded, and the cheapest    *)
(* transaction gives way.                                                  *)
(*                                                                         *)
(* A node sends to the others in the order of the nodes, the dearest       *)
(* first; which goes first or is evicted among equals is any choice, so    *)
(* that a tick is a set of outcomes.                                       *)
(***************************************************************************)
EXTENDS Integers, Sequences, FiniteSets, FiniteSetsExt

CONSTANTS Nodes, Limits, Gas, MaxTxs   \* how many; values, the default first; a bound

VARIABLE st    \* snapState; gas is that of each transaction, and a history of what was refused

Names == 1 .. Nodes
Links == {l \in Names \X Names : l[1] # l[2]}
Fresh == [down |-> {}, pool |-> [i \in Names |-> {}], sent |-> [l \in Links |-> {}], gas |-> <<>>,
          limit |-> Limits[1], most |-> Limits[1], refused |-> FALSE]

\* A full mempool gives up its cheapest for a dearer one.
AddToMempool(s, i, t) ==
    LET pool == s.pool[i]
        lowest == {u \in pool : \A v \in pool : s.gas[u] <= s.gas[v]}
    IN IF Cardinality(pool) < s.limit THEN {[s EXCEPT !.pool[i] = @ \union {t}]}
       ELSE IF lowest = {} \/ \E u \in lowest : s.gas[t] <= s.gas[u] THEN {[s EXCEPT !.refused = TRUE]}
       ELSE {[s EXCEPT !.pool[i] = (@ \ {u}) \union {t}, !.refused = TRUE] : u \in lowest}

\* The receiver need not send it back; the sender never sends it again, kept or not.
Send(s, l, t) ==
    IF t \in s.pool[l[2]] THEN {[s EXCEPT !.sent[l] = @ \union {t}]}
    ELSE {[r EXCEPT !.sent[l] = @ \union {t}, !.sent[<<l[2], l[1]>>] = @ \union {t}] :
             r \in AddToMempool(s, l[2], t)}

SendAll(s, l) ==
    LET toSend == s.pool[l[1]] \ s.sent[l]
        cheapest(T) == {t \in T : \A u \in T : s.gas[t] <= s.gas[u]}
        after[T \in SUBSET toSend] ==
          IF T = {} THEN {s}
          ELSE UNION {UNION {Send(r, l, t) : r \in after[T \ {t}]} : t \in cheapest(T)}
    IN IF s.down \intersect {l[1], l[2]} # {} THEN {s} ELSE after[toSend]

-----------------------------------------------------------------------------
BroadcastStep ==
    LET place(l) == l[1] * Nodes + l[2]
        last(L) == CHOOSE l \in L : \A m \in L : place(m) <= place(l)
    IN st' \in MapThenFoldSet(LAMBDA l, S : UNION {SendAll(s, l) : s \in S}, {st}, LAMBDA l : l, last, Links)

\* submit_tx, and spam_attack, which submits several for nothing.
SubmitTx(i, gas) ==
    /\ i \notin st.down /\ Len(st.gas) < MaxTxs
    /\ st' \in AddToMempool([st EXCEPT !.gas = Append(@, gas)], i, Len(st.gas) + 1)

SetParams == \E n \in DOMAIN Limits :
                st' = [st EXCEPT !.limit = Limits[n], !.most = Max({@, Limits[n]})]
CrashNode(i) == st' = [st EXCEPT !.down = @ \union {i}]
Reset == st' = Fresh

Init == st = Fresh
Next ==
    \/ BroadcastStep \/ SetParams \/ Reset
    \/ \E i \in Names : CrashNode(i) \/ \E gas \in Gas : SubmitTx(i, gas)
Spec == Init /\ [][Next]_st

-----------------------------------------------------------------------------
TypeOK == \A l \in Links : st.sent[l] \union st.pool[l[1]] \subseteq DOMAIN st.gas

\* No mempool outgrows the limit, and as long as none was full, what a node need not send
\* to another any more is in that one's mempool: nothing is lost by leaving it out.
SentIsHeld ==
    /\ \A i \in Names : Cardinality(st.pool[i]) <= st.most
    /\ ~st.refused => \A l \in Links : st.sent[l] \subseteq st.pool[l[2]] \intersect st.pool[l[1]]
=============================================================================
