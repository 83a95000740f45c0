---------------------------- MODULE MajorityScene ----------------------------
(***************************************************************************)
(* The scene attacksecurity/fiftyoneattack: an attacker mines a chain of   *)
(* its own and shows it when it is longer.                                 *)
(*                                                                         *)
(* A block is its tick, which no other block has, its miner and its        *)
(* transactions.  The hash rates only say who mines how often.             *)
(***************************************************************************)
EXTENDS Integers, Sequences, FiniteSets, Functions

CONSTANTS MaxTick, MaxTxs   \* bounds

VARIABLE st    \* snapState; doubles are DoubleSpends, atk is AttackerInPublic

Genesis == [tick |-> 0, miner |-> "honest", txs |-> {}]
Fresh == [tick |-> 0, public |-> <<Genesis>>, private |-> <<Genesis>>, onChain |-> <<>>,
          atk |-> 0, doubles |-> 0]
Mark(s, txs, tag) == [s EXCEPT !.onChain = [t \in DOMAIN @ |-> IF t \in txs THEN tag ELSE @[t]]]

-----------------------------------------------------------------------------
SendVictimTx == Len(st.onChain) < MaxTxs /\ st' = [st EXCEPT !.onChain = Append(@, "-")]

\* Honest miners take all that waits; all transactions are the victim's, and the attacker
\* takes none of those.
MineTick ==
    /\ st.tick < MaxTick
    /\ LET waiting == {t \in DOMAIN st.onChain : st.onChain[t] = "-"}
           s == [st EXCEPT !.tick = @ + 1]
       IN \/ st' = Mark([s EXCEPT !.public = Append(@, [tick |-> s.tick, miner |-> "honest", txs |-> waiting])],
                        waiting, "public")
          \/ st' = [s EXCEPT !.private = Append(@, [tick |-> s.tick, miner |-> "attacker", txs |-> {}])]

\* What is no longer in the chain waits again.
PublishPrivate ==
    LET gone == Range(st.public) \ Range(st.private)
        undone == UNION {b.txs : b \in gone}
    IN \/ /\ Len(st.private) <= Len(st.public)
          /\ st' = [st EXCEPT !.private = st.public]
       \/ /\ Len(st.private) > Len(st.public)
          /\ st' = Mark([st EXCEPT !.public = st.private, !.doubles = @ + Cardinality(undone),
                                   !.atk = Len(SelectSeq(st.private, LAMBDA b : b.miner = "attacker"))],
                        undone, "-")

Reset == st' = Fresh

Init == st = Fresh
Next == SendVictimTx \/ MineTick \/ PublishPrivate \/ Reset
Spec == Init /\ [][Next]_st

-----------------------------------------------------------------------------
TypeOK == st.doubles >= 0 /\ \A t \in DOMAIN st.onChain : st.onChain[t] \in {"-", "public"}

\* Through all reorganisations, a transaction is marked public just when one block of the
\* public chain holds it, and the attacker's blocks there are those that are counted.
MarkedAsMined ==
    /\ \A t \in DOMAIN st.onChain :
         Cardinality({k \in DOMAIN st.public : t \in st.public[k].txs}) = IF st.onChain[t] = "public" THEN 1 ELSE 0
    /\ st.atk = Len(SelectSeq(st.public, LAMBDA b : b.miner = "attacker"))
    /\ \A k \in 2 .. Len(st.public) : st.public[k - 1].tick < st.public[k].tick
=============================================================================
