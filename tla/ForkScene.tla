------------------------------ MODULE ForkScene ------------------------------
(***************************************************************************)
(* The scene datastructure/blockchainstructure: a tree of blocks with a    *)
(* main chain, forks and reorganisations.  Tampering with a block changes  *)
(* what it holds, and not the hash it is found under: it is left out.      *)
(*                                                                         *)
(* A block is its number; every block has the same difficulty, so that the *)
(* heaviest chain is the longest.  Among equals the order of the hashes    *)
(* decides: any choice.                                                    *)
(***************************************************************************)
EXTENDS Integers, Sequences, FiniteSets, FiniteSetsExt

CONSTANT MaxBlocks    \* the code's limit

VARIABLE st    \* snapState, and a history of the greatest height of the main chain

Fresh == [prev |-> <<0>>, height |-> <<0>>, tip |-> 1, best |-> 0]
Blocks == DOMAIN st.prev
First(h) == Min({b \in Blocks : st.height[b] = h})
AllTips == Blocks \ {st.prev[b] : b \in Blocks}

\* The blocks from a tip to the first one.
Path(b) ==
    LET up[n \in 0 .. MaxBlocks] == IF n = 0 THEN b ELSE IF up[n - 1] = 0 THEN 0 ELSE st.prev[up[n - 1]]
    IN {up[n] : n \in 0 .. MaxBlocks} \ {0}

AddBlockOnTop(b) ==
    [st EXCEPT !.prev = Append(@, b), !.height = Append(@, st.height[b] + 1)]
Best(s) == [s EXCEPT !.best = IF s.height[s.tip] > @ THEN s.height[s.tip] ELSE @]

-----------------------------------------------------------------------------
MineBlock == /\ Len(st.prev) < MaxBlocks
             /\ st' = Best([AddBlockOnTop(st.tip) EXCEPT !.tip = Len(st.prev) + 1])

\* Beside a block of this height, on the first of the height before.
MineForkBlock(h) ==
    /\ Len(st.prev) < MaxBlocks /\ \E b \in Blocks : st.height[b] = h
    /\ st' = AddBlockOnTop(First(h - 1))

\* The heaviest of the other tips.
ExtendFork ==
    /\ Len(st.prev) < MaxBlocks /\ Cardinality(AllTips) >= 2
    /\ \E b \in AllTips \ {st.tip} :
         /\ \A c \in AllTips \ {st.tip} : st.height[b] >= st.height[c]
         /\ st' = AddBlockOnTop(b)

\* pickMainTip: a tip of equal difficulty may take the place of the main one.
Reorg == \E b \in AllTips : /\ \A c \in AllTips : st.height[b] >= st.height[c]
                            /\ st' = Best([st EXCEPT !.tip = b])

Reset == st' = Fresh

Init == st = Fresh
Next ==
    \/ MineBlock \/ ExtendFork \/ Reorg \/ Reset
    \/ \E h \in 1 .. MaxBlocks : MineForkBlock(h)
Spec == Init /\ [][Next]_st

-----------------------------------------------------------------------------
TypeOK == st.tip \in Blocks /\ \A b \in Blocks \ {1} : st.prev[b] < b /\ st.height[b] = st.height[st.prev[b]] + 1

\* The main chain never gets shorter, whatever is mined beside it, and goes without gaps
\* to the first block.
HeaviestStays ==
    /\ st.height[st.tip] >= st.best
    /\ {st.height[b] : b \in Path(st.tip)} = 0 .. st.height[st.tip]
=============================================================================
