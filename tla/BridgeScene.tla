---------------------------- MODULE BridgeScene ----------------------------
(***************************************************************************)
(* The scene transaction/crosschainbridge: coins are locked on the source  *)
(* chain and minted on the target, burnt there and released here, each     *)
(* time with a message that a quorum of the validators has signed.         *)
(*                                                                         *)
(* A nonce is the place of a message.  Messages are kept for ever.  The    *)
(* set processed of the code is not kept: a message is in it just when it  *)
(* is executed, and its status is asked first.                             *)
(***************************************************************************)
EXTENDS Integers, Sequences, FiniteSets, FiniteSetsExt

CONSTANTS
    Users, Funds,      \* and what each has on the source chain
    Amounts,           \* that may be moved
    Sizes,             \* numbers of validators: the default first
    MaxMessages        \* bound

VARIABLE st    \* snapState

Fresh(n, f) ==
    [validators |-> n, f |-> f, byzantine |-> {}, locked |-> 0, minted |-> 0,
     source |-> [u \in Users |-> Funds], target |-> [u \in Users |-> 0], msgs |-> <<>>]

Quorum == 2 * st.f + 1
Honest == (1 .. st.validators) \ st.byzantine    \* IsDown is never set
Message(direction, u, n) == [direction |-> direction, user |-> u, amount |-> n, sigs |-> {}, status |-> "pending"]

-----------------------------------------------------------------------------
Lock(u, n) ==
    /\ Len(st.msgs) < MaxMessages /\ st.source[u] >= n
    /\ st' = [st EXCEPT !.source[u] = @ - n, !.locked = @ + n,
                        !.msgs = Append(@, Message("lock", u, n))]

Burn(u, n) ==
    /\ Len(st.msgs) < MaxMessages /\ st.target[u] >= n
    /\ st' = [st EXCEPT !.target[u] = @ - n, !.minted = @ - n,
                        !.msgs = Append(@, Message("burn", u, n))]

SignAll(k) == st' = [st EXCEPT !.msgs[k].sigs = @ \union Honest]

Refused(k) == st.msgs[k].status = "pending" /\ Cardinality(st.msgs[k].sigs) < Quorum
Pays(k) ==
    LET m == st.msgs[k] IN
    IF m.direction = "lock"
    THEN [st EXCEPT !.target[m.user] = @ + m.amount, !.minted = @ + m.amount]
    ELSE [st EXCEPT !.source[m.user] = @ + m.amount, !.locked = @ - m.amount]

\* execute, replay_attack and quorum_attack.  A message that lacks signatures is lost for good.
Execute(k) ==
    /\ st.msgs[k].status = "pending"
    /\ \/ Refused(k) /\ st' = [st EXCEPT !.msgs[k].status = "quorum-failed"]
       \/ ~Refused(k) /\ st' = [Pays(k) EXCEPT !.msgs[k].status = "executed"]

ByzantineValidator(v) == st' = [st EXCEPT !.byzantine = @ \union {v}]
SetValidators(n) == st' = Fresh(n, (n - 1) \div 3)
Reset == st' = Fresh(Sizes[1], 1)

Init == st = Fresh(Sizes[1], 1)
Next ==
    \/ Reset
    \/ \E i \in DOMAIN Sizes : SetValidators(Sizes[i])
    \/ \E u \in Users, n \in Amounts : Lock(u, n) \/ Burn(u, n)
    \/ \E k \in DOMAIN st.msgs : SignAll(k) \/ Execute(k)
    \/ \E v \in 1 .. st.validators : ByzantineValidator(v)
Spec == Init /\ [][Next]_st

-----------------------------------------------------------------------------
TypeOK ==
    /\ \A u \in Users : st.source[u] >= 0 /\ st.target[u] >= 0
    /\ st.locked >= 0 /\ st.minted >= 0

\* What is minted belongs to someone, and is backed by what is locked: the rest of the
\* locked coins are those of the messages that were not executed.
Backed ==
    /\ st.minted = MapThenSumSet(LAMBDA u : st.target[u], Users)
    /\ st.locked = st.minted + MapThenSumSet(LAMBDA k : st.msgs[k].amount,
                                            {k \in DOMAIN st.msgs : st.msgs[k].status # "executed"})
    /\ st.locked + MapThenSumSet(LAMBDA u : st.source[u], Users) = Cardinality(Users) * Funds
=============================================================================
