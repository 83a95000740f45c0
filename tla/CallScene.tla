------------------------------ MODULE CallScene ------------------------------
(***************************************************************************)
(* The scene smartcontract/contractinteraction: calls, delegate calls and  *)
(* static calls between contracts, with values that come back on a revert. *)
(*                                                                         *)
(* forward only passes on to setX, addX and readX, so that a call is at    *)
(* most two frames deep; the demonstrations are calls with forward.  The   *)
(* long chain of deep_chain changes nothing but what is shown.             *)
(***************************************************************************)
EXTENDS Integers, FiniteSetsExt

CONSTANTS Contracts, Balance, Purse,   \* of each contract, of the account outside
          Numbers, Values, MaxStored   \* arguments, values sent; a bound

VARIABLE st    \* snapState, and a history of whether a static call has changed anything

Fresh == [x |-> [c \in Contracts |-> 0], balance |-> [c \in Contracts |-> Balance], eoa |-> Purse,
          others |-> 0, staticChange |-> FALSE]
Kinds == {"call", "delegatecall", "staticcall"}
Frame(code, owner, sender, static) == [code |-> code, owner |-> owner, sender |-> sender, static |-> static]
Outcome(s, ok) == [state |-> s, ok |-> ok]
Credited(s, who, n) ==     \* EOABalance also holds what contracts withdrew and transferred
    IF who = "eoa" THEN [s EXCEPT !.eoa = @ + n] ELSE [s EXCEPT !.others = @ + n]

\* setX, addX and readX; writing is refused in a static context.
Store(s, f, fn, n) ==
    IF fn = "readX" THEN Outcome(s, TRUE)
    ELSE IF f.static THEN Outcome(s, FALSE)
    ELSE Outcome([s EXCEPT !.x[f.owner] = IF fn = "setX" THEN n ELSE @ + n], TRUE)

\* transfer asks for a positive amount, withdraw does not.
Pay(s, f, to, n, positive) ==
    IF f.static \/ (positive /\ n <= 0) \/ s.balance[f.owner] < n THEN Outcome(s, FALSE)
    ELSE Outcome(Credited([s EXCEPT !.balance[f.owner] = @ - n], to, n), TRUE)

\* The context of a delegate call is that of the frame; a static one is inherited.
Forward(s, f, target, kind, fn, n) ==
    Store(s, IF kind = "delegatecall" THEN [f EXCEPT !.code = target]
             ELSE Frame(target, target, f.code, f.static \/ kind = "staticcall"), fn, n)

ExecuteFrame(s, f) ==
    {Store(s, f, fn, n) : fn \in {"setX", "addX", "readX"}, n \in Numbers}
    \union {Pay(s, f, to, n, TRUE) : to \in {"eoa", "other"}, n \in Numbers}
    \union {Pay(s, f, f.sender, n, FALSE) : n \in Numbers}
    \union {Forward(s, f, target, kind, fn, n) :
              target \in Contracts, kind \in Kinds, fn \in {"setX", "addX", "readX"}, n \in Numbers}

-----------------------------------------------------------------------------
\* invokeFromEOA: the value of a reverted call goes back.
Invoke(callee, kind, value) ==
    LET sent == IF kind = "call" THEN value ELSE 0
        paid == [st EXCEPT !.eoa = @ - sent, !.balance[callee] = @ + sent]
    IN /\ kind # "delegatecall" /\ (kind = "staticcall" => value = 0)
       /\ value > 0 => st.eoa >= value
       /\ \E o \in ExecuteFrame(paid, Frame(callee, callee, "eoa", kind = "staticcall")) :
            LET done == IF o.ok THEN o.state
                        ELSE [o.state EXCEPT !.eoa = @ + sent, !.balance[callee] = @ - sent]
            IN /\ \A c \in Contracts : done.x[c] \in -MaxStored .. MaxStored
               /\ st' = [done EXCEPT !.staticChange = @ \/ (kind = "staticcall" /\ done # st)]

Reset == st' = Fresh

Init == st = Fresh
Next == Reset \/ \E callee \in Contracts, kind \in Kinds, value \in Values : Invoke(callee, kind, value)
Spec == Init /\ [][Next]_st

-----------------------------------------------------------------------------
TypeOK == \A c \in Contracts : st.balance[c] >= 0 /\ st.x[c] \in -MaxStored .. MaxStored

\* Calls, reverted or not, move balances and make none; a static call, or what it forwards,
\* changes nothing.
BalancesConserved ==
    /\ MapThenSumSet(LAMBDA c : st.balance[c] - Balance, Contracts) + st.eoa + st.others = Purse
    /\ ~st.staticChange
=============================================================================
