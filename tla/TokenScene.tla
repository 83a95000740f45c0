----------------------------- MODULE TokenScene -----------------------------
(***************************************************************************)
(* The scene transaction/tokentransfer: an ERC-20 token.  A refused call   *)
(* only writes an event, which is left out.                                *)
(***************************************************************************)
EXTENDS Integers, FiniteSetsExt

CONSTANTS Accounts, Amounts, MaxSupply   \* values, and a bound

VARIABLE st    \* snapState, and a history of what each spender was allowed and took

Fresh == [supply |-> 0, balance |-> [a \in Accounts |-> 0],
          allow |-> [p \in Accounts \X Accounts |-> 0],
          taken |-> [p \in Accounts \X Accounts |-> 0]]
Moved(s, from, to, n) == [s EXCEPT !.balance = [s.balance EXCEPT ![from] = @ - n], !.balance[to] = @ + n]

-----------------------------------------------------------------------------
Mint(to, n) == /\ st.supply + n <= MaxSupply
               /\ st' = [st EXCEPT !.balance[to] = @ + n, !.supply = @ + n]

Transfer(from, to, n) == st.balance[from] >= n /\ st' = Moved(st, from, to, n)

Approve(owner, spender, n) ==
    st' = [st EXCEPT !.allow[<<owner, spender>>] = n, !.taken[<<owner, spender>>] = 0]

TransferFrom(spender, owner, to, n) ==
    /\ st.allow[owner, spender] >= n /\ st.balance[owner] >= n
    /\ st' = [Moved(st, owner, to, n) EXCEPT !.allow[<<owner, spender>>] = @ - n, !.taken[<<owner, spender>>] = @ + n]

Burn(holder, n) == /\ st.balance[holder] >= n
                   /\ st' = [st EXCEPT !.balance[holder] = @ - n, !.supply = @ - n]
Reset == st' = Fresh

Init == st = Fresh
Next ==
    \/ Reset
    \/ \E a \in Accounts, n \in Amounts : Mint(a, n) \/ Burn(a, n)
    \/ \E a, b \in Accounts, n \in Amounts :
         Transfer(a, b, n) \/ Approve(a, b, n) \/ \E c \in Accounts : TransferFrom(c, a, b, n)
Spec == Init /\ [][Next]_st

-----------------------------------------------------------------------------
TypeOK == st.supply >= 0 /\ \A a \in Accounts : st.balance[a] >= 0

\* The supply is what the accounts hold, and a spender takes no more than it was allowed last.
SupplyHeld ==
    /\ st.supply = MapThenSumSet(LAMBDA a : st.balance[a], Accounts)
    /\ \A p \in Accounts \X Accounts :
         st.allow[p] >= 0 /\ st.taken[p] + st.allow[p] <= Max(Amounts)
=============================================================================
