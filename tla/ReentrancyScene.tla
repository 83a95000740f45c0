-------------------------- MODULE ReentrancyScene --------------------------
(***************************************************************************)
(* The scene attacksecurity/reentrancyattack: three vaults that differ in  *)
(* the order of paying and booking, and an attacker whose fallback calls   *)
(* withdraw again while it is being paid.                                  *)
(*                                                                         *)
(* A call returns the state and whether it was reverted; the trace and the *)
(* stack limit of 1024, which the depth of the attack never nears, are     *)
(* left out.                                                               *)
(***************************************************************************)
EXTENDS Integers, FiniteSetsExt

CONSTANTS Total, Share, Purse,   \* of a vault; of the attacker in it; of each account
          MaxAttackDepth,        \* of the attack, in withdrawals
          Amounts                \* bound: what may be deposited

VARIABLE st    \* snapState

Kinds == {"vulnerable", "cei", "guard"}
Owners == {"alice", "attacker"}
States ==
    [vault : [Kinds -> [balance : Nat, locked : BOOLEAN, deposits : [Owners -> Nat]]], eoa : [Owners -> Nat]]
Fresh == [vault |-> [k \in Kinds |-> [balance |-> Total, locked |-> FALSE,
                         deposits |-> [alice |-> Total - Share, attacker |-> Share]]],
          eoa |-> [o \in Owners |-> Purse]]
Paid(s, k, n) == [s EXCEPT !.vault[k].balance = @ - n, !.eoa["attacker"] = @ + n]
NotBelow0(n) == IF n < 0 THEN 0 ELSE n
Booked(s, k, n) == [s EXCEPT !.vault[k].deposits["attacker"] = NotBelow0(@ - n)]
CanPay(s, k) == LET n == s.vault[k].deposits["attacker"] IN n > 0 /\ s.vault[k].balance >= n

-----------------------------------------------------------------------------
\* execAttacker: whether the fallback of a payment at this depth withdraws again.
Reenters(s, k, depth, again) ==
    /\ again /\ depth <= 2 * MaxAttackDepth /\ s.vault[k].balance > 0
    /\ s.vault[k].deposits["attacker"] > 0 \/ k = "vulnerable"

\* A call is given what the next one does, a function of its depth and of the state.
InvokeFallback(s, k, depth, again, call) ==
    IF Reenters(s, k, depth + 1, again) THEN call[depth + 2, s] ELSE s

WithdrawVulnerable(s, k, depth, again, call) ==
    LET n == s.vault[k].deposits["attacker"]
    IN IF ~CanPay(s, k) THEN s ELSE Booked(InvokeFallback(Paid(s, k, n), k, depth, again, call), k, n)

WithdrawSecureCEI(s, k, depth, again, call) ==
    LET n == s.vault[k].deposits["attacker"]
    IN IF ~CanPay(s, k) THEN s ELSE InvokeFallback(Paid(Booked(s, k, n), k, n), k, depth, again, call)

WithdrawWithGuard(s, k, depth, again, call) ==
    IF s.vault[k].locked THEN s
    ELSE [WithdrawVulnerable([s EXCEPT !.vault[k].locked = TRUE], k, depth, again, call)
            EXCEPT !.vault[k].locked = FALSE]

Withdraw(k, again) ==
    LET call[depth \in Nat, s \in States] ==
          CASE k = "vulnerable" -> WithdrawVulnerable(s, k, depth, again, call)
            [] k = "cei" -> WithdrawSecureCEI(s, k, depth, again, call)
            [] OTHER -> WithdrawWithGuard(s, k, depth, again, call)
    IN call

-----------------------------------------------------------------------------
Deposit(o, k, n) ==
    /\ st.eoa[o] >= n
    /\ st' = [st EXCEPT !.eoa[o] = @ - n, !.vault[k].balance = @ + n, !.vault[k].deposits[o] = @ + n]

RunAttack(k, again) == st' = Withdraw(k, again)[1, st]
Reset == st' = Fresh

Init == st = Fresh
Next ==
    \/ Reset
    \/ \E k \in Kinds, again \in BOOLEAN : RunAttack(k, again)
    \/ \E o \in Owners, k \in Kinds, n \in Amounts : Deposit(o, k, n)
Spec == Init /\ [][Next]_st

-----------------------------------------------------------------------------
TypeOK ==
    \A k \in Kinds : LET v == st.vault[k] IN
        ~v.locked /\ v.balance >= 0 /\ \A o \in Owners : v.deposits[o] >= 0 /\ st.eoa[o] >= 0

\* The two safe vaults always hold what their depositors put in, and no money is made.
SafeVaultsSolvent ==
    LET sum(k) == MapThenSumSet(LAMBDA o : st.vault[k].deposits[o], Owners) IN
    /\ \A k \in {"cei", "guard"} : st.vault[k].balance = sum(k)
    /\ st.vault["vulnerable"].balance <= sum("vulnerable")
    /\ MapThenSumSet(LAMBDA k : st.vault[k].balance, Kinds) + MapThenSumSet(LAMBDA o : st.eoa[o], Owners)
         = 3 * Total + 2 * Purse
=============================================================================
