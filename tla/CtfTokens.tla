------------------------------ MODULE CtfTokens ------------------------------
(***************************************************************************)
(* What an attack-defence battle promises its teams (docs/modules/05,      *)
(* AC-28 to AC-33): a successful attack moves tokens from a target that    *)
(* has not patched the vulnerability, less for every earlier exploit of    *)
(* it, the first patch of a vulnerability is paid, and a round pays the    *)
(* teams nobody broke into in it, once.                                    *)
(***************************************************************************)
EXTENDS Integers

CONSTANTS Teams, Challenges, Rounds,
          Initial, FirstPatch, Reward, \* tokens at the start, per first patch, per round
          Steal(_), Gain(_)            \* of the k-th exploit: taken, received
VARIABLES balance,
          exploits,  \* successful attacks on each vulnerability
          hits,      \* <<round, team>>: the team was broken into
          patched,   \* <<team, challenge>>
          settled    \* rounds that are over

vars == <<balance, exploits, hits, patched, settled>>

Init == /\ balance = [t \in Teams |-> Initial]
        /\ exploits = [c \in Challenges |-> 0]
        /\ hits = {} /\ patched = {} /\ settled = {}

Attack(a, g, c, r) ==
    /\ a # g /\ <<g, c>> \notin patched /\ r \notin settled
    /\ LET k == exploits[c] + 1
           left == balance[g] - Steal(k)
       IN  /\ balance' = [balance EXCEPT ![a] = @ + Gain(k),
                                         ![g] = IF left < 0 THEN 0 ELSE left]
           /\ exploits' = [exploits EXCEPT ![c] = k]
    /\ hits' = hits \cup {<<r, g>>}
    /\ UNCHANGED <<patched, settled>>

Patch(t, c) ==
    /\ <<t, c>> \notin patched
    /\ balance' = [balance EXCEPT ![t] =
                      IF \E o \in Teams : <<o, c>> \in patched THEN @ ELSE @ + FirstPatch]
    /\ patched' = patched \cup {<<t, c>>}
    /\ UNCHANGED <<exploits, hits, settled>>

Settle(r) ==
    /\ r \notin settled
    /\ settled' = settled \cup {r}
    /\ balance' = [t \in Teams |-> IF <<r, t>> \in hits THEN balance[t]
                                    ELSE balance[t] + Reward]
    /\ UNCHANGED <<exploits, hits, patched>>

(* The battle is called off: the rounds left are not settled.              *)
CallOff == settled' = Rounds /\ UNCHANGED <<balance, exploits, hits, patched>>

Next ==
    \/ \E a, g \in Teams, c \in Challenges, r \in Rounds : Attack(a, g, c, r)
    \/ \E t \in Teams, c \in Challenges : Patch(t, c)
    \/ (\E r \in Rounds : Settle(r)) \/ CallOff

Spec == Init /\ [][Next]_vars
=============================================================================
