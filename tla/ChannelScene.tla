---------------------------- MODULE ChannelScene ----------------------------
(***************************************************************************)
(* The scene smartcontract/statechannel: payment channels between two      *)
(* parties, with cooperative and unilateral closing, challenges with a     *)
(* newer state, and forged states that are found out.                      *)
(*                                                                         *)
(* Every state is signed by both, since the scene signs for them; only a   *)
(* forged one is signed twice by the forger.  Parties may open a channel   *)
(* with themselves.                                                        *)
(***************************************************************************)
EXTENDS Integers, Sequences, FiniteSets, FiniteSetsExt

CONSTANTS Funds, Deposit, Period, MaxChannels, MaxNonce   \* of a party; of each side; bounds

VARIABLE st    \* snapState: money on chain, the channels, and a history of forgeries

Parties == {"A", "B"}
Fresh == [chain |-> [p \in Parties |-> Funds], chans |-> <<>>, forged |-> FALSE]
State(nonce, a, b) == [nonce |-> nonce, a |-> a, b |-> b]
Phase(phase) == {k \in DOMAIN st.chans : st.chans[k].phase = phase}
Splits(n) == (-1 .. n + 1) \X (-1 .. n + 1)    \* claimed shares, most of which do not add up
Pay(s, p, n) == [s EXCEPT !.chain[p] = @ + n]

\* settle: what the state says is paid, and nothing stays locked.
Settled(s, k, final) ==
    LET c == s.chans[k] IN
    Pay(Pay([s EXCEPT !.chans[k] = [c EXCEPT !.locked = 0, !.phase = "settled", !.on = final]],
            c.a, final.a), c.b, final.b)

-----------------------------------------------------------------------------
Open ==
    \E a, b \in Parties :
        /\ Len(st.chans) < MaxChannels
        /\ st.chain[a] >= Deposit /\ st.chain[b] >= Deposit
        /\ st' = Pay(Pay([st EXCEPT !.chans = Append(@,
                     [a |-> a, b |-> b, depA |-> Deposit, depB |-> Deposit, locked |-> 2 * Deposit,
                      phase |-> "open", nonce |-> 0, off |-> State(0, Deposit, Deposit),
                      on |-> State(0, 0, 0), remain |-> 0])], a, -Deposit), b, -Deposit)

\* As if the balances need not add up.
OffChainUpdate_any(k, split) ==
    LET c == st.chans[k] IN
    /\ c.nonce < MaxNonce /\ split[1] >= 0 /\ split[2] >= 0
    /\ st' = [st EXCEPT !.chans[k].nonce = @ + 1,
                        !.chans[k].off = State(c.nonce + 1, split[1], split[2])]

OffChainUpdate(k, split) ==
    LET c == st.chans[k] IN
    /\ c.nonce < MaxNonce /\ split[1] >= 0 /\ split[2] >= 0 /\ split[1] + split[2] = c.locked
    /\ st' = [st EXCEPT !.chans[k].nonce = @ + 1,
                        !.chans[k].off = State(c.nonce + 1, split[1], split[2])]

CloseCooperative(k) == st' = Settled(st, k, st.chans[k].off)

\* Any other nonce than the latest is taken for that of the first state, whose balances
\* are the deposits.
CloseUnilateral(k, nonce) ==
    LET c == st.chans[k] IN
    st' = [st EXCEPT !.chans[k].phase = "challenge", !.chans[k].remain = Period,
                     !.chans[k].on = IF nonce = c.off.nonce THEN c.off ELSE State(nonce, c.depA, c.depB)]

\* Anything newer may be claimed, with negative balances too.
Challenge(k, nonce, split) ==
    LET c == st.chans[k]
        new == State(nonce, split[1], split[2])
    IN /\ nonce > c.on.nonce /\ split[1] + split[2] = c.locked
       /\ st' = [st EXCEPT !.chans[k] =
                   [c EXCEPT !.on = new, !.remain = Period,
                             !.nonce = IF nonce > c.nonce THEN nonce ELSE @,
                             !.off = IF nonce > c.nonce THEN new ELSE @]]

\* Half the deposit goes to the other side; neither the phase nor the states change.
FraudProof(k, p, split) ==
    LET c == st.chans[k]
        fine == (IF p = c.a THEN c.depA ELSE c.depB) \div 2
        other == IF p = c.a THEN c.b ELSE c.a
        hit == IF p = c.a THEN [c EXCEPT !.depA = @ - fine, !.locked = @ - fine]
               ELSE [c EXCEPT !.depB = @ - fine, !.locked = @ - fine]
    IN IF p = c.a /\ p = c.b
       THEN st' = [st EXCEPT !.forged = TRUE, !.chans[k].on = State(c.nonce + 10, split[1], split[2])]
       ELSE st' = IF p \in {c.a, c.b} THEN Pay([st EXCEPT !.forged = TRUE, !.chans[k] = hit], other, fine)
                  ELSE [st EXCEPT !.forged = TRUE]

Tick ==
    LET after[k \in 0 .. Len(st.chans)] ==
          IF k = 0 THEN st
          ELSE LET s == after[k - 1] IN
               IF s.chans[k].phase # "challenge" THEN s
               ELSE IF s.chans[k].remain <= 1 THEN Settled(s, k, s.chans[k].on)
               ELSE [s EXCEPT !.chans[k].remain = @ - 1]
    IN st' = after[Len(st.chans)]

Reset == st' = Fresh

Init == st = Fresh
Next ==
    \/ Open \/ Tick \/ Reset
    \/ \E k \in Phase("open") :
         \/ CloseCooperative(k)
         \/ \E nonce \in 0 .. MaxNonce : CloseUnilateral(k, nonce)
         \/ \E split \in Splits(st.chans[k].locked) : OffChainUpdate(k, split)
    \/ \E k \in Phase("challenge"), nonce \in 0 .. MaxNonce :
         \E split \in Splits(st.chans[k].locked) : Challenge(k, nonce, split)
    \/ \E k \in Phase("open") \union Phase("challenge"), p \in Parties : FraudProof(k, p, <<2, 0>>)
Spec == Init /\ [][Next]_st

-----------------------------------------------------------------------------
TypeOK ==
    \A k \in DOMAIN st.chans : LET c == st.chans[k] IN
        /\ c.phase \in {"open", "challenge", "settled"}
        /\ (c.phase = "challenge") = (c.remain > 0 /\ c.phase # "settled")
        /\ c.phase = "settled" => c.locked = 0

\* As long as no state was forged, no sequence of updates, closings and challenges makes
\* or loses money: what is on chain and what the channels hold is what there was.
MoneyKept ==
    ~st.forged =>
        2 * Funds = MapThenSumSet(LAMBDA p : st.chain[p], Parties)
                    + MapThenSumSet(LAMBDA k : st.chans[k].locked, DOMAIN st.chans)
=============================================================================
