-------------------------- MODULE GovernanceScene --------------------------
(***************************************************************************)
(* The scene economic/governancevoting: proposals of a DAO, voted on by    *)
(* weight, queued behind a timelock and executed.                          *)
(*                                                                         *)
(* Token balances are integers, square roots are rounded down, and a sybil *)
(* attack makes one address.  Several epochs at once are several epochs.   *)
(***************************************************************************)
EXTENDS Integers, Sequences, FiniteSetsExt

CONSTANTS
    Holders, Newcomers,         \* who votes at first, who may come
    Tokens, Gift, Threshold,    \* amounts
    Modes,                      \* of "token", "quadratic", "person"
    Delays, Quorums,            \* values of TimelockDelay and of the quorum, in halves of the supply
    MaxProposals                \* bound

VARIABLE st    \* snapState; dels are the DelegatedFrom lists, vote the record of each voter

None == ""
Voter(n) == [balance |-> n, to |-> None, from |-> {}]
Fresh == [voters |-> [v \in Holders |-> Voter(Tokens[v])], props |-> <<>>, epoch |-> 0,
          mode |-> "token", quorum |-> 1, delay |-> 1, period |-> 1, timelock |-> 1]

Root(n) == Max({r \in 0 .. n : r * r <= n})
Power(s, v) ==
    LET n == s.voters[v].balance IN
    CASE s.mode = "token" -> n
      [] s.mode = "quadratic" -> Root(n)
      [] OTHER -> IF n > 0 THEN 1 ELSE 0
Total(s, S) == MapThenSumSet(LAMBDA v : Power(s, v), S)
EffectivePower(s, v) ==
    IF s.voters[v].to # None THEN 0 ELSE Power(s, v) + Total(s, s.voters[v].from)
Supply(s) == Total(s, DOMAIN s.voters)
Weight(p, support) == MapThenSumSet(LAMBDA r : r[3], {r \in p.records : r[2] = support})
Turnout(p) == Weight(p, "yes") + Weight(p, "no") + Weight(p, "abstain")
Phase(phase) == {k \in DOMAIN st.props : st.props[k].state = phase}

-----------------------------------------------------------------------------
SetParams ==
    \E mode \in Modes, q \in Quorums, timelock \in Delays :
        st' = [st EXCEPT !.mode = mode, !.quorum = q, !.timelock = timelock]

Submit(v) ==
    /\ Len(st.props) < MaxProposals /\ st.voters[v].balance >= Threshold
    /\ st' = [st EXCEPT !.props = Append(@,
          [by |-> v, state |-> "pending", start |-> st.epoch + st.delay,
           end |-> st.epoch + st.delay + st.period, quorum |-> Supply(st) * st.quorum,
           records |-> {}, queued |-> 0, due |-> 0, at |-> 0])]

Cast(k, v, support) ==
    /\ st.voters[v].to = None /\ \A r \in st.props[k].records : r[1] # v
    /\ st' = [st EXCEPT !.props[k].records = @ \union {<<v, support, EffectivePower(st, v)>>}]

\* Whoever has voted may still delegate, and a delegate may delegate.
DelegateTo(v, to) ==
    LET old == st.voters[v].to IN
    /\ v # to
    /\ st' = [st EXCEPT !.voters = [x \in DOMAIN @ |->
                [st.voters[x] EXCEPT !.to = IF x = v THEN to ELSE @,
                                  !.from = IF x = to THEN @ \union {v} ELSE IF x = old THEN @ \ {v} ELSE @]]]

Tally(p) ==
    IF 2 * Turnout(p) < p.quorum THEN "defeated"
    ELSE IF Weight(p, "yes") > Weight(p, "no") THEN "succeeded" ELSE "defeated"

AdvanceEpoch ==
    LET epoch == st.epoch + 1 IN
    st' = [st EXCEPT !.epoch = epoch,
                     !.props = [k \in DOMAIN @ |-> [st.props[k] EXCEPT !.state =
                         CASE @ = "pending" /\ epoch >= st.props[k].start -> "active"
                           [] @ = "active" /\ epoch >= st.props[k].end -> Tally(st.props[k])
                           [] OTHER -> @]]]

Queue(k) == st' = [st EXCEPT !.props[k].state = "queued", !.props[k].queued = st.epoch,
                             !.props[k].due = st.epoch + st.timelock]
Execute(k) == /\ st.epoch >= st.props[k].due
              /\ st' = [st EXCEPT !.props[k].state = "executed", !.props[k].at = st.epoch]
Cancel(k) == st' = [st EXCEPT !.props[k].state = "canceled"]

DistributeTokens(v) ==
    st' = [st EXCEPT !.voters = [x \in DOMAIN @ \union {v} |->
              IF x \notin DOMAIN @ THEN Voter(Gift)
              ELSE IF x = v THEN [st.voters[x] EXCEPT !.balance = @ + Gift] ELSE @[x]]]

\* The new address takes half, and starts afresh when it was there.
SybilAttack(v, new) ==
    /\ st.voters[v].balance > 0
    /\ LET half == st.voters[v].balance \div 2 IN
       st' = [st EXCEPT !.voters = [x \in DOMAIN @ \union {new} |->
                IF x = v THEN [@[x] EXCEPT !.balance = half]
                ELSE IF x = new THEN Voter(half) ELSE @[x]]]
Reset == st' = Fresh

Init == st = Fresh
Next ==
    \/ SetParams \/ AdvanceEpoch \/ Reset
    \/ \E v \in DOMAIN st.voters :
         \/ Submit(v)
         \/ \E to \in DOMAIN st.voters : DelegateTo(v, to)
         \/ \E new \in Newcomers \ {v} : SybilAttack(v, new)
         \/ \E k \in Phase("active"), support \in {"yes", "no", "abstain"} : Cast(k, v, support)
    \/ \E v \in Newcomers : DistributeTokens(v)
    \/ \E k \in Phase("pending") \union Phase("active") : Cancel(k)
    \/ \E k \in Phase("succeeded") : Queue(k)
    \/ \E k \in Phase("queued") : Execute(k)
Spec == Init /\ [][Next]_st

-----------------------------------------------------------------------------
TypeOK ==
    /\ \A v \in DOMAIN st.voters : st.voters[v].balance >= 0 /\ v \notin st.voters[v].from
    /\ \A k \in DOMAIN st.props : st.props[k].start <= st.props[k].end

\* What is executed had a majority of the votes cast, once each, and had waited; whatever
\* was voted, delegated and changed since.
ExecutedFairly ==
    \A k \in DOMAIN st.props : LET p == st.props[k] IN
        /\ \A r, q \in p.records : r[1] = q[1] => r = q
        /\ p.state = "executed" =>
             /\ Weight(p, "yes") > Weight(p, "no") /\ 2 * Turnout(p) >= p.quorum
             /\ p.end <= p.queued /\ p.due <= p.at
=============================================================================
