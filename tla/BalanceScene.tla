---------------------------- MODULE BalanceScene ----------------------------
(***************************************************************************)
(* The scene nodenetwork/nodeloadbalance: requests routed to backends with *)
(* a capacity, which go down and come back.                                *)
(*                                                                         *)
(* A random or hashed route goes to any backend that is up.  A request is  *)
(* the backend it waits at, and is done in the next tick; those that find  *)
(* no backend are counted with the rejected ones.                          *)
(***************************************************************************)
EXTENDS Integers, Sequences, FiniteSets, FiniteSetsExt

CONSTANTS Backends, Capacities, Rates, MaxTick   \* how many; values, the default first; a bound

VARIABLE st    \* snapState, and histories of the crashes of this tick and of the requests made

Names == 1 .. Backends
Fresh == [cap |-> [b \in Names |-> Capacities[1]], flight |-> [b \in Names |-> 0], down |-> {},
          processed |-> 0, rejected |-> 0, pending |-> <<>>, rps |-> Rates[1],
          strategy |-> "least-loaded", turn |-> 0, tick |-> 0, made |-> 0, crashed |-> {}]

\* Where the next request may go.
PickBackend(s) ==
    LET up == Names \ s.down
        before(b) == {a \in up : a < b}
    IN CASE up = {} -> {}
         [] s.strategy = "round-robin" /\ up # {} ->
              {b \in up : Cardinality(before(b)) = s.turn % Cardinality(up)}
         [] s.strategy = "least-loaded" /\ up # {} ->
              {b \in up : \A c \in up : s.flight[b] < s.flight[c] \/ (s.flight[b] = s.flight[c] /\ b <= c)}
         [] OTHER -> up

\* A request is made: rejected without a backend or by a full one, or on its way.
Route(s) ==
    LET m == [s EXCEPT !.made = @ + 1] IN
    IF PickBackend(s) = {} THEN {[m EXCEPT !.rejected = @ + 1]}
    ELSE {IF s.flight[b] >= s.cap[b] THEN [m EXCEPT !.rejected = @ + 1]
          ELSE [m EXCEPT !.flight[b] = @ + 1, !.pending = Append(@, b),
                         !.turn = IF s.strategy = "round-robin" THEN @ + 1 ELSE @] : b \in PickBackend(s)}

\* A request at a backend that is down is rejected; the count of a backend that was reset
\* by a crash does not go below zero.
Complete(s, b) ==
    [s EXCEPT !.flight[b] = IF @ > 0 THEN @ - 1 ELSE 0,
              !.processed = IF b \in s.down THEN @ ELSE @ + 1,
              !.rejected = IF b \in s.down THEN @ + 1 ELSE @]

-----------------------------------------------------------------------------
StepTick ==
    LET done[k \in 0 .. Len(st.pending)] == IF k = 0 THEN st ELSE Complete(done[k - 1], st.pending[k])
        ready == [done[Len(st.pending)] EXCEPT !.pending = <<>>, !.tick = @ + 1, !.crashed = {}]
        routed[k \in 0 .. st.rps] == IF k = 0 THEN {ready} ELSE UNION {Route(s) : s \in routed[k - 1]}
    IN /\ st.tick < MaxTick
       /\ st' \in routed[st.rps]

SetParams == \E n \in DOMAIN Rates, strategy \in {"random", "round-robin", "least-loaded", "consistent-hash"} :
                st' = [st EXCEPT !.rps = Rates[n], !.strategy = strategy]
SetCapacity(b) == \E n \in DOMAIN Capacities : st' = [st EXCEPT !.cap[b] = Capacities[n]]
CrashBackend(b) == st' = [st EXCEPT !.down = @ \union {b}, !.flight[b] = 0, !.crashed = @ \union {b}]
RecoverBackend(b) == st' = [st EXCEPT !.down = @ \ {b}]
Reset == st' = Fresh

Init == st = Fresh
Next ==
    \/ StepTick \/ SetParams \/ Reset
    \/ \E b \in Names : SetCapacity(b) \/ CrashBackend(b) \/ RecoverBackend(b)
Spec == Init /\ [][Next]_st

-----------------------------------------------------------------------------
TypeOK == \A b \in Names : st.flight[b] >= 0 /\ st.turn >= 0

\* Whatever crashes and comes back between the ticks, every request is processed, rejected
\* or waiting, once, and a backend counts those that wait at it.
RequestsCounted ==
    /\ st.made = st.processed + st.rejected + Len(st.pending)
    /\ \A b \in Names \ st.crashed : st.flight[b] = Len(SelectSeq(st.pending, LAMBDA c : c = b))
=============================================================================
