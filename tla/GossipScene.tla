---------------------------- MODULE GossipScene ----------------------------
(***************************************************************************)
(* The scene nodenetwork/gossippropagation: messages spread by pushing and *)
(* pulling between chosen peers, with losses and nodes that go down.       *)
(*                                                                         *)
(* Which peers are picked and what is lost comes from a hash: any choice.  *)
(***************************************************************************)
EXTENDS Integers, Sequences, FiniteSets

CONSTANTS Nodes, Fanouts, MaxMessages, MaxTick   \* how many; values; the code's limit, a bound

VARIABLE st    \* snapState; known are the ticks of arrival, Never for what did not arrive

Never == -1
Names == 1 .. Nodes
Fresh == [known |-> [i \in Names |-> <<>>], down |-> {}, mode |-> "push-pull", fanout |-> Fanouts[1],
          lossy |-> FALSE, tick |-> 0, converged |-> <<>>, origin |-> <<>>]
Live(s) == Names \ s.down
Messages == DOMAIN st.origin
Knows(i, m) == st.known[i][m] # Never

-----------------------------------------------------------------------------
SetParams ==
    \E mode \in {"push", "pull", "push-pull"}, f \in DOMAIN Fanouts, lossy \in BOOLEAN :
        st' = [st EXCEPT !.mode = mode, !.fanout = Fanouts[f], !.lossy = lossy]

PublishMessage(i) ==
    /\ i \in Live(st) /\ Len(st.origin) < MaxMessages
    /\ st' = [st EXCEPT !.origin = Append(@, i), !.converged = Append(@, Never),
                        !.known = [j \in Names |-> Append(@[j], IF j = i THEN st.tick ELSE Never)]]

PickPeers(i) ==
    LET cands == Live(st) \ {i} IN
    {P \in SUBSET cands : Cardinality(P) = IF Cardinality(cands) < st.fanout THEN Cardinality(cands)
                                          ELSE st.fanout}

\* What the peers know now is what is passed on, over every link of the tick.
StepGossip ==
    /\ st.tick < MaxTick
    /\ \E links \in {UNION {{<<i, j>> : j \in pick[i]} : i \in Live(st)} :
                        pick \in {f \in [Live(st) -> SUBSET Names] : \A i \in Live(st) : f[i] \in PickPeers(i)}} :
       LET pushed == IF st.mode = "pull" THEN {} ELSE links
           pulled == IF st.mode = "push" THEN {} ELSE {<<l[2], l[1]>> : l \in links}
           due == {<<l[1], l[2], m>> : l \in pushed \union pulled, m \in Messages}
           fresh == {d \in due : Knows(d[1], d[3]) /\ ~Knows(d[2], d[3])}
       IN \E sent \in IF st.lossy THEN SUBSET fresh ELSE {fresh} :
          LET known == [j \in Names |-> [m \in Messages |->
                          IF \E d \in sent : d[2] = j /\ d[3] = m THEN st.tick + 1 ELSE st.known[j][m]]]
              all(m) == Live(st) # {} /\ \A j \in Live(st) : known[j][m] # Never
          IN st' = [st EXCEPT !.tick = @ + 1, !.known = known,
                              !.converged = [m \in Messages |->
                                  IF @[m] = Never /\ all(m) THEN st.tick + 1 ELSE @[m]]]

CrashNode(i) == st' = [st EXCEPT !.down = @ \union {i}]
RecoverNode(i) == st' = [st EXCEPT !.down = @ \ {i}]
Reset == st' = Fresh

Init == st = Fresh
Next ==
    \/ SetParams \/ StepGossip \/ Reset
    \/ \E i \in Names : PublishMessage(i) \/ CrashNode(i) \/ RecoverNode(i)
Spec == Init /\ [][Next]_st

-----------------------------------------------------------------------------
TypeOK == \A i \in Names, m \in Messages : st.known[i][m] \in Never .. st.tick

\* A message goes one hop in a tick: whoever has it got it from a node that had it before,
\* back to its origin; and no message has converged before it went that far.
OneHopPerTick ==
    \A m \in Messages :
        /\ Knows(st.origin[m], m)
        /\ \A j \in Names \ {st.origin[m]} :
             Knows(j, m) => \E i \in Names : Knows(i, m) /\ st.known[i][m] < st.known[j][m]
        /\ st.converged[m] # Never => st.converged[m] > st.known[st.origin[m]][m]
=============================================================================
