------------------------- MODULE SimSessionProofs -------------------------
(***************************************************************************)
(* Proofs about the session core of the simulation engine: the types, the  *)
(* Pods and triggers that a destruction or a reset leaves, and that a step *)
(* back shows what the scene showed.                                       *)
(***************************************************************************)
EXTENDS SimSession, Recursion, FiniteSetTheorems, SequenceTheorems, TLAPS

Table == [Cells -> Nat]
Differences == UNION {[D -> Nat] : D \in SUBSET Cells}
Item == [tick : 0..MaxTick, key : BOOLEAN, state : Table, diff : Differences]
Items == Seq(Item)
Trigger == [v : Nat, epoch : Nat]
Triggers == Seq(Trigger)
Stored == [tick : 0..MaxTick, cells : Table, epoch : Nat]
Confs == [active : SUBSET Scenes, linked : BOOLEAN, modes : [Scenes -> Modes]]
Operations ==
    [kind : {"idle", "step", "auto", "force"}, todo : SUBSET Scenes, call : Scenes \union {NoScene}, copy : Table]
Restores == [pc : {"idle", "scenes"}, tick : 0..MaxTick, cells : Table, todo : SUBSET Scenes]

-----------------------------------------------------------------------------
(* The invariants.                                                         *)

\* Every variable has its type.
SessionTyped ==
    /\ session \in {"none", "live", "gone", "panicked"} /\ conf \in Confs
    /\ status \in {"running", "paused", "error"} /\ collecting \in BOOLEAN
    /\ clock \in [tick : 0..MaxTick, running : BOOLEAN]
    /\ clock.running => Mode # "reactive"
TablesTyped ==
    /\ cells \in Table /\ last \in Table /\ seenAt \in [0..MaxTick -> Table]
    /\ pending \in [Scenes -> Triggers]
    /\ store \in SUBSET Stored
    /\ path \in {"straight", "back", "branched"} /\ epoch \in Nat
StackTyped == stack \in Items /\ Len(stack) <= MaxItems

\* An operation works through active scenes, a call in flight is to one it still has to do.
OpTyped ==
    /\ op \in Operations /\ op.todo \subseteq conf.active
    /\ op.call # NoScene => op.call \in op.todo
    /\ op.kind = "idle" => op = Idle
    /\ restore \in Restores /\ restore.todo \subseteq conf.active
    /\ restore.pc = "idle" => restore = NoRestore

PodsTyped == pool \subseteq pods /\ pods \subseteq Scenes /\ closed \subseteq conf.active

\* Before its start a session has done nothing.
Fresh ==
    session = "none" =>
      /\ conf.active = {} /\ op = Idle /\ restore = NoRestore /\ store = {} /\ ~clock.running
      /\ cells = Blank /\ last = Blank /\ stack = <<>> /\ path = "straight" /\ clock.tick = 0

Typed == SessionTyped /\ TablesTyped /\ StackTyped /\ OpTyped /\ PodsTyped /\ Fresh

-----------------------------------------------------------------------------
(* Lemmas about the operators.                                             *)

LEMMA BlankTyped == Blank \in Table /\ Idle \in Operations /\ NoRestore \in Restores
BY SessionAssumption DEF Blank, Table, Idle, Operations, NoRestore, Restores

\* What a scene's two cells are, and that the field is none of them.
LEMMA SceneCells ==
    /\ \A s \in Scenes : <<s, "step">> \in Cells /\ <<s, "act">> \in Cells
    /\ Field \in Cells
    /\ \A s : Field # <<s, "step">> /\ Field # <<s, "act">>
BY DEF Cells, Field

LEMMA DiffTyped ==
    ASSUME NEW old \in Table, NEW new \in Table
    PROVE  BuildDiff(old, new) \in Differences
<1>1. {d \in Cells : old[d] # new[d]} \in SUBSET Cells
  OBVIOUS
<1>2. BuildDiff(old, new) \in [{d \in Cells : old[d] # new[d]} -> Nat]
  BY DEF BuildDiff, Table
<1> QED
  BY <1>1, <1>2 DEF Differences

\* A stack grows by one item and loses at most the oldest one.
LEMMA SaveTyped ==
    ASSUME NEW items \in Items, Len(items) <= MaxItems, NEW tick \in 0..MaxTick,
           NEW state \in Table, NEW diff \in Differences
    PROVE  /\ SaveItem(items, tick, state, diff) \in Items
           /\ Len(SaveItem(items, tick, state, diff)) <= MaxItems
<1> DEFINE new == [tick |-> tick, key |-> tick % KeyframeInterval = 0, state |-> state, diff |-> diff]
           all == Append(items, new)
<1>1. new \in Item
  BY SessionAssumption DEF Item
<1>2. all \in Items /\ Len(all) = Len(items) + 1 /\ all # <<>>
  <2> HIDE DEF new
  <2> QED
    BY <1>1 DEF Items
<1>3. Tail(all) \in Items /\ Len(Tail(all)) = Len(items)
  <2> HIDE DEF all, new
  <2> QED
    BY <1>2 DEF Items
<1>4. Len(items) \in Nat /\ MaxItems \in Nat
  BY SessionAssumption DEF Items
<1>5. SaveItem(items, tick, state, diff) = IF Len(all) > MaxItems THEN Tail(all) ELSE all
  BY DEF SaveItem
<1> HIDE DEF all, new
<1> QED
  BY <1>2, <1>3, <1>4, <1>5

LEMMA RestoredTyped ==
    ASSUME NEW state \in Table, cells \in Table
    PROVE  RestoredFrom(state) \in Table
BY DEF RestoredFrom, Table

LEMMA RecordTyped ==
    ASSUME NEW state \in Table, NEW tick \in 0..MaxTick, TablesTyped, StackTyped, RecordTick(state, tick)
    PROVE  /\ StackTyped' /\ last' \in Table /\ seenAt' \in [0..MaxTick -> Table]
           /\ path' \in {"straight", "back", "branched"}
<1>1. last \in Table /\ BuildDiff(last, state) \in Differences
  BY DiffTyped DEF TablesTyped
<1>2. StackTyped'
  BY <1>1, SaveTyped DEF StackTyped, RecordTick
<1> QED
  BY <1>2 DEF TablesTyped, RecordTick, Onward

LEMMA ToldTyped ==
    ASSUME TablesTyped, NEW s \in Scenes, NEW v \in Nat
    PROVE  Told(s, v) \in [Scenes -> Triggers]
<1>1. \A m \in Scenes : pending[m] \in Triggers /\ Append(pending[m], [v |-> v, epoch |-> epoch]) \in Triggers
  <2>1. [v |-> v, epoch |-> epoch] \in Trigger
    BY DEF TablesTyped, Trigger
  <2> QED
    BY <2>1 DEF TablesTyped, Triggers
<1> QED
  BY <1>1 DEF Told, TablesTyped

LEMMA PublishedTyped ==
    ASSUME NEW state \in Table, NEW s, NEW v \in Nat
    PROVE  Published(state, s, v) \in Table
BY SceneCells DEF Published, Table

-----------------------------------------------------------------------------
(* Differences applied in turn.                                            *)

\* The tables that result from the first items of a stack: a recursion over them.
Merged(items, D, base) ==
    CHOOSE f : f = [i \in 0..Len(items) |->
                      IF i = 0 THEN base ELSE IF i \in D THEN MergeDiff(f[i - 1], items[i].diff) ELSE f[i - 1]]

LEMMA MergedExists ==
    ASSUME NEW items \in Items, NEW D \in SUBSET DOMAIN items, NEW base \in Table, NEW merged,
           merged = Merged(items, D, base)
    PROVE  /\ merged \in [0..Len(items) -> Table] /\ merged[0] = base
           /\ \A i \in DOMAIN items :
                merged[i] = IF i \in D THEN MergeDiff(merged[i - 1], items[i].diff) ELSE merged[i - 1]
<1> DEFINE n == Len(items)
           body(f, i) == IF i = 0 THEN base ELSE IF i \in D THEN MergeDiff(f[i - 1], items[i].diff) ELSE f[i - 1]
           step == [x \in Nat \X Table |->
                      IF x[1] + 1 \in D THEN MergeDiff(x[2], items[x[1] + 1].diff) ELSE x[2]]
<1>1. n \in Nat /\ DOMAIN items = 1..n /\ \A i \in DOMAIN items : items[i].diff \in Differences
  <2>1. n \in Nat /\ DOMAIN items = 1..n /\ \A i \in DOMAIN items : items[i] \in Item
    BY DEF Items
  <2> QED
    BY <2>1 DEF Item
<1>2. ASSUME NEW t \in Table, NEW d \in Differences PROVE MergeDiff(t, d) \in Table
  <2> PICK E \in SUBSET Cells : d \in [E -> Nat]
    BY DEF Differences
  <2> QED
    BY DEF MergeDiff, Table
<1>3. step \in [Nat \X Table -> Table]
  BY <1>1, <1>2
<1> HIDE DEF step
<1>4. PICK g : Follows(g, Table, base, step)
  BY <1>3, RecursionExists
<1>5. g \in [Nat -> Table] /\ g[0] = base /\ \A k \in Nat : g[k + 1] = step[<<k, g[k]>>]
  BY <1>4 DEF Follows
<1>6. \A i \in 1..n : g[i] = IF i \in D THEN MergeDiff(g[i - 1], items[i].diff) ELSE g[i - 1]
  <2> TAKE i \in 1..n
  <2>1. i - 1 \in Nat /\ g[i - 1] \in Table /\ (i - 1) + 1 = i
    BY <1>1, <1>5
  <2>2. g[i] = step[<<i - 1, g[i - 1]>>]
    BY <1>5, <2>1
  <2> QED
    BY <2>1, <2>2 DEF step
<1> DEFINE h == [i \in 0..n |-> g[i]]
<1>7. h = [i \in 0..n |-> body(h, i)]
  <2>1. \A i \in 0..n : h[i] = body(h, i)
    BY <1>1, <1>5, <1>6
  <2> QED
    BY <2>1
<1>8. merged = [i \in 0..n |-> body(merged, i)]
  BY <1>7 DEF Merged
<1>9. \A i \in 0..n : merged[i] = body(merged, i)
  BY <1>8
<1>10. \A k \in Nat : k \in 0..n => merged[k] = g[k]
  <2> DEFINE Same == {k \in Nat : k \in 0..n => merged[k] = g[k]}
  <2>1. 0 \in Same
    BY <1>1, <1>5, <1>9
  <2>2. \A k \in Same : k + 1 \in Same
    <3> SUFFICES ASSUME NEW k \in Same, k + 1 \in 0..n PROVE merged[k + 1] = g[k + 1]
      OBVIOUS
    <3>1. k \in 0..n /\ k + 1 \in 1..n /\ (k + 1) - 1 = k /\ merged[k] = g[k]
      BY <1>1
    <3> QED
      BY <3>1, <1>6, <1>9
  <2> HIDE DEF Same
  <2>3. Same = Nat
    <3>1. Same \subseteq Nat
      BY DEF Same
    <3> QED
      BY <2>1, <2>2, <3>1, Induction
  <2> QED
    BY <2>3 DEF Same
<1>11. \A i \in 0..n : i \in Nat /\ merged[i] \in Table
  BY <1>1, <1>5, <1>10
<1>12. merged \in [0..n -> Table]
  <2>1. DOMAIN merged = 0..n /\ merged = [i \in DOMAIN merged |-> merged[i]]
    BY <1>8
  <2> QED
    BY <1>11, <2>1
<1>13. merged[0] = base
  BY <1>1, <1>9
<1>14. \A i \in 1..n : merged[i] = IF i \in D THEN MergeDiff(merged[i - 1], items[i].diff) ELSE merged[i - 1]
  BY <1>1, <1>9
<1> QED
  BY <1>1, <1>12, <1>13, <1>14

LEMMA LargestIndex ==
    ASSUME NEW n \in Nat, NEW S \in SUBSET (1..n), S # {}
    PROVE  Max(S) \in S /\ \A i \in S : i <= Max(S)
<1> DEFINE T == {n - i : i \in S}
<1>1. T \in SUBSET Nat /\ T # {}
  <2>1. \A i \in S : n - i \in Nat
    OBVIOUS
  <2> QED
    BY <2>1
<1> HIDE DEF T
<1>2. PICK d \in T : \A e \in T : d <= e
  BY <1>1, SmallestElement
<1> USE DEF T
<1>3. PICK m \in S : d = n - m
  OBVIOUS
<1>4. \A i \in S : m >= i
  <2> TAKE i \in S
  <2>1. d <= n - i
    BY <1>2
  <2> QED
    BY <1>3, <2>1
<1>5. Max(S) \in S /\ \A i \in S : Max(S) >= i
  BY <1>4 DEF Max
<1> QED
  BY <1>5

LEMMA NearestIsKeyframe ==
    ASSUME NEW items \in Items, NEW tick, Keyframes(items, tick) # {}
    PROVE  LET k == Max(Keyframes(items, tick)) IN
           /\ k \in DOMAIN items /\ items[k].key /\ items[k].tick <= tick
           /\ \A i \in Keyframes(items, tick) : i <= k
           /\ NearestKeyframe(items, tick) = items[k] /\ items[k] \in Item
<1>1. Len(items) \in Nat /\ DOMAIN items = 1..Len(items) /\ \A i \in DOMAIN items : items[i] \in Item
  BY DEF Items
<1>2. Keyframes(items, tick) \in SUBSET (1..Len(items))
  BY <1>1 DEF Keyframes
<1>3. Max(Keyframes(items, tick)) \in Keyframes(items, tick) /\ \A i \in Keyframes(items, tick) : i <= Max(Keyframes(items, tick))
  BY <1>1, <1>2, LargestIndex
<1> QED
  BY <1>1, <1>3 DEF Keyframes, NearestKeyframe

\* A step back shows a table.
LEMMA RebuiltTyped ==
    ASSUME NEW items \in Items, NEW tick, Keyframes(items, tick) # {}
    PROVE  Rebuilt(items, tick) \in Table
<1> DEFINE key == NearestKeyframe(items, tick)
           D == DiffsAfter(items, key.tick, tick)
           Result == Merged(items, D, key.state)
<1>1. key.state \in Table /\ D \in SUBSET DOMAIN items
  BY NearestIsKeyframe DEF DiffsAfter, Item
<1>2. Rebuilt(items, tick) = Result[Len(items)]
  BY DEF Rebuilt, Merged
<1>3. Len(items) \in 0..Len(items)
  BY DEF Items
<1> HIDE DEF key, D
<1>4. Result \in [0..Len(items) -> Table]
  <2>1. PICK d \in SUBSET DOMAIN items, b \in Table : d = D /\ b = key.state
    BY <1>1
  <2>2. PICK m : m = Merged(items, d, b)
    OBVIOUS
  <2>3. m \in [0..Len(items) -> Table]
    BY <2>2, MergedExists
  <2> QED
    BY <2>1, <2>2, <2>3
<1> HIDE DEF Result
<1> QED
  BY <1>2, <1>3, <1>4

LEMMA StepBackTyped ==
    ASSUME stack \in Items, cells \in Table, NEW tick, Keyframes(stack, tick) # {}
    PROVE  RestoredFrom(Rebuilt(stack, tick)) \in Table
BY RebuiltTyped, RestoredTyped

-----------------------------------------------------------------------------
(* Types are kept.                                                         *)

LEMMA InitTyped == Init => Typed
<1> SUFFICES ASSUME Init PROVE Typed
  OBVIOUS
<1>1. SessionTyped /\ PodsTyped
  <2>1. [s \in Scenes |-> "process"] \in [Scenes -> Modes]
    BY DEF Modes
  <2>2. conf \in Confs
    BY <2>1 DEF Init, Confs
  <2>3. clock \in [tick : 0..MaxTick, running : BOOLEAN] /\ ~clock.running
    BY SessionAssumption DEF Init
  <2> QED
    BY <2>2, <2>3 DEF Init, SessionTyped, PodsTyped
<1>2. TablesTyped
  BY BlankTyped, SessionAssumption DEF Init, TablesTyped, Triggers
<1>3. StackTyped
  BY SessionAssumption DEF Init, StackTyped, Items
<1>4. OpTyped
  BY BlankTyped DEF Init, OpTyped, Idle, NoRestore
<1>5. Fresh
  BY DEF Init, Fresh
<1> QED
  BY <1>1, <1>2, <1>3, <1>4, <1>5 DEF Typed

\* What the start and the end of a session do.
LEMMA LifeTyped ==
    ASSUME Typed, \/ \E start \in Starts : StartSession(start)
                  \/ \E undeleted \in SUBSET pods : DestroySession(undeleted)
                  \/ Reap
    PROVE  Typed'
<1>1. CASE \E start \in Starts : StartSession(start)
  <2> PICK start \in Starts : StartSession(start)
    BY <1>1
  <2>1. /\ start \in [active : SUBSET Scenes, kept : SUBSET Scenes, linked : BOOLEAN, modes : [Scenes -> Modes]]
        /\ Fresh /\ session = "none"
    BY SessionAssumption DEF StartSession, Modes, Typed
  <2>2. SessionTyped'
    BY <2>1 DEF StartSession, Typed, SessionTyped, Confs, Fresh
  <2>3. PodsTyped'
    BY <2>1 DEF StartSession, Typed, PodsTyped, Fresh
  <2>4. OpTyped'
    BY <2>1, BlankTyped DEF StartSession, Typed, OpTyped, Fresh, Idle, NoRestore
  <2>5. StackTyped'
    <3>1. <<>> \in Items /\ Len(<<>>) <= MaxItems /\ 0 \in 0..MaxTick
      BY SessionAssumption DEF Items
    <3>2. Blank \in Differences
      BY BlankTyped DEF Differences, Table
    <3>3. SaveItem(<<>>, 0, Blank, Blank) \in Items /\ Len(SaveItem(<<>>, 0, Blank, Blank)) <= MaxItems
      BY <3>1, <3>2, BlankTyped, SaveTyped
    <3> QED
      BY <3>3 DEF StartSession, Typed, StackTyped
  <2>6. TablesTyped'
    BY BlankTyped, SessionAssumption DEF StartSession, Typed, TablesTyped
  <2>7. Fresh'
    BY DEF StartSession, Fresh
  <2> QED
    BY <2>2, <2>3, <2>4, <2>5, <2>6, <2>7 DEF Typed
<1>2. CASE \E undeleted \in SUBSET pods : DestroySession(undeleted)
  BY <1>2 DEF DestroySession, engineVars, history, Typed, SessionTyped, TablesTyped, StackTyped, OpTyped, PodsTyped, Fresh, Mode
<1>3. CASE Reap
  BY <1>3 DEF Reap, engineVars, history, Typed, SessionTyped, TablesTyped, StackTyped, OpTyped, PodsTyped, Fresh, Mode
<1> QED
  BY <1>1, <1>2, <1>3

\* Steps: the clock moves first, each call is a step of its own.
LEMMA StepTyped ==
    ASSUME Typed, \/ Step \/ AutoAdvance \/ EndStep
                  \/ \E s \in Scenes : TeacherForceStep(s) \/ CallScene(s) \/ SceneReturns(s)
    PROVE  Typed'
<1> USE DEF Typed
<1>1. ASSUME NEW kind \in {"step", "auto", "force"}, NEW todo \in SUBSET conf.active, BeginStep(kind, todo)
      PROVE  Typed'
  <2>1. SessionTyped'
    BY <1>1, SessionAssumption DEF BeginStep, SessionTyped, Mode
  <2>2. op' \in Operations /\ op'.todo \subseteq conf.active /\ op'.call = NoScene /\ op'.kind # "idle"
    BY <1>1, BlankTyped DEF BeginStep, Operations, SessionTyped, Confs
  <2>3. OpTyped'
    BY <1>1, <2>2 DEF BeginStep, OpTyped
  <2> QED
    BY <1>1, <2>1, <2>3 DEF BeginStep, Onward, TablesTyped, StackTyped, PodsTyped, podVars, Fresh, NoOperation
<1>2. CASE Step
  BY <1>1, <1>2 DEF Step, Advancing
<1>3. CASE AutoAdvance
  BY <1>1, <1>3 DEF AutoAdvance, Advancing
<1>4. ASSUME NEW s \in Scenes, TeacherForceStep(s) PROVE Typed'
  BY <1>1, <1>4 DEF TeacherForceStep
<1>5. ASSUME NEW s \in Scenes, CallScene(s) PROVE Typed'
  <2>1. op.todo \in SUBSET Scenes /\ s \in op.todo /\ op.kind # "idle" /\ op \in Operations /\ pending[s] \in Triggers
    BY <1>5 DEF CallScene, OpTyped, TablesTyped, Operations
  <2>2. ASSUME pending[s] # <<>> PROVE [cells EXCEPT ![<<s, "act">>] = pending[s][Len(pending[s])].v] \in Table
    <3>1. pending[s][Len(pending[s])].v \in Nat
      <4>1. Len(pending[s]) \in 1..Len(pending[s])
        BY <2>1, <2>2 DEF Triggers
      <4>2. pending[s][Len(pending[s])] \in Trigger
        <5>1. ASSUME NEW q \in Triggers, NEW i \in 1..Len(q) PROVE q[i] \in Trigger
          BY DEF Triggers
        <5> QED
          BY <2>1, <4>1, <5>1
      <4> QED
        BY <4>2 DEF Trigger
    <3> QED
      BY <3>1 DEF TablesTyped, Table
  <2>3. op' \in Operations /\ op'.todo = op.todo /\ op'.call = s /\ op'.kind = op.kind
    BY <1>5, <2>1, <2>2 DEF CallScene, Operations, TablesTyped
  <2>4. OpTyped'
    BY <1>5, <2>1, <2>3 DEF CallScene, OpTyped
  <2>5. pending' \in [Scenes -> Triggers]
    <3>1. <<>> \in Triggers
      BY DEF Triggers
    <3> QED
      BY <1>5, <3>1 DEF CallScene, TablesTyped
  <2>6. session # "none"
    BY <2>1 DEF Fresh, Idle
  <2>7. UNCHANGED <<session, conf, clock, status, cells, stack, last, pods, pool, closed, collecting, store, seenAt, path, epoch>>
    BY <1>5 DEF CallScene, podVars, history
  <2> QED
    BY <2>4, <2>5, <2>6, <2>7 DEF SessionTyped, TablesTyped, StackTyped, PodsTyped, Fresh, Mode
<1>6. ASSUME NEW s \in Scenes, SceneReturns(s) PROVE Typed'
  <2> DEFINE v == op.copy[<<s, "act">>]
             stepped == [cells EXCEPT ![<<s, "step">>] = op.copy[<<s, "step">>] + 1, ![<<s, "act">>] = v]
  <2>1. op \in Operations /\ op.copy \in Table /\ s # NoScene /\ op.call = s /\ cells \in Table
    BY <1>6, SessionAssumption DEF SceneReturns, OpTyped, Operations, TablesTyped
  <2>2. v \in Nat /\ stepped \in Table
    BY <2>1, SceneCells DEF Table
  <2>3. cells' \in Table /\ pending' \in [Scenes -> Triggers]
    <3>1. pending \in [Scenes -> Triggers]
      BY DEF TablesTyped
    <3> HIDE DEF v, stepped
    <3>2. Published(stepped, s, v) \in Table /\ Told(s, v) \in [Scenes -> Triggers]
      BY <2>2, PublishedTyped, ToldTyped
    <3>3. \/ cells' = cells /\ pending' = pending
          \/ cells' = stepped /\ pending' = pending
          \/ cells' = Published(stepped, s, v) /\ pending' = Told(s, v)
      BY <1>6 DEF SceneReturns, v, stepped
    <3> QED
      BY <2>1, <2>2, <3>1, <3>2, <3>3
  <2>4. op' \in Operations /\ op'.todo \subseteq op.todo /\ op'.call = NoScene /\ op'.kind = op.kind
    BY <1>6, <2>1, BlankTyped DEF SceneReturns, Operations
  <2>7. op.kind # "idle"
    BY <2>1 DEF OpTyped, Idle
  <2>5. OpTyped'
    BY <1>6, <2>4, <2>7 DEF SceneReturns, OpTyped
  <2>8. session # "none"
    BY <2>7 DEF Fresh, Idle
  <2>9. UNCHANGED <<session, conf, clock, status, stack, last, pods, pool, closed, collecting, store, seenAt, path, epoch>>
    BY <1>6 DEF SceneReturns, podVars, history
  <2> QED
    BY <2>3, <2>5, <2>8, <2>9 DEF SessionTyped, TablesTyped, StackTyped, PodsTyped, Fresh, Mode
<1>7. CASE EndStep
  <2>1. OpTyped'
    BY <1>7, BlankTyped DEF EndStep, OpTyped, Idle
  <2>2. StackTyped' /\ last' \in Table /\ seenAt' \in [0..MaxTick -> Table] /\ path' \in {"straight", "back", "branched"}
    BY <1>7, RecordTyped DEF EndStep, TablesTyped, StackTyped, SessionTyped
  <2> QED
    BY <1>7, <2>1, <2>2 DEF EndStep, SessionTyped, TablesTyped, PodsTyped, podVars, Fresh, Mode, Idle
<1> QED
  BY <1>2, <1>3, <1>4, <1>5, <1>6, <1>7

\* Failures: the scene is restarted and goes back, or the session is in error.
LEMMA RestartTyped ==
    ASSUME Typed, NEW s \in conf.active, FailsAndRestarts(s)
    PROVE  /\ cells' \in Table /\ status' \in {"running", "paused", "error"}
           /\ pool' \subseteq pods' /\ pods' \subseteq Scenes /\ closed' \subseteq conf.active
<1>1. s \in Scenes
  BY DEF Typed, SessionTyped, Confs
<1>2. RestoredFrom(last) \in Table
  BY RestoredTyped DEF Typed, TablesTyped
<1>3. RestartWorks(s) \/ RestartFails(s)
  BY DEF FailsAndRestarts
<1>4. CASE RestartWorks(s)
  BY <1>1, <1>2, <1>4 DEF RestartWorks, Typed, PodsTyped, SessionTyped
<1>5. CASE RestartFails(s)
  BY <1>1, <1>5 DEF RestartFails, Typed, PodsTyped, TablesTyped
<1> QED
  BY <1>3, <1>4, <1>5

LEMMA FailureTyped ==
    ASSUME Typed, NEW s \in Scenes, SceneFails(s) \/ InteractionFails(s)
    PROVE  Typed'
<1>1. CASE SceneFails(s)
  <2>1. s \in conf.active /\ op # Idle
    BY <1>1, SessionAssumption DEF SceneFails, Typed, OpTyped, Idle
  <2>2. /\ cells' \in Table /\ status' \in {"running", "paused", "error"}
        /\ pool' \subseteq pods' /\ pods' \subseteq Scenes /\ closed' \subseteq conf.active
    <3>1. CASE session = "live"
      BY <1>1, <2>1, <3>1, RestartTyped DEF SceneFails
    <3>2. CASE session # "live"
      BY <1>1, <3>2 DEF SceneFails, podVars, Typed, PodsTyped, SessionTyped, TablesTyped
    <3> QED
      BY <3>1, <3>2
  <2>3. OpTyped'
    BY <1>1, BlankTyped DEF SceneFails, Typed, OpTyped, Idle
  <2> QED
    BY <1>1, <2>1, <2>2, <2>3 DEF SceneFails, Typed, SessionTyped, TablesTyped, StackTyped, PodsTyped, Fresh, Mode
<1>2. CASE InteractionFails(s)
  <2>1. /\ cells' \in Table /\ status' \in {"running", "paused", "error"}
        /\ pool' \subseteq pods' /\ pods' \subseteq Scenes /\ closed' \subseteq conf.active
    BY <1>2, RestartTyped DEF InteractionFails
  <2> QED
    BY <1>2, <2>1 DEF InteractionFails, NoOperation, history, Typed, SessionTyped, TablesTyped, StackTyped, OpTyped, PodsTyped, Fresh, Mode
<1> QED
  BY <1>1, <1>2

\* The commands under the operation lock.
LEMMA CommandTyped ==
    ASSUME Typed, Play \/ Pause \/ Reset \/ StepBack
    PROVE  Typed'
<1>1. CASE Play
  BY <1>1 DEF Play, NoOperation, podVars, history, Typed, SessionTyped, TablesTyped, StackTyped, OpTyped, PodsTyped, Fresh, Mode
<1>2. CASE Pause
  <2>1. [tick |-> clock.tick, cells |-> cells, epoch |-> epoch] \in Stored
    BY DEF Typed, SessionTyped, TablesTyped, Stored
  <2> QED
    BY <1>2, <2>1 DEF Pause, NoOperation, podVars, history, Typed, SessionTyped, TablesTyped, StackTyped, OpTyped, PodsTyped, Fresh, Mode
<1>3. CASE Reset
  <2>1. StackTyped'
    <3>1. <<>> \in Items /\ Len(<<>>) <= MaxItems /\ 0 \in 0..MaxTick
      BY SessionAssumption DEF Items
    <3>2. Blank \in Differences
      BY BlankTyped DEF Differences, Table
    <3>3. SaveItem(<<>>, 0, Blank, Blank) \in Items /\ Len(SaveItem(<<>>, 0, Blank, Blank)) <= MaxItems
      BY <3>1, <3>2, BlankTyped, SaveTyped
    <3> QED
      BY <1>3, <3>3 DEF Reset, StackTyped
  <2>2. TablesTyped'
    <3>1. <<>> \in Triggers
      BY DEF Triggers
    <3> QED
      BY <1>3, <3>1, BlankTyped, SessionAssumption DEF Reset, Typed, TablesTyped
  <2> QED
    BY <1>3, <2>1, <2>2, SessionAssumption DEF Reset, NoOperation, podVars, Typed, SessionTyped, OpTyped, PodsTyped, Fresh, Mode
<1>4. CASE StepBack
  <2>1. clock' \in [tick : 0..MaxTick, running : BOOLEAN] /\ ~clock'.running
    BY <1>4, SessionAssumption DEF StepBack, Typed, SessionTyped
  <2>2. cells' \in Table
    BY <1>4, StepBackTyped DEF StepBack, Typed, TablesTyped, StackTyped
  <2> QED
    BY <1>4, <2>1, <2>2 DEF StepBack, WentBack, NoOperation, podVars, Typed, SessionTyped, TablesTyped, StackTyped, OpTyped, PodsTyped, Fresh, Mode
<1> QED
  BY <1>1, <1>2, <1>3, <1>4

LEMMA InteractionTyped ==
    ASSUME Typed, \/ \E s \in Scenes, v \in Values : SendInteraction(s, v)
                  \/ SwitchCollection
                  \/ \E S \in (SUBSET Scenes) \ {{}}, v \in Values : InjectCollectionEvent(S, v)
                  \/ \E v \in Values : ForceSetLinkState(v)
    PROVE  Typed'
<1>1. CASE \E s \in Scenes, v \in Values : SendInteraction(s, v)
  <2> PICK s \in Scenes, v \in Values : SendInteraction(s, v)
    BY <1>1
  <2>1. v \in Nat /\ TablesTyped /\ StackTyped /\ cells \in Table
    BY SessionAssumption DEF Typed, TablesTyped
  <2>2. [cells EXCEPT ![<<s, "act">>] = v] \in Table
    BY <2>1 DEF Table
  <2>3. cells' \in Table
    BY <2>1, <2>2, PublishedTyped DEF SendInteraction
  <2>4. pending' \in [Scenes -> Triggers]
    BY <2>1, ToldTyped DEF SendInteraction
  <2>5. StackTyped' /\ last' \in Table /\ seenAt' \in [0..MaxTick -> Table] /\ path' \in {"straight", "back", "branched"}
    BY <2>1, <2>3, RecordTyped DEF SendInteraction, Typed, SessionTyped
  <2> QED
    BY <2>3, <2>4, <2>5 DEF SendInteraction, NoOperation, podVars, Typed, SessionTyped, TablesTyped, OpTyped, PodsTyped, Fresh, Mode
<1>2. CASE SwitchCollection
  BY <1>2 DEF SwitchCollection, engineVars, podVars, history, Typed, SessionTyped, TablesTyped, StackTyped, OpTyped, PodsTyped, Fresh, Mode
<1>3. CASE \E S \in (SUBSET Scenes) \ {{}}, v \in Values : InjectCollectionEvent(S, v)
  <2> PICK S \in (SUBSET Scenes) \ {{}}, v \in Values : InjectCollectionEvent(S, v)
    BY <1>3
  <2>1. v \in Nat /\ TablesTyped /\ StackTyped /\ cells \in Table
    BY SessionAssumption DEF Typed, TablesTyped
  <2>2. cells' \in Table
    BY <2>1 DEF InjectCollectionEvent, Table
  <2>3. StackTyped' /\ last' \in Table /\ seenAt' \in [0..MaxTick -> Table] /\ path' \in {"straight", "back", "branched"}
    BY <2>1, <2>2, RecordTyped DEF InjectCollectionEvent, Typed, SessionTyped
  <2> QED
    BY <2>2, <2>3 DEF InjectCollectionEvent, NoOperation, podVars, Typed, SessionTyped, TablesTyped, OpTyped, PodsTyped, Fresh, Mode
<1>4. CASE \E v \in Values : ForceSetLinkState(v)
  <2> PICK v \in Values : ForceSetLinkState(v)
    BY <1>4
  <2>1. v \in Nat
    BY SessionAssumption
  <2>2. cells' \in Table
    BY <2>1 DEF ForceSetLinkState, Typed, TablesTyped, Table
  <2> QED
    BY <2>2 DEF ForceSetLinkState, podVars, history, Typed, SessionTyped, TablesTyped, StackTyped, OpTyped, PodsTyped, Fresh, Mode
<1> QED
  BY <1>1, <1>2, <1>3, <1>4

\* Snapshots in the store, and restoring them beside the operation lock.
LEMMA RestoreTyped ==
    ASSUME Typed, \/ CreateSnapshot \/ (\E snap \in store : RestoreClock(snap))
                  \/ (\E s \in Scenes : RestoreScene(s)) \/ RestoreEnds
    PROVE  Typed'
<1>1. CASE CreateSnapshot
  <2>1. [tick |-> clock.tick, cells |-> cells, epoch |-> epoch] \in Stored
    BY DEF Typed, SessionTyped, TablesTyped, Stored
  <2> QED
    BY <1>1, <2>1 DEF CreateSnapshot, engineVars, podVars, history, Typed, SessionTyped, TablesTyped, StackTyped, OpTyped, PodsTyped, Fresh, Mode
<1>2. CASE \E snap \in store : RestoreClock(snap)
  <2> PICK snap \in store : RestoreClock(snap)
    BY <1>2
  <2>1. snap \in Stored /\ conf.active \in SUBSET Scenes /\ 0 \in 0..MaxTick
    BY SessionAssumption DEF Typed, TablesTyped, SessionTyped, Confs
  <2>2. clock' \in [tick : 0..MaxTick, running : BOOLEAN] /\ ~clock'.running
    BY <2>1 DEF RestoreClock, Stored
  <2>3. restore' \in Restores /\ restore'.todo \subseteq conf.active /\ (restore'.pc = "idle" => restore' = NoRestore)
    BY <2>1, BlankTyped DEF RestoreClock, Stored, Restores, NoRestore
  <2>4. path' \in {"straight", "back", "branched"}
    BY DEF RestoreClock, WentBack, Typed, TablesTyped
  <2> QED
    BY <2>2, <2>3, <2>4 DEF RestoreClock, podVars, Typed, SessionTyped, TablesTyped, StackTyped, OpTyped, PodsTyped, Fresh, Mode
<1>3. CASE \E s \in Scenes : RestoreScene(s)
  <2> PICK s \in Scenes : RestoreScene(s)
    BY <1>3
  <2>1. restore \in Restores
    BY DEF Typed, OpTyped
  <2>2. cells' \in Table
    BY <2>1 DEF RestoreScene, Restores, Typed, TablesTyped, Table
  <2>3. restore' \in Restores /\ restore'.todo \subseteq restore.todo /\ restore'.pc = "scenes"
    BY <2>1 DEF RestoreScene, Restores
  <2>4. session # "none"
    BY DEF RestoreScene, Typed, Fresh, NoRestore
  <2> QED
    BY <2>2, <2>3, <2>4 DEF RestoreScene, podVars, history, Typed, SessionTyped, TablesTyped, StackTyped, OpTyped, PodsTyped, Fresh, Mode
<1>4. CASE RestoreEnds
  <2>1. restore \in Restores /\ cells \in Table /\ last \in Table
    BY DEF Typed, OpTyped, TablesTyped
  <2>2. RestoredFrom(restore.cells) \in Table
    BY <2>1, RestoredTyped DEF Restores
  <2>3. RestoredFrom(restore.cells)[Field] \in Nat
    BY <2>2, SceneCells DEF Table
  <2>4. [cells EXCEPT ![Field] = RestoredFrom(restore.cells)[Field]] \in Table
    BY <2>1, <2>3 DEF Table
  <2>5. cells' \in Table /\ last' \in Table /\ session' \in {"live", "panicked"}
    BY <1>4, <2>1, <2>4 DEF RestoreEnds
  <2> QED
    BY <1>4, <2>5, BlankTyped DEF RestoreEnds, podVars, history, Typed, SessionTyped, TablesTyped, StackTyped, OpTyped, PodsTyped, Fresh, Mode, NoRestore
<1> QED
  BY <1>1, <1>2, <1>3, <1>4

LEMMA NextTyped == Typed /\ [Next]_vars => Typed'
<1> SUFFICES ASSUME Typed, [Next]_vars PROVE Typed'
  OBVIOUS
<1>1. CASE Next
  <2>1. \/ \E start \in Starts : StartSession(start)
        \/ \E undeleted \in SUBSET pods : DestroySession(undeleted)
        \/ Reap
        \/ \/ Step \/ AutoAdvance \/ EndStep
           \/ \E s \in Scenes : TeacherForceStep(s) \/ CallScene(s) \/ SceneReturns(s)
        \/ \E s \in Scenes : SceneFails(s) \/ InteractionFails(s)
        \/ Play \/ Pause \/ Reset \/ StepBack
        \/ \E s \in Scenes, v \in Values : SendInteraction(s, v)
        \/ SwitchCollection
        \/ \E S \in (SUBSET Scenes) \ {{}}, v \in Values : InjectCollectionEvent(S, v)
        \/ \E v \in Values : ForceSetLinkState(v)
        \/ CreateSnapshot \/ (\E snap \in store : RestoreClock(snap))
        \/ (\E s \in Scenes : RestoreScene(s)) \/ RestoreEnds
    BY <1>1, Zenon DEF Next
  <2> QED
    BY <2>1, LifeTyped, StepTyped, FailureTyped, CommandTyped, InteractionTyped, RestoreTyped, Zenon
<1>2. CASE UNCHANGED vars
  BY <1>2 DEF vars, engineVars, podVars, history, Typed, SessionTyped, TablesTyped, StackTyped, OpTyped, PodsTyped, Fresh, Mode
<1> QED
  BY <1>1, <1>2

\* The invariant TypeOK, of every session, for any scenes, starts and bounds: tables hold
\* numbers, the stack keeps to its length, the pool only names Pods that exist, an operation
\* works on active scenes.
THEOREM TypeCorrect == Spec => []TypeOK
<1>1. Typed => TypeOK
  <2> SUFFICES ASSUME Typed PROVE TypeOK
    OBVIOUS
  <2>1. \A i \in DOMAIN stack : stack[i] \in Item
    BY DEF Typed, StackTyped, Items
  <2>2. \A i \in DOMAIN stack : stack[i].tick \in 0..MaxTick /\ stack[i].state \in [Cells -> Nat]
    BY <2>1 DEF Item, Table
  <2> QED
    BY <2>2 DEF Typed, SessionTyped, TablesTyped, StackTyped, OpTyped, PodsTyped, TypeOK, Table
<1> QED
  BY <1>1, InitTyped, NextTyped, PTL DEF Spec

-----------------------------------------------------------------------------
(* Triggers and Pods.                                                      *)

\* What the steps do to the triggers of a link group and to the Pods.
LEMMA StepCases ==
    ASSUME [Next]_vars
    PROVE  \/ \E start \in Starts : StartSession(start)
           \/ (\E undeleted \in SUBSET pods : DestroySession(undeleted)) \/ Reap
           \/ \E kind \in {"step", "auto", "force"}, todo \in SUBSET conf.active : BeginStep(kind, todo)
           \/ \E s \in Scenes : CallScene(s) \/ SceneReturns(s) \/ SceneFails(s)
           \/ EndStep
           \/ Play \/ Pause \/ Reset \/ StepBack
           \/ \E s \in Scenes, v \in Values : SendInteraction(s, v)
           \/ \E s \in Scenes : InteractionFails(s)
           \/ SwitchCollection
           \/ \E S \in (SUBSET Scenes) \ {{}}, v \in Values : InjectCollectionEvent(S, v)
           \/ \E v \in Values : ForceSetLinkState(v)
           \/ CreateSnapshot \/ (\E snap \in store : RestoreClock(snap))
           \/ (\E s \in Scenes : RestoreScene(s)) \/ RestoreEnds
           \/ UNCHANGED vars
<1>1. \/ \E start \in Starts : StartSession(start)
      \/ (\E undeleted \in SUBSET pods : DestroySession(undeleted)) \/ Reap
      \/ Step \/ AutoAdvance \/ (\E s \in Scenes : TeacherForceStep(s))
      \/ \E s \in Scenes : CallScene(s) \/ SceneReturns(s) \/ SceneFails(s)
      \/ EndStep
      \/ Play \/ Pause \/ Reset \/ StepBack
      \/ \E s \in Scenes, v \in Values : SendInteraction(s, v)
      \/ \E s \in Scenes : InteractionFails(s)
      \/ SwitchCollection
      \/ \E S \in (SUBSET Scenes) \ {{}}, v \in Values : InjectCollectionEvent(S, v)
      \/ \E v \in Values : ForceSetLinkState(v)
      \/ CreateSnapshot \/ (\E snap \in store : RestoreClock(snap))
      \/ (\E s \in Scenes : RestoreScene(s)) \/ RestoreEnds
      \/ UNCHANGED vars
  BY Zenon DEF Next
<1>2. ASSUME Step \/ AutoAdvance \/ \E s \in Scenes : TeacherForceStep(s)
      PROVE  \E kind \in {"step", "auto", "force"}, todo \in SUBSET conf.active : BeginStep(kind, todo)
  <2>1. Advancing \in SUBSET conf.active
    BY DEF Advancing
  <2> QED
    BY <1>2, <2>1 DEF Step, AutoAdvance, TeacherForceStep
<1> QED
  BY <1>1, <1>2, Zenon

LEMMA TriggersKept == Typed /\ TriggersOfThisRun /\ [Next]_vars => TriggersOfThisRun'
<1> SUFFICES ASSUME Typed, TriggersOfThisRun, [Next]_vars PROVE TriggersOfThisRun'
  OBVIOUS
<1>0. pending \in [Scenes -> Triggers] /\ epoch \in Nat
  BY DEF Typed, TablesTyped
<1>1. ASSUME UNCHANGED <<pending, epoch>> PROVE TriggersOfThisRun'
  BY <1>1 DEF TriggersOfThisRun
<1>2. ASSUME NEW s \in Scenes, NEW v, pending' = pending \/ pending' = Told(s, v), epoch' = epoch
      PROVE  TriggersOfThisRun'
  <2>1. CASE pending' = pending
    BY <1>1, <1>2, <2>1
  <2>2. CASE pending' = Told(s, v)
    <3>1. ASSUME NEW q \in Triggers, NEW e, \A i \in DOMAIN q : q[i].epoch = e
          PROVE  \A i \in DOMAIN Append(q, [v |-> v, epoch |-> e]) : Append(q, [v |-> v, epoch |-> e])[i].epoch = e
      <4> DEFINE t == [v |-> v, epoch |-> e]
      <4>1. t.epoch = e
        OBVIOUS
      <4> HIDE DEF t
      <4>2. /\ DOMAIN q = 1..Len(q) /\ Len(q) \in Nat
            /\ DOMAIN Append(q, t) = 1..(Len(q) + 1)
            /\ \A i \in 1..Len(q) : Append(q, t)[i] = q[i]
            /\ Append(q, t)[Len(q) + 1] = t
        BY DEF Triggers
      <4>3. \A i \in DOMAIN Append(q, t) : Append(q, t)[i].epoch = e
        BY <3>1, <4>1, <4>2
      <4> QED
        BY <4>3 DEF t
    <3>2. \A m \in Scenes : pending'[m] = pending[m] \/ pending'[m] = Append(pending[m], [v |-> v, epoch |-> epoch])
      BY <1>0, <2>2 DEF Told
    <3>3. ASSUME NEW m \in Scenes PROVE \A i \in DOMAIN pending'[m] : pending'[m][i].epoch = epoch
      <4>1. pending[m] \in Triggers /\ \A i \in DOMAIN pending[m] : pending[m][i].epoch = epoch
        BY <1>0 DEF TriggersOfThisRun
      <4> QED
        BY <3>1, <3>2, <4>1
    <3> QED
      BY <1>2, <3>3 DEF TriggersOfThisRun
  <2> QED
    BY <1>2, <2>1, <2>2
<1>3. ASSUME NEW s \in Scenes, CallScene(s) PROVE TriggersOfThisRun'
  <2>1. epoch' = epoch /\ \A m \in Scenes : pending'[m] = IF m = s THEN <<>> ELSE pending[m]
    BY <1>0, <1>3 DEF CallScene, history
  <2> QED
    BY <2>1 DEF TriggersOfThisRun
<1>4. CASE Reset
  <2>1. \A m \in Scenes : pending'[m] = <<>>
    BY <1>4 DEF Reset
  <2> QED
    BY <2>1 DEF TriggersOfThisRun
<1>5. ASSUME NEW s \in Scenes, SceneReturns(s) PROVE TriggersOfThisRun'
  <2>1. epoch' = epoch /\ (pending' = pending \/ pending' = Told(s, op.copy[<<s, "act">>]))
    BY <1>5 DEF SceneReturns, history
  <2> QED
    BY <1>2, <2>1
<1>6. ASSUME NEW s \in Scenes, NEW v \in Values, SendInteraction(s, v) PROVE TriggersOfThisRun'
  BY <1>2, <1>6 DEF SendInteraction
<1>7. ASSUME \/ \E start \in Starts : StartSession(start)
             \/ (\E undeleted \in SUBSET pods : DestroySession(undeleted)) \/ Reap
             \/ \E kind \in {"step", "auto", "force"}, todo \in SUBSET conf.active : BeginStep(kind, todo)
             \/ \E s \in Scenes : SceneFails(s)
             \/ EndStep \/ Play \/ Pause \/ StepBack
             \/ \E s \in Scenes : InteractionFails(s)
      PROVE  UNCHANGED <<pending, epoch>>
  BY <1>7 DEF StartSession, DestroySession, Reap, BeginStep, SceneFails, EndStep, Play, Pause, StepBack,
              InteractionFails, engineVars, history
<1>8. ASSUME \/ SwitchCollection
             \/ \E S \in (SUBSET Scenes) \ {{}}, v \in Values : InjectCollectionEvent(S, v)
             \/ \E v \in Values : ForceSetLinkState(v)
             \/ CreateSnapshot \/ (\E snap \in store : RestoreClock(snap))
             \/ (\E s \in Scenes : RestoreScene(s)) \/ RestoreEnds
             \/ UNCHANGED vars
      PROVE  UNCHANGED <<pending, epoch>>
  BY <1>8 DEF SwitchCollection, InjectCollectionEvent, ForceSetLinkState, CreateSnapshot, RestoreClock,
              RestoreScene, RestoreEnds, engineVars, history, vars
<1> QED
  BY <1>1, <1>3, <1>4, <1>5, <1>6, <1>7, <1>8, StepCases, Zenon

\* Whatever the teacher, the student and the automatic advance do at once: a reset leaves no
\* trigger of the run before it (resetSession).
THEOREM ResetsClear == Spec => []TriggersOfThisRun
<1>1. Init => TriggersOfThisRun
  BY DEF Init, TriggersOfThisRun
<1> QED
  BY <1>1, InitTyped, NextTyped, TriggersKept, PTL DEF Spec

LEMMA PodsKept == Typed /\ PodsReleased /\ [Next]_vars => PodsReleased'
<1> SUFFICES ASSUME Typed, PodsReleased, [Next]_vars PROVE PodsReleased'
  OBVIOUS
<1>1. ASSUME session' = session, conf' = conf, session # "live" => pool' = pool PROVE PodsReleased'
  BY <1>1 DEF PodsReleased
<1>2. ASSUME NEW start \in Starts, StartSession(start) PROVE PodsReleased'
  BY <1>2 DEF StartSession, PodsReleased
<1>3. ASSUME NEW undeleted \in SUBSET pods, DestroySession(undeleted) PROVE PodsReleased'
  BY <1>3 DEF DestroySession, PodsReleased
<1>4. CASE RestoreEnds
  <2>1. session # "none"
    BY <1>4 DEF RestoreEnds, Typed, Fresh, NoRestore
  <2> QED
    BY <1>4, <2>1 DEF RestoreEnds, PodsReleased, Typed, SessionTyped, podVars
<1>5. ASSUME \/ Reap
             \/ \E kind \in {"step", "auto", "force"}, todo \in SUBSET conf.active : BeginStep(kind, todo)
             \/ \E s \in Scenes : CallScene(s) \/ SceneReturns(s) \/ SceneFails(s)
             \/ EndStep \/ Play \/ Pause \/ Reset \/ StepBack
             \/ \E s \in Scenes, v \in Values : SendInteraction(s, v)
             \/ \E s \in Scenes : InteractionFails(s)
      PROVE  session' = session /\ conf' = conf /\ (session # "live" => pool' = pool)
  BY <1>5 DEF Reap, BeginStep, CallScene, SceneReturns, SceneFails, EndStep, Play, Pause, Reset, StepBack,
              SendInteraction, InteractionFails, NoOperation, engineVars, podVars
<1>6. ASSUME \/ SwitchCollection
             \/ \E S \in (SUBSET Scenes) \ {{}}, v \in Values : InjectCollectionEvent(S, v)
             \/ \E v \in Values : ForceSetLinkState(v)
             \/ CreateSnapshot \/ (\E snap \in store : RestoreClock(snap))
             \/ (\E s \in Scenes : RestoreScene(s))
             \/ UNCHANGED vars
      PROVE  session' = session /\ conf' = conf /\ pool' = pool
  BY <1>6 DEF SwitchCollection, InjectCollectionEvent, ForceSetLinkState, CreateSnapshot, RestoreClock,
              RestoreScene, engineVars, podVars, vars
<1> QED
  BY <1>1, <1>2, <1>3, <1>4, <1>5, <1>6, StepCases, Zenon

\* A destroyed session has no Pod in the pool, although a scene that fails meanwhile would be
\* restarted: what a deletion or a restart left behind is the reaper's.
THEOREM PodsGoBack == Spec => []PodsReleased
<1>1. Init => PodsReleased
  BY DEF Init, PodsReleased
<1> QED
  BY <1>1, InitTyped, NextTyped, PodsKept, PTL DEF Spec

-----------------------------------------------------------------------------
(* Stepping back.                                                          *)

\* Items whose ticks never fall, each with the difference to the one before it.
Chained(items) ==
    \A i \in DOMAIN items :
      /\ items[i].key = (items[i].tick % KeyframeInterval = 0)
      /\ i + 1 \in DOMAIN items =>
           /\ items[i].tick <= items[i + 1].tick
           /\ items[i + 1].diff = BuildDiff(items[i].state, items[i + 1].state)

\* Item m is the last one that was recorded up to a tick.
LastUpTo(items, tick, m) ==
    /\ m \in DOMAIN items /\ items[m].tick <= tick
    /\ \A j \in DOMAIN items : j > m => tick < items[j].tick

\* Two tables that agree about the scenes.
AgreeOn(A, one, other) == \A s \in A, f \in {"step", "act"} : one[<<s, f>>] = other[<<s, f>>]

\* What was seen at a tick is the last thing recorded up to it.
Remembered(A, items, seen, tick) ==
    \A m \in DOMAIN items : LastUpTo(items, tick, m) => AgreeOn(A, seen[tick], items[m].state)

\* A session that may step back.
Alone == session = "live" /\ Cardinality(conf.active) = 1 /\ ~conf.linked /\ Mode = "process"

\* There is one snapshot in the store, of this run or of one before the last reset; while the
\* session goes straight on it is of a tick already reached.
StoreInv ==
    /\ \A a, b \in store : a = b
    /\ \A a \in store : a.epoch <= epoch
    /\ Mode = "process" /\ path # "branched" /\ (path = "straight" \/ op # Idle) =>
         \A a \in store : a.epoch = epoch => a.tick <= clock.tick
\* The stack is a chain up to the state differences are taken against.
ChainInv ==
    /\ path # "branched" => Chained(stack)
    /\ session = "live" /\ path = "straight" =>
         /\ stack # <<>> /\ last = stack[Len(stack)].state /\ stack[Len(stack)].tick <= clock.tick
         /\ restore = NoRestore
\* The ticks that the clock may go back to are remembered; between operations the session
\* shows what it recorded last.
ShownInv ==
    Alone /\ path # "branched" =>
      /\ \A t \in 0..MaxTick : t < clock.tick => Remembered(conf.active, stack, seenAt, t)
      /\ \A a \in store, t \in 0..MaxTick : a.epoch = epoch /\ t < a.tick => Remembered(conf.active, stack, seenAt, t)
      /\ path = "straight" /\ op = Idle => Remembered(conf.active, stack, seenAt, clock.tick)
      /\ path = "straight" /\ (op = Idle \/ op.todo # {}) => AgreeOn(conf.active, cells, last)

ExactInv == StoreInv /\ ChainInv /\ ShownInv

LEMMA ItemsTyped ==
    ASSUME NEW items \in Items
    PROVE  /\ Len(items) \in Nat /\ DOMAIN items = 1..Len(items)
           /\ \A i \in DOMAIN items : items[i] \in Item /\ items[i].tick \in Nat /\ items[i].state \in Table
           /\ items # <<>> => Len(items) \in DOMAIN items
<1>1. Len(items) \in Nat /\ DOMAIN items = 1..Len(items) /\ \A i \in DOMAIN items : items[i] \in Item
  BY DEF Items
<1>2. \A i \in DOMAIN items : items[i].tick \in Nat /\ items[i].state \in Table
  BY <1>1, SessionAssumption DEF Item
<1>3. items # <<>> => Len(items) # 0
  BY DEF Items
<1> QED
  BY <1>1, <1>2, <1>3

\* In a chain the ticks are sorted.
LEMMA Sorted ==
    ASSUME NEW items \in Items, Chained(items)
    PROVE  \A i, j \in DOMAIN items : i <= j => items[i].tick <= items[j].tick
<1> DEFINE S == {d \in Nat : \A i \in DOMAIN items : i + d \in DOMAIN items => items[i].tick <= items[i + d].tick}
<1>1. 0 \in S
  BY ItemsTyped
<1>2. \A d \in S : d + 1 \in S
  <2> SUFFICES ASSUME NEW d \in S, NEW i \in DOMAIN items, i + (d + 1) \in DOMAIN items
               PROVE  items[i].tick <= items[i + (d + 1)].tick
    OBVIOUS
  <2>1. i + d \in DOMAIN items /\ (i + d) + 1 = i + (d + 1) /\ d \in Nat
    <3>1. d \in Nat /\ DOMAIN items = 1..Len(items) /\ Len(items) \in Nat
      BY ItemsTyped
    <3> HIDE DEF S
    <3> QED
      BY <3>1
  <2>2. items[i].tick <= items[i + d].tick
    BY <2>1
  <2>3. items[i + d].tick <= items[(i + d) + 1].tick
    BY <2>1 DEF Chained
  <2>4. items[i].tick \in Nat /\ items[i + d].tick \in Nat /\ items[i + (d + 1)].tick \in Nat
    BY <2>1, ItemsTyped
  <2> QED
    BY <2>1, <2>2, <2>3, <2>4
<1> HIDE DEF S
<1>3. S = Nat
  <2>1. S \subseteq Nat
    BY DEF S
  <2> QED
    BY <1>1, <1>2, <2>1, Induction
<1> SUFFICES ASSUME NEW i \in DOMAIN items, NEW j \in DOMAIN items, i <= j
             PROVE  items[i].tick <= items[j].tick
  OBVIOUS
<1>4. j - i \in Nat /\ i + (j - i) = j
  BY ItemsTyped
<1>5. \A d \in Nat : i + d \in DOMAIN items => items[i].tick <= items[i + d].tick
  BY <1>3 DEF S
<1> QED
  BY <1>4, <1>5

LEMMA MergedBack ==
    ASSUME NEW old \in Table, NEW new \in Table
    PROVE  MergeDiff(old, BuildDiff(old, new)) = new
BY DEF MergeDiff, BuildDiff, Table

\* The nearest keyframe with the differences after it is the last thing recorded up to a tick,
\* whatever was dropped from the other end of the stack.
LEMMA RebuiltExact ==
    ASSUME NEW items \in Items, Chained(items), NEW tick \in Nat, Keyframes(items, tick) # {}
    PROVE  \E m \in DOMAIN items : LastUpTo(items, tick, m) /\ Rebuilt(items, tick) = items[m].state
<1> DEFINE n == Len(items)
           k == Max(Keyframes(items, tick))
           Before == {i \in DOMAIN items : items[i].tick <= tick}
           m == Max(Before)
           D == DiffsAfter(items, items[k].tick, tick)
<1>1. /\ n \in Nat /\ DOMAIN items = 1..n
      /\ \A i \in DOMAIN items : items[i] \in Item /\ items[i].tick \in Nat /\ items[i].state \in Table
  BY ItemsTyped
<1>2. /\ k \in DOMAIN items /\ items[k].key /\ items[k].tick <= tick
      /\ \A i \in Keyframes(items, tick) : i <= k
      /\ NearestKeyframe(items, tick) = items[k]
  BY NearestIsKeyframe
<1> HIDE DEF k
<1>3. m \in Before /\ \A i \in Before : i <= m
  <2>1. Before \in SUBSET (1..n) /\ Before # {}
    BY <1>1, <1>2
  <2> HIDE DEF Before
  <2> QED
    BY <1>1, <2>1, LargestIndex
<1> HIDE DEF m
<1>4. m \in DOMAIN items /\ items[m].tick <= tick /\ \A j \in DOMAIN items : j > m => tick < items[j].tick
  BY <1>1, <1>3
<1>5. k <= m /\ k \in 1..n /\ m \in 1..n
  BY <1>1, <1>2, <1>3
<1>6. \A i \in DOMAIN items : i \in D <=> (k < i /\ i <= m)
  <2> TAKE i \in DOMAIN items
  <2>1. i \in D <=> items[k].tick < items[i].tick /\ items[i].tick <= tick
    BY DEF DiffsAfter
  <2>2. i <= k => items[i].tick <= items[k].tick
    BY <1>2, Sorted
  <2>3. i <= m => items[i].tick <= items[m].tick
    BY <1>4, Sorted
  <2>4. k <= i => items[k].tick <= items[i].tick
    BY <1>2, Sorted
  <2>5. ASSUME items[i].tick = items[k].tick, items[i].tick <= tick PROVE i <= k
    <3>1. items[i].key
      BY <1>2, <2>5 DEF Chained
    <3>2. i \in Keyframes(items, tick)
      BY <2>5, <3>1 DEF Keyframes
    <3> QED
      BY <1>2, <3>2
  <2>6. items[i].tick \in Nat /\ items[k].tick \in Nat /\ items[m].tick \in Nat /\ i \in Nat /\ k \in Nat /\ m \in Nat
    BY <1>1, <1>2, <1>4
  <2>7. i > m => tick < items[i].tick
    BY <1>4
  <2>8. items[m].tick <= tick
    BY <1>4
  <2> QED
    BY <2>1, <2>2, <2>3, <2>4, <2>5, <2>6, <2>7, <2>8
<1> DEFINE merged == Merged(items, D, items[k].state)
<1>7. Rebuilt(items, tick) = merged[n]
  BY <1>2 DEF Rebuilt, Merged
<1>8. /\ merged[0] = items[k].state
      /\ \A i \in DOMAIN items :
           merged[i] = IF i \in D THEN MergeDiff(merged[i - 1], items[i].diff) ELSE merged[i - 1]
  <2>1. D \in SUBSET DOMAIN items /\ items[k].state \in Table
    BY <1>1, <1>2 DEF DiffsAfter
  <2>2. PICK d \in SUBSET DOMAIN items, b \in Table : d = D /\ b = items[k].state
    BY <2>1
  <2>3. PICK f : f = Merged(items, d, b)
    OBVIOUS
  <2>4. /\ f[0] = b
        /\ \A i \in DOMAIN items : f[i] = IF i \in d THEN MergeDiff(f[i - 1], items[i].diff) ELSE f[i - 1]
    BY <2>3, MergedExists
  <2>5. f = merged
    BY <2>2, <2>3
  <2> HIDE DEF merged, D
  <2> QED
    BY <2>2, <2>4, <2>5
<1> HIDE DEF merged, D
<1> DEFINE At(i) == IF i <= k THEN k ELSE IF i <= m THEN i ELSE m
           S == {i \in Nat : i <= n => merged[i] = items[At(i)].state}
<1>9. 0 \in S
  BY <1>1, <1>5, <1>8
<1>10. \A i \in S : i + 1 \in S
  <2> SUFFICES ASSUME NEW i \in S, i + 1 <= n PROVE merged[i + 1] = items[At(i + 1)].state
    OBVIOUS
  <2>1. i \in Nat /\ i + 1 \in DOMAIN items /\ (i + 1) - 1 = i /\ merged[i] = items[At(i)].state /\ k \in Nat /\ m \in Nat
    BY <1>1, <1>5
  <2>2. merged[i + 1] = IF i + 1 \in D THEN MergeDiff(merged[i], items[i + 1].diff) ELSE merged[i]
    BY <1>8, <2>1
  <2>3. CASE k < i + 1 /\ i + 1 <= m
    <3>1. At(i) = i /\ At(i + 1) = i + 1 /\ i \in DOMAIN items
      BY <1>1, <1>5, <2>1, <2>3
    <3>2. i + 1 \in D
      BY <1>6, <2>1, <2>3
    <3>3. items[i + 1].diff = BuildDiff(items[i].state, items[i + 1].state)
      BY <2>1, <3>1 DEF Chained
    <3>4. merged[i + 1] = MergeDiff(items[i].state, BuildDiff(items[i].state, items[i + 1].state))
      BY <2>1, <2>2, <3>1, <3>2, <3>3
    <3>5. items[i].state \in Table /\ items[i + 1].state \in Table
      BY <1>1, <2>1, <3>1
    <3> QED
      BY <3>1, <3>4, <3>5, MergedBack
  <2>4. CASE ~(k < i + 1 /\ i + 1 <= m)
    <3>1. At(i + 1) = At(i)
      BY <1>5, <2>1, <2>4
    <3>2. i + 1 \notin D
      BY <1>6, <2>1, <2>4
    <3> QED
      BY <2>1, <2>2, <3>1, <3>2
  <2> QED
    BY <2>3, <2>4
<1>11. merged[n] = items[m].state
  <2>1. S \subseteq Nat
    OBVIOUS
  <2> HIDE DEF S
  <2>2. S = Nat
    BY <1>9, <1>10, <2>1, Induction
  <2> USE DEF S
  <2>3. n \in S
    BY <1>1, <2>2
  <2>4. At(n) = m
    <3>1. k \in Nat /\ m \in Nat /\ n \in Nat /\ k <= m /\ m <= n
      BY <1>1, <1>5
    <3> HIDE DEF n
    <3> QED
      BY <3>1
  <2> QED
    BY <1>1, <2>3, <2>4
<1> QED
  BY <1>4, <1>7, <1>11 DEF LastUpTo

\* What the stack after a record shows of the ticks before it, the stack before it showed too.
HidesNothing(items, tick, after) ==
    \A t \in Nat : t < tick =>
      \A m \in DOMAIN after : LastUpTo(after, t, m) =>
        \E n \in DOMAIN items : LastUpTo(items, t, n) /\ items[n].state = after[m].state

\* A record of the current tick extends the chain and hides nothing of the ticks before it.
LEMMA RecordExact ==
    ASSUME NEW items \in Items, Chained(items), items # <<>>,
           NEW tick \in 0..MaxTick, items[Len(items)].tick <= tick, NEW state \in Table,
           NEW new, new = SaveItem(items, tick, state, BuildDiff(items[Len(items)].state, state))
    PROVE  /\ Chained(new) /\ new # <<>>
           /\ new[Len(new)].state = state /\ new[Len(new)].tick = tick /\ Len(new) \in DOMAIN new
           /\ HidesNothing(items, tick, new)
<1> DEFINE n == Len(items)
           item == [tick |-> tick, key |-> tick % KeyframeInterval = 0, state |-> state,
                    diff |-> BuildDiff(items[n].state, state)]
           all == Append(items, item)
<1>1. /\ n \in Nat /\ DOMAIN items = 1..n /\ n \in DOMAIN items /\ tick \in Nat
      /\ \A i \in DOMAIN items : items[i] \in Item /\ items[i].tick \in Nat /\ items[i].state \in Table
  BY ItemsTyped, SessionAssumption
<1>2. item \in Item
  BY <1>1, DiffTyped, SessionAssumption DEF Item
<1>3. item.tick = tick /\ item.state = state /\ item.diff = BuildDiff(items[n].state, state) /\ item.key = (tick % KeyframeInterval = 0)
  OBVIOUS
<1> HIDE DEF item
<1>4. /\ all \in Items /\ DOMAIN all = 1..(n + 1) /\ Len(all) = n + 1 /\ all[n + 1] = item
      /\ \A i \in 1..n : all[i] = items[i]
  BY <1>1, <1>2 DEF Items
<1> HIDE DEF all
\* The new stack is the old one with the item, from some place on.
<1>5. PICK d \in {0, 1} : /\ new \in Items /\ Len(new) = n + 1 - d /\ DOMAIN new = 1..(n + 1 - d)
                          /\ \A i \in 1..(n + 1 - d) : new[i] = all[i + d]
  <2>1. new = IF Len(all) > MaxItems THEN Tail(all) ELSE all
    BY DEF SaveItem, all, item
  <2>2. CASE new = all
    <3>1. /\ new \in Items /\ Len(new) = n + 1 - 0 /\ DOMAIN new = 1..(n + 1 - 0)
          /\ \A i \in 1..(n + 1 - 0) : new[i] = all[i + 0]
      BY <1>1, <1>4, <2>2
    <3> QED
      BY <3>1
  <2>3. CASE new = Tail(all)
    <3>1. all # <<>>
      BY <1>1, <1>4
    <3>2. Tail(all) \in Items /\ Len(Tail(all)) = n /\ \A i \in 1..n : Tail(all)[i] = all[i + 1]
      <4>1. ASSUME NEW q \in Items, q # <<>>
            PROVE  Tail(q) \in Items /\ Len(Tail(q)) = Len(q) - 1 /\ \A i \in 1..(Len(q) - 1) : Tail(q)[i] = q[i + 1]
        BY <4>1 DEF Items
      <4>2. Len(all) - 1 = n
        BY <1>1, <1>4
      <4> QED
        BY <1>4, <3>1, <4>1, <4>2
    <3>3. DOMAIN Tail(all) = 1..n
      BY <3>2, ItemsTyped
    <3>4. /\ new \in Items /\ Len(new) = n + 1 - 1 /\ DOMAIN new = 1..(n + 1 - 1)
          /\ \A i \in 1..(n + 1 - 1) : new[i] = all[i + 1]
      <4>1. n + 1 - 1 = n
        BY <1>1
      <4> QED
        BY <2>3, <3>2, <3>3, <4>1
    <3> QED
      BY <3>4
  <2> QED
    BY <2>1, <2>2, <2>3
<1>6. Chained(all)
  <2> SUFFICES ASSUME NEW i \in DOMAIN all
               PROVE  /\ all[i].key = (all[i].tick % KeyframeInterval = 0)
                      /\ i + 1 \in DOMAIN all =>
                           /\ all[i].tick <= all[i + 1].tick
                           /\ all[i + 1].diff = BuildDiff(all[i].state, all[i + 1].state)
    BY DEF Chained
  <2>1. CASE i \in 1..n /\ i + 1 \in 1..n
    BY <1>1, <1>4, <2>1 DEF Chained
  <2>2. CASE i = n
    <3>1. all[i] = items[n] /\ all[i + 1] = item
      BY <1>1, <1>4, <2>2
    <3> QED
      BY <1>1, <1>3, <2>2, <3>1 DEF Chained
  <2>3. CASE i = n + 1
    <3>1. all[i] = item /\ i + 1 \notin DOMAIN all
      BY <1>1, <1>4, <2>3
    <3> QED
      BY <1>3, <3>1
  <2> QED
    BY <1>1, <1>4, <2>1, <2>2, <2>3
<1>7. Chained(new)
  <2> SUFFICES ASSUME NEW i \in DOMAIN new
               PROVE  /\ new[i].key = (new[i].tick % KeyframeInterval = 0)
                      /\ i + 1 \in DOMAIN new =>
                           /\ new[i].tick <= new[i + 1].tick
                           /\ new[i + 1].diff = BuildDiff(new[i].state, new[i + 1].state)
    BY DEF Chained
  <2>1. i + d \in DOMAIN all /\ new[i] = all[i + d]
    BY <1>1, <1>4, <1>5
  <2>2. i + 1 \in DOMAIN new => (i + d) + 1 \in DOMAIN all /\ new[i + 1] = all[(i + d) + 1]
    <3> SUFFICES ASSUME i + 1 \in DOMAIN new PROVE (i + d) + 1 \in DOMAIN all /\ new[i + 1] = all[(i + d) + 1]
      OBVIOUS
    <3>1. (i + d) + 1 = (i + 1) + d
      BY <1>5
    <3> QED
      BY <1>1, <1>4, <1>5, <3>1
  <2> QED
    BY <1>6, <2>1, <2>2 DEF Chained
<1>8. Len(new) \in DOMAIN new /\ new[Len(new)] = item /\ new # <<>>
  <2>1. n + 1 - d \in 1..(n + 1 - d) /\ (n + 1 - d) + d = n + 1
    BY <1>1
  <2>2. Len(new) \in DOMAIN new /\ new[Len(new)] = item
    BY <1>4, <1>5, <2>1
  <2> QED
    BY <2>2
<1>9. ASSUME NEW t \in Nat, t < tick, NEW m \in DOMAIN new, LastUpTo(new, t, m)
      PROVE  m + d \in DOMAIN items /\ LastUpTo(items, t, m + d) /\ items[m + d].state = new[m].state
  <2>1. new[m].tick <= t /\ \A j \in DOMAIN new : j > m => t < new[j].tick
    BY <1>9 DEF LastUpTo
  <2>2. m # Len(new)
    BY <1>1, <1>3, <1>8, <1>9, <2>1
  <2>3. m + d \in 1..n /\ new[m] = items[m + d]
    BY <1>1, <1>4, <1>5, <2>2
  <2>4. ASSUME NEW j \in DOMAIN items, j > m + d PROVE t < items[j].tick
    <3>1. j - d \in DOMAIN new /\ j - d > m /\ (j - d) + d = j /\ j \in 1..n
      BY <1>1, <1>5, <2>3, <2>4
    <3>2. new[j - d] = items[j]
      BY <1>4, <1>5, <3>1
    <3> QED
      BY <2>1, <3>1, <3>2
  <2> QED
    BY <1>1, <2>1, <2>3, <2>4 DEF LastUpTo
<1>10. HidesNothing(items, tick, new)
  BY <1>9 DEF HidesNothing
<1> QED
  BY <1>3, <1>7, <1>8, <1>10

LEMMA StoreKept == Typed /\ StoreInv /\ [Next]_vars => StoreInv'
<1> SUFFICES ASSUME Typed, StoreInv, [Next]_vars PROVE StoreInv'
  OBVIOUS
<1>0. /\ epoch \in Nat /\ clock.tick \in Nat /\ clock \in [tick : 0..MaxTick, running : BOOLEAN]
      /\ \A a \in store : a.epoch \in Nat /\ a.tick \in Nat
      /\ path \in {"straight", "back", "branched"}
  BY SessionAssumption DEF Typed, SessionTyped, TablesTyped, Stored
<1>1. ASSUME UNCHANGED <<store, epoch, conf>>, path' = path \/ path' = "branched",
             path # "straight" /\ op' # Idle => op # Idle, clock'.tick = clock.tick
      PROVE  StoreInv'
  BY <1>1 DEF StoreInv, Mode
<1>2. ASSUME NEW start \in Starts, StartSession(start) PROVE StoreInv'
  <2>1. store = {} /\ store' = {}
    BY <1>2 DEF StartSession, Typed, Fresh
  <2> QED
    BY <2>1 DEF StoreInv
<1>3. ASSUME NEW kind \in {"step", "auto", "force"}, NEW todo \in SUBSET conf.active, BeginStep(kind, todo)
      PROVE  StoreInv'
  <2>1. /\ clock'.tick = clock.tick + 1 /\ UNCHANGED <<store, epoch, conf>>
        /\ path' # "branched" => path = "straight"
    BY <1>0, <1>3 DEF BeginStep, Onward
  <2> QED
    BY <1>0, <2>1 DEF StoreInv, Mode
<1>4. ASSUME NEW s \in Scenes, CallScene(s) \/ SceneReturns(s) PROVE StoreInv'
  <2>1. op.kind # "idle" => op # Idle
    BY DEF Idle
  <2>2. op # Idle
    BY <1>4, <2>1, SessionAssumption DEF CallScene, SceneReturns, Idle
  <2>3. UNCHANGED <<store, epoch, conf, path, clock>>
    BY <1>4 DEF CallScene, SceneReturns, history
  <2> QED
    BY <1>1, <2>2, <2>3
<1>5. ASSUME NEW s \in Scenes, SceneFails(s) \/ InteractionFails(s) PROVE StoreInv'
  <2>1. op' = Idle /\ UNCHANGED <<store, epoch, conf, path, clock>>
    BY <1>5 DEF SceneFails, InteractionFails, history, NoOperation
  <2> QED
    BY <1>1, <2>1
<1>6. CASE EndStep
  <2>1. op' = Idle /\ UNCHANGED <<store, epoch, conf, clock>> /\ (path' = path \/ path' = "branched")
    BY <1>0, <1>6 DEF EndStep, RecordTick, Onward
  <2> QED
    BY <1>1, <2>1
<1>7. CASE Play
  <2>1. clock'.tick = clock.tick /\ UNCHANGED <<store, epoch, conf, path, op>>
    BY <1>0, <1>7 DEF Play, history
  <2> QED
    BY <1>1, <2>1
<1>8. ASSUME Pause \/ CreateSnapshot PROVE StoreInv'
  <2>1. /\ clock'.tick = clock.tick /\ UNCHANGED <<epoch, conf, path, op>>
        /\ store' = store \/ store' = {[tick |-> clock.tick, cells |-> cells, epoch |-> epoch]}
    BY <1>0, <1>8 DEF Pause, CreateSnapshot, history, engineVars
  <2>2. CASE store' = store
    BY <1>1, <2>1, <2>2
  <2>3. CASE store' = {[tick |-> clock.tick, cells |-> cells, epoch |-> epoch]}
    <3>1. \A a \in store' : a = [tick |-> clock.tick, cells |-> cells, epoch |-> epoch] /\ a.tick = clock.tick /\ a.epoch = epoch
      BY <2>3
    <3> QED
      BY <1>0, <2>1, <3>1 DEF StoreInv
  <2> QED
    BY <2>1, <2>2, <2>3
<1>9. CASE Reset
  <2>1. epoch' = epoch + 1 /\ store' = store
    BY <1>9 DEF Reset
  <2>2. \A a \in store : a.epoch # epoch + 1 /\ a.epoch <= epoch + 1
    BY <1>0 DEF StoreInv
  <2> QED
    BY <2>1, <2>2 DEF StoreInv
<1>10. CASE StepBack
  <2>1. op' = Idle /\ path' # "straight" /\ UNCHANGED <<store, epoch>>
    BY <1>0, <1>10 DEF StepBack, WentBack, NoOperation
  <2> QED
    BY <2>1 DEF StoreInv
<1>11. ASSUME NEW s \in Scenes, NEW v \in Values, SendInteraction(s, v) PROVE StoreInv'
  <2>1. op' = op /\ UNCHANGED <<store, epoch, conf, clock>> /\ (path' = path \/ path' = "branched")
    BY <1>0, <1>11 DEF SendInteraction, RecordTick, Onward
  <2> QED
    BY <1>1, <2>1
<1>12. ASSUME NEW S \in (SUBSET Scenes) \ {{}}, NEW v \in Values, InjectCollectionEvent(S, v) PROVE StoreInv'
  <2>1. op' = op /\ UNCHANGED <<store, epoch, conf, clock>> /\ (path' = path \/ path' = "branched")
    BY <1>0, <1>12 DEF InjectCollectionEvent, RecordTick, Onward
  <2> QED
    BY <1>1, <2>1
<1>13. ASSUME NEW snap \in store, RestoreClock(snap) PROVE StoreInv'
  <2>1. UNCHANGED <<store, epoch, conf>> /\ (Mode = "process" => clock'.tick = snap.tick)
    BY <1>13 DEF RestoreClock
  <2>2. \A a \in store : a = snap
    BY DEF StoreInv
  <2> QED
    BY <1>0, <2>1, <2>2 DEF StoreInv, Mode
<1>14. ASSUME \/ (\E undeleted \in SUBSET pods : DestroySession(undeleted)) \/ Reap
              \/ SwitchCollection \/ (\E v \in Values : ForceSetLinkState(v))
              \/ (\E s \in Scenes : RestoreScene(s)) \/ RestoreEnds \/ UNCHANGED vars
       PROVE  StoreInv'
  <2>1. UNCHANGED <<store, epoch, conf, path, op, clock>>
    BY <1>14 DEF DestroySession, Reap, SwitchCollection, ForceSetLinkState, RestoreScene, RestoreEnds,
                 engineVars, history, vars
  <2> QED
    BY <1>1, <2>1
<1> QED
  BY <1>2, <1>3, <1>4, <1>5, <1>6, <1>7, <1>8, <1>9, <1>10, <1>11, <1>12, <1>13, <1>14, StepCases, Zenon

\* A session begins its stack with the table of tick 0, as after a reset.
LEMMA FirstItem ==
    LET first == SaveItem(<<>>, 0, Blank, Blank) IN
    /\ Chained(first) /\ first # <<>> /\ Len(first) = 1 /\ DOMAIN first = {1}
    /\ first[1].state = Blank /\ first[1].tick = 0
<1> DEFINE item == [tick |-> 0, key |-> 0 % KeyframeInterval = 0, state |-> Blank, diff |-> Blank]
<1>1. SaveItem(<<>>, 0, Blank, Blank) = <<item>>
  <2>1. Append(<<>>, item) = <<item>> /\ Len(<<item>>) = 1
    <3> HIDE DEF item
    <3> QED
      OBVIOUS
  <2>2. ~(1 > MaxItems)
    BY SessionAssumption
  <2> QED
    BY <2>1, <2>2 DEF SaveItem
<1>2. item.key = (item.tick % KeyframeInterval = 0) /\ item.state = Blank /\ item.tick = 0
  OBVIOUS
<1> HIDE DEF item
<1>3. Len(<<item>>) = 1 /\ DOMAIN <<item>> = {1} /\ <<item>>[1] = item /\ <<item>> # <<>>
  OBVIOUS
<1>4. Chained(<<item>>)
  BY <1>2, <1>3 DEF Chained
<1> QED
  BY <1>1, <1>2, <1>3, <1>4

LEMMA ChainKept == Typed /\ ChainInv /\ [Next]_vars => ChainInv'
<1> SUFFICES ASSUME Typed, ChainInv, [Next]_vars PROVE ChainInv'
  OBVIOUS
<1>0. /\ clock.tick \in 0..MaxTick /\ clock.tick \in Nat /\ clock \in [tick : 0..MaxTick, running : BOOLEAN]
      /\ path \in {"straight", "back", "branched"} /\ stack \in Items /\ cells \in Table /\ cells' \in Table
  <2>1. Typed'
    BY NextTyped
  <2> QED
    BY <2>1, SessionAssumption DEF Typed, SessionTyped, TablesTyped, StackTyped
<1>1. ASSUME UNCHANGED <<stack, last, path, restore>>, clock'.tick = clock.tick,
             session' = "live" => session = "live"
      PROVE  ChainInv'
  BY <1>1 DEF ChainInv
<1>2. ASSUME NEW start \in Starts, StartSession(start) PROVE ChainInv'
  <2>1. session' = "live" => stack' = SaveItem(<<>>, 0, Blank, Blank) /\ last' = Blank /\ clock'.tick = 0 /\ restore' = NoRestore
    BY <1>2 DEF StartSession, Typed, Fresh
  <2>2. session' # "live" => stack' = <<>>
    BY <1>2 DEF StartSession, Typed, Fresh
  <2>3. Chained(<<>>)
    BY DEF Chained
  <2> QED
    BY <2>1, <2>2, <2>3, FirstItem DEF ChainInv
<1>3. ASSUME NEW kind \in {"step", "auto", "force"}, NEW todo \in SUBSET conf.active, BeginStep(kind, todo)
      PROVE  ChainInv'
  <2>1. /\ clock'.tick = clock.tick + 1 /\ UNCHANGED <<stack, last, restore, session>>
        /\ path' # "branched" => path = "straight"
    BY <1>0, <1>3 DEF BeginStep, Onward
  <2>2. stack # <<>> => stack[Len(stack)].tick \in Nat
    BY <1>0, ItemsTyped
  <2> QED
    BY <1>0, <2>1, <2>2 DEF ChainInv
<1>4. ASSUME session = "live", RecordTick(cells', clock.tick), UNCHANGED <<clock, session, restore>>
      PROVE  ChainInv'
  <2>1. CASE path = "straight"
    <3>1. /\ Chained(stack) /\ stack # <<>> /\ last = stack[Len(stack)].state
          /\ stack[Len(stack)].tick <= clock.tick /\ restore = NoRestore
      BY <1>4, <2>1 DEF ChainInv
    <3>2. stack' = SaveItem(stack, clock.tick, cells', BuildDiff(stack[Len(stack)].state, cells')) /\ last' = cells'
      BY <1>4, <3>1 DEF RecordTick
    <3>3. Chained(stack') /\ stack' # <<>> /\ stack'[Len(stack')].state = cells' /\ stack'[Len(stack')].tick = clock.tick
      BY <1>0, <3>1, <3>2, RecordExact
    <3> QED
      BY <1>0, <1>4, <3>1, <3>2, <3>3 DEF ChainInv
  <2>2. CASE path # "straight"
    BY <1>0, <1>4, <2>2 DEF RecordTick, Onward, ChainInv
  <2> QED
    BY <2>1, <2>2
<1>5. CASE EndStep
  <2>1. CASE session = "live"
    BY <1>4, <1>5, <2>1 DEF EndStep
  <2>2. CASE session # "live"
    BY <1>5, <2>2 DEF EndStep, ChainInv
  <2> QED
    BY <2>1, <2>2
<1>6. ASSUME NEW s \in Scenes, NEW v \in Values, SendInteraction(s, v) PROVE ChainInv'
  BY <1>4, <1>6 DEF SendInteraction, NoOperation
<1>7. ASSUME NEW S \in (SUBSET Scenes) \ {{}}, NEW v \in Values, InjectCollectionEvent(S, v) PROVE ChainInv'
  BY <1>4, <1>7 DEF InjectCollectionEvent, NoOperation
<1>8. CASE Reset
  <2>1. stack' = SaveItem(<<>>, 0, Blank, Blank) /\ last' = Blank /\ clock'.tick = 0 /\ restore' = restore
    BY <1>8 DEF Reset
  <2>2. path' = "straight" => restore = NoRestore
    BY <1>8 DEF Reset
  <2> QED
    BY <2>1, <2>2, FirstItem DEF ChainInv
<1>9. CASE StepBack
  <2>1. UNCHANGED stack /\ path' # "straight" /\ (path' # "branched" => path # "branched")
    BY <1>0, <1>9 DEF StepBack, WentBack
  <2> QED
    BY <2>1 DEF ChainInv
<1>10. ASSUME NEW snap \in store, RestoreClock(snap) PROVE ChainInv'
  <2>1. UNCHANGED stack /\ path' # "straight" /\ (path' # "branched" => path # "branched")
    BY <1>0, <1>10 DEF RestoreClock, WentBack
  <2> QED
    BY <2>1 DEF ChainInv
<1>11. ASSUME (\E s \in Scenes : RestoreScene(s)) \/ RestoreEnds PROVE ChainInv'
  <2>1. restore # NoRestore
    BY <1>11 DEF RestoreScene, RestoreEnds, NoRestore
  <2>2. UNCHANGED <<stack, path>> /\ (session' = "live" => session = "live")
    BY <1>11 DEF RestoreScene, RestoreEnds, history
  <2> QED
    BY <2>1, <2>2 DEF ChainInv
<1>12. ASSUME \/ (\E undeleted \in SUBSET pods : DestroySession(undeleted)) \/ Reap
              \/ \E s \in Scenes : CallScene(s) \/ SceneReturns(s) \/ SceneFails(s) \/ InteractionFails(s)
       PROVE  ChainInv'
  <2>1. UNCHANGED <<stack, last, path, restore, clock>> /\ (session' = "live" => session = "live")
    BY <1>12 DEF DestroySession, Reap, CallScene, SceneReturns, SceneFails, InteractionFails, engineVars, history
  <2> QED
    BY <1>1, <2>1
<1>13. ASSUME \/ Play \/ Pause \/ SwitchCollection \/ (\E v \in Values : ForceSetLinkState(v))
              \/ CreateSnapshot \/ UNCHANGED vars
       PROVE  ChainInv'
  <2>1. UNCHANGED <<stack, last, path, restore, session>> /\ clock'.tick = clock.tick
    BY <1>0, <1>13 DEF Play, Pause, SwitchCollection, ForceSetLinkState, CreateSnapshot, engineVars, history, vars
  <2> QED
    BY <1>1, <2>1
<1> QED
  BY <1>2, <1>3, <1>5, <1>6, <1>7, <1>8, <1>9, <1>10, <1>11, <1>12, <1>13, StepCases, Zenon

\* In a straight session what was recorded last is what the stack has of the current tick.
LEMMA LastIsLatest ==
    ASSUME Typed, ChainInv, session = "live", path = "straight", NEW m \in DOMAIN stack,
           LastUpTo(stack, clock.tick, m)
    PROVE  stack[m].state = last
<1>1. stack # <<>> /\ last = stack[Len(stack)].state /\ stack[Len(stack)].tick <= clock.tick
  BY DEF ChainInv
<1>2. /\ stack \in Items /\ Len(stack) \in DOMAIN stack /\ DOMAIN stack = 1..Len(stack) /\ Len(stack) \in Nat
      /\ stack[Len(stack)].tick \in Nat /\ clock.tick \in Nat
  BY <1>1, ItemsTyped, SessionAssumption DEF Typed, StackTyped, SessionTyped
<1>3. ~(Len(stack) > m)
  BY <1>1, <1>2 DEF LastUpTo
<1> QED
  BY <1>1, <1>2, <1>3

\* At its start and after a reset a session has one item to remember.
LEMMA FirstShown ==
    ASSUME stack' = SaveItem(<<>>, 0, Blank, Blank), last' = Blank, cells' = Blank, clock'.tick = 0,
           seenAt' = [seenAt EXCEPT ![0] = Blank], seenAt \in [0..MaxTick -> Table],
           \A a \in store' : a.epoch # epoch'
    PROVE  ShownInv'
<1>1. DOMAIN stack' = {1} /\ stack'[1].state = Blank /\ seenAt'[0] = Blank
  BY FirstItem, SessionAssumption
<1>2. Remembered(conf'.active, stack', seenAt', 0)
  BY <1>1 DEF Remembered, AgreeOn
<1>3. AgreeOn(conf'.active, cells', last')
  BY DEF AgreeOn
<1>4. \A t \in 0..MaxTick : ~(t < 0)
  BY SessionAssumption
<1> QED
  BY <1>2, <1>3, <1>4 DEF ShownInv

LEMMA ShownKept == Typed /\ ExactInv /\ [Next]_vars => ShownInv'
<1> SUFFICES ASSUME Typed, ExactInv, [Next]_vars PROVE ShownInv'
  OBVIOUS
<1>0. /\ clock.tick \in 0..MaxTick /\ clock.tick \in Nat /\ clock \in [tick : 0..MaxTick, running : BOOLEAN]
      /\ path \in {"straight", "back", "branched"} /\ stack \in Items /\ cells \in Table /\ cells' \in Table
      /\ last \in Table /\ seenAt \in [0..MaxTick -> Table] /\ MaxTick \in Nat /\ epoch \in Nat
      /\ conf.active \in SUBSET Scenes
      /\ \A a \in store : a.epoch \in Nat /\ a.tick \in Nat
  <2>1. Typed'
    BY NextTyped
  <2> QED
    BY <2>1, SessionAssumption DEF Typed, SessionTyped, TablesTyped, StackTyped, Confs, Stored
<1>1. ASSUME NEW t, UNCHANGED <<stack, conf>>, seenAt'[t] = seenAt[t], Remembered(conf.active, stack, seenAt, t) PROVE Remembered(conf'.active, stack', seenAt', t)
  BY <1>1 DEF Remembered
<1>2. ASSUME UNCHANGED <<stack, seenAt, conf, epoch, path, store>>, clock'.tick = clock.tick,
             session' = "live" => session = "live",
             Alone /\ path = "straight" /\ op' = Idle => op = Idle,
             Alone /\ path = "straight" /\ (op' = Idle \/ op'.todo # {}) /\ AgreeOn(conf.active, cells, last) => AgreeOn(conf.active, cells', last'),
             Alone /\ path = "straight" /\ op'.todo # {} => op = Idle \/ op.todo # {}
      PROVE  ShownInv'
  <2> SUFFICES ASSUME Alone', path' # "branched" PROVE
        /\ \A t \in 0..MaxTick : t < clock'.tick => Remembered(conf'.active, stack', seenAt', t)
        /\ \A a \in store', t \in 0..MaxTick : a.epoch = epoch' /\ t < a.tick => Remembered(conf'.active, stack', seenAt', t)
        /\ path' = "straight" /\ op' = Idle => Remembered(conf'.active, stack', seenAt', clock'.tick)
        /\ path' = "straight" /\ (op' = Idle \/ op'.todo # {}) => AgreeOn(conf'.active, cells', last')
    BY DEF ShownInv
  <2>1. Alone /\ path # "branched"
    BY <1>2 DEF Alone, Mode
  <2>2. \A t : Remembered(conf.active, stack, seenAt, t) => Remembered(conf'.active, stack', seenAt', t)
    BY <1>1, <1>2
  <2>3. AgreeOn(conf.active, cells', last') => AgreeOn(conf'.active, cells', last')
    BY <1>2 DEF AgreeOn
  <2> QED
    BY <1>2, <2>1, <2>2, <2>3 DEF ExactInv, ShownInv
<1>3. ASSUME path' = "branched" \/ session' # "live" PROVE ShownInv'
  BY <1>3 DEF ShownInv, Alone
<1>4. ASSUME session = "live", RecordTick(cells', clock.tick), path' # "branched",
             UNCHANGED <<clock, session, conf, epoch, store>>
      PROVE  ShownInv'
  <2>1. path = "straight" /\ path' = "straight"
    BY <1>0, <1>4 DEF RecordTick, Onward
  <2>2. /\ Chained(stack) /\ stack # <<>> /\ last = stack[Len(stack)].state
        /\ stack[Len(stack)].tick <= clock.tick
    BY <1>4, <2>1 DEF ExactInv, ChainInv
  <2>3. /\ stack' = SaveItem(stack, clock.tick, cells', BuildDiff(stack[Len(stack)].state, cells')) /\ last' = cells'
        /\ seenAt' = [seenAt EXCEPT ![clock.tick] = cells']
    BY <1>4, <2>2 DEF RecordTick
  <2>4. PICK new : new = stack'
    OBVIOUS
  <2>5. /\ new[Len(new)].state = cells' /\ new[Len(new)].tick = clock.tick /\ Len(new) \in DOMAIN new
        /\ \A t \in Nat : t < clock.tick =>
             \A m \in DOMAIN new : LastUpTo(new, t, m) =>
               \E n \in DOMAIN stack : LastUpTo(stack, t, n) /\ stack[n].state = new[m].state
    <3>1. HidesNothing(stack, clock.tick, new) /\ new[Len(new)].state = cells' /\ new[Len(new)].tick = clock.tick /\ Len(new) \in DOMAIN new
      BY <1>0, <2>2, <2>3, <2>4, RecordExact
    <3> QED
      BY <3>1 DEF HidesNothing
  <2>6. ASSUME NEW t \in 0..MaxTick, t < clock.tick, Remembered(conf.active, stack, seenAt, t) PROVE Remembered(conf'.active, stack', seenAt', t)
    <3> SUFFICES ASSUME NEW m \in DOMAIN new, LastUpTo(new, t, m)
                 PROVE  \A s \in conf.active, f \in {"step", "act"} : seenAt'[t][<<s, f>>] = new[m].state[<<s, f>>]
      BY <1>4, <2>4 DEF Remembered, AgreeOn, LastUpTo
    <3>1. t \in Nat
      BY <1>0
    <3>2. PICK n \in DOMAIN stack : LastUpTo(stack, t, n) /\ stack[n].state = new[m].state
      BY <2>5, <2>6, <3>1
    <3>3. seenAt'[t] = seenAt[t]
      BY <1>0, <2>3, <2>6
    <3> QED
      BY <2>6, <3>2, <3>3 DEF Remembered, AgreeOn
  <2>7. Remembered(conf'.active, stack', seenAt', clock'.tick)
    <3> SUFFICES ASSUME NEW m \in DOMAIN new, LastUpTo(new, clock.tick, m)
                 PROVE  \A s \in conf.active, f \in {"step", "act"} : seenAt'[clock.tick][<<s, f>>] = new[m].state[<<s, f>>]
      BY <1>4, <2>4 DEF Remembered, AgreeOn, LastUpTo
    <3>1. new \in Items
      <4>1. Typed'
        BY NextTyped
      <4> QED
        BY <2>4, <4>1 DEF Typed, StackTyped
    <3>2. m = Len(new)
      BY <1>0, <2>5, <3>1, ItemsTyped DEF LastUpTo
    <3> QED
      BY <1>0, <2>3, <2>5, <3>2
  <2> SUFFICES ASSUME Alone' PROVE
        /\ \A t \in 0..MaxTick : t < clock'.tick => Remembered(conf'.active, stack', seenAt', t)
        /\ \A a \in store', t \in 0..MaxTick : a.epoch = epoch' /\ t < a.tick => Remembered(conf'.active, stack', seenAt', t)
        /\ Remembered(conf'.active, stack', seenAt', clock'.tick)
        /\ AgreeOn(conf'.active, cells', last')
    BY DEF ShownInv
  <2>8. Alone /\ path # "branched"
    BY <1>4, <2>1 DEF Alone, Mode
  <2>9. \A t \in 0..MaxTick : t < clock.tick => Remembered(conf.active, stack, seenAt, t)
    BY <2>8 DEF ExactInv, ShownInv
  <2>10. \A a \in store : a.epoch = epoch => a.tick <= clock.tick
    BY <2>1, <2>8 DEF ExactInv, StoreInv, Alone
  <2>11. \A a \in store, t \in 0..MaxTick : a.epoch = epoch /\ t < a.tick => t < clock.tick
    BY <1>0, <2>10
  <2>12. \A t \in 0..MaxTick : t < clock.tick => Remembered(conf'.active, stack', seenAt', t)
    BY <2>6, <2>9
  <2>13. AgreeOn(conf'.active, cells', last')
    BY <2>3 DEF AgreeOn
  <2> QED
    BY <1>4, <2>7, <2>11, <2>12, <2>13
<1>5. ASSUME NEW start \in Starts, StartSession(start) PROVE ShownInv'
  <2>1. CASE session' # "live"
    BY <1>3, <2>1
  <2>2. CASE session' = "live"
    <3>1. /\ stack' = SaveItem(<<>>, 0, Blank, Blank) /\ last' = Blank /\ cells' = Blank /\ clock'.tick = 0 /\ store' = {}
          /\ seenAt' = [seenAt EXCEPT ![0] = Blank]
      BY <1>5, <2>2 DEF StartSession, Typed, Fresh
    <3> QED
      BY <1>0, <3>1, FirstShown
  <2> QED
    BY <2>1, <2>2
<1>6. CASE Reset
  <2>1. /\ stack' = SaveItem(<<>>, 0, Blank, Blank) /\ last' = Blank /\ cells' = Blank /\ clock'.tick = 0
        /\ seenAt' = [seenAt EXCEPT ![0] = Blank] /\ store' = store /\ epoch' = epoch + 1
    BY <1>6 DEF Reset
  <2>2. \A a \in store' : a.epoch # epoch'
    BY <1>0, <2>1 DEF ExactInv, StoreInv
  <2> QED
    BY <1>0, <2>1, <2>2, FirstShown
<1>7. ASSUME NEW kind \in {"step", "auto", "force"}, NEW todo \in SUBSET conf.active, BeginStep(kind, todo)
      PROVE  ShownInv'
  <2>1. CASE path' = "branched"
    BY <1>3, <2>1
  <2>2. CASE path' # "branched"
    <3>1. /\ path = "straight" /\ path' = "straight" /\ op = Idle /\ op'.kind = kind /\ clock'.tick = clock.tick + 1
          /\ UNCHANGED <<stack, seenAt, conf, epoch, store, session, cells, last>>
      BY <1>0, <1>7, <2>2 DEF BeginStep, Onward, NoOperation
    <3>2. op' # Idle
      BY <3>1 DEF Idle
    <3> SUFFICES ASSUME Alone' PROVE
          /\ \A t \in 0..MaxTick : t < clock'.tick => Remembered(conf'.active, stack', seenAt', t)
          /\ \A a \in store', t \in 0..MaxTick : a.epoch = epoch' /\ t < a.tick => Remembered(conf'.active, stack', seenAt', t)
          /\ AgreeOn(conf'.active, cells', last')
      BY <3>2 DEF ShownInv, Remembered, AgreeOn
    <3>3. Alone /\ path # "branched"
      BY <3>1 DEF Alone, Mode
    <3>4. \A t : Remembered(conf.active, stack, seenAt, t) => Remembered(conf'.active, stack', seenAt', t)
      BY <1>1, <3>1
    <3>5. \A t \in 0..MaxTick : t < clock.tick + 1 => t < clock.tick \/ t = clock.tick
      BY <1>0
    <3>6. AgreeOn(conf.active, cells, last) => AgreeOn(conf'.active, cells', last')
      BY <3>1 DEF AgreeOn
    <3> QED
      BY <3>1, <3>3, <3>4, <3>5, <3>6 DEF ExactInv, ShownInv
  <2> QED
    BY <2>1, <2>2
<1>8. ASSUME NEW s \in Scenes, CallScene(s) PROVE ShownInv'
  <2>1. op # Idle /\ op'.todo = op.todo /\ op' # Idle
    <3>1. op.kind # "idle" /\ op'.kind = op.kind /\ op'.todo = op.todo
      BY <1>8 DEF CallScene, Typed, OpTyped, Operations
    <3> QED
      BY <3>1 DEF Idle
  <2>2. UNCHANGED <<stack, seenAt, conf, epoch, path, store, clock, session, cells, last>>
    BY <1>8 DEF CallScene, history
  <2> QED
    BY <1>2, <2>1, <2>2
<1>9. ASSUME NEW s \in Scenes, SceneReturns(s) PROVE ShownInv'
  <2>1. op \in Operations /\ s \in op.todo /\ op.todo \subseteq conf.active /\ op.kind # "idle"
    BY <1>9, SessionAssumption DEF SceneReturns, Typed, OpTyped, Idle
  <2>2. op'.todo = op.todo \ {s} /\ op' # Idle
    <3>1. op'.kind # "idle" /\ op'.todo = op.todo \ {s}
      BY <1>9, <2>1 DEF SceneReturns, Operations
    <3> QED
      BY <3>1 DEF Idle
  <2>3. Alone => op'.todo = {}
    <3> SUFFICES ASSUME Alone PROVE op'.todo = {}
      OBVIOUS
    <3>1. IsFiniteSet(conf.active)
      BY <1>0, SessionAssumption, FS_Subset
    <3>2. PICK x : conf.active = {x}
      BY <3>1, OneElement DEF Alone
    <3> QED
      BY <2>1, <2>2, <3>2
  <2>4. UNCHANGED <<stack, seenAt, conf, epoch, path, store, clock, session, last>>
    BY <1>9 DEF SceneReturns, history
  <2> QED
    BY <1>2, <2>2, <2>3, <2>4
<1>10. ASSUME NEW s \in conf.active, FailsAndRestarts(s), AgreeOn(conf.active, cells, last) PROVE AgreeOn(conf.active, cells', last)
  <2>1. cells' = RestoredFrom(last) \/ cells' = cells
    BY <1>10 DEF FailsAndRestarts, RestartWorks, RestartFails
  <2>2. AgreeOn(conf.active, RestoredFrom(last), last)
    BY <1>0, SceneCells DEF RestoredFrom, AgreeOn
  <2> QED
    BY <1>10, <2>1, <2>2
<1>11. ASSUME NEW s \in Scenes, InteractionFails(s) PROVE ShownInv'
  <2>1. s \in conf.active /\ FailsAndRestarts(s) /\ op = Idle /\ op' = Idle /\ Idle.todo = {}
    BY <1>11 DEF InteractionFails, NoOperation, Idle
  <2>2. UNCHANGED <<stack, seenAt, conf, epoch, path, store, clock, session, last>>
    BY <1>11 DEF InteractionFails, history
  <2> QED
    BY <1>2, <1>10, <2>1, <2>2
<1>12. ASSUME NEW s \in Scenes, SceneFails(s) PROVE ShownInv'
  <2>1. CASE session # "live"
    BY <1>3, <1>12, <2>1 DEF SceneFails
  <2>2. CASE session = "live"
    <3>1. /\ op.call = s /\ op' = Idle /\ FailsAndRestarts(s) /\ seenAt' = [seenAt EXCEPT ![clock.tick] = cells']
          /\ UNCHANGED <<session, conf, clock, stack, last, store, path, epoch>>
      BY <1>12, <2>2 DEF SceneFails
    <3>2. s \in op.todo /\ s \in conf.active /\ op # Idle
      BY <3>1, SessionAssumption DEF Typed, OpTyped, Idle
    <3> SUFFICES ASSUME Alone', path' # "branched" PROVE
          /\ \A t \in 0..MaxTick : t < clock'.tick => Remembered(conf'.active, stack', seenAt', t)
          /\ \A a \in store', t \in 0..MaxTick : a.epoch = epoch' /\ t < a.tick => Remembered(conf'.active, stack', seenAt', t)
          /\ path' = "straight" /\ op' = Idle => Remembered(conf'.active, stack', seenAt', clock'.tick)
          /\ path' = "straight" /\ (op' = Idle \/ op'.todo # {}) => AgreeOn(conf'.active, cells', last')
      BY DEF ShownInv
    <3>3. Alone /\ path # "branched" /\ path' = path
      BY <3>1 DEF Alone, Mode
    <3>4. ASSUME NEW t \in 0..MaxTick, t < clock.tick PROVE Remembered(conf'.active, stack', seenAt', t)
      <4>1. seenAt'[t] = seenAt[t]
        BY <1>0, <3>1, <3>4
      <4>2. Remembered(conf.active, stack, seenAt, t)
        BY <3>3, <3>4 DEF ExactInv, ShownInv
      <4> QED
        BY <1>1, <3>1, <4>1, <4>2
    <3>5. \A a \in store : a.epoch = epoch => a.tick <= clock.tick
      BY <3>2, <3>3 DEF ExactInv, StoreInv, Alone
    <3>6. \A a \in store, t \in 0..MaxTick : a.epoch = epoch /\ t < a.tick => t < clock.tick
      BY <1>0, <3>5
    <3>7. ASSUME path = "straight" PROVE AgreeOn(conf'.active, cells', last') /\ Remembered(conf'.active, stack', seenAt', clock'.tick)
      <4>1. AgreeOn(conf.active, cells, last)
        BY <3>2, <3>3, <3>7 DEF ExactInv, ShownInv
      <4>2. AgreeOn(conf.active, cells', last)
        BY <1>10, <3>1, <3>2, <4>1
      <4>3. \A m \in DOMAIN stack : LastUpTo(stack, clock.tick, m) => stack[m].state = last
        BY <2>2, <3>7, LastIsLatest DEF ExactInv
      <4>4. seenAt'[clock.tick] = cells'
        BY <1>0, <3>1
      <4>5. \A m \in DOMAIN stack : LastUpTo(stack, clock.tick, m) => AgreeOn(conf.active, seenAt'[clock.tick], stack[m].state)
        BY <4>2, <4>3, <4>4
      <4>6. Remembered(conf'.active, stack', seenAt', clock'.tick)
        BY <3>1, <4>5 DEF Remembered
      <4>7. AgreeOn(conf'.active, cells', last')
        BY <3>1, <4>2 DEF AgreeOn
      <4> QED
        BY <4>6, <4>7
    <3> QED
      BY <3>1, <3>3, <3>4, <3>6, <3>7
  <2> QED
    BY <2>1, <2>2
<1>13. CASE EndStep
  <2>1. CASE session = "live" /\ path' # "branched"
    BY <1>4, <1>13, <2>1 DEF EndStep
  <2> QED
    BY <1>3, <1>13, <2>1 DEF EndStep
<1>14. ASSUME NEW s \in Scenes, NEW v \in Values, SendInteraction(s, v) PROVE ShownInv'
  <2>1. CASE path' # "branched"
    BY <1>4, <1>14, <2>1 DEF SendInteraction, NoOperation
  <2> QED
    BY <1>3, <2>1
<1>15. ASSUME NEW S \in (SUBSET Scenes) \ {{}}, NEW v \in Values, InjectCollectionEvent(S, v) PROVE ShownInv'
  <2>1. CASE path' # "branched"
    BY <1>4, <1>15, <2>1 DEF InjectCollectionEvent, NoOperation
  <2> QED
    BY <1>3, <2>1
<1>16. ASSUME StepBack \/ \E snap \in store : RestoreClock(snap) PROVE ShownInv'
  <2>1. CASE path' = "branched"
    BY <1>3, <2>1
  <2>2. CASE path' # "branched"
    <3>1. /\ path # "branched" /\ path' # "straight" /\ UNCHANGED <<stack, seenAt, conf, epoch, store, session>>
      BY <1>0, <1>16, <2>2 DEF StepBack, RestoreClock, WentBack
    <3> SUFFICES ASSUME Alone' PROVE
          /\ \A t \in 0..MaxTick : t < clock'.tick => Remembered(conf'.active, stack', seenAt', t)
          /\ \A a \in store', t \in 0..MaxTick : a.epoch = epoch' /\ t < a.tick => Remembered(conf'.active, stack', seenAt', t)
      BY <3>1 DEF ShownInv, Remembered, AgreeOn
    <3>2. Alone
      BY <3>1 DEF Alone, Mode
    <3>3. \A t : Remembered(conf.active, stack, seenAt, t) => Remembered(conf'.active, stack', seenAt', t)
      BY <1>1, <3>1
    <3>4. \/ clock'.tick = clock.tick - 1
          \/ \E snap \in store : clock'.tick = snap.tick /\ snap.epoch = epoch
      BY <1>16, <2>2, <3>2 DEF StepBack, RestoreClock, Alone
    <3>5. ASSUME NEW t \in 0..MaxTick, t < clock'.tick PROVE Remembered(conf.active, stack, seenAt, t)
      <4>1. t < clock.tick \/ \E snap \in store : t < snap.tick /\ snap.epoch = epoch
        BY <1>0, <3>4, <3>5
      <4> QED
        BY <3>1, <3>2, <4>1 DEF ExactInv, ShownInv
    <3>6. \A a \in store, t \in 0..MaxTick : a.epoch = epoch /\ t < a.tick => Remembered(conf.active, stack, seenAt, t)
      BY <3>1, <3>2 DEF ExactInv, ShownInv
    <3> QED
      BY <3>1, <3>3, <3>5, <3>6
  <2> QED
    BY <2>1, <2>2
<1>17. ASSUME Pause \/ CreateSnapshot PROVE ShownInv'
  <2>1. /\ clock'.tick = clock.tick /\ UNCHANGED <<stack, seenAt, conf, epoch, path, session, op, cells, last>>
        /\ store' = store \/ store' = {[tick |-> clock.tick, cells |-> cells, epoch |-> epoch]}
    BY <1>0, <1>17 DEF Pause, CreateSnapshot, history, engineVars
  <2>2. CASE store' = store
    BY <1>2, <2>1, <2>2
  <2>3. CASE store' = {[tick |-> clock.tick, cells |-> cells, epoch |-> epoch]}
    <3> SUFFICES ASSUME Alone', path' # "branched" PROVE
          /\ \A t \in 0..MaxTick : t < clock'.tick => Remembered(conf'.active, stack', seenAt', t)
          /\ \A a \in store', t \in 0..MaxTick : a.epoch = epoch' /\ t < a.tick => Remembered(conf'.active, stack', seenAt', t)
          /\ path' = "straight" /\ op' = Idle => Remembered(conf'.active, stack', seenAt', clock'.tick)
          /\ path' = "straight" /\ (op' = Idle \/ op'.todo # {}) => AgreeOn(conf'.active, cells', last')
      BY DEF ShownInv
    <3>1. Alone /\ path # "branched"
      BY <2>1 DEF Alone, Mode
    <3>2. \A t : Remembered(conf.active, stack, seenAt, t) => Remembered(conf'.active, stack', seenAt', t)
      BY <1>1, <2>1
    <3>3. \A a \in store' : a.tick = clock.tick
      BY <2>3
    <3>4. AgreeOn(conf.active, cells, last) => AgreeOn(conf'.active, cells', last')
      BY <2>1 DEF AgreeOn
    <3> QED
      BY <2>1, <3>1, <3>2, <3>3, <3>4 DEF ExactInv, ShownInv
  <2> QED
    BY <2>1, <2>2, <2>3
<1>18. ASSUME (\E s \in Scenes : RestoreScene(s)) \/ RestoreEnds PROVE ShownInv'
  <2>1. restore # NoRestore
    BY <1>18 DEF RestoreScene, RestoreEnds, NoRestore
  <2>2. UNCHANGED <<stack, seenAt, conf, epoch, path, store, clock>> /\ (session' = "live" => session = "live")
    BY <1>18 DEF RestoreScene, RestoreEnds, history
  <2>3. session = "live" => path # "straight"
    BY <2>1 DEF ExactInv, ChainInv
  <2> QED
    BY <1>2, <2>2, <2>3 DEF Alone
<1>19. ASSUME NEW v \in Values, ForceSetLinkState(v) PROVE ShownInv'
  <2>1. conf.linked /\ conf' = conf
    BY <1>19 DEF ForceSetLinkState
  <2> QED
    BY <2>1 DEF ShownInv, Alone
<1>20. ASSUME (\E undeleted \in SUBSET pods : DestroySession(undeleted)) PROVE ShownInv'
  BY <1>3, <1>20 DEF DestroySession
<1>21. ASSUME Reap \/ Play \/ SwitchCollection \/ UNCHANGED vars PROVE ShownInv'
  <2>1. /\ UNCHANGED <<stack, seenAt, conf, epoch, path, store, session, cells, last, op>> /\ clock'.tick = clock.tick
    BY <1>0, <1>21 DEF Reap, Play, SwitchCollection, vars, engineVars, history
  <2> QED
    BY <1>2, <2>1
<1> QED
  BY <1>5, <1>6, <1>7, <1>8, <1>9, <1>11, <1>12, <1>13, <1>14, <1>15, <1>16, <1>17, <1>18, <1>19, <1>20, <1>21,
     StepCases, Zenon

\* A step back shows the scene as it was seen a tick before, from a stack with keyframes,
\* differences and a limited length, whatever interactions, failed calls and recoveries came
\* before it: the action property StepBackExact, for any intervals and bounds.
THEOREM StepsBackAreExact == Spec => StepBackExact
<1>1. Init => ExactInv
  <2> SUFFICES ASSUME Init PROVE ExactInv
    OBVIOUS
  <2>1. store = {} /\ stack = <<>> /\ session = "none"
    BY DEF Init
  <2>2. StoreInv /\ ChainInv /\ ShownInv
    BY <2>1 DEF StoreInv, ChainInv, ShownInv, Chained, Alone
  <2> QED
    BY <2>2 DEF ExactInv
<1>2. Typed /\ ExactInv /\ [Next]_vars => ExactInv'
  BY StoreKept, ChainKept, ShownKept DEF ExactInv
<1>3. ASSUME Typed, ExactInv, StepBack, path # "branched", Keyframes(stack, clock.tick - 1) # {}
      PROVE  \A s \in conf.active, f \in {"step", "act"} : cells'[<<s, f>>] = seenAt[clock.tick - 1][<<s, f>>]
  <2> DEFINE tick == clock.tick - 1
  <2>1. /\ tick \in Nat /\ tick \in 0..MaxTick /\ tick < clock.tick /\ stack \in Items
        /\ conf.active \in SUBSET Scenes
    BY <1>3, SessionAssumption DEF StepBack, Typed, SessionTyped, StackTyped, Confs
  <2>2. cells' = RestoredFrom(Rebuilt(stack, tick))
    BY <1>3 DEF StepBack
  <2>3. Chained(stack)
    BY <1>3 DEF ExactInv, ChainInv
  <2> HIDE DEF tick
  <2>4. PICK m \in DOMAIN stack : LastUpTo(stack, tick, m) /\ Rebuilt(stack, tick) = stack[m].state
    BY <1>3, <2>1, <2>3, RebuiltExact DEF tick
  <2>5. AgreeOn(conf.active, seenAt[tick], stack[m].state)
    <3>1. Alone
      BY <1>3 DEF StepBack, NoOperation, Alone
    <3>2. Remembered(conf.active, stack, seenAt, tick)
      BY <1>3, <2>1, <3>1 DEF ExactInv, ShownInv
    <3> QED
      BY <2>4, <3>2 DEF Remembered
  <2>6. \A s \in conf.active, f \in {"step", "act"} : RestoredFrom(stack[m].state)[<<s, f>>] = stack[m].state[<<s, f>>]
    BY <2>1, SceneCells DEF RestoredFrom
  <2> QED
    BY <2>2, <2>4, <2>5, <2>6 DEF AgreeOn, tick
<1>4. Typed /\ ExactInv /\ [Next]_vars =>
        [ StepBack /\ path # "branched" /\ Keyframes(stack, clock.tick - 1) # {}
          => \A s \in conf.active, f \in {"step", "act"} :
               cells'[<<s, f>>] = seenAt[clock.tick - 1][<<s, f>>] ]_vars
  BY <1>3
<1> QED
  BY <1>1, <1>2, <1>4, InitTyped, NextTyped, PTL DEF Spec, StepBackExact
=============================================================================
