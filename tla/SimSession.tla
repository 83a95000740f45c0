---------------------------- MODULE SimSession ----------------------------
(***************************************************************************)
(* The session core of the simulation engine (src/sim-engine/core): one    *)
(* student's session, from StartSession to DestroySession, with the Pods   *)
(* of its scenes.                                                          *)
(*                                                                         *)
(* What a session shows is a table of cells: the step counter and the last *)
(* interactive value of every scene, and the one field of the link group   *)
(* the scenes may share.  Time control, interactions and the collector     *)
(* hold the operation lock (op is its holder); restoring a stored snapshot,*)
(* the automatic snapshots, the teacher's writes to the link group and the *)
(* destruction of the session do not, and run between the steps of op.     *)
(*                                                                         *)
(* Scenes are containers: a call may fail, and the engine then restarts    *)
(* the container and goes back to the last recorded tick.                  *)
(***************************************************************************)
EXTENDS Integers, Sequences, FiniteSets, FiniteSetsExt

CONSTANTS
    Scenes,            \* scenes of the request, model values
    Owner,             \* the scene that owns the field of the link group
    Group,             \* stands for the link group in the table of cells
    NoScene,           \* no call is in flight
    Starts,            \* outcomes of a start: [active, kept, linked, modes]
    Values,            \* values an interaction may set
    KeyframeInterval,  \* 50 in the code
    MaxItems,          \* 1000 in the code
    MaxTick,           \* bound: ticks
    MaxFaults,         \* bound: calls that fail
    MaxCommands        \* bound: requests other than stepping

\* What StartSession makes of a request: the scenes that started, those whose Pod stays
\* although they did not, whether a link group is asked for, and the modes of the scenes.
ASSUME SessionAssumption ==
    /\ IsFiniteSet(Scenes) /\ NoScene \notin Scenes /\ Values \subseteq Nat
    /\ Starts \subseteq [active : SUBSET Scenes, kept : SUBSET Scenes, linked : BOOLEAN,
                         modes : [Scenes -> {"process", "continuous", "reactive"}]]
    /\ KeyframeInterval \in Nat \ {0} /\ MaxItems \in Nat \ {0} /\ MaxTick \in Nat
    /\ MaxFaults \in Nat /\ MaxCommands \in Nat

VARIABLES
    session,    \* "none", "live", "gone" or "panicked"
    conf,       \* what StartSession fixed: active scenes, their modes, linkage
    pods,       \* scenes that have a Pod in the cluster
    pool,       \* scenes that have an entry in the orchestrator's pool
    closed,     \* scenes whose client was closed by a restart that failed
    clock,      \* the session's clock
    status,     \* "running", "paused" or "error"
    cells,      \* the state the containers' results left in the engine
    stack,      \* the tick snapshots
    last,       \* lastSnapshotState, the base of the next difference
    pending,    \* pendingLinkTrigs: values a member has not been told
    collecting, \* the collector is running
    store,      \* the latest snapshot in the object store, if any
    op,         \* the operation that holds opMu
    restore,    \* a RestoreSnapshot in progress
    seenAt,     \* history: the cells when the clock last stood at a tick
    path,       \* history: the clock never went back, went back, or left the recorded run
    epoch,      \* history: resets so far
    left        \* what is left of the bounds

engineVars == <<conf, clock, status, cells, stack, last, pending>>
podVars == <<pods, pool, closed>>
history == <<seenAt, path, epoch>>
vars == <<session, engineVars, podVars, collecting, store, op, restore, history, left>>

Field == <<Group, "field">>
Cells == (Scenes \X {"step", "act"}) \union {Field}
Blank == [c \in Cells |-> 0]
Modes == {"process", "continuous", "reactive"}
Idle == [kind |-> "idle", todo |-> {}, call |-> NoScene, copy |-> Blank]
NoRestore == [pc |-> "idle", tick |-> 0, cells |-> Blank, todo |-> {}]

-----------------------------------------------------------------------------
(* Clock, snapshot stack and differences.                                   *)

\* One process scene makes the session's clock a process clock.
ClockMode(ms) ==
    IF "process" \in ms THEN "process"
    ELSE IF "continuous" \in ms THEN "continuous" ELSE "reactive"

Mode == ClockMode({conf.modes[s] : s \in conf.active})

\* stepScenes skips reactive scenes.
Advancing == {s \in conf.active : conf.modes[s] # "reactive"}

\* A link group takes part only when every scene of it has started.
GroupReady == conf.linked /\ conf.active = Scenes

\* The cells that changed, with their new values, and such a difference applied.
BuildDiff(old, new) == [c \in {d \in Cells : old[d] # new[d]} |-> new[c]]
MergeDiff(base, diff) == [c \in Cells |-> IF c \in DOMAIN diff THEN diff[c] ELSE base[c]]

SaveItem_all(items, tick, state, diff) ==  \* mutant: nothing is dropped
    Append(items, [tick |-> tick, key |-> tick % KeyframeInterval = 0, state |-> state, diff |-> diff])

\* Append an item; the oldest one goes when there are more than MaxItems.
SaveItem(items, tick, state, diff) ==
    LET all == Append(items, [tick |-> tick, key |-> tick % KeyframeInterval = 0,
                              state |-> state, diff |-> diff])
    IN  IF Len(all) > MaxItems THEN Tail(all) ELSE all

Keyframes(items, tick) == {i \in DOMAIN items : items[i].key /\ items[i].tick <= tick}
NearestKeyframe(items, tick) == items[Max(Keyframes(items, tick))]

DiffsAfter_before(items, from, to) ==  \* mutant: without the target tick
    {i \in DOMAIN items : from < items[i].tick /\ items[i].tick < to}

\* Which items hold the differences between two ticks.
DiffsAfter(items, from, to) == {i \in DOMAIN items : from < items[i].tick /\ items[i].tick <= to}

\* restoreFromSnapshotStack: the keyframe with the later differences applied in turn.
Rebuilt(items, tick) ==
    LET key == NearestKeyframe(items, tick)
        merged[i \in 0..Len(items)] ==
            IF i = 0 THEN key.state
            ELSE IF i \in DiffsAfter(items, key.tick, tick) THEN MergeDiff(merged[i - 1], items[i].diff)
            ELSE merged[i - 1]
    IN  merged[Len(items)]

-----------------------------------------------------------------------------
(* Shared parts of the operations.                                          *)

\* Take one unit of a bound.
Spend(what) == left[what] > 0 /\ left' = [left EXCEPT ![what] = @ - 1]

NoOperation == session = "live" /\ op = Idle

Onward == path' = IF path = "straight" THEN path ELSE "branched"

\* recordTickSnapshot: an item for the current tick, and the base of the next.
RecordTick(state, tick) ==
    /\ stack' = SaveItem(stack, tick, state, BuildDiff(last, state))
    /\ last' = state
    /\ seenAt' = [seenAt EXCEPT ![tick] = state]
    /\ Onward

WentBack == path' = IF path = "straight" THEN "back" ELSE path

\* restoreTickState writes the scenes, and the link group when it takes part.
RestoredFrom(state) ==
    [c \in Cells |-> IF c = Field /\ ~GroupReady THEN cells[c] ELSE state[c]]

\* applyLinkDiff: the owner's value goes to the group and to the other members.
Published(state, s, v) == IF GroupReady /\ s = Owner THEN [state EXCEPT ![Field] = v] ELSE state
Told(s, v) ==
    IF GroupReady /\ s = Owner
    THEN [m \in Scenes |-> IF m = s THEN pending[m] ELSE Append(pending[m], [v |-> v, epoch |-> epoch])]
    ELSE pending

\* handleSceneRuntimeFailure: Restart evicts the Pod and starts another one;
\* when that works every scene goes back to the last recorded tick.
RestartWorks(s) ==
    /\ pods' = pods \union {s} /\ pool' = pool \union {s} /\ closed' = closed \ {s}
    /\ cells' = RestoredFrom(last)
    /\ UNCHANGED status

RestartFails(s) ==
    /\ status' = "error" /\ closed' = closed \union {s}
    /\ \/ pool' = pool \ {s} /\ UNCHANGED pods                  \* EvictScene fails
       \/ pool' = pool \ {s} /\ pods' = pods \ {s}              \* StartScene fails
       \/ pool' = pool \union {s} /\ pods' = pods \union {s}    \* Meta or Init fails
    /\ UNCHANGED cells

\* A call fails by chance, or because the scene's client is closed.  A fault
\* is a call that fails by chance, or a further restart that fails.
FailsAndRestarts(s) ==
    \/ s \notin closed /\ Spend("faults") /\ (RestartWorks(s) \/ RestartFails(s))
    \/ s \in closed /\ RestartWorks(s) /\ UNCHANGED left
    \/ s \in closed /\ Spend("faults") /\ RestartFails(s)

-----------------------------------------------------------------------------
(* Start and destruction.                                                   *)

Init ==
    /\ session = "none"
    /\ conf = [active |-> {}, linked |-> FALSE, modes |-> [s \in Scenes |-> "process"]]
    /\ pods = {} /\ pool = {} /\ closed = {}
    /\ clock = [tick |-> 0, running |-> FALSE]
    /\ status = "running"
    /\ cells = Blank /\ stack = <<>> /\ last = Blank
    /\ pending = [s \in Scenes |-> <<>>]
    /\ collecting = FALSE
    /\ store = {}
    /\ op = Idle
    /\ restore = NoRestore
    /\ seenAt = [t \in 0..MaxTick |-> Blank]
    /\ path = "straight"
    /\ epoch = 0
    /\ left = [faults |-> MaxFaults, commands |-> MaxCommands]

\* Scenes start in parallel; the session lives when one of them started.  The
\* scenes that failed after their Pod was ready keep it.
StartSession(start) ==
    /\ session = "none"
    /\ conf' = [active |-> start.active, linked |-> start.linked, modes |-> start.modes]
    /\ pods' = start.active \union start.kept /\ pool' = start.active \union start.kept
    /\ IF start.active = {}
       THEN session' = "gone" /\ UNCHANGED <<stack, seenAt>>
       ELSE /\ session' = "live"
            /\ stack' = SaveItem(<<>>, 0, Blank, Blank)
            /\ seenAt' = [seenAt EXCEPT ![0] = Blank]
    /\ UNCHANGED <<closed, clock, status, cells, last, pending, collecting, store,
                   op, restore, path, epoch, left>>

\* DestroySession and TeacherKickStudent do not wait for opMu.  A Pod whose
\* deletion fails is out of the pool and waits for the reaper.
DestroySession(undeleted) ==
    /\ session = "live" /\ Spend("commands")
    /\ undeleted \subseteq pods
    /\ session' = "gone"
    /\ pool' = {}
    /\ pods' = undeleted \union (pods \ pool)
    /\ collecting' = FALSE
    /\ UNCHANGED <<engineVars, closed, store, op, restore, history>>

\* reapOnce: an old Pod that is in no pool is deleted.
Reap ==
    /\ pods \ pool # {}
    /\ pods' = pods \intersect pool
    /\ UNCHANGED <<session, engineVars, pool, closed, collecting, store, op, restore, history, left>>

-----------------------------------------------------------------------------
(* Advancing the clock: "step", the automatic advance, the teacher's step.  *)

BeginStep(kind, todo) ==
    /\ NoOperation /\ clock.tick < MaxTick
    /\ clock' = [clock EXCEPT !.tick = @ + 1]
    /\ op' = [kind |-> kind, todo |-> todo, call |-> NoScene, copy |-> Blank]
    /\ Onward
    /\ UNCHANGED <<session, conf, status, cells, stack, last, pending, podVars,
                   collecting, store, restore, seenAt, epoch, left>>

Step == Mode = "process" /\ BeginStep("step", Advancing)

AutoAdvance == clock.running /\ BeginStep("auto", Advancing)

TeacherForceStep(s) == Mode = "process" /\ s \in conf.active /\ BeginStep("force", {s})

\* The call leaves with a copy of the scene's state and the pending triggers.
CallScene(s) ==
    /\ session # "panicked"
    /\ op.kind \in {"step", "auto", "force"} /\ op.call = NoScene /\ s \in op.todo
    /\ op' = [op EXCEPT !.call = s, !.copy =
                IF pending[s] = <<>> THEN cells
                ELSE [cells EXCEPT ![<<s, "act">>] = pending[s][Len(pending[s])].v]]
    /\ pending' = [pending EXCEPT ![s] = <<>>]
    /\ UNCHANGED <<session, conf, clock, status, cells, stack, last, podVars,
                   collecting, store, restore, history, left>>

\* The result replaces the scene's state, whatever was written to it meanwhile.
\* A step of the owner publishes its value when the group has another one.
SceneReturns(s) ==
    /\ op.call = s /\ s \notin closed
    /\ op' = [op EXCEPT !.call = NoScene, !.todo = @ \ {s}, !.copy = Blank]
    /\ LET v == op.copy[<<s, "act">>]
           stepped == [cells EXCEPT ![<<s, "step">>] = op.copy[<<s, "step">>] + 1,
                                    ![<<s, "act">>] = v]
       IN  IF session # "live" THEN UNCHANGED <<cells, pending>>
           ELSE IF v = cells[Field] THEN cells' = stepped /\ UNCHANGED pending
           ELSE cells' = Published(stepped, s, v) /\ pending' = Told(s, v)
    /\ UNCHANGED <<session, conf, clock, status, stack, last, podVars, collecting,
                   store, restore, history, left>>

SceneFails_late(s) ==  \* mutant: restarts a scene of a destroyed session
    /\ op.call = s
    /\ op' = Idle
    /\ FailsAndRestarts(s)
    /\ seenAt' = [seenAt EXCEPT ![clock.tick] = cells']
    /\ UNCHANGED <<session, conf, clock, stack, last, pending, collecting, store,
                   restore, path, epoch>>

\* A failed call ends the operation: the tick has moved, nothing is recorded.
SceneFails(s) ==
    /\ op.call = s
    /\ op' = Idle
    /\ IF session = "live" THEN FailsAndRestarts(s)
       ELSE Spend("faults") /\ UNCHANGED <<podVars, status, cells>>
    /\ seenAt' = [seenAt EXCEPT ![clock.tick] = cells']
    /\ UNCHANGED <<session, conf, clock, stack, last, pending, collecting, store,
                   restore, path, epoch>>

EndStep ==
    /\ op.kind \in {"step", "auto", "force"} /\ op.todo = {}
    /\ op' = Idle
    /\ IF session = "live" THEN RecordTick(cells, clock.tick) ELSE UNCHANGED <<stack, last, seenAt, path>>
    /\ UNCHANGED <<session, conf, clock, status, cells, pending, podVars, collecting,
                   store, restore, epoch, left>>

-----------------------------------------------------------------------------
(* The other commands under the operation lock.                             *)

\* "play" and "resume" differ in the mode of the clock they need.
Play ==
    /\ NoOperation /\ Mode \in {"process", "continuous"} /\ Spend("commands")
    /\ clock' = [clock EXCEPT !.running = TRUE]
    /\ status' = "running"
    /\ UNCHANGED <<session, conf, cells, stack, last, pending, podVars, collecting,
                   store, op, restore, history>>

\* The pause stops the clock and then stores a snapshot: when that fails the
\* status still says running.
Pause ==
    /\ NoOperation /\ Mode \in {"process", "continuous"} /\ Spend("commands")
    /\ clock' = [clock EXCEPT !.running = FALSE]
    /\ \/ status' = "paused" /\ store' = {[tick |-> clock.tick, cells |-> cells, epoch |-> epoch]}
       \/ UNCHANGED <<status, store>>
    /\ UNCHANGED <<session, conf, cells, stack, last, pending, podVars, collecting,
                   op, restore, history>>

Reset_triggers ==  \* mutant: pending triggers are kept
    /\ NoOperation /\ Spend("commands")
    /\ cells' = Blank
    /\ clock' = [tick |-> 0, running |-> FALSE]
    /\ last' = Blank
    /\ stack' = SaveItem(<<>>, 0, Blank, Blank)
    /\ seenAt' = [seenAt EXCEPT ![0] = Blank]
    /\ path' = (IF restore = NoRestore THEN "straight" ELSE "branched") /\ epoch' = epoch + 1
    /\ UNCHANGED <<session, conf, status, pending, podVars, collecting, store, op, restore>>

\* resetSession.
Reset ==
    /\ NoOperation /\ Spend("commands")
    /\ cells' = Blank
    /\ clock' = [tick |-> 0, running |-> FALSE]
    /\ last' = Blank
    /\ stack' = SaveItem(<<>>, 0, Blank, Blank)
    /\ pending' = [s \in Scenes |-> <<>>]
    /\ seenAt' = [seenAt EXCEPT ![0] = Blank]
    /\ path' = (IF restore = NoRestore THEN "straight" ELSE "branched") /\ epoch' = epoch + 1
    /\ UNCHANGED <<session, conf, status, podVars, collecting, store, op, restore>>

\* stepBackOnce: the clock moves first; without a keyframe the rest is an error.
StepBack ==
    /\ NoOperation /\ Cardinality(conf.active) = 1 /\ ~conf.linked /\ ~collecting
    /\ Mode = "process" /\ clock.tick > 0 /\ Spend("commands")
    /\ clock' = [tick |-> clock.tick - 1, running |-> FALSE]
    /\ cells' = IF Keyframes(stack, clock.tick - 1) = {} THEN cells
                ELSE RestoredFrom(Rebuilt(stack, clock.tick - 1))
    /\ WentBack
    /\ UNCHANGED <<session, conf, status, stack, last, pending, podVars, collecting,
                   store, op, restore, seenAt, epoch>>

\* SendInteraction: a value is set in scene s, and published when s owns the field.
SendInteraction(s, v) ==
    /\ NoOperation /\ s \in conf.active \ closed /\ Spend("commands")
    /\ cells' = Published([cells EXCEPT ![<<s, "act">>] = v], s, v)
    /\ pending' = Told(s, v)
    /\ RecordTick(cells', clock.tick)
    /\ UNCHANGED <<session, conf, clock, status, podVars, collecting, store, op,
                   restore, epoch>>

InteractionFails(s) ==
    /\ NoOperation /\ s \in conf.active
    /\ FailsAndRestarts(s)
    /\ UNCHANGED <<session, conf, clock, stack, last, pending, collecting, store, op,
                   restore, history>>

\* StartDataCollection and StopDataCollection take no operation lock.
SwitchCollection ==
    /\ session = "live" /\ Spend("commands")
    /\ collecting' = ~collecting
    /\ UNCHANGED <<session, engineVars, podVars, store, op, restore, history>>

\* InjectCollectionEvent patches the scenes the event is routed to.
InjectCollectionEvent(S, v) ==
    /\ NoOperation /\ collecting /\ S \subseteq conf.active /\ Spend("commands")
    /\ cells' = [c \in Cells |-> IF c[2] = "act" /\ c[1] \in S THEN v ELSE cells[c]]
    /\ RecordTick(cells', clock.tick)
    /\ UNCHANGED <<session, conf, clock, status, pending, podVars, collecting, store,
                   op, restore, epoch>>

-----------------------------------------------------------------------------
(* What runs beside the operation lock.                                     *)

\* CreateSnapshot of the automatic loop and of the backend.
CreateSnapshot ==
    /\ session = "live" /\ Spend("commands")
    /\ store' = {[tick |-> clock.tick, cells |-> cells, epoch |-> epoch]}
    /\ UNCHANGED <<session, engineVars, podVars, collecting, op, restore, history>>

\* RestoreSnapshot: the clock is reset and stepped to the tick of the snapshot,
\* which only a process clock allows; then scene after scene is written.
RestoreClock(snap) ==
    /\ session = "live" /\ restore = NoRestore /\ Spend("commands")
    /\ LET ok == Mode = "process" \/ snap.tick = 0
       IN  /\ clock' = [tick |-> IF ok THEN snap.tick ELSE 0, running |-> FALSE]
           /\ restore' = IF ok THEN [pc |-> "scenes", tick |-> snap.tick, cells |-> snap.cells,
                                     todo |-> conf.active]
                         ELSE NoRestore
    /\ IF snap.epoch = epoch THEN WentBack ELSE path' = "branched"
    /\ UNCHANGED <<session, conf, status, cells, stack, last, pending, podVars,
                   collecting, store, op, seenAt, epoch>>

RestoreScene(s) ==
    /\ restore.pc = "scenes" /\ s \in restore.todo
    /\ restore' = [restore EXCEPT !.todo = @ \ {s}]
    /\ cells' = IF session # "live" THEN cells
                ELSE [c \in Cells |-> IF c[1] = s THEN restore.cells[c] ELSE cells[c]]
    /\ UNCHANGED <<session, conf, clock, status, stack, last, pending, podVars,
                   collecting, store, op, history, left>>

\* The end writes to the session's runtime without asking whether it is there.
RestoreEnds ==
    /\ restore.pc = "scenes" /\ restore.todo = {}
    /\ restore' = NoRestore
    /\ IF session = "live"
       THEN /\ cells' = [cells EXCEPT ![Field] = RestoredFrom(restore.cells)[Field]]
            /\ last' = cells' /\ UNCHANGED session
       ELSE session' = "panicked" /\ UNCHANGED <<cells, last>>
    /\ UNCHANGED <<conf, clock, status, stack, pending, podVars, collecting, store,
                   op, history, left>>

\* ForceSetLinkState: the teacher overwrites the field of the group.
ForceSetLinkState(v) ==
    /\ session = "live" /\ conf.linked /\ Spend("commands")
    /\ cells' = [cells EXCEPT ![Field] = v]
    /\ UNCHANGED <<session, conf, clock, status, stack, last, pending, podVars,
                   collecting, store, op, restore, history>>

Next ==
    \/ \E start \in Starts : StartSession(start)
    \/ \E undeleted \in SUBSET pods : DestroySession(undeleted)
    \/ Reap
    \/ Step \/ AutoAdvance \/ EndStep
    \/ \E s \in Scenes :
         \/ TeacherForceStep(s) \/ CallScene(s) \/ SceneReturns(s) \/ SceneFails(s)
         \/ InteractionFails(s) \/ RestoreScene(s)
         \/ \E v \in Values : SendInteraction(s, v)
    \/ Play \/ Pause \/ Reset \/ StepBack
    \/ SwitchCollection \/ CreateSnapshot
    \/ \E S \in (SUBSET Scenes) \ {{}}, v \in Values : InjectCollectionEvent(S, v)
    \/ \E snap \in store : RestoreClock(snap)
    \/ RestoreEnds
    \/ \E v \in Values : ForceSetLinkState(v)

Spec == Init /\ [][Next]_vars

-----------------------------------------------------------------------------
(* Properties.                                                              *)

\* Every variable has its type, and the pool only names Pods that exist.
TypeOK ==
    /\ session \in {"none", "live", "gone", "panicked"}
    /\ status \in {"running", "paused", "error"}
    /\ clock \in [tick : 0..MaxTick, running : BOOLEAN]
    /\ cells \in [Cells -> Nat] /\ last \in [Cells -> Nat]
    /\ pool \subseteq pods /\ pods \subseteq Scenes /\ closed \subseteq conf.active
    /\ \A i \in DOMAIN stack : stack[i].tick \in 0..MaxTick /\ stack[i].state \in [Cells -> Nat]
    /\ Len(stack) <= MaxItems
    /\ op.todo \subseteq conf.active /\ op.call \in conf.active \union {NoScene}
    /\ clock.running => Mode # "reactive"

\* Stepping back shows the student what the scene showed at the tick before,
\* interactions and recoveries of that tick included, as long as nothing was
\* recorded since the clock last went back, and no snapshot from before a reset was
\* restored after it or while it ran: then the stack is of another run (stepBackOnce and
\* the snapshot stack with its keyframes, differences and limited length).
StepBackExact ==
    [][ StepBack /\ path # "branched" /\ Keyframes(stack, clock.tick - 1) # {}
        => \A s \in conf.active, f \in {"step", "act"} :
             cells'[<<s, f>>] = seenAt[clock.tick - 1][<<s, f>>] ]_vars

\* A reset leaves nothing of the run before it: no member of a link group is
\* told a value that was published before the reset (resetSession).
TriggersOfThisRun ==
    \A s \in Scenes : \A i \in DOMAIN pending[s] : pending[s][i].epoch = epoch

\* A session that started gives its Pods back: once it is destroyed none of
\* them is in the pool, so that the reaper takes those whose deletion failed or
\* whose restart was cut short (DestroySession, EvictScene and reapOnce).
PodsReleased == session \in {"gone", "panicked"} /\ conf.active # {} => pool = {}

-----------------------------------------------------------------------------
\* The starts that differ, for TLC: the owner's scene alone, the other one's Pod kept; a
\* link group; scenes of different modes; and no scene at all.
Alike == [s \in Scenes |-> "process"]
MCStarts ==
    { [active |-> {Owner}, kept |-> Scenes \ {Owner}, linked |-> FALSE, modes |-> Alike],
      [active |-> Scenes, kept |-> {}, linked |-> TRUE, modes |-> Alike],
      [active |-> Scenes, kept |-> {}, linked |-> FALSE,
       modes |-> [s \in Scenes |-> IF s = Owner THEN "continuous" ELSE "reactive"]],
      [active |-> {}, kept |-> Scenes \ {Owner}, linked |-> FALSE, modes |-> Alike] }
=============================================================================
