----------------------------- MODULE ExpLifecycle -----------------------------
(***************************************************************************)
(* What the lifecycle of an experiment instance promises a student: the    *)
(* diagram of docs/modules/04, section 7 (created, running, paused,        *)
(* submitted, expired, failed, destroyed), with the queue in front of it   *)
(* and the restore from a snapshot.  Each step is atomic here; a start     *)
(* succeeds only in an environment that is up.                             *)
(***************************************************************************)
CONSTANT Insts
VARIABLES phase,  \* what the student is shown
          up      \* the instance's pods are deployed

vars == <<phase, up>>

Phases == {"none", "queued", "starting", "running", "paused", "completed",
           "expired", "error", "destroyed"}

TypeOK == phase \in [Insts -> Phases] /\ up \in [Insts -> BOOLEAN]

Init == /\ phase = [i \in Insts |-> "none"]
        /\ up = [i \in Insts |-> FALSE]

Move(i, from, to) == /\ phase[i] \in from
                     /\ phase' = [phase EXCEPT ![i] = to]
                     /\ UNCHANGED up

Insert(i)   == Move(i, {"none"}, "starting") \/ Move(i, {"none"}, "queued")
Start(i)    == up[i] /\ Move(i, {"starting"}, "running")
Fail(i)     == Move(i, {"starting", "running"}, "error")
Pause(i)    == Move(i, {"running"}, "paused")
Submit(i)   == Move(i, {"running"}, "completed")
Expire(i)   == Move(i, {"starting", "running", "paused", "completed"}, "expired")
Destroy(i)  == Move(i, Phases \ {"none"}, "destroyed")
Rebuild(i)  == Move(i, Phases \ {"none"}, "starting")  \* resume, restore, heal

(* Pods come up only while the instance starts; they may go at any time.   *)
Deploy(i)   == /\ phase[i] = "starting" /\ ~up[i]
               /\ up' = [up EXCEPT ![i] = TRUE]
               /\ UNCHANGED phase
TearDown(i) == /\ up[i]
               /\ up' = [up EXCEPT ![i] = FALSE]
               /\ UNCHANGED phase

(* A step changes one instance, and changes it.                            *)
Next == \E i \in Insts :
       /\ <<phase[i], up[i]>>' # <<phase[i], up[i]>>
       /\ \/ Insert(i) \/ Start(i) \/ Fail(i) \/ Pause(i) \/ Submit(i)
          \/ Expire(i) \/ Destroy(i) \/ Rebuild(i) \/ Deploy(i) \/ TearDown(i)

Spec == Init /\ [][Next]_vars
=============================================================================
