--------------------------- MODULE ServicesProofs ---------------------------
(***************************************************************************)
(* Proofs about the environments, the grades, the challenges and the       *)
(* accounts.  Each service has an invariant of its own; a step of the      *)
(* whole is a step of the one that runs.                                   *)
(***************************************************************************)
EXTENDS Services, Recursion, FiniteSetTheorems, SequenceTheorems, TLAPS

allVars == <<part, thr, left, accVars, lrnVars, teamVars, envVars, groupVars, chalVars, tplVars>>

\* The instances of the components share the operators of the standard modules.
LEMMA SameCardinality ==
    \A S : /\ Env!Cardinality(S) = Cardinality(S) /\ Tms!Cardinality(S) = Cardinality(S)
           /\ Acc!Cardinality(S) = Cardinality(S) /\ Lrn!Cardinality(S) = Cardinality(S)
           /\ Grp!Cardinality(S) = Cardinality(S) /\ Chl!Cardinality(S) = Cardinality(S)
           /\ Tpl!Cardinality(S) = Cardinality(S)
BY DEF Cardinality, Env!Cardinality, Tms!Cardinality, Acc!Cardinality, Lrn!Cardinality,
       Grp!Cardinality, Chl!Cardinality, Tpl!Cardinality

\* A step of the whole: the services stay the ones they were.
LEMMA PartStays == [Next]_allVars => part' = part
BY DEF Next, allVars

-----------------------------------------------------------------------------
(* The challenge environments.                                             *)

EnvStatuses == {"creating", "running", "error", "destroyed"}
EnvRow == [slot : Slots, status : EnvStatuses]
EnvRows == Seq(EnvRow)
Written(R, k, s, Q) == Q = [R EXCEPT ![k].status = s]
Live(R) == {k \in DOMAIN R : R[k].status # "destroyed"}
Working == {"clear", "create", "deploy", "apply", "undo", "error"}

\* What the record of a handler holds.
EnvTyped(r) ==
    /\ r.at = "insert" => r.slot \in Slots
    /\ r.at \in {"kill", "mark"} => r.then \in {"idle", "terminate"}

\* What the one handler at work knows.
EnvAlone(t) ==
    /\ thr[t].at \in Working \union {"reset"} => thr[t].k \in Live(envs)
    /\ thr[t].at \in Working => envs[thr[t].k].status = "creating"
    /\ thr[t].at = "apply" => ns[envs[thr[t].k].slot] = "up"
    /\ thr[t].at \in {"kill", "mark"} =>
         /\ thr[t].todo # {} /\ thr[t].todo \subseteq Live(envs)
         /\ thr[t].then \in {"idle", "terminate"}
         /\ thr[t].then = "terminate" => thr[t].todo = Live(envs)
    /\ thr[t].at = "terminate" => Live(envs) = {}
    /\ ~failed => count = Cardinality(Live(envs))
    /\ \A k \in DOMAIN envs :
         envs[k].status = "running" =>
            ns[envs[k].slot] = "up" \/ (thr[t].at = "mark" /\ k = Env!Newest(thr[t].todo))

\* The rows are distinct while they are not destroyed, the counter holds no place too
\* many, and what one handler alone knows is true.
EnvInv ==
    /\ ended \in BOOLEAN /\ failed \in BOOLEAN /\ count \in Nat
    /\ ns \in [Slots -> {"none", "up", "terminating"}]
    /\ envs \in EnvRows
    /\ thr = [t \in DOMAIN thr |-> thr[t]] /\ IsFiniteSet(DOMAIN thr)
    /\ \A t \in DOMAIN thr : EnvTyped(thr[t])
    /\ \A j, k \in Live(envs) : envs[j].slot = envs[k].slot => j = k
    /\ ~ended => count <= Cardinality(Live(envs))
    /\ \A t : DOMAIN thr = {t} => EnvAlone(t)

LEMMA RowTyped ==
    ASSUME NEW R \in EnvRows, NEW j \in DOMAIN R
    PROVE  R[j] \in EnvRow /\ R[j].slot \in Slots /\ R[j].status \in EnvStatuses
<1>1. R[j] \in EnvRow
  BY DEF EnvRows
<1> QED
  BY <1>1 DEF EnvRow

LEMMA LiveFinite ==
    ASSUME NEW R \in EnvRows
    PROVE  /\ IsFiniteSet(Live(R)) /\ Cardinality(Live(R)) \in Nat
           /\ Live(R) \subseteq 1 .. Len(R) /\ Len(R) \in Nat /\ DOMAIN R = 1 .. Len(R)
<1>1. Len(R) \in Nat /\ DOMAIN R = 1 .. Len(R)
  BY DEF EnvRows
<1>2. IsFiniteSet(1 .. Len(R))
  BY <1>1, FS_Interval
<1>3. Live(R) \subseteq 1 .. Len(R)
  BY <1>1 DEF Live
<1> QED
  BY <1>1, <1>2, <1>3, FS_Subset, FS_CardinalityType

\* What an UPDATE of the status of one row does to the rows that are not destroyed.
LEMMA RowWritten ==
    ASSUME NEW R \in EnvRows, NEW k,
           NEW s \in EnvStatuses, NEW Q,
           Written(R, k, s, Q)
    PROVE  /\ Q \in EnvRows /\ DOMAIN Q = DOMAIN R
           /\ \A j \in DOMAIN R : /\ Q[j].slot = R[j].slot
                                  /\ j # k => Q[j].status = R[j].status
                                  /\ j = k => Q[j].status = s
           /\ s = "destroyed" => Live(Q) = Live(R) \ {k}
           /\ s # "destroyed" => Live(Q) = Live(R) \union ({k} \intersect DOMAIN R)
<1> USE DEF EnvRows, Written
<1>1. DOMAIN Q = DOMAIN R
  OBVIOUS
<1>2. \A j \in DOMAIN R : R[j] \in EnvRow
  OBVIOUS
<1>3. ASSUME NEW j \in DOMAIN R
      PROVE  /\ Q[j] \in EnvRow /\ Q[j].slot = R[j].slot
             /\ j # k => Q[j].status = R[j].status
             /\ j = k => Q[j].status = s
  BY <1>2, <1>3 DEF EnvRow
<1>4. Q \in EnvRows
  <2>1. Q = [j \in DOMAIN R |-> Q[j]]
    OBVIOUS
  <2>2. DOMAIN R = 1 .. Len(R) /\ Len(R) \in Nat
    OBVIOUS
  <2>3. Q \in [1 .. Len(R) -> EnvRow]
    BY <1>1, <1>3, <2>1, <2>2
  <2> QED
    BY <2>2, <2>3, SeqDef
<1>5. ASSUME s = "destroyed" PROVE Live(Q) = Live(R) \ {k}
  BY <1>1, <1>3, <1>5 DEF Live
<1>6. ASSUME s # "destroyed" PROVE Live(Q) = Live(R) \union ({k} \intersect DOMAIN R)
  BY <1>1, <1>3, <1>6 DEF Live
<1> QED
  BY <1>1, <1>3, <1>4, <1>5, <1>6

\* A set of row ids that is not empty has a newest one.
LEMMA NewestIsThere ==
    ASSUME NEW n \in Nat, NEW S \in SUBSET (1 .. n), S # {}
    PROVE  Env!Newest(S) \in S
<1> DEFINE D == {m \in Nat : n - m \in S}
<1>1. PICK k : k \in S
  OBVIOUS
<1>2. n - k \in D
  BY <1>1
<1>3. PICK m \in D : \A j \in D : m <= j
  BY <1>2, SmallestElement
<1>4. n - m \in S /\ \A j \in S : j <= n - m
  <2>1. n - m \in S /\ m \in Nat
    BY <1>3
  <2>2. ASSUME NEW j \in S PROVE j <= n - m
    <3>1. n - j \in D /\ j \in Nat
      OBVIOUS
    <3>2. m <= n - j
      <4> HIDE DEF D
      <4> QED
        BY <1>3, <3>1
    <3> QED
      BY <3>1, <3>2, <2>1
  <2> QED
    BY <2>1, <2>2
<1> QED
  BY <1>4 DEF Env!Newest

\* A step that only goes on to what the handler does next: a request that begins, or a
\* job that lists what it will destroy.
LEMMA EnvStarts ==
    ASSUME EnvInv, NEW t \in DOMAIN thr, NEW r, thr' = [thr EXCEPT ![t] = r],
           thr[t] = Env!Idle, UNCHANGED <<count, envs, ns, failed>>,
           ended' \in BOOLEAN, ended => ended',
           \/ r = Env!Idle
           \/ r.at = "insert" /\ r.slot \in Slots
           \/ r.at = "reset" /\ r.k \in Live(envs)
           \/ /\ r.at = "kill" /\ r.todo # {} /\ r.todo \subseteq Live(envs)
              /\ r.then \in {"idle", "terminate"}
              /\ r.then = "terminate" => r.todo = Live(envs)
           \/ r.at = "terminate" /\ Live(envs) = {}
    PROVE  EnvInv'
<1>1. thr' = [u \in DOMAIN thr' |-> thr'[u]] /\ DOMAIN thr' = DOMAIN thr /\ thr'[t] = r
      /\ \A u \in DOMAIN thr \ {t} : thr'[u] = thr[u]
  BY DEF EnvInv
<1>2. \A u \in DOMAIN thr' : EnvTyped(thr'[u])
  BY <1>1 DEF EnvInv, Env!Idle, EnvTyped
<1>3. ASSUME NEW u, DOMAIN thr' = {u} PROVE EnvAlone(u)'
  <2>1. u = t /\ EnvAlone(t)
    BY <1>1, <1>3 DEF EnvInv
  <2> QED
    BY <1>1, <2>1 DEF EnvAlone, Env!Idle, Working
<1> QED
  BY <1>1, <1>2, <1>3 DEF EnvInv

LEMMA EnvInit == Env!Init => EnvInv
<1> SUFFICES ASSUME Env!Init PROVE EnvInv
  OBVIOUS
<1>1. PICK crew \in EnvironmentCrews : thr = [t \in crew.threads |-> Env!Idle]
  BY DEF Env!Init
<1>2. IsFiniteSet(DOMAIN thr) /\ thr = [t \in DOMAIN thr |-> thr[t]]
  BY <1>1, HandlersAssumption DEF Handled
<1>3. envs = <<>> /\ Live(envs) = {}
  BY DEF Env!Init, Live
<1>4. envs \in EnvRows /\ Cardinality(Live(envs)) = 0 /\ DOMAIN envs = {}
  BY <1>3, FS_EmptySet DEF EnvRows
<1>5. \A t \in DOMAIN thr : thr[t] = Env!Idle
  BY <1>1
<1>6. ASSUME NEW t, DOMAIN thr = {t} PROVE EnvAlone(t)
  BY <1>3, <1>4, <1>5, <1>6 DEF EnvAlone, Env!Idle, Env!Init, Working
<1>7. ended = FALSE /\ failed = FALSE /\ count = 0 /\ ns \in [Slots -> {"none", "up", "terminating"}]
  BY DEF Env!Init
<1>8. \A t \in DOMAIN thr : EnvTyped(thr[t])
  BY <1>5 DEF Env!Idle, EnvTyped
<1>9. /\ \A j, k \in Live(envs) : envs[j].slot = envs[k].slot => j = k
      /\ ~ended => count <= Cardinality(Live(envs))
  BY <1>3, <1>4, <1>7
<1>10. ended \in BOOLEAN /\ failed \in BOOLEAN /\ count \in Nat
  BY <1>7
<1> QED
  BY <1>2, <1>4, <1>6, <1>7, <1>8, <1>9, <1>10 DEF EnvInv

LEMMA ActiveIsLive == Env!Active = Live(envs)
BY DEF Env!Active, Live

\* The requests and the jobs that begin.
LEMMA EnvBegins ==
    ASSUME EnvInv, NEW t,
           \/ \E slot \in Slots : Env!Start(t, slot)
           \/ \E k \in DOMAIN envs : Env!Reset(t, k) \/ Env!Destroy(t, k)
           \/ Env!FinishCompetition(t) \/ Env!RunEnvironmentRecycle(t) \/ Env!Terminate(t)
    PROVE  EnvInv'
<1> USE ActiveIsLive
<1>1. CASE \E slot \in Slots : Env!Start(t, slot)
  <2>1. PICK slot \in Slots : Env!Start(t, slot)
    BY <1>1
  <2>2. CASE Env!Begins(t, [at |-> "insert", slot |-> slot])
    <3> DEFINE r == [at |-> "insert", slot |-> slot]
    <3>1. r.at = "insert" /\ r.slot \in Slots
      OBVIOUS
    <3>2. t \in DOMAIN thr /\ thr[t] = Env!Idle /\ thr' = [thr EXCEPT ![t] = r]
          /\ UNCHANGED <<ended, count, envs, ns, failed>>
      BY <2>2 DEF Env!Begins, Env!Free, Env!Goes
    <3> HIDE DEF r
    <3> QED
      BY <3>1, <3>2, EnvStarts DEF EnvInv
  <2>3. CASE \E k \in Env!ActiveOf(slot) : Env!Begins(t, [at |-> "reset", k |-> k, first |-> FALSE])
    <3>1. PICK k \in Env!ActiveOf(slot) : Env!Begins(t, [at |-> "reset", k |-> k, first |-> FALSE])
      BY <2>3
    <3> DEFINE r == [at |-> "reset", k |-> k, first |-> FALSE]
    <3>2. r.at = "reset" /\ r.k \in Live(envs)
      BY DEF Env!ActiveOf
    <3>3. t \in DOMAIN thr /\ thr[t] = Env!Idle /\ thr' = [thr EXCEPT ![t] = r]
          /\ UNCHANGED <<ended, count, envs, ns, failed>>
      BY <3>1 DEF Env!Begins, Env!Free, Env!Goes
    <3> HIDE DEF r
    <3> QED
      BY <3>2, <3>3, EnvStarts DEF EnvInv
  <2> QED
    BY <2>1, <2>2, <2>3 DEF Env!Start
<1>2. CASE \E k \in DOMAIN envs : Env!Reset(t, k)
  <2>1. PICK k \in DOMAIN envs : Env!Reset(t, k)
    BY <1>2
  <2> DEFINE r == [at |-> "reset", k |-> k, first |-> FALSE]
  <2>2. r.at = "reset" /\ r.k \in Live(envs)
    BY <2>1 DEF Env!Reset
  <2>3. t \in DOMAIN thr /\ thr[t] = Env!Idle /\ thr' = [thr EXCEPT ![t] = r]
        /\ UNCHANGED <<ended, count, envs, ns, failed>>
    BY <2>1 DEF Env!Reset, Env!Begins, Env!Free, Env!Goes
  <2> HIDE DEF r
  <2> QED
    BY <2>2, <2>3, EnvStarts DEF EnvInv
<1>3. CASE \E k \in DOMAIN envs : Env!Destroy(t, k)
  <2>1. PICK k \in DOMAIN envs : Env!Destroy(t, k)
    BY <1>3
  <2> DEFINE r == Env!Sweep({k}, "idle")
  <2>2. r.at = "kill" /\ r.todo = {k} /\ r.then = "idle" /\ k \in Live(envs)
    BY <2>1 DEF Env!Destroy, Env!Sweep
  <2>3. t \in DOMAIN thr /\ thr[t] = Env!Idle /\ thr' = [thr EXCEPT ![t] = r]
        /\ UNCHANGED <<ended, count, envs, ns, failed>>
    BY <2>1 DEF Env!Destroy, Env!Begins, Env!Free, Env!Goes
  <2> HIDE DEF r
  <2> QED
    BY <2>2, <2>3, EnvStarts DEF EnvInv
<1>4. ASSUME NEW then \in {"idle", "terminate"}, Env!Free(t), Env!Goes(t, Env!Sweep(Env!Listed, then)),
             UNCHANGED <<count, envs, ns, failed>>, ended' \in BOOLEAN, ended => ended'
      PROVE  EnvInv'
  <2> DEFINE r == Env!Sweep(Live(envs), then)
  <2>1. \/ r = Env!Idle
        \/ r.at = "terminate" /\ Live(envs) = {}
        \/ r.at = "kill" /\ r.todo = Live(envs) /\ r.todo # {} /\ r.then \in {"idle", "terminate"}
    <3>1. CASE Live(envs) = {}
      BY <3>1 DEF Env!Sweep
    <3>2. CASE Live(envs) # {}
      BY <3>2 DEF Env!Sweep
    <3> QED
      BY <3>1, <3>2
  <2>2. t \in DOMAIN thr /\ thr[t] = Env!Idle /\ thr' = [thr EXCEPT ![t] = r]
    BY <1>4 DEF Env!Free, Env!Goes, Env!Listed
  <2> HIDE DEF r
  <2> QED
    BY <1>4, <2>1, <2>2, EnvStarts
<1>5. CASE Env!FinishCompetition(t)
  BY <1>4, <1>5 DEF Env!FinishCompetition
<1>6. CASE Env!RunEnvironmentRecycle(t)
  BY <1>4, <1>6 DEF Env!RunEnvironmentRecycle, EnvInv
<1>7. CASE Env!Terminate(t)
  BY <1>4, <1>7 DEF Env!Terminate, EnvInv
<1> QED
  BY <1>1, <1>2, <1>3, <1>5, <1>6, <1>7

\* The step of a handler: only its own record changes.
LEMMA EnvThread ==
    ASSUME EnvInv, NEW t, NEW step, NEW r, Env!At(t, step), thr' = [thr EXCEPT ![t] = r]
    PROVE  /\ t \in DOMAIN thr /\ thr[t].at = step
           /\ thr' = [u \in DOMAIN thr' |-> thr'[u]] /\ DOMAIN thr' = DOMAIN thr
           /\ thr'[t] = r /\ \A u \in DOMAIN thr \ {t} : thr'[u] = thr[u]
           /\ \A u : DOMAIN thr' = {u} => u = t /\ EnvAlone(t)
BY DEF EnvInv, Env!At

\* The namespace of one slot is deleted, or the error is ignored.
LEMMA NamespaceDeleted ==
    ASSUME EnvInv, NEW s, Env!DeleteNamespace(s)
    PROVE  /\ ns' \in [Slots -> {"none", "up", "terminating"}]
           /\ \A z \in Slots : z # s => ns'[z] = ns[z]
BY DEF EnvInv, Env!DeleteNamespace

LEMMA EnvInsertRow == EnvInv /\ (\E t : Env!InsertRow(t)) => EnvInv'
<1> SUFFICES ASSUME EnvInv, NEW t, Env!InsertRow(t) PROVE EnvInv'
  OBVIOUS
<1> USE ActiveIsLive
<1>1. PICK r : thr' = [thr EXCEPT ![t] = r]
  BY DEF Env!InsertRow, Env!Goes
<1>2. Env!At(t, "insert") /\ UNCHANGED <<ended, ns, left, failed>>
  BY DEF Env!InsertRow
<1>3. CASE UNCHANGED <<count, envs>> /\ thr' = [thr EXCEPT ![t] = Env!Idle]
  <2>1. thr'[t] = Env!Idle
    BY <1>2, <1>3, EnvThread
  <2>2. ASSUME NEW u, DOMAIN thr' = {u} PROVE EnvAlone(u)'
    <3>1. u = t /\ EnvAlone(t) /\ thr[t].at = "insert"
      BY <2>2, <1>1, <1>2, EnvThread
    <3> QED
      BY <1>2, <1>3, <2>1, <3>1 DEF EnvAlone, Env!Idle, Working
  <2>3. \A u \in DOMAIN thr' : EnvTyped(thr'[u])
    BY <1>1, <1>2, <2>1, EnvThread DEF EnvInv, Env!Idle, EnvTyped
  <2>4. thr' = [u \in DOMAIN thr' |-> thr'[u]] /\ IsFiniteSet(DOMAIN thr')
    BY <1>1, <1>2, EnvThread DEF EnvInv
  <2> QED
    BY <1>2, <1>3, <2>2, <2>3, <2>4 DEF EnvInv
<1>4. CASE ~(UNCHANGED <<count, envs>> /\ thr' = [thr EXCEPT ![t] = Env!Idle])
  <2> DEFINE new == [slot |-> thr[t].slot, status |-> "creating"]
             n == Len(envs) + 1
             next == [at |-> "create", k |-> n, first |-> TRUE]
  <2>1. Env!ActiveOf(thr[t].slot) = {} /\ envs' = Append(envs, new)
        /\ count' = count + 1 /\ thr' = [thr EXCEPT ![t] = next]
    BY <1>4 DEF Env!InsertRow, Env!Goes
  <2>2. new \in EnvRow
    BY <1>2 DEF EnvInv, EnvTyped, Env!At, EnvRow, EnvStatuses
  <2>3. envs' \in EnvRows /\ DOMAIN envs' = DOMAIN envs \union {n} /\ n \notin DOMAIN envs
        /\ \A k \in DOMAIN envs : envs'[k] = envs[k]
    <3> HIDE DEF new
    <3> QED
      BY <2>1, <2>2 DEF EnvInv, EnvRows
  <2>4. envs'[n] = new
    <3> HIDE DEF new
    <3> QED
      BY <2>1, <2>2 DEF EnvInv, EnvRows
  <2>5. Live(envs') = Live(envs) \union {n} /\ n \notin Live(envs)
    BY <2>3, <2>4 DEF Live
  <2>6. Cardinality(Live(envs')) = Cardinality(Live(envs)) + 1 /\ Cardinality(Live(envs)) \in Nat
    BY <2>5, LiveFinite, FS_AddElement DEF EnvInv
  <2>7. \A j, k \in Live(envs') : envs'[j].slot = envs'[k].slot => j = k
    <3>1. \A j \in Live(envs) : envs[j].slot # new.slot
      BY <2>1 DEF Env!ActiveOf
    <3> QED
      BY <2>3, <2>4, <2>5, <3>1 DEF EnvInv, Live
  <2>8. thr'[t] = next
    BY <1>2, <2>1, EnvThread
  <2>9. ASSUME NEW u, DOMAIN thr' = {u} PROVE EnvAlone(u)'
    <3>1. u = t /\ EnvAlone(t) /\ thr[t].at = "insert"
      BY <2>9, <1>1, <1>2, EnvThread
    <3>2. thr'[t].at = "create" /\ thr'[t].k = n
      BY <2>8
    <3>3. n \in Live(envs') /\ envs'[n].status = "creating"
      BY <2>4, <2>5
    <3>4. ~failed' => count' = Cardinality(Live(envs'))
      BY <1>2, <2>1, <2>6, <3>1 DEF EnvAlone, EnvInv
    <3>5. \A k \in DOMAIN envs' : envs'[k].status = "running" => ns'[envs'[k].slot] = "up"
      <4>1. \A k \in DOMAIN envs : envs[k].status = "running" => ns[envs[k].slot] = "up"
        BY <3>1 DEF EnvAlone
      <4> QED
        BY <1>2, <4>1, <2>3, <2>4
    <3> HIDE DEF n
    <3> QED
      BY <3>1, <3>2, <3>3, <3>4, <3>5 DEF EnvAlone, Working
  <2>10. ~ended' => count' <= Cardinality(Live(envs'))
    BY <1>2, <2>1, <2>6 DEF EnvInv
  <2>11. \A u \in DOMAIN thr' : EnvTyped(thr'[u])
    BY <1>1, <1>2, <2>8, EnvThread DEF EnvInv, EnvTyped
  <2>12. count' \in Nat /\ ended' \in BOOLEAN /\ failed' \in BOOLEAN /\ ns' \in [Slots -> {"none", "up", "terminating"}]
    BY <1>2, <2>1 DEF EnvInv
  <2>13. thr' = [u \in DOMAIN thr' |-> thr'[u]] /\ IsFiniteSet(DOMAIN thr')
    BY <1>1, <1>2, EnvThread DEF EnvInv
  <2> QED
    BY <2>3, <2>7, <2>9, <2>10, <2>11, <2>12, <2>13 DEF EnvInv
<1> QED
  BY <1>3, <1>4

\* What a step of a handler has to establish.
LEMMA EnvFrame ==
    ASSUME EnvInv, NEW t, NEW step, NEW r, Env!At(t, step), thr' = [thr EXCEPT ![t] = r],
           EnvTyped(r), ended' \in BOOLEAN, failed' \in BOOLEAN, count' \in Nat,
           ns' \in [Slots -> {"none", "up", "terminating"}], envs' \in EnvRows,
           \A j, k \in Live(envs') : envs'[j].slot = envs'[k].slot => j = k,
           ~ended' => count' <= Cardinality(Live(envs')),
           EnvAlone(t) => EnvAlone(t)'
    PROVE  EnvInv'
<1>1. \A u \in DOMAIN thr' : EnvTyped(thr'[u])
  BY EnvThread DEF EnvInv
<1>2. thr' = [u \in DOMAIN thr' |-> thr'[u]] /\ IsFiniteSet(DOMAIN thr')
  BY EnvThread DEF EnvInv
<1>3. ASSUME NEW u, DOMAIN thr' = {u} PROVE EnvAlone(u)'
  <2>1. u = t /\ EnvAlone(t)
    BY <1>3, EnvThread
  <2> QED
    BY <2>1
<1> QED
  BY <1>1, <1>2, <1>3 DEF EnvInv

\* A status other than destroyed is written to a row whose place no other row has.
LEMMA LiveWritten ==
    ASSUME EnvInv, NEW k, NEW s \in {"creating", "running", "error"}, Env!Write(k, s), ~Env!Refused(k)
    PROVE  /\ envs' \in EnvRows /\ DOMAIN envs' = DOMAIN envs
           /\ \A j \in DOMAIN envs : /\ envs'[j].slot = envs[j].slot
                                     /\ j # k => envs'[j].status = envs[j].status
                                     /\ j = k => envs'[j].status = s
           /\ \A j, i \in Live(envs') : envs'[j].slot = envs'[i].slot => j = i
           /\ Cardinality(Live(envs)) \in Nat /\ Cardinality(Live(envs')) \in Nat
           /\ Cardinality(Live(envs)) <= Cardinality(Live(envs'))
           /\ k \in Live(envs) => Live(envs') = Live(envs)
<1>1. envs \in EnvRows /\ envs' = [envs EXCEPT ![k].status = s]
  BY DEF EnvInv, Env!Write
<1>2. /\ envs' \in EnvRows /\ DOMAIN envs' = DOMAIN envs
      /\ \A j \in DOMAIN envs : /\ envs'[j].slot = envs[j].slot
                                /\ j # k => envs'[j].status = envs[j].status
                                /\ j = k => envs'[j].status = s
      /\ Live(envs') = Live(envs) \union ({k} \intersect DOMAIN envs)
  <2>1. s \in EnvStatuses /\ s # "destroyed"
    BY DEF EnvStatuses
  <2>2. envs \in EnvRows /\ Written(envs, k, s, envs')
    BY <1>1 DEF Written
  <2>3. envs' \in EnvRows
    BY <2>1, <2>2, RowWritten
  <2>6. DOMAIN envs' = DOMAIN envs
    BY <2>1, <2>2, RowWritten
  <2>4. \A j \in DOMAIN envs : /\ envs'[j].slot = envs[j].slot
                               /\ j # k => envs'[j].status = envs[j].status
                               /\ j = k => envs'[j].status = s
    BY <1>1, <2>1, <2>2, RowWritten
  <2>5. Live(envs') = Live(envs) \union ({k} \intersect DOMAIN envs)
    BY <2>1, <2>2, RowWritten
  <2> QED
    BY <2>3, <2>4, <2>5, <2>6
<1>3. \A j \in Live(envs) : envs[j].slot = envs[k].slot => j = k
  BY ActiveIsLive DEF Env!Refused, Env!ActiveOf
<1>4. \A j, i \in Live(envs') : envs'[j].slot = envs'[i].slot => j = i
  BY <1>2, <1>3 DEF EnvInv, Live
<1>5. /\ Cardinality(Live(envs)) \in Nat /\ Cardinality(Live(envs')) \in Nat
      /\ Cardinality(Live(envs)) <= Cardinality(Live(envs'))
  BY <1>1, <1>2, LiveFinite, FS_Subset
<1> QED
  BY <1>2, <1>4, <1>5 DEF Live

LEMMA EnvResetToCreating == EnvInv /\ (\E t : Env!ResetToCreating(t)) => EnvInv'
<1> SUFFICES ASSUME EnvInv, NEW t, Env!ResetToCreating(t) PROVE EnvInv'
  OBVIOUS
<1>1. Env!At(t, "reset") /\ UNCHANGED <<ended, count, ns, left, failed>>
  BY DEF Env!ResetToCreating
<1>2. CASE Env!Refused(thr[t].k)
  <2>1. UNCHANGED envs /\ thr' = [thr EXCEPT ![t] = Env!Idle]
    BY <1>2 DEF Env!ResetToCreating, Env!Goes
  <2>2. thr'[t] = Env!Idle
    BY <1>1, <2>1, EnvThread
  <2>3. EnvAlone(t) => EnvAlone(t)'
    BY <1>1, <2>1, <2>2 DEF EnvAlone, Env!Idle, Working, Env!At
  <2>4. EnvTyped(Env!Idle)
    BY DEF Env!Idle, EnvTyped
  <2>5. \A j, k \in Live(envs') : envs'[j].slot = envs'[k].slot => j = k
    BY <2>1 DEF EnvInv
  <2>6. ~ended' => count' <= Cardinality(Live(envs'))
    BY <1>1, <2>1 DEF EnvInv
  <2> QED
    BY <1>1, <2>1, <2>3, <2>4, <2>5, <2>6, EnvFrame DEF EnvInv, EnvTyped
<1>3. CASE ~Env!Refused(thr[t].k)
  <2>1. PICK k : k = thr[t].k
    OBVIOUS
  <2>2. PICK r : r = [thr[t] EXCEPT !.at = "clear"]
    OBVIOUS
  <2>3. Env!Write(k, "creating") /\ thr' = [thr EXCEPT ![t] = r] /\ ~Env!Refused(k)
    BY <1>3, <2>1, <2>2 DEF Env!ResetToCreating, Env!Goes
  <2> DEFINE Facts == /\ envs' \in EnvRows /\ DOMAIN envs' = DOMAIN envs
                      /\ \A j \in DOMAIN envs : /\ envs'[j].slot = envs[j].slot
                                                /\ j # k => envs'[j].status = envs[j].status
                                                /\ j = k => envs'[j].status = "creating"
  <2>4. Facts /\ \A j, i \in Live(envs') : envs'[j].slot = envs'[i].slot => j = i
    BY <2>3, LiveWritten
  <2>5. /\ Cardinality(Live(envs)) \in Nat /\ Cardinality(Live(envs')) \in Nat
        /\ Cardinality(Live(envs)) <= Cardinality(Live(envs'))
        /\ k \in Live(envs) => Live(envs') = Live(envs)
    BY <2>3, LiveWritten
  <2>6. thr'[t] = r
    BY <1>1, <2>3, EnvThread
  <2>7. ASSUME EnvAlone(t) PROVE EnvAlone(t)'
    <3>1. k \in Live(envs) /\ k \in DOMAIN envs /\ r.at = "clear" /\ r.k = k
      BY <1>1, <2>1, <2>2, <2>7 DEF EnvAlone, Live, Env!At
    <3>2. ~failed' => count' = Cardinality(Live(envs'))
      BY <1>1, <2>5, <2>7, <3>1 DEF EnvAlone
    <3>3. \A j \in DOMAIN envs' : envs'[j].status = "running" => ns'[envs'[j].slot] = "up"
      BY <1>1, <2>4, <2>7 DEF EnvAlone, Env!At
    <3> QED
      BY <2>4, <2>5, <2>6, <3>1, <3>2, <3>3 DEF EnvAlone, Working
  <2>8. ~ended' => count' <= Cardinality(Live(envs'))
    BY <1>1, <2>5 DEF EnvInv
  <2>9. r.at = "clear"
    <3>1. thr[t] = thr[t] /\ r.at = [thr[t] EXCEPT !.at = "clear"].at
      BY <2>2
    <3> QED
      BY <3>1
  <2> QED
    BY <1>1, <2>3, <2>4, <2>7, <2>8, <2>9, EnvFrame DEF EnvInv, EnvTyped
<1> QED
  BY <1>2, <1>3

\* A step of a handler that writes no row.
LEMMA EnvElsewhere ==
    ASSUME EnvInv, NEW t, NEW step, NEW r, Env!At(t, step), thr' = [thr EXCEPT ![t] = r],
           EnvTyped(r), UNCHANGED <<ended, count, envs, failed>>,
           ns' \in [Slots -> {"none", "up", "terminating"}],
           EnvAlone(t) => EnvAlone(t)'
    PROVE  EnvInv'
<1>1. \A j, k \in Live(envs') : envs'[j].slot = envs'[k].slot => j = k
  BY DEF EnvInv
<1>2. ~ended' => count' <= Cardinality(Live(envs'))
  BY DEF EnvInv
<1>3. ended' \in BOOLEAN /\ failed' \in BOOLEAN /\ count' \in Nat /\ envs' \in EnvRows
  BY DEF EnvInv
<1> QED
  BY <1>1, <1>2, <1>3, EnvFrame

LEMMA EnvClearNamespace == EnvInv /\ (\E t : Env!ClearNamespace(t)) => EnvInv'
<1> SUFFICES ASSUME EnvInv, NEW t, Env!ClearNamespace(t) PROVE EnvInv'
  OBVIOUS
<1>1. Env!At(t, "clear") /\ UNCHANGED <<ended, count, envs, left, failed>>
  BY DEF Env!ClearNamespace
<1>2. PICK s : s = envs[thr[t].k].slot /\ Env!DeleteNamespace(s)
  BY DEF Env!ClearNamespace
<1>3. /\ ns' \in [Slots -> {"none", "up", "terminating"}]
      /\ \A z \in Slots : z # s => ns'[z] = ns[z]
  BY <1>2, NamespaceDeleted
<1>4. PICK r : r = [thr[t] EXCEPT !.at = "create"]
  OBVIOUS
<1>5. thr' = [thr EXCEPT ![t] = r] /\ r.at = "create" /\ r.k = thr[t].k
  BY <1>4 DEF Env!ClearNamespace, Env!Goes
<1>6. thr'[t] = r
  BY <1>1, <1>5, EnvThread
<1>7. ASSUME EnvAlone(t) PROVE EnvAlone(t)'
  <2>1. r.k \in Live(envs) /\ r.k \in DOMAIN envs /\ envs[r.k].status = "creating"
    BY <1>1, <1>5, <1>7 DEF EnvAlone, Live, Env!At, Working
  <2>2. ASSUME NEW j \in DOMAIN envs, envs[j].status = "running" PROVE ns'[envs[j].slot] = "up"
    <3>1. j \in Live(envs) /\ j # r.k /\ envs[j].slot \in Slots
      BY <2>1, <2>2, RowTyped DEF Live, EnvInv
    <3>2. envs[j].slot # s
      BY <1>2, <1>5, <2>1, <3>1 DEF EnvInv
    <3>3. ns[envs[j].slot] = "up"
      BY <1>1, <1>7, <2>2 DEF EnvAlone, Env!At
    <3> QED
      BY <1>3, <3>1, <3>2, <3>3
  <2>3. ~failed => count = Cardinality(Live(envs))
    BY <1>7 DEF EnvAlone
  <2> QED
    BY <1>1, <1>5, <1>6, <2>1, <2>2, <2>3 DEF EnvAlone, Working
<1> QED
  BY <1>1, <1>3, <1>5, <1>7, EnvElsewhere DEF EnvTyped

LEMMA EnvCreateNamespace == EnvInv /\ (\E t : Env!CreateNamespace(t)) => EnvInv'
<1> SUFFICES ASSUME EnvInv, NEW t, Env!CreateNamespace(t) PROVE EnvInv'
  OBVIOUS
<1>1. Env!At(t, "create") /\ UNCHANGED <<ended, count, envs, left, failed>>
  BY DEF Env!CreateNamespace
<1>2. /\ ns' \in [Slots -> {"none", "up", "terminating"}]
      /\ \A z \in Slots : ns[z] = "up" => ns'[z] = "up"
  BY DEF Env!CreateNamespace, EnvInv
<1>3. PICK r : r = [thr[t] EXCEPT !.at = "deploy"]
  OBVIOUS
<1>4. thr' = [thr EXCEPT ![t] = r] /\ r.at = "deploy" /\ r.k = thr[t].k
  BY <1>3 DEF Env!CreateNamespace, Env!Goes
<1>5. thr'[t] = r
  BY <1>1, <1>4, EnvThread
<1>6. ASSUME EnvAlone(t) PROVE EnvAlone(t)'
  <2>1. r.k \in Live(envs) /\ envs[r.k].status = "creating"
    BY <1>1, <1>4, <1>6 DEF EnvAlone, Env!At, Working
  <2>2. ASSUME NEW j \in DOMAIN envs, envs[j].status = "running" PROVE ns'[envs[j].slot] = "up"
    <3>1. envs[j].slot \in Slots
      BY <2>2, RowTyped DEF EnvInv
    <3> QED
      BY <1>1, <1>2, <1>6, <2>2, <3>1 DEF EnvAlone, Env!At
  <2>3. ~failed => count = Cardinality(Live(envs))
    BY <1>6 DEF EnvAlone
  <2> QED
    BY <1>1, <1>4, <1>5, <2>1, <2>2, <2>3 DEF EnvAlone, Working
<1> QED
  BY <1>1, <1>2, <1>4, <1>6, EnvElsewhere DEF EnvTyped

LEMMA EnvDeploy == EnvInv /\ (\E t : Env!Deploy(t)) => EnvInv'
<1> SUFFICES ASSUME EnvInv, NEW t, Env!Deploy(t) PROVE EnvInv'
  OBVIOUS
<1>1. Env!At(t, "deploy") /\ UNCHANGED <<ended, count, envs, ns, left, failed>>
  BY DEF Env!Deploy
<1>2. PICK ok \in BOOLEAN : /\ ok => ns[envs[thr[t].k].slot] = "up"
                            /\ Env!Goes(t, [thr[t] EXCEPT !.at = IF ok THEN "apply" ELSE "undo"])
  BY DEF Env!Deploy
<1>3. PICK next \in {"apply", "undo"} : /\ next = "apply" => ns[envs[thr[t].k].slot] = "up"
                                        /\ Env!Goes(t, [thr[t] EXCEPT !.at = next])
  BY <1>2
<1>4. PICK r : r = [thr[t] EXCEPT !.at = next]
  OBVIOUS
<1>5. thr' = [thr EXCEPT ![t] = r] /\ r.at = next /\ r.k = thr[t].k
  BY <1>3, <1>4 DEF Env!Goes
<1>6. thr'[t] = r
  BY <1>1, <1>5, EnvThread
<1>7. ASSUME EnvAlone(t) PROVE EnvAlone(t)'
  <2>1. r.k \in Live(envs) /\ envs[r.k].status = "creating"
    BY <1>1, <1>5, <1>7 DEF EnvAlone, Env!At, Working
  <2>2. r.at = "apply" => ns[envs[r.k].slot] = "up"
    BY <1>3, <1>5
  <2>3. \A j \in DOMAIN envs : envs[j].status = "running" => ns[envs[j].slot] = "up"
    BY <1>1, <1>7 DEF EnvAlone, Env!At
  <2>4. ~failed => count = Cardinality(Live(envs))
    BY <1>7 DEF EnvAlone
  <2> QED
    BY <1>1, <1>5, <1>6, <2>1, <2>2, <2>3, <2>4 DEF EnvAlone, Working
<1>8. ns' \in [Slots -> {"none", "up", "terminating"}] 
  BY <1>1, <1>5 DEF EnvInv
<1> QED
  BY <1>1, <1>5, <1>7, <1>8, EnvElsewhere DEF EnvTyped

LEMMA EnvRollbackNamespace == EnvInv /\ (\E t : Env!RollbackNamespace(t)) => EnvInv'
<1> SUFFICES ASSUME EnvInv, NEW t, Env!RollbackNamespace(t) PROVE EnvInv'
  OBVIOUS
<1>1. Env!At(t, "undo") /\ UNCHANGED <<ended, count, envs, left, failed>>
  BY DEF Env!RollbackNamespace
<1>2. PICK s : s = envs[thr[t].k].slot
  OBVIOUS
<1>3. /\ ns' \in [Slots -> {"none", "up", "terminating"}]
      /\ \A z \in Slots : z # s => ns'[z] = ns[z]
  <2>1. CASE thr[t].first
    BY <1>2, <2>1, NamespaceDeleted DEF Env!RollbackNamespace
  <2>2. CASE ~thr[t].first
    BY <2>2 DEF Env!RollbackNamespace, EnvInv
  <2> QED
    BY <2>1, <2>2
<1>4. PICK r : r = [thr[t] EXCEPT !.at = "error"]
  OBVIOUS
<1>5. thr' = [thr EXCEPT ![t] = r] /\ r.at = "error" /\ r.k = thr[t].k
  BY <1>4 DEF Env!RollbackNamespace, Env!Goes
<1>6. thr'[t] = r
  BY <1>1, <1>5, EnvThread
<1>7. ASSUME EnvAlone(t) PROVE EnvAlone(t)'
  <2>1. r.k \in Live(envs) /\ r.k \in DOMAIN envs /\ envs[r.k].status = "creating"
    BY <1>1, <1>5, <1>7 DEF EnvAlone, Live, Env!At, Working
  <2>2. ASSUME NEW j \in DOMAIN envs, envs[j].status = "running" PROVE ns'[envs[j].slot] = "up"
    <3>1. j \in Live(envs) /\ j # r.k /\ envs[j].slot \in Slots
      BY <2>1, <2>2, RowTyped DEF Live, EnvInv
    <3>2. envs[j].slot # s
      BY <1>2, <1>5, <2>1, <3>1 DEF EnvInv
    <3>3. ns[envs[j].slot] = "up"
      BY <1>1, <1>7, <2>2 DEF EnvAlone, Env!At
    <3> QED
      BY <1>3, <3>1, <3>2, <3>3
  <2>3. ~failed => count = Cardinality(Live(envs))
    BY <1>7 DEF EnvAlone
  <2> QED
    BY <1>1, <1>5, <1>6, <2>1, <2>2, <2>3 DEF EnvAlone, Working
<1> QED
  BY <1>1, <1>3, <1>5, <1>7, EnvElsewhere DEF EnvTyped

LEMMA EnvApplyResult == EnvInv /\ (\E t : Env!ApplyResult(t)) => EnvInv'
<1> SUFFICES ASSUME EnvInv, NEW t, Env!ApplyResult(t) PROVE EnvInv'
  OBVIOUS
<1>1. Env!At(t, "apply") /\ UNCHANGED <<ended, count, ns, left, failed>>
  BY DEF Env!ApplyResult
<1>2. PICK k : k = thr[t].k
  OBVIOUS
<1>3. ns' \in [Slots -> {"none", "up", "terminating"}]
  BY <1>1 DEF EnvInv
<1>4. CASE Env!Refused(k)
  <2>1. PICK r : r = [thr[t] EXCEPT !.at = "undo"]
    OBVIOUS
  <2>2. thr' = [thr EXCEPT ![t] = r] /\ UNCHANGED envs /\ r.at = "undo" /\ r.k = k
    BY <1>2, <1>4, <2>1 DEF Env!ApplyResult, Env!Goes
  <2>3. thr'[t] = r
    BY <1>1, <2>2, EnvThread
  <2>4. ASSUME EnvAlone(t) PROVE EnvAlone(t)'
    <3>1. k \in Live(envs) /\ envs[k].status = "creating"
      BY <1>1, <1>2, <2>4 DEF EnvAlone, Env!At, Working
    <3>2. \A j \in DOMAIN envs : envs[j].status = "running" => ns[envs[j].slot] = "up"
      BY <1>1, <2>4 DEF EnvAlone, Env!At
    <3>3. ~failed => count = Cardinality(Live(envs))
      BY <2>4 DEF EnvAlone
    <3> QED
      BY <1>1, <2>2, <2>3, <3>1, <3>2, <3>3 DEF EnvAlone, Working
  <2> QED
    BY <1>1, <1>3, <2>2, <2>4, EnvElsewhere DEF EnvTyped
<1>5. CASE ~Env!Refused(k)
  <2>1. Env!Write(k, "running") /\ thr' = [thr EXCEPT ![t] = Env!Idle]
    BY <1>2, <1>5 DEF Env!ApplyResult, Env!Goes
  <2>2. /\ envs' \in EnvRows /\ DOMAIN envs' = DOMAIN envs
        /\ \A j \in DOMAIN envs : /\ envs'[j].slot = envs[j].slot
                                  /\ j # k => envs'[j].status = envs[j].status
                                  /\ j = k => envs'[j].status = "running"
        /\ \A j, i \in Live(envs') : envs'[j].slot = envs'[i].slot => j = i
    BY <1>5, <2>1, LiveWritten
  <2>3. /\ Cardinality(Live(envs)) \in Nat /\ Cardinality(Live(envs')) \in Nat
        /\ Cardinality(Live(envs)) <= Cardinality(Live(envs'))
        /\ k \in Live(envs) => Live(envs') = Live(envs)
    BY <1>5, <2>1, LiveWritten
  <2>4. thr'[t] = Env!Idle
    BY <1>1, <2>1, EnvThread
  <2>5. ASSUME EnvAlone(t) PROVE EnvAlone(t)'
    <3>1. k \in Live(envs) /\ ns[envs[k].slot] = "up"
      BY <1>1, <1>2, <2>5 DEF EnvAlone, Env!At, Working
    <3>2. \A j \in DOMAIN envs' : envs'[j].status = "running" => ns'[envs'[j].slot] = "up"
      BY <1>1, <2>2, <2>5, <3>1 DEF EnvAlone, Env!At
    <3>3. ~failed' => count' = Cardinality(Live(envs'))
      BY <1>1, <2>3, <2>5, <3>1 DEF EnvAlone
    <3> QED
      BY <2>4, <3>2, <3>3 DEF EnvAlone, Working, Env!Idle
  <2>6. EnvTyped(Env!Idle)
    BY DEF Env!Idle, EnvTyped
  <2>7. ~ended' => count' <= Cardinality(Live(envs'))
    BY <1>1, <2>3 DEF EnvInv
  <2>8. ended' \in BOOLEAN /\ failed' \in BOOLEAN /\ count' \in Nat
    BY <1>1 DEF EnvInv
  <2> QED
    BY <1>1, <1>3, <2>1, <2>2, <2>5, <2>6, <2>7, <2>8, EnvFrame
<1> QED
  BY <1>4, <1>5

LEMMA EnvMarkError == EnvInv /\ (\E t : Env!MarkError(t)) => EnvInv'
<1> SUFFICES ASSUME EnvInv, NEW t, Env!MarkError(t) PROVE EnvInv'
  OBVIOUS
<1>1. Env!At(t, "error") /\ UNCHANGED <<ended, ns, left>> /\ thr' = [thr EXCEPT ![t] = Env!Idle]
  BY DEF Env!MarkError, Env!Goes
<1>2. PICK k : k = thr[t].k
  OBVIOUS
<1>3. ns' \in [Slots -> {"none", "up", "terminating"}] /\ ended' \in BOOLEAN
  BY <1>1 DEF EnvInv
<1>4. EnvTyped(Env!Idle) /\ thr'[t] = Env!Idle
  BY <1>1, EnvThread DEF Env!Idle, EnvTyped
<1>5. CASE Env!Refused(k)
  <2>1. UNCHANGED <<envs, count, failed>>
    BY <1>2, <1>5 DEF Env!MarkError
  <2>2. EnvAlone(t) => EnvAlone(t)'
    BY <1>1, <1>4, <2>1 DEF EnvAlone, Env!Idle, Working, Env!At
  <2> QED
    BY <1>1, <1>3, <1>4, <2>1, <2>2, EnvElsewhere DEF EnvTyped
<1>6. CASE ~Env!Refused(k)
  <2>1. Env!Write(k, "error")
    BY <1>2, <1>6 DEF Env!MarkError
  <2>2. \/ Env!GiveBack /\ failed' = TRUE
        \/ UNCHANGED <<count, failed>>
    BY <1>2, <1>6 DEF Env!MarkError
  <2>3. /\ envs' \in EnvRows /\ DOMAIN envs' = DOMAIN envs
        /\ \A j \in DOMAIN envs : /\ envs'[j].slot = envs[j].slot
                                  /\ j # k => envs'[j].status = envs[j].status
                                  /\ j = k => envs'[j].status = "error"
        /\ \A j, i \in Live(envs') : envs'[j].slot = envs'[i].slot => j = i
    BY <1>6, <2>1, LiveWritten
  <2>4. /\ Cardinality(Live(envs)) \in Nat /\ Cardinality(Live(envs')) \in Nat
        /\ Cardinality(Live(envs)) <= Cardinality(Live(envs'))
        /\ k \in Live(envs) => Live(envs') = Live(envs)
    BY <1>6, <2>1, LiveWritten
  <2>5. count' \in Nat /\ count' <= count /\ failed' \in BOOLEAN
        /\ (~failed' => ~failed /\ count' = count)
    <3>1. count \in Nat /\ failed \in BOOLEAN
      BY DEF EnvInv
    <3>2. CASE Env!GiveBack /\ failed' = TRUE
      BY <3>1, <3>2 DEF Env!GiveBack
    <3>3. CASE UNCHANGED <<count, failed>>
      BY <3>1, <3>3
    <3> QED
      BY <2>2, <3>2, <3>3
  <2>6. ASSUME EnvAlone(t) PROVE EnvAlone(t)'
    <3>1. k \in Live(envs)
      BY <1>1, <1>2, <2>6 DEF EnvAlone, Env!At, Working
    <3>2. \A j \in DOMAIN envs' : envs'[j].status = "running" => ns'[envs'[j].slot] = "up"
      BY <1>1, <2>3, <2>6 DEF EnvAlone, Env!At
    <3>3. ~failed' => count' = Cardinality(Live(envs'))
      BY <2>4, <2>5, <2>6, <3>1 DEF EnvAlone
    <3> QED
      BY <1>4, <3>2, <3>3 DEF EnvAlone, Working, Env!Idle
  <2>7. ~ended' => count' <= Cardinality(Live(envs'))
    <3>1. count \in Nat /\ (~ended => count <= Cardinality(Live(envs)))
      BY DEF EnvInv
    <3> QED
      BY <1>1, <2>4, <2>5, <3>1
  <2> QED
    BY <1>1, <1>3, <1>4, <2>3, <2>5, <2>6, <2>7, EnvFrame
<1> QED
  BY <1>5, <1>6

LEMMA EnvDestroyNamespace == EnvInv /\ (\E t : Env!DestroyNamespace(t)) => EnvInv'
<1> SUFFICES ASSUME EnvInv, NEW t, Env!DestroyNamespace(t) PROVE EnvInv'
  OBVIOUS
<1>1. Env!At(t, "kill") /\ UNCHANGED <<ended, count, envs, left, failed>>
  BY DEF Env!DestroyNamespace
<1>2. PICK n : n = Env!Newest(thr[t].todo)
  OBVIOUS
<1>3. PICK s : s = envs[n].slot /\ Env!DeleteNamespace(s)
  BY <1>2 DEF Env!DestroyNamespace
<1>4. /\ ns' \in [Slots -> {"none", "up", "terminating"}]
      /\ \A z \in Slots : z # s => ns'[z] = ns[z]
  BY <1>3, NamespaceDeleted
<1>5. PICK r : r = [thr[t] EXCEPT !.at = "mark"]
  OBVIOUS
<1>6. thr' = [thr EXCEPT ![t] = r] /\ r.at = "mark" /\ r.todo = thr[t].todo /\ r.then = thr[t].then
  BY <1>5 DEF Env!DestroyNamespace, Env!Goes
<1>7. thr'[t] = r
  BY <1>1, <1>6, EnvThread
<1>8. ASSUME EnvAlone(t) PROVE EnvAlone(t)'
  <2>1. /\ r.todo # {} /\ r.todo \subseteq Live(envs) /\ r.then \in {"idle", "terminate"}
        /\ r.then = "terminate" => r.todo = Live(envs)
    BY <1>1, <1>6, <1>8 DEF EnvAlone, Env!At
  <2>2. n \in Live(envs)
    <3>1. Live(envs) \subseteq 1 .. Len(envs) /\ Len(envs) \in Nat
      BY LiveFinite DEF EnvInv
    <3>2. n \in r.todo
      BY <1>2, <1>6, <2>1, <3>1, NewestIsThere
    <3> QED
      BY <2>1, <3>2
  <2>3. ASSUME NEW j \in DOMAIN envs, envs[j].status = "running"
        PROVE  ns'[envs[j].slot] = "up" \/ j = n
    <3>1. j \in Live(envs) /\ envs[j].slot \in Slots
      BY <2>3, RowTyped DEF Live, EnvInv
    <3>2. j # n => envs[j].slot # s
      BY <1>3, <2>2, <3>1 DEF EnvInv
    <3>3. ns[envs[j].slot] = "up"
      BY <1>1, <1>8, <2>3 DEF EnvAlone, Env!At
    <3> QED
      BY <1>4, <3>1, <3>2, <3>3
  <2>4. ~failed => count = Cardinality(Live(envs))
    BY <1>8 DEF EnvAlone
  <2>5. n = Env!Newest(r.todo)
    BY <1>2, <1>6
  <2> QED
    BY <1>1, <1>6, <1>7, <2>1, <2>3, <2>4, <2>5 DEF EnvAlone, Working
<1>9. EnvTyped(r)
  BY <1>1, <1>6 DEF EnvInv, EnvTyped, Env!At
<1> QED
  BY <1>1, <1>4, <1>6, <1>8, <1>9, EnvElsewhere

LEMMA EnvMarkDestroyed == EnvInv /\ (\E t : Env!MarkDestroyed(t)) => EnvInv'
<1> SUFFICES ASSUME EnvInv, NEW t, Env!MarkDestroyed(t) PROVE EnvInv'
  OBVIOUS
<1>1. Env!At(t, "mark") /\ UNCHANGED <<ended, ns, left, failed>> /\ Env!GiveBack
  BY DEF Env!MarkDestroyed
<1>2. PICK n : n = Env!Newest(thr[t].todo)
  OBVIOUS
<1>3. PICK todo, then : todo = thr[t].todo \ {n} /\ then = thr[t].then
  OBVIOUS
<1>4. PICK r : r = Env!Sweep(todo, then)
  OBVIOUS
<1>5. Env!Write(n, "destroyed") /\ thr' = [thr EXCEPT ![t] = r]
  BY <1>2, <1>3, <1>4 DEF Env!MarkDestroyed, Env!Goes
<1>6. /\ envs' \in EnvRows /\ DOMAIN envs' = DOMAIN envs /\ Live(envs') = Live(envs) \ {n}
  <2>1. envs \in EnvRows /\ Written(envs, n, "destroyed", envs') /\ "destroyed" \in EnvStatuses
    BY <1>5 DEF EnvInv, Env!Write, Written, EnvStatuses
  <2>2. envs' \in EnvRows
    BY <2>1, RowWritten
  <2>3. DOMAIN envs' = DOMAIN envs
    BY <2>1, RowWritten
  <2>4. Live(envs') = Live(envs) \ {n}
    BY <2>1, RowWritten
  <2> QED
    BY <2>2, <2>3, <2>4
<1>7. \A j \in DOMAIN envs : /\ envs'[j].slot = envs[j].slot
                             /\ j # n => envs'[j].status = envs[j].status
                             /\ j = n => envs'[j].status = "destroyed"
  <2>1. envs \in EnvRows /\ envs' = [envs EXCEPT ![n].status = "destroyed"]
    BY <1>5 DEF EnvInv, Env!Write
  <2>2. \A j \in DOMAIN envs : envs[j] \in EnvRow
    BY <2>1, RowTyped
  <2> QED
    BY <2>1, <2>2 DEF EnvRow
<1>8. thr'[t] = r
  BY <1>1, <1>5, EnvThread
<1>9. count' = (IF count > 0 THEN count - 1 ELSE count) /\ count \in Nat /\ count' \in Nat
  BY <1>1 DEF Env!GiveBack, EnvInv
<1>10. /\ Cardinality(Live(envs)) \in Nat /\ Cardinality(Live(envs')) \in Nat
       /\ n \in Live(envs) => Cardinality(Live(envs')) = Cardinality(Live(envs)) - 1
       /\ n \notin Live(envs) => Cardinality(Live(envs')) = Cardinality(Live(envs))
       /\ n \in Live(envs) => Cardinality(Live(envs)) > 0
  <2>1. IsFiniteSet(Live(envs)) /\ IsFiniteSet(Live(envs'))
        /\ Cardinality(Live(envs)) \in Nat /\ Cardinality(Live(envs')) \in Nat
    BY <1>6, LiveFinite DEF EnvInv
  <2>2. Cardinality(Live(envs')) =
          IF n \in Live(envs) THEN Cardinality(Live(envs)) - 1 ELSE Cardinality(Live(envs))
    BY <1>6, <2>1, FS_RemoveElement
  <2> QED
    BY <2>1, <2>2
<1>12. ASSUME EnvAlone(t) PROVE EnvAlone(t)'
  <2>1. /\ thr[t].todo # {} /\ thr[t].todo \subseteq Live(envs) /\ then \in {"idle", "terminate"}
        /\ then = "terminate" => thr[t].todo = Live(envs)
    BY <1>1, <1>3, <1>12 DEF EnvAlone, Env!At
  <2>2. n \in Live(envs)
    <3>1. Live(envs) \subseteq 1 .. Len(envs) /\ Len(envs) \in Nat
      BY LiveFinite DEF EnvInv
    <3>2. n \in thr[t].todo
      BY <1>2, <2>1, <3>1, NewestIsThere
    <3> QED
      BY <2>1, <3>2
  <2>3. todo \subseteq Live(envs') /\ (then = "terminate" => todo = Live(envs'))
    BY <1>3, <1>6, <2>1
  <2>4. \A j \in DOMAIN envs' : envs'[j].status = "running" => ns'[envs'[j].slot] = "up"
    BY <1>1, <1>2, <1>6, <1>7, <1>12 DEF EnvAlone
  <2>5. ~failed' => count' = Cardinality(Live(envs'))
    BY <1>1, <1>9, <1>10, <1>12, <2>2 DEF EnvAlone
  <2>6. CASE todo # {}
    <3>1. r.at = "kill" /\ r.todo = todo /\ r.then = then
      BY <1>4, <2>6 DEF Env!Sweep
    <3> QED
      BY <1>8, <2>1, <2>3, <2>4, <2>5, <2>6, <3>1 DEF EnvAlone, Working
  <2>7. CASE todo = {} /\ then = "idle"
    <3>1. r.at = "idle"
      BY <1>4, <2>7 DEF Env!Sweep, Env!Idle
    <3> QED
      BY <1>8, <2>4, <2>5, <3>1 DEF EnvAlone, Working
  <2>8. CASE todo = {} /\ then = "terminate"
    <3>1. r.at = "terminate" /\ Live(envs') = {}
      BY <1>4, <2>3, <2>8 DEF Env!Sweep
    <3> QED
      BY <1>8, <2>4, <2>5, <3>1 DEF EnvAlone, Working
  <2> QED
    BY <2>1, <2>6, <2>7, <2>8
<1>13. \A j, k \in Live(envs') : envs'[j].slot = envs'[k].slot => j = k
  BY <1>6, <1>7 DEF EnvInv, Live
<1>14. ~ended' => count' <= Cardinality(Live(envs'))
  <2>1. ~ended => count <= Cardinality(Live(envs))
    BY DEF EnvInv
  <2> QED
    BY <1>1, <1>9, <1>10, <2>1
<1>15. EnvTyped(r)
  <2>1. then \in {"idle", "terminate"}
    BY <1>1, <1>3 DEF EnvInv, EnvTyped, Env!At
  <2>2. CASE todo # {}
    BY <1>4, <2>1, <2>2 DEF Env!Sweep, EnvTyped
  <2>3. CASE todo = {}
    BY <1>4, <2>1, <2>3 DEF Env!Sweep, EnvTyped, Env!Idle
  <2> QED
    BY <2>2, <2>3
<1>16. ended' \in BOOLEAN /\ failed' \in BOOLEAN /\ ns' \in [Slots -> {"none", "up", "terminating"}]
  BY <1>1 DEF EnvInv
<1> QED
  BY <1>1, <1>5, <1>6, <1>9, <1>12, <1>13, <1>14, <1>15, <1>16, EnvFrame

LEMMA EnvDestroyByCompetition == EnvInv /\ (\E t : Env!DestroyByCompetition(t)) => EnvInv'
<1> SUFFICES ASSUME EnvInv, NEW t, Env!DestroyByCompetition(t) PROVE EnvInv'
  OBVIOUS
<1>1. Env!At(t, "terminate") /\ ended' = TRUE /\ UNCHANGED <<count, ns, left, failed>>
      /\ thr' = [thr EXCEPT ![t] = Env!Idle]
  BY DEF Env!DestroyByCompetition, Env!Goes
<1>2. envs' = [k \in DOMAIN envs |-> [envs[k] EXCEPT !.status = "destroyed"]]
  BY DEF Env!DestroyByCompetition
<1>3. \A k \in DOMAIN envs : envs'[k] \in EnvRow /\ envs'[k].status = "destroyed"
  <2>1. \A k \in DOMAIN envs : envs[k] \in EnvRow
    BY RowTyped DEF EnvInv
  <2> QED
    BY <1>2, <2>1 DEF EnvRow, EnvStatuses
<1>4. DOMAIN envs' = DOMAIN envs /\ Live(envs') = {}
  BY <1>2, <1>3 DEF Live
<1>5. envs' \in EnvRows
  <2>1. DOMAIN envs = 1 .. Len(envs) /\ Len(envs) \in Nat
    BY LiveFinite DEF EnvInv
  <2>2. envs' \in [1 .. Len(envs) -> EnvRow]
    BY <1>2, <1>3, <2>1
  <2> QED
    BY <2>1, <2>2, SeqDef DEF EnvRows
<1>6. thr'[t] = Env!Idle /\ EnvTyped(Env!Idle)
  BY <1>1, EnvThread DEF Env!Idle, EnvTyped
<1>7. ASSUME EnvAlone(t) PROVE EnvAlone(t)'
  <2>1. Live(envs) = {}
    BY <1>1, <1>7 DEF EnvAlone, Env!At
  <2>2. ~failed' => count' = Cardinality(Live(envs'))
    BY <1>1, <1>4, <1>7, <2>1 DEF EnvAlone
  <2> QED
    BY <1>3, <1>4, <1>6, <2>2 DEF EnvAlone, Env!Idle, Working
<1>8. count' \in Nat /\ failed' \in BOOLEAN /\ ns' \in [Slots -> {"none", "up", "terminating"}]
  BY <1>1 DEF EnvInv
<1> QED
  BY <1>1, <1>4, <1>5, <1>6, <1>7, <1>8, EnvFrame

LEMMA EnvNamespaceGone == EnvInv /\ (\E s \in Slots : Env!NamespaceGone(s)) => EnvInv'
<1> SUFFICES ASSUME EnvInv, NEW s \in Slots, Env!NamespaceGone(s) PROVE EnvInv'
  OBVIOUS
<1>1. UNCHANGED <<ended, count, envs, thr, left, failed>>
      /\ ns[s] = "terminating" /\ ns' = [ns EXCEPT ![s] = "none"]
  BY DEF Env!NamespaceGone
<1>2. /\ ns' \in [Slots -> {"none", "up", "terminating"}]
      /\ \A z \in Slots : ns[z] = "up" => ns'[z] = "up"
  BY <1>1 DEF EnvInv
<1>3. ASSUME NEW t, DOMAIN thr' = {t} PROVE EnvAlone(t)'
  <2>1. EnvAlone(t)
    BY <1>1, <1>3 DEF EnvInv
  <2>2. \A k \in DOMAIN envs : envs[k].slot \in Slots
    BY RowTyped DEF EnvInv
  <2>3. thr[t].at = "apply" => ns'[envs[thr[t].k].slot] = "up"
    BY <1>2, <2>1, <2>2 DEF EnvAlone, Working, Live
  <2>4. \A k \in DOMAIN envs :
          envs[k].status = "running" =>
             ns'[envs[k].slot] = "up" \/ (thr[t].at = "mark" /\ k = Env!Newest(thr[t].todo))
    BY <1>2, <2>1, <2>2 DEF EnvAlone
  <2> QED
    BY <1>1, <2>1, <2>3, <2>4 DEF EnvAlone
<1> QED
  BY <1>1, <1>2, <1>3 DEF EnvInv

LEMMA EnvStep == EnvInv /\ Env!Next => EnvInv'
<1> SUFFICES ASSUME EnvInv, Env!Next PROVE EnvInv'
  OBVIOUS
<1>1. CASE \E slot \in Slots : Env!NamespaceGone(slot)
  BY <1>1, EnvNamespaceGone
<1>2. ASSUME NEW t,
             \/ \E slot \in Slots : Env!Start(t, slot)
             \/ \E k \in DOMAIN envs : Env!Reset(t, k) \/ Env!Destroy(t, k)
             \/ Env!InsertRow(t) \/ Env!ResetToCreating(t) \/ Env!ClearNamespace(t)
             \/ Env!CreateNamespace(t) \/ Env!Deploy(t) \/ Env!ApplyResult(t)
             \/ Env!RollbackNamespace(t) \/ Env!MarkError(t)
             \/ Env!DestroyNamespace(t) \/ Env!MarkDestroyed(t)
             \/ Env!FinishCompetition(t) \/ Env!RunEnvironmentRecycle(t) \/ Env!Terminate(t)
             \/ Env!DestroyByCompetition(t)
      PROVE  EnvInv'
  <2>1. CASE \/ \E slot \in Slots : Env!Start(t, slot)
             \/ \E k \in DOMAIN envs : Env!Reset(t, k) \/ Env!Destroy(t, k)
             \/ Env!FinishCompetition(t) \/ Env!RunEnvironmentRecycle(t) \/ Env!Terminate(t)
    BY <2>1, EnvBegins
  <2>2. CASE Env!InsertRow(t) \/ Env!ResetToCreating(t) \/ Env!ClearNamespace(t) \/ Env!CreateNamespace(t)
    BY <2>2, EnvInsertRow, EnvResetToCreating, EnvClearNamespace, EnvCreateNamespace
  <2>3. CASE Env!Deploy(t) \/ Env!ApplyResult(t) \/ Env!RollbackNamespace(t) \/ Env!MarkError(t)
    BY <2>3, EnvDeploy, EnvApplyResult, EnvRollbackNamespace, EnvMarkError
  <2>4. CASE Env!DestroyNamespace(t) \/ Env!MarkDestroyed(t) \/ Env!DestroyByCompetition(t)
    BY <2>4, EnvDestroyNamespace, EnvMarkDestroyed, EnvDestroyByCompetition
  <2> QED
    BY <1>2, <2>1, <2>2, <2>3, <2>4
<1> QED
  BY <1>1, <1>2 DEF Env!Next

LEMMA EnvStutter == EnvInv /\ UNCHANGED <<thr, envVars>> => EnvInv'
<1> SUFFICES ASSUME EnvInv, UNCHANGED <<thr, envVars>> PROVE EnvInv'
  OBVIOUS
<1>1. UNCHANGED <<thr, ended, count, envs, ns, failed>>
  BY DEF envVars
<1>2. \A t : EnvAlone(t) => EnvAlone(t)'
  BY <1>1 DEF EnvAlone
<1> QED
  BY <1>1, <1>2 DEF EnvInv

\* The environments keep their invariant, whichever services run.
LEMMA EnvHolds == Spec => [](part = "environments" => EnvInv)
<1> DEFINE I == part = "environments" => EnvInv
<1>1. Init => I
  BY EnvInit DEF Init
<1>2. I /\ [Next]_allVars => I'
  <2> SUFFICES ASSUME I, [Next]_allVars, part' = "environments" PROVE EnvInv'
    OBVIOUS
  <2>1. part = "environments" /\ EnvInv
    BY PartStays
  <2>2. CASE Next
    BY <2>1, <2>2, EnvStep DEF Next
  <2>3. CASE UNCHANGED allVars
    BY <2>1, <2>3, EnvStutter DEF allVars
  <2> QED
    BY <2>2, <2>3
<1> QED
  BY <1>1, <1>2, PTL DEF Spec, allVars

\* The counter of the quota holds no place for an environment that is gone, whatever
\* overlaps; one request at a time it is their number (environment_service.go,
\* recycleCompetitionEnvironments of scheduler.go).
THEOREM PlacesAreGivenBack == Spec => []QuotaCounts
<1>1. (part = "environments" => EnvInv) => QuotaCounts
  <2> SUFFICES ASSUME part = "environments", EnvInv PROVE Env!QuotaCounts
    BY DEF QuotaCounts
  <2>1. ~ended => count <= Cardinality(Env!Active)
    BY ActiveIsLive DEF EnvInv
  <2>2. ASSUME Env!Settled, ~failed PROVE count = Cardinality(Env!Active)
    <3>1. PICK t : DOMAIN thr = {t}
      BY <2>2, OneElement, SameCardinality DEF Env!Settled, EnvInv
    <3> QED
      BY <2>2, <3>1, ActiveIsLive, SameCardinality DEF EnvInv, EnvAlone
  <2>3. Env!Settled /\ ~failed => count = Cardinality(Env!Active)
    BY <2>2
  <2> QED
    BY <2>1, <2>3, SameCardinality DEF Env!QuotaCounts
<1> QED
  BY <1>1, EnvHolds, PTL

\* One request at a time, an environment that is said to run has its namespace
\* (applyProvisionedEnvironmentResult, and what deletes namespaces).
THEOREM RunningIsThere == Spec => []RunningHasNamespace
<1>1. (part = "environments" => EnvInv) => RunningHasNamespace
  <2> SUFFICES ASSUME part = "environments", EnvInv, Env!Settled,
                      NEW k \in DOMAIN envs, envs[k].status = "running"
               PROVE  ns[envs[k].slot] = "up"
    BY DEF RunningHasNamespace, Env!RunningHasNamespace
  <2>1. PICK t : DOMAIN thr = {t}
    BY OneElement, SameCardinality DEF Env!Settled, EnvInv
  <2>2. thr[t].at = "idle"
    BY <2>1 DEF Env!Settled, Env!Idle
  <2> QED
    BY <2>1, <2>2 DEF EnvInv, EnvAlone
<1> QED
  BY <1>1, EnvHolds, PTL

-----------------------------------------------------------------------------
(* The submissions and the review of their grades.                         *)

HwSteps == {"create", "answers", "autograde", "mark"}
GrSteps == {"override", "file", "approve", "clear", "grades", "warn", "reject", "unlock",
            "grant", "regrade", "refuse"}
LrnRow == [status : {"submitted", "graded"}, answers : Lrn!Answers, total : 0..4 \union {None},
           days : 0..MaxDays]
LrnRows == Seq(LrnRow)

\* The record of a handler at work on the submissions, when there are n of them.
HwTyped(r, n) ==
    /\ r.at = "create" => /\ r.no \in 1..MaxSubmissions /\ r.no <= n + 1
                          /\ r.paper \in Lrn!Answers /\ r.days \in 0..MaxDays
    /\ r.at \in {"answers", "autograde"} => r.no \in 1..n /\ r.paper \in Lrn!Answers
    /\ r.at = "mark" => /\ r.no \in 1..n /\ r.answers \in Lrn!Answers
                        /\ \A q \in DOMAIN r.marks : r.marks[q] \in {0, 2, 4}
                        /\ r = [at |-> "mark", no |-> r.no, answers |-> r.answers, marks |-> r.marks]

\* And of one at work on the review, the appeal a or the adjustment.
GrTyped(r, a) ==
    /\ r.at \in {"grant", "refuse", "regrade"} => a # None
    /\ r.at \in {"override", "grant", "regrade"} => r.score \in Lrn!Scores
    /\ r.at \in {"approve", "clear", "grades"} => r.score \in 0..4

\* A graded row has its points, but for the one whose marks are being written.
Marking(r, i) == r.at = "mark" /\ i = r.no
AddsUp(i) == subs[i].status = "graded" => subs[i].total = Lrn!Deducted(Lrn!Points(subs[i].answers), subs[i].days)

HwAlone(t) ==
    /\ thr[t].at \in {"answers", "autograde"} => subs[thr[t].no].status = "submitted"
    /\ thr[t].at = "autograde" => subs[thr[t].no].answers = thr[t].paper
    /\ thr[t].at = "mark" => subs[thr[t].no].answers = thr[t].answers
    /\ \A i \in DOMAIN subs \ torn : Marking(thr[t], i) \/ AddsUp(i)

\* The grade that was approved, the one an appeal was granted, and the warning.
GrAlone(t) ==
    /\ review.locked /\ appeal = None /\ thr[t].at \notin {"clear", "grades"} => row # None /\ row.score = granted
    /\ thr[t].at \in {"clear", "grades"} => thr[t].score = granted
    /\ thr[t].at = "grades" => row = None
    /\ appeal # None /\ appeal.status = "approved" /\ thr[t].at # "regrade" => row.score = appeal.new
    /\ thr[t].at \in {"grant", "regrade"} => thr[t].grade = appeal.grade
    /\ thr[t].at = "regrade" => appeal.status = "approved" /\ appeal.new = thr[t].score
    /\ thr[t].at \notin {"grades", "warn"} => (Lrn!Low => warned # "none") /\ (warned = "pending" => Lrn!Low)

\* The submissions are numbered and typed.
HwFacts ==
    /\ course \in {"active", "ended", "archived"} /\ day \in 0..MaxDays /\ faults \in Nat
    /\ subs \in LrnRows /\ Len(subs) <= MaxSubmissions
    /\ \A i \in DOMAIN subs : subs[i].status = "graded" <=> subs[i].total # None

\* An appeal is against the row there is.
GrFacts ==
    /\ override \in Lrn!Scores \union {None}
    /\ review \in [status : {"none", "pending", "approved", "rejected", "unsubmitted"}, locked : BOOLEAN]
    /\ review.locked => review.status = "approved"
    /\ rows \in Nat /\ (row = None \/ (row \in [score : 0..4, id : Nat] /\ row.id \in 1..rows))
    /\ appeal = None \/ appeal \in [status : {"pending", "approved", "rejected"}, grade : Nat,
                                    new : Lrn!Scores \union {None}]
    /\ appeal # None => row # None /\ row.id = appeal.grade
    /\ warned \in {"none", "pending", "handled", "resolved"}

LrnThreads ==
    /\ thr = [t \in DOMAIN thr |-> thr[t]] /\ IsFiniteSet(DOMAIN thr)
    /\ \A t \in DOMAIN thr : HwTyped(thr[t], Len(subs)) /\ GrTyped(thr[t], appeal)

LrnInv ==
    /\ LrnThreads /\ HwFacts /\ GrFacts
    /\ \A t : DOMAIN thr = {t} => HwAlone(t) /\ (faults = 0 => GrAlone(t))

\* The answers of a submission, written out.
LEMMA AnswersAre ==
    ASSUME NEW a
    PROVE  a \in Lrn!Answers <=> /\ a = [q \in DOMAIN a |-> a[q]]
                                 /\ DOMAIN a \subseteq {"choice", "essay"}
                                 /\ \A q \in DOMAIN a : a[q] \in {0, 2, Ungraded}
<1>1. ASSUME a \in Lrn!Answers
      PROVE  /\ a = [q \in DOMAIN a |-> a[q]] /\ DOMAIN a \subseteq {"choice", "essay"}
             /\ \A q \in DOMAIN a : a[q] \in {0, 2, Ungraded}
  <2>1. PICK D \in SUBSET {"choice", "essay"} : a \in [D -> {0, 2, Ungraded}]
    BY <1>1 DEF Lrn!Answers, Lrn!Questions
  <2> QED
    BY <2>1
<1>2. ASSUME a = [q \in DOMAIN a |-> a[q]], DOMAIN a \subseteq {"choice", "essay"},
             \A q \in DOMAIN a : a[q] \in {0, 2, Ungraded}
      PROVE  a \in Lrn!Answers
  <2>1. PICK D : D = DOMAIN a
    OBVIOUS
  <2>2. a \in [D -> {0, 2, Ungraded}]
    BY <1>2, <2>1
  <2> QED
    BY <1>2, <2>1, <2>2 DEF Lrn!Answers, Lrn!Questions
<1> QED
  BY <1>1, <1>2

\* A student who skips every question sends an empty paper.
LEMMA EmptyPaper == <<>> \in Lrn!Answers
<1>1. DOMAIN <<>> = {} /\ <<>> = [q \in DOMAIN <<>> |-> <<>>[q]]
  OBVIOUS
<1> QED
  BY <1>1, AnswersAre

\* The points of a paper, and what is left of them after some days.
LEMMA PointsTyped ==
    ASSUME NEW a \in Lrn!Answers
    PROVE  Lrn!Points(a) \in {0, 2, 4}
<1>1. ASSUME NEW q PROVE Lrn!Score(a, q) \in {0, 2}
  BY AnswersAre DEF Lrn!Score
<1>2. PICK x \in {0, 2} : x = Lrn!Score(a, "choice")
  BY <1>1
<1>3. PICK y \in {0, 2} : y = Lrn!Score(a, "essay")
  BY <1>1
<1>4. Lrn!Points(a) = x + y
  BY <1>2, <1>3 DEF Lrn!Points
<1> QED
  BY <1>4

LEMMA DeductedTyped ==
    ASSUME NEW a \in Lrn!Answers, NEW d \in Nat
    PROVE  Lrn!Deducted(Lrn!Points(a), d) \in 0..4
<1>1. PICK p \in {0, 2, 4} : p = Lrn!Points(a)
  BY PointsTyped
<1>2. CASE d = 0
  <2>1. d * p = 0
    BY <1>2
  <2> QED
    BY <1>1, <2>1 DEF Lrn!Deducted
<1>3. CASE d = 1
  <2>1. d * p = p
    BY <1>3
  <2> QED
    BY <1>1, <2>1 DEF Lrn!Deducted
<1>4. CASE d >= 2
  <2>1. ~(2 * p > d * p)
    <3>1. CASE p = 0
      BY <3>1
    <3>2. CASE p = 2
      BY <1>4, <3>2
    <3>3. CASE p = 4
      BY <1>4, <3>3
    <3> QED
      BY <3>1, <3>2, <3>3
  <2> QED
    BY <1>1, <2>1 DEF Lrn!Deducted
<1> QED
  BY <1>2, <1>3, <1>4

\* The row of a submission is written.
RowIs(R, k, new, Q) == Q = [R EXCEPT ![k] = new]

LEMMA LrnRowTyped ==
    ASSUME NEW R \in LrnRows, NEW j \in DOMAIN R
    PROVE  /\ R[j] \in LrnRow /\ R[j].status \in {"submitted", "graded"} /\ R[j].answers \in Lrn!Answers
           /\ R[j].total \in 0..4 \union {None} /\ R[j].days \in 0..MaxDays
<1>1. R[j] \in LrnRow
  BY DEF LrnRows
<1> QED
  BY <1>1 DEF LrnRow

LEMMA LrnRowsDomain ==
    ASSUME NEW R \in LrnRows
    PROVE  Len(R) \in Nat /\ DOMAIN R = 1..Len(R)
BY DEF LrnRows

LEMMA LrnRowWritten ==
    ASSUME NEW R \in LrnRows, NEW k \in DOMAIN R, NEW new \in LrnRow, NEW Q, RowIs(R, k, new, Q)
    PROVE  /\ Q \in LrnRows /\ DOMAIN Q = DOMAIN R /\ Len(Q) = Len(R)
           /\ Q[k] = new /\ \A j \in DOMAIN R \ {k} : Q[j] = R[j]
<1>1. DOMAIN Q = DOMAIN R /\ Q[k] = new /\ (\A j \in DOMAIN R \ {k} : Q[j] = R[j]) /\ Q = [j \in DOMAIN Q |-> Q[j]]
  BY DEF RowIs, LrnRows
<1>2. \A j \in DOMAIN Q : Q[j] \in LrnRow
  BY <1>1, LrnRowTyped
<1>3. Len(R) \in Nat /\ DOMAIN Q = 1..Len(R)
  BY <1>1, LrnRowsDomain
<1>4. Q \in [1..Len(R) -> LrnRow]
  BY <1>1, <1>2, <1>3
<1>5. Q \in LrnRows
  BY <1>3, <1>4, SeqDef DEF LrnRows
<1> QED
  BY <1>1, <1>3, <1>5, LenProperties DEF LrnRows

\* The row of a new submission is added.
RowAdded(R, new, Q) == Q = Append(R, new)

LEMMA LrnRowAdded ==
    ASSUME NEW R \in LrnRows, NEW new \in LrnRow, NEW Q, RowAdded(R, new, Q)
    PROVE  /\ Q \in LrnRows /\ Len(Q) = Len(R) + 1 /\ DOMAIN Q = DOMAIN R \union {Len(R) + 1}
           /\ Q[Len(R) + 1] = new /\ \A j \in DOMAIN R : Q[j] = R[j]
BY DEF LrnRows, RowAdded

\* A set of numbers that is not empty has a greatest one.
LEMMA GreatestIsThere ==
    ASSUME NEW n \in Nat, NEW S \in SUBSET (1..n), S # {}
    PROVE  Lrn!Max(S) \in S
<1> DEFINE D == {m \in Nat : n - m \in S}
<1>1. PICK k : k \in S
  OBVIOUS
<1>2. n - k \in D
  BY <1>1
<1>3. PICK m \in D : \A j \in D : m <= j
  BY <1>2, SmallestElement
<1>4. n - m \in S /\ m \in Nat
  BY <1>3
<1>5. ASSUME NEW j \in S PROVE n - m >= j
  <2>1. n - j \in D /\ j \in Nat
    OBVIOUS
  <2>2. m <= n - j
    <3> HIDE DEF D
    <3> QED
      BY <1>3, <2>1
  <2> QED
    BY <1>4, <2>1, <2>2
<1> QED
  BY <1>4, <1>5 DEF Lrn!Max

\* What a step of a handler has to establish.
LEMMA LrnFrame ==
    ASSUME LrnInv, NEW t \in DOMAIN thr, NEW r, thr' = [thr EXCEPT ![t] = r],
           Len(subs) <= Len(subs'), HwTyped(r, Len(subs')), GrTyped(r, appeal'), HwFacts', GrFacts',
           appeal # None => appeal' # None,
           HwAlone(t) /\ (faults = 0 => GrAlone(t)) => HwAlone(t)' /\ (faults' = 0 => GrAlone(t)')
    PROVE  LrnInv'
<1>1. /\ thr' = [u \in DOMAIN thr' |-> thr'[u]] /\ DOMAIN thr' = DOMAIN thr /\ IsFiniteSet(DOMAIN thr')
      /\ thr'[t] = r /\ \A u \in DOMAIN thr \ {t} : thr'[u] = thr[u]
  BY DEF LrnInv, LrnThreads
<1>2. ASSUME NEW u \in DOMAIN thr' PROVE HwTyped(thr'[u], Len(subs')) /\ GrTyped(thr'[u], appeal')
  <2>1. CASE u = t
    BY <1>1, <2>1
  <2>2. CASE u # t
    <3>1. PICK v : v = thr[u]
      OBVIOUS
    <3>2. HwTyped(v, Len(subs)) /\ GrTyped(v, appeal) /\ thr'[u] = v
      BY <1>1, <2>2, <3>1 DEF LrnInv, LrnThreads
    <3>3. Len(subs) \in Nat /\ Len(subs') \in Nat
      BY LrnRowsDomain DEF LrnInv, HwFacts
    <3>4. HwTyped(v, Len(subs'))
      BY <3>2, <3>3, LearningAssumption DEF HwTyped
    <3>5. GrTyped(v, appeal')
      BY <3>2 DEF GrTyped
    <3> QED
      BY <3>2, <3>4, <3>5
  <2> QED
    BY <2>1, <2>2
<1>3. ASSUME NEW u, DOMAIN thr' = {u} PROVE HwAlone(u)' /\ (faults' = 0 => GrAlone(u)')
  BY <1>1, <1>3 DEF LrnInv
<1> QED
  BY <1>1, <1>2, <1>3 DEF LrnInv, LrnThreads

\* A step of the review: the submissions stay what they were.
LEMMA GrMoves ==
    ASSUME LrnInv, NEW t \in DOMAIN thr, NEW r, thr' = [thr EXCEPT ![t] = r],
           thr[t].at \notin HwSteps, r.at \notin HwSteps, UNCHANGED <<course, policy, day, subs, torn>>,
           faults' = faults \/ faults' = faults + 1, GrTyped(r, appeal'), GrFacts',
           appeal # None => appeal' # None,
           faults = 0 /\ faults' = 0 /\ GrAlone(t) => GrAlone(t)'
    PROVE  LrnInv'
<1>1. thr'[t] = r
  BY DEF LrnInv, LrnThreads
<1>2. HwTyped(r, Len(subs')) /\ Len(subs) \in Nat /\ Len(subs) <= Len(subs') /\ faults \in Nat
  BY LrnRowsDomain DEF HwTyped, HwSteps, LrnInv, HwFacts
<1>3. HwFacts'
  BY DEF HwFacts, LrnInv
<1>4. ASSUME HwAlone(t) PROVE HwAlone(t)'
  <2>1. r.at \notin {"answers", "autograde", "mark", "create"}
    BY DEF HwSteps
  <2>2. ASSUME NEW i \in DOMAIN subs \ torn PROVE AddsUp(i)'
    <3>1. AddsUp(i)
      BY <1>4 DEF HwAlone, Marking, HwSteps
    <3> QED
      BY <3>1 DEF AddsUp, Lrn!Deducted
  <2> QED
    BY <1>1, <2>1, <2>2 DEF HwAlone
<1>5. faults' = 0 => faults = 0
  BY <1>2
<1> QED
  BY <1>2, <1>3, <1>4, <1>5, LrnFrame

\* A step of the submissions: the review stays what it was.
LEMMA HwMoves ==
    ASSUME LrnInv, NEW t \in DOMAIN thr, NEW r, thr' = [thr EXCEPT ![t] = r],
           thr[t].at \notin GrSteps, r.at \notin GrSteps,
           UNCHANGED <<override, review, row, rows, appeal, warned, granted>>,
           faults' = faults \/ faults' = faults + 1, Len(subs) <= Len(subs'),
           HwTyped(r, Len(subs')), HwFacts', HwAlone(t) => HwAlone(t)'
    PROVE  LrnInv'
<1>1. thr'[t] = r /\ faults \in Nat
  BY DEF LrnInv, LrnThreads, HwFacts
<1>2. GrTyped(r, appeal')
  BY DEF GrTyped, GrSteps
<1>3. GrFacts'
  BY DEF GrFacts, LrnInv
<1>4. ASSUME GrAlone(t) PROVE GrAlone(t)'
  <2>1. Lrn!Low' = Lrn!Low
    BY DEF Lrn!Low
  <2>2. /\ r.at \notin {"clear", "grades", "warn", "regrade", "grant"}
        /\ thr[t].at \notin {"clear", "grades", "warn", "regrade", "grant"}
    BY DEF GrSteps
  <2> QED
    BY <1>1, <1>4, <2>1, <2>2 DEF GrAlone
<1>5. faults' = 0 => faults = 0
  BY <1>1
<1> QED
  BY <1>2, <1>3, <1>4, <1>5, LrnFrame

\* An operation on the review begins.
LEMMA GrStarts ==
    ASSUME LrnInv, NEW t, NEW r, Lrn!Begins(t, "review", r),
           UNCHANGED <<Lrn!hwVars, Lrn!grVars>>,
           r.at \in {"override", "file", "approve", "reject", "unlock", "refuse", "grant"}, GrTyped(r, appeal),
           r.at = "grant" => r.grade = appeal.grade
    PROVE  LrnInv'
<1>1. /\ t \in DOMAIN thr /\ thr[t].at = "idle" /\ thr' = [thr EXCEPT ![t] = r] /\ faults' = faults
      /\ UNCHANGED <<course, policy, day, subs, torn, override, review, row, rows, appeal, warned, granted>>
  BY DEF Lrn!Begins, Lrn!Free, Lrn!Idle, Lrn!Goes, Lrn!hwVars, Lrn!grVars
<1>2. thr'[t] = r /\ GrTyped(r, appeal')
  BY <1>1 DEF LrnInv, LrnThreads
<1>3. GrFacts'
  BY <1>1 DEF GrFacts, LrnInv
<1>4. ASSUME GrAlone(t) PROVE GrAlone(t)'
  <2>1. Lrn!Low' = Lrn!Low
    BY <1>1 DEF Lrn!Low
  <2>2. r.at \notin {"clear", "grades", "warn", "regrade"}
    OBVIOUS
  <2> QED
    BY <1>1, <1>2, <1>4, <2>1, <2>2 DEF GrAlone
<1>5. thr[t].at \notin HwSteps /\ r.at \notin HwSteps
  BY <1>1 DEF HwSteps
<1> QED
  BY <1>1, <1>2, <1>3, <1>4, <1>5, GrMoves

\* The score of the course is a score.
LEMMA OfficialTyped ==
    ASSUME LrnInv, Lrn!Complete
    PROVE  Lrn!Official \in 0..4
<1>1. override \in Lrn!Scores \union {None} /\ subs \in LrnRows
  BY DEF LrnInv, GrFacts, HwFacts
<1>2. CASE override # None
  BY <1>1, <1>2 DEF Lrn!Official, Lrn!Scores
<1>3. CASE override = None
  <2>1. Len(subs) \in Nat /\ Lrn!GradedNumbers \subseteq 1..Len(subs) /\ Lrn!GradedNumbers # {}
    BY <1>1, LrnRowsDomain DEF Lrn!GradedNumbers, Lrn!Complete
  <2>2. PICK i : i = Lrn!Max(Lrn!GradedNumbers) /\ i \in Lrn!GradedNumbers
    BY <2>1, GreatestIsThere
  <2>3. subs[i].total \in 0..4 \union {None} /\ subs[i].total # None
    BY <1>1, <2>2, LrnRowTyped DEF Lrn!GradedNumbers, LrnInv, HwFacts
  <2> QED
    BY <1>3, <2>2, <2>3 DEF Lrn!Official
<1> QED
  BY <1>2, <1>3

LEMMA GrBegins ==
    ASSUME LrnInv, NEW t,
           \/ \E s \in Lrn!Scores : Lrn!AdjustCheck(t, s)
           \/ Lrn!ReviewRead(t) \/ Lrn!ApproveLoad(t) \/ Lrn!RejectLoad(t) \/ Lrn!UnlockLoad(t)
           \/ \E outcome \in {"grant", "refuse"}, s \in Lrn!Scores : Lrn!AppealLoad(t, outcome, s)
    PROVE  LrnInv'
<1>1. ASSUME NEW s \in Lrn!Scores, Lrn!AdjustCheck(t, s) PROVE LrnInv'
  <2> DEFINE r == [at |-> "override", score |-> s]
  <2>1. Lrn!Begins(t, "review", r) /\ UNCHANGED <<Lrn!hwVars, Lrn!grVars>>
    BY <1>1 DEF Lrn!AdjustCheck
  <2>2. r.at = "override" /\ r.score \in Lrn!Scores
    OBVIOUS
  <2> HIDE DEF r
  <2> QED
    BY <2>1, <2>2, GrStarts DEF GrTyped
<1>2. ASSUME Lrn!ReviewRead(t) PROVE LrnInv'
  <2> DEFINE r == [at |-> "file", first |-> review.status = "none"]
  <2>1. Lrn!Begins(t, "review", r) /\ UNCHANGED <<Lrn!hwVars, Lrn!grVars>>
    BY <1>2 DEF Lrn!ReviewRead
  <2>2. r.at = "file"
    OBVIOUS
  <2> HIDE DEF r
  <2> QED
    BY <2>1, <2>2, GrStarts DEF GrTyped
<1>3. ASSUME Lrn!ApproveLoad(t) PROVE LrnInv'
  <2> DEFINE r == [at |-> "approve", score |-> Lrn!Official]
  <2>1. Lrn!Begins(t, "review", r) /\ UNCHANGED <<Lrn!hwVars, Lrn!grVars>>
    BY <1>3 DEF Lrn!ApproveLoad
  <2>2. r.at = "approve" /\ r.score \in 0..4
    BY <1>3, OfficialTyped DEF Lrn!ApproveLoad
  <2> HIDE DEF r
  <2> QED
    BY <2>1, <2>2, GrStarts DEF GrTyped
<1>4. ASSUME Lrn!RejectLoad(t) PROVE LrnInv'
  <2> DEFINE r == [at |-> "reject"]
  <2>1. Lrn!Begins(t, "review", r) /\ UNCHANGED <<Lrn!hwVars, Lrn!grVars>>
    BY <1>4 DEF Lrn!RejectLoad
  <2>2. r.at = "reject"
    OBVIOUS
  <2> HIDE DEF r
  <2> QED
    BY <2>1, <2>2, GrStarts DEF GrTyped
<1>5. ASSUME Lrn!UnlockLoad(t) PROVE LrnInv'
  <2> DEFINE r == [at |-> "unlock"]
  <2>1. Lrn!Begins(t, "review", r) /\ UNCHANGED <<Lrn!hwVars, Lrn!grVars>>
    BY <1>5 DEF Lrn!UnlockLoad
  <2>2. r.at = "unlock"
    OBVIOUS
  <2> HIDE DEF r
  <2> QED
    BY <2>1, <2>2, GrStarts DEF GrTyped
<1>6. ASSUME NEW outcome \in {"grant", "refuse"}, NEW s \in Lrn!Scores, Lrn!AppealLoad(t, outcome, s) PROVE LrnInv'
  <2> DEFINE r == [at |-> outcome, score |-> s, grade |-> appeal.grade]
  <2>1. Lrn!Begins(t, "review", r) /\ UNCHANGED <<Lrn!hwVars, Lrn!grVars>> /\ appeal # None
    BY <1>6 DEF Lrn!AppealLoad
  <2>2. r.at \in {"grant", "refuse"} /\ r.score \in Lrn!Scores /\ r.grade = appeal.grade
    OBVIOUS
  <2> HIDE DEF r
  <2> QED
    BY <2>1, <2>2, GrStarts DEF GrTyped
<1> QED
  BY <1>1, <1>2, <1>3, <1>4, <1>5, <1>6

\* The record of a handler that continues.
LEMMA LrnThread ==
    ASSUME LrnInv, NEW t, NEW step, NEW r, Lrn!At(t, step), Lrn!Continues(t, r)
    PROVE  /\ t \in DOMAIN thr /\ thr[t].at = step /\ thr' = [thr EXCEPT ![t] = r]
           /\ thr'[t] = r /\ faults' = faults /\ HwTyped(thr[t], Len(subs)) /\ GrTyped(thr[t], appeal)
BY DEF LrnInv, LrnThreads, Lrn!At, Lrn!Continues, Lrn!Goes

LEMMA IdleTyped == (\A n : HwTyped(Lrn!Idle, n)) /\ (\A a : GrTyped(Lrn!Idle, a)) /\ Lrn!Idle.at = "idle"
BY DEF Lrn!Idle, HwTyped, GrTyped

\* The last statement of a handler of the review that leaves grades and appeals alone.
LEMMA GrReturns ==
    ASSUME LrnInv, NEW t, NEW step \in {"override", "file", "reject", "unlock", "refuse"},
           Lrn!At(t, step), Lrn!Returns(t),
           UNCHANGED <<course, policy, day, subs, torn, row, rows, warned, granted>>, GrFacts',
           review'.locked => review.locked, appeal' = None <=> appeal = None,
           appeal' # None /\ appeal'.status = "approved" => appeal' = appeal
    PROVE  LrnInv'
<1>1. /\ t \in DOMAIN thr /\ thr[t].at = step /\ thr' = [thr EXCEPT ![t] = Lrn!Idle]
      /\ thr'[t] = Lrn!Idle /\ faults' = faults
  BY LrnThread DEF Lrn!Returns
<1>2. (\A a : GrTyped(Lrn!Idle, a)) /\ Lrn!Idle.at = "idle"
  BY IdleTyped
<1>3. ASSUME GrAlone(t) PROVE GrAlone(t)'
  <2>1. Lrn!Low' = Lrn!Low
    BY DEF Lrn!Low
  <2>2. step \notin {"clear", "grades", "warn", "regrade"}
    OBVIOUS
  <2>3. thr'[t].at = "idle"
    BY <1>1, <1>2
  <2>4. review'.locked /\ appeal' = None => row' # None /\ row'.score = granted'
    BY <1>1, <1>3, <2>2 DEF GrAlone
  <2>5. appeal' # None /\ appeal'.status = "approved" => row'.score = appeal'.new
    BY <1>1, <1>3, <2>2 DEF GrAlone
  <2>6. (Lrn!Low' => warned' # "none") /\ (warned' = "pending" => Lrn!Low')
    BY <1>1, <1>3, <2>1, <2>2 DEF GrAlone
  <2> QED
    BY <2>3, <2>4, <2>5, <2>6 DEF GrAlone
<1>4. thr[t].at \notin HwSteps /\ Lrn!Idle.at \notin HwSteps
  BY <1>1, <1>2 DEF HwSteps
<1> QED
  BY <1>1, <1>2, <1>3, <1>4, GrMoves

LEMMA GrAdjustWrite == LrnInv /\ (\E t : Lrn!AdjustWrite(t)) => LrnInv'
<1> SUFFICES ASSUME LrnInv, NEW t, Lrn!AdjustWrite(t) PROVE LrnInv'
  OBVIOUS
<1>1. /\ Lrn!At(t, "override") /\ Lrn!Returns(t) /\ override' = thr[t].score
      /\ UNCHANGED <<course, policy, day, subs, torn, review, row, rows, appeal, warned, granted>>
  BY DEF Lrn!AdjustWrite, Lrn!hwVars
<1>2. override' \in Lrn!Scores
  BY <1>1, LrnThread DEF Lrn!Returns, GrTyped
<1>3. GrFacts'
  BY <1>1, <1>2 DEF GrFacts, LrnInv
<1> QED
  BY <1>1, <1>3, GrReturns

LEMMA GrReviewFile == LrnInv /\ (\E t : Lrn!ReviewFile(t)) => LrnInv'
<1> SUFFICES ASSUME LrnInv, NEW t, Lrn!ReviewFile(t) PROVE LrnInv'
  OBVIOUS
<1>1. /\ Lrn!At(t, "file") /\ Lrn!Returns(t)
      /\ review' = review \/ review' = [status |-> "pending", locked |-> FALSE]
      /\ UNCHANGED <<course, policy, day, subs, torn, override, row, rows, appeal, warned, granted>>
  BY DEF Lrn!ReviewFile, Lrn!hwVars
<1>2. GrFacts' /\ (review'.locked => review.locked)
  <2>1. CASE review' = review
    BY <1>1, <2>1 DEF GrFacts, LrnInv
  <2>2. CASE review' = [status |-> "pending", locked |-> FALSE]
    BY <1>1, <2>2 DEF GrFacts, LrnInv
  <2> QED
    BY <1>1, <2>1, <2>2
<1> QED
  BY <1>1, <1>2, GrReturns

LEMMA GrRejectWrite == LrnInv /\ (\E t : Lrn!RejectWrite(t)) => LrnInv'
<1> SUFFICES ASSUME LrnInv, NEW t, Lrn!RejectWrite(t) PROVE LrnInv'
  OBVIOUS
<1>1. /\ Lrn!At(t, "reject") /\ Lrn!Returns(t) /\ review' = [status |-> "rejected", locked |-> FALSE]
      /\ UNCHANGED <<course, policy, day, subs, torn, override, row, rows, appeal, warned, granted>>
  BY DEF Lrn!RejectWrite, Lrn!hwVars
<1>2. GrFacts' /\ (review'.locked => review.locked)
  BY <1>1 DEF GrFacts, LrnInv
<1> QED
  BY <1>1, <1>2, GrReturns

LEMMA GrUnlockWrite == LrnInv /\ (\E t : Lrn!UnlockWrite(t)) => LrnInv'
<1> SUFFICES ASSUME LrnInv, NEW t, Lrn!UnlockWrite(t) PROVE LrnInv'
  OBVIOUS
<1>1. /\ Lrn!At(t, "unlock") /\ Lrn!Returns(t) /\ review' = [status |-> "unsubmitted", locked |-> FALSE]
      /\ UNCHANGED <<course, policy, day, subs, torn, override, row, rows, appeal, warned, granted>>
  BY DEF Lrn!UnlockWrite, Lrn!hwVars
<1>2. GrFacts' /\ (review'.locked => review.locked)
  BY <1>1 DEF GrFacts, LrnInv
<1> QED
  BY <1>1, <1>2, GrReturns

\* The row of the appeal, written out.
LEMMA AppealTyped ==
    ASSUME LrnInv, appeal # None
    PROVE  /\ appeal \in [status : {"pending", "approved", "rejected"}, grade : Nat,
                          new : Lrn!Scores \union {None}]
           /\ appeal.grade \in Nat /\ appeal.new \in Lrn!Scores \union {None}
           /\ row # None /\ row.id = appeal.grade /\ row \in [score : 0..4, id : Nat]
           /\ row.id \in 1..rows
BY DEF LrnInv, GrFacts

\* The status and the score of the appeal are written.
Ruled(a, s, n, b) == b = [a EXCEPT !.status = s, !.new = n]

LEMMA AppealRuled ==
    ASSUME LrnInv, appeal # None, NEW s \in {"pending", "approved", "rejected"},
           NEW n \in Lrn!Scores \union {None}, NEW b, Ruled(appeal, s, n, b)
    PROVE  /\ b \in [status : {"pending", "approved", "rejected"}, grade : Nat, new : Lrn!Scores \union {None}]
           /\ b.status = s /\ b.new = n /\ b.grade = appeal.grade /\ b # None
<1>1. /\ b \in [status : {"pending", "approved", "rejected"}, grade : Nat, new : Lrn!Scores \union {None}]
      /\ b.status = s /\ b.new = n /\ b.grade = appeal.grade
  BY AppealTyped DEF Ruled
<1> QED
  BY <1>1, LearningAssumption DEF Lrn!Scores

LEMMA GrAppealReject == LrnInv /\ (\E t : Lrn!AppealReject(t)) => LrnInv'
<1> SUFFICES ASSUME LrnInv, NEW t, Lrn!AppealReject(t) PROVE LrnInv'
  OBVIOUS
<1>1. /\ Lrn!At(t, "refuse") /\ Lrn!Returns(t) /\ appeal' = [appeal EXCEPT !.status = "rejected"]
      /\ UNCHANGED <<course, policy, day, subs, torn, override, review, row, rows, warned, granted>>
  BY DEF Lrn!AppealReject, Lrn!hwVars
<1>2. appeal # None
  BY <1>1, LrnThread DEF Lrn!Returns, GrTyped
<1>3. Ruled(appeal, "rejected", appeal.new, appeal')
  BY <1>1, <1>2, AppealTyped DEF Ruled
<1>4. /\ appeal' \in [status : {"pending", "approved", "rejected"}, grade : Nat, new : Lrn!Scores \union {None}]
      /\ appeal'.status = "rejected" /\ appeal'.grade = appeal.grade /\ appeal' # None
  BY <1>2, <1>3, AppealTyped, AppealRuled
<1>5. GrFacts'
  BY <1>1, <1>2, <1>4 DEF GrFacts, LrnInv
<1> QED
  BY <1>1, <1>2, <1>4, <1>5, GrReturns

\* The statements of the approval and of the appeal.
LEMMA GrApproveStatus == LrnInv /\ (\E t : Lrn!ApproveStatus(t)) => LrnInv'
<1> SUFFICES ASSUME LrnInv, NEW t, Lrn!ApproveStatus(t) PROVE LrnInv'
  OBVIOUS
<1>1. PICK r : r = [thr[t] EXCEPT !.at = "clear"]
  OBVIOUS
<1>2. /\ Lrn!At(t, "approve") /\ Lrn!Continues(t, r)
      /\ review' = [status |-> "approved", locked |-> TRUE] /\ granted' = thr[t].score
      /\ UNCHANGED <<course, policy, day, subs, torn, override, row, rows, appeal, warned>>
  BY <1>1 DEF Lrn!ApproveStatus, Lrn!hwVars
<1>3. /\ t \in DOMAIN thr /\ thr[t].at = "approve" /\ thr' = [thr EXCEPT ![t] = r]
      /\ thr'[t] = r /\ faults' = faults /\ GrTyped(thr[t], appeal)
  BY <1>2, LrnThread
<1>4. r.at = "clear" /\ r.score = thr[t].score /\ r.score \in 0..4
  BY <1>1, <1>3 DEF GrTyped
<1>5. GrTyped(r, appeal')
  BY <1>4 DEF GrTyped
<1>6. GrFacts'
  BY <1>2 DEF GrFacts, LrnInv
<1>7. ASSUME GrAlone(t) PROVE GrAlone(t)'
  <2>1. Lrn!Low' = Lrn!Low
    BY <1>2 DEF Lrn!Low
  <2> QED
    BY <1>2, <1>3, <1>4, <1>7, <2>1 DEF GrAlone
<1>8. thr[t].at \notin HwSteps /\ r.at \notin HwSteps
  BY <1>3, <1>4 DEF HwSteps
<1> QED
  BY <1>2, <1>3, <1>5, <1>6, <1>7, <1>8, GrMoves

LEMMA GrApproveClear == LrnInv /\ (\E t : Lrn!ApproveClear(t)) => LrnInv'
<1> SUFFICES ASSUME LrnInv, NEW t, Lrn!ApproveClear(t) PROVE LrnInv'
  OBVIOUS
<1>1. /\ Lrn!At(t, "clear")
      /\ UNCHANGED <<course, policy, day, subs, torn, override, review, rows, appeal, warned, granted>>
  BY DEF Lrn!ApproveClear, Lrn!hwVars
<1>2. CASE row # None /\ appeal # None
  <2>1. Lrn!Continues(t, Lrn!Idle) /\ row' = row
    BY <1>2 DEF Lrn!ApproveClear, Lrn!Returns
  <2>2. /\ t \in DOMAIN thr /\ thr[t].at = "clear" /\ thr' = [thr EXCEPT ![t] = Lrn!Idle]
        /\ thr'[t] = Lrn!Idle /\ faults' = faults
    BY <1>1, <2>1, LrnThread
  <2>3. GrFacts'
    BY <1>1, <2>1 DEF GrFacts, LrnInv
  <2>4. ASSUME GrAlone(t) PROVE GrAlone(t)'
    <3>1. Lrn!Low' = Lrn!Low
      BY <2>1 DEF Lrn!Low
    <3>2. thr'[t].at = "idle"
      BY <2>2, IdleTyped
    <3> QED
      BY <1>1, <1>2, <2>1, <2>2, <2>4, <3>1, <3>2 DEF GrAlone
  <2>5. thr[t].at \notin HwSteps /\ Lrn!Idle.at \notin HwSteps
    BY <2>2, IdleTyped DEF HwSteps
  <2> QED
    BY <1>1, <2>1, <2>2, <2>3, <2>4, <2>5, IdleTyped, GrMoves
<1>3. CASE ~(row # None /\ appeal # None)
  <2>1. PICK r : r = [thr[t] EXCEPT !.at = "grades"]
    OBVIOUS
  <2>2. Lrn!Continues(t, r) /\ row' = None
    BY <1>3, <2>1 DEF Lrn!ApproveClear
  <2>3. /\ t \in DOMAIN thr /\ thr[t].at = "clear" /\ thr' = [thr EXCEPT ![t] = r]
        /\ thr'[t] = r /\ faults' = faults /\ GrTyped(thr[t], appeal)
    BY <1>1, <2>2, LrnThread
  <2>4. r.at = "grades" /\ r.score = thr[t].score /\ r.score \in 0..4
    BY <2>1, <2>3 DEF GrTyped
  <2>5. GrTyped(r, appeal')
    BY <2>4 DEF GrTyped
  <2>6. appeal = None
    BY <1>3, AppealTyped
  <2>7. GrFacts'
    BY <1>1, <2>2, <2>6 DEF GrFacts, LrnInv
  <2>8. ASSUME GrAlone(t) PROVE GrAlone(t)'
    BY <1>1, <2>2, <2>3, <2>4, <2>6, <2>8 DEF GrAlone
  <2>9. thr[t].at \notin HwSteps /\ r.at \notin HwSteps
    BY <2>3, <2>4 DEF HwSteps
  <2> QED
    BY <1>1, <2>2, <2>3, <2>5, <2>7, <2>8, <2>9, GrMoves
<1> QED
  BY <1>2, <1>3

\* The semester grade is written.
Scored(a, s, b) == b = [a EXCEPT !.score = s]

LEMMA GradeScored ==
    ASSUME NEW g \in [score : 0..4, id : Nat], NEW s \in 0..4, NEW b, Scored(g, s, b)
    PROVE  /\ b \in [score : 0..4, id : Nat] /\ b.score = s /\ b.id = g.id /\ b # None
<1>1. b \in [score : 0..4, id : Nat] /\ b.score = s /\ b.id = g.id
  BY DEF Scored
<1> QED
  BY <1>1, LearningAssumption

LEMMA GrApproveWrite == LrnInv /\ (\E t : Lrn!ApproveWrite(t)) => LrnInv'
<1> SUFFICES ASSUME LrnInv, NEW t, Lrn!ApproveWrite(t) PROVE LrnInv'
  OBVIOUS
<1>1. PICK r : r = [at |-> "warn"]
  OBVIOUS
<1>2. /\ Lrn!At(t, "grades") /\ Lrn!Continues(t, r)
      /\ UNCHANGED <<course, policy, day, subs, torn, override, review, appeal, warned, granted>>
  BY <1>1 DEF Lrn!ApproveWrite, Lrn!hwVars
<1>3. /\ t \in DOMAIN thr /\ thr[t].at = "grades" /\ thr' = [thr EXCEPT ![t] = r]
      /\ thr'[t] = r /\ faults' = faults /\ GrTyped(thr[t], appeal)
  BY <1>2, LrnThread
<1>4. PICK s \in 0..4 : s = thr[t].score
  BY <1>3 DEF GrTyped
<1>5. r.at = "warn" /\ GrTyped(r, appeal')
  BY <1>1 DEF GrTyped
<1>6. /\ row' \in [score : 0..4, id : Nat] /\ row'.score = s /\ row' # None
      /\ rows' \in Nat /\ row'.id \in 1..rows' /\ (row # None => row'.id = row.id)
  <2>1. CASE row = None
    <3>1. row' = [score |-> s, id |-> rows + 1] /\ rows' = rows + 1 /\ rows \in Nat
      BY <1>4, <2>1 DEF Lrn!ApproveWrite, LrnInv, GrFacts
    <3>2. row' \in [score : 0..4, id : Nat]
      BY <3>1
    <3> QED
      BY <2>1, <3>1, <3>2, LearningAssumption
  <2>2. CASE row # None
    <3>1. row' = [row EXCEPT !.score = s] /\ rows' = rows
      BY <1>4, <2>2 DEF Lrn!ApproveWrite
    <3>2. row \in [score : 0..4, id : Nat] /\ row.id \in 1..rows /\ rows \in Nat
      BY <2>2 DEF LrnInv, GrFacts
    <3>3. Scored(row, s, row')
      BY <3>1 DEF Scored
    <3>4. row' \in [score : 0..4, id : Nat] /\ row'.score = s /\ row'.id = row.id /\ row' # None
      BY <3>2, <3>3, GradeScored
    <3> QED
      BY <3>1, <3>2, <3>4
  <2> QED
    BY <2>1, <2>2
<1>7. GrFacts'
  BY <1>2, <1>6 DEF GrFacts, LrnInv
<1>8. ASSUME GrAlone(t) PROVE GrAlone(t)'
  <2>1. row = None /\ s = granted /\ appeal = None
    BY <1>3, <1>4, <1>8, AppealTyped DEF GrAlone
  <2> QED
    BY <1>2, <1>3, <1>5, <1>6, <2>1 DEF GrAlone
<1>9. thr[t].at \notin HwSteps /\ r.at \notin HwSteps
  BY <1>3, <1>5 DEF HwSteps
<1> QED
  BY <1>2, <1>3, <1>5, <1>7, <1>8, <1>9, GrMoves

LEMMA GrRefreshWarnings == LrnInv /\ (\E t : Lrn!RefreshWarnings(t)) => LrnInv'
<1> SUFFICES ASSUME LrnInv, NEW t, Lrn!RefreshWarnings(t) PROVE LrnInv'
  OBVIOUS
<1>1. /\ Lrn!At(t, "warn") /\ Lrn!Continues(t, Lrn!Idle)
      /\ UNCHANGED <<course, policy, day, subs, torn, override, review, row, rows, appeal, granted>>
  BY DEF Lrn!RefreshWarnings, Lrn!hwVars, Lrn!Returns
<1>2. /\ t \in DOMAIN thr /\ thr[t].at = "warn" /\ thr' = [thr EXCEPT ![t] = Lrn!Idle]
      /\ thr'[t] = Lrn!Idle /\ faults' = faults
  BY <1>1, LrnThread
<1>3. warned \in {"none", "pending", "handled", "resolved"}
  BY DEF LrnInv, GrFacts
<1>4. /\ warned' \in {"none", "pending", "handled", "resolved"}
      /\ Lrn!Low => warned' # "none"
      /\ warned' = "pending" => Lrn!Low
  BY <1>3 DEF Lrn!RefreshWarnings
<1>5. GrFacts'
  BY <1>1, <1>4 DEF GrFacts, LrnInv
<1>6. ASSUME GrAlone(t) PROVE GrAlone(t)'
  <2>1. Lrn!Low' = Lrn!Low
    BY <1>1 DEF Lrn!Low
  <2>2. thr'[t].at = "idle"
    BY <1>2, IdleTyped
  <2> QED
    BY <1>1, <1>2, <1>4, <1>6, <2>1, <2>2 DEF GrAlone
<1>7. thr[t].at \notin HwSteps /\ Lrn!Idle.at \notin HwSteps
  BY <1>2, IdleTyped DEF HwSteps
<1> QED
  BY <1>1, <1>2, <1>5, <1>6, <1>7, IdleTyped, GrMoves

LEMMA GrCreateAppeal == LrnInv /\ (\E t : Lrn!CreateAppeal(t)) => LrnInv'
<1> SUFFICES ASSUME LrnInv, NEW t, Lrn!CreateAppeal(t) PROVE LrnInv'
  OBVIOUS
<1>1. /\ t \in DOMAIN thr /\ thr[t] = Lrn!Idle /\ thr' = [thr EXCEPT ![t] = Lrn!Idle] /\ faults' = faults
      /\ row # None /\ appeal = None /\ appeal' = [status |-> "pending", grade |-> row.id, new |-> None]
      /\ UNCHANGED <<course, policy, day, subs, torn, override, review, row, rows, warned, granted>>
  BY DEF Lrn!CreateAppeal, Lrn!Begins, Lrn!Free, Lrn!Goes, Lrn!hwVars
<1>2. thr'[t] = thr[t] /\ thr[t].at = "idle"
  BY <1>1, IdleTyped
<1>3. /\ appeal' \in [status : {"pending", "approved", "rejected"}, grade : Nat, new : Lrn!Scores \union {None}]
      /\ appeal'.status = "pending" /\ appeal'.grade = row.id
  BY <1>1 DEF LrnInv, GrFacts
<1>4. appeal' # None
  BY <1>3, LearningAssumption DEF Lrn!Scores
<1>5. GrFacts'
  BY <1>1, <1>3, <1>4 DEF GrFacts, LrnInv
<1>6. ASSUME GrAlone(t) PROVE GrAlone(t)'
  <2>1. Lrn!Low' = Lrn!Low
    BY <1>1 DEF Lrn!Low
  <2> QED
    BY <1>1, <1>2, <1>3, <1>4, <1>6, <2>1 DEF GrAlone
<1>7. thr[t].at \notin HwSteps /\ Lrn!Idle.at \notin HwSteps
  BY <1>2, IdleTyped DEF HwSteps
<1> QED
  BY <1>1, <1>2, <1>4, <1>5, <1>6, <1>7, IdleTyped, GrMoves

LEMMA GrHandleWarning == LrnInv /\ (\E t : Lrn!HandleWarning(t)) => LrnInv'
<1> SUFFICES ASSUME LrnInv, NEW t, Lrn!HandleWarning(t) PROVE LrnInv'
  OBVIOUS
<1>1. /\ t \in DOMAIN thr /\ thr[t] = Lrn!Idle /\ thr' = [thr EXCEPT ![t] = Lrn!Idle] /\ faults' = faults
      /\ warned' = "handled"
      /\ UNCHANGED <<course, policy, day, subs, torn, override, review, row, rows, appeal, granted>>
  BY DEF Lrn!HandleWarning, Lrn!Begins, Lrn!Free, Lrn!Goes, Lrn!hwVars
<1>2. thr'[t] = thr[t] /\ thr[t].at = "idle"
  BY <1>1, IdleTyped
<1>3. GrFacts'
  BY <1>1 DEF GrFacts, LrnInv
<1>4. ASSUME GrAlone(t) PROVE GrAlone(t)'
  <2>1. Lrn!Low' = Lrn!Low
    BY <1>1 DEF Lrn!Low
  <2> QED
    BY <1>1, <1>2, <1>4, <2>1 DEF GrAlone
<1>5. thr[t].at \notin HwSteps /\ Lrn!Idle.at \notin HwSteps
  BY <1>2, IdleTyped DEF HwSteps
<1> QED
  BY <1>1, <1>2, <1>3, <1>4, <1>5, IdleTyped, GrMoves

LEMMA GrAppealGrant == LrnInv /\ (\E t : Lrn!AppealGrant(t)) => LrnInv'
<1> SUFFICES ASSUME LrnInv, NEW t, Lrn!AppealGrant(t) PROVE LrnInv'
  OBVIOUS
<1>1. PICK r : r = [thr[t] EXCEPT !.at = "regrade"]
  OBVIOUS
<1>2. /\ Lrn!At(t, "grant") /\ Lrn!Continues(t, r)
      /\ appeal' = [appeal EXCEPT !.status = "approved", !.new = thr[t].score]
      /\ UNCHANGED <<course, policy, day, subs, torn, override, review, row, rows, warned, granted>>
  BY <1>1 DEF Lrn!AppealGrant, Lrn!hwVars
<1>3. /\ t \in DOMAIN thr /\ thr[t].at = "grant" /\ thr' = [thr EXCEPT ![t] = r]
      /\ thr'[t] = r /\ faults' = faults /\ GrTyped(thr[t], appeal)
  BY <1>2, LrnThread
<1>4. PICK s \in Lrn!Scores : s = thr[t].score
  BY <1>3 DEF GrTyped
<1>5. appeal # None /\ Ruled(appeal, "approved", s, appeal')
  BY <1>2, <1>3, <1>4 DEF Ruled, GrTyped
<1>6. /\ appeal' \in [status : {"pending", "approved", "rejected"}, grade : Nat, new : Lrn!Scores \union {None}]
      /\ appeal'.status = "approved" /\ appeal'.new = s /\ appeal'.grade = appeal.grade /\ appeal' # None
  BY <1>5, AppealRuled
<1>7. r.at = "regrade" /\ r.score = s /\ r.grade = thr[t].grade
  BY <1>1, <1>4
<1>8. GrTyped(r, appeal')
  BY <1>6, <1>7 DEF GrTyped
<1>9. GrFacts'
  BY <1>2, <1>5, <1>6 DEF GrFacts, LrnInv
<1>10. ASSUME GrAlone(t) PROVE GrAlone(t)'
  <2>1. Lrn!Low' = Lrn!Low
    BY <1>2 DEF Lrn!Low
  <2> QED
    BY <1>2, <1>3, <1>6, <1>7, <1>10, <2>1 DEF GrAlone
<1>11. thr[t].at \notin HwSteps /\ r.at \notin HwSteps
  BY <1>3, <1>7 DEF HwSteps
<1> QED
  BY <1>2, <1>3, <1>6, <1>8, <1>9, <1>10, <1>11, GrMoves

LEMMA GrAppealRegrade == LrnInv /\ (\E t : Lrn!AppealRegrade(t)) => LrnInv'
<1> SUFFICES ASSUME LrnInv, NEW t, Lrn!AppealRegrade(t) PROVE LrnInv'
  OBVIOUS
<1>1. PICK r : r = [at |-> "warn"]
  OBVIOUS
<1>2. /\ Lrn!At(t, "regrade") /\ Lrn!Continues(t, r)
      /\ UNCHANGED <<course, policy, day, subs, torn, override, review, rows, appeal, warned, granted>>
  BY <1>1 DEF Lrn!AppealRegrade, Lrn!hwVars
<1>3. /\ t \in DOMAIN thr /\ thr[t].at = "regrade" /\ thr' = [thr EXCEPT ![t] = r]
      /\ thr'[t] = r /\ faults' = faults /\ GrTyped(thr[t], appeal)
  BY <1>2, LrnThread
<1>4. PICK s \in Lrn!Scores : s = thr[t].score
  BY <1>3 DEF GrTyped
<1>5. r.at = "warn" /\ GrTyped(r, appeal')
  BY <1>1 DEF GrTyped
<1>6. row # None /\ row \in [score : 0..4, id : Nat] /\ row.id \in 1..rows /\ row.id = appeal.grade /\ appeal # None
  BY <1>3, AppealTyped DEF GrTyped
<1>7. /\ row' \in [score : 0..4, id : Nat] /\ row'.id = row.id /\ row' # None
      /\ row.id = thr[t].grade => row'.score = s
  <2>1. CASE row.id = thr[t].grade
    <3>1. Scored(row, s, row')
      BY <1>4, <1>6, <2>1 DEF Lrn!AppealRegrade, Scored
    <3>2. s \in 0..4
      BY DEF Lrn!Scores
    <3> QED
      BY <1>6, <3>1, <3>2, GradeScored
  <2>2. CASE row.id # thr[t].grade
    BY <1>6, <2>2 DEF Lrn!AppealRegrade
  <2> QED
    BY <2>1, <2>2
<1>8. GrFacts'
  BY <1>2, <1>6, <1>7 DEF GrFacts, LrnInv
<1>9. ASSUME GrAlone(t) PROVE GrAlone(t)'
  <2>1. row'.score = s /\ s = appeal.new
    BY <1>3, <1>4, <1>6, <1>7, <1>9 DEF GrAlone
  <2> QED
    BY <1>2, <1>3, <1>5, <1>6, <1>7, <2>1 DEF GrAlone
<1>10. thr[t].at \notin HwSteps /\ r.at \notin HwSteps
  BY <1>3, <1>5 DEF HwSteps
<1> QED
  BY <1>2, <1>3, <1>5, <1>8, <1>9, <1>10, GrMoves

\* A statement fails: with a fault no more is said of the grades.
LEMMA GrFails == LrnInv /\ (\E t : Lrn!GrFault(t)) => LrnInv'
<1> SUFFICES ASSUME LrnInv, NEW t, Lrn!GrFault(t) PROVE LrnInv'
  OBVIOUS
<1>1. /\ t \in DOMAIN thr /\ thr[t].at \in GrSteps /\ thr' = [thr EXCEPT ![t] = Lrn!Idle] /\ faults' = faults + 1
      /\ UNCHANGED <<course, policy, day, subs, torn, override, review, row, rows, appeal, warned, granted>>
  BY DEF Lrn!GrFault, Lrn!At, Lrn!Ends, Lrn!Goes, Lrn!hwVars, Lrn!grVars, GrSteps
<1>2. GrFacts'
  BY <1>1 DEF GrFacts, LrnInv
<1>3. ~(faults = 0 /\ faults' = 0)
  BY <1>1 DEF LrnInv, HwFacts
<1>4. thr[t].at \notin HwSteps /\ Lrn!Idle.at \notin HwSteps
  BY <1>1, IdleTyped DEF HwSteps, GrSteps
<1> QED
  BY <1>1, <1>2, <1>3, <1>4, IdleTyped, GrMoves

\* An operation on the submissions begins.
LEMMA HwStarts ==
    ASSUME LrnInv, NEW t, NEW r, Lrn!Begins(t, "homework", r),
           UNCHANGED <<Lrn!hwVars, Lrn!grVars>>,
           r.at \in {"create", "mark"}, HwTyped(r, Len(subs)),
           r.at = "mark" => r.answers = subs[r.no].answers
    PROVE  LrnInv'
<1>1. /\ t \in DOMAIN thr /\ thr[t].at = "idle" /\ thr' = [thr EXCEPT ![t] = r] /\ faults' = faults
      /\ UNCHANGED <<course, policy, day, subs, torn, override, review, row, rows, appeal, warned, granted>>
  BY DEF Lrn!Begins, Lrn!Free, Lrn!Idle, Lrn!Goes, Lrn!hwVars, Lrn!grVars
<1>2. thr'[t] = r
  BY <1>1 DEF LrnInv, LrnThreads
<1>3. HwFacts' /\ Len(subs) <= Len(subs')
  BY <1>1, LrnRowsDomain DEF HwFacts, LrnInv
<1>4. ASSUME HwAlone(t) PROVE HwAlone(t)'
  <2>1. ASSUME NEW i \in DOMAIN subs \ torn PROVE AddsUp(i)'
    <3>1. AddsUp(i)
      BY <1>1, <1>4 DEF HwAlone, Marking
    <3> QED
      BY <1>1, <3>1 DEF AddsUp, Lrn!Deducted
  <2> QED
    BY <1>1, <1>2, <2>1 DEF HwAlone
<1>5. thr[t].at \notin GrSteps /\ r.at \notin GrSteps
  BY <1>1 DEF GrSteps
<1> QED
  BY <1>1, <1>3, <1>4, <1>5, HwMoves

LEMMA HwSubmitCheck == LrnInv /\ (\E t : \E paper \in Lrn!Papers : Lrn!SubmitCheck(t, paper)) /\ UNCHANGED Lrn!grVars => LrnInv'
<1> SUFFICES ASSUME LrnInv, NEW t, NEW paper \in Lrn!Papers, Lrn!SubmitCheck(t, paper), UNCHANGED Lrn!grVars
             PROVE  LrnInv'
  OBVIOUS
<1>1. PICK r : r = [at |-> "create", no |-> Len(subs) + 1, paper |-> paper, days |-> day]
  OBVIOUS
<1>2. Lrn!Begins(t, "homework", r) /\ UNCHANGED <<Lrn!hwVars, Lrn!grVars>> /\ Len(subs) < MaxSubmissions
  BY <1>1 DEF Lrn!SubmitCheck
<1>3. Len(subs) \in Nat /\ day \in 0..MaxDays /\ paper \in Lrn!Answers
  BY LrnRowsDomain DEF LrnInv, HwFacts, Lrn!Papers
<1>4. r.at = "create" /\ HwTyped(r, Len(subs))
  BY <1>1, <1>2, <1>3, LearningAssumption DEF HwTyped
<1> QED
  BY <1>2, <1>4, HwStarts

LEMMA HwGradeLoad ==
    LrnInv /\ (\E t : \E i \in DOMAIN subs, marks \in Lrn!Markings : Lrn!GradeLoad(t, i, marks)) /\ UNCHANGED Lrn!grVars
      => LrnInv'
<1> SUFFICES ASSUME LrnInv, NEW t, NEW i \in DOMAIN subs, NEW marks \in Lrn!Markings, Lrn!GradeLoad(t, i, marks),
                    UNCHANGED Lrn!grVars
             PROVE  LrnInv'
  OBVIOUS
<1>1. PICK r : r = [at |-> "mark", no |-> i, answers |-> subs[i].answers, marks |-> marks]
  OBVIOUS
<1>2. Lrn!Begins(t, "homework", r) /\ UNCHANGED <<Lrn!hwVars, Lrn!grVars>>
  BY <1>1 DEF Lrn!GradeLoad
<1>3. subs[i].answers \in Lrn!Answers /\ i \in 1..Len(subs)
  BY LrnRowTyped, LrnRowsDomain DEF LrnInv, HwFacts
<1>4. \A q \in DOMAIN marks : marks[q] \in {0, 2, 4}
  BY DEF Lrn!Markings
<1>5. r.at = "mark" /\ HwTyped(r, Len(subs)) /\ r.answers = subs[r.no].answers
  BY <1>1, <1>3, <1>4 DEF HwTyped
<1> QED
  BY <1>2, <1>5, HwStarts

\* A handler of the submissions goes on, and the rows it does not write stay what they were.
LEMMA HwGoesOn ==
    ASSUME LrnInv, NEW t, NEW step \in HwSteps, NEW r, Lrn!At(t, step), Lrn!Continues(t, r),
           UNCHANGED <<course, policy, day, override, review, row, rows, appeal, warned, granted>>,
           r.at \in HwSteps \union {"idle"}, HwTyped(r, Len(subs')), Len(subs) <= Len(subs'),
           HwFacts', HwAlone(t) => HwAlone(t)'
    PROVE  LrnInv'
<1>1. /\ t \in DOMAIN thr /\ thr[t].at = step /\ thr' = [thr EXCEPT ![t] = r] /\ faults' = faults
  BY LrnThread
<1>2. thr[t].at \notin GrSteps /\ r.at \notin GrSteps
  BY <1>1 DEF GrSteps, HwSteps
<1> QED
  BY <1>1, <1>2, HwMoves

LEMMA HwSubmitCreate == LrnInv /\ (\E t : Lrn!SubmitCreate(t)) /\ UNCHANGED Lrn!grVars => LrnInv'
<1> SUFFICES ASSUME LrnInv, NEW t, Lrn!SubmitCreate(t), UNCHANGED Lrn!grVars PROVE LrnInv'
  OBVIOUS
<1>1. /\ Lrn!At(t, "create")
      /\ UNCHANGED <<course, policy, day, torn, override, review, row, rows, appeal, warned, granted>>
  BY DEF Lrn!SubmitCreate, Lrn!grVars
<1>2. "create" \in HwSteps
  BY DEF HwSteps
<1>3. CASE thr[t].no \in DOMAIN subs
  <2>1. Lrn!Continues(t, Lrn!Idle) /\ subs' = subs
    BY <1>3 DEF Lrn!SubmitCreate, Lrn!Returns
  <2>2. t \in DOMAIN thr /\ thr[t].at = "create" /\ thr'[t] = Lrn!Idle
    BY <1>1, <2>1, LrnThread
  <2>3. HwFacts' /\ Len(subs) <= Len(subs')
    <3>1. faults' = faults
      BY <1>1, <2>1, LrnThread
    <3> QED
      BY <1>1, <2>1, <3>1, LrnRowsDomain DEF HwFacts, LrnInv
  <2>4. ASSUME HwAlone(t) PROVE HwAlone(t)'
    <3>1. ASSUME NEW i \in DOMAIN subs \ torn PROVE AddsUp(i)'
      <4>1. AddsUp(i)
        BY <2>2, <2>4 DEF HwAlone, Marking
      <4> QED
        BY <1>1, <2>1, <4>1 DEF AddsUp, Lrn!Deducted
    <3>2. thr'[t].at = "idle"
      BY <2>2, IdleTyped
    <3> QED
      BY <1>1, <2>1, <3>1, <3>2 DEF HwAlone
  <2> QED
    BY <1>1, <1>2, <2>1, <2>3, <2>4, IdleTyped, HwGoesOn
<1>4. CASE thr[t].no \notin DOMAIN subs
  <2>1. PICK r : r = [at |-> "answers", no |-> thr[t].no, paper |-> thr[t].paper]
    OBVIOUS
  <2>2. PICK new : new = [status |-> "submitted", answers |-> <<>>, total |-> None, days |-> thr[t].days]
    OBVIOUS
  <2>3. Lrn!Continues(t, r) /\ subs' = Append(subs, new)
    BY <1>4, <2>1, <2>2 DEF Lrn!SubmitCreate
  <2>4. t \in DOMAIN thr /\ thr[t].at = "create" /\ thr'[t] = r /\ HwTyped(thr[t], Len(subs)) /\ faults' = faults
    BY <1>1, <2>3, LrnThread
  <2>5. Len(subs) \in Nat /\ DOMAIN subs = 1..Len(subs) /\ subs \in LrnRows
    BY LrnRowsDomain DEF LrnInv, HwFacts
  <2>6. thr[t].no = Len(subs) + 1 /\ thr[t].no <= MaxSubmissions /\ thr[t].paper \in Lrn!Answers /\ thr[t].days \in 0..MaxDays
    <3>1. PICK k : k = thr[t].no
      OBVIOUS
    <3>2. k \in 1..MaxSubmissions /\ k <= Len(subs) + 1 /\ k \notin 1..Len(subs)
      BY <1>4, <2>4, <2>5, <3>1 DEF HwTyped
    <3> QED
      BY <2>4, <2>5, <3>1, <3>2, LearningAssumption DEF HwTyped
  <2>7. new \in LrnRow /\ new.status = "submitted" /\ new.total = None
    BY <2>2, <2>6, EmptyPaper DEF LrnRow
  <2>8. /\ subs' \in LrnRows /\ Len(subs') = Len(subs) + 1 /\ DOMAIN subs' = DOMAIN subs \union {Len(subs) + 1}
        /\ subs'[Len(subs) + 1] = new /\ \A j \in DOMAIN subs : subs'[j] = subs[j]
    <3>1. RowAdded(subs, new, subs')
      BY <2>3 DEF RowAdded
    <3>2. subs' \in LrnRows
      BY <2>5, <2>7, <3>1, LrnRowAdded
    <3>3. Len(subs') = Len(subs) + 1 /\ DOMAIN subs' = DOMAIN subs \union {Len(subs) + 1}
      BY <2>5, <2>7, <3>1, LrnRowAdded
    <3>4. subs'[Len(subs) + 1] = new
      BY <2>5, <2>7, <3>1, LrnRowAdded
    <3>5. \A j \in DOMAIN subs : subs'[j] = subs[j]
      BY <2>3, <2>5, <2>7 DEF LrnRows
    <3> QED
      BY <3>2, <3>3, <3>4, <3>5
  <2>9. r.at = "answers" /\ r.no = Len(subs) + 1 /\ r.paper \in Lrn!Answers
    BY <2>1, <2>6
  <2>10. HwTyped(r, Len(subs'))
    BY <2>5, <2>8, <2>9 DEF HwTyped
  <2>11. HwFacts'
    <3>1. \A i \in DOMAIN subs' : subs'[i].status = "graded" <=> subs'[i].total # None
      BY <2>5, <2>7, <2>8 DEF LrnInv, HwFacts
    <3>2. Len(subs') <= MaxSubmissions
      BY <2>6, <2>8
    <3> QED
      BY <1>1, <2>4, <2>8, <3>1, <3>2 DEF LrnInv, HwFacts
  <2>12. ASSUME HwAlone(t) PROVE HwAlone(t)'
    <3>1. ASSUME NEW i \in DOMAIN subs' \ torn' PROVE AddsUp(i)'
      <4>1. CASE i = Len(subs) + 1
        BY <2>7, <2>8, <4>1 DEF AddsUp
      <4>2. CASE i # Len(subs) + 1
        <5>1. i \in DOMAIN subs \ torn /\ AddsUp(i)
          BY <1>1, <2>4, <2>8, <2>12, <4>2 DEF HwAlone, Marking
        <5> QED
          BY <1>1, <2>8, <5>1 DEF AddsUp, Lrn!Deducted
      <4> QED
        BY <4>1, <4>2
    <3>2. subs'[thr'[t].no].status = "submitted" /\ thr'[t].at = "answers"
      BY <2>4, <2>7, <2>8, <2>9
    <3> QED
      BY <3>1, <3>2 DEF HwAlone
  <2>13. Len(subs) <= Len(subs') /\ r.at \in HwSteps \union {"idle"}
    BY <2>5, <2>8, <2>9 DEF HwSteps
  <2> QED
    BY <1>1, <1>2, <2>3, <2>10, <2>11, <2>12, <2>13, HwGoesOn
<1> QED
  BY <1>3, <1>4

LEMMA HwSubmitAnswers == LrnInv /\ (\E t : Lrn!SubmitAnswers(t)) /\ UNCHANGED Lrn!grVars => LrnInv'
<1> SUFFICES ASSUME LrnInv, NEW t, Lrn!SubmitAnswers(t), UNCHANGED Lrn!grVars PROVE LrnInv'
  OBVIOUS
<1>1. /\ Lrn!At(t, "answers")
      /\ UNCHANGED <<course, policy, day, torn, override, review, row, rows, appeal, warned, granted>>
  BY DEF Lrn!SubmitAnswers, Lrn!grVars
<1>2. PICK k : k = thr[t].no
  OBVIOUS
<1>3. PICK paper : paper = thr[t].paper
  OBVIOUS
<1>4. PICK new : new = [subs[k] EXCEPT !.answers = paper]
  OBVIOUS
<1>5. PICK r : /\ Lrn!Continues(t, r)
               /\ \/ r = [thr[t] EXCEPT !.at = "autograde"]
                  \/ r = Lrn!Idle
  BY DEF Lrn!SubmitAnswers, Lrn!Returns
<1>6. subs' = [subs EXCEPT ![k].answers = paper]
  BY <1>2, <1>3 DEF Lrn!SubmitAnswers
<1>7. /\ t \in DOMAIN thr /\ thr[t].at = "answers" /\ thr'[t] = r /\ HwTyped(thr[t], Len(subs)) /\ faults' = faults
  BY <1>1, <1>5, LrnThread
<1>8. k \in 1..Len(subs) /\ paper \in Lrn!Answers
  BY <1>2, <1>3, <1>7 DEF HwTyped
<1>9. subs \in LrnRows /\ DOMAIN subs = 1..Len(subs) /\ Len(subs) \in Nat /\ k \in DOMAIN subs /\ subs[k] \in LrnRow
  BY <1>8, LrnRowsDomain, LrnRowTyped DEF LrnInv, HwFacts
<1>10. new \in LrnRow /\ new.answers = paper /\ new.status = subs[k].status /\ new.total = subs[k].total
  BY <1>4, <1>8, <1>9 DEF LrnRow
<1>11. RowIs(subs, k, new, subs')
  BY <1>4, <1>6, <1>9 DEF RowIs
<1>12. subs' \in LrnRows /\ DOMAIN subs' = DOMAIN subs /\ Len(subs') = Len(subs) /\ subs'[k] = new
  <2>1. subs' \in LrnRows
    BY <1>9, <1>10, <1>11, LrnRowWritten
  <2>2. DOMAIN subs' = DOMAIN subs
    BY <1>9, <1>10, <1>11, LrnRowWritten
  <2>3. Len(subs') = Len(subs)
    BY <1>9, <1>10, <1>11, LrnRowWritten
  <2>4. subs'[k] = new
    BY <1>9, <1>11 DEF RowIs
  <2> QED
    BY <2>1, <2>2, <2>3, <2>4
<1>13. ASSUME NEW j \in DOMAIN subs, j # k PROVE subs'[j] = subs[j]
  BY <1>6, <1>9, <1>13
<1>14. /\ r.at \in {"autograde", "idle"}
       /\ r.at = "autograde" => r.no = k /\ r.paper = paper
  <2>1. CASE r = Lrn!Idle
    BY <2>1, IdleTyped
  <2>2. CASE r = [thr[t] EXCEPT !.at = "autograde"]
    <3>1. r.at = "autograde"
      BY <1>7, <2>2
    <3>2. r.no = thr[t].no /\ r.paper = thr[t].paper
      BY <2>2
    <3> QED
      BY <1>2, <1>3, <3>1, <3>2
  <2> QED
    BY <1>5, <2>1, <2>2
<1>15. HwTyped(r, Len(subs')) /\ Len(subs) <= Len(subs') /\ r.at \in HwSteps \union {"idle"}
  BY <1>8, <1>9, <1>12, <1>14 DEF HwTyped, HwSteps
<1>16. HwFacts'
  <2>1. \A i \in DOMAIN subs' : subs'[i].status = "graded" <=> subs'[i].total # None
    BY <1>9, <1>10, <1>12, <1>13 DEF LrnInv, HwFacts
  <2> QED
    BY <1>1, <1>7, <1>12, <2>1 DEF LrnInv, HwFacts
<1>17. ASSUME HwAlone(t) PROVE HwAlone(t)'
  <2>1. subs[k].status = "submitted"
    BY <1>2, <1>7, <1>17 DEF HwAlone
  <2>2. ASSUME NEW i \in DOMAIN subs' \ torn' PROVE AddsUp(i)'
    <3>1. CASE i = k
      BY <1>10, <1>12, <2>1, <3>1 DEF AddsUp
    <3>2. CASE i # k
      <4>1. AddsUp(i) /\ subs'[i] = subs[i]
        BY <1>1, <1>7, <1>12, <1>13, <1>17, <3>2 DEF HwAlone, Marking
      <4> QED
        BY <1>1, <4>1 DEF AddsUp, Lrn!Deducted
    <3> QED
      BY <3>1, <3>2
  <2>3. r.at = "autograde" => subs'[r.no].status = "submitted" /\ subs'[r.no].answers = r.paper
    BY <1>10, <1>12, <1>14, <2>1
  <2> QED
    BY <1>7, <1>14, <2>2, <2>3 DEF HwAlone
<1>18. "answers" \in HwSteps
  BY DEF HwSteps
<1> QED
  BY <1>1, <1>5, <1>15, <1>16, <1>17, <1>18, HwGoesOn

\* The status and the total of a row are written, from a paper that is the one of the row.
LEMMA HwTotals ==
    ASSUME LrnInv, NEW t, NEW step \in HwSteps, Lrn!At(t, step), Lrn!Returns(t),
           UNCHANGED <<course, policy, day, torn, override, review, row, rows, appeal, warned, granted>>,
           NEW k \in DOMAIN subs, k = thr[t].no, NEW paper \in Lrn!Answers,
           subs' = [subs EXCEPT ![k].status = "graded", ![k].total = Lrn!Deducted(Lrn!Points(paper), subs[k].days)],
           HwAlone(t) => subs[k].answers = paper
    PROVE  LrnInv'
<1>1. subs \in LrnRows /\ DOMAIN subs = 1..Len(subs) /\ Len(subs) \in Nat /\ subs[k] \in LrnRow
  BY LrnRowsDomain, LrnRowTyped DEF LrnInv, HwFacts
<1>2. PICK d \in 0..MaxDays : d = subs[k].days
  BY <1>1 DEF LrnRow
<1>3. PICK total \in 0..4 : total = Lrn!Deducted(Lrn!Points(paper), d)
  BY DeductedTyped, LearningAssumption
<1>4. PICK new : new = [subs[k] EXCEPT !.status = "graded", !.total = total]
  OBVIOUS
<1>5. new \in LrnRow /\ new.status = "graded" /\ new.total = total /\ new.answers = subs[k].answers /\ new.days = d
  BY <1>1, <1>2, <1>4 DEF LrnRow
<1>6. RowIs(subs, k, new, subs')
  BY <1>1, <1>2, <1>3, <1>4 DEF RowIs
<1>7. subs' \in LrnRows /\ DOMAIN subs' = DOMAIN subs /\ Len(subs') = Len(subs) /\ subs'[k] = new
  <2>1. subs' \in LrnRows
    <3>1. subs \in LrnRows /\ k \in DOMAIN subs /\ new \in LrnRow
      BY <1>1, <1>5
    <3> QED
      BY <3>1, <1>6, LrnRowWritten
  <2>2. DOMAIN subs' = DOMAIN subs
    BY <1>1, <1>5, <1>6, LrnRowWritten
  <2>3. Len(subs') = Len(subs)
    BY <1>1, <1>5, <1>6, LrnRowWritten
  <2>4. subs'[k] = new
    BY <1>1, <1>6 DEF RowIs
  <2> QED
    BY <2>1, <2>2, <2>3, <2>4
<1>8. ASSUME NEW j \in DOMAIN subs, j # k PROVE subs'[j] = subs[j]
  BY <1>1, <1>6, <1>8 DEF RowIs
<1>9. t \in DOMAIN thr /\ thr[t].at = step /\ thr'[t] = Lrn!Idle /\ faults' = faults
  BY LrnThread DEF Lrn!Returns
<1>10. HwFacts'
  <2>1. total # None
    BY LearningAssumption
  <2>2. \A i \in DOMAIN subs' : subs'[i].status = "graded" <=> subs'[i].total # None
    BY <1>5, <1>7, <1>8, <2>1 DEF LrnInv, HwFacts
  <2> QED
    BY <1>7, <1>9, <2>2 DEF LrnInv, HwFacts
<1>11. ASSUME HwAlone(t) PROVE HwAlone(t)'
  <2>1. ASSUME NEW i \in DOMAIN subs' \ torn' PROVE AddsUp(i)'
    <3>1. CASE i = k
      <4>1. total = Lrn!Deducted(Lrn!Points(new.answers), new.days)
        BY <1>3, <1>5, <1>11
      <4> QED
        BY <1>5, <1>7, <3>1, <4>1, Zenon DEF AddsUp, Lrn!Deducted
    <3>2. CASE i # k
      <4>1. AddsUp(i) /\ subs'[i] = subs[i]
        BY <1>7, <1>8, <1>11, <3>2 DEF HwAlone, Marking
      <4> QED
        BY <4>1 DEF AddsUp, Lrn!Deducted
    <3> QED
      BY <3>1, <3>2
  <2>2. thr'[t].at = "idle"
    BY <1>9, IdleTyped
  <2> QED
    BY <2>1, <2>2 DEF HwAlone
<1>12. Lrn!Idle.at \in HwSteps \union {"idle"} /\ Len(subs) <= Len(subs')
  BY <1>1, <1>7, IdleTyped
<1> QED
  BY <1>10, <1>11, <1>12, IdleTyped, HwGoesOn DEF Lrn!Returns

LEMMA HwAutoGrade == LrnInv /\ (\E t : Lrn!AutoGrade(t)) /\ UNCHANGED Lrn!grVars => LrnInv'
<1> SUFFICES ASSUME LrnInv, NEW t, Lrn!AutoGrade(t), UNCHANGED Lrn!grVars PROVE LrnInv'
  OBVIOUS
<1>1. /\ Lrn!At(t, "autograde") /\ Lrn!Returns(t)
      /\ UNCHANGED <<course, policy, day, torn, override, review, row, rows, appeal, warned, granted>>
  BY DEF Lrn!AutoGrade, Lrn!grVars
<1>2. thr[t].at = "autograde" /\ HwTyped(thr[t], Len(subs))
  BY <1>1, LrnThread DEF Lrn!Returns
<1>3. PICK k : k = thr[t].no
  OBVIOUS
<1>4. PICK paper : paper = thr[t].paper
  OBVIOUS
<1>5. k \in DOMAIN subs /\ paper \in Lrn!Answers
  BY <1>2, <1>3, <1>4, LrnRowsDomain DEF HwTyped, LrnInv, HwFacts
<1>6. subs' = [subs EXCEPT ![k].status = "graded", ![k].total = Lrn!Deducted(Lrn!Points(paper), subs[k].days)]
  BY <1>3, <1>4 DEF Lrn!AutoGrade
<1>7. HwAlone(t) => subs[k].answers = paper
  BY <1>2, <1>3, <1>4 DEF HwAlone
<1>8. "autograde" \in HwSteps
  BY DEF HwSteps
<1> QED
  BY <1>1, <1>3, <1>5, <1>6, <1>7, <1>8, HwTotals, Zenon

LEMMA HwGradeTotal == LrnInv /\ (\E t : Lrn!GradeTotal(t)) /\ UNCHANGED Lrn!grVars => LrnInv'
<1> SUFFICES ASSUME LrnInv, NEW t, Lrn!GradeTotal(t), UNCHANGED Lrn!grVars PROVE LrnInv'
  OBVIOUS
<1>1. /\ Lrn!At(t, "mark") /\ Lrn!Returns(t)
      /\ UNCHANGED <<course, policy, day, torn, override, review, row, rows, appeal, warned, granted>>
  BY DEF Lrn!GradeTotal, Lrn!grVars
<1>2. thr[t].at = "mark" /\ HwTyped(thr[t], Len(subs))
  BY <1>1, LrnThread DEF Lrn!Returns
<1>3. PICK k : k = thr[t].no
  OBVIOUS
<1>4. PICK paper : paper = thr[t].answers
  OBVIOUS
<1>5. k \in DOMAIN subs /\ paper \in Lrn!Answers
  BY <1>2, <1>3, <1>4, LrnRowsDomain DEF HwTyped, LrnInv, HwFacts
<1>6. subs' = [subs EXCEPT ![k].status = "graded", ![k].total = Lrn!Deducted(Lrn!Points(paper), subs[k].days)]
  BY <1>3, <1>4 DEF Lrn!GradeTotal
<1>7. HwAlone(t) => subs[k].answers = paper
  BY <1>2, <1>3, <1>4 DEF HwAlone
<1>8. "mark" \in HwSteps
  BY DEF HwSteps
<1> QED
  BY <1>1, <1>3, <1>5, <1>6, <1>7, <1>8, HwTotals, Zenon

\* One mark is put on a paper.
Marked(a, q, m, b) == b = [a EXCEPT ![q] = m]

LEMMA PaperMarked ==
    ASSUME NEW a \in Lrn!Answers, NEW q, NEW m \in {0, 2}, NEW b, Marked(a, q, m, b)
    PROVE  b \in Lrn!Answers
<1>1. DOMAIN b = DOMAIN a /\ b = [x \in DOMAIN b |-> b[x]]
  BY AnswersAre DEF Marked
<1>2. ASSUME NEW x \in DOMAIN a PROVE b[x] \in {0, 2, Ungraded}
  BY AnswersAre DEF Marked
<1> QED
  BY <1>1, <1>2, AnswersAre

LEMMA HwGradeMark == LrnInv /\ (\E t : Lrn!GradeMark(t)) /\ UNCHANGED Lrn!grVars => LrnInv'
<1> SUFFICES ASSUME LrnInv, NEW t, Lrn!GradeMark(t), UNCHANGED Lrn!grVars PROVE LrnInv'
  OBVIOUS
<1>1. /\ Lrn!At(t, "mark")
      /\ UNCHANGED <<course, policy, day, override, review, row, rows, appeal, warned, granted>>
  BY DEF Lrn!GradeMark, Lrn!grVars
<1>2. t \in DOMAIN thr /\ thr[t].at = "mark" /\ HwTyped(thr[t], Len(subs))
  BY <1>1 DEF Lrn!At, LrnInv, LrnThreads
<1>3. PICK k : k = thr[t].no
  OBVIOUS
<1>4. PICK paper : paper = thr[t].answers
  OBVIOUS
<1>5. PICK marks : marks = thr[t].marks
  OBVIOUS
<1>6. PICK q \in DOMAIN thr[t].marks :
        LET r == thr[t]
            m == r.marks[q]
            rest == [r EXCEPT !.marks = Lrn!Restrict(r.marks, DOMAIN r.marks \ {q})]
        IN \/ /\ q \notin DOMAIN r.answers
              /\ Lrn!Continues(t, rest) /\ UNCHANGED <<subs, torn>>
           \/ /\ q \in DOMAIN r.answers /\ m > Lrn!Worth[q]
              /\ torn' = torn \union {r.no}
              /\ Lrn!Returns(t) /\ UNCHANGED subs
           \/ /\ q \in DOMAIN r.answers /\ m <= Lrn!Worth[q]
              /\ subs' = [subs EXCEPT ![r.no].answers[q] = m]
              /\ Lrn!Continues(t, [rest EXCEPT !.answers[q] = m]) /\ UNCHANGED torn
  BY Zenon DEF Lrn!GradeMark
<1>7. PICK left1 : left1 = [x \in DOMAIN marks \ {q} |-> marks[x]]
  OBVIOUS
<1>8. q \in DOMAIN marks /\ \A x \in DOMAIN left1 : left1[x] \in {0, 2, 4}
  BY <1>2, <1>5, <1>7 DEF HwTyped
<1>9. k \in 1..Len(subs) /\ paper \in Lrn!Answers /\ marks[q] \in {0, 2, 4}
  BY <1>2, <1>3, <1>4, <1>5 DEF HwTyped
<1>10. subs \in LrnRows /\ DOMAIN subs = 1..Len(subs) /\ Len(subs) \in Nat /\ k \in DOMAIN subs /\ subs[k] \in LrnRow
  BY <1>9, LrnRowsDomain, LrnRowTyped DEF LrnInv, HwFacts
<1>11. PICK rest : rest = [at |-> "mark", no |-> k, answers |-> paper, marks |-> left1]
  OBVIOUS
<1>12. rest.at = "mark" /\ rest.no = k /\ rest.answers = paper /\ rest.marks = left1
  BY <1>11
<1>17. \/ q \notin DOMAIN paper /\ Lrn!Continues(t, rest) /\ UNCHANGED <<subs, torn>>
       \/ torn' = torn \union {k} /\ Lrn!Returns(t) /\ UNCHANGED subs
       \/ /\ q \in DOMAIN paper /\ marks[q] <= 2
          /\ subs' = [subs EXCEPT ![k].answers[q] = marks[q]]
          /\ Lrn!Continues(t, [rest EXCEPT !.answers[q] = marks[q]]) /\ UNCHANGED torn
  <2>1. thr[t] = [at |-> "mark", no |-> k, answers |-> paper, marks |-> marks]
    BY <1>2, <1>3, <1>4, <1>5 DEF HwTyped
  <2>2. [thr[t] EXCEPT !.marks = Lrn!Restrict(thr[t].marks, DOMAIN thr[t].marks \ {q})] = rest
    BY <1>7, <1>11, <2>1 DEF Lrn!Restrict
  <2>3. q \in DOMAIN paper => Lrn!Worth[q] = 2
    BY <1>9, AnswersAre DEF Lrn!Worth, Lrn!Questions
  <2> QED
    BY <1>3, <1>4, <1>5, <1>6, <2>2, <2>3
<1>13. "mark" \in HwSteps
  BY DEF HwSteps
<1>14. CASE q \notin DOMAIN paper /\ Lrn!Continues(t, rest) /\ UNCHANGED <<subs, torn>>
  <2>1. thr'[t] = rest /\ faults' = faults
    BY <1>1, <1>14, LrnThread
  <2>2. \A x \in DOMAIN rest.marks : rest.marks[x] \in {0, 2, 4}
    BY <1>8, <1>12
  <2>3. HwTyped(rest, Len(subs')) /\ Len(subs) <= Len(subs') /\ rest.at \in HwSteps \union {"idle"}
    BY <1>9, <1>10, <1>11, <1>12, <1>14, <2>2 DEF HwTyped, HwSteps
  <2>4. HwFacts'
    BY <1>1, <1>14, <2>1 DEF LrnInv, HwFacts
  <2>5. ASSUME HwAlone(t) PROVE HwAlone(t)'
    <3>1. ASSUME NEW i \in DOMAIN subs \ torn PROVE Marking(rest, i) \/ AddsUp(i)'
      <4>1. i = k \/ AddsUp(i)
        BY <1>3, <2>5 DEF HwAlone, Marking
      <4> QED
        BY <1>1, <1>12, <1>14, <4>1 DEF AddsUp, Lrn!Deducted, Marking
    <3>2. subs[k].answers = paper
      BY <1>2, <1>3, <1>4, <2>5 DEF HwAlone
    <3> QED
      BY <1>12, <1>14, <2>1, <3>1, <3>2 DEF HwAlone
  <2> QED
    BY <1>1, <1>13, <1>14, <2>3, <2>4, <2>5, HwGoesOn
<1>15. CASE torn' = torn \union {k} /\ Lrn!Returns(t) /\ UNCHANGED subs
  <2>1. thr'[t] = Lrn!Idle /\ faults' = faults
    BY <1>1, <1>15, LrnThread DEF Lrn!Returns
  <2>2. Lrn!Idle.at \in HwSteps \union {"idle"} /\ Len(subs) <= Len(subs')
    BY <1>10, <1>15, IdleTyped
  <2>3. HwFacts'
    BY <1>1, <1>15, <2>1 DEF LrnInv, HwFacts
  <2>4. ASSUME HwAlone(t) PROVE HwAlone(t)'
    <3>1. ASSUME NEW i \in DOMAIN subs' \ torn' PROVE AddsUp(i)'
      <4>1. i # k /\ AddsUp(i)
        BY <1>3, <1>15, <2>4 DEF HwAlone, Marking
      <4> QED
        BY <1>1, <1>15, <4>1 DEF AddsUp, Lrn!Deducted
    <3>2. thr'[t].at = "idle"
      BY <2>1, IdleTyped
    <3> QED
      BY <3>1, <3>2 DEF HwAlone
  <2> QED
    BY <1>1, <1>13, <1>15, <2>2, <2>3, <2>4, IdleTyped, HwGoesOn DEF Lrn!Returns
<1>16. CASE /\ q \in DOMAIN paper /\ marks[q] <= 2
            /\ subs' = [subs EXCEPT ![k].answers[q] = marks[q]]
            /\ Lrn!Continues(t, [rest EXCEPT !.answers[q] = marks[q]]) /\ UNCHANGED torn
  <2>1. PICK m : m = marks[q]
    OBVIOUS
  <2>2. m \in {0, 2}
    BY <1>9, <1>16, <2>1
  <2>3. PICK b : b = [subs[k].answers EXCEPT ![q] = m]
    OBVIOUS
  <2>4. PICK c : c = [paper EXCEPT ![q] = m]
    OBVIOUS
  <2>5. b \in Lrn!Answers /\ c \in Lrn!Answers
    <3>1. subs[k].answers \in Lrn!Answers
      BY <1>10, LrnRowTyped
    <3>2. Marked(subs[k].answers, q, m, b) /\ Marked(paper, q, m, c)
      BY <2>3, <2>4 DEF Marked
    <3>3. b \in Lrn!Answers
      BY <2>2, <3>1, <3>2, PaperMarked
    <3>4. c \in Lrn!Answers
      BY <1>9, <2>2, <3>2, PaperMarked
    <3> QED
      BY <3>3, <3>4
  <2>6. PICK r : r = [at |-> "mark", no |-> k, answers |-> c, marks |-> left1]
    OBVIOUS
  <2>7. Lrn!Continues(t, r) /\ subs' = [subs EXCEPT ![k].answers[q] = m] /\ torn' = torn
    <3>1. r = [rest EXCEPT !.answers[q] = m]
      BY <1>11, <2>4, <2>6
    <3> QED
      BY <1>16, <2>1, <3>1
  <2>8. r.at = "mark" /\ r.no = k /\ r.answers = c /\ r.marks = left1
    BY <2>6
  <2>9. PICK new : new = [subs[k] EXCEPT !.answers = b]
    OBVIOUS
  <2>10. new \in LrnRow /\ new.answers = b /\ new.status = subs[k].status /\ new.total = subs[k].total
    BY <1>10, <2>5, <2>9 DEF LrnRow
  <2>11. RowIs(subs, k, new, subs')
    BY <2>3, <2>7, <2>9 DEF RowIs
  <2>12. subs' \in LrnRows /\ DOMAIN subs' = DOMAIN subs /\ Len(subs') = Len(subs) /\ subs'[k] = new
    <3>1. subs' \in LrnRows
      BY <1>10, <2>10, <2>11, LrnRowWritten
    <3>2. DOMAIN subs' = DOMAIN subs
      BY <1>10, <2>10, <2>11, LrnRowWritten
    <3>3. Len(subs') = Len(subs)
      BY <1>10, <2>10, <2>11, LrnRowWritten
    <3>4. subs'[k] = new
      BY <1>10, <2>11 DEF RowIs
    <3> QED
      BY <3>1, <3>2, <3>3, <3>4
  <2>13. ASSUME NEW j \in DOMAIN subs, j # k PROVE subs'[j] = subs[j]
    BY <1>10, <2>11, <2>13 DEF RowIs
  <2>14. thr'[t] = r /\ faults' = faults
    BY <1>1, <2>7, LrnThread
  <2>15. HwTyped(r, Len(subs')) /\ Len(subs) <= Len(subs') /\ r.at \in HwSteps \union {"idle"}
    BY <1>8, <1>9, <1>10, <2>5, <2>6, <2>8, <2>12 DEF HwTyped, HwSteps
  <2>16. HwFacts'
    <3>1. \A i \in DOMAIN subs' : subs'[i].status = "graded" <=> subs'[i].total # None
      BY <1>10, <2>10, <2>12, <2>13 DEF LrnInv, HwFacts
    <3> QED
      BY <1>1, <2>12, <2>14, <3>1 DEF LrnInv, HwFacts
  <2>17. ASSUME HwAlone(t) PROVE HwAlone(t)'
    <3>1. ASSUME NEW i \in DOMAIN subs' \ torn' PROVE Marking(r, i) \/ AddsUp(i)'
      <4>1. CASE i = k
        BY <2>8, <4>1 DEF Marking
      <4>2. CASE i # k
        <5>1. AddsUp(i) /\ subs'[i] = subs[i]
          BY <1>3, <2>7, <2>12, <2>13, <2>17, <4>2 DEF HwAlone, Marking
        <5> QED
          BY <1>1, <5>1 DEF AddsUp, Lrn!Deducted
      <4> QED
        BY <4>1, <4>2
    <3>2. subs[k].answers = paper
      BY <1>2, <1>3, <1>4, <2>17 DEF HwAlone
    <3>3. subs'[k].answers = c
      BY <2>3, <2>4, <2>10, <2>12, <3>2
    <3> QED
      BY <2>8, <2>14, <3>1, <3>3 DEF HwAlone
  <2> QED
    BY <1>1, <1>13, <2>7, <2>15, <2>16, <2>17, HwGoesOn
<1> QED
  BY <1>14, <1>15, <1>16, <1>17

\* A statement of the submissions fails: its row is torn.
LEMMA HwFails == LrnInv /\ (\E t : Lrn!HwFault(t)) /\ UNCHANGED Lrn!grVars => LrnInv'
<1> SUFFICES ASSUME LrnInv, NEW t, Lrn!HwFault(t), UNCHANGED Lrn!grVars PROVE LrnInv'
  OBVIOUS
<1>1. /\ t \in DOMAIN thr /\ thr[t].at \in HwSteps /\ thr' = [thr EXCEPT ![t] = Lrn!Idle] /\ faults' = faults + 1
      /\ torn' = torn \union {thr[t].no}
      /\ UNCHANGED <<course, policy, day, subs, override, review, row, rows, appeal, warned, granted>>
  BY DEF Lrn!HwFault, Lrn!At, Lrn!Ends, Lrn!Goes, Lrn!grVars, HwSteps
<1>2. HwFacts' /\ Len(subs) <= Len(subs')
  BY <1>1, LrnRowsDomain DEF LrnInv, HwFacts
<1>3. ASSUME HwAlone(t) PROVE HwAlone(t)'
  <2>1. thr'[t].at = "idle"
    BY <1>1, IdleTyped DEF LrnInv, LrnThreads
  <2>2. ASSUME NEW i \in DOMAIN subs' \ torn' PROVE AddsUp(i)'
    <3>1. AddsUp(i)
      BY <1>1, <1>3 DEF HwAlone, Marking
    <3> QED
      BY <1>1, <3>1 DEF AddsUp, Lrn!Deducted
  <2> QED
    BY <2>1, <2>2 DEF HwAlone
<1>4. thr[t].at \notin GrSteps /\ Lrn!Idle.at \notin GrSteps
  BY <1>1, IdleTyped DEF HwSteps, GrSteps
<1> QED
  BY <1>1, <1>2, <1>3, <1>4, IdleTyped, HwMoves

\* The course and the clock go on, or nothing happens.
LEMMA LrnStays ==
    ASSUME LrnInv, course' \in {"active", "ended", "archived"}, day' \in 0..MaxDays,
           UNCHANGED <<thr, faults, policy, subs, torn, override, review, row, rows, appeal, warned, granted>>
    PROVE  LrnInv'
<1>1. HwFacts' /\ GrFacts' /\ LrnThreads'
  BY DEF LrnInv, HwFacts, GrFacts, LrnThreads
<1>2. ASSUME NEW t, HwAlone(t) PROVE HwAlone(t)'
  <2>1. ASSUME NEW i PROVE AddsUp(i) => AddsUp(i)'
    BY DEF AddsUp, Lrn!Deducted
  <2> QED
    BY <1>2, <2>1 DEF HwAlone
<1>3. ASSUME NEW t, GrAlone(t) PROVE GrAlone(t)'
  BY <1>3 DEF GrAlone, Lrn!Low
<1> QED
  BY <1>1, <1>2, <1>3 DEF LrnInv

LEMMA LrnInit == Lrn!Init => LrnInv
<1> SUFFICES ASSUME Lrn!Init PROVE LrnInv
  OBVIOUS
<1>1. PICK crew \in LearningCrews : thr = [t \in crew.threads |-> Lrn!Idle] /\ subs = crew.begun
  BY DEF Lrn!Init, Lrn!HwInit
<1>2. IsFiniteSet(DOMAIN thr) /\ thr = [t \in DOMAIN thr |-> thr[t]] /\ \A t \in DOMAIN thr : thr[t] = Lrn!Idle
  BY <1>1, HandlersAssumption DEF Handled
<1>3. LrnThreads
  BY <1>2, IdleTyped DEF LrnThreads
<1>4. /\ course = "active" /\ day = 0 /\ torn = {} /\ faults = 0 /\ override = None /\ row = None /\ rows = 0
      /\ appeal = None /\ review = [status |-> "none", locked |-> FALSE] /\ warned = "none" /\ granted = None
  BY DEF Lrn!Init, Lrn!HwInit
<1>5. GrFacts
  BY <1>4 DEF GrFacts
<1>6. /\ subs \in Seq([status : {"graded"}, answers : Lrn!Answers, total : 0..4, days : {0}])
      /\ Len(subs) <= MaxSubmissions
      /\ \A i \in DOMAIN subs : subs[i].total = Lrn!Points(subs[i].answers)
  BY <1>1, LearningAssumption
<1>7. Len(subs) \in Nat /\ DOMAIN subs = 1..Len(subs)
  BY <1>6
<1>8. ASSUME NEW i \in DOMAIN subs
      PROVE  /\ subs[i] \in LrnRow /\ subs[i].status = "graded" /\ subs[i].total # None
             /\ subs[i].answers \in Lrn!Answers /\ subs[i].days = 0
  <2>1. subs[i] \in [status : {"graded"}, answers : Lrn!Answers, total : 0..4, days : {0}]
    <3> DEFINE First == [status : {"graded"}, answers : Lrn!Answers, total : 0..4, days : {0}]
    <3>1. subs \in Seq(First)
      BY <1>6
    <3> HIDE DEF First
    <3>2. subs[i] \in First
      BY <3>1
    <3> QED
      BY <3>2 DEF First
  <2>2. subs[i].total \in 0..4 /\ subs[i].total # None
    BY <2>1, LearningAssumption
  <2>3. subs[i] \in LrnRow
    BY <2>1, LearningAssumption DEF LrnRow
  <2> QED
    BY <2>1, <2>2, <2>3
<1>9. subs \in LrnRows
  <2>1. subs = [i \in DOMAIN subs |-> subs[i]]
    BY <1>6
  <2>2. subs \in [1..Len(subs) -> LrnRow]
    BY <1>7, <1>8, <2>1
  <2> QED
    BY <1>7, <2>2, SeqDef DEF LrnRows
<1>10. HwFacts
  BY <1>4, <1>6, <1>8, <1>9, LearningAssumption DEF HwFacts
<1>11. ASSUME NEW t, DOMAIN thr = {t} PROVE HwAlone(t) /\ GrAlone(t)
  <2>1. thr[t].at = "idle"
    BY <1>2, <1>11, IdleTyped
  <2>2. ASSUME NEW i \in DOMAIN subs PROVE AddsUp(i)
    <3>1. PICK p \in {0, 2, 4} : p = Lrn!Points(subs[i].answers)
      BY <1>8, PointsTyped
    <3>2. Lrn!Deducted(p, 0) = p
      <4>1. 0 * p = 0
        OBVIOUS
      <4> QED
        BY <4>1 DEF Lrn!Deducted
    <3> QED
      BY <1>6, <1>8, <3>1, <3>2 DEF AddsUp
  <2> QED
    BY <1>4, <2>1, <2>2 DEF HwAlone, GrAlone, Lrn!Low
<1> QED
  BY <1>3, <1>5, <1>10, <1>11 DEF LrnInv

LEMMA LrnStep == LrnInv /\ Lrn!Next => LrnInv'
<1> SUFFICES ASSUME LrnInv, Lrn!Next PROVE LrnInv'
  OBVIOUS
<1>1. ASSUME NEW t, Lrn!HwStep(t), UNCHANGED Lrn!grVars PROVE LrnInv'
  BY <1>1, HwSubmitCheck, HwSubmitCreate, HwSubmitAnswers, HwAutoGrade, HwGradeLoad, HwGradeMark,
     HwGradeTotal, HwFails DEF Lrn!HwStep
<1>2. ASSUME NEW t, \/ \E s \in Lrn!Scores : Lrn!AdjustCheck(t, s)
                    \/ Lrn!ReviewRead(t) \/ Lrn!ApproveLoad(t) \/ Lrn!RejectLoad(t) \/ Lrn!UnlockLoad(t)
                    \/ \E outcome \in {"grant", "refuse"}, s \in Lrn!Scores : Lrn!AppealLoad(t, outcome, s)
      PROVE  LrnInv'
  BY <1>2, GrBegins
<1>3. ASSUME NEW t, \/ Lrn!AdjustWrite(t) \/ Lrn!ReviewFile(t) \/ Lrn!ApproveStatus(t) \/ Lrn!ApproveClear(t)
                    \/ Lrn!ApproveWrite(t) \/ Lrn!RefreshWarnings(t) \/ Lrn!RejectWrite(t) \/ Lrn!UnlockWrite(t)
                    \/ Lrn!CreateAppeal(t) \/ Lrn!HandleWarning(t)
                    \/ Lrn!AppealGrant(t) \/ Lrn!AppealRegrade(t) \/ Lrn!AppealReject(t) \/ Lrn!GrFault(t)
      PROVE  LrnInv'
  BY <1>3, GrAdjustWrite, GrReviewFile, GrApproveStatus, GrApproveClear, GrApproveWrite, GrRefreshWarnings,
     GrRejectWrite, GrUnlockWrite, GrCreateAppeal, GrHandleWarning, GrAppealGrant, GrAppealRegrade,
     GrAppealReject, GrFails
<1>4. CASE Lrn!CourseGoesOn /\ UNCHANGED Lrn!grVars
  <2>1. /\ course' \in {"active", "ended", "archived"}
        /\ UNCHANGED <<thr, faults, policy, day, subs, torn, override, review, row, rows, appeal, warned, granted>>
    BY <1>4 DEF Lrn!CourseGoesOn, Lrn!EndCourse, Lrn!ArchiveCourse, Lrn!runVars, Lrn!grVars
  <2> QED
    BY <2>1, LrnStays DEF LrnInv, HwFacts
<1>5. CASE Lrn!DayPasses /\ UNCHANGED Lrn!grVars
  <2>1. /\ day < MaxDays /\ day' = day + 1
        /\ UNCHANGED <<thr, faults, course, policy, subs, torn, override, review, row, rows, appeal, warned, granted>>
    BY <1>5 DEF Lrn!DayPasses, Lrn!runVars, Lrn!grVars
  <2>2. day' \in 0..MaxDays
    BY <2>1, LearningAssumption DEF LrnInv, HwFacts
  <2> QED
    BY <2>1, <2>2, LrnStays DEF LrnInv, HwFacts
<1> QED
  BY <1>1, <1>2, <1>3, <1>4, <1>5 DEF Lrn!Next

\* The submissions and the review keep their invariant.
LEMMA LrnHolds == Spec => [](part = "learning" => LrnInv)
<1> DEFINE I == part = "learning" => LrnInv
<1>1. Init => I
  BY LrnInit DEF Init
<1>2. I /\ [Next]_allVars => I'
  <2> SUFFICES ASSUME I, [Next]_allVars, part' = "learning" PROVE LrnInv'
    OBVIOUS
  <2>1. part = "learning" /\ LrnInv
    BY PartStays
  <2>2. CASE Next
    BY <2>1, <2>2, LrnStep DEF Next
  <2>3. CASE UNCHANGED allVars
    BY <2>1, <2>3, LrnStays DEF allVars, lrnVars, LrnInv, HwFacts
  <2> QED
    BY <2>2, <2>3
<1> QED
  BY <1>1, <1>2, PTL DEF Spec, allVars

\* However many submissions a student sends at once, there are no more rows than
\* max_submissions (Submit of service/course, whose count precedes its insert).
THEOREM AttemptsStayBounded == Spec => []AttemptsBounded
<1>1. (part = "learning" => LrnInv) => AttemptsBounded
  BY DEF AttemptsBounded, Lrn!AttemptsBounded, LrnInv, HwFacts
<1> QED
  BY <1>1, LrnHolds, PTL

\* After submissions and gradings one after the other, whatever their order and however
\* late, a graded row has the points of its answers (Submit and GradeSubmission).
THEOREM GradedTotalsAddUp == Spec => []TotalsAddUp
<1>1. (part = "learning" => LrnInv) => TotalsAddUp
  <2> SUFFICES ASSUME part = "learning", LrnInv, Lrn!Settled, NEW i \in DOMAIN subs \ torn, subs[i].status = "graded"
               PROVE  subs[i].total = Lrn!Deducted(Lrn!Points(subs[i].answers), subs[i].days)
    BY DEF TotalsAddUp, Lrn!TotalsAddUp
  <2>1. PICK t : DOMAIN thr = {t}
    BY OneElement, SameCardinality DEF Lrn!Settled, LrnInv, LrnThreads
  <2>2. thr[t].at = "idle"
    BY <2>1, IdleTyped DEF Lrn!Settled, Lrn!Free
  <2> QED
    BY <2>1, <2>2 DEF LrnInv, HwAlone, Marking, AddsUp
<1> QED
  BY <1>1, LrnHolds, PTL

\* One operation at a time and with no statement failing, a warning is there exactly
\* while the grade is low, but for one that was handled or resolved (ApproveReview,
\* ApproveAppeal and refreshWarningsForSemester).
THEOREM WarningsStayTrue == Spec => []WarningsTrue
<1>1. (part = "learning" => LrnInv) => WarningsTrue
  <2> SUFFICES ASSUME part = "learning", LrnInv, Lrn!Settled, faults = 0
               PROVE  (Lrn!Low => warned # "none") /\ (warned = "pending" => Lrn!Low)
    BY DEF WarningsTrue, Lrn!WarningsTrue
  <2>1. PICK t : DOMAIN thr = {t}
    BY OneElement, SameCardinality DEF Lrn!Settled, LrnInv, LrnThreads
  <2>2. thr[t].at = "idle"
    BY <2>1, IdleTyped DEF Lrn!Settled, Lrn!Free
  <2> QED
    BY <2>1, <2>2 DEF LrnInv, GrAlone
<1> QED
  BY <1>1, LrnHolds, PTL

-----------------------------------------------------------------------------
(* The challenges of a competition.                                        *)

ChlRow == [status : {"none", "draft", "pending", "approved", "rejected"}, onchain : BOOLEAN, public : BOOLEAN,
           deleted : BOOLEAN, contracts : 0..1, assertions : 0..1]
CheckRow == [status : {"running", "passed", "failed"}, ok : BOOLEAN]
CheckRows == Seq(CheckRow)
ReviewRow == [action : {"approved", "rejected"}, onchain : BOOLEAN]
ReviewRows == Seq(ReviewRow)

SomeOk == \E k \in DOMAIN checks : checks[k].ok
SomeApproved == \E i \in DOMAIN reviews : reviews[i].action = "approved"
Verifying == {t \in DOMAIN thr : thr[t].at = "verify"}
Fit == contest.ad => chal.onchain /\ chal.contracts > 0 /\ chal.assertions > 0

\* What the record of a handler holds, when the flow has succeeded or a review approved.
ChlTyped(r, ids, ok, approved) ==
    /\ r.at = "update" => r.onchain \in BOOLEAN /\ r.public \in BOOLEAN
    /\ r.at = "assets" => r.part \in {"contracts", "assertions"} /\ r.n \in 0..1
    /\ r.at = "flow" => r.id \in ids
    /\ r.at = "cleanup" => r.old \subseteq ids /\ r = [at |-> "cleanup", old |-> r.old]
    /\ r.at = "review" => r.row \in ReviewRow /\ (r.row = Chl!Approval => ok)
    /\ r.at = "add" => approved
    /\ r.at = "contest" => r.to \in {"registration", "deleted"}

\* Between the requests of one handler.
ChlSettled ==
    /\ chal.status = "approved" => chal.public
    /\ chal.status \in {"pending", "approved"} => Chl!Proven
    /\ listed # None /\ Chl!Stored => chal.status = "approved" /\ Fit
    /\ chal.status = "none" => listed = None
    /\ contest.status = "registration" => listed # None

\* And what it has read is still true.
ChlKnows(r) ==
    /\ r.at \in {"update", "submit"} => Chl!Editable
    /\ r.at = "submit" => Chl!Proven
    /\ r.at = "assets" => Chl!Stored /\ chal.status = "draft"
    /\ r.at = "flow" => checks[r.id].status = "running"
    /\ r.at = "cleanup" => r.old \subseteq Chl!Running
    /\ r.at = "review" => Chl!Stored /\ chal.status = "pending"
    /\ r.at = "add" => Chl!ContestDraft /\ Chl!Stored /\ chal.status = "approved" /\ Fit
    /\ r.at = "drop" => Chl!ContestDraft
    /\ r.at = "contest" /\ r.to = "registration" => listed # None

ChlAlone(t) == ChlSettled /\ ChlKnows(thr[t])

ChlFacts ==
    /\ chal \in ChlRow /\ checks \in CheckRows /\ reviews \in ReviewRows
    /\ contest \in [status : {"draft", "registration", "deleted"}, ad : BOOLEAN]
    /\ \A k \in DOMAIN checks : checks[k].status = "passed" => checks[k].ok
    /\ listed # None \/ chal.status = "approved" => SomeApproved
    /\ \A i \in DOMAIN reviews : reviews[i] = Chl!Approval => SomeOk

\* No flow has a result before it ends, and two flows have rows of their own.
ChlThreads ==
    /\ thr = [t \in DOMAIN thr |-> thr[t]] /\ IsFiniteSet(DOMAIN thr)
    /\ \A t \in DOMAIN thr : ChlTyped(thr[t], DOMAIN checks, SomeOk, SomeApproved)
    /\ \A t \in DOMAIN thr : thr[t].at = "flow" => ~checks[thr[t].id].ok
    /\ \A t, u \in DOMAIN thr : thr[t].at = "flow" /\ thr[u].at = "flow" /\ thr[t].id = thr[u].id => t = u
    /\ Cardinality(Chl!Running) + Cardinality(Verifying) <= Cardinality(DOMAIN thr)

ChlInv == ChlFacts /\ ChlThreads /\ \A t : DOMAIN thr = {t} => ChlAlone(t)

LEMMA ChlIdle ==
    /\ \A ids, ok, approved : ChlTyped(Chl!Idle, ids, ok, approved)
    /\ ChlKnows(Chl!Idle) /\ Chl!Idle.at = "idle"
BY DEF ChlTyped, ChlKnows, Chl!Idle

LEMMA CheckTyped ==
    ASSUME NEW C \in CheckRows
    PROVE  /\ Len(C) \in Nat /\ DOMAIN C = 1..Len(C)
           /\ \A k \in DOMAIN C : C[k] \in CheckRow /\ C[k].ok \in BOOLEAN
                                  /\ C[k].status \in {"running", "passed", "failed"}
<1>1. Len(C) \in Nat /\ DOMAIN C = 1..Len(C) /\ \A k \in DOMAIN C : C[k] \in CheckRow
  BY DEF CheckRows
<1> QED
  BY <1>1 DEF CheckRow

LEMMA RunningFinite ==
    ASSUME ChlInv
    PROVE  /\ IsFiniteSet(Chl!Running) /\ Cardinality(Chl!Running) \in Nat
           /\ Chl!Running \subseteq 1..Len(checks) /\ Len(checks) \in Nat
           /\ IsFiniteSet(Verifying) /\ Cardinality(Verifying) \in Nat
           /\ Cardinality(DOMAIN thr) \in Nat
<1>1. Len(checks) \in Nat /\ DOMAIN checks = 1..Len(checks) /\ IsFiniteSet(DOMAIN thr)
  BY CheckTyped DEF ChlInv, ChlFacts, ChlThreads
<1>2. Chl!Running \subseteq 1..Len(checks) /\ Verifying \subseteq DOMAIN thr
  BY <1>1 DEF Chl!Running, Verifying
<1>3. IsFiniteSet(1..Len(checks))
  BY <1>1, FS_Interval
<1>4. IsFiniteSet(Chl!Running) /\ IsFiniteSet(Verifying)
  BY <1>1, <1>2, <1>3, FS_Subset
<1>5. Cardinality(Chl!Running) \in Nat
  BY <1>4, FS_CardinalityType
<1>6. Cardinality(Verifying) \in Nat
  BY <1>4, FS_CardinalityType
<1>7. Cardinality(DOMAIN thr) \in Nat
  BY <1>1, FS_CardinalityType
<1> QED
  BY <1>1, <1>2, <1>4, <1>5, <1>6, <1>7

\* What a step that leaves the verifications alone has to establish.
LEMMA ChlFrame ==
    ASSUME ChlInv, NEW t \in DOMAIN thr, NEW r, thr' = [thr EXCEPT ![t] = r], UNCHANGED checks,
           r.at \notin {"verify", "flow"}, ChlTyped(r, DOMAIN checks, SomeOk, SomeApproved'),
           SomeApproved => SomeApproved', ChlFacts', ChlAlone(t) => ChlSettled' /\ ChlKnows(r)'
    PROVE  ChlInv'
<1>1. /\ thr' = [u \in DOMAIN thr' |-> thr'[u]] /\ DOMAIN thr' = DOMAIN thr /\ IsFiniteSet(DOMAIN thr')
      /\ thr'[t] = r /\ \A u \in DOMAIN thr \ {t} : thr'[u] = thr[u]
  BY DEF ChlInv, ChlThreads
<1>2. SomeOk' = SomeOk /\ Chl!Running' = Chl!Running
  BY DEF SomeOk, Chl!Running
<1>3. ASSUME NEW u \in DOMAIN thr' PROVE ChlTyped(thr'[u], DOMAIN checks', SomeOk', SomeApproved')
  <2>1. CASE u = t
    BY <1>1, <1>2, <2>1
  <2>2. CASE u # t
    <3>1. PICK v : v = thr[u]
      OBVIOUS
    <3>2. ChlTyped(v, DOMAIN checks, SomeOk, SomeApproved) /\ thr'[u] = v
      BY <1>1, <2>2, <3>1 DEF ChlInv, ChlThreads
    <3>3. ChlTyped(v, DOMAIN checks, SomeOk, SomeApproved')
      BY <3>2 DEF ChlTyped
    <3> QED
      BY <1>2, <3>2, <3>3
  <2> QED
    BY <2>1, <2>2
<1>4. \A u \in DOMAIN thr' : thr'[u].at = "flow" => u # t /\ thr'[u] = thr[u]
  BY <1>1
<1>5. \A u \in DOMAIN thr' : thr'[u].at = "flow" => ~checks'[thr'[u].id].ok
  BY <1>1, <1>4 DEF ChlInv, ChlThreads
<1>6. \A u, v \in DOMAIN thr' : thr'[u].at = "flow" /\ thr'[v].at = "flow" /\ thr'[u].id = thr'[v].id => u = v
  BY <1>1, <1>4 DEF ChlInv, ChlThreads
<1>7. Verifying' \subseteq Verifying
  BY <1>1 DEF Verifying
<1>8. Cardinality(Verifying') <= Cardinality(Verifying) /\ Cardinality(Verifying') \in Nat
  BY <1>7, RunningFinite, FS_Subset, FS_CardinalityType
<1>9. Cardinality(Chl!Running') + Cardinality(Verifying') <= Cardinality(DOMAIN thr')
  BY <1>1, <1>2, <1>8, RunningFinite DEF ChlInv, ChlThreads
<1>10. ASSUME NEW u, DOMAIN thr' = {u} PROVE ChlAlone(u)'
  <2>1. u = t /\ ChlAlone(t)
    BY <1>1, <1>10 DEF ChlInv
  <2> QED
    BY <1>1, <2>1 DEF ChlAlone, ChlKnows
<1> QED
  BY <1>1, <1>3, <1>5, <1>6, <1>9, <1>10 DEF ChlInv, ChlThreads

\* A request passes its checks.
LEMMA ChlStarts ==
    ASSUME ChlInv, NEW t, NEW r, Chl!Begins(t, r), r.at \notin {"verify", "flow"},
           ChlTyped(r, DOMAIN checks, SomeOk, SomeApproved), ChlKnows(r)
    PROVE  ChlInv'
<1>1. /\ t \in DOMAIN thr /\ thr' = [thr EXCEPT ![t] = r] /\ UNCHANGED <<chal, checks, reviews, contest, listed>>
  BY DEF Chl!Begins, Chl!Free, Chl!Goes
<1>2. SomeApproved' = SomeApproved
  BY <1>1 DEF SomeApproved
<1>3. ChlFacts'
  BY <1>1 DEF ChlInv, ChlFacts, SomeApproved, SomeOk
<1>4. ASSUME ChlAlone(t) PROVE ChlSettled'
  BY <1>1, <1>4 DEF ChlAlone, ChlSettled, Chl!Proven, Chl!HasPassedVerification, Chl!Stored, Fit
<1>5. ChlKnows(r)'
  BY <1>1 DEF ChlKnows, Chl!Editable, Chl!Proven, Chl!HasPassedVerification, Chl!Stored, Fit, Chl!Running,
       Chl!ContestDraft
<1> QED
  BY <1>1, <1>2, <1>3, <1>4, <1>5, ChlFrame

\* A request ends with its write.
LEMMA ChlEnds ==
    ASSUME ChlInv, NEW t, NEW step, Chl!Ends(t, step), UNCHANGED checks,
           SomeApproved => SomeApproved', ChlFacts',
           t \in DOMAIN thr /\ thr[t].at = step /\ ChlAlone(t) => ChlSettled'
    PROVE  ChlInv'
<1>1. t \in DOMAIN thr /\ thr[t].at = step /\ thr' = [thr EXCEPT ![t] = Chl!Idle]
  BY DEF Chl!Ends, Chl!At, Chl!Goes
<1>2. Chl!Idle.at \notin {"verify", "flow"} /\ ChlTyped(Chl!Idle, DOMAIN checks, SomeOk, SomeApproved')
  BY ChlIdle
<1>3. ChlKnows(Chl!Idle)'
  BY DEF ChlKnows, Chl!Idle
<1> QED
  BY <1>1, <1>2, <1>3, ChlFrame

-----------------------------------------------------------------------------
(* The requests that pass their checks.                                    *)

LEMMA ChlBegun ==
    ASSUME ChlInv, NEW t,
           \/ \E onchain, public \in BOOLEAN : Chl!Update(t, onchain, public)
           \/ \E assets \in {"contracts", "assertions"}, n \in 0..1 : Chl!EditAssets(t, assets, n)
           \/ Chl!Delete(t) \/ Chl!SubmitReview(t)
           \/ \E action \in {"approved", "rejected"} : Chl!Review(t, action)
           \/ \E old \in SUBSET (1..MaxChecks) : Chl!RunVerificationCleanup(t, old)
           \/ Chl!AddChallenges(t) \/ Chl!RemoveChallenge(t) \/ Chl!Publish(t) \/ Chl!DeleteContest(t)
    PROVE  ChlInv'
<1>1. CASE \E onchain, public \in BOOLEAN : Chl!Update(t, onchain, public)
  <2>1. PICK onchain \in BOOLEAN, public \in BOOLEAN : Chl!Update(t, onchain, public)
    BY <1>1
  <2> DEFINE r == [at |-> "update", onchain |-> onchain, public |-> public]
  <2>2. Chl!Begins(t, r) /\ Chl!Editable
    BY <2>1 DEF Chl!Update
  <2>3. ChlTyped(r, DOMAIN checks, SomeOk, SomeApproved)
    BY DEF ChlTyped
  <2>4. ChlKnows(r) /\ r.at \notin {"verify", "flow"}
    BY <2>2 DEF ChlKnows
  <2> HIDE DEF r
  <2> QED
    BY <2>2, <2>3, <2>4, ChlStarts
<1>2. CASE \E assets \in {"contracts", "assertions"}, n \in 0..1 : Chl!EditAssets(t, assets, n)
  <2>1. PICK assets \in {"contracts", "assertions"}, n \in 0..1 : Chl!EditAssets(t, assets, n)
    BY <1>2
  <2> DEFINE r == [at |-> "assets", part |-> assets, n |-> n]
  <2>2. Chl!Begins(t, r) /\ Chl!Stored /\ chal.status = "draft"
    BY <2>1 DEF Chl!EditAssets
  <2>3. ChlTyped(r, DOMAIN checks, SomeOk, SomeApproved)
    BY DEF ChlTyped
  <2>4. ChlKnows(r) /\ r.at \notin {"verify", "flow"}
    BY <2>2 DEF ChlKnows
  <2> HIDE DEF r
  <2> QED
    BY <2>2, <2>3, <2>4, ChlStarts
<1>3. CASE Chl!Delete(t)
  <2> DEFINE r == [at |-> "delete"]
  <2>2. Chl!Begins(t, r)
    BY <1>3 DEF Chl!Delete
  <2>3. ChlTyped(r, DOMAIN checks, SomeOk, SomeApproved) /\ ChlKnows(r) /\ r.at \notin {"verify", "flow"}
    BY DEF ChlTyped, ChlKnows
  <2> HIDE DEF r
  <2> QED
    BY <2>2, <2>3, ChlStarts
<1>4. CASE Chl!SubmitReview(t)
  <2> DEFINE r == [at |-> "submit"]
  <2>2. Chl!Begins(t, r) /\ Chl!Editable /\ Chl!Proven
    BY <1>4 DEF Chl!SubmitReview
  <2>3. ChlTyped(r, DOMAIN checks, SomeOk, SomeApproved) /\ ChlKnows(r) /\ r.at \notin {"verify", "flow"}
    BY <2>2 DEF ChlTyped, ChlKnows
  <2> HIDE DEF r
  <2> QED
    BY <2>2, <2>3, ChlStarts
<1>5. CASE \E action \in {"approved", "rejected"} : Chl!Review(t, action)
  <2>1. PICK action \in {"approved", "rejected"} : Chl!Review(t, action)
    BY <1>5
  <2> DEFINE w == [action |-> action, onchain |-> chal.onchain]
             r == [at |-> "review", row |-> w]
  <2>2. Chl!Begins(t, r) /\ Chl!Stored /\ chal.status = "pending" /\ (action = "approved" => Chl!Proven)
    BY <2>1 DEF Chl!Review
  <2>3. chal.onchain \in BOOLEAN /\ w \in ReviewRow
    BY DEF ChlInv, ChlFacts, ChlRow, ReviewRow
  <2>4. w = Chl!Approval => SomeOk
    <3>1. SUFFICES ASSUME w = Chl!Approval PROVE SomeOk
      OBVIOUS
    <3>2. w.action = "approved" /\ w.onchain = TRUE /\ w.action = action /\ w.onchain = chal.onchain
      BY <3>1 DEF Chl!Approval
    <3>3. PICK k \in DOMAIN checks : checks[k].status = "passed"
      BY <2>2, <3>2 DEF Chl!Proven, Chl!HasPassedVerification
    <3> QED
      BY <3>3 DEF SomeOk, ChlInv, ChlFacts
  <2> HIDE DEF w
  <2>5. ChlTyped(r, DOMAIN checks, SomeOk, SomeApproved) /\ ChlKnows(r) /\ r.at \notin {"verify", "flow"}
    BY <2>2, <2>3, <2>4 DEF ChlTyped, ChlKnows
  <2> HIDE DEF r
  <2> QED
    BY <2>2, <2>5, ChlStarts
<1>6. CASE \E old \in SUBSET (1..MaxChecks) : Chl!RunVerificationCleanup(t, old)
  <2>1. PICK old \in SUBSET (1..MaxChecks) : Chl!RunVerificationCleanup(t, old)
    BY <1>6
  <2> DEFINE r == [at |-> "cleanup", old |-> old]
  <2>2. Chl!Begins(t, r) /\ old \subseteq Chl!Running
    BY <2>1 DEF Chl!RunVerificationCleanup
  <2>3. ChlTyped(r, DOMAIN checks, SomeOk, SomeApproved) /\ ChlKnows(r) /\ r.at \notin {"verify", "flow"}
    BY <2>2 DEF ChlTyped, ChlKnows, Chl!Running
  <2> HIDE DEF r
  <2> QED
    BY <2>2, <2>3, ChlStarts
<1>7. CASE Chl!AddChallenges(t)
  <2> DEFINE r == [at |-> "add", id |-> left]
  <2>2. Chl!Begins(t, r) /\ Chl!ContestDraft /\ Chl!Stored /\ chal.status = "approved" /\ Fit
    BY <1>7 DEF Chl!AddChallenges, Fit
  <2>3. SomeApproved
    BY <2>2 DEF ChlInv, ChlFacts
  <2>4. ChlTyped(r, DOMAIN checks, SomeOk, SomeApproved) /\ ChlKnows(r) /\ r.at \notin {"verify", "flow"}
    BY <2>2, <2>3 DEF ChlTyped, ChlKnows
  <2> HIDE DEF r
  <2> QED
    BY <2>2, <2>4, ChlStarts
<1>8. CASE Chl!RemoveChallenge(t)
  <2> DEFINE r == [at |-> "drop", id |-> listed]
  <2>2. Chl!Begins(t, r) /\ Chl!ContestDraft
    BY <1>8 DEF Chl!RemoveChallenge
  <2>3. ChlTyped(r, DOMAIN checks, SomeOk, SomeApproved) /\ ChlKnows(r) /\ r.at \notin {"verify", "flow"}
    BY <2>2 DEF ChlTyped, ChlKnows
  <2> HIDE DEF r
  <2> QED
    BY <2>2, <2>3, ChlStarts
<1>9. CASE Chl!Publish(t)
  <2> DEFINE r == [at |-> "contest", to |-> "registration"]
  <2>2. Chl!Begins(t, r) /\ listed # None
    BY <1>9 DEF Chl!Publish
  <2>3. ChlTyped(r, DOMAIN checks, SomeOk, SomeApproved) /\ ChlKnows(r) /\ r.at \notin {"verify", "flow"}
    BY <2>2 DEF ChlTyped, ChlKnows
  <2> HIDE DEF r
  <2> QED
    BY <2>2, <2>3, ChlStarts
<1>10. CASE Chl!DeleteContest(t)
  <2> DEFINE r == [at |-> "contest", to |-> "deleted"]
  <2>2. Chl!Begins(t, r)
    BY <1>10 DEF Chl!DeleteContest
  <2>3. ChlTyped(r, DOMAIN checks, SomeOk, SomeApproved) /\ ChlKnows(r) /\ r.at \notin {"verify", "flow"}
    BY <2>2 DEF ChlTyped, ChlKnows
  <2> HIDE DEF r
  <2> QED
    BY <2>2, <2>3, ChlStarts
<1> QED
  BY <1>1, <1>2, <1>3, <1>4, <1>5, <1>6, <1>7, <1>8, <1>9, <1>10

-----------------------------------------------------------------------------
(* The writes to the challenge and the competition.                        *)

\* A write to the row of the challenge keeps what is known whatever overlaps.
LEMMA ChlRowWritten ==
    ASSUME ChlInv, NEW t, NEW step, Chl!Ends(t, step), UNCHANGED <<checks, reviews, contest, listed>>,
           chal' \in ChlRow, chal'.status = "approved" => SomeApproved,
           t \in DOMAIN thr /\ thr[t].at = step /\ ChlAlone(t) => ChlSettled'
    PROVE  ChlInv'
<1>1. SomeApproved' = SomeApproved /\ SomeOk' = SomeOk
  BY DEF SomeApproved, SomeOk
<1>2. ChlFacts'
  BY <1>1 DEF ChlInv, ChlFacts
<1> QED
  BY <1>1, <1>2, ChlEnds

LEMMA ChlUpdateWrite ==
    ASSUME ChlInv, NEW t, Chl!UpdateWrite(t)
    PROVE  ChlInv'
<1>1. /\ Chl!Ends(t, "update") /\ UNCHANGED <<checks, reviews, contest, listed>>
      /\ t \in DOMAIN thr /\ thr[t].at = "update"
      /\ Chl!Write([chal EXCEPT !.onchain = thr[t].onchain, !.public = thr[t].public])
  BY DEF Chl!UpdateWrite, Chl!Ends, Chl!At
<1>2. PICK onchain, public : onchain = thr[t].onchain /\ public = thr[t].public
  OBVIOUS
<1>3. onchain \in BOOLEAN /\ public \in BOOLEAN /\ chal \in ChlRow
  BY <1>1, <1>2 DEF ChlInv, ChlThreads, ChlFacts, ChlTyped
<1>4. /\ chal' \in ChlRow /\ chal'.status = chal.status /\ chal'.deleted = chal.deleted
  BY <1>1, <1>2, <1>3 DEF Chl!Write, ChlRow
<1>5. chal'.status = "approved" => SomeApproved
  BY <1>4 DEF ChlInv, ChlFacts
<1>6. ASSUME ChlAlone(t) PROVE ChlSettled'
  <2>1. chal.status \in {"draft", "rejected"} /\ ~chal.deleted
    BY <1>1, <1>6 DEF ChlAlone, ChlKnows, Chl!Editable, Chl!Stored
  <2>2. /\ listed # None /\ Chl!Stored => chal.status = "approved" /\ Fit
        /\ contest.status = "registration" => listed # None
    BY <1>6 DEF ChlAlone, ChlSettled
  <2>3. listed = None /\ contest.status # "registration"
    BY <2>1, <2>2 DEF Chl!Stored
  <2> QED
    BY <1>1, <1>4, <2>1, <2>3 DEF ChlSettled
<1> QED
  BY <1>1, <1>4, <1>5, <1>6, ChlRowWritten

LEMMA ChlAssetsWrite ==
    ASSUME ChlInv, NEW t, Chl!AssetsWrite(t)
    PROVE  ChlInv'
<1>1. /\ Chl!Ends(t, "assets") /\ UNCHANGED <<checks, reviews, contest, listed>>
      /\ t \in DOMAIN thr /\ thr[t].at = "assets"
      /\ chal' = [chal EXCEPT ![thr[t].part] = thr[t].n]
  BY DEF Chl!AssetsWrite, Chl!Ends, Chl!At
<1>2. PICK assets, n : assets = thr[t].part /\ n = thr[t].n
  OBVIOUS
<1>3. assets \in {"contracts", "assertions"} /\ n \in 0..1 /\ chal \in ChlRow
  BY <1>1, <1>2 DEF ChlInv, ChlThreads, ChlFacts, ChlTyped
<1>4. /\ chal' \in ChlRow /\ chal'.status = chal.status /\ chal'.deleted = chal.deleted
      /\ chal'.public = chal.public /\ chal'.onchain = chal.onchain
  <2>1. CASE assets = "contracts"
    <3>1. chal' = [chal EXCEPT !.contracts = n]
      BY <1>1, <1>2, <2>1
    <3> QED
      BY <1>3, <3>1 DEF ChlRow
  <2>2. CASE assets = "assertions"
    <3>1. chal' = [chal EXCEPT !.assertions = n]
      BY <1>1, <1>2, <2>2
    <3> QED
      BY <1>3, <3>1 DEF ChlRow
  <2> QED
    BY <1>3, <2>1, <2>2
<1>5. chal'.status = "approved" => SomeApproved
  BY <1>4 DEF ChlInv, ChlFacts
<1>6. ASSUME ChlAlone(t) PROVE ChlSettled'
  <2>1. chal.status = "draft" /\ ~chal.deleted
    BY <1>1, <1>6 DEF ChlAlone, ChlKnows, Chl!Stored
  <2>2. /\ listed # None /\ Chl!Stored => chal.status = "approved" /\ Fit
        /\ contest.status = "registration" => listed # None
    BY <1>6 DEF ChlAlone, ChlSettled
  <2>3. listed = None /\ contest.status # "registration"
    BY <2>1, <2>2 DEF Chl!Stored
  <2> QED
    BY <1>1, <1>4, <2>1, <2>3 DEF ChlSettled
<1> QED
  BY <1>1, <1>4, <1>5, <1>6, ChlRowWritten

LEMMA ChlDeleteWrite ==
    ASSUME ChlInv, NEW t, Chl!DeleteWrite(t)
    PROVE  ChlInv'
<1>1. /\ Chl!Ends(t, "delete") /\ UNCHANGED <<checks, reviews, contest, listed>>
      /\ chal' = [chal EXCEPT !.deleted = TRUE, !.contracts = 0, !.assertions = 0]
  BY DEF Chl!DeleteWrite
<1>2. chal \in ChlRow
  BY DEF ChlInv, ChlFacts
<1>3. /\ chal' \in ChlRow /\ chal'.status = chal.status /\ chal'.deleted = TRUE
      /\ chal'.public = chal.public /\ chal'.onchain = chal.onchain
  <2>1. chal' = [status |-> chal.status, onchain |-> chal.onchain, public |-> chal.public, deleted |-> TRUE,
                 contracts |-> 0, assertions |-> 0]
    BY <1>1, <1>2 DEF ChlRow
  <2> QED
    BY <1>2, <2>1 DEF ChlRow
<1>4. chal'.status = "approved" => SomeApproved
  BY <1>3 DEF ChlInv, ChlFacts
<1>5. ASSUME ChlAlone(t) PROVE ChlSettled'
  BY <1>1, <1>3, <1>5 DEF ChlAlone, ChlSettled, Chl!Stored, Chl!Proven, Chl!HasPassedVerification
<1> QED
  BY <1>1, <1>3, <1>4, <1>5, ChlRowWritten

LEMMA ChlSubmitWrite ==
    ASSUME ChlInv, NEW t, Chl!SubmitWrite(t)
    PROVE  ChlInv'
<1>1. /\ Chl!Ends(t, "submit") /\ UNCHANGED <<checks, reviews, contest, listed>>
      /\ t \in DOMAIN thr /\ thr[t].at = "submit"
      /\ Chl!Write([chal EXCEPT !.status = "pending"])
  BY DEF Chl!SubmitWrite, Chl!Ends, Chl!At
<1>2. chal \in ChlRow
  BY DEF ChlInv, ChlFacts
<1>3. /\ chal' \in ChlRow /\ chal'.status \in {chal.status, "pending"} /\ chal'.deleted = chal.deleted
      /\ chal'.public = chal.public /\ chal'.onchain = chal.onchain
      /\ Chl!Stored => chal'.status = "pending"
  BY <1>1, <1>2 DEF ChlRow, Chl!Write
<1>4. chal'.status = "approved" => SomeApproved
  BY <1>3 DEF ChlInv, ChlFacts
<1>5. ASSUME ChlAlone(t) PROVE ChlSettled'
  <2>1. Chl!Stored /\ chal.status \in {"draft", "rejected"} /\ Chl!Proven
    BY <1>1, <1>5 DEF ChlAlone, ChlKnows, Chl!Editable
  <2>2. /\ listed # None /\ Chl!Stored => chal.status = "approved" /\ Fit
        /\ contest.status = "registration" => listed # None
    BY <1>5 DEF ChlAlone, ChlSettled
  <2>3. listed = None /\ contest.status # "registration" /\ chal'.status = "pending"
    BY <1>3, <2>1, <2>2
  <2>4. Chl!Proven'
    BY <1>1, <1>3, <2>1 DEF Chl!Proven, Chl!HasPassedVerification
  <2> QED
    BY <1>1, <2>3, <2>4 DEF ChlSettled
<1> QED
  BY <1>1, <1>3, <1>4, <1>5, ChlRowWritten

LEMMA ChlReviewWrite ==
    ASSUME ChlInv, NEW t, Chl!ReviewWrite(t)
    PROVE  ChlInv'
<1>1. /\ Chl!Ends(t, "review") /\ UNCHANGED <<checks, contest, listed>>
      /\ t \in DOMAIN thr /\ thr[t].at = "review"
      /\ reviews' = Append(reviews, thr[t].row)
      /\ Chl!Write([chal EXCEPT !.status = thr[t].row.action, !.public = thr[t].row.action = "approved"])
  BY DEF Chl!ReviewWrite, Chl!Ends, Chl!At
<1>2. PICK w : w = thr[t].row
  OBVIOUS
<1>3. w \in ReviewRow /\ (w = Chl!Approval => SomeOk) /\ chal \in ChlRow /\ reviews \in ReviewRows
  BY <1>1, <1>2 DEF ChlInv, ChlThreads, ChlFacts, ChlTyped
<1>4. reviews' \in ReviewRows /\ DOMAIN reviews' = DOMAIN reviews \union {Len(reviews) + 1}
  BY <1>1, <1>2, <1>3 DEF ReviewRows
<1>5. /\ reviews'[Len(reviews) + 1] = w
      /\ \A i \in DOMAIN reviews : i # Len(reviews) + 1 /\ i \in DOMAIN reviews' /\ reviews'[i] = reviews[i]
  BY <1>1, <1>2, <1>3 DEF ReviewRows
<1>6. SomeApproved => SomeApproved'
  BY <1>5 DEF SomeApproved
<1>7. w.action = "approved" => SomeApproved'
  BY <1>4, <1>5 DEF SomeApproved
<1>8. PICK action : action = w.action
  OBVIOUS
<1>9. action \in {"approved", "rejected"}
  BY <1>3, <1>8 DEF ReviewRow
<1>10. /\ chal' \in ChlRow /\ chal'.status \in {chal.status, action} /\ chal'.deleted = chal.deleted
       /\ chal'.onchain = chal.onchain
       /\ Chl!Stored => chal' = [chal EXCEPT !.status = action, !.public = action = "approved"]
  BY <1>1, <1>2, <1>3, <1>8, <1>9 DEF ChlRow, Chl!Write
<1>11. Chl!Stored => chal'.status = action /\ chal'.public = (action = "approved")
  BY <1>3, <1>9, <1>10 DEF ChlRow
<1>12. chal'.status = "approved" => SomeApproved'
  BY <1>6, <1>7, <1>8, <1>10 DEF ChlInv, ChlFacts
<1>13. SomeOk' = SomeOk
  BY <1>1 DEF SomeOk
<1>14. \A i \in DOMAIN reviews' : reviews'[i] = Chl!Approval => SomeOk'
  BY <1>3, <1>4, <1>5, <1>13 DEF ChlInv, ChlFacts
<1>15. ChlFacts'
  BY <1>1, <1>4, <1>6, <1>10, <1>12, <1>14 DEF ChlInv, ChlFacts
<1>16. ASSUME ChlAlone(t) PROVE ChlSettled'
  <2>1. Chl!Stored /\ chal.status = "pending"
    BY <1>1, <1>16 DEF ChlAlone, ChlKnows
  <2>2. /\ listed # None /\ Chl!Stored => chal.status = "approved" /\ Fit
        /\ contest.status = "registration" => listed # None
        /\ Chl!Proven
    BY <1>16, <2>1 DEF ChlAlone, ChlSettled
  <2>3. listed = None /\ contest.status # "registration"
    BY <2>1, <2>2
  <2>4. Chl!Proven'
    BY <1>1, <1>10, <2>2 DEF Chl!Proven, Chl!HasPassedVerification
  <2> QED
    BY <1>1, <1>9, <1>11, <2>1, <2>3, <2>4 DEF ChlSettled
<1> QED
  BY <1>1, <1>6, <1>15, <1>16, ChlEnds

LEMMA ChlAddWrite ==
    ASSUME ChlInv, NEW t, Chl!AddWrite(t)
    PROVE  ChlInv'
<1>1. /\ Chl!Ends(t, "add") /\ UNCHANGED <<chal, checks, reviews, contest>>
      /\ t \in DOMAIN thr /\ thr[t].at = "add" /\ (listed' = listed \/ listed = None)
  BY DEF Chl!AddWrite, Chl!Ends, Chl!At
<1>2. SomeApproved' = SomeApproved /\ SomeOk' = SomeOk /\ SomeApproved
  BY <1>1 DEF SomeApproved, SomeOk, ChlInv, ChlThreads, ChlTyped
<1>3. ChlFacts'
  BY <1>1, <1>2 DEF ChlInv, ChlFacts
<1>4. ASSUME ChlAlone(t) PROVE ChlSettled'
  <2>1. Chl!ContestDraft /\ Chl!Stored /\ chal.status = "approved" /\ Fit
    BY <1>1, <1>4 DEF ChlAlone, ChlKnows
  <2> QED
    BY <1>1, <1>4, <2>1 DEF ChlAlone, ChlSettled, Chl!Stored, Chl!Proven, Chl!HasPassedVerification, Fit,
       Chl!ContestDraft
<1> QED
  BY <1>1, <1>2, <1>3, <1>4, ChlEnds

LEMMA ChlRemoveWrite ==
    ASSUME ChlInv, NEW t, Chl!RemoveWrite(t)
    PROVE  ChlInv'
<1>1. /\ Chl!Ends(t, "drop") /\ UNCHANGED <<chal, checks, reviews, contest>>
      /\ t \in DOMAIN thr /\ thr[t].at = "drop" /\ (listed' = listed \/ listed' = None)
  BY DEF Chl!RemoveWrite, Chl!Ends, Chl!At
<1>2. SomeApproved' = SomeApproved /\ SomeOk' = SomeOk
  BY <1>1 DEF SomeApproved, SomeOk
<1>3. ChlFacts'
  BY <1>1, <1>2 DEF ChlInv, ChlFacts
<1>4. ASSUME ChlAlone(t) PROVE ChlSettled'
  BY <1>1, <1>4 DEF ChlAlone, ChlKnows, ChlSettled, Chl!Stored, Chl!Proven, Chl!HasPassedVerification, Fit,
     Chl!ContestDraft
<1> QED
  BY <1>1, <1>2, <1>3, <1>4, ChlEnds

LEMMA ChlContestWrite ==
    ASSUME ChlInv, NEW t, Chl!ContestWrite(t)
    PROVE  ChlInv'
<1>1. /\ Chl!Ends(t, "contest") /\ UNCHANGED <<chal, checks, reviews, listed>>
      /\ t \in DOMAIN thr /\ thr[t].at = "contest" /\ Chl!WriteContest(thr[t].to)
  BY DEF Chl!ContestWrite, Chl!Ends, Chl!At
<1>2. PICK to : to = thr[t].to
  OBVIOUS
<1>3. to \in {"registration", "deleted"} /\ contest \in [status : {"draft", "registration", "deleted"}, ad : BOOLEAN]
  BY <1>1, <1>2 DEF ChlInv, ChlThreads, ChlTyped, ChlFacts
<1>4. /\ contest' \in [status : {"draft", "registration", "deleted"}, ad : BOOLEAN]
      /\ contest'.ad = contest.ad /\ contest'.status \in {contest.status, to}
  BY <1>1, <1>2, <1>3 DEF Chl!WriteContest
<1>5. SomeApproved' = SomeApproved /\ SomeOk' = SomeOk
  BY <1>1 DEF SomeApproved, SomeOk
<1>6. ChlFacts'
  BY <1>1, <1>4, <1>5 DEF ChlInv, ChlFacts
<1>7. ASSUME ChlAlone(t) PROVE ChlSettled'
  BY <1>1, <1>2, <1>4, <1>7 DEF ChlAlone, ChlKnows, ChlSettled, Chl!Stored, Chl!Proven, Chl!HasPassedVerification, Fit
<1> QED
  BY <1>1, <1>5, <1>6, <1>7, ChlEnds

LEMMA ChlAbandon ==
    ASSUME ChlInv, NEW t, Chl!Abandon(t)
    PROVE  ChlInv'
<1>1. /\ Chl!Ends(t, "flow") /\ UNCHANGED <<chal, checks, reviews, contest, listed>>
  BY DEF Chl!Abandon
<1>2. SomeApproved' = SomeApproved /\ SomeOk' = SomeOk
  BY <1>1 DEF SomeApproved, SomeOk
<1>3. ChlFacts'
  BY <1>1, <1>2 DEF ChlInv, ChlFacts
<1>4. ASSUME ChlAlone(t) PROVE ChlSettled'
  BY <1>1, <1>4 DEF ChlAlone, ChlSettled, Chl!Stored, Chl!Proven, Chl!HasPassedVerification, Fit
<1> QED
  BY <1>1, <1>2, <1>3, <1>4, ChlEnds

LEMMA ChlCreate ==
    ASSUME ChlInv, NEW t, NEW draft \in Chl!Drafts, Chl!Create(t, draft)
    PROVE  ChlInv'
<1>1. /\ chal.status = "none" /\ t \in DOMAIN thr /\ thr[t] = Chl!Idle /\ chal' = draft
      /\ UNCHANGED <<checks, reviews, contest, listed, thr>>
  BY DEF Chl!Create, Chl!Free
<1>2. draft \in ChlRow /\ draft.status = "draft"
  <2>1. CASE \E o \in BOOLEAN : draft = Chl!NewChallenge(o, 0, 0)
    BY <2>1 DEF Chl!NewChallenge, ChlRow
  <2>2. CASE \E n \in 0..1 : draft = Chl!NewChallenge(TRUE, 1, n)
    BY <2>2 DEF Chl!NewChallenge, ChlRow
  <2> QED
    BY <2>1, <2>2 DEF Chl!Drafts
<1>3. SomeApproved' = SomeApproved /\ SomeOk' = SomeOk /\ Chl!Running' = Chl!Running /\ Verifying' = Verifying
  BY <1>1 DEF SomeApproved, SomeOk, Chl!Running, Verifying
<1>4. ChlFacts'
  BY <1>1, <1>2, <1>3 DEF ChlInv, ChlFacts
<1>5. ChlThreads'
  BY <1>1, <1>3 DEF ChlInv, ChlThreads
<1>6. ASSUME NEW u, DOMAIN thr' = {u} PROVE ChlAlone(u)'
  <2>1. u = t /\ ChlAlone(t)
    BY <1>1, <1>6 DEF ChlInv
  <2>2. listed' = None /\ contest'.status # "registration" /\ chal'.status = "draft"
    BY <1>1, <1>2, <2>1 DEF ChlAlone, ChlSettled
  <2>3. ChlSettled'
    BY <2>2 DEF ChlSettled
  <2>4. ChlKnows(thr[u])'
    BY <1>1, <2>1 DEF ChlKnows, Chl!Idle
  <2> QED
    BY <2>3, <2>4 DEF ChlAlone
<1> QED
  BY <1>4, <1>5, <1>6 DEF ChlInv

-----------------------------------------------------------------------------
(* The verifications.                                                      *)

\* A step to one record of a handler, for the handlers that stay as they are.
LEMMA ChlOthers ==
    ASSUME ChlInv, NEW t \in DOMAIN thr, NEW r, thr' = [thr EXCEPT ![t] = r],
           NEW ids, DOMAIN checks \subseteq ids, NEW ok, SomeOk => ok,
           ChlTyped(r, ids, ok, SomeApproved)
    PROVE  /\ thr' = [u \in DOMAIN thr' |-> thr'[u]] /\ DOMAIN thr' = DOMAIN thr /\ IsFiniteSet(DOMAIN thr')
           /\ thr'[t] = r /\ \A u \in DOMAIN thr \ {t} : thr'[u] = thr[u]
           /\ \A u \in DOMAIN thr' : ChlTyped(thr'[u], ids, ok, SomeApproved)
<1>1. /\ thr' = [u \in DOMAIN thr' |-> thr'[u]] /\ DOMAIN thr' = DOMAIN thr /\ IsFiniteSet(DOMAIN thr')
      /\ thr'[t] = r /\ \A u \in DOMAIN thr \ {t} : thr'[u] = thr[u]
  BY DEF ChlInv, ChlThreads
<1>2. ASSUME NEW u \in DOMAIN thr \ {t} PROVE ChlTyped(thr[u], ids, ok, SomeApproved)
  <2>1. PICK v : v = thr[u]
    OBVIOUS
  <2>2. ChlTyped(v, DOMAIN checks, SomeOk, SomeApproved)
    BY <2>1 DEF ChlInv, ChlThreads
  <2>3. ChlTyped(v, ids, ok, SomeApproved)
    BY <2>2 DEF ChlTyped
  <2> QED
    BY <2>1, <2>3
<1>3. ASSUME NEW u \in DOMAIN thr' PROVE ChlTyped(thr'[u], ids, ok, SomeApproved)
  BY <1>1, <1>2
<1> QED
  BY <1>1, <1>3

LEMMA ChlStartVerification ==
    ASSUME ChlInv, NEW t, Chl!StartVerification(t)
    PROVE  ChlInv'
<1> DEFINE r == [at |-> "verify"]
<1>1. /\ Chl!Stored /\ Chl!Running = {} /\ t \in DOMAIN thr /\ thr[t] = Chl!Idle
      /\ thr' = [thr EXCEPT ![t] = r] /\ UNCHANGED <<chal, checks, reviews, contest, listed>>
  BY DEF Chl!StartVerification, Chl!Begins, Chl!Free, Chl!Goes
<1>2. ChlTyped(r, DOMAIN checks, SomeOk, SomeApproved) /\ ChlKnows(r)' /\ r.at = "verify"
  BY DEF ChlTyped, ChlKnows
<1> HIDE DEF r
<1>3. SomeOk \in BOOLEAN /\ SomeOk' = SomeOk /\ SomeApproved' = SomeApproved /\ Chl!Running' = Chl!Running
  BY <1>1 DEF SomeOk, SomeApproved, Chl!Running
<1>4. /\ thr' = [u \in DOMAIN thr' |-> thr'[u]] /\ DOMAIN thr' = DOMAIN thr /\ IsFiniteSet(DOMAIN thr')
      /\ thr'[t] = r /\ \A u \in DOMAIN thr \ {t} : thr'[u] = thr[u]
      /\ \A u \in DOMAIN thr' : ChlTyped(thr'[u], DOMAIN checks, SomeOk, SomeApproved)
  BY <1>1, <1>2, ChlOthers
<1>5. \A u \in DOMAIN thr' : thr'[u].at = "flow" => thr'[u] = thr[u]
  BY <1>2, <1>4
<1>6. \A u \in DOMAIN thr' : thr'[u].at = "flow" => ~checks'[thr'[u].id].ok
  BY <1>1, <1>4, <1>5 DEF ChlInv, ChlThreads
<1>7. \A u, v \in DOMAIN thr' : thr'[u].at = "flow" /\ thr'[v].at = "flow" /\ thr'[u].id = thr'[v].id => u = v
  BY <1>4, <1>5 DEF ChlInv, ChlThreads
<1>8. Cardinality(Chl!Running') = 0
  BY <1>1, <1>3, FS_EmptySet
<1>9. Cardinality(Verifying') \in Nat /\ Cardinality(Verifying') <= Cardinality(DOMAIN thr')
  <2>1. Verifying' \subseteq DOMAIN thr'
    BY DEF Verifying
  <2> QED
    BY <1>4, <2>1, FS_Subset, FS_CardinalityType
<1>10. ChlThreads'
  BY <1>1, <1>3, <1>4, <1>6, <1>7, <1>8, <1>9 DEF ChlThreads
<1>11. ChlFacts'
  BY <1>1, <1>3 DEF ChlInv, ChlFacts
<1>12. ASSUME NEW u, DOMAIN thr' = {u} PROVE ChlAlone(u)'
  <2>1. u = t /\ ChlAlone(t)
    BY <1>1, <1>4, <1>12 DEF ChlInv
  <2>2. ChlSettled'
    BY <1>1, <2>1 DEF ChlAlone, ChlSettled, Chl!Proven, Chl!HasPassedVerification, Chl!Stored, Fit
  <2>3. ChlKnows(thr[u])'
    BY <1>2, <1>4, <2>1 DEF ChlKnows
  <2> QED
    BY <2>2, <2>3 DEF ChlAlone
<1> QED
  BY <1>10, <1>11, <1>12 DEF ChlInv

LEMMA ChlVerificationInsert ==
    ASSUME ChlInv, NEW t, Chl!VerificationInsert(t)
    PROVE  ChlInv'
<1> DEFINE n == Len(checks) + 1
           r == [at |-> "flow", id |-> n]
<1>1. /\ t \in DOMAIN thr /\ thr[t].at = "verify" /\ checks' = Append(checks, [status |-> "running", ok |-> FALSE])
      /\ thr' = [thr EXCEPT ![t] = r] /\ UNCHANGED <<chal, reviews, contest, listed>>
  BY DEF Chl!VerificationInsert, Chl!At, Chl!Goes
<1>2. checks \in CheckRows /\ Len(checks) \in Nat /\ DOMAIN checks = 1..Len(checks)
  BY CheckTyped DEF ChlInv, ChlFacts
<1>3. checks' \in CheckRows /\ DOMAIN checks' = DOMAIN checks \union {n} /\ n \notin DOMAIN checks
  BY <1>1, <1>2 DEF CheckRows, CheckRow
<1>4. checks'[n] = [status |-> "running", ok |-> FALSE] /\ \A k \in DOMAIN checks : checks'[k] = checks[k]
  BY <1>1, <1>2 DEF CheckRows
<1>5. checks'[n].status = "running" /\ checks'[n].ok = FALSE
  BY <1>4
<1>6. SomeOk' = SomeOk /\ SomeApproved' = SomeApproved
  BY <1>1, <1>3, <1>4, <1>5 DEF SomeOk, SomeApproved
<1>7. r.at = "flow" /\ r.id = n /\ ChlTyped(r, DOMAIN checks', SomeOk, SomeApproved)
  BY <1>3 DEF ChlTyped
<1> HIDE DEF r, n
<1>8. /\ thr' = [u \in DOMAIN thr' |-> thr'[u]] /\ DOMAIN thr' = DOMAIN thr /\ IsFiniteSet(DOMAIN thr')
      /\ thr'[t] = r /\ \A u \in DOMAIN thr \ {t} : thr'[u] = thr[u]
      /\ \A u \in DOMAIN thr' : ChlTyped(thr'[u], DOMAIN checks', SomeOk, SomeApproved)
  BY <1>1, <1>3, <1>7, ChlOthers
<1>9. \A u \in DOMAIN thr \ {t} : thr[u].at = "flow" => thr[u].id \in DOMAIN checks /\ thr[u].id # n
  BY <1>3 DEF ChlInv, ChlThreads, ChlTyped
<1>10. \A u \in DOMAIN thr' : thr'[u].at = "flow" => ~checks'[thr'[u].id].ok
  BY <1>4, <1>5, <1>7, <1>8, <1>9 DEF ChlInv, ChlThreads
<1>11. \A u, v \in DOMAIN thr' : thr'[u].at = "flow" /\ thr'[v].at = "flow" /\ thr'[u].id = thr'[v].id => u = v
  BY <1>7, <1>8, <1>9 DEF ChlInv, ChlThreads
<1>12. Chl!Running' = Chl!Running \union {n} /\ n \notin Chl!Running
  BY <1>3, <1>4, <1>5 DEF Chl!Running
<1>13. Cardinality(Chl!Running') = Cardinality(Chl!Running) + 1
  BY <1>12, RunningFinite, FS_AddElement
<1>14. t \in Verifying /\ Verifying' = Verifying \ {t}
  BY <1>1, <1>7, <1>8 DEF Verifying
<1>15. Cardinality(Verifying') = Cardinality(Verifying) - 1
  BY <1>14, RunningFinite, FS_RemoveElement
<1>16. Cardinality(Chl!Running') + Cardinality(Verifying') <= Cardinality(DOMAIN thr')
  BY <1>8, <1>13, <1>15, RunningFinite DEF ChlInv, ChlThreads
<1>17. ChlThreads'
  BY <1>6, <1>8, <1>10, <1>11, <1>16 DEF ChlThreads
<1>18. \A k \in DOMAIN checks' : checks'[k].status = "passed" => checks'[k].ok
  BY <1>3, <1>4, <1>5 DEF ChlInv, ChlFacts
<1>19. ChlFacts'
  BY <1>1, <1>3, <1>6, <1>18 DEF ChlInv, ChlFacts
<1>20. ASSUME NEW u, DOMAIN thr' = {u} PROVE ChlAlone(u)'
  <2>1. u = t /\ ChlAlone(t)
    BY <1>1, <1>8, <1>20 DEF ChlInv
  <2>2. Chl!HasPassedVerification' = Chl!HasPassedVerification
    BY <1>3, <1>4, <1>5 DEF Chl!HasPassedVerification
  <2>3. ChlSettled'
    BY <1>1, <2>1, <2>2 DEF ChlAlone, ChlSettled, Chl!Proven, Chl!Stored, Fit
  <2>4. ChlKnows(thr[u])'
    BY <1>5, <1>7, <1>8, <2>1 DEF ChlKnows
  <2> QED
    BY <2>3, <2>4 DEF ChlAlone
<1> QED
  BY <1>17, <1>19, <1>20 DEF ChlInv

LEMMA ChlComplete ==
    ASSUME ChlInv, NEW t, NEW ok \in BOOLEAN, Chl!Complete(t, ok)
    PROVE  ChlInv'
<1>1. /\ t \in DOMAIN thr /\ thr[t].at = "flow" /\ checks' = [checks EXCEPT ![thr[t].id] = Chl!Outcome(ok)]
      /\ thr' = [thr EXCEPT ![t] = Chl!Idle] /\ UNCHANGED <<chal, reviews, contest, listed>>
  BY DEF Chl!Complete, Chl!Ends, Chl!At, Chl!Goes
<1>2. PICK n : n = thr[t].id
  OBVIOUS
<1>3. checks \in CheckRows /\ n \in DOMAIN checks /\ ~checks[n].ok
  BY <1>1, <1>2 DEF ChlInv, ChlFacts, ChlThreads, ChlTyped
<1>4. PICK w : w = Chl!Outcome(ok)
  OBVIOUS
<1>5. w \in CheckRow /\ w.status \in {"passed", "failed"} /\ w.ok = ok /\ (w.status = "passed" => w.ok)
  BY <1>4 DEF Chl!Outcome, CheckRow
<1>6. checks' \in CheckRows /\ DOMAIN checks' = DOMAIN checks
  BY <1>1, <1>2, <1>3, <1>4, <1>5 DEF CheckRows
<1>7. checks'[n] = w /\ \A k \in DOMAIN checks \ {n} : checks'[k] = checks[k]
  BY <1>1, <1>2, <1>3, <1>4 DEF CheckRows
<1>8. SomeApproved' = SomeApproved /\ (SomeOk => SomeOk')
  BY <1>1, <1>3, <1>6, <1>7 DEF SomeOk, SomeApproved
<1>9. Chl!Idle.at = "idle" /\ ChlTyped(Chl!Idle, DOMAIN checks', SomeOk', SomeApproved)
  BY ChlIdle
<1>10. /\ thr' = [u \in DOMAIN thr' |-> thr'[u]] /\ DOMAIN thr' = DOMAIN thr /\ IsFiniteSet(DOMAIN thr')
       /\ thr'[t] = Chl!Idle /\ \A u \in DOMAIN thr \ {t} : thr'[u] = thr[u]
       /\ \A u \in DOMAIN thr' : ChlTyped(thr'[u], DOMAIN checks', SomeOk', SomeApproved)
  BY <1>1, <1>6, <1>8, <1>9, ChlOthers
<1>11. \A u \in DOMAIN thr' : thr'[u].at = "flow" => u # t /\ thr'[u] = thr[u] /\ thr'[u].id # n
  BY <1>1, <1>2, <1>9, <1>10 DEF ChlInv, ChlThreads
<1>12. \A u \in DOMAIN thr' : thr'[u].at = "flow" => thr'[u].id \in DOMAIN checks
  BY <1>6, <1>10 DEF ChlTyped
<1>13. \A u \in DOMAIN thr' : thr'[u].at = "flow" => ~checks'[thr'[u].id].ok
  BY <1>7, <1>10, <1>11, <1>12 DEF ChlInv, ChlThreads
<1>14. \A u, v \in DOMAIN thr' : thr'[u].at = "flow" /\ thr'[v].at = "flow" /\ thr'[u].id = thr'[v].id => u = v
  BY <1>10, <1>11 DEF ChlInv, ChlThreads
<1>15. Chl!Running' \subseteq Chl!Running /\ Verifying' \subseteq Verifying
  BY <1>5, <1>6, <1>7, <1>9, <1>10 DEF Chl!Running, Verifying
<1>16. Cardinality(Chl!Running') <= Cardinality(Chl!Running) /\ Cardinality(Chl!Running') \in Nat
  BY <1>15, RunningFinite, FS_Subset, FS_CardinalityType
<1>17. Cardinality(Verifying') <= Cardinality(Verifying) /\ Cardinality(Verifying') \in Nat
  BY <1>15, RunningFinite, FS_Subset, FS_CardinalityType
<1>18. Cardinality(Chl!Running') + Cardinality(Verifying') <= Cardinality(DOMAIN thr')
  BY <1>10, <1>16, <1>17, RunningFinite DEF ChlInv, ChlThreads
<1>19. ChlThreads'
  BY <1>8, <1>10, <1>13, <1>14, <1>18 DEF ChlThreads
<1>20. \A k \in DOMAIN checks' : checks'[k].status = "passed" => checks'[k].ok
  BY <1>5, <1>6, <1>7 DEF ChlInv, ChlFacts
<1>21. ChlFacts'
  BY <1>1, <1>6, <1>8, <1>20 DEF ChlInv, ChlFacts
<1>22. ASSUME NEW u, DOMAIN thr' = {u} PROVE ChlAlone(u)'
  <2>1. u = t /\ ChlAlone(t)
    BY <1>1, <1>10, <1>22 DEF ChlInv
  <2>2. checks[n].status = "running"
    BY <1>1, <1>2, <2>1 DEF ChlAlone, ChlKnows
  <2>3. Chl!HasPassedVerification => Chl!HasPassedVerification'
    BY <1>6, <1>7, <2>2 DEF Chl!HasPassedVerification
  <2>4. ChlSettled'
    BY <1>1, <2>1, <2>3 DEF ChlAlone, ChlSettled, Chl!Proven, Chl!Stored, Fit
  <2>5. ChlKnows(thr[u])'
    BY <1>9, <1>10, <2>1 DEF ChlKnows
  <2> QED
    BY <2>4, <2>5 DEF ChlAlone
<1> QED
  BY <1>19, <1>21, <1>22 DEF ChlInv

LEMMA ChlTimeoutWrite ==
    ASSUME ChlInv, NEW t, NEW i, Chl!TimeoutWrite(t, i)
    PROVE  ChlInv'
<1>1. /\ t \in DOMAIN thr /\ thr[t].at = "cleanup" /\ i \in thr[t].old
      /\ checks' = [checks EXCEPT ![i].status = "failed"]
      /\ thr' = [thr EXCEPT ![t] = IF thr[t].old = {i} THEN Chl!Idle ELSE [thr[t] EXCEPT !.old = @ \ {i}]]
      /\ UNCHANGED <<chal, reviews, contest, listed>>
  BY DEF Chl!TimeoutWrite, Chl!At, Chl!Goes
<1>2. PICK old : old = thr[t].old
  OBVIOUS
<1>3. /\ checks \in CheckRows /\ i \in DOMAIN checks /\ checks[i] \in CheckRow /\ old \subseteq DOMAIN checks
      /\ thr[t] = [at |-> "cleanup", old |-> old]
  BY <1>1, <1>2, CheckTyped DEF ChlInv, ChlFacts, ChlThreads, ChlTyped
<1>4. PICK r : r = IF old = {i} THEN Chl!Idle ELSE [at |-> "cleanup", old |-> old \ {i}]
  OBVIOUS
<1>5. thr' = [thr EXCEPT ![t] = r]
  <2>1. [thr[t] EXCEPT !.old = @ \ {i}] = [at |-> "cleanup", old |-> old \ {i}]
    BY <1>3
  <2> QED
    BY <1>1, <1>2, <1>4, <2>1
<1>6. PICK w : w = [checks[i] EXCEPT !.status = "failed"]
  OBVIOUS
<1>7. w \in CheckRow /\ w.status = "failed" /\ w.ok = checks[i].ok
  BY <1>3, <1>6 DEF CheckRow
<1>8. checks' = [checks EXCEPT ![i] = w]
  BY <1>1, <1>6
<1>9. checks' \in CheckRows /\ DOMAIN checks' = DOMAIN checks
  BY <1>3, <1>7, <1>8 DEF CheckRows
<1>10. checks'[i] = w /\ \A k \in DOMAIN checks \ {i} : checks'[k] = checks[k]
  BY <1>3, <1>8 DEF CheckRows
<1>11. SomeApproved' = SomeApproved /\ SomeOk' = SomeOk /\ \A k \in DOMAIN checks : checks'[k].ok = checks[k].ok
  BY <1>1, <1>3, <1>7, <1>9, <1>10 DEF SomeOk, SomeApproved
<1>12. r.at \in {"idle", "cleanup"} /\ ChlTyped(r, DOMAIN checks, SomeOk, SomeApproved)
  <2>1. CASE old = {i}
    BY <1>4, <2>1, ChlIdle
  <2>2. CASE old # {i}
    BY <1>3, <1>4, <2>2 DEF ChlTyped
  <2> QED
    BY <2>1, <2>2
<1>13. /\ thr' = [u \in DOMAIN thr' |-> thr'[u]] /\ DOMAIN thr' = DOMAIN thr /\ IsFiniteSet(DOMAIN thr')
       /\ thr'[t] = r /\ \A u \in DOMAIN thr \ {t} : thr'[u] = thr[u]
       /\ \A u \in DOMAIN thr' : ChlTyped(thr'[u], DOMAIN checks, SomeOk, SomeApproved)
  <2>1. ChlTyped(r, DOMAIN checks, SomeOk, SomeApproved) /\ t \in DOMAIN thr
    BY <1>1, <1>12
  <2> QED
    BY <1>5, <2>1, ChlOthers
<1>14. \A u \in DOMAIN thr' : thr'[u].at = "flow" => u # t /\ thr'[u] = thr[u] /\ thr'[u].id \in DOMAIN checks
  BY <1>12, <1>13 DEF ChlTyped
<1>15. \A u \in DOMAIN thr' : thr'[u].at = "flow" => ~checks'[thr'[u].id].ok
  BY <1>11, <1>13, <1>14 DEF ChlInv, ChlThreads
<1>16. \A u, v \in DOMAIN thr' : thr'[u].at = "flow" /\ thr'[v].at = "flow" /\ thr'[u].id = thr'[v].id => u = v
  BY <1>13, <1>14 DEF ChlInv, ChlThreads
<1>17. Chl!Running' \subseteq Chl!Running /\ Verifying' \subseteq Verifying
  BY <1>7, <1>9, <1>10, <1>12, <1>13 DEF Chl!Running, Verifying
<1>18. Cardinality(Chl!Running') <= Cardinality(Chl!Running) /\ Cardinality(Chl!Running') \in Nat
  BY <1>17, RunningFinite, FS_Subset, FS_CardinalityType
<1>19. Cardinality(Verifying') <= Cardinality(Verifying) /\ Cardinality(Verifying') \in Nat
  BY <1>17, RunningFinite, FS_Subset, FS_CardinalityType
<1>20. Cardinality(Chl!Running') + Cardinality(Verifying') <= Cardinality(DOMAIN thr')
  BY <1>13, <1>18, <1>19, RunningFinite DEF ChlInv, ChlThreads
<1>21. ChlThreads'
  BY <1>9, <1>11, <1>13, <1>15, <1>16, <1>20 DEF ChlThreads
<1>22. \A k \in DOMAIN checks' : checks'[k].status = "passed" => checks'[k].ok
  BY <1>7, <1>9, <1>10 DEF ChlInv, ChlFacts
<1>23. ChlFacts'
  BY <1>1, <1>9, <1>11, <1>22 DEF ChlInv, ChlFacts
<1>24. ASSUME NEW u, DOMAIN thr' = {u} PROVE ChlAlone(u)'
  <2>1. u = t /\ ChlAlone(t)
    BY <1>1, <1>13, <1>24 DEF ChlInv
  <2>2. old \subseteq Chl!Running
    BY <1>1, <1>2, <2>1 DEF ChlAlone, ChlKnows
  <2>3. checks[i].status = "running"
    BY <1>1, <1>2, <2>2 DEF Chl!Running
  <2>4. Chl!HasPassedVerification => Chl!HasPassedVerification'
    BY <1>9, <1>10, <2>3 DEF Chl!HasPassedVerification
  <2>5. ChlSettled'
    BY <1>1, <2>1, <2>4 DEF ChlAlone, ChlSettled, Chl!Proven, Chl!Stored, Fit
  <2>6. r.at = "cleanup" => r.old = old \ {i}
    BY <1>4, ChlIdle
  <2>7. old \ {i} \subseteq Chl!Running'
    BY <1>9, <1>10, <2>2 DEF Chl!Running
  <2>8. ChlKnows(thr[u])'
    BY <1>12, <1>13, <2>1, <2>6, <2>7 DEF ChlKnows
  <2> QED
    BY <2>5, <2>8 DEF ChlAlone
<1> QED
  BY <1>21, <1>23, <1>24 DEF ChlInv

-----------------------------------------------------------------------------
(* The whole service.                                                      *)

LEMMA ChlStays ==
    ASSUME ChlInv, UNCHANGED <<thr, chal, checks, reviews, contest, listed>>
    PROVE  ChlInv'
<1>1. /\ SomeOk' = SomeOk /\ SomeApproved' = SomeApproved /\ Chl!Running' = Chl!Running /\ Verifying' = Verifying
  BY DEF SomeOk, SomeApproved, Chl!Running, Verifying
<1>2. ChlFacts'
  BY <1>1 DEF ChlInv, ChlFacts
<1>3. ChlThreads'
  BY <1>1 DEF ChlInv, ChlThreads
<1>4. ASSUME NEW u, DOMAIN thr' = {u} PROVE ChlAlone(u)'
  BY <1>1, <1>4 DEF ChlInv, ChlAlone, ChlSettled, ChlKnows, Chl!Proven, Chl!HasPassedVerification, Chl!Stored,
     Chl!Editable, Chl!ContestDraft, Fit
<1> QED
  BY <1>2, <1>3, <1>4 DEF ChlInv

LEMMA OneItem ==
    ASSUME NEW S, NEW x \in S, NEW s, s = <<>> \/ s = <<x>>
    PROVE  /\ s \in Seq(S)
           /\ \A k \in DOMAIN s : s[k] = x
           /\ s = <<x>> => DOMAIN s = {1}
<1>1. CASE s = <<>>
  BY <1>1
<1>2. CASE s = <<x>>
  BY <1>2
<1> QED
  BY <1>1, <1>2

LEMMA ChlInit == Chl!Init => ChlInv
<1> SUFFICES ASSUME Chl!Init PROVE ChlInv
  OBVIOUS
<1>1. PICK crew \in ChallengeCrews, ad \in BOOLEAN :
        /\ thr = [t \in crew.threads |-> Chl!Idle] /\ contest = [status |-> "draft", ad |-> ad] /\ listed = None
        /\ crew.from \in {"none", "draft", "pending", "approved"}
        /\ crew.from = "none" =>
             /\ chal = [Chl!NewChallenge(FALSE, 0, 0) EXCEPT !.status = "none"] /\ checks = <<>> /\ reviews = <<>>
        /\ crew.from = "draft" =>
             /\ chal \in {Chl!Whole, Chl!NewChallenge(FALSE, 0, 0)} /\ checks = <<>> /\ reviews = <<>>
        /\ crew.from = "pending" =>
             /\ chal = [Chl!Whole EXCEPT !.status = "pending"] /\ checks = <<Chl!Outcome(TRUE)>> /\ reviews = <<>>
        /\ crew.from = "approved" =>
             /\ chal = [Chl!Whole EXCEPT !.status = "approved", !.public = TRUE]
             /\ checks = <<Chl!Outcome(TRUE)>> /\ reviews = <<Chl!Approval>>
  BY ChallengeAssumption DEF Chl!Init
<1>2. \A t \in DOMAIN thr : thr[t] = Chl!Idle
  BY <1>1
<1>3. IsFiniteSet(DOMAIN thr)
  BY <1>1, HandlersAssumption DEF Handled
<1>4. chal \in ChlRow /\ chal.status \in {"none", "draft", "pending", "approved"}
      /\ (chal.status \in {"pending", "approved"} => checks = <<Chl!Outcome(TRUE)>>)
      /\ (chal.status = "approved" => chal.public /\ reviews = <<Chl!Approval>>)
  <2>1. /\ Chl!NewChallenge(FALSE, 0, 0) \in ChlRow /\ Chl!NewChallenge(FALSE, 0, 0).status = "draft"
        /\ Chl!Whole \in ChlRow /\ Chl!Whole.status = "draft"
    BY DEF Chl!Whole, Chl!NewChallenge, ChlRow
  <2>2. CASE crew.from = "none"
    <3>1. chal \in ChlRow /\ chal.status = "none"
      BY <1>1, <2>1, <2>2 DEF ChlRow
    <3> QED
      BY <3>1
  <2>3. CASE crew.from = "draft"
    <3>1. chal \in ChlRow /\ chal.status = "draft"
      BY <1>1, <2>1, <2>3
    <3> QED
      BY <3>1
  <2>4. CASE crew.from = "pending"
    <3>1. chal \in ChlRow /\ chal.status = "pending"
      BY <1>1, <2>1, <2>4 DEF ChlRow
    <3> QED
      BY <1>1, <2>4, <3>1
  <2>5. CASE crew.from = "approved"
    <3>1. PICK whole \in ChlRow : whole = Chl!Whole
      BY <2>1
    <3>2. chal = [whole EXCEPT !.status = "approved", !.public = TRUE]
      BY <1>1, <2>5, <3>1
    <3>3. chal \in ChlRow /\ chal.status = "approved" /\ chal.public
      BY <3>2 DEF ChlRow
    <3> QED
      BY <1>1, <2>5, <3>3
  <2> QED
    BY <1>1, <2>2, <2>3, <2>4, <2>5
<1>5. PICK outcome : outcome = Chl!Outcome(TRUE)
  OBVIOUS
<1>6. PICK approval : approval = Chl!Approval
  OBVIOUS
<1>7. checks = <<>> \/ checks = <<outcome>>
  BY <1>1, <1>5
<1>8. reviews = <<>> \/ (reviews = <<approval>> /\ checks = <<outcome>>)
  BY <1>1, <1>5, <1>6
<1>9. outcome \in CheckRow /\ outcome.status = "passed" /\ outcome.ok
  BY <1>5 DEF Chl!Outcome, CheckRow
<1>10. approval \in ReviewRow /\ approval.action = "approved"
  BY <1>6 DEF Chl!Approval, ReviewRow
<1>11. /\ checks \in CheckRows /\ \A k \in DOMAIN checks : checks[k] = outcome
       /\ checks = <<outcome>> => DOMAIN checks = {1}
  BY <1>7, <1>9, OneItem DEF CheckRows
<1>12. /\ reviews \in ReviewRows /\ \A k \in DOMAIN reviews : reviews[k] = approval
       /\ reviews = <<approval>> => DOMAIN reviews = {1}
  BY <1>8, <1>10, OneItem DEF ReviewRows
<1>13. checks = <<outcome>> => SomeOk /\ Chl!HasPassedVerification
  BY <1>9, <1>11 DEF SomeOk, Chl!HasPassedVerification
<1>14. reviews = <<approval>> => SomeApproved
  BY <1>10, <1>12 DEF SomeApproved
<1>15. \A i \in DOMAIN reviews : reviews[i] = Chl!Approval => SomeOk
  <2>1. CASE reviews = <<>>
    BY <2>1
  <2>2. CASE checks = <<outcome>>
    BY <1>13, <2>2
  <2> QED
    BY <1>8, <2>1, <2>2
<1>16. ChlFacts
  BY <1>1, <1>4, <1>6, <1>9, <1>11, <1>12, <1>14, <1>15 DEF ChlFacts
<1>17. Chl!Running = {} /\ Verifying = {}
  BY <1>2, <1>9, <1>11, ChlIdle DEF Chl!Running, Verifying
<1>18. Cardinality(Chl!Running) + Cardinality(Verifying) <= Cardinality(DOMAIN thr)
  <2>1. Cardinality(Chl!Running) = 0 /\ Cardinality(Verifying) = 0
    BY <1>17, FS_EmptySet
  <2>2. Cardinality(DOMAIN thr) \in Nat
    BY <1>3, FS_CardinalityType
  <2> QED
    BY <2>1, <2>2
<1>19. ChlThreads
  BY <1>1, <1>2, <1>3, <1>18, ChlIdle DEF ChlThreads
<1>20. ASSUME NEW t, DOMAIN thr = {t} PROVE ChlAlone(t)
  BY <1>1, <1>2, <1>4, <1>5, <1>13, <1>20, ChlIdle DEF ChlAlone, ChlSettled, Chl!Proven
<1> QED
  BY <1>16, <1>19, <1>20 DEF ChlInv

LEMMA ChlStep == ChlInv /\ Chl!Next => ChlInv'
<1> SUFFICES ASSUME ChlInv, NEW t,
               \/ \E draft \in Chl!Drafts : Chl!Create(t, draft)
               \/ \E onchain, public \in BOOLEAN : Chl!Update(t, onchain, public)
               \/ \E assets \in {"contracts", "assertions"}, n \in 0..1 : Chl!EditAssets(t, assets, n)
               \/ Chl!Delete(t) \/ Chl!StartVerification(t) \/ Chl!SubmitReview(t)
               \/ \E action \in {"approved", "rejected"} : Chl!Review(t, action)
               \/ \E old \in SUBSET (1..MaxChecks) : Chl!RunVerificationCleanup(t, old)
               \/ Chl!AddChallenges(t) \/ Chl!RemoveChallenge(t) \/ Chl!Publish(t) \/ Chl!DeleteContest(t)
               \/ Chl!UpdateWrite(t) \/ Chl!AssetsWrite(t) \/ Chl!DeleteWrite(t) \/ Chl!VerificationInsert(t)
               \/ \E ok \in BOOLEAN : Chl!Complete(t, ok)
               \/ Chl!Abandon(t)
               \/ \E i \in 1..MaxChecks : Chl!TimeoutWrite(t, i)
               \/ Chl!SubmitWrite(t) \/ Chl!ReviewWrite(t) \/ Chl!AddWrite(t) \/ Chl!RemoveWrite(t)
               \/ Chl!ContestWrite(t)
             PROVE  ChlInv'
  BY DEF Chl!Next
<1>1. CASE \/ \E onchain, public \in BOOLEAN : Chl!Update(t, onchain, public)
           \/ \E assets \in {"contracts", "assertions"}, n \in 0..1 : Chl!EditAssets(t, assets, n)
           \/ Chl!Delete(t) \/ Chl!SubmitReview(t)
           \/ \E action \in {"approved", "rejected"} : Chl!Review(t, action)
           \/ \E old \in SUBSET (1..MaxChecks) : Chl!RunVerificationCleanup(t, old)
           \/ Chl!AddChallenges(t) \/ Chl!RemoveChallenge(t) \/ Chl!Publish(t) \/ Chl!DeleteContest(t)
  BY <1>1, ChlBegun
<1>2. CASE Chl!UpdateWrite(t) \/ Chl!AssetsWrite(t) \/ Chl!DeleteWrite(t) \/ Chl!SubmitWrite(t)
  BY <1>2, ChlUpdateWrite, ChlAssetsWrite, ChlDeleteWrite, ChlSubmitWrite
<1>3. CASE Chl!ReviewWrite(t) \/ Chl!AddWrite(t) \/ Chl!RemoveWrite(t) \/ Chl!ContestWrite(t) \/ Chl!Abandon(t)
  BY <1>3, ChlReviewWrite, ChlAddWrite, ChlRemoveWrite, ChlContestWrite, ChlAbandon
<1>4. CASE Chl!StartVerification(t) \/ Chl!VerificationInsert(t)
  BY <1>4, ChlStartVerification, ChlVerificationInsert
<1>5. CASE \/ \E draft \in Chl!Drafts : Chl!Create(t, draft)
           \/ \E ok \in BOOLEAN : Chl!Complete(t, ok)
           \/ \E i \in 1..MaxChecks : Chl!TimeoutWrite(t, i)
  BY <1>5, ChlCreate, ChlComplete, ChlTimeoutWrite
<1> QED
  BY <1>1, <1>2, <1>3, <1>4, <1>5

\* The challenges keep their invariant.
LEMMA ChlHolds == Spec => [](part = "challenges" => ChlInv)
<1> DEFINE I == part = "challenges" => ChlInv
<1>1. Init => I
  BY ChlInit DEF Init
<1>2. I /\ [Next]_allVars => I'
  <2> SUFFICES ASSUME I, [Next]_allVars, part' = "challenges" PROVE ChlInv'
    OBVIOUS
  <2>1. part = "challenges" /\ ChlInv
    BY PartStays
  <2>2. CASE Next
    BY <2>1, <2>2, ChlStep DEF Next
  <2>3. CASE UNCHANGED allVars
    BY <2>1, <2>3, ChlStays DEF allVars, chalVars
  <2> QED
    BY <2>2, <2>3
<1> QED
  BY <1>1, <1>2, PTL DEF Spec, allVars

\* While no operations overlap and no statement fails, an approved grade is the one its
\* approval computed and a granted appeal is in the grade it was about (ApproveReview and
\* ApproveAppeal).  Whatever overlaps, a challenge is listed and approved only after a
\* review approved it, and an on-chain one only after a verification succeeded; alone, it
\* stays as it was reviewed; and no more verifications run than requests overlap
\* (StartVerification, ReviewChallenge and AddChallenges of service/ctf).
THEOREM ApprovalsAreBacked == Spec => []ApprovedIsWritten
<1>1. (part = "learning" => LrnInv) => (part = "learning" => Lrn!ApprovedIsWritten)
  <2> SUFFICES ASSUME part = "learning", LrnInv, Lrn!Settled, faults = 0
               PROVE  /\ review.locked /\ appeal = None => row # None /\ row.score = granted
                      /\ appeal # None => row # None /\ row.id = appeal.grade
                      /\ appeal # None /\ appeal.status = "approved" => row.score = appeal.new
    BY DEF Lrn!ApprovedIsWritten
  <2>1. PICK t : DOMAIN thr = {t}
    BY OneElement, SameCardinality DEF Lrn!Settled, LrnInv, LrnThreads
  <2>2. thr[t].at = "idle"
    BY <2>1, IdleTyped DEF Lrn!Settled, Lrn!Free
  <2> QED
    BY <2>1, <2>2 DEF LrnInv, GrAlone, GrFacts
<1>2. (part = "challenges" => ChlInv) => (part = "challenges" => Chl!ApprovedIsReviewed)
  <2> SUFFICES ASSUME ChlInv PROVE Chl!ApprovedIsReviewed
    OBVIOUS
  <2>1. Chl!ListedWasApproved
    BY DEF ChlInv, ChlFacts, SomeApproved, SomeOk, Chl!ListedWasApproved
  <2>2. Cardinality(Chl!Running) <= Cardinality(DOMAIN thr) /\ Cardinality(DOMAIN thr) \in Nat
    BY RunningFinite DEF ChlInv, ChlThreads
  <2>3. Chl!OneVerification
    BY <2>2, SameCardinality DEF Chl!OneVerification, Chl!Overlap
  <2>4. ASSUME Chl!Alone PROVE ChlSettled
    <3>1. Cardinality(DOMAIN thr) = 1 /\ IsFiniteSet(DOMAIN thr)
      BY <2>2, <2>4, SameCardinality DEF Chl!Alone, Chl!Overlap, ChlInv, ChlThreads
    <3>2. PICK t : DOMAIN thr = {t}
      BY <3>1, OneElement
    <3> QED
      BY <3>2 DEF ChlInv, ChlAlone
  <2>5. Chl!StaysAsReviewed
    BY <2>4 DEF Chl!StaysAsReviewed, ChlSettled, Fit
  <2> QED
    BY <2>1, <2>3, <2>5 DEF Chl!ApprovedIsReviewed
<1> QED
  BY <1>1, <1>2, LrnHolds, ChlHolds, PTL DEF ApprovedIsWritten

-----------------------------------------------------------------------------
(* The accounts.                                                           *)

Pair == [iat : Nat, by : {"login", "sso", "force", "refresh"}]
AccUser == [status : {"active", "disabled", "archived"}, deleted : BOOLEAN, first : BOOLEAN,
            validAfter : Nat \union {Never}]
AccLock == [fails : Nat, locked : BOOLEAN, until : {"none", "future", "past"}]
AccSteps == {"idle", "wrong", "lock", "passed", "store", "refresh", "kick", "kickSchool"} \union Acc!Operations
AccThread == [at : AccSteps, pair : Nat, by : {"none", "login", "sso"},
              seen : {"none", "first"} \union Acc!Statuses]
AccSchool == [status : Acc!Statuses, end : Int, frozenAt : Nat \union {Never}]

AccFacts ==
    /\ \E crew \in AccountCrews : DOMAIN thr = crew.threads
    /\ thr \in [DOMAIN thr -> AccThread]
    /\ now \in Nat /\ user \in AccUser /\ locking \in AccLock /\ school \in AccSchool
    /\ validAfter \in Nat \union {Never}
    /\ pairs \in Seq(Pair)
    /\ session \in DOMAIN pairs \union {Never} /\ black \subseteq DOMAIN pairs
    /\ \A t \in DOMAIN thr : /\ thr[t].at = "store" => thr[t].pair \in DOMAIN pairs
                             /\ thr[t].at = "passed" => thr[t].by # "none"
    /\ \A i \in DOMAIN pairs : pairs[i].iat <= Acc!Second(now)
    /\ user.validAfter # Never => user.validAfter <= now

\* The failures of a password that was not locked: whoever counted the last one
\* that was allowed is about to lock, and nobody starts while it is locked.
WrongOnes == {t \in DOMAIN thr : thr[t].at = "wrong"}
Lockers == {t \in DOMAIN thr : thr[t].at = "lock"}
AccBounds ==
    /\ locking.until = "future" => locking.locked
    /\ locking.until = "none" => locking.fails <= MaxFail - 1 + Cardinality(Lockers)
    /\ locking.fails + Cardinality(WrongOnes) <= MaxFail - 1 + Cardinality(DOMAIN thr)

\* What one handler at a time knows.
Old(i) == user.validAfter # Never /\ pairs[i].iat < Acc!Second(user.validAfter)
Young(i) == /\ user.validAfter # Never => pairs[i].iat >= Acc!Second(user.validAfter)
            /\ validAfter # Never => 2 * pairs[i].iat >= validAfter
Inside == user.status = "active" /\ ~user.deleted /\ school.status \in {"active", "buffering"}
Forced(i) == pairs[i].by = "force"
AccOrder(r) ==
    /\ r.at \in {"passed", "refresh"} => Inside
    /\ r.at = "refresh" => session # Never
    /\ r.at = "freeze" => school.status \in {"active", "buffering"}
    /\ r.at = "lapse" => school.status = "buffering"
    /\ r.at = "unfreeze" => school.status = "frozen"
    /\ r.at \in {"cancel", "licence"} => school.status # "cancelled"
    /\ r.at = "restore" => school.status = "cancelled"
    /\ r.at = "expire" => school.status = "active"
AccTokens(r) ==
    /\ validAfter # Never /\ user.validAfter # Never => 2 * Acc!Second(user.validAfter) <= validAfter
    /\ r.at # "store" /\ session # Never => session \notin black /\ Young(session)
    /\ r.at = "store" => /\ r.pair \notin black /\ Young(r.pair) /\ (session # Never => session \in black)
                         /\ Forced(r.pair) \/ Inside
    /\ \A i \in DOMAIN pairs :
         i \in black \/ i = session \/ (r.at = "store" /\ i = r.pair) \/ pairs[i].iat \in kicked \/ Old(i)
    /\ r.at # "kick" /\ session # Never =>
         \/ Forced(session)
         \/ /\ user.status = "active"
            /\ \/ school.status = "cancelled"
               \/ ~user.deleted /\ (school.status # "frozen" \/ r.at = "kickSchool")
AccAlone(r) == AccOrder(r) /\ AccTokens(r)

AccInv == AccFacts /\ AccBounds /\ \A t : DOMAIN thr = {t} => AccAlone(thr[t])

LEMMA SecondFacts ==
    ASSUME NEW n \in Nat
    PROVE  /\ Acc!Second(n) \in Nat /\ 2 * Acc!Second(n) <= n /\ n <= 2 * Acc!Second(n) + 1
BY SMT DEF Acc!Second

LEMMA SecondMonotone ==
    ASSUME NEW m \in Nat, NEW n \in Nat, m <= n
    PROVE  Acc!Second(m) <= Acc!Second(n) /\ Acc!Second(m) \in Nat /\ Acc!Second(n) \in Nat
BY SMT DEF Acc!Second

LEMMA PairAppended ==
    ASSUME NEW P \in Seq(Pair), NEW p \in Pair
    PROVE  /\ Append(P, p) \in Seq(Pair)
           /\ Len(P) + 1 \in Nat
           /\ DOMAIN Append(P, p) = DOMAIN P \union {Len(P) + 1} /\ Len(P) + 1 \notin DOMAIN P
           /\ \A i \in DOMAIN P : Append(P, p)[i] = P[i]
           /\ Append(P, p)[Len(P) + 1] = p
OBVIOUS

\* What a step leaves of the other threads.
LEMMA AccMoves ==
    ASSUME AccFacts, NEW t \in DOMAIN thr, NEW r \in AccThread, thr' = [thr EXCEPT ![t] = r]
    PROVE  /\ DOMAIN thr' = DOMAIN thr /\ thr' \in [DOMAIN thr' -> AccThread] /\ thr'[t] = r
           /\ \A s \in DOMAIN thr : s # t => thr'[s] = thr[s]
           /\ \E crew \in AccountCrews : DOMAIN thr' = crew.threads
<1>1. /\ DOMAIN thr' = DOMAIN thr /\ thr' \in [DOMAIN thr' -> AccThread] /\ thr'[t] = r
      /\ \A s \in DOMAIN thr : s # t => thr'[s] = thr[s]
  BY DEF AccFacts
<1> QED
  BY <1>1 DEF AccFacts

\* A step of one thread.
AccAct(t) ==
    \/ Acc!LoginWrong(t) \/ Acc!CountFailure(t) \/ Acc!LockAccount(t)
    \/ Acc!LoginRight(t) \/ Acc!LoginSSO(t) \/ Acc!GrantTemp(t) \/ Acc!IssueLogin(t) \/ Acc!StoreSession(t)
    \/ Acc!ForceChangePassword(t) \/ Acc!RefreshCheck(t) \/ Acc!IssueRefresh(t)
    \/ \E i \in DOMAIN pairs : Acc!Logout(t, i)
    \/ \E s \in {"active", "disabled", "archived"} : Acc!UpdateStatus(t, s)
    \/ Acc!Delete(t) \/ Acc!ResetPassword(t) \/ Acc!Kick(t) \/ Acc!UnlockUser(t)
    \/ \E op \in Acc!Operations : Acc!Decide(t, op)
    \/ Acc!FreezeSchool(t) \/ Acc!KickSchoolUsers(t) \/ Acc!Unfreeze(t) \/ Acc!Cancel(t) \/ Acc!Restore(t)
    \/ \E e \in {now, MaxNow + 1} : Acc!SetLicense(t, e)
    \/ Acc!ExpireToBuffering(t)
\* A step of time, or of a key that expires.
AccPass ==
    \/ \E i \in DOMAIN pairs : Acc!UseToken(i)
    \/ Acc!Tick \/ Acc!FailuresExpire \/ Acc!LockPeriodEnds \/ Acc!ValidAfterEvicted \/ Acc!ShownExpires
    \/ Acc!TempExpires

LEMMA AccSteps2 == Acc!Next => AccPass \/ \E t : AccAct(t)
BY DEF Acc!Next, AccAct, AccPass

\* The record a step leaves in its thread.
NewRec(t, r) == t \in DOMAIN thr /\ r \in AccThread /\ thr' = [thr EXCEPT ![t] = r]
LEMMA AccThreads ==
    ASSUME AccFacts, NEW t, AccAct(t)
    PROVE  \E r : NewRec(t, r)
<1>1. Acc!Idle \in AccThread
  BY DEF Acc!Idle, AccThread, AccSteps
<1>2. CASE Acc!LoginWrong(t) \/ Acc!CountFailure(t) \/ Acc!LockAccount(t)
  BY <1>1, <1>2 DEF Acc!LoginWrong, Acc!CountFailure, Acc!LockAccount, Acc!Goes, Acc!Ends, Acc!Free, Acc!At, Acc!Idle,
       NewRec, AccThread, AccSteps
<1>3. CASE Acc!LoginRight(t) \/ Acc!LoginSSO(t) \/ Acc!GrantTemp(t)
  BY <1>1, <1>3 DEF Acc!LoginRight, Acc!LoginSSO, Acc!GrantTemp, Acc!Goes, Acc!Ends, Acc!Free, Acc!At, Acc!Idle,
       NewRec, AccThread, AccSteps
<1>4. CASE Acc!IssueLogin(t) \/ Acc!ForceChangePassword(t) \/ Acc!IssueRefresh(t)
  <2>1. Len(pairs) + 1 \in Nat
    BY DEF AccFacts
  <2> QED
    BY <1>4, <2>1 DEF Acc!IssueLogin, Acc!ForceChangePassword, Acc!IssueRefresh, Acc!IssuePair,
       Acc!Goes, Acc!Free, Acc!At, Acc!Idle, NewRec, AccThread, AccSteps
<1>5. CASE Acc!StoreSession(t) \/ Acc!RefreshCheck(t) \/ \E i \in DOMAIN pairs : Acc!Logout(t, i)
  BY <1>1, <1>5 DEF Acc!StoreSession, Acc!RefreshCheck, Acc!Logout, Acc!Goes, Acc!Ends, Acc!Free, Acc!At, Acc!Idle,
       NewRec, AccThread, AccSteps
<1>6. CASE (\E s \in {"active", "disabled", "archived"} : Acc!UpdateStatus(t, s)) \/ Acc!Delete(t) \/ Acc!ResetPassword(t)
           \/ Acc!Kick(t) \/ Acc!UnlockUser(t)
  BY <1>1, <1>6 DEF Acc!UpdateStatus, Acc!Delete, Acc!ResetPassword, Acc!ChangeUser, Acc!Kick, Acc!UnlockUser,
       Acc!Goes, Acc!Ends, Acc!Free, Acc!At, Acc!Idle, NewRec, AccThread, AccSteps
<1>7. CASE \E op \in Acc!Operations : Acc!Decide(t, op)
  BY <1>7 DEF Acc!Decide, Acc!Goes, Acc!Free, Acc!Idle, NewRec, AccThread, AccSteps, AccFacts, AccSchool
<1>8. CASE Acc!FreezeSchool(t) \/ Acc!KickSchoolUsers(t) \/ Acc!Unfreeze(t) \/ Acc!Cancel(t) \/ Acc!Restore(t)
           \/ (\E e \in {now, MaxNow + 1} : Acc!SetLicense(t, e)) \/ Acc!ExpireToBuffering(t)
  BY <1>1, <1>8 DEF Acc!FreezeSchool, Acc!KickSchoolUsers, Acc!Unfreeze, Acc!Cancel, Acc!Restore, Acc!SetLicense,
       Acc!ExpireToBuffering, Acc!Goes, Acc!Ends, Acc!Free, Acc!At, Acc!Idle, NewRec, AccThread, AccSteps
<1> QED
  BY <1>2, <1>3, <1>4, <1>5, <1>6, <1>7, <1>8 DEF AccAct

\* Which record that is.
LEMMA AccGoes ==
    ASSUME NEW t, NEW r, NewRec(t, r)
    PROVE  /\ Acc!Ends(t) => r.at = "idle"
           /\ \A p, b, x :
                /\ Acc!Goes(t, [Acc!Idle EXCEPT !.at = p]) => r.at = p
                /\ Acc!Goes(t, [Acc!Idle EXCEPT !.at = p, !.pair = x]) => r.at = p /\ r.pair = x
                /\ Acc!Goes(t, [Acc!Idle EXCEPT !.at = p, !.seen = x]) => r.at = p /\ r.seen = x
                /\ Acc!Goes(t, [Acc!Idle EXCEPT !.at = p, !.by = b, !.seen = x]) => r.at = p /\ r.by = b
<1>1. \A x : Acc!Goes(t, x) => r = x
  BY DEF Acc!Goes, NewRec
<1>2. Acc!Ends(t) => r.at = "idle"
  BY <1>1 DEF Acc!Ends, Acc!Idle
<1>3. ASSUME NEW p, NEW b, NEW x
      PROVE  /\ Acc!Goes(t, [Acc!Idle EXCEPT !.at = p]) => r.at = p
             /\ Acc!Goes(t, [Acc!Idle EXCEPT !.at = p, !.pair = x]) => r.at = p /\ r.pair = x
             /\ Acc!Goes(t, [Acc!Idle EXCEPT !.at = p, !.seen = x]) => r.at = p /\ r.seen = x
             /\ Acc!Goes(t, [Acc!Idle EXCEPT !.at = p, !.by = b, !.seen = x]) => r.at = p /\ r.by = b
  <2>1. /\ [Acc!Idle EXCEPT !.at = p].at = p
        /\ [Acc!Idle EXCEPT !.at = p, !.pair = x].at = p /\ [Acc!Idle EXCEPT !.at = p, !.pair = x].pair = x
        /\ [Acc!Idle EXCEPT !.at = p, !.seen = x].at = p /\ [Acc!Idle EXCEPT !.at = p, !.seen = x].seen = x
        /\ [Acc!Idle EXCEPT !.at = p, !.by = b, !.seen = x].at = p /\ [Acc!Idle EXCEPT !.at = p, !.by = b, !.seen = x].by = b
    BY DEF Acc!Idle
  <2> QED
    BY <1>1, <2>1
<1> QED
  BY <1>2, <1>3, Zenon

LEMMA TwoParts ==
    ASSUME NEW D, IsFiniteSet(D), NEW A, A \subseteq D, NEW B, B \subseteq D, A \cap B = {}
    PROVE  /\ IsFiniteSet(A) /\ IsFiniteSet(B)
           /\ Cardinality(D) \in Nat /\ Cardinality(A) \in Nat /\ Cardinality(B) \in Nat
           /\ Cardinality(A) + Cardinality(B) <= Cardinality(D)
<1>1. IsFiniteSet(A) /\ IsFiniteSet(B)
  BY FS_Subset
<1>2. Cardinality(D) \in Nat /\ Cardinality(A) \in Nat /\ Cardinality(B) \in Nat
  BY <1>1, FS_CardinalityType
<1>3. Cardinality(A \union B) = Cardinality(A) + Cardinality(B) - Cardinality(A \cap B)
  BY <1>1, FS_Union
<1>4. Cardinality(A \cap B) = 0
  BY FS_EmptySet
<1>5. A \union B \subseteq D
  OBVIOUS
<1>6. Cardinality(A \union B) <= Cardinality(D)
  BY <1>5, FS_Subset
<1> QED
  BY <1>1, <1>2, <1>3, <1>4, <1>6, SMT

\* What a step does to the bounds of wrong passwords: at most one thread moves.
LEMMA AccCounts ==
    ASSUME AccFacts
    PROVE  /\ IsFiniteSet(DOMAIN thr) /\ IsFiniteSet(WrongOnes) /\ IsFiniteSet(Lockers)
           /\ Cardinality(DOMAIN thr) \in Nat /\ Cardinality(WrongOnes) \in Nat /\ Cardinality(Lockers) \in Nat
           /\ Cardinality(WrongOnes) + Cardinality(Lockers) <= Cardinality(DOMAIN thr)
<1>1. IsFiniteSet(DOMAIN thr)
  BY HandlersAssumption DEF AccFacts, Handled
<1>2. WrongOnes \subseteq DOMAIN thr /\ Lockers \subseteq DOMAIN thr /\ WrongOnes \cap Lockers = {}
  BY DEF WrongOnes, Lockers
<1> QED
  BY <1>1, <1>2, TwoParts, Zenon

LEMMA AccBoundsStep ==
    ASSUME AccFacts, AccFacts', AccBounds, NEW t, NEW r, NewRec(t, r),
           locking' \in AccLock, locking.until = "future" => locking.locked,
           locking'.until = "future" => locking'.locked,
           \/ /\ r.at = "wrong" /\ thr[t].at # "wrong" /\ thr[t].at # "lock" /\ locking'.fails <= locking.fails
              /\ \/ locking'.until = locking.until /\ locking.until = "none"
                 \/ locking'.fails = 0
           \/ /\ thr[t].at = "wrong" /\ locking'.fails = locking.fails + 1 /\ locking'.until = locking.until
              /\ r.at = "lock" \/ (r.at # "wrong" /\ locking.fails + 1 < MaxFail)
           \/ thr[t].at = "lock" /\ locking'.until = "future" /\ locking'.fails = locking.fails /\ r.at \notin {"wrong", "lock"}
           \/ /\ thr[t].at \notin {"wrong", "lock"} /\ r.at \notin {"wrong", "lock"}
              /\ \/ locking'.fails = 0
                 \/ locking'.fails = locking.fails /\ locking'.until = locking.until
    PROVE  AccBounds'
<1>1. /\ DOMAIN thr' = DOMAIN thr /\ t \in DOMAIN thr /\ thr'[t] = r
      /\ \A s \in DOMAIN thr : s # t => thr'[s] = thr[s]
  BY AccMoves DEF NewRec
<1>2. /\ Cardinality(DOMAIN thr) \in Nat /\ IsFiniteSet(WrongOnes) /\ IsFiniteSet(Lockers)
      /\ Cardinality(WrongOnes) \in Nat /\ Cardinality(Lockers) \in Nat
      /\ Cardinality(WrongOnes) + Cardinality(Lockers) <= Cardinality(DOMAIN thr)
  BY AccCounts
<1>3. /\ Cardinality(WrongOnes') \in Nat /\ Cardinality(Lockers') \in Nat
      /\ Cardinality(WrongOnes') + Cardinality(Lockers') <= Cardinality(DOMAIN thr')
  <2>1. IsFiniteSet(DOMAIN thr')
    BY <1>1, AccCounts
  <2>2. WrongOnes' \subseteq DOMAIN thr' /\ Lockers' \subseteq DOMAIN thr' /\ WrongOnes' \cap Lockers' = {}
    BY DEF WrongOnes, Lockers
  <2> QED
    BY <2>1, <2>2, TwoParts, Zenon
<1>4. locking.fails \in Nat /\ locking'.fails \in Nat /\ MaxFail \in Nat \ {0}
  BY AccountAssumption DEF AccFacts, AccLock
<1>5. Cardinality(WrongOnes') \in Nat /\ Cardinality(Lockers') \in Nat /\ Cardinality(DOMAIN thr') = Cardinality(DOMAIN thr)
  BY <1>1, <1>3
<1>6. CASE /\ r.at = "wrong" /\ thr[t].at # "wrong" /\ thr[t].at # "lock" /\ locking'.fails <= locking.fails
           /\ \/ locking'.until = locking.until /\ locking.until = "none"
              \/ locking'.fails = 0
  <2>1. Lockers' = Lockers /\ WrongOnes' = WrongOnes \union {t}
    BY <1>1, <1>6 DEF Lockers, WrongOnes
  <2>2. locking'.until = "none" => locking'.fails <= MaxFail - 1 + Cardinality(Lockers)
    <3>1. CASE locking'.fails = 0
      BY <1>2, <1>4, <3>1
    <3>2. CASE locking'.until = locking.until /\ locking.until = "none" /\ locking'.fails <= locking.fails
      BY <1>2, <1>4, <3>2 DEF AccBounds
    <3> QED
      BY <1>6, <3>1, <3>2
  <2>3. locking'.fails <= MaxFail - 1 + Cardinality(Lockers)
    <3>1. CASE locking'.fails = 0
      BY <1>2, <1>4, <3>1
    <3>2. CASE locking'.until = locking.until /\ locking.until = "none"
      BY <2>2, <3>2
    <3> QED
      BY <1>6, <3>1, <3>2
  <2>4. locking'.fails + Cardinality(WrongOnes') <= MaxFail - 1 + Cardinality(DOMAIN thr')
    BY <1>2, <1>3, <1>4, <1>5, <2>1, <2>3
  <2> QED
    BY <2>1, <2>2, <2>4 DEF AccBounds
<1>7. CASE /\ thr[t].at = "wrong" /\ locking'.fails = locking.fails + 1 /\ locking'.until = locking.until
           /\ r.at = "lock" \/ (r.at # "wrong" /\ locking.fails + 1 < MaxFail)
  <2>1. WrongOnes' = WrongOnes \ {t} /\ t \in WrongOnes
    BY <1>1, <1>7 DEF WrongOnes
  <2>2. Cardinality(WrongOnes') = Cardinality(WrongOnes) - 1
    BY <1>2, <2>1, FS_RemoveElement
  <2>3. CASE r.at = "lock"
    <3>1. Lockers' = Lockers \union {t} /\ t \notin Lockers
      BY <1>1, <1>7, <2>3 DEF Lockers
    <3>2. Cardinality(Lockers') = Cardinality(Lockers) + 1
      BY <1>2, <3>1, FS_AddElement
    <3> QED
      BY <1>2, <1>4, <1>5, <1>7, <2>2, <3>2 DEF AccBounds
  <2>4. CASE r.at # "lock"
    BY <1>2, <1>3, <1>4, <1>5, <1>7, <2>2, <2>4 DEF AccBounds
  <2> QED
    BY <2>3, <2>4
<1>8. CASE thr[t].at = "lock" /\ locking'.until = "future" /\ locking'.fails = locking.fails /\ r.at \notin {"wrong", "lock"}
  <2>1. WrongOnes' = WrongOnes
    BY <1>1, <1>8 DEF WrongOnes
  <2> QED
    BY <1>2, <1>4, <1>5, <1>8, <2>1 DEF AccBounds
<1>9. CASE /\ thr[t].at \notin {"wrong", "lock"} /\ r.at \notin {"wrong", "lock"}
           /\ \/ locking'.fails = 0
              \/ locking'.fails = locking.fails /\ locking'.until = locking.until
  <2>1. Lockers' = Lockers /\ WrongOnes' = WrongOnes
    BY <1>1, <1>9 DEF WrongOnes, Lockers
  <2> QED
    BY <1>2, <1>4, <1>5, <1>9, <2>1 DEF AccBounds
<1> QED
  BY <1>6, <1>7, <1>8, <1>9

LEMMA AccBoundsKept ==
    ASSUME AccFacts, AccFacts', AccBounds, NEW t, AccAct(t)
    PROVE  AccBounds'
<1>1. PICK r : NewRec(t, r)
  BY AccThreads
<1>2. locking \in AccLock /\ locking' \in AccLock /\ (locking.until = "future" => locking.locked)
  BY DEF AccFacts, AccBounds
<1>t. /\ DOMAIN thr' = DOMAIN thr /\ t \in DOMAIN thr /\ thr'[t] = r
      /\ \A s \in DOMAIN thr : s # t => thr'[s] = thr[s]
  BY <1>1, AccMoves DEF NewRec
<1>e. Acc!Ends(t) => r.at = "idle"
  BY <1>1, AccGoes, Zenon
<1>f. Acc!Free(t) => thr[t].at = "idle"
  BY DEF Acc!Free, Acc!Idle
<1>h. \A p, b, x :
        /\ Acc!Goes(t, [Acc!Idle EXCEPT !.at = p]) => r.at = p
        /\ Acc!Goes(t, [Acc!Idle EXCEPT !.at = p, !.pair = x]) => r.at = p
        /\ Acc!Goes(t, [Acc!Idle EXCEPT !.at = p, !.seen = x]) => r.at = p
        /\ Acc!Goes(t, [Acc!Idle EXCEPT !.at = p, !.by = b, !.seen = x]) => r.at = p
  BY <1>1, AccGoes, Zenon
<1> USE DEF Acc!At
<1>3. CASE Acc!LoginWrong(t)
  <2>1. r.at = "wrong" /\ thr[t].at = "idle" /\ ~locking.locked
    BY <1>e, <1>f, <1>h, <1>3, Zenon DEF Acc!LoginWrong
  <2>2. \/ locking' = locking /\ locking.until = "none"
        \/ locking'.fails = 0 /\ locking'.until = "none" /\ locking'.locked = FALSE
    BY <1>2, <1>3, <2>1 DEF Acc!LoginWrong, AccLock, Acc!Unlocked
  <2> QED
    BY <1>1, <1>2, <2>1, <2>2, AccBoundsStep DEF AccLock
<1>4. CASE Acc!CountFailure(t)
  <2>1. thr[t].at = "wrong" /\ locking'.fails = locking.fails + 1 /\ locking'.until = locking.until /\ locking'.locked = locking.locked
    BY <1>2, <1>4 DEF Acc!CountFailure, AccLock
  <2>2. r.at = "lock" \/ (r.at # "wrong" /\ locking.fails + 1 < MaxFail)
    <3>1. locking.fails \in Nat /\ MaxFail \in Nat
      BY <1>2, AccountAssumption DEF AccLock
    <3>2. CASE locking.fails + 1 >= MaxFail
      BY <1>4, <1>h, <3>2, Zenon DEF Acc!CountFailure
    <3>3. CASE ~(locking.fails + 1 >= MaxFail)
      <4>1. Acc!Ends(t)
        BY <1>4, <3>3 DEF Acc!CountFailure
      <4>2. locking.fails + 1 < MaxFail
        BY <3>1, <3>3
      <4> QED
        BY <4>1, <4>2, <1>e
    <3> QED
      BY <3>2, <3>3
  <2> QED
    BY <1>1, <1>2, <2>1, <2>2, AccBoundsStep
<1>5. CASE Acc!LockAccount(t)
  <2>1. thr[t].at = "lock" /\ locking'.until = "future" /\ locking'.fails = locking.fails /\ locking'.locked /\ r.at = "idle"
    BY <1>2, <1>e, <1>f, <1>h, <1>5, Zenon DEF Acc!LockAccount, AccLock
  <2> QED
    BY <1>1, <1>2, <2>1, AccBoundsStep
<1>6. ASSUME thr[t].at \notin {"wrong", "lock"}, r.at \notin {"wrong", "lock"},
             \/ locking' = locking
             \/ locking' = Acc!Unlocked(locking)
             \/ locking' = [locking EXCEPT !.fails = 0, !.until = "none"]
      PROVE  AccBounds'
  <2>1. /\ locking'.until = "future" => locking'.locked
        /\ \/ locking'.fails = 0
           \/ locking'.fails = locking.fails /\ locking'.until = locking.until
    BY <1>2, <1>6 DEF Acc!Unlocked, AccLock
  <2> QED
    BY <1>1, <1>2, <1>6, <2>1, AccBoundsStep
<1>7. CASE Acc!LoginRight(t) \/ Acc!LoginSSO(t) \/ Acc!GrantTemp(t)
  <2>1. thr[t].at \notin {"wrong", "lock"} /\ r.at \notin {"wrong", "lock"}
    BY <1>7, <1>e, <1>f, <1>h, Zenon DEF Acc!LoginRight, Acc!LoginSSO, Acc!GrantTemp
  <2> QED
    BY <1>6, <1>7, <2>1 DEF Acc!LoginRight, Acc!LoginSSO, Acc!GrantTemp, Acc!ForgetFailures, Acc!userVars
<1>8. CASE Acc!IssueLogin(t) \/ Acc!ForceChangePassword(t) \/ Acc!IssueRefresh(t)
  <2>1. thr[t].at \notin {"wrong", "lock"} /\ r.at \notin {"wrong", "lock"}
    BY <1>8, <1>e, <1>f, <1>h, Zenon DEF Acc!IssueLogin, Acc!ForceChangePassword, Acc!IssueRefresh, Acc!IssuePair
  <2> QED
    BY <1>6, <1>8, <2>1 DEF Acc!IssueLogin, Acc!ForceChangePassword, Acc!IssueRefresh, Acc!ForgetFailures
<1>9. CASE Acc!StoreSession(t) \/ Acc!RefreshCheck(t) \/ \E i \in DOMAIN pairs : Acc!Logout(t, i)
  BY <1>6, <1>9, <1>e, <1>f, <1>h, Zenon DEF Acc!StoreSession, Acc!RefreshCheck, Acc!Logout
<1>10. CASE (\E s \in {"active", "disabled", "archived"} : Acc!UpdateStatus(t, s)) \/ Acc!Delete(t) \/ Acc!ResetPassword(t)
            \/ Acc!Kick(t) \/ Acc!UnlockUser(t)
  <2>1. thr[t].at \notin {"wrong", "lock"} /\ r.at \notin {"wrong", "lock"}
    BY <1>10, <1>e, <1>f, <1>h, Zenon DEF Acc!UpdateStatus, Acc!Delete, Acc!ResetPassword, Acc!ChangeUser, Acc!Kick, Acc!UnlockUser
  <2> QED
    BY <1>6, <1>10, <2>1, Zenon DEF Acc!UpdateStatus, Acc!Delete, Acc!ResetPassword, Acc!ChangeUser, Acc!Kick, Acc!UnlockUser
<1>11. CASE \E op \in Acc!Operations : Acc!Decide(t, op)
  <2>1. PICK op \in Acc!Operations : Acc!Decide(t, op)
    BY <1>11
  <2>2. thr[t].at \notin {"wrong", "lock"} /\ r.at = op
    BY <2>1, <1>e, <1>f, <1>h, Zenon DEF Acc!Decide
  <2>3. r.at \notin {"wrong", "lock"} /\ locking' = locking
    BY <2>1, <2>2 DEF Acc!Operations, Acc!Decide, Acc!userVars
  <2> QED
    BY <1>6, <2>2, <2>3
<1>12. CASE Acc!FreezeSchool(t) \/ Acc!KickSchoolUsers(t) \/ Acc!Unfreeze(t) \/ Acc!Cancel(t) \/ Acc!Restore(t)
            \/ (\E e \in {now, MaxNow + 1} : Acc!SetLicense(t, e)) \/ Acc!ExpireToBuffering(t)
  BY <1>6, <1>12, <1>e, <1>f, <1>h, Zenon DEF Acc!FreezeSchool, Acc!KickSchoolUsers, Acc!Unfreeze, Acc!Cancel, Acc!Restore, Acc!SetLicense,
     Acc!ExpireToBuffering, Acc!userVars
<1> QED
  BY <1>3, <1>4, <1>5, <1>7, <1>8, <1>9, <1>10, <1>11, <1>12 DEF AccAct

\* The facts: what each step leaves in the variables of the tokens and of the school.
LEMMA RaisedTyped ==
    ASSUME AccFacts, Acc!RaiseValidAfter, now' = now
    PROVE  /\ user' \in AccUser /\ validAfter' \in Nat \union {Never}
           /\ user'.validAfter # Never => user'.validAfter <= now'
           /\ user'.status = user.status /\ user'.deleted = user.deleted
           /\ user'.validAfter = IF user.deleted THEN user.validAfter ELSE now
           /\ validAfter' = 2 * Acc!Second(now)
<1>1. now \in Nat /\ user \in AccUser /\ Acc!Second(now) \in Nat /\ 2 * Acc!Second(now) \in Nat
  BY SecondFacts DEF AccFacts
<1>2. CASE user.deleted
  BY <1>1, <1>2 DEF Acc!RaiseValidAfter, AccFacts
<1>3. CASE ~user.deleted
  BY <1>1, <1>3 DEF Acc!RaiseValidAfter, AccUser
<1> QED
  BY <1>2, <1>3

LEMMA LoadedTyped ==
    ASSUME AccFacts
    PROVE  /\ Acc!Loaded \in Nat \union {Never}
           /\ \/ Acc!Loaded = validAfter
              \/ validAfter = Never /\ user.validAfter # Never /\ Acc!Loaded = 2 * Acc!Second(user.validAfter)
<1>1. CASE validAfter = Never /\ ~user.deleted /\ user.validAfter # Never
  <2>1. user.validAfter \in Nat
    BY <1>1 DEF AccFacts, AccUser
  <2>2. Acc!Second(user.validAfter) \in Nat
    BY <2>1, SecondFacts
  <2> QED
    BY <1>1, <2>2 DEF Acc!Loaded
<1>2. CASE ~(validAfter = Never /\ ~user.deleted /\ user.validAfter # Never)
  BY <1>2 DEF Acc!Loaded, AccFacts
<1> QED
  BY <1>1, <1>2

\* What issuing a pair leaves, in one word.
Issued(s, by) ==
    /\ s.at = "store" /\ s.pair \in DOMAIN pairs' /\ s.pair \notin DOMAIN pairs
    /\ DOMAIN pairs' = DOMAIN pairs \union {s.pair}
    /\ \A i \in DOMAIN pairs : pairs'[i] = pairs[i]
    /\ pairs'[s.pair] = [iat |-> Acc!Second(now), by |-> by]
    /\ black' \subseteq DOMAIN pairs
    /\ black' = IF session = Never THEN black ELSE black \union {session}
LEMMA IssuedTyped ==
    ASSUME AccFacts, NEW t, NEW r, NewRec(t, r), NEW by \in {"login", "sso", "force", "refresh"}, Acc!IssuePair(t, by),
           now' = now
    PROVE  /\ pairs' \in Seq(Pair) /\ r.at = "store" /\ r.pair \in DOMAIN pairs' /\ r.pair \notin DOMAIN pairs
           /\ DOMAIN pairs' = DOMAIN pairs \union {r.pair}
           /\ \A i \in DOMAIN pairs : pairs'[i] = pairs[i]
           /\ pairs'[r.pair] = [iat |-> Acc!Second(now), by |-> by]
           /\ \A i \in DOMAIN pairs' : pairs'[i].iat <= Acc!Second(now)
           /\ black' \subseteq DOMAIN pairs
           /\ black' = IF session = Never THEN black ELSE black \union {session}
           /\ Issued(r, by)
<1>1. now \in Nat /\ Acc!Second(now) \in Nat /\ pairs \in Seq(Pair)
  BY SecondFacts DEF AccFacts
<1>2. [iat |-> Acc!Second(now), by |-> by] \in Pair
  BY <1>1 DEF Pair
<1>3. r.at = "store" /\ r.pair = Len(pairs) + 1
  BY AccGoes, Zenon DEF Acc!IssuePair
<1>4. pairs' = Append(pairs, [iat |-> Acc!Second(now), by |-> by])
  BY DEF Acc!IssuePair
<1>5. /\ pairs' \in Seq(Pair) /\ r.pair \in DOMAIN pairs' /\ r.pair \notin DOMAIN pairs
      /\ DOMAIN pairs' = DOMAIN pairs \union {r.pair}
      /\ \A i \in DOMAIN pairs : pairs'[i] = pairs[i]
      /\ pairs'[r.pair] = [iat |-> Acc!Second(now), by |-> by]
  BY <1>1, <1>2, <1>3, <1>4, PairAppended
<1>6. \A i \in DOMAIN pairs' : pairs'[i].iat <= Acc!Second(now)
  BY <1>1, <1>5 DEF AccFacts
<1>7. black' = IF session = Never THEN black ELSE black \union {session}
  BY DEF Acc!IssuePair
<1>8. black' \subseteq DOMAIN pairs
  BY <1>7 DEF AccFacts
<1>9. Issued(r, by)
  BY <1>3, <1>5, <1>7, <1>8 DEF Issued
<1> QED
  BY <1>3, <1>5, <1>6, <1>7, <1>8, <1>9

LEMMA AccFactsFrom ==
    ASSUME AccFacts, NEW t, NEW r, NewRec(t, r), now' = now,
           user' \in AccUser, user'.validAfter # Never => user'.validAfter <= now',
           locking' \in AccLock, school' \in AccSchool, validAfter' \in Nat \union {Never},
           pairs' \in Seq(Pair), DOMAIN pairs \subseteq DOMAIN pairs',
           \A i \in DOMAIN pairs' : pairs'[i].iat <= Acc!Second(now),
           session' \in DOMAIN pairs' \union {Never}, black' \subseteq DOMAIN pairs',
           r.at = "store" => r.pair \in DOMAIN pairs',
           r.at = "passed" => r.by # "none"
    PROVE  AccFacts'
<1>1. /\ DOMAIN thr' = DOMAIN thr /\ thr' \in [DOMAIN thr' -> AccThread] /\ thr'[t] = r
      /\ \A s \in DOMAIN thr : s # t => thr'[s] = thr[s]
      /\ \E crew \in AccountCrews : DOMAIN thr' = crew.threads
  BY AccMoves DEF NewRec
<1>2. ASSUME NEW s \in DOMAIN thr'
      PROVE  /\ thr'[s].at = "store" => thr'[s].pair \in DOMAIN pairs'
             /\ thr'[s].at = "passed" => thr'[s].by # "none"
  <2>1. CASE s = t
    BY <1>1, <2>1
  <2>2. CASE s # t
    BY <1>1, <2>2 DEF AccFacts
  <2> QED
    BY <2>1, <2>2
<1>3. /\ now' \in Nat /\ user' \in AccUser /\ locking' \in AccLock /\ school' \in AccSchool
      /\ validAfter' \in Nat \union {Never} /\ pairs' \in Seq(Pair)
      /\ session' \in DOMAIN pairs' \union {Never} /\ black' \subseteq DOMAIN pairs'
      /\ \A i \in DOMAIN pairs' : pairs'[i].iat <= Acc!Second(now')
      /\ user'.validAfter # Never => user'.validAfter <= now'
  BY DEF AccFacts
<1> QED
  BY <1>1, <1>2, <1>3, Zenon DEF AccFacts

\* What is unchanged is as it was.
LEMMA AccTyped ==
    ASSUME AccFacts
    PROVE  /\ now \in Nat /\ user \in AccUser /\ (user.validAfter # Never => user.validAfter <= now)
           /\ locking \in AccLock /\ school \in AccSchool /\ validAfter \in Nat \union {Never}
           /\ pairs \in Seq(Pair) /\ (\A i \in DOMAIN pairs : pairs[i].iat <= Acc!Second(now))
           /\ session \in DOMAIN pairs \union {Never} /\ black \subseteq DOMAIN pairs
           /\ thr \in [DOMAIN thr -> AccThread]
           /\ \A t \in DOMAIN thr : /\ thr[t].at = "store" => thr[t].pair \in DOMAIN pairs
                                    /\ thr[t].at = "passed" => thr[t].by # "none"
BY DEF AccFacts

LEMMA LockTyped ==
    ASSUME NEW l \in AccLock
    PROVE  /\ Acc!Unlocked(l) \in AccLock
           /\ [l EXCEPT !.fails = @ + 1] \in AccLock /\ [l EXCEPT !.fails = 0] \in AccLock
           /\ [l EXCEPT !.locked = TRUE, !.until = "future"] \in AccLock
           /\ [l EXCEPT !.fails = 0, !.until = "none"] \in AccLock
           /\ [l EXCEPT !.locked = FALSE, !.until = IF @ = "future" THEN "past" ELSE @] \in AccLock
<1>1. l.fails + 1 \in Nat /\ l.locked \in BOOLEAN /\ l.until \in {"none", "future", "past"}
  BY DEF AccLock
<1>3. Acc!Unlocked(l) \in AccLock
  BY DEF AccLock, Acc!Unlocked
<1>4. [l EXCEPT !.fails = @ + 1] \in AccLock /\ [l EXCEPT !.fails = 0] \in AccLock
  BY <1>1 DEF AccLock
<1>5. [l EXCEPT !.locked = TRUE, !.until = "future"] \in AccLock /\ [l EXCEPT !.fails = 0, !.until = "none"] \in AccLock
  BY <1>1 DEF AccLock
<1>6. PICK u : u = IF l.until = "future" THEN "past" ELSE l.until
  OBVIOUS
<1>7. u \in {"none", "future", "past"}
  BY <1>1, <1>6
<1>8. [l EXCEPT !.locked = FALSE, !.until = u] \in AccLock
  BY <1>1, <1>7 DEF AccLock
<1> QED
  BY <1>3, <1>4, <1>5, <1>6, <1>8

LEMMA AccFactsKept ==
    ASSUME AccFacts, NEW t, AccAct(t)
    PROVE  AccFacts'
<1>1. PICK r : NewRec(t, r)
  BY AccThreads
<1>e. Acc!Ends(t) => r.at = "idle"
  BY <1>1, AccGoes, Zenon
<1>h. \A p, b, x :
        /\ Acc!Goes(t, [Acc!Idle EXCEPT !.at = p]) => r.at = p
        /\ Acc!Goes(t, [Acc!Idle EXCEPT !.at = p, !.pair = x]) => r.at = p /\ r.pair = x
        /\ Acc!Goes(t, [Acc!Idle EXCEPT !.at = p, !.seen = x]) => r.at = p /\ r.seen = x
        /\ Acc!Goes(t, [Acc!Idle EXCEPT !.at = p, !.by = b, !.seen = x]) => r.at = p /\ r.by = b
  BY <1>1, AccGoes, Zenon
<1>n. now \in Nat /\ 2 * Acc!Second(now) \in Nat
  <2>1. now \in Nat
    BY AccTyped
  <2>2. Acc!Second(now) \in Nat
    BY <2>1, SecondFacts
  <2> QED
    BY <2>1, <2>2
<1> USE DEF Acc!At
\* Of the steps that neither issue a pair nor touch the tokens.
<1>2. ASSUME now' = now, user' = user, validAfter' = validAfter, pairs' = pairs, session' = session, black' = black,
             locking' \in AccLock, school' \in AccSchool, r.at # "store", r.at = "passed" => r.by # "none"
      PROVE  AccFacts'
  BY <1>1, <1>2, AccTyped, AccFactsFrom
<1>3. ASSUME Acc!LoginWrong(t) \/ Acc!CountFailure(t) \/ Acc!LockAccount(t)
      PROVE  AccFacts'
  <2>1. now' = now /\ user' = user /\ validAfter' = validAfter /\ pairs' = pairs /\ session' = session /\ black' = black
        /\ school' = school
    BY <1>3 DEF Acc!LoginWrong, Acc!CountFailure, Acc!LockAccount, Acc!schoolVars
  <2>2. locking' \in AccLock
    BY <1>3, AccTyped, LockTyped, Zenon DEF Acc!LoginWrong, Acc!CountFailure, Acc!LockAccount
  <2>3. r.at \notin {"store", "passed"}
    BY <1>3, <1>e, <1>h, Zenon DEF Acc!LoginWrong, Acc!CountFailure, Acc!LockAccount
  <2> QED
    BY <1>2, <2>1, <2>2, <2>3, AccTyped
<1>4. ASSUME Acc!LoginRight(t) \/ Acc!LoginSSO(t) \/ Acc!GrantTemp(t)
      PROVE  AccFacts'
  <2>1. now' = now /\ user' = user /\ validAfter' = validAfter /\ pairs' = pairs /\ session' = session /\ black' = black
        /\ school' = school
    BY <1>4 DEF Acc!LoginRight, Acc!LoginSSO, Acc!GrantTemp, Acc!userVars, Acc!schoolVars
  <2>2. locking' \in AccLock
    BY <1>4, AccTyped, LockTyped, Zenon DEF Acc!LoginRight, Acc!LoginSSO, Acc!GrantTemp, Acc!ForgetFailures, Acc!userVars
  <2>3. r.at # "store" /\ (r.at = "passed" => r.by # "none")
    <3>1. CASE Acc!LoginRight(t)
      <4>1. r.at = "passed" /\ r.by = "login"
        BY <1>h, <3>1, Zenon DEF Acc!LoginRight
      <4> QED
        BY <4>1
    <3>2. CASE Acc!LoginSSO(t)
      <4>1. r.at = "passed" /\ r.by = "sso"
        BY <1>h, <3>2, Zenon DEF Acc!LoginSSO
      <4> QED
        BY <4>1
    <3>3. CASE Acc!GrantTemp(t)
      BY <1>e, <3>3 DEF Acc!GrantTemp
    <3> QED
      BY <1>4, <3>1, <3>2, <3>3
  <2> QED
    BY <1>2, <2>1, <2>2, <2>3, AccTyped
<1>5. ASSUME Acc!IssueLogin(t)
      PROVE  AccFacts'
  <2>1. PICK by : by = thr[t].by
    OBVIOUS
  <2>2. /\ Acc!IssuePair(t, by) /\ Acc!RaiseValidAfter
        /\ now' = now /\ session' = session /\ school' = school
    BY <1>5, <2>1 DEF Acc!IssueLogin, Acc!schoolVars
  <2>3. by \in {"login", "sso"}
    BY <1>5, <2>1, AccTyped DEF Acc!IssueLogin, AccThread
  <2>4. locking' \in AccLock
    BY <1>5, AccTyped, LockTyped, Zenon DEF Acc!IssueLogin, Acc!ForgetFailures
  <2>5. user' \in AccUser /\ validAfter' \in Nat \union {Never} /\ (user'.validAfter # Never => user'.validAfter <= now')
    BY <2>2, RaisedTyped
  <2>6. /\ pairs' \in Seq(Pair) /\ r.at = "store" /\ r.pair \in DOMAIN pairs' /\ DOMAIN pairs \subseteq DOMAIN pairs'
        /\ \A i \in DOMAIN pairs' : pairs'[i].iat <= Acc!Second(now)
        /\ black' \subseteq DOMAIN pairs
    BY <1>1, <2>2, <2>3, IssuedTyped
  <2>7. session' \in DOMAIN pairs' \union {Never} /\ black' \subseteq DOMAIN pairs'
    BY <2>2, <2>6, AccTyped
  <2> QED
    BY <1>1, <2>2, <2>4, <2>5, <2>6, <2>7, AccTyped, AccFactsFrom
<1>6. ASSUME Acc!ForceChangePassword(t)
      PROVE  AccFacts'
  <2>2. /\ Acc!IssuePair(t, "force") /\ locking' = locking
        /\ now' = now /\ session' = session /\ school' = school
        /\ user' = [user EXCEPT !.first = FALSE, !.validAfter = now] /\ validAfter' = 2 * Acc!Second(now)
    BY <1>6 DEF Acc!ForceChangePassword, Acc!schoolVars
  <2>5. user' \in AccUser /\ validAfter' \in Nat \union {Never} /\ (user'.validAfter # Never => user'.validAfter <= now')
    <3>1. user' \in AccUser /\ user'.validAfter = now
      BY <1>n, <2>2, AccTyped DEF AccUser
    <3> QED
      BY <1>n, <2>2, <3>1
  <2>6. /\ pairs' \in Seq(Pair) /\ r.at = "store" /\ r.pair \in DOMAIN pairs' /\ DOMAIN pairs \subseteq DOMAIN pairs'
        /\ \A i \in DOMAIN pairs' : pairs'[i].iat <= Acc!Second(now)
        /\ black' \subseteq DOMAIN pairs
    BY <1>1, <2>2, IssuedTyped
  <2>7. session' \in DOMAIN pairs' \union {Never} /\ black' \subseteq DOMAIN pairs'
    BY <2>2, <2>6, AccTyped
  <2> QED
    BY <1>1, <2>2, <2>5, <2>6, <2>7, AccTyped, AccFactsFrom
<1>7. ASSUME Acc!IssueRefresh(t)
      PROVE  AccFacts'
  <2>2. /\ Acc!IssuePair(t, "refresh") /\ locking' = locking
        /\ now' = now /\ session' = session /\ school' = school /\ user' = user /\ validAfter' = validAfter
    BY <1>7 DEF Acc!IssueRefresh, Acc!schoolVars
  <2>6. /\ pairs' \in Seq(Pair) /\ r.at = "store" /\ r.pair \in DOMAIN pairs' /\ DOMAIN pairs \subseteq DOMAIN pairs'
        /\ \A i \in DOMAIN pairs' : pairs'[i].iat <= Acc!Second(now)
        /\ black' \subseteq DOMAIN pairs
    BY <1>1, <2>2, IssuedTyped
  <2>7. session' \in DOMAIN pairs' \union {Never} /\ black' \subseteq DOMAIN pairs'
    BY <2>2, <2>6, AccTyped
  <2> QED
    BY <1>1, <2>2, <2>6, <2>7, AccTyped, AccFactsFrom
<1>8. ASSUME Acc!StoreSession(t)
      PROVE  AccFacts'
  <2>1. /\ now' = now /\ user' = user /\ validAfter' = validAfter /\ pairs' = pairs /\ black' = black
        /\ locking' = locking /\ school' = school /\ r.at = "idle"
    BY <1>8, <1>e DEF Acc!StoreSession, Acc!schoolVars
  <2>2. session' \in DOMAIN pairs
    BY <1>8, AccTyped DEF Acc!StoreSession
  <2> QED
    BY <1>1, <2>1, <2>2, AccTyped, AccFactsFrom
<1>9. ASSUME Acc!RefreshCheck(t)
      PROVE  AccFacts'
  <2>1. /\ now' = now /\ user' = user /\ session' = session /\ pairs' = pairs /\ black' = black
        /\ locking' = locking /\ school' = school /\ r.at = "refresh" /\ validAfter' = Acc!Loaded
    BY <1>9, <1>h, Zenon DEF Acc!RefreshCheck, Acc!schoolVars
  <2> QED
    BY <1>1, <2>1, AccTyped, LoadedTyped, AccFactsFrom
<1>10. ASSUME NEW i \in DOMAIN pairs, Acc!Logout(t, i)
      PROVE  AccFacts'
  <2>1. /\ now' = now /\ session' = Never /\ pairs' = pairs /\ black' = black \union {i}
        /\ locking' = locking /\ school' = school /\ r.at = "idle" /\ Acc!RaiseValidAfter
    BY <1>10, <1>e DEF Acc!Logout, Acc!schoolVars
  <2>2. black' \subseteq DOMAIN pairs
    BY <2>1, AccTyped
  <2>3. user' \in AccUser /\ validAfter' \in Nat \union {Never} /\ (user'.validAfter # Never => user'.validAfter <= now')
    BY <2>1, RaisedTyped
  <2> QED
    BY <1>1, <2>1, <2>2, <2>3, AccTyped, AccFactsFrom
<1>11. ASSUME NEW u, Acc!ChangeUser(t, u), u \in AccUser, u.validAfter = user.validAfter
      PROVE  AccFacts'
  <2>1. /\ now' = now /\ session' = session /\ pairs' = pairs /\ black' = black /\ validAfter' = validAfter
        /\ locking' = locking /\ school' = school /\ r.at \in {"idle", "kick"} /\ user' = u
    BY <1>11, <1>e, <1>h, Zenon DEF Acc!ChangeUser, Acc!schoolVars
  <2> QED
    BY <1>1, <1>11, <2>1, AccTyped, AccFactsFrom
<1>12. CASE (\E s \in {"active", "disabled", "archived"} : Acc!UpdateStatus(t, s)) \/ Acc!Delete(t) \/ Acc!ResetPassword(t)
  <2>1. \E u : Acc!ChangeUser(t, u) /\ u \in AccUser /\ u.validAfter = user.validAfter
    <3>1. ASSUME NEW s \in {"active", "disabled", "archived"}
          PROVE  [user EXCEPT !.status = s] \in AccUser /\ [user EXCEPT !.status = s].validAfter = user.validAfter
      BY AccTyped DEF AccUser
    <3>2. /\ [user EXCEPT !.deleted = TRUE] \in AccUser /\ [user EXCEPT !.deleted = TRUE].validAfter = user.validAfter
          /\ [user EXCEPT !.first = TRUE] \in AccUser /\ [user EXCEPT !.first = TRUE].validAfter = user.validAfter
      BY AccTyped DEF AccUser
    <3> QED
      BY <1>12, <3>1, <3>2 DEF Acc!UpdateStatus, Acc!Delete, Acc!ResetPassword
  <2> QED
    BY <1>11, <2>1
<1>13. ASSUME Acc!Kick(t)
      PROVE  AccFacts'
  <2>1. /\ now' = now /\ session' = Never /\ pairs' = pairs /\ black' = (IF session = Never THEN black ELSE black \union {session})
        /\ locking' = locking /\ school' = school /\ r.at = "idle" /\ Acc!RaiseValidAfter
    BY <1>13, <1>e DEF Acc!Kick, Acc!schoolVars
  <2>2. black' \subseteq DOMAIN pairs
    BY <2>1, AccTyped
  <2>3. user' \in AccUser /\ validAfter' \in Nat \union {Never} /\ (user'.validAfter # Never => user'.validAfter <= now')
    BY <2>1, RaisedTyped
  <2> QED
    BY <1>1, <2>1, <2>2, <2>3, AccTyped, AccFactsFrom
<1>14. ASSUME Acc!UnlockUser(t)
      PROVE  AccFacts'
  <2>1. /\ now' = now /\ user' = user /\ validAfter' = validAfter /\ pairs' = pairs /\ session' = session /\ black' = black
        /\ school' = school /\ locking' = Acc!Unlocked(locking) /\ r.at = "idle"
    BY <1>14, <1>e DEF Acc!UnlockUser, Acc!schoolVars
  <2> QED
    BY <1>2, <2>1, AccTyped, LockTyped, Zenon
<1>15. ASSUME NEW op \in Acc!Operations, Acc!Decide(t, op)
      PROVE  AccFacts'
  <2>1. /\ now' = now /\ user' = user /\ validAfter' = validAfter /\ pairs' = pairs /\ session' = session /\ black' = black
        /\ school' = school /\ locking' = locking /\ r.at = op
    BY <1>15, <1>h, Zenon DEF Acc!Decide, Acc!userVars, Acc!schoolVars
  <2> QED
    BY <1>2, <2>1, AccTyped DEF Acc!Operations
<1>16. ASSUME Acc!KickSchoolUsers(t)
      PROVE  AccFacts'
  <2>1. /\ now' = now /\ pairs' = pairs /\ black' = black /\ locking' = locking /\ school' = school /\ r.at = "idle"
    BY <1>16, <1>e DEF Acc!KickSchoolUsers, Acc!schoolVars
  <2>2. CASE user.deleted
    <3>1. user' = user /\ validAfter' = validAfter /\ session' = session
      BY <1>16, <2>2 DEF Acc!KickSchoolUsers
    <3> QED
      BY <1>2, <2>1, <3>1, AccTyped
  <2>3. CASE ~user.deleted
    <3>1. Acc!RaiseValidAfter /\ session' = Never
      BY <1>16, <2>3 DEF Acc!KickSchoolUsers
    <3>2. user' \in AccUser /\ validAfter' \in Nat \union {Never} /\ (user'.validAfter # Never => user'.validAfter <= now')
      BY <2>1, <3>1, RaisedTyped
    <3> QED
      BY <1>1, <2>1, <3>1, <3>2, AccTyped, AccFactsFrom
  <2> QED
    BY <2>2, <2>3
<1>17. ASSUME Acc!FreezeSchool(t) \/ Acc!Unfreeze(t) \/ Acc!Cancel(t) \/ Acc!Restore(t)
           \/ (\E e \in {now, MaxNow + 1} : Acc!SetLicense(t, e)) \/ Acc!ExpireToBuffering(t)
      PROVE  AccFacts'
  <2>1. /\ now' = now /\ pairs' = pairs /\ black' = black /\ locking' = locking /\ session' = session
        /\ validAfter' = validAfter /\ r.at \in {"idle", "kickSchool"}
    BY <1>17, <1>e, <1>h, Zenon DEF Acc!FreezeSchool, Acc!Unfreeze, Acc!Cancel, Acc!Restore, Acc!SetLicense, Acc!ExpireToBuffering,
       Acc!userVars
  <2>2. user' \in AccUser /\ user'.validAfter = user.validAfter
    BY <1>17, AccTyped DEF Acc!FreezeSchool, Acc!Unfreeze, Acc!Cancel, Acc!Restore, Acc!SetLicense, Acc!ExpireToBuffering,
       Acc!userVars, AccUser
  <2>3. school' \in AccSchool
    <3>1. school \in AccSchool /\ now \in Nat /\ MaxNow + 1 \in Int
      BY <1>n, AccTyped, AccountAssumption
    <3>2. \A s \in Acc!Statuses, f \in Nat \union {Never} :
            [school EXCEPT !.status = s] \in AccSchool /\ [school EXCEPT !.status = s, !.frozenAt = f] \in AccSchool
      BY <3>1 DEF AccSchool
    <3>3. \A e \in {now, MaxNow + 1} : [school EXCEPT !.end = e] \in AccSchool
      BY <3>1 DEF AccSchool
    <3>4. {"active", "buffering", "frozen", "cancelled"} = Acc!Statuses
      BY DEF Acc!Statuses
    <3>5. CASE Acc!FreezeSchool(t) \/ Acc!Unfreeze(t)
      BY <3>1, <3>2, <3>4, <3>5, Zenon DEF Acc!FreezeSchool, Acc!Unfreeze, Acc!Becomes
    <3>6. CASE Acc!Cancel(t) \/ Acc!Restore(t) \/ Acc!ExpireToBuffering(t)
      BY <3>1, <3>2, <3>4, <3>6, Zenon DEF Acc!Cancel, Acc!Restore, Acc!ExpireToBuffering, Acc!Becomes
    <3>7. CASE \E e \in {now, MaxNow + 1} : Acc!SetLicense(t, e)
      BY <3>1, <3>3, <3>7 DEF Acc!SetLicense, Acc!Becomes
    <3> QED
      BY <1>17, <3>5, <3>6, <3>7
  <2> QED
    BY <1>1, <2>1, <2>2, <2>3, AccTyped, AccFactsFrom
<1> QED
  BY <1>3, <1>4, <1>5, <1>6, <1>7, <1>8, <1>9, <1>10, <1>12, <1>13, <1>14, <1>15, <1>16, <1>17 DEF AccAct

\* Time and the keys that expire: no thread moves.
LEMMA AccPassKept ==
    ASSUME AccFacts, AccBounds, AccPass
    PROVE  AccFacts' /\ AccBounds'
<1>1. /\ thr' = thr /\ session' = session /\ pairs' = pairs /\ black' = black /\ user' = user /\ school' = school
  BY DEF AccPass, Acc!UseToken, Acc!Tick, Acc!FailuresExpire, Acc!LockPeriodEnds, Acc!ValidAfterEvicted, Acc!ShownExpires,
     Acc!TempExpires, Acc!userVars, Acc!schoolVars
<1>2. now' \in Nat /\ now <= now' /\ now \in Nat
  BY AccTyped DEF AccPass, Acc!UseToken, Acc!Tick, Acc!FailuresExpire, Acc!LockPeriodEnds, Acc!ValidAfterEvicted, Acc!ShownExpires,
     Acc!TempExpires, Acc!userVars, Acc!schoolVars
<1>3. validAfter' \in Nat \union {Never}
  BY AccTyped, LoadedTyped DEF AccPass, Acc!UseToken, Acc!Tick, Acc!FailuresExpire, Acc!LockPeriodEnds, Acc!ValidAfterEvicted,
     Acc!ShownExpires, Acc!TempExpires, Acc!userVars, Acc!schoolVars
<1>4. /\ locking' \in AccLock
      /\ \/ locking' = locking
         \/ locking' = [locking EXCEPT !.fails = 0]
         \/ locking.locked /\ locking' = [locking EXCEPT !.locked = FALSE, !.until = IF @ = "future" THEN "past" ELSE @]
  BY AccTyped, LockTyped, Zenon DEF AccPass, Acc!UseToken, Acc!Tick, Acc!FailuresExpire, Acc!LockPeriodEnds, Acc!ValidAfterEvicted,
     Acc!ShownExpires, Acc!TempExpires, Acc!userVars, Acc!schoolVars
<1>5. AccFacts'
  <2>1. Acc!Second(now) <= Acc!Second(now') /\ Acc!Second(now) \in Nat /\ Acc!Second(now') \in Nat
    BY <1>2, SecondMonotone
  <2>2. ASSUME NEW i \in DOMAIN pairs'
        PROVE  pairs'[i].iat <= Acc!Second(now')
    <3>1. pairs[i].iat \in Nat /\ pairs[i].iat <= Acc!Second(now) /\ pairs'[i] = pairs[i]
      <4>1. pairs \in Seq(Pair) /\ i \in DOMAIN pairs
        BY <1>1, <2>2, AccTyped
      <4>2. pairs[i] \in Pair
        BY <4>1
      <4> QED
        BY <1>1, <4>1, <4>2, AccTyped DEF Pair
    <3> QED
      BY <2>1, <3>1
  <2>3. user'.validAfter # Never => user'.validAfter <= now'
    <3>1. CASE user.validAfter = Never
      BY <1>1, <3>1
    <3>2. CASE user.validAfter # Never
      <4>1. user.validAfter \in Nat /\ user.validAfter <= now
        BY <3>2, AccTyped DEF AccUser
      <4> QED
        BY <1>1, <1>2, <4>1
    <3> QED
      BY <3>1, <3>2
  <2>4. \E crew \in AccountCrews : DOMAIN thr' = crew.threads
    BY <1>1 DEF AccFacts
  <2>5. /\ thr' \in [DOMAIN thr' -> AccThread] /\ user' \in AccUser /\ school' \in AccSchool /\ pairs' \in Seq(Pair)
        /\ session' \in DOMAIN pairs' \union {Never} /\ black' \subseteq DOMAIN pairs'
        /\ \A t \in DOMAIN thr' : /\ thr'[t].at = "store" => thr'[t].pair \in DOMAIN pairs'
                                  /\ thr'[t].at = "passed" => thr'[t].by # "none"
    BY <1>1, AccTyped
  <2> QED
    BY <1>2, <1>3, <1>4, <2>2, <2>3, <2>4, <2>5, Zenon DEF AccFacts
<1>6. AccBounds'
  <2>1. WrongOnes' = WrongOnes /\ Lockers' = Lockers /\ DOMAIN thr' = DOMAIN thr
    BY <1>1 DEF WrongOnes, Lockers
  <2>2. /\ Cardinality(DOMAIN thr) \in Nat /\ Cardinality(WrongOnes) \in Nat /\ Cardinality(Lockers) \in Nat
        /\ Cardinality(WrongOnes) + Cardinality(Lockers) <= Cardinality(DOMAIN thr)
    BY AccCounts
  <2>3. locking.fails \in Nat /\ locking'.fails \in Nat /\ MaxFail \in Nat \ {0} /\ locking \in AccLock
    BY <1>4, AccTyped, AccountAssumption DEF AccLock
  <2>4. /\ locking'.fails <= locking.fails
        /\ locking'.until = "future" => locking'.locked
        /\ locking'.until = "none" => locking'.fails = 0 \/ locking.until = "none"
    <3>1. CASE locking' = locking
      BY <2>3, <3>1 DEF AccBounds
    <3>2. CASE locking' = [locking EXCEPT !.fails = 0]
      BY <2>3, <3>2 DEF AccBounds, AccLock
    <3>3. CASE locking.locked /\ locking' = [locking EXCEPT !.locked = FALSE, !.until = IF @ = "future" THEN "past" ELSE @]
      <4>1. locking'.fails = locking.fails /\ locking'.until = IF locking.until = "future" THEN "past" ELSE locking.until
        BY <2>3, <3>3 DEF AccLock
      <4> QED
        BY <2>3, <4>1
    <3> QED
      BY <1>4, <3>1, <3>2, <3>3
  <2> QED
    BY <2>1, <2>2, <2>3, <2>4 DEF AccBounds
<1> QED
  BY <1>5, <1>6

\* What one thread knows.  The pairs of old stay what they were in a step that issues none
\* and drops no session.
LEMMA AccAloneQuiet ==
    ASSUME AccFacts, AccFacts', NEW t, NEW r, thr' = [thr EXCEPT ![t] = r], t \in DOMAIN thr, AccTokens(thr[t]),
           thr[t].at \notin {"store", "kick"}, r.at # "store",
           user'.validAfter = user.validAfter, pairs' = pairs, session' = session, black' = black, kicked' = kicked,
           validAfter' = validAfter \/ (validAfter = Never /\ user.validAfter # Never
                                          /\ validAfter' = 2 * Acc!Second(user.validAfter)),
           r.at # "kick" /\ session # Never /\ ~Forced(session) =>
             /\ user'.status = "active"
             /\ \/ school'.status = "cancelled"
                \/ ~user'.deleted /\ (school'.status # "frozen" \/ r.at = "kickSchool")
    PROVE  AccTokens(r)'
<1>1. /\ validAfter' # Never /\ user'.validAfter # Never => 2 * Acc!Second(user'.validAfter) <= validAfter'
  <2>1. user.validAfter # Never => 2 * Acc!Second(user.validAfter) \in Nat
    <3>1. user.validAfter # Never => user.validAfter \in Nat
      BY AccTyped DEF AccUser
    <3>2. user.validAfter # Never => Acc!Second(user.validAfter) \in Nat
      BY <3>1, SecondFacts
    <3> QED
      BY <3>2
  <2> QED
    BY <2>1 DEF AccTokens
<1>2. session # Never => session \notin black /\ Young(session)
  BY DEF AccTokens
<1>3. session # Never => Young(session)'
  <2>1. SUFFICES ASSUME session # Never PROVE Young(session)'
    OBVIOUS
  <2>2. pairs[session].iat \in Nat
    <3>1. session \in DOMAIN pairs /\ pairs \in Seq(Pair)
      BY <2>1, AccTyped
    <3>2. pairs[session] \in Pair
      BY <3>1
    <3> QED
      BY <3>2 DEF Pair
  <2>3. user.validAfter # Never => user.validAfter \in Nat /\ Acc!Second(user.validAfter) \in Nat
    BY AccTyped, SecondFacts DEF AccUser
  <2> QED
    BY <1>2, <2>1, <2>2, <2>3 DEF Young
<1>4. \A i \in DOMAIN pairs' : i \in black' \/ i = session' \/ pairs'[i].iat \in kicked' \/ Old(i)'
  BY DEF AccTokens, Old
<1>5. r.at # "kick" /\ session' # Never =>
         \/ Forced(session)'
         \/ /\ user'.status = "active"
            /\ \/ school'.status = "cancelled"
               \/ ~user'.deleted /\ (school'.status # "frozen" \/ r.at = "kickSchool")
  BY DEF Forced
<1> QED
  BY <1>1, <1>2, <1>3, <1>4, <1>5 DEF AccTokens

\* Numbers of what is compared.
LEMMA AccNumbers ==
    ASSUME AccFacts
    PROVE  /\ now \in Nat /\ Acc!Second(now) \in Nat
           /\ \A i \in DOMAIN pairs : pairs[i].iat \in Nat /\ pairs[i].iat <= Acc!Second(now)
           /\ user.validAfter # Never => /\ user.validAfter \in Nat /\ Acc!Second(user.validAfter) \in Nat
                                         /\ Acc!Second(user.validAfter) <= Acc!Second(now)
                                         /\ 2 * Acc!Second(user.validAfter) <= user.validAfter
           /\ validAfter # Never => validAfter \in Nat
<1>1. now \in Nat /\ Acc!Second(now) \in Nat
  BY AccTyped, SecondFacts
<1>2. ASSUME NEW i \in DOMAIN pairs
      PROVE  pairs[i].iat \in Nat
  <2>1. pairs \in Seq(Pair)
    BY AccTyped
  <2>2. pairs[i] \in Pair
    BY <2>1
  <2> QED
    BY <2>2 DEF Pair
<1>3. user.validAfter # Never => user.validAfter \in Nat /\ user.validAfter <= now
  BY AccTyped DEF AccUser
<1>4. user.validAfter # Never => /\ Acc!Second(user.validAfter) \in Nat
                                 /\ Acc!Second(user.validAfter) <= Acc!Second(now)
                                 /\ 2 * Acc!Second(user.validAfter) <= user.validAfter
  BY <1>1, <1>3, SecondMonotone, SecondFacts
<1> QED
  BY <1>1, <1>2, <1>3, <1>4, AccTyped

\* A step that raises the time tokens must be newer than and drops the session: what is left is
\* blacklisted, was issued before, or was issued in a second that is remembered.
LEMMA AccAloneRaise ==
    ASSUME AccFacts, AccFacts', NEW r, AccTokens(r), r.at # "store", NEW s, s.at # "store",
           Acc!RaiseValidAfter, now' = now, pairs' = pairs, session' = Never,
           black \subseteq black', kicked \subseteq kicked',
           session # Never => \/ session \in black' \/ pairs[session].iat \in kicked'
                              \/ ~user.deleted /\ Acc!Second(now) \in kicked'
    PROVE  AccTokens(s)'
<1>1. /\ user'.validAfter = (IF user.deleted THEN user.validAfter ELSE now) /\ validAfter' = 2 * Acc!Second(now)
  BY RaisedTyped
<1>2. validAfter' # Never /\ user'.validAfter # Never => 2 * Acc!Second(user'.validAfter) <= validAfter'
  <2>1. CASE user.deleted
    BY <1>1, <2>1, AccNumbers
  <2>2. CASE ~user.deleted
    BY <1>1, <2>2, AccNumbers
  <2> QED
    BY <2>1, <2>2
<1>3. ASSUME NEW i \in DOMAIN pairs'
      PROVE  i \in black' \/ pairs'[i].iat \in kicked' \/ Old(i)'
  <2>1. i \in black \/ i = session \/ pairs[i].iat \in kicked \/ Old(i)
    BY <1>3 DEF AccTokens
  <2>2. CASE Old(i)
    <3>1. user.validAfter # Never /\ pairs[i].iat < Acc!Second(user.validAfter)
      BY <2>2 DEF Old
    <3>2. now # Never
      BY AccNumbers, AccountAssumption
    <3>3. user'.validAfter # Never /\ pairs[i].iat < Acc!Second(user'.validAfter)
      BY <1>1, <1>3, <3>1, <3>2, AccNumbers
    <3> QED
      BY <3>3 DEF Old
  <2>3. CASE i = session /\ ~user.deleted /\ Acc!Second(now) \in kicked'
    <3>1. CASE pairs[i].iat = Acc!Second(now)
      BY <2>3, <3>1
    <3>2. CASE pairs[i].iat # Acc!Second(now)
      <4>1. pairs[i].iat < Acc!Second(now) /\ now # Never
        BY <1>3, <3>2, AccNumbers, AccountAssumption
      <4>2. user'.validAfter = now
        BY <1>1, <2>3
      <4> QED
        BY <4>1, <4>2 DEF Old
    <3> QED
      BY <3>1, <3>2
  <2>4. CASE i = session /\ ~(~user.deleted /\ Acc!Second(now) \in kicked')
    <3>1. session # Never
      BY <1>3, <2>4, AccTyped, AccountAssumption
    <3> QED
      BY <2>4, <3>1
  <2> QED
    BY <2>1, <2>2, <2>3, <2>4
<1> QED
  BY <1>2, <1>3 DEF AccTokens

\* A step that issues a pair.
LEMMA AccAloneIssue ==
    ASSUME AccFacts, AccFacts', NEW r, AccTokens(r), r.at # "store", r.at # "kick", NEW s,
           NEW by, Issued(s, by),
           now' = now, session' = session, kicked' = kicked, school' = school,
           user'.status = user.status, user'.deleted = user.deleted,
           \/ user'.validAfter = now /\ validAfter' = 2 * Acc!Second(now)
           \/ user'.validAfter = user.validAfter /\ validAfter' = validAfter /\ session # Never,
           by = "force" \/ Inside, r.at # "kickSchool"
    PROVE  AccTokens(s)'
<1>0. /\ s.at = "store" /\ s.pair \in DOMAIN pairs' /\ s.pair \notin DOMAIN pairs
      /\ DOMAIN pairs' = DOMAIN pairs \union {s.pair}
      /\ \A i \in DOMAIN pairs : pairs'[i] = pairs[i]
      /\ pairs'[s.pair] = [iat |-> Acc!Second(now), by |-> by]
  BY DEF Issued
<1>1. /\ black' \subseteq DOMAIN pairs
      /\ black' = IF session = Never THEN black ELSE black \union {session}
  BY DEF Issued
<1>2. now # Never
  BY AccNumbers, AccountAssumption
<1>3. validAfter' # Never /\ user'.validAfter # Never => 2 * Acc!Second(user'.validAfter) <= validAfter'
  BY <1>2, AccNumbers DEF AccTokens
<1>4. s.pair \notin black' /\ (session' # Never => session' \in black')
  BY <1>0, <1>1
<1>5. Young(s.pair)'
  <2>1. pairs'[s.pair].iat = Acc!Second(now)
    BY <1>0, <1>1
  <2>2. user'.validAfter # Never => Acc!Second(now) >= Acc!Second(user'.validAfter)
    BY AccNumbers
  <2>3. validAfter' # Never => 2 * Acc!Second(now) >= validAfter'
    <3>1. CASE validAfter' = 2 * Acc!Second(now)
      BY <3>1, AccNumbers
    <3>3. CASE session # Never /\ validAfter' = validAfter /\ validAfter # Never
      <4>1. Young(session) /\ session \in DOMAIN pairs
        BY <3>3, AccTyped DEF AccTokens
      <4> QED
        BY <3>3, <4>1, AccNumbers DEF Young
    <3> QED
      BY <3>1, <3>3
  <2> QED
    BY <2>1, <2>2, <2>3 DEF Young
<1>6. Forced(s.pair)' \/ Inside'
  BY <1>0, <1>1 DEF Forced, Inside
<1>7. ASSUME NEW i \in DOMAIN pairs'
      PROVE  i \in black' \/ i = session' \/ i = s.pair \/ pairs'[i].iat \in kicked' \/ Old(i)'
  <2>1. CASE i = s.pair
    BY <2>1
  <2>2. CASE i # s.pair
    <3>1. i \in DOMAIN pairs /\ pairs'[i] = pairs[i]
      BY <1>0, <1>1, <1>7, <2>2
    <3>2. i \in black \/ i = session \/ pairs[i].iat \in kicked \/ Old(i)
      BY <3>1 DEF AccTokens
    <3>3. Old(i) => Old(i)'
      <4>1. SUFFICES ASSUME Old(i) PROVE Old(i)'
        OBVIOUS
      <4>2. user.validAfter # Never /\ pairs[i].iat < Acc!Second(user.validAfter)
        BY <4>1 DEF Old
      <4>3. user'.validAfter # Never /\ pairs[i].iat < Acc!Second(user'.validAfter)
        BY <1>2, <3>1, <4>2, AccNumbers
      <4> QED
        BY <3>1, <4>3 DEF Old
    <3> QED
      BY <1>0, <1>1, <3>1, <3>2, <3>3
  <2> QED
    BY <2>1, <2>2
<1>8. session' # Never =>
         \/ Forced(session)'
         \/ /\ user'.status = "active"
            /\ school'.status = "cancelled" \/ (~user'.deleted /\ school'.status # "frozen")
  <2>1. SUFFICES ASSUME session # Never, ~Forced(session)
                 PROVE  /\ user.status = "active"
                        /\ school.status = "cancelled" \/ (~user.deleted /\ school.status # "frozen")
    <3>1. session # Never => (Forced(session) => Forced(session)')
      BY <1>0, <1>1, AccTyped DEF Forced
    <3> QED
      BY <3>1
  <2> QED
    BY <2>1 DEF AccTokens
<1> QED
  BY <1>0, <1>1, <1>3, <1>4, <1>5, <1>6, <1>7, <1>8 DEF AccTokens

\* One handler at a time: what each step leaves.
LEMMA AccAloneKept ==
    ASSUME AccFacts, AccFacts', NEW t, DOMAIN thr = {t}, AccAlone(thr[t]), AccAct(t)
    PROVE  AccAlone(thr[t])'
<1>1. PICK s : NewRec(t, s)
  BY AccThreads
<1>2. PICK r : r = thr[t]
  OBVIOUS
<1>3. AccOrder(r) /\ AccTokens(r) /\ thr'[t] = s /\ t \in DOMAIN thr
  BY <1>1, <1>2, AccMoves DEF AccAlone, NewRec
<1>f. Acc!Free(t) => r.at = "idle"
  BY <1>2 DEF Acc!Free, Acc!Idle
<1>a. \A p : Acc!At(t, p) => r.at = p
  BY <1>2 DEF Acc!At
<1>e. Acc!Ends(t) => s.at = "idle"
  BY <1>1, AccGoes, Zenon
<1>h. \A p, b, x :
        /\ Acc!Goes(t, [Acc!Idle EXCEPT !.at = p]) => s.at = p
        /\ Acc!Goes(t, [Acc!Idle EXCEPT !.at = p, !.pair = x]) => s.at = p /\ s.pair = x
        /\ Acc!Goes(t, [Acc!Idle EXCEPT !.at = p, !.seen = x]) => s.at = p /\ s.seen = x
        /\ Acc!Goes(t, [Acc!Idle EXCEPT !.at = p, !.by = b, !.seen = x]) => s.at = p /\ s.by = b
  BY <1>1, AccGoes, Zenon
<1>4. SUFFICES AccOrder(s)' /\ AccTokens(s)'
  BY <1>3 DEF AccAlone
<1>q. ASSUME AccTokens(r), r.at \notin {"store", "kick"}, s.at # "store",
             user'.validAfter = user.validAfter, pairs' = pairs, session' = session, black' = black, kicked' = kicked,
             validAfter' = validAfter,
             s.at # "kick" /\ session # Never /\ ~Forced(session) =>
               /\ user'.status = "active"
               /\ \/ school'.status = "cancelled"
                  \/ ~user'.deleted /\ (school'.status # "frozen" \/ s.at = "kickSchool")
      PROVE  AccTokens(s)'
  BY <1>1, <1>2, <1>q, AccAloneQuiet DEF NewRec
<1>5. CASE Acc!LoginWrong(t) \/ Acc!CountFailure(t) \/ Acc!LockAccount(t) \/ Acc!UnlockUser(t) \/ Acc!GrantTemp(t)
  <2>1. /\ r.at \in {"idle", "wrong", "lock", "passed"} /\ s.at \in {"idle", "wrong", "lock"}
    BY <1>5, <1>f, <1>a, <1>e, <1>h, Zenon DEF Acc!LoginWrong, Acc!CountFailure, Acc!LockAccount, Acc!UnlockUser, Acc!GrantTemp
  <2>2. /\ user' = user /\ pairs' = pairs /\ session' = session /\ black' = black /\ kicked' = kicked
        /\ validAfter' = validAfter /\ school' = school
    BY <1>5 DEF Acc!LoginWrong, Acc!CountFailure, Acc!LockAccount, Acc!UnlockUser, Acc!GrantTemp, Acc!schoolVars
  <2>3. AccOrder(s)'
    BY <2>1 DEF AccOrder
  <2> QED
    BY <1>3, <1>q, <2>1, <2>2, <2>3 DEF AccTokens
<1>6. CASE Acc!LoginRight(t) \/ Acc!LoginSSO(t)
  <2>1. /\ r.at = "idle" /\ s.at = "passed"
    BY <1>6, <1>f, <1>h, Zenon DEF Acc!LoginRight, Acc!LoginSSO
  <2>2. /\ user' = user /\ pairs' = pairs /\ session' = session /\ black' = black /\ kicked' = kicked
        /\ validAfter' = validAfter /\ school' = school
    BY <1>6 DEF Acc!LoginRight, Acc!LoginSSO, Acc!userVars, Acc!schoolVars
  <2>3. Inside
    BY <1>6 DEF Acc!LoginRight, Acc!LoginSSO, Acc!SchoolAdmits, Inside
  <2>4. AccOrder(s)'
    BY <2>1, <2>2, <2>3 DEF AccOrder, Inside
  <2> QED
    BY <1>3, <1>q, <2>1, <2>2, <2>4 DEF AccTokens
<1>7. CASE Acc!IssueLogin(t)
  <2>1. r.at = "passed" /\ s.at = "store"
    BY <1>7, <1>a, <1>h, Zenon DEF Acc!IssueLogin, Acc!IssuePair
  <2>2. Inside
    BY <1>3, <2>1 DEF AccOrder
  <2>3. /\ now' = now /\ session' = session /\ kicked' = kicked /\ school' = school /\ Acc!RaiseValidAfter
        /\ Acc!IssuePair(t, thr[t].by)
    BY <1>7 DEF Acc!IssueLogin, Acc!schoolVars
  <2>4. thr[t].by \in {"login", "sso"}
    BY <1>2, <1>3, <2>1, AccTyped DEF AccThread
  <2>5. user'.status = user.status /\ user'.deleted = user.deleted /\ user'.validAfter = now /\ validAfter' = 2 * Acc!Second(now)
    BY <2>2, <2>3, RaisedTyped DEF Inside
  <2>6. PICK b : b = thr[t].by
    OBVIOUS
  <2>8. Issued(s, b)
    <3>1. ASSUME b = "login" PROVE Issued(s, b)
      <4>1. Acc!IssuePair(t, "login")
        BY <2>3, <2>6, <3>1
      <4>2. Issued(s, "login")
        BY <1>1, <2>3, <4>1, IssuedTyped
      <4> QED
        BY <3>1, <4>2
    <3>2. ASSUME b = "sso" PROVE Issued(s, b)
      <4>1. Acc!IssuePair(t, "sso")
        BY <2>3, <2>6, <3>2
      <4>2. Issued(s, "sso")
        BY <1>1, <2>3, <4>1, IssuedTyped
      <4> QED
        BY <3>2, <4>2
    <3> QED
      BY <2>4, <2>6, <3>1, <3>2
  <2>7. AccTokens(s)'
    BY <1>1, <1>3, <2>1, <2>2, <2>3, <2>5, <2>8, AccAloneIssue
  <2> QED
    BY <2>1, <2>7 DEF AccOrder
<1>8. CASE Acc!ForceChangePassword(t)
  <2>1. r.at = "idle" /\ s.at = "store"
    BY <1>8, <1>f, <1>h, Zenon DEF Acc!ForceChangePassword, Acc!IssuePair
  <2>3. /\ now' = now /\ session' = session /\ kicked' = kicked /\ school' = school
        /\ user' = [user EXCEPT !.first = FALSE, !.validAfter = now] /\ validAfter' = 2 * Acc!Second(now)
        /\ Acc!IssuePair(t, "force")
    BY <1>8 DEF Acc!ForceChangePassword, Acc!schoolVars
  <2>5. user'.status = user.status /\ user'.deleted = user.deleted /\ user'.validAfter = now
    BY <2>3, AccTyped DEF AccUser
  <2>8. Issued(s, "force")
    BY <1>1, <2>3, IssuedTyped
  <2>7. AccTokens(s)'
    BY <1>1, <1>3, <2>1, <2>3, <2>5, <2>8, AccAloneIssue
  <2> QED
    BY <2>1, <2>7 DEF AccOrder
<1>9. CASE Acc!IssueRefresh(t)
  <2>1. r.at = "refresh" /\ s.at = "store"
    BY <1>9, <1>a, <1>h, Zenon DEF Acc!IssueRefresh, Acc!IssuePair
  <2>2. Inside /\ session # Never
    BY <1>3, <2>1 DEF AccOrder
  <2>3. /\ now' = now /\ session' = session /\ kicked' = kicked /\ school' = school
        /\ user' = user /\ validAfter' = validAfter
        /\ Acc!IssuePair(t, "refresh")
    BY <1>9 DEF Acc!IssueRefresh, Acc!schoolVars
  <2>8. Issued(s, "refresh")
    BY <1>1, <2>3, IssuedTyped
  <2>7. AccTokens(s)'
    BY <1>1, <1>3, <2>1, <2>2, <2>3, <2>8, AccAloneIssue
  <2> QED
    BY <2>1, <2>7 DEF AccOrder
<1>10. CASE Acc!StoreSession(t)
  <2>1. r.at = "store" /\ s.at = "idle"
    BY <1>10, <1>a, <1>e DEF Acc!StoreSession
  <2>2. /\ user' = user /\ pairs' = pairs /\ session' = r.pair /\ black' = black /\ kicked' = kicked
        /\ validAfter' = validAfter /\ school' = school
    BY <1>2, <1>10 DEF Acc!StoreSession, Acc!schoolVars
  <2>3. session = Never => session \notin DOMAIN pairs
    BY AccTyped, AccountAssumption
  <2>4. AccTokens(s)'
    <3>1. Young(r.pair)' /\ (Old(r.pair)' <=> Old(r.pair)) /\ (Forced(r.pair)' <=> Forced(r.pair))
      BY <1>3, <2>1, <2>2 DEF AccTokens, Young, Old, Forced
    <3>2. ASSUME NEW i \in DOMAIN pairs
          PROVE  i \in black \/ i = r.pair \/ pairs[i].iat \in kicked \/ Old(i)'
      BY <1>3, <2>1, <2>2, <2>3, <3>2 DEF AccTokens, Old
    <3>3. Forced(r.pair) \/ (user.status = "active" /\ ~user.deleted /\ school.status # "frozen")
      BY <1>3, <2>1 DEF AccTokens, Inside
    <3>4. r.pair \notin black
      BY <1>3, <2>1 DEF AccTokens
    <3>5. validAfter # Never /\ user.validAfter # Never => 2 * Acc!Second(user.validAfter) <= validAfter
      BY <1>3 DEF AccTokens
    <3> QED
      BY <2>1, <2>2, <3>1, <3>2, <3>3, <3>4, <3>5 DEF AccTokens, Young, Forced
  <2> QED
    BY <2>1, <2>4 DEF AccOrder
<1>11. CASE Acc!RefreshCheck(t)
  <2>1. /\ r.at = "idle" /\ s.at = "refresh"
    BY <1>11, <1>f, <1>h, Zenon DEF Acc!RefreshCheck
  <2>2. /\ user' = user /\ pairs' = pairs /\ session' = session /\ black' = black /\ kicked' = kicked
        /\ validAfter' = Acc!Loaded /\ school' = school /\ session # Never
    BY <1>11 DEF Acc!RefreshCheck, Acc!schoolVars
  <2>3. Inside
    BY <1>11 DEF Acc!RefreshCheck, Acc!SchoolAdmits, Inside
  <2>4. AccOrder(s)'
    BY <2>1, <2>2, <2>3 DEF AccOrder, Inside
  <2>5. \/ validAfter' = validAfter
        \/ validAfter = Never /\ user.validAfter # Never /\ validAfter' = 2 * Acc!Second(user.validAfter)
    BY <2>2, LoadedTyped
  <2>6. s.at # "kick" /\ session # Never /\ ~Forced(session) =>
               /\ user'.status = "active"
               /\ \/ school'.status = "cancelled"
                  \/ ~user'.deleted /\ (school'.status # "frozen" \/ s.at = "kickSchool")
    BY <1>3, <2>1, <2>2 DEF AccTokens
  <2>7. AccTokens(s)'
    BY <1>1, <1>2, <1>3, <2>1, <2>2, <2>5, <2>6, AccAloneQuiet DEF NewRec
  <2> QED
    BY <2>4, <2>7
<1>12. CASE \E i \in DOMAIN pairs : Acc!Logout(t, i)
  <2>1. PICK i \in DOMAIN pairs : Acc!Logout(t, i)
    BY <1>12
  <2>2. r.at = "idle" /\ s.at = "idle"
    BY <2>1, <1>f, <1>e DEF Acc!Logout
  <2>3. /\ Acc!RaiseValidAfter /\ now' = now /\ pairs' = pairs /\ session' = Never /\ black \subseteq black' /\ kicked \subseteq kicked'
        /\ session # Never => session \in black' \/ pairs[session].iat \in kicked'
    BY <2>1 DEF Acc!Logout
  <2>4. AccTokens(s)'
    BY <1>3, <2>2, <2>3, AccAloneRaise
  <2> QED
    BY <2>2, <2>4 DEF AccOrder
<1>13. CASE (\E x \in {"active", "disabled", "archived"} : Acc!UpdateStatus(t, x)) \/ Acc!Delete(t) \/ Acc!ResetPassword(t)
  <2>1. PICK u : /\ Acc!ChangeUser(t, u) /\ u.validAfter = user.validAfter
                 /\ u.deleted = user.deleted \/ u.deleted
                 /\ u.status # "active" \/ u.deleted \/ u.first # user.first \/ u.deleted = user.deleted
    <3>1. ASSUME NEW x \in {"active", "disabled", "archived"}
          PROVE  [user EXCEPT !.status = x].validAfter = user.validAfter /\ [user EXCEPT !.status = x].deleted = user.deleted
      BY AccTyped DEF AccUser
    <3>2. /\ [user EXCEPT !.deleted = TRUE].deleted /\ [user EXCEPT !.deleted = TRUE].validAfter = user.validAfter
          /\ [user EXCEPT !.first = TRUE].deleted = user.deleted /\ [user EXCEPT !.first = TRUE].validAfter = user.validAfter
      BY AccTyped DEF AccUser
    <3> QED
      BY <1>13, <3>1, <3>2 DEF Acc!UpdateStatus, Acc!Delete, Acc!ResetPassword
  <2>2. /\ r.at = "idle" /\ s.at \in {"idle", "kick"} /\ (s.at = "kick" \/ (u.status = "active" /\ ~u.deleted))
        /\ ~user.deleted
    BY <2>1, <1>f, <1>e, <1>h, Zenon DEF Acc!ChangeUser
  <2>3. /\ user' = u /\ pairs' = pairs /\ session' = session /\ black' = black /\ kicked' = kicked
        /\ validAfter' = validAfter /\ school' = school
    BY <2>1 DEF Acc!ChangeUser, Acc!schoolVars
  <2>4. s.at # "kick" /\ session # Never /\ ~Forced(session) =>
               /\ user'.status = "active"
               /\ \/ school'.status = "cancelled"
                  \/ ~user'.deleted /\ (school'.status # "frozen" \/ s.at = "kickSchool")
    BY <1>3, <2>2, <2>3 DEF AccTokens
  <2>5. AccTokens(s)'
    BY <1>3, <1>q, <2>1, <2>2, <2>3, <2>4
  <2> QED
    BY <2>2, <2>5 DEF AccOrder
<1>14. CASE Acc!Kick(t)
  <2>1. r.at = "kick" /\ s.at = "idle"
    BY <1>14, <1>a, <1>e DEF Acc!Kick
  <2>2. /\ Acc!RaiseValidAfter /\ now' = now /\ pairs' = pairs /\ session' = Never /\ black \subseteq black' /\ kicked \subseteq kicked'
        /\ session # Never => session \in black'
    BY <1>14 DEF Acc!Kick
  <2>3. AccTokens(s)'
    BY <1>3, <2>1, <2>2, AccAloneRaise
  <2> QED
    BY <2>1, <2>3 DEF AccOrder
<1>15. CASE \E op \in Acc!Operations : Acc!Decide(t, op)
  <2>1. PICK op \in Acc!Operations : Acc!Decide(t, op)
    BY <1>15
  <2>2. r.at = "idle" /\ s.at = op /\ Acc!Due(op)
    BY <2>1, <1>f, <1>h, Zenon DEF Acc!Decide
  <2>3. /\ user' = user /\ pairs' = pairs /\ session' = session /\ black' = black /\ kicked' = kicked
        /\ validAfter' = validAfter /\ school' = school
    BY <2>1 DEF Acc!Decide, Acc!userVars, Acc!schoolVars
  <2>4. op \notin {"store", "kick", "kickSchool", "passed", "refresh"}
    BY DEF Acc!Operations
  <2>5. AccOrder(s)'
    BY <2>2, <2>3, <2>4 DEF AccOrder, Acc!Due, Acc!Gone
  <2> QED
    BY <1>3, <1>q, <2>2, <2>3, <2>4, <2>5 DEF AccTokens
<1>16. CASE Acc!KickSchoolUsers(t)
  <2>1. r.at = "kickSchool" /\ s.at = "idle"
    BY <1>16, <1>a, <1>e DEF Acc!KickSchoolUsers
  <2>2. CASE user.deleted
    <3>1. /\ user' = user /\ pairs' = pairs /\ session' = session /\ black' = black /\ kicked' = kicked
          /\ validAfter' = validAfter /\ school' = school
      BY <1>16, <2>2 DEF Acc!KickSchoolUsers, Acc!schoolVars
    <3>2. AccTokens(s)'
      BY <1>3, <1>q, <2>1, <2>2, <3>1 DEF AccTokens
    <3> QED
      BY <2>1, <3>2 DEF AccOrder
  <2>3. CASE ~user.deleted
    <3>1. /\ Acc!RaiseValidAfter /\ now' = now /\ pairs' = pairs /\ session' = Never /\ black \subseteq black' /\ kicked \subseteq kicked'
          /\ Acc!Second(now) \in kicked'
      BY <1>16, <2>3 DEF Acc!KickSchoolUsers
    <3>2. AccTokens(s)'
      BY <1>3, <2>1, <2>3, <3>1, AccAloneRaise
    <3> QED
      BY <2>1, <3>2 DEF AccOrder
  <2> QED
    BY <2>2, <2>3
<1>17. CASE Acc!FreezeSchool(t) \/ Acc!Unfreeze(t) \/ Acc!Cancel(t) \/ Acc!Restore(t)
           \/ (\E e \in {now, MaxNow + 1} : Acc!SetLicense(t, e)) \/ Acc!ExpireToBuffering(t)
  <2>1. /\ pairs' = pairs /\ session' = session /\ black' = black /\ kicked' = kicked /\ validAfter' = validAfter
        /\ s.at \in {"idle", "kickSchool"} /\ r.at \in Acc!Operations
    BY <1>17, <1>a, <1>e, <1>h, Zenon DEF Acc!FreezeSchool, Acc!Unfreeze, Acc!Cancel, Acc!Restore, Acc!SetLicense, Acc!ExpireToBuffering,
       Acc!userVars, Acc!Operations
  <2>2. r.at \notin {"store", "kick", "kickSchool"}
    BY <2>1 DEF Acc!Operations
  <2>3. /\ user'.validAfter = user.validAfter /\ user'.status = user.status
        /\ user'.deleted => user.deleted \/ Acc!Cancel(t)
    BY <1>17, AccTyped DEF Acc!FreezeSchool, Acc!Unfreeze, Acc!Cancel, Acc!Restore, Acc!SetLicense, Acc!ExpireToBuffering,
       Acc!userVars, AccUser
  <2>4. \/ school'.status = "cancelled"
        \/ ~Acc!Cancel(t) /\ school'.status = "frozen" /\ s.at = "kickSchool" /\ school.status # "cancelled"
        \/ ~Acc!Cancel(t) /\ ~user'.deleted /\ school'.status # "frozen"
        \/ ~Acc!Cancel(t) /\ school'.status # "frozen" /\ school.status # "cancelled"
        \/ ~Acc!Cancel(t) /\ school'.status = school.status /\ school.status # "cancelled" /\ s.at = "idle"
    <3>1. CASE Acc!FreezeSchool(t)
      <4>1. r.at \in {"freeze", "lapse"} /\ s.at = "kickSchool"
        BY <1>a, <1>h, <3>1, Zenon DEF Acc!FreezeSchool
      <4>2. school.status # "cancelled"
        BY <1>3, <4>1 DEF AccOrder
      <4>3. school' = [school EXCEPT !.status = "frozen", !.frozenAt = now]
        BY <3>1, <4>2 DEF Acc!FreezeSchool, Acc!Becomes, Acc!Gone
      <4>4. school'.status = "frozen"
        BY <4>3, AccTyped DEF AccSchool
      <4>5. ~Acc!Cancel(t)
        BY <1>a, <4>1 DEF Acc!Cancel
      <4> QED
        BY <4>1, <4>2, <4>4, <4>5
    <3>2. CASE Acc!Cancel(t)
      BY <3>2, AccTyped DEF Acc!Cancel, Acc!Becomes, Acc!Gone, AccSchool
    <3>3. CASE Acc!Unfreeze(t)
      <4>1. r.at = "unfreeze"
        BY <1>a, <3>3 DEF Acc!Unfreeze
      <4>2. school.status = "frozen"
        BY <1>3, <4>1 DEF AccOrder
      <4>3. school' = [school EXCEPT !.status = "active", !.frozenAt = Never]
        BY <3>3, <4>2 DEF Acc!Unfreeze, Acc!Becomes, Acc!Gone
      <4>4. school'.status = "active"
        BY <4>3, AccTyped DEF AccSchool
      <4>5. ~Acc!Cancel(t)
        BY <1>a, <4>1 DEF Acc!Cancel
      <4> QED
        BY <4>2, <4>4, <4>5
    <3>4. CASE Acc!Restore(t)
      <4>1. school'.status = "active" /\ ~user'.deleted
        BY <3>4, AccTyped DEF Acc!Restore, AccSchool, AccUser
      <4>2. ~Acc!Cancel(t)
        BY <1>a, <3>4 DEF Acc!Cancel, Acc!Restore
      <4> QED
        BY <4>1, <4>2
    <3>5. CASE \E e \in {now, MaxNow + 1} : Acc!SetLicense(t, e)
      <4>1. r.at = "licence" /\ s.at = "idle"
        BY <1>a, <1>e, <3>5 DEF Acc!SetLicense
      <4>2. school.status # "cancelled"
        BY <1>3, <4>1 DEF AccOrder
      <4>3. \E e : school' = [school EXCEPT !.end = e]
        BY <3>5, <4>2 DEF Acc!SetLicense, Acc!Becomes, Acc!Gone
      <4>4. school'.status = school.status
        BY <4>3, AccTyped DEF AccSchool
      <4>5. ~Acc!Cancel(t)
        BY <1>a, <4>1 DEF Acc!Cancel
      <4> QED
        BY <4>1, <4>2, <4>4, <4>5
    <3>6. CASE Acc!ExpireToBuffering(t)
      <4>1. r.at = "expire"
        BY <1>a, <3>6 DEF Acc!ExpireToBuffering
      <4>2. school.status = "active"
        BY <1>3, <4>1 DEF AccOrder
      <4>3. school' = [school EXCEPT !.status = "buffering"]
        BY <3>6, <4>2 DEF Acc!ExpireToBuffering, Acc!Becomes, Acc!Gone
      <4>4. school'.status = "buffering"
        BY <4>3, AccTyped DEF AccSchool
      <4>5. ~Acc!Cancel(t)
        BY <1>a, <4>1 DEF Acc!Cancel
      <4> QED
        BY <4>2, <4>4, <4>5
    <3> QED
      BY <1>17, <3>1, <3>2, <3>3, <3>4, <3>5, <3>6
  <2>5. session # Never /\ ~Forced(session) =>
               /\ user'.status = "active"
               /\ \/ school'.status = "cancelled"
                  \/ ~user'.deleted /\ (school'.status # "frozen" \/ s.at = "kickSchool")
    BY <1>3, <2>2, <2>3, <2>4 DEF AccTokens
  <2>6. AccTokens(s)'
    BY <1>3, <1>q, <2>1, <2>2, <2>3, <2>5
  <2> QED
    BY <2>1, <2>6 DEF AccOrder
<1> QED
  BY <1>5, <1>6, <1>7, <1>8, <1>9, <1>10, <1>11, <1>12, <1>13, <1>14, <1>15, <1>16, <1>17 DEF AccAct

\* Time and the keys that expire, for one handler at a time.
LEMMA AccAlonePass ==
    ASSUME AccFacts, AccFacts', NEW r, AccAlone(r), AccPass,
           r.at = "store" => r.pair \in DOMAIN pairs
    PROVE  AccAlone(r)'
<1>1. /\ session' = session /\ pairs' = pairs /\ black' = black /\ user' = user /\ school' = school /\ kicked' = kicked
  BY DEF AccPass, Acc!UseToken, Acc!Tick, Acc!FailuresExpire, Acc!LockPeriodEnds, Acc!ValidAfterEvicted, Acc!ShownExpires,
     Acc!TempExpires, Acc!userVars, Acc!schoolVars
<1>2. \/ validAfter' = validAfter \/ validAfter' = Never
      \/ validAfter = Never /\ user.validAfter # Never /\ validAfter' = 2 * Acc!Second(user.validAfter)
  BY LoadedTyped DEF AccPass, Acc!UseToken, Acc!Tick, Acc!FailuresExpire, Acc!LockPeriodEnds, Acc!ValidAfterEvicted,
     Acc!ShownExpires, Acc!TempExpires, Acc!userVars, Acc!schoolVars
<1>3. AccOrder(r) /\ AccTokens(r)
  BY DEF AccAlone
<1>4. AccOrder(r)'
  BY <1>1, <1>3 DEF AccOrder, Inside
<1>5. validAfter' # Never /\ user'.validAfter # Never => 2 * Acc!Second(user'.validAfter) <= validAfter'
  <2>1. user.validAfter # Never => 2 * Acc!Second(user.validAfter) <= 2 * Acc!Second(user.validAfter)
    BY AccNumbers
  <2> QED
    BY <1>1, <1>2, <1>3, <2>1 DEF AccTokens
<1>6. ASSUME NEW i \in DOMAIN pairs, Young(i)
      PROVE  Young(i)'
  <2>1. user.validAfter # Never => pairs[i].iat >= Acc!Second(user.validAfter)
    BY <1>6 DEF Young
  <2>2. user.validAfter # Never => 2 * pairs[i].iat >= 2 * Acc!Second(user.validAfter)
    BY <2>1, AccNumbers
  <2>3. validAfter' # Never => 2 * pairs[i].iat >= validAfter'
    BY <1>2, <1>6, <2>2 DEF Young
  <2> QED
    BY <1>1, <2>1, <2>3 DEF Young
<1>7. /\ r.at # "store" /\ session' # Never => session' \notin black' /\ Young(session)'
      /\ r.at = "store" => /\ r.pair \notin black' /\ (session' # Never => session' \in black')
                           /\ Forced(r.pair)' \/ Inside'
  <2>1. session # Never => session \in DOMAIN pairs
    BY AccTyped
  <2> QED
    BY <1>1, <1>3, <1>6, <2>1 DEF AccTokens, Forced, Inside
<1>8. r.at = "store" => Young(r.pair)'
  <2>1. r.at = "store" => Young(r.pair) /\ r.pair \in DOMAIN pairs
    BY <1>3 DEF AccTokens
  <2> QED
    BY <1>6, <2>1
<1>9. \A i \in DOMAIN pairs' :
         i \in black' \/ i = session' \/ (r.at = "store" /\ i = r.pair) \/ pairs'[i].iat \in kicked' \/ Old(i)'
  BY <1>1, <1>3 DEF AccTokens, Old
<1>10. r.at # "kick" /\ session' # Never =>
         \/ Forced(session)'
         \/ /\ user'.status = "active"
            /\ \/ school'.status = "cancelled"
               \/ ~user'.deleted /\ (school'.status # "frozen" \/ r.at = "kickSchool")
  BY <1>1, <1>3 DEF AccTokens, Forced
<1> QED
  BY <1>4, <1>5, <1>7, <1>8, <1>9, <1>10 DEF AccAlone, AccTokens

LEMMA AccInit == Acc!Init => AccInv
<1> SUFFICES ASSUME Acc!Init PROVE AccInv
  OBVIOUS
<1>1. /\ now = 3 /\ user = [status |-> "active", deleted |-> FALSE, first |-> FALSE, validAfter |-> Never]
      /\ locking = [fails |-> 0, locked |-> FALSE, until |-> "none"]
      /\ validAfter = Never /\ session = Never /\ pairs = <<>> /\ black = {} /\ kicked = {}
  BY DEF Acc!Init
<1>2. school \in AccSchool
  BY AccountAssumption DEF Acc!Init, AccSchool, Acc!Statuses
<1>3. PICK crew \in AccountCrews : thr = [t \in crew.threads |-> Acc!Idle]
  BY DEF Acc!Init
<1>4. Acc!Idle \in AccThread /\ Acc!Idle.at = "idle"
  BY DEF Acc!Idle, AccThread, AccSteps
<1>5. DOMAIN thr = crew.threads /\ \A t \in DOMAIN thr : thr[t] = Acc!Idle
  BY <1>3
<1>6. user \in AccUser /\ locking \in AccLock /\ user.validAfter = Never
  BY <1>1 DEF AccUser, AccLock
<1>7. pairs \in Seq(Pair) /\ DOMAIN pairs = {}
  BY <1>1
<1>8. AccFacts
  BY <1>1, <1>2, <1>3, <1>4, <1>5, <1>6, <1>7 DEF AccFacts
<1>9. AccBounds
  <2>1. Cardinality(DOMAIN thr) \in Nat /\ Cardinality(Lockers) \in Nat
    BY <1>8, AccCounts
  <2>2. Cardinality(WrongOnes) = 0
    <3>1. WrongOnes = {}
      BY <1>4, <1>5 DEF WrongOnes
    <3> QED
      BY <3>1, FS_EmptySet
  <2>3. locking.fails = 0 /\ locking.until = "none"
    BY <1>1
  <2> QED
    BY <2>1, <2>2, <2>3, AccountAssumption DEF AccBounds
<1>10. ASSUME NEW t, DOMAIN thr = {t}
       PROVE  AccAlone(thr[t])
  <2>1. thr[t].at = "idle"
    BY <1>4, <1>5, <1>10
  <2> QED
    BY <1>1, <1>6, <1>7, <2>1 DEF AccAlone, AccOrder, AccTokens
<1> QED
  BY <1>8, <1>9, <1>10 DEF AccInv

LEMMA AccStep == AccInv /\ Acc!Next => AccInv'
<1> SUFFICES ASSUME AccInv, Acc!Next PROVE AccInv'
  OBVIOUS
<1>1. AccFacts /\ AccBounds
  BY DEF AccInv
<1>2. CASE AccPass
  <2>1. AccFacts' /\ AccBounds'
    BY <1>1, <1>2, AccPassKept
  <2>2. thr' = thr
    BY <1>2 DEF AccPass, Acc!UseToken, Acc!Tick, Acc!FailuresExpire, Acc!LockPeriodEnds, Acc!ValidAfterEvicted,
       Acc!ShownExpires, Acc!TempExpires
  <2>3. ASSUME NEW t, DOMAIN thr' = {t}
        PROVE  AccAlone(thr[t])'
    <3>1. AccAlone(thr[t])
      BY <2>2, <2>3 DEF AccInv
    <3>2. PICK r : r = thr[t]
      OBVIOUS
    <3>3. AccAlone(r)
      BY <3>1, <3>2
    <3>4. r.at = "store" => r.pair \in DOMAIN pairs
      BY <1>1, <2>2, <2>3, <3>2 DEF AccFacts
    <3>5. AccAlone(r)'
      BY <1>1, <1>2, <2>1, <3>3, <3>4, AccAlonePass
    <3> QED
      BY <2>2, <3>2, <3>5
  <2> QED
    BY <2>1, <2>3 DEF AccInv
<1>3. ASSUME NEW t, AccAct(t)
      PROVE  AccInv'
  <2>1. AccFacts'
    BY <1>1, <1>3, AccFactsKept
  <2>2. AccBounds'
    BY <1>1, <1>3, <2>1, AccBoundsKept
  <2>3. PICK r : NewRec(t, r)
    BY <1>1, <1>3, AccThreads
  <2>4. DOMAIN thr' = DOMAIN thr /\ t \in DOMAIN thr
    BY <1>1, <2>3, AccMoves DEF NewRec
  <2>5. ASSUME NEW u, DOMAIN thr' = {u}
        PROVE  AccAlone(thr[u])'
    <3>1. u = t /\ DOMAIN thr = {t} /\ AccAlone(thr[t])
      BY <2>4, <2>5 DEF AccInv
    <3>2. AccAlone(thr[t])'
      BY <1>1, <1>3, <2>1, <3>1, AccAloneKept
    <3> QED
      BY <3>1, <3>2
  <2> QED
    BY <2>1, <2>2, <2>5 DEF AccInv
<1> QED
  BY <1>2, <1>3, AccSteps2

LEMMA AccStutter == AccInv /\ UNCHANGED <<thr, accVars>> => AccInv'
<1> SUFFICES ASSUME AccInv, UNCHANGED <<thr, accVars>> PROVE AccInv'
  OBVIOUS
<1>1. UNCHANGED <<thr, now, user, locking, validAfter, session, pairs, black, school, kicked>>
  BY DEF accVars
<1>2. \A r : AccAlone(r) => AccAlone(r)'
  BY <1>1 DEF AccAlone, AccOrder, AccTokens, Inside, Forced, Young, Old
<1>3. AccFacts' /\ AccBounds'
  BY <1>1 DEF AccInv, AccFacts, AccBounds, WrongOnes, Lockers
<1>4. ASSUME NEW t, DOMAIN thr' = {t}
      PROVE  AccAlone(thr[t])'
  <2>1. PICK r : r = thr[t]
    OBVIOUS
  <2>2. AccAlone(r)
    BY <1>1, <1>4, <2>1 DEF AccInv
  <2>3. AccAlone(r)'
    BY <1>2, <2>2
  <2> QED
    BY <1>1, <2>1, <2>3
<1> QED
  BY <1>3, <1>4 DEF AccInv

\* The accounts keep their invariant, whichever services run.
LEMMA AccHolds == Spec => [](part = "accounts" => AccInv)
<1> DEFINE I == part = "accounts" => AccInv
<1>1. Init => I
  BY AccInit DEF Init
<1>2. I /\ [Next]_allVars => I'
  <2> SUFFICES ASSUME I, [Next]_allVars, part' = "accounts" PROVE AccInv'
    OBVIOUS
  <2>1. part = "accounts" /\ AccInv
    BY PartStays
  <2>2. CASE Next
    BY <2>1, <2>2, AccStep DEF Next
  <2>3. CASE UNCHANGED allVars
    BY <2>1, <2>3, AccStutter DEF allVars
  <2> QED
    BY <2>2, <2>3
<1> QED
  BY <1>1, <1>2, PTL DEF Spec, allVars

\* However many logins overlap, the wrong passwords that are counted exceed the maximum
\* by the logins in flight and no more (Login and handleLoginFail of auth_service.go).
THEOREM FailuresStayBounded == Spec => []FailuresBounded
<1>1. (part = "accounts" => AccInv) => FailuresBounded
  <2> SUFFICES ASSUME part = "accounts", AccInv PROVE Acc!FailuresBounded
    BY DEF FailuresBounded
  <2>1. AccFacts /\ locking.fails + Cardinality(WrongOnes) <= MaxFail - 1 + Cardinality(DOMAIN thr)
    BY DEF AccInv, AccBounds
  <2>2. Cardinality(WrongOnes) \in Nat /\ Cardinality(DOMAIN thr) \in Nat /\ locking.fails \in Nat /\ MaxFail \in Nat
    BY <2>1, AccCounts, AccountAssumption DEF AccFacts, AccLock
  <2>3. locking.fails <= MaxFail + Cardinality(DOMAIN thr) - 1
    BY <2>1, <2>2
  <2> QED
    BY <2>3, SameCardinality DEF Acc!FailuresBounded
<1> QED
  BY <1>1, AccHolds, PTL

\* Nobody at work: what is known of the one handler, which is idle.
LEMMA AccSettled ==
    ASSUME AccInv, Acc!Settled
    PROVE  AccFacts /\ \E r : r.at = "idle" /\ AccTokens(r)
<1>1. Cardinality(DOMAIN thr) = 1 /\ IsFiniteSet(DOMAIN thr) /\ AccFacts
  BY SameCardinality, AccCounts DEF Acc!Settled, AccInv
<1>2. PICK t : DOMAIN thr = {t}
  BY <1>1, OneElement
<1>3. thr[t].at = "idle"
  BY <1>2 DEF Acc!Settled, Acc!Free, Acc!Idle
<1>4. AccTokens(thr[t])
  BY <1>2 DEF AccInv, AccAlone
<1> QED
  BY <1>1, <1>3, <1>4

\* A pair issued before the second of the time in the row is not accepted.
LEMMA OldIsRefused ==
    ASSUME AccFacts, NEW r, AccTokens(r), NEW i \in DOMAIN pairs, Old(i), Acc!NotBefore(i),
           user.deleted => validAfter # Never
    PROVE  FALSE
<1>1. user.validAfter # Never /\ pairs[i].iat < Acc!Second(user.validAfter)
  BY DEF Old
<1>2. /\ pairs[i].iat \in Nat /\ Acc!Second(user.validAfter) \in Nat /\ user.validAfter \in Nat
      /\ 2 * Acc!Second(user.validAfter) <= user.validAfter
  BY <1>1, AccNumbers
<1>3. CASE validAfter # Never
  <2>1. 2 * Acc!Second(user.validAfter) <= validAfter /\ validAfter \in Nat
    BY <1>1, <1>3, AccNumbers DEF AccTokens
  <2>2. 2 * pairs[i].iat >= validAfter
    BY <1>3 DEF Acc!NotBefore, Acc!ValidAfter
  <2> QED
    BY <1>1, <1>2, <2>1, <2>2
<1>4. CASE validAfter = Never
  <2>1. 2 * pairs[i].iat >= user.validAfter
    BY <1>1, <1>4 DEF Acc!NotBefore, Acc!ValidAfter
  <2> QED
    BY <1>1, <1>2, <2>1
<1> QED
  BY <1>3, <1>4

\* Handlers one after the other: the pair in the session is accepted, and no other is but those
\* of the seconds in which a school was kicked or a logout dropped a session that was
\* not its own (storeSession, Logout and ResolveTokenValidAfter).
THEOREM OneDeviceAtATime == Spec => []OnlyTheSession
<1>1. (part = "accounts" => AccInv) => OnlyTheSession
  <2> SUFFICES ASSUME part = "accounts", AccInv, Acc!Settled, Acc!Alive, validAfter # Never
               PROVE  /\ session # Never => Acc!Accepted(session)
                      /\ \A i \in DOMAIN pairs : Acc!Accepted(i) => i = session \/ pairs[i].iat \in kicked
    BY DEF OnlyTheSession, Acc!OnlyTheSession
  <2>1. PICK r : r.at = "idle" /\ AccTokens(r) /\ AccFacts
    BY AccSettled
  <2>2. session # Never => Acc!Accepted(session)
    BY <2>1 DEF AccTokens, Young, Acc!Accepted, Acc!NotBefore, Acc!ValidAfter, Acc!Alive
  <2>3. ASSUME NEW i \in DOMAIN pairs, Acc!Accepted(i)
        PROVE  i = session \/ pairs[i].iat \in kicked
    <3>1. i \notin black /\ Acc!NotBefore(i)
      BY <2>3 DEF Acc!Accepted
    <3>2. ~Old(i)
      BY <2>1, <3>1, OldIsRefused
    <3> QED
      BY <2>1, <3>1, <3>2 DEF AccTokens
  <2> QED
    BY <2>2, <2>3
<1> QED
  BY <1>1, AccHolds, PTL

\* Handlers one after the other: a user who may not come in has no pair that is accepted, but
\* for those that ForceChangePassword hands out and those of the seconds of kicked
\* (UpdateStatus, Delete, kickUser, Freeze and KickSchoolUsers).
THEOREM OutsidersStayOut == Spec => []OutStaysOut
<1>1. (part = "accounts" => AccInv) => OutStaysOut
  <2> SUFFICES ASSUME part = "accounts", AccInv, Acc!Settled, school.status # "cancelled",
                      user.deleted => validAfter # Never,
                      user.deleted \/ user.status # "active" \/ school.status = "frozen",
                      NEW i \in DOMAIN pairs, Acc!Accepted(i)
               PROVE  pairs[i].by = "force" \/ pairs[i].iat \in kicked
    BY DEF OutStaysOut, Acc!OutStaysOut
  <2>1. PICK r : r.at = "idle" /\ AccTokens(r) /\ AccFacts
    BY AccSettled
  <2>2. i \notin black /\ Acc!NotBefore(i)
    BY DEF Acc!Accepted
  <2>3. ~Old(i)
    BY <2>1, <2>2, OldIsRefused
  <2>4. session # Never => Forced(session)
    BY <2>1 DEF AccTokens
  <2>5. i = session \/ pairs[i].iat \in kicked
    BY <2>1, <2>2, <2>3 DEF AccTokens
  <2>6. i # Never
    BY <2>1, AccountAssumption, AccTyped
  <2> QED
    BY <2>4, <2>5, <2>6 DEF Forced
<1> QED
  BY <1>1, AccHolds, PTL
=============================================================================
