# LensChain: a TLA+ verification development

LensChain is a teaching platform for blockchain courses: students run experiment
environments in Kubernetes, play capture-the-flag competitions and follow interactive
simulations. This directory holds TLA+ modules translated from its Go code, the TLC
configurations that check them, and TLAPS proofs. `PROJECT.json` lists the components, the
runs, the mutants, the source lines behind every definition, the hazards, the findings and
the theorems. Paths below are relative to `src/`.

## 1. Inventory

| Component | State it keeps | Operations | Where it is hard |
|---|---|---|---|
| Experiment instances (`backend/internal/service/experiment`) | `experiment_instances` rows, snapshots, namespaces in the cluster, Redis queue lists | Create, Destroy, Restart, Pause, Resume, RestoreSnapshot, Submit, ManualGrade; provisioning goroutine; reclaim task; health scan | no lock and no transaction around read, Kubernetes call and write; goroutines die with the process |
| CTF jeopardy (`service/ctf/team_submission.go`, `scheduler.go`) | submissions, team totals, challenge items; Redis prices, solved marks, counters, cooldowns | SubmitChallenge; score sync task; start, end, termination, archiving | check before a slow judgement; database and Redis written one after the other |
| CTF attack-defence (`battle_*.go`, `scheduler_round.go`) | balances, ledger, rounds, attacks, patches; Redis balances and locks | SubmitAttack, SubmitDefense; round task; balance sync task; end | absolute balances from old copies; a lock with a lifetime; settlement against attacks |
| CTF teams (`team_service.go`, `team_registration.go`) | teams, members, registrations | create, join, leave, disband, register, cancel; the start locks teams | counted limits; requests that checked before the start |
| CTF environments (`environment_service.go`) | challenge environments, namespaces, the namespace counter | start, retry, reset, destroy; recycling; termination | namespaces that take time to go; late results |
| CTF management (`competition_*.go`, `challenge_*.go`) | challenges with contracts and assertions, verifications, reviews, listings, competitions | create, edit, verify, review, list, publish, delete | writes by id after an earlier read; verifications that are abandoned or time out |
| Experiment groups and quotas (`group_service.go`, `quota_service.go`) | groups, members, roles, quota counters | create, edit, join, remove, quota set | counted limits; a status written from counts and from instances that moved on |
| Experiment templates and images (`template_service.go`, `template_sub_service.go`, `image_service.go`) | templates with containers, scripts, scenes, roles, checkpoints; images with versions | edit, switch type, publish, clone, share; review, withdraw, set the default | a check of one row, a write of another: what is published must stay whole |
| Simulation engine core (`sim-engine/core/internal`) | sessions, clocks, tick snapshots, scenes, linked states | play, pause, step, step back, reset, restore; automatic advance | two goroutines on one session; differences applied to the right base |
| Simulation transport, orchestration, collectors | connections, pods, subscriptions | gRPC, WebSocket, Kubernetes | retries against external systems |
| Simulation scenes (`sim-engine/scenarios/internal`) | one `snapState` each: votes, chains, channels, pools, replicas | `handleAction`: ten to twenty actions a scene | long sequences of legal actions; the protocols they teach have invariants of their own |
| Framework and renderers | none | conversion of a state to JSON and shapes | none |
| Authentication (`service/auth`, `pkg/tokenstate`) | users, Redis sessions, counters, blacklists | login, refresh, logout, disable | session compared, then replaced |
| Courses and assignments (`service/course`) | lessons, submissions, grades | submit, grade, draft | attempts counted before the insert |
| Grade review (`service/grade`) | reviews, semester grades, warnings | submit, approve, reject, unlock, appeal | several writes without a transaction |
| Schools (`service/school`) | licence status, cached status | approve, freeze, renew, cancel; two jobs | job and administrator on one row |
| Notifications (`service/notification`) | inbox, unread counters | send, read, broadcast | counter cached out of order |
| System (`service/system`) | alerts, statistics, backups | background jobs | small |
| HTTP, repositories, packages, frontend, deployment | - | - | carried by the services above |

Components meet in three places: PostgreSQL rows that any handler or task updates by id,
Redis keys written after the database, and goroutines (`pkg/cron/async.go`, the cron tasks)
that keep a copy of a row loaded by someone else. The correctness questions come from there.

## 2. Plan

1. `ExpInstance` with its abstract lifecycle `ExpLifecycle`: modelled, checked, and every safety
   invariant and the refinement proved.
2. `CtfJeopardy` with `CtfScoreboard`, `CtfBattle` with `CtfTokens`: modelled, checked, and every safety property
   and both refinements proved.
3. `SimSession`, the session core of the engine: modelled, checked and proved.
4. `Accounts` (with the school's lifecycle), `GradeReview`, `CtfTeams`, `CtfEnvironments`, `CtfChallenges`,
   `ExpGroups`, `ExpTemplates`, composed by `Services`: modelled and checked, and every safety property
   and the types proved.
5. Twenty-three scenes with a protocol of their own, composed by `Scenes`: modelled and checked, and `OneChoice` proved of
   the seven scenes it speaks of.
6. To prove next: of the scenes with money `ValueKept`, beginning with `SupplyHeld` and `MoneyKept`; then `ChainTold`.
7. To model next: the quota counter, notifications.

Proofs follow the order of the modules: type correctness, then the safety invariants that hold
for every interleaving, then the step simulation of an abstract specification.

## 3. Modules

### ExpInstance

One step is one write to the database or the cluster, or one group of reads. A *thread* is a
goroutine serving a request or a task; `th[t]` holds its place (`pc`) and the copy it loaded. A
*job* is a `provisionEnvironment` goroutine started by `RunAsync`. `status`, `ns`, `attempt`, `scored`,
`total` are columns of `experiment_instances`, `snap` says whether snapshots exist, `k8s[i]` what the
namespace `exp-<id>` holds, `queue` the two Redis lists. Actions carry the names of the code's steps:
`StartCreate`, `FindReusable`, `CheckLimits`, `InsertCreating`/`InsertQueued` are `Create`; `JobRecord` to
`JobSettle` are `provisionEnvironment` with its deferred write; `DeleteNs` and `MarkDestroyed` are
`destroyEnvironment`, reached from destroy, restart, reclaim and health scan alike.
`Activate` (pop the queue, update the row, start a goroutine) is folded into the write it follows.

Switches: `Overlap` lets operations on one student's rows run at once, as the code does; without it an
operation waits until the student's rows are quiet, the assumption under which the strict properties
are stated. `ReadFaults` lets a background task fail to load a template late in its work.

`ExpLifecycle` is the diagram of the documents: which phase may follow which, and when pods are up.
`Phase` maps rows to it.

### CtfJeopardy and CtfScoreboard

A submission enters (`Enter`: item loaded, limits counted), is judged (`JudgeFails`, `Wrong`, `Right`)
and then updates Redis (`CountFailure`, `SetCooldown`, or `ClearLimits`, `MarkSolved`, `ShowPrice`).
`Right` is the transaction: the row, the team's total and the item in one step, from the copy loaded at
entry. `SyncRead`/`SyncWrite` are `RunDynamicScoreSync`; `BeginClose` to `Rank` are `finishCompetition` and
`Terminate`. `Price` is `calculateJeopardyScore` with the decay factor as a fraction (floating-point
rounding is abstracted to the floor of the exact value). Redis expiry is `Tick`, in minutes.
`CtfScoreboard` promises that teams are paid by the order of their solves, once.

### CtfBattle and CtfTokens

Attacks lock a (round, target, challenge), execute, and pay from loaded balances; patches verify and
pay; `ListDue`, `AdvancePhase`, `ReadRound`, `SettleRound`, `CacheTeam` are `RunADRoundAdvance`; time is counted
in phase boundaries, and `Boundary` assumes that the ten-second task keeps up, that no execution
outlasts a phase (the HTTP timeout is 90 seconds, a phase lasts minutes), and that no team's synchronisation
is cut by a boundary. Rounding to the nearest
token (`math.Round`) is kept, in integers. `CtfTokens` promises how each exploit, patch and settlement moves tokens.

### SimSession

One session from `StartSession` to `DestroySession`. What it shows is a table of cells (the step counter and
last interactive value of each scene, and the field of the link group); `stack` is the snapshot
stack with its keyframes and differences, `last` the state differences are taken against, `pending` the linked
triggers. `op` is the holder of `opMu`: steps, interactions, resets and the automatic advance hold it and take one
step per scene; restoring a snapshot, automatic snapshots, the teacher's writes and the destruction do not and run
in between. A call to a scene may fail; recovery restarts its container and goes back to the last
recorded tick. A snapshot in `store` remembers the run it is of: `path` leaves the recorded run when one of an earlier run is restored, or
a reset comes while one is being restored. `pods` are those in the cluster, `pool` those the orchestrator knows. `epoch` counts the times
the clock went back to its start and exists for the properties. Two starts of one scene are serialised: the start and its
registration are one step, so the loser that deletes the Pod of the winner (`k8s_orchestrator.go:215`) does not occur.

### The services of the backend

In each of these a thread's record says which statement it comes to next, and a *crew* in `Init` fixes how many
requests may overlap (one or two) and how many may start; what only holds without overlap says so
with the number of threads, and the other crews still exercise the races.

- `Accounts`: the user's row, the Redis session, blacklist, cached `token_valid_after` and lock, and the school
  with its cached status. Time runs in half seconds since one of two times compared has no fraction.
  `Accepted` is what the middleware asks of a token. Handlers, jobs and expirations are actions.
- `GradeReview`: submissions graded answer by answer, and the review, grade
  row, appeal and warning of one student in one semester. Statements may fail in between (`faults`). The foreign key
  of the appeals is part of the action that deletes the rows.
- `CtfTeams`: teams, their members and registrations until the competition starts.
- `CtfEnvironments`: rows, namespaces that terminate for a while, and the counter of the quota.
- `CtfChallenges`: one challenge and one competition. A request is a check and a write; the verification's flow
  is in between an insert and a write, or is abandoned, and the cleanup lists rows and fails them one by one.
  `Outcome` stands for the whole flow. `StaysAsReviewed` is for requests one after the other, since an overlapping
  edit does change an approved challenge; `ListedWasApproved` and the bound on verifications hold whatever overlaps.
- `ExpGroups`: the groups of one template with their members' roles, and the latest instance of each student,
  reduced to the statuses a group's status depends on. A membership carries the request that stored it, because
  a removal deletes by id. `Join` and `RemoveMember` are the checks; the insert or delete and the write of the
  status follow in steps of their own; `refreshGroupStatus` is two reads and a write.
- `ExpTemplates`: templates with their parts, the lesson that refers to one, and an image with its versions. A row of `tpls` holds
  the template with its containers and has at most one role, script and scene. A request checks and leaves what it will write
  in its thread; the write refuses what a foreign key refuses. `edited`, `approved` and `listed` are history, for
  the properties. Validation is its first level; ports, resources and dependencies between images are left out.

`Services` takes one instance of each, side by side: they share no state, so a behaviour is one of them (`part`). What a crew
may be is named there for each service (`HandlersAssumption`, `LearningAssumption` and so on); its `MC…Crews` are the crews that are checked.

### The scenes

A scene module has one variable, `st`, the scene's `snapState` without what is only drawn (events, traces,
charts, notes), and one action per `ActionCode` of `handleAction`. The helper functions of the scene are operators from states to states.
What a hash or a pseudo-random draw decides is any choice: PoS producers, gossip peers, ties
between forks. Floating-point amounts are integers; ticks that are only read modulo an interval are kept so. Bounds such as
`MaxTerm`, `MaxLog`, `MaxHeight` and `MaxTxs` are guards of the module that needs them and named there.

| Module | Scene | What it must keep |
|---|---|---|
| `RaftScene`, `PbftScene`, `DposScene` | elections and commits | one leader per term, commits by a quorum, delegates for the places |
| `PosScene`, `MiningScenes` (proof of work and selfish mining), `ForkScene`, `MajorityScene` | block production | no slashed producer, reorganisations to longer chains, rewards for blocks in the chain |
| `ContractScene`, `GovernanceScene` | voting | executed by the voters, after quorum and timelock |
| `ChannelScene`, `BridgeScene`, `StakingScene`, `TokenScene`, `SupplyScene`, `MevScene`, `ReentrancyScene`, `CallScene` | money | balances add up to what was put in, minted coins are backed, guarded vaults stay solvent |
| `PartitionScene`, `GossipScene`, `BroadcastScene`, `BalanceScene`, `LifecycleScene` | replication and queues | replicas agree after recovery, one hop per tick, requests counted once, one transaction per nonce |

`Scenes` plays one scene per behaviour. Its three properties collect what the modules state, under the
type invariant of the scene.

### MC modules and proofs

`ExpInstance` and `CtfJeopardy` name their symmetry sets (threads and students, teams and challenges: no
definition tells them apart), `SimSession` the starts that differ (`MCStarts`), `Services` the crews and `Scenes` the budgets.
Theorems are in `ExpInstanceProofs`, `CtfJeopardyProofs`, `CtfBattleProofs`, `SimSessionProofs`, `ServicesProofs`, `RosterProofs`
and `SceneProofs`. `Recursion` holds the lemmas they share: a set of naturals has a smallest element, hence induction, definitions by
recursion, and sums over finite sets that can be split, extended and compared.
Definitions marked *mutant* are plausible bugs; each shows that a property can fail.

## 4. Runs

| Run | Question | Bounds |
|---|---|---|
| `exp_overlap` | do results and snapshots survive every overlap? | 1 row, 2 threads, 1 job, 1 crash, faults |
| `exp_workers` | does every start have a worker, and end? | 1 row, 1 thread, 2 jobs, fairness |
| `exp_orderly` | without overlap: rows against cluster, lifecycle | 2 rows, course limit 1 |
| `jeopardy_race` | totals, first blood, solved mark, cooldown under races | 2 teams, 1 challenge, 2 threads, 3 submissions, 1 crash |
| `jeopardy_orderly` | scores, ranks, scoreboard | 2 teams, 2 challenges, 2 threads, 3 submissions |
| `battle_race` | rewards paid once, rounds in turn, and does the battle end, under races and a fault? | 2 teams, 2 rounds, 1 thread, 1 attack, 1 fault or 1 synchronised balance, fairness |
| `battle_orderly` | balances in three places, token rules | 2 teams, 2 rounds, 2 challenges, 2 attacks, 1 synchronised balance |
| `sim_session` | stepping back exact, triggers of this run only, Pods given back | 2 scenes in four kinds of start, 3 ticks, 3 snapshots, 1 fault, 2 commands |
| `services` | sessions and locks, attempts, totals and approved grades, reviewed challenges, limits of teams and of groups, locked rosters and published templates, quota and namespaces | seven parts, crews of one and two threads with 2 to 10 requests, see the end of `Services` |
| `scenes` | one choice, money kept, chains told truthfully | 23 scenes, `MCBudget` actions each (4 to 12) |
| `exp_resurrected`, `jeopardy_double_solve` | each refutes one sentence of the acceptance documents | as small as the counterexample allows |

Why the bounds are enough: the races are between pairs (two handlers on a row, a handler and a job, a
submission and the synchronisation, an attack and the settlement), and each pair is present;
three submissions allow a solve after a solve and a failure after a success; two rounds give a
settlement with and without a successor; a course limit of one makes the queue fill with two rows. Other bounds
(`MaxRows`, `MaxJobs`, `MaxSubs`, `MaxAttacks`, crash and fault counts) only cut behaviours off, and the theorems do without them as far as they reach.
The services need two threads for a race and the longest story of one thread for the rest (a review is submitted, approved,
unlocked, adjusted and approved again in ten operations). `MCBudget` lets each scene tell the longest story its property is about: an election won and
contested, a channel closed, challenged and settled, a proposal queued and executed; every action of every scene occurs. `KeyframeInterval` is
two and `MaxItems` three, so that a session has keyframes, differences, and entries that fell out of the stack.

The runs of the jeopardy race leave out the end of a competition; `jeopardy_orderly` has it.
Deadlock is checked except in the battle runs, where everything stops once the competition is over and
its rounds are completed, in `sim_session`, where a session ends, and in `services` and `scenes`, where the
requests a behaviour may make are used up.

## 5. Fairness

`ExpInstance!FairSpec`: a provisioning goroutine that runs takes its next step; each call in it has a
context or a client timeout. Nothing is assumed of users or tasks.
`CtfBattle!FairSpec`: the round task is started every ten seconds, time passes, an operation in
flight, or a synchronisation, ends by the client timeout. Faults are bounded by `MaxFaults`; no fairness is asked of requests.

## 6. What is proved

TLAPS proves, for all values of the constants satisfying the named assumptions:

- `TypeCorrect`: `Spec => []TypeOK`. `TypeOK` alone is not inductive; the invariant `Base` adds that
  inserted rows have owners, that a student has a largest attempt number (so that `MaxAttemptNo`'s CHOOSE
  means something), that unused job slots are fresh, what a thread knows of the row it works on, and that the
  list `activateNextQueuedInstance` pops is empty. The last is a consequence of the two keys: nothing
  is ever pushed there. Should the keys be repaired, the lemma `ActivateNone` and its users have to be redone.
  One lemma per group of actions shows that `Base` is preserved.
- `CompletedRowsAreScored`: `Spec => []CompletedIsScored`. `CompletedIsScored` is not inductive: the retention
  reclaim writes "completed" from an old copy. The invariant adds that a thread on the retention path
  has a row whose score columns are set (they were when it listed the row, and no action clears them).
- `ReleasesAreSaved`: `Spec => []SnapshotBeforeRelease`, from the added invariant that a thread past its
  snapshot (pausing, or reclaiming) has a row of which a snapshot was taken; deleting one leaves
  "gone", never "never".
- `StartingRowsAreWorkedOn`: `Spec => []StartingHasWorker`, by cases on the actions that write a starting
  status (each starts a goroutine in the same step, into a slot that was free) and on those that end a
  goroutine (each leaves another status on its row).
- `RowsMatchTheirClusters`: with one operation at a time on a student's rows and no crash,
  `Spec => []RowMatchesCluster`, from `RowInv`: `Base`, that at most one thread or goroutine serves a
  student (`Alone`), and what the one that does knows of its row and its namespace at each place (`Sees`).
- `OperationsFollowTheDiagram`: each write is one step of `ExpLifecycle` or a stutter, by cases on the actions, from the
  same invariant. Both assume `Overlap = FALSE` and `MaxCrashes = 0`: a crash between two writes of one
  operation leaves the row in the middle of it, which the diagram does not have.

**Jeopardy** (`CtfJeopardyProofs`). What holds whatever overlaps, crashes or expires:

- `TypeCorrect`. `TypeOK` is inductive: it says of a thread's copy and of a key's lifetime what the steps need.
- `SolvedMarksAreTrue`, from `SolvedInv`: the mark is written two Redis calls after the commit, so a thread
  between the two must already have its stored solve.
- `FirstBloodsAreEarned` and the action property `FirstBloodsStand`: the item is written from an old copy, but `first` is
  written only by a copy that saw none, and only if there is none.
- `CooldownsAreArmed`, from `CooldownInv`: a counter at the threshold is outlived by its cooldown, or a thread is
  about to set it. A mark above zero would not be inductive, since counter and mark expire apart.
- `TotalsAreTheAwards`: a total is a fold over the rows of its team.

With `~Overlap` (no two submissions of one challenge at once, as in `jeopardy_orderly`): `RanksStand`, from `SeasonInv`
(nothing in flight while closing, nothing starts afterwards); `ScoresFollowSolves`, from `ScoreInv` (item, Redis and loaded
copies agree up to what the thread in flight still has to write); and, without crashes too,
`CompetitionKeepsBoard`, the step simulation of `CtfScoreboard`: a commit is a solve, every other step stutters. `OrderInv` adds that
the order of solves, again a fold, lists each solver once.

**Battles** (`CtfBattleProofs`). Whatever overlaps: `TypeCorrect`; `RoundsFollow`, from `RoundInv` (the list of due phases has at
most one entry and it stays true until it is acted on); `RewardsAreEarned`, from `RewardInv` (an attack in flight belongs to the
current attack phase, and a settlement sees all attacks of its round). With `~Overlap`, `BalancesStayEqual` and the
step simulation `BattleKeepsTokens`, from `TokenInv`: copies in flight are current, the cache lags only by the teams somebody is about to write, and no
synchronisation holds a stale balance. Rollbacks of settlements and crashes are included; the last one
uses the model's bound that a behaviour has faults or synchronisations, not both.

**Sessions of the engine** (`SimSessionProofs`). `TypeCorrect`, `ResetsClear` and `PodsGoBack` hold of every interleaving of a step
with the calls that do not take its lock, and need little more than `TypeOK`. `StepsBackAreExact` needs most of it
(`ExactInv`): the stack is a chain, sorted by tick, in which each difference leads from one recorded state to the next and the last
state is `last` (`ChainInv`); a snapshot in the store is of a tick its run has reached (`StoreInv`); and every tick the clock may go back to,
also after a restore, has its state in the stack or below its bottom (`ShownInv`). Its lemmas say that merging the differences
after a keyframe gives the last state of the tick, by `Recursion`, and that a record, a keyframe or not, pushing an
old one out or not, hides nothing of the ticks before it. Proving it showed that a snapshot from before a reset, restored after it, makes the next step
back show the other run; two commands per behaviour had been too few for TLC to meet that, four are enough.

**Services** (`ServicesProofs`, `RosterProofs`). A behaviour plays one service, so a service has an invariant of its own and a step
of the whole is a step of that service; each theorem has the form `Spec => [](part = X => ...)`. Crews are
any finite sets of threads with any number of requests.

- Environments (`EnvInv`): `PlacesAreGivenBack`, `RunningIsThere`. One thread's request carries what it took until it gives it back; rows at `creating` are its own.
- Grades (`LrnInv`): `AttemptsStayBounded` (rows and inserts in flight), `GradedTotalsAddUp` (rows that were cut short are in `torn`),
  `WarningsStayTrue`, `ApprovalsAreBacked` (its half about challenges from `ChlInv`).
- Teams and groups (`TmsInv`, `GrpInv`): `LimitsAreKept`. A request that has seen room counts as having taken it, so a maximum is
  exceeded by the requests between check and write and no more; the exact status of a group is kept by one thread only.
- Templates (`TplInv`): `LockedThingsStay`, its half about rosters from `TmsInv`. The invariant says what a lone request still knows
  when it writes, and counts one that cleared the default versions as having set its own.
- Accounts (`AccInv`): `FailuresStayBounded` for any overlap; `OneDeviceAtATime` and `OutsidersStayOut` for one request at a time. `AccFacts`
  relates the session to the pairs of tokens issued, `AccBounds` their times to the clock, `AccAlone` what the request in progress has still to write.
  `OnlyTheSession` used to hold only because the run issues two pairs: a logout of a pair from the second in which the school was
  kicked drops the session without blacklisting the pair; `kicked` now remembers that second.
- The types of all of them: `ServicesStayTyped`. Most follow from the invariants above; `AccDated` adds that no time passes the clock's bound and
  that the school's shown status is one it had, `ChlNumbered` what ranges the numbers of requests and rows stay in.

**Scenes** (`SceneProofs`). `ChoicesAreMadeOnce`: `Spec => []OneChoice`. A behaviour plays one scene, so again each scene has an
invariant of its own; the named assumptions of `Scenes` say which of its constants are naturals and which sets are finite, and
sizes, stakes, timeouts and terms are otherwise free.

- Elections (`RaftInv`, the longest of these): that no term has two leaders is not inductive, since what refuses a second vote in a term is spread over
  the nodes. A forced candidate asks everyone it can reach, and a partition always cuts the nodes into the same halves, of which only the second may hold a
  majority: `RaftSafe` says that the second half agrees on its term, that leaders are in the record `led`, and that every term with a leader is
  `Settled`: everyone has reached it, or the second half has, having voted for that leader or gone past it. It is
  asked only while no node is down, as is `OneLeaderPerTerm`: `CrashNode` removes a node from the count of the majority, and the model then does elect twice.
- Commits (`PbftInv`): a replica counts commits of prepared replicas only, so one that committed has seen a quorum prepare; logs are in the order of their numbers.
- Delegates (`DposInv`): a candidate's votes are the sum of its supporters' stakes, nobody supports the impeached, and the ranking that fills the places is a one-to-one
  numbering by votes, so no more are active than there are places.
- Voting: `ContractInv` (an open proposal is not among the executed, whose voters were two thirds) and `GovernanceInv` (`ProposalFair`: one vote each,
  a majority and a quorum once it succeeded, due only after it was queued; weights by square roots included).
- Validators (`PosInv`): stake is the first stake, delegations and a reward for each block produced, unless slashed, and then no block is newer than the slash.
- Partitions (`PartitionInv`): a partition that took a write has its majority still, values are bounded by the newest version, and while the network is whole the live nodes
  agree.

Sets of rows are counted with the cardinality facts of the library. What is computed by recursion over rows (totals, points, orders)
is reasoned about through `Recursion`.

Only TLC checks the following: liveness (`StartEnds`, `BattleEnds`), since fairness and ENABLED are beyond the prover; and, not
attempted yet, what the other scenes keep (`ValueKept`, `ChainTold`).

## 7. Findings

Two runs end in a counterexample to a sentence of `docs/modules`:

- a late provisioning goroutine turns a destroyed instance into a running one (04, AC-22);
- concurrent submissions of team mates are both paid (05, AC-25 and boundary conditions).

The other disagreements were met while translating and need no schedule to show; `PROJECT.json` quotes the
sentence for each. Where the model has the behaviour, its properties are stated so that they do not hide it:

- experiments: a clone loses which containers are shared, an edited container or topology keeps a combination that its creation refuses, a manifest adds a second default version, lessons take templates that are not published; automatic grouping always fails; a completed group becomes ready when an instance is reclaimed; concurrent starts create two instances; the queue is pushed and popped under different keys; `Resume` counts the instance it resumes;
- competitions: attacks are accepted on rounds to come; the attack lock expires before an execution may end; the final ranks miss the last settlement's rewards;
  cancelling a registration revives a disbanded team; a team that cancelled cannot register again; a namespace place is taken but never granted to battle groups; a challenge in use can be deleted, a rejected one's contracts not corrected, a verification's second namespace stays; a reset provisions in a namespace that is terminating;
- accounts and schools: cancelling a school kicks nobody; two refreshes with one token succeed;
- grades: an approval after an appeal locks without writing the grades; grading a submission ignores the lock;
- the engine: the snapshot stack has another length than documented, recording after a step back goes wrong, a snapshot from before a reset steps back into the other run, a restore races the end of its session, linked triggers of a failed step are lost;
- scenes: fourteen, from an action the interface cannot reach to a division by zero and a full round that never ends.

## 8. Not modelled

Within the modelled components: experiments of the simulation and mixed types, shared namespaces, checkpoint
execution; leaderboard views and freezing; several battle groups; Redis being unreachable; single sign-on
details and imports; drafts, discussions and schedules of courses; link rules as such and two sessions of one engine.

Whole components, with the reason:

- quotas, announcements: records edited by one author; the quota counter has callers that pass the wrong id, so nothing holds of it;
- transport, collectors, framework and renderers: conversion and I/O around the session core;
- twenty scenes that compute a result from one input (hashes, signatures, tries, bytecode, prices) or replay a script: one action, nothing between steps to check. Their content is arithmetic a test covers better;
- notifications, system administration, frontend and deployment: an unread counter the next recount corrects, and no state shared beyond what the services above carry;
- code generated from protocol definitions, DTOs and entities: declarations.
