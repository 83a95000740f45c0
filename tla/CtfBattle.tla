------------------------------ MODULE CtfBattle ------------------------------
(***************************************************************************)
(* The attack-defence side of backend/internal/service/ctf: the attacks    *)
(* and patches of the teams of one group, the task that advances rounds    *)
(* and settles them, the token cache and its synchronisation task, and the *)
(* end of the competition.                                                 *)
(*                                                                         *)
(* Every operation loads copies of the teams, works on another machine for *)
(* seconds, and writes absolute balances computed from the copies in one   *)
(* transaction; the attack lock in Redis covers one round, target and      *)
(* challenge.  Time is counted in phase boundaries: boundary 3r-2 ends the *)
(* attack phase of round r, 3r-1 its defence phase, 3r its settlement.     *)
(* The competition has one group, and Redis is reachable.                  *)
(***************************************************************************)
EXTENDS Integers, Sequences, FiniteSets

CONSTANTS
    Teams, NoTeam, Challenges, NoChallenge,
    Threads,      \* goroutines serving SubmitAttack and SubmitDefense
    NRounds,      \* total_rounds
    InitialToken, \* initial_token
    Base,         \* base_score of every challenge
    DecayNum, DecayDen, \* vulnerability_decay_factor
    BonusPct, BloodPct, \* attack_bonus_ratio, first_blood_bonus_ratio, in percent
    FirstPatchBonus, DefenseReward, \* first_patch_bonus, defense_reward_per_round
    EndsEarly,    \* the competition may be ended before its last round
    MaxAttacks,   \* bound: successful attacks
    MaxFaults,    \* bound: crashes, and settlements rolled back
    MaxSyncs,     \* bound: balances the synchronisation comes to; a behaviour has
                  \* faults or these
    Overlap       \* operations, tasks and the end may overlap

ASSUME NamesAssumption == /\ NoTeam \notin Teams
                          /\ NoChallenge \notin Challenges
ASSUME TokenAssumption == /\ InitialToken \in Nat /\ Base \in Nat
                          /\ DecayNum \in Nat \ {0} /\ DecayDen \in Nat \ {0}
                          /\ BonusPct \in Nat /\ BloodPct \in Nat
                          /\ FirstPatchBonus \in Nat \ {0} /\ DefenseReward \in Nat \ {0}
ASSUME BoundAssumption == /\ NRounds \in Nat \ {0} /\ MaxAttacks \in Nat
                          /\ MaxFaults \in Nat /\ MaxSyncs \in Nat /\ Overlap \in BOOLEAN
                          /\ EndsEarly \in BOOLEAN

Rounds == 1..NRounds
Phases == {"attacking", "defending", "settling", "completed"}

(* calculateAdExploitReward and the amounts SubmitAttack derives from it   *)
(* for the k-th exploit of a vulnerability, rounded to the nearest token.  *)
Percent(n, pct) == (2 * n * pct + 100) \div 200
NumPower[k \in Nat] == IF k = 0 THEN 1 ELSE DecayNum * NumPower[k - 1]
DenPower[k \in Nat] == IF k = 0 THEN 1 ELSE DecayDen * DenPower[k - 1]
Steal(k) == (2 * Base * NumPower[k - 1] + DenPower[k - 1]) \div (2 * DenPower[k - 1])
Gain(k) == Steal(k) + Percent(Steal(k), BonusPct)
             + IF k = 1 THEN Percent(Steal(k), BloodPct) ELSE 0

VARIABLES
    comp,     \* competitions.status
    ranked,   \* team.final_rank is written: the balances it was computed from
    phase,    \* ad_rounds.phase
    clock,    \* phase boundaries passed
    balance,  \* teams.token_balance
    booked,   \* balance_after of the team's newest ad_token_ledger row
    attacks,  \* successful ad_attacks: round, target, challenge
    patches,  \* accepted ad_defenses: team, challenge
    paid,     \* defence reward rows of the ledger, per round and team
    cached,   \* Redis: token balance
    locks,    \* Redis: attack locks
    th,       \* SubmitAttack and SubmitDefense in flight, with their copies
    adv,      \* RunADRoundAdvance
    sync,     \* RunTokenBalanceSync
    closer,   \* finishCompetition or Terminate
    faults

vars == <<comp, ranked, phase, clock, balance, booked, attacks, patches, paid,
          cached, locks, th, adv, sync, closer, faults>>

IdleThread == [pc |-> "idle", r |-> 0, t |-> NoTeam, g |-> NoTeam, c |-> NoChallenge,
               mine |-> 0, his |-> 0, n |-> 0, since |-> 0]
IdleAdv == [pc |-> "idle", todo |-> {}, r |-> 0, copy |-> [t \in Teams |-> 0],
            hit |-> {}, left |-> {}]
IdleSync == [pc |-> "idle", t |-> NoTeam, n |-> 0, begun |-> 0]

(* r, t, g, c: round, acting team, target (of an attack), challenge; mine, *)
(* his: the loaded balances; n: exploit count or first-patch flag; since:  *)
(* when it began.                                                          *)
Serving(pcs, targets, counts) ==
    [pc : pcs, r : Rounds, t : Teams, g : targets, c : Challenges, mine : Nat, his : Nat,
     n : counts, since : Nat]
ThreadRec == {IdleThread} \cup Serving({"lock", "exec"}, Teams, {0})
                          \cup Serving({"pay", "own", "target"}, Teams, Nat \ {0})
                          \cup Serving({"verify", "patch", "own"}, {NoTeam}, {0, 1})
AdvRec == [pc : {"idle", "list", "settle", "cache", "rank"}, todo : SUBSET (Rounds \X Phases),
           r : 0..NRounds, copy : [Teams -> Nat], hit : SUBSET Teams, left : SUBSET Teams]
SyncRec == {[IdleSync EXCEPT !.begun = k] : k \in 0..MaxSyncs} \cup
    [pc : {"read", "write"}, t : Teams, n : Nat, begun : 0..MaxSyncs]

TypeOK ==
    /\ comp \in {"running", "ended"}
    /\ ranked \in {<<>>} \cup [Teams -> Nat]
    /\ phase \in [Rounds -> Phases]
    /\ clock \in 0..(3 * NRounds)
    /\ balance \in [Teams -> Nat] /\ booked \in [Teams -> Nat]
    /\ attacks \in Seq([r : Rounds, g : Teams, c : Challenges])
    /\ patches \subseteq Teams \X Challenges
    /\ paid \in [Rounds -> [Teams -> Nat]]
    /\ cached \in [Teams -> Nat]
    /\ locks \subseteq Rounds \X Teams \X Challenges
    /\ th \in [Threads -> ThreadRec]
    /\ adv \in AdvRec /\ sync \in SyncRec
    /\ closer \in {"idle", "commit", "rank"}
    /\ faults \in 0..MaxFaults

(* The group was created (createAdGroup) and the competition has started:  *)
(* buildAdRounds gives every round the phase "attacking".                  *)
Init ==
    /\ comp = "running" /\ ranked = <<>>
    /\ phase = [r \in Rounds |-> "attacking"]
    /\ clock = 0
    /\ balance = [t \in Teams |-> InitialToken]
    /\ booked = [t \in Teams |-> InitialToken]
    /\ attacks = <<>> /\ patches = {}
    /\ paid = [r \in Rounds |-> [t \in Teams |-> 0]]
    /\ cached = [t \in Teams |-> InitialToken]
    /\ locks = {}
    /\ th = [s \in Threads |-> IdleThread]
    /\ adv = IdleAdv /\ sync = IdleSync /\ closer = "idle"
    /\ faults = 0

season == <<comp, ranked, phase, clock>>
tokens == <<balance, booked>>
records == <<attacks, patches, paid>>
tasks == <<adv, sync, closer, faults>>

At(s, pc) == th[s].pc = pc
Goto(s, pc) == th' = [th EXCEPT ![s].pc = pc]
Finish(s) == th' = [th EXCEPT ![s] = IdleThread]

(* Nothing is in progress.  With Overlap = FALSE every operation and every *)
(* task waits for this.                                                    *)
Quiet == /\ \A s \in Threads : At(s, "idle")
         /\ adv = IdleAdv /\ sync.pc = "idle" /\ closer = "idle"
MayStart == Overlap \/ Quiet

-----------------------------------------------------------------------------
(* SubmitAttack.                                                           *)

HasAcceptedPatch(t, c) == <<t, c>> \in patches
CountSuccessful(c) == Cardinality({k \in 1..Len(attacks) : attacks[k].c = c})

Load(s, pc, r, t, g, c) ==
    th' = [th EXCEPT ![s] =
             [pc |-> pc, r |-> r, t |-> t, g |-> g, c |-> c, mine |-> balance[t],
              his |-> IF g = NoTeam THEN 0 ELSE balance[g], n |-> 0, since |-> clock]]

StartAttack_patched(s, r, a, g, c) ==  \* mutant
    /\ At(s, "idle") /\ MayStart
    /\ phase[r] = "attacking" /\ a # g
    /\ Load(s, "lock", r, a, g, c)
    /\ UNCHANGED <<season, tokens, records, cached, locks, tasks>>

(* Any round that says "attacking" is accepted, the ones to come included. *)
StartAttack(s, r, a, g, c) ==
    /\ At(s, "idle") /\ MayStart
    /\ phase[r] = "attacking" /\ a # g /\ ~HasAcceptedPatch(g, c)
    /\ Load(s, "lock", r, a, g, c)
    /\ UNCHANGED <<season, tokens, records, cached, locks, tasks>>

LockKey(s) == <<th[s].r, th[s].g, th[s].c>>

AcquireLock(s) ==
    /\ At(s, "lock")
    /\ IF LockKey(s) \in locks
       THEN Finish(s) /\ UNCHANGED locks
       ELSE Goto(s, "exec") /\ locks' = locks \cup {LockKey(s)}
    /\ UNCHANGED <<season, tokens, records, cached, tasks>>

(* The lock is deleted whoever holds it, and expires after 45 seconds,     *)
(* which an execution may outlast.                                         *)
Release(s) == Finish(s) /\ locks' = locks \ {LockKey(s)}
LockExpires ==
    /\ \E l \in locks : locks' = locks \ {l}
    /\ UNCHANGED <<season, tokens, records, cached, th, tasks>>

(* The execution or a write fails, or the assertions do not hold.          *)
AttackFails(s) ==
    /\ At(s, "exec") \/ At(s, "pay")
    /\ Release(s)
    /\ UNCHANGED <<season, tokens, records, cached, tasks>>

AttackLands(s) ==
    /\ At(s, "exec")
    /\ th' = [th EXCEPT ![s].pc = "pay", ![s].n = CountSuccessful(th[s].c) + 1]
    /\ UNCHANGED <<season, tokens, records, cached, locks, tasks>>

(* The balances after: the target never falls below zero.                  *)
MineAfter(s) ==
    th[s].mine + CASE th[s].g # NoTeam -> Gain(th[s].n)
                   [] OTHER -> th[s].n * FirstPatchBonus
HisAfter_negative(s) == th[s].his - Steal(th[s].n)  \* mutant
HisAfter(s) == IF th[s].his < Steal(th[s].n) THEN 0 ELSE th[s].his - Steal(th[s].n)

PayAttack(s) ==
    LET after == [x \in Teams |-> CASE x = th[s].t -> MineAfter(s)
                                    [] x = th[s].g -> HisAfter(s)
                                    [] OTHER -> 0]
        touched == {th[s].t, th[s].g}
    IN  /\ At(s, "pay")
        /\ Len(attacks) < MaxAttacks
        /\ attacks' = Append(attacks, [r |-> th[s].r, g |-> th[s].g, c |-> th[s].c])
        /\ balance' = [x \in Teams |-> IF x \in touched THEN after[x] ELSE balance[x]]
        /\ booked' = [x \in Teams |-> IF x \in touched THEN after[x] ELSE booked[x]]
        /\ Goto(s, "own")
        /\ UNCHANGED <<season, patches, paid, cached, locks, tasks>>

(* The token caches of the acting team and of the target.                  *)
CacheOwn(s) ==
    /\ At(s, "own")
    /\ cached' = [cached EXCEPT ![th[s].t] = MineAfter(s)]
    /\ IF th[s].g = NoTeam THEN Finish(s) ELSE Goto(s, "target")
    /\ UNCHANGED <<season, tokens, records, locks, tasks>>

CacheTarget(s) ==
    /\ At(s, "target")
    /\ cached' = [cached EXCEPT ![th[s].g] = HisAfter(s)]
    /\ Release(s)
    /\ UNCHANGED <<season, tokens, records, tasks>>

-----------------------------------------------------------------------------
(* SubmitDefense.                                                          *)

StartDefense(s, r, t, c) ==
    /\ At(s, "idle") /\ MayStart
    /\ phase[r] = "defending" /\ ~HasAcceptedPatch(t, c)
    /\ Load(s, "verify", r, t, NoTeam, c)
    /\ UNCHANGED <<season, tokens, records, cached, locks, tasks>>

(* The verification fails or rejects the patch, or the write fails.        *)
PatchFails(s) ==
    /\ At(s, "verify") \/ At(s, "patch")
    /\ Finish(s)
    /\ UNCHANGED <<season, tokens, records, cached, locks, tasks>>

PatchVerified(s) ==
    /\ At(s, "verify")
    /\ th' = [th EXCEPT ![s].pc = "patch",
                        ![s].n = IF \E t \in Teams : HasAcceptedPatch(t, th[s].c) THEN 0 ELSE 1]
    /\ UNCHANGED <<season, tokens, records, cached, locks, tasks>>

CommitPatch(s) ==
    /\ At(s, "patch")
    /\ patches' = patches \cup {<<th[s].t, th[s].c>>}
    /\ balance' = [balance EXCEPT ![th[s].t] = MineAfter(s)]
    /\ booked' = IF th[s].n = 1 THEN [booked EXCEPT ![th[s].t] = MineAfter(s)] ELSE booked
    /\ Goto(s, "own")
    /\ UNCHANGED <<season, attacks, paid, cached, locks, tasks>>

-----------------------------------------------------------------------------
(* RunADRoundAdvance.                                                      *)

(* ListActivePhases; rows come in any order.                               *)
EndOf_start(r) == CASE phase[r] = "attacking" -> 3 * r - 3  \* mutant
                    [] phase[r] = "defending" -> 3 * r - 1
                    [] phase[r] = "settling" -> 3 * r
EndOf(r) == CASE phase[r] = "attacking" -> 3 * r - 2
              [] phase[r] = "defending" -> 3 * r - 1
              [] phase[r] = "settling" -> 3 * r
Due(r) == phase[r] # "completed" /\ clock >= EndOf(r)

ListDue ==
    /\ adv = IdleAdv /\ MayStart
    /\ \E r \in Rounds : Due(r)
    /\ adv' = [IdleAdv EXCEPT !.pc = "list",
                              !.todo = {<<r, phase[r]>> : r \in {x \in Rounds : Due(x)}}]
    /\ UNCHANGED <<season, tokens, records, cached, locks, th, sync, closer, faults>>

(* The rest of the list is done before the task ends.                      *)
Back(a) == IF a.todo = {} THEN IdleAdv ELSE [IdleAdv EXCEPT !.pc = "list", !.todo = a.todo]
Taken(r, p) == [adv EXCEPT !.todo = @ \ {<<r, p>>}]

(* advanceRoundPhase acts on the listed phase, without reading it again.   *)
AdvancePhase(r) ==
    /\ adv.pc = "list"
    /\ \E p \in {"attacking", "defending"} :
          /\ <<r, p>> \in adv.todo
          /\ phase' = [phase EXCEPT ![r] = IF p = "attacking" THEN "defending" ELSE "settling"]
          /\ adv' = Back(Taken(r, p))
    /\ UNCHANGED <<comp, ranked, clock, tokens, records, cached, locks, th, sync,
                   closer, faults>>

(* completeRoundSettlement: the teams and the attacks are read ...         *)
Attacked(r) == {attacks[k].g : k \in {x \in 1..Len(attacks) : attacks[x].r = r}}

ReadRound_any(r) ==  \* mutant: the attacks of every round
    /\ adv.pc = "list"
    /\ <<r, "settling">> \in adv.todo
    /\ adv' = [Taken(r, "settling") EXCEPT !.pc = "settle", !.r = r, !.copy = balance,
                                           !.hit = UNION {Attacked(x) : x \in Rounds}]
    /\ UNCHANGED <<season, tokens, records, cached, locks, th, sync, closer, faults>>

ReadRound(r) ==
    /\ adv.pc = "list"
    /\ <<r, "settling">> \in adv.todo
    /\ adv' = [Taken(r, "settling") EXCEPT !.pc = "settle", !.r = r, !.copy = balance,
                                           !.hit = Attacked(r)]
    /\ UNCHANGED <<season, tokens, records, cached, locks, th, sync, closer, faults>>

(* ... and the transaction pays the teams nobody broke into, completes the *)
(* round, and opens the next one or ends the competition.                  *)
Rewarded(t) == IF t \in adv.hit THEN adv.copy[t] ELSE adv.copy[t] + DefenseReward
Settle(r, finished) ==
    LET free == Teams \ adv.hit
    IN  /\ adv.pc = "settle"
        /\ balance' = [t \in Teams |-> IF t \in free THEN Rewarded(t) ELSE balance[t]]
        /\ booked' = [t \in Teams |-> IF t \in free THEN Rewarded(t) ELSE booked[t]]
        /\ paid' = [paid EXCEPT ![r] = [t \in Teams |-> @[t] + IF t \in free THEN 1 ELSE 0]]
        /\ phase' = [x \in Rounds |-> CASE x = r -> "completed"
                                        [] x = r + 1 -> "attacking"
                                        [] OTHER -> phase[x]]
        /\ comp' = IF finished THEN "ended" ELSE comp
        /\ adv' = IF finished THEN [adv EXCEPT !.pc = "rank"]
                  ELSE [adv EXCEPT !.pc = "cache", !.left = Teams]
        /\ UNCHANGED <<ranked, clock, attacks, patches, cached, locks, th, sync, closer, faults>>
SettleRound_open == Settle(adv.r, FALSE)  \* mutant: the group is not seen finished
SettleRound == Settle(adv.r, adv.r = NRounds)

(* The transaction rolls back; the round is listed again next time.        *)
SettleFails ==
    /\ adv.pc = "settle"
    /\ faults < MaxFaults /\ sync.begun = 0
    /\ faults' = faults + 1
    /\ adv' = Back(adv)
    /\ UNCHANGED <<season, tokens, records, cached, locks, th, sync, closer>>

CacheTeam_copy(t) ==  \* mutant: the loaded balance, without the reward
    /\ adv.pc = "cache" /\ t \in adv.left
    /\ cached' = [cached EXCEPT ![t] = adv.copy[t]]
    /\ adv' = IF adv.left = {t} THEN Back(adv) ELSE [adv EXCEPT !.left = @ \ {t}]
    /\ UNCHANGED <<season, tokens, records, locks, th, sync, closer, faults>>

CacheTeam(t) ==
    /\ adv.pc = "cache" /\ t \in adv.left
    /\ cached' = [cached EXCEPT ![t] = Rewarded(t)]
    /\ adv' = IF adv.left = {t} THEN Back(adv) ELSE [adv EXCEPT !.left = @ \ {t}]
    /\ UNCHANGED <<season, tokens, records, locks, th, sync, closer, faults>>

(* The end: the runtimes are freed, and if that worked the final ranks are *)
(* written; buildLeaderboardRankings prefers the cached balances.          *)
FinalRanks == ranked' = cached \/ UNCHANGED ranked
RankAfterLastRound ==
    /\ adv.pc = "rank"
    /\ FinalRanks
    /\ adv' = Back(adv)
    /\ UNCHANGED <<comp, phase, clock, tokens, records, cached, locks, th, sync, closer, faults>>

AdvanceStep ==
    \/ ListDue \/ SettleRound \/ RankAfterLastRound
    \/ \E r \in Rounds : AdvancePhase(r) \/ ReadRound(r)
    \/ \E t \in Teams : CacheTeam(t)

-----------------------------------------------------------------------------
(* RunTokenBalanceSync: the teams were loaded before the cache is read,    *)
(* and a difference overwrites the balance.                                *)

SyncDone == [IdleSync EXCEPT !.begun = sync.begun]

SyncLoad(t) ==
    /\ sync.pc = "idle" /\ MayStart
    /\ sync.begun < MaxSyncs /\ faults = 0
    /\ comp = "running"
    /\ sync' = [pc |-> "read", t |-> t, n |-> balance[t], begun |-> sync.begun + 1]
    /\ UNCHANGED <<season, tokens, records, cached, locks, th, adv, closer, faults>>

SyncRead ==
    /\ sync.pc = "read"
    /\ sync' = IF cached[sync.t] = sync.n THEN SyncDone
               ELSE [sync EXCEPT !.pc = "write", !.n = cached[sync.t]]
    /\ UNCHANGED <<season, tokens, records, cached, locks, th, adv, closer, faults>>

SyncWrite ==
    /\ sync.pc = "write"
    /\ balance' = [balance EXCEPT ![sync.t] = sync.n]
    /\ sync' = SyncDone
    /\ UNCHANGED <<season, booked, records, cached, locks, th, adv, closer, faults>>

-----------------------------------------------------------------------------
(* finishCompetition at the end time, and Terminate.                       *)

BeginClose ==
    /\ EndsEarly
    /\ closer = "idle" /\ MayStart
    /\ comp = "running"
    /\ closer' = "commit"
    /\ UNCHANGED <<season, tokens, records, cached, locks, th, adv, sync, faults>>

CommitClose ==
    /\ closer = "commit"
    /\ comp' = "ended"
    /\ phase' = [r \in Rounds |-> "completed"]
    /\ closer' = "rank"
    /\ UNCHANGED <<ranked, clock, tokens, records, cached, locks, th, adv, sync, faults>>

RankAfterClose ==
    /\ closer = "rank"
    /\ FinalRanks
    /\ closer' = "idle"
    /\ UNCHANGED <<comp, phase, clock, tokens, records, cached, locks, th, adv, sync, faults>>

-----------------------------------------------------------------------------
(* Time, the process, and the specification.                               *)

(* The task, which runs every ten seconds, keeps up with the phases, which *)
(* last minutes; no attack or verification, which end by an HTTP timeout   *)
(* of 90 seconds, lasts for a whole phase, and no team's synchronisation,  *)
(* two calls with client timeouts, is cut by a boundary.                   *)
Boundary ==
    /\ clock < 3 * NRounds
    /\ adv = IdleAdv /\ sync.pc = "idle" /\ ~\E r \in Rounds : Due(r)
    /\ \A s \in Threads : At(s, "idle") \/ th[s].since = clock
    /\ clock' = clock + 1
    /\ UNCHANGED <<comp, ranked, phase, tokens, records, cached, locks, th, tasks>>

Crash ==
    /\ faults < MaxFaults /\ sync.begun = 0
    /\ faults' = faults + 1
    /\ th' = [s \in Threads |-> IdleThread]
    /\ adv' = IdleAdv /\ sync' = IdleSync /\ closer' = "idle"
    /\ UNCHANGED <<season, tokens, records, cached, locks>>

OperationStep(s) ==
    \/ AcquireLock(s) \/ AttackFails(s) \/ AttackLands(s) \/ PayAttack(s)
    \/ CacheOwn(s) \/ CacheTarget(s)
    \/ PatchFails(s) \/ PatchVerified(s) \/ CommitPatch(s)

Request(s) ==
    \E r \in Rounds, t \in Teams, c \in Challenges :
       StartDefense(s, r, t, c) \/ \E g \in Teams : StartAttack(s, r, t, g, c)

Next ==
    \/ \E s \in Threads : Request(s) \/ OperationStep(s)
    \/ LockExpires
    \/ AdvanceStep \/ SettleFails
    \/ (\E t \in Teams : SyncLoad(t)) \/ SyncRead \/ SyncWrite
    \/ BeginClose \/ CommitClose \/ RankAfterClose
    \/ Boundary \/ Crash

Spec == Init /\ [][Next]_vars

(* The task is started every ten seconds, time passes, and an operation or *)
(* a synchronisation in flight ends.                                       *)
FairSpec == /\ Spec
            /\ WF_vars(AdvanceStep) /\ SF_vars(Boundary) /\ WF_vars(SyncRead \/ SyncWrite)
            /\ \A s \in Threads : WF_vars(OperationStep(s))

-----------------------------------------------------------------------------
(* Properties that hold however operations overlap.                        *)

(* AC-33: when a round is over every team was broken into in that round or *)
(* was paid its defence reward, and paid once, although attacks, rolled    *)
(* back settlements and crashes interleave with the settlement.            *)
DefenseRewardEarned ==
    \A r \in Rounds, t \in Teams :
       /\ paid[r][t] <= IF t \in Attacked(r) THEN 0 ELSE 1
       /\ comp = "running" /\ phase[r] = "completed" => paid[r][t] = 1 \/ t \in Attacked(r)

(* BR-24: while the competition runs, rounds follow one another: a round   *)
(* leaves its attack phase only when the earlier ones are completed, and   *)
(* no phase comes back.                                                    *)
Order(p) == CASE p = "attacking" -> 1 [] p = "defending" -> 2
              [] p = "settling" -> 3 [] OTHER -> 4
RoundsInTurn ==
    [][comp' = "running" => \A r \in Rounds :
         /\ Order(phase'[r]) >= Order(phase[r])
         /\ phase'[r] # "attacking" => \A q \in 1..(r - 1) : phase'[q] = "completed"]_vars

(* AC-27: the competition comes to its end, also after crashes and failed  *)
(* settlements.                                                            *)
BattleEnds == <>(comp = "ended")

-----------------------------------------------------------------------------
(* Properties of operations that do not overlap.                           *)

(* The balance, the cache and the balance the newest ledger row names are  *)
(* the same, when nothing is in progress.                                  *)
BalancesAgree ==
    comp = "running" /\ Quiet /\ faults = 0 => balance = cached /\ balance = booked

(* What CtfTokens promises.                                                *)
Tokens == INSTANCE CtfTokens WITH
    exploits <- [c \in Challenges |-> CountSuccessful(c)],
    hits <- {<<attacks[k].r, attacks[k].g>> : k \in 1..Len(attacks)},
    patched <- patches,
    settled <- {r \in Rounds : phase[r] = "completed"},
    Initial <- InitialToken, FirstPatch <- FirstPatchBonus, Reward <- DefenseReward
ImplementsTokens == Tokens!Spec
=============================================================================
