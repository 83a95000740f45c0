--------------------------- MODULE CtfBattleProofs ---------------------------
(***************************************************************************)
(* What holds of CtfBattle for any teams, challenges, goroutines, rounds   *)
(* and amounts.                                                            *)
(***************************************************************************)
EXTENDS CtfBattle, Recursion, SequenceTheorems, TLAPS

(* Amounts are natural numbers.                                            *)
LEMMA PercentType == ASSUME NEW n \in Nat, NEW pct \in Nat PROVE Percent(n, pct) \in Nat
  <1>1. n * pct \in Nat
    OBVIOUS
  <1>2. 2 * n * pct + 100 \in Nat
    <2>1. 2 * n * pct = 2 * (n * pct)
      OBVIOUS
    <2> QED BY <1>1, <2>1
  <1> QED BY <1>2 DEF Percent

LEMMA AmountType ==
    ASSUME NEW k \in Nat \ {0}
    PROVE  Steal(k) \in Nat /\ Gain(k) \in Nat
  <1>1. NumPower \in [Nat -> Nat \ {0}] /\ DenPower \in [Nat -> Nat \ {0}]
    BY Powers, TokenAssumption DEF NumPower, DenPower
  <1>2. NumPower[k - 1] \in Nat /\ DenPower[k - 1] \in Nat \ {0}
    BY <1>1
  <1>3. Steal(k) \in Nat
    <2> DEFINE p == NumPower[k - 1]
               q == DenPower[k - 1]
    <2>1. 2 * Base * p \in Nat
      <3>1. Base * p \in Nat
        BY <1>2, TokenAssumption
      <3>2. 2 * Base * p = 2 * (Base * p)
        BY <1>2, TokenAssumption
      <3> QED BY <3>1, <3>2
    <2>2. (2 * Base * p + q) \div (2 * q) \in Nat
      BY <1>2, <2>1
    <2> QED BY <2>2 DEF Steal
  <1>4. Percent(Steal(k), BonusPct) \in Nat /\ Percent(Steal(k), BloodPct) \in Nat
    BY <1>3, PercentType, TokenAssumption
  <1> QED BY <1>3, <1>4 DEF Gain

-----------------------------------------------------------------------------
(* Types.                                                                  *)

(* What a thread in flight has loaded.                                     *)
LEMMA Loaded ==
    ASSUME TypeOK, NEW s \in Threads, ~At(s, "idle")
    PROVE  /\ th[s] # IdleThread
           /\ th[s].r \in Rounds /\ th[s].t \in Teams /\ th[s].c \in Challenges
           /\ th[s].mine \in Nat /\ th[s].his \in Nat /\ th[s].since \in Nat
           /\ \/ th[s] \in Serving({"lock", "exec"}, Teams, {0})
              \/ th[s] \in Serving({"pay", "own", "target"}, Teams, Nat \ {0})
              \/ th[s] \in Serving({"verify", "patch", "own"}, {NoTeam}, {0, 1})
  <1>1. th[s] \in ThreadRec /\ th[s] # IdleThread
    BY DEF TypeOK, At, IdleThread
  <1> QED BY <1>1 DEF ThreadRec, Serving

LEMMA IdleIs == ASSUME TypeOK, NEW s \in Threads, At(s, "idle") PROVE th[s] = IdleThread
  BY DEF TypeOK, At, ThreadRec, Serving

(* The balances it writes.                                                 *)
LEMMA AfterType ==
    ASSUME TypeOK, NEW s \in Threads, th[s].pc \in {"pay", "own", "target", "patch"}
    PROVE  /\ MineAfter(s) \in Nat
           /\ th[s].g # NoTeam => th[s].g \in Teams /\ HisAfter(s) \in Nat
  <1>1. ~At(s, "idle")
    BY DEF At
  <1>2. th[s].mine \in Nat /\ th[s].his \in Nat
    BY <1>1, Loaded
  <1>3. CASE th[s] \in Serving({"pay", "own", "target"}, Teams, Nat \ {0})
    <2>1. th[s].n \in Nat \ {0} /\ th[s].g \in Teams /\ th[s].g # NoTeam
      BY <1>3, NamesAssumption DEF Serving
    <2>2. Steal(th[s].n) \in Nat /\ Gain(th[s].n) \in Nat
      BY <2>1, AmountType
    <2> QED BY <1>2, <2>1, <2>2 DEF MineAfter, HisAfter
  <1>4. CASE th[s] \in Serving({"verify", "patch", "own"}, {NoTeam}, {0, 1})
    <2>1. th[s].n \in Nat /\ th[s].g = NoTeam
      BY <1>4 DEF Serving
    <2>2. th[s].n * FirstPatchBonus \in Nat
      BY <2>1, TokenAssumption
    <2> QED BY <1>2, <2>1, <2>2 DEF MineAfter
  <1> QED BY <1>1, <1>3, <1>4, Loaded DEF Serving

LEMMA GotoIs ==
    ASSUME TypeOK, NEW s \in Threads, ~At(s, "idle"), NEW pc, Goto(s, pc)
    PROVE  /\ th'[s].pc = pc /\ \A r \in Threads : r # s => th'[r] = th[r]
           /\ th'[s].r = th[s].r /\ th'[s].t = th[s].t /\ th'[s].g = th[s].g
           /\ th'[s].c = th[s].c /\ th'[s].mine = th[s].mine /\ th'[s].his = th[s].his
           /\ th'[s].n = th[s].n /\ th'[s].since = th[s].since
  <1>1. th[s] \in ThreadRec /\ th[s] # IdleThread
    BY Loaded DEF TypeOK
  <1> QED BY <1>1 DEF Goto, ThreadRec, Serving, TypeOK

LEMMA FinishType ==
    ASSUME TypeOK, NEW s \in Threads, Finish(s)
    PROVE  th' \in [Threads -> ThreadRec]
  BY DEF TypeOK, Finish, ThreadRec

LEMMA OperationType ==
    ASSUME TypeOK, NEW s \in Threads, OperationStep(s)
    PROVE  TypeOK'
  <1> USE DEF season, tokens, records, tasks
  <1>1. ~At(s, "idle")
    BY DEF OperationStep, AcquireLock, AttackFails, AttackLands, PayAttack, CacheOwn,
       CacheTarget, PatchFails, PatchVerified, CommitPatch, At
  <1>2. /\ th[s].r \in Rounds /\ th[s].t \in Teams /\ th[s].c \in Challenges
        /\ \/ th[s] \in Serving({"lock", "exec"}, Teams, {0})
           \/ th[s] \in Serving({"pay", "own", "target"}, Teams, Nat \ {0})
           \/ th[s] \in Serving({"verify", "patch", "own"}, {NoTeam}, {0, 1})
    BY <1>1, Loaded
  <1>3. ASSUME NEW pc, [th[s] EXCEPT !.pc = pc] \in ThreadRec, Goto(s, pc)
        PROVE  th' \in [Threads -> ThreadRec]
    BY <1>3 DEF Goto, TypeOK
  <1>4. CASE AcquireLock(s)
    <2>1. th[s] \in Serving({"lock", "exec"}, Teams, {0})
      BY <1>2, <1>4 DEF AcquireLock, At, Serving
    <2>2. [th[s] EXCEPT !.pc = "exec"] \in ThreadRec
      BY <2>1 DEF Serving, ThreadRec
    <2>3. LockKey(s) \in Rounds \X Teams \X Challenges
      BY <1>2, <2>1 DEF Serving, LockKey
    <2>4. th' \in [Threads -> ThreadRec] /\ locks' \subseteq Rounds \X Teams \X Challenges
      BY <1>3, <1>4, <2>2, <2>3, FinishType DEF AcquireLock, TypeOK
    <2> QED BY <1>4, <2>4 DEF AcquireLock, TypeOK
  <1>5. CASE AttackFails(s)
    <2>1. th' \in [Threads -> ThreadRec]
      BY <1>5, FinishType DEF AttackFails, Release
    <2> QED BY <1>5, <2>1 DEF AttackFails, Release, TypeOK
  <1>6. CASE AttackLands(s)
    <2>1. th[s] \in Serving({"lock", "exec"}, Teams, {0})
      BY <1>2, <1>6 DEF AttackLands, At, Serving
    <2>2. CountSuccessful(th[s].c) \in Nat
      <3>1. Len(attacks) \in Nat
        BY DEF TypeOK
      <3>2. IsFiniteSet(1..Len(attacks))
        BY <3>1, FS_Interval
      <3>3. IsFiniteSet({k \in 1..Len(attacks) : attacks[k].c = th[s].c})
        BY <3>2, FS_Subset
      <3> QED BY <3>3, FS_CardinalityType DEF CountSuccessful
    <2> DEFINE n == CountSuccessful(th[s].c) + 1
    <2>3. n \in Nat \ {0}
      BY <2>2
    <2>4. th' = [th EXCEPT ![s] = [th[s] EXCEPT !.pc = "pay", !.n = n]]
      BY <1>6 DEF AttackLands
    <2> HIDE DEF n
    <2>5. [th[s] EXCEPT !.pc = "pay", !.n = n] \in ThreadRec
      BY <2>1, <2>3 DEF Serving, ThreadRec
    <2>6. th' \in [Threads -> ThreadRec]
      BY <2>4, <2>5 DEF TypeOK
    <2> QED BY <1>6, <2>6 DEF AttackLands, TypeOK
  <1>7. CASE PayAttack(s)
    <2>1. th[s] \in Serving({"pay", "own", "target"}, Teams, Nat \ {0}) /\ th[s].g \in Teams
      BY <1>2, <1>7 DEF PayAttack, At, Serving
    <2>2. [th[s] EXCEPT !.pc = "own"] \in ThreadRec
      BY <2>1 DEF Serving, ThreadRec
    <2>3. th' \in [Threads -> ThreadRec]
      BY <1>3, <1>7, <2>2 DEF PayAttack
    <2>4. MineAfter(s) \in Nat /\ HisAfter(s) \in Nat
      BY <1>7, <2>1, AfterType, NamesAssumption DEF PayAttack, At
    <2> DEFINE after == [x \in Teams |-> CASE x = th[s].t -> MineAfter(s)
                                           [] x = th[s].g -> HisAfter(s)
                                           [] OTHER -> 0]
               touched == {th[s].t, th[s].g}
    <2>5. after \in [Teams -> Nat]
      <3>1. ASSUME NEW x \in Teams PROVE after[x] \in Nat
        <4>1. CASE x = th[s].t
          BY <2>4, <4>1
        <4>2. CASE x # th[s].t /\ x = th[s].g
          BY <2>4, <4>2
        <4>3. CASE x # th[s].t /\ x # th[s].g
          BY <4>3
        <4> QED BY <4>1, <4>2, <4>3
      <3> QED BY <3>1
    <2>6. /\ balance' = [x \in Teams |-> IF x \in touched THEN after[x] ELSE balance[x]]
          /\ booked' = [x \in Teams |-> IF x \in touched THEN after[x] ELSE booked[x]]
      BY <1>7 DEF PayAttack
    <2> HIDE DEF after, touched
    <2>7. balance' \in [Teams -> Nat] /\ booked' \in [Teams -> Nat]
      BY <2>5, <2>6 DEF TypeOK
    <2>8. attacks' \in Seq([r : Rounds, g : Teams, c : Challenges])
      BY <1>2, <1>7, <2>1 DEF PayAttack, TypeOK
    <2> QED BY <1>7, <2>3, <2>7, <2>8 DEF PayAttack, TypeOK
  <1>8. CASE CacheOwn(s)
    <2>1. MineAfter(s) \in Nat
      BY <1>8, AfterType DEF CacheOwn, At
    <2>2. th[s].g # NoTeam => [th[s] EXCEPT !.pc = "target"] \in ThreadRec
      <3> SUFFICES ASSUME th[s].g # NoTeam PROVE [th[s] EXCEPT !.pc = "target"] \in ThreadRec
        OBVIOUS
      <3>1. th[s] \in Serving({"pay", "own", "target"}, Teams, Nat \ {0})
        BY <1>2, <1>8 DEF CacheOwn, At, Serving
      <3> QED BY <3>1 DEF Serving, ThreadRec
    <2>3. th' \in [Threads -> ThreadRec]
      BY <1>3, <1>8, <2>2, FinishType DEF CacheOwn
    <2>4. cached' \in [Teams -> Nat]
      BY <1>8, <2>1 DEF CacheOwn, TypeOK
    <2> QED BY <1>8, <2>3, <2>4 DEF CacheOwn, TypeOK
  <1>9. CASE CacheTarget(s)
    <2>1. th[s] \in Serving({"pay", "own", "target"}, Teams, Nat \ {0}) /\ th[s].g \in Teams
      BY <1>2, <1>9 DEF CacheTarget, At, Serving
    <2>2. HisAfter(s) \in Nat
      BY <1>9, <2>1, AfterType, NamesAssumption DEF CacheTarget, At
    <2>3. th' \in [Threads -> ThreadRec]
      BY <1>9, FinishType DEF CacheTarget, Release
    <2>4. cached' \in [Teams -> Nat]
      BY <1>9, <2>2 DEF CacheTarget, TypeOK
    <2> QED BY <1>9, <2>3, <2>4 DEF CacheTarget, Release, TypeOK
  <1>10. CASE PatchFails(s)
    <2>1. th' \in [Threads -> ThreadRec]
      BY <1>10, FinishType DEF PatchFails
    <2> QED BY <1>10, <2>1 DEF PatchFails, TypeOK
  <1>11. CASE PatchVerified(s)
    <2>1. th[s] \in Serving({"verify", "patch", "own"}, {NoTeam}, {0, 1})
      BY <1>2, <1>11 DEF PatchVerified, At, Serving
    <2> DEFINE n == IF \E t \in Teams : HasAcceptedPatch(t, th[s].c) THEN 0 ELSE 1
    <2>2. n \in {0, 1}
      OBVIOUS
    <2>3. th' = [th EXCEPT ![s] = [th[s] EXCEPT !.pc = "patch", !.n = n]]
      BY <1>11 DEF PatchVerified
    <2> HIDE DEF n
    <2>4. [th[s] EXCEPT !.pc = "patch", !.n = n] \in ThreadRec
      BY <2>1, <2>2 DEF Serving, ThreadRec
    <2>5. th' \in [Threads -> ThreadRec]
      BY <2>3, <2>4 DEF TypeOK
    <2> QED BY <1>11, <2>5 DEF PatchVerified, TypeOK
  <1>12. CASE CommitPatch(s)
    <2>1. th[s] \in Serving({"verify", "patch", "own"}, {NoTeam}, {0, 1})
      BY <1>2, <1>12 DEF CommitPatch, At, Serving
    <2>2. [th[s] EXCEPT !.pc = "own"] \in ThreadRec
      BY <2>1 DEF Serving, ThreadRec
    <2>3. th' \in [Threads -> ThreadRec]
      BY <1>3, <1>12, <2>2 DEF CommitPatch
    <2>4. MineAfter(s) \in Nat
      BY <1>12, AfterType DEF CommitPatch, At
    <2>5. /\ balance' \in [Teams -> Nat] /\ booked' \in [Teams -> Nat]
          /\ patches' \subseteq Teams \X Challenges
      BY <1>2, <1>12, <2>4 DEF CommitPatch, TypeOK
    <2> QED BY <1>12, <2>3, <2>5 DEF CommitPatch, TypeOK
  <1> QED BY <1>4, <1>5, <1>6, <1>7, <1>8, <1>9, <1>10, <1>11, <1>12 DEF OperationStep

LEMMA AttackRows ==
    ASSUME TypeOK
    PROVE  \A k \in 1..Len(attacks) :
              attacks[k].r \in Rounds /\ attacks[k].g \in Teams /\ attacks[k].c \in Challenges
  <1> DEFINE AttackRec == [r : Rounds, g : Teams, c : Challenges]
  <1>1. attacks \in Seq(AttackRec)
    BY DEF TypeOK
  <1>2. \A x \in AttackRec : x.r \in Rounds /\ x.g \in Teams /\ x.c \in Challenges
    OBVIOUS
  <1> HIDE DEF AttackRec
  <1> QED BY <1>1, <1>2

LEMMA AdvanceType ==
    ASSUME TypeOK, AdvanceStep
    PROVE  TypeOK'
  <1> USE DEF season, tokens, records, tasks
  <1>1. adv \in AdvRec /\ NRounds \in Nat /\ DefenseReward \in Nat
    BY BoundAssumption, TokenAssumption DEF TypeOK
  <1>2. IdleAdv \in AdvRec
    BY <1>1 DEF IdleAdv, AdvRec
  <1>3. ASSUME NEW a, a.todo \in SUBSET (Rounds \X Phases)
        PROVE  Back(a) \in AdvRec
    <2>1. [IdleAdv EXCEPT !.pc = "list", !.todo = a.todo] \in AdvRec
      BY <1>2, <1>3 DEF IdleAdv, AdvRec
    <2> QED BY <1>2, <2>1 DEF Back
  <1>4. ASSUME NEW r, NEW p PROVE Taken(r, p) \in AdvRec
    BY <1>1 DEF Taken, AdvRec
  <1>5. ASSUME NEW t \in Teams, NEW r PROVE Rewarded(t) \in Nat
    BY <1>1 DEF Rewarded, AdvRec
  <1>6. CASE ListDue
    <2>1. {<<r, phase[r]>> : r \in {x \in Rounds : Due(x)}} \in SUBSET (Rounds \X Phases)
      BY DEF TypeOK
    <2>2. adv' \in AdvRec
      BY <1>2, <1>6, <2>1 DEF ListDue, IdleAdv, AdvRec
    <2> QED BY <1>6, <2>2 DEF ListDue, TypeOK
  <1>7. ASSUME NEW r \in Rounds, AdvancePhase(r) PROVE TypeOK'
    <2>1. PICK p \in {"attacking", "defending"} :
             /\ phase' = [phase EXCEPT ![r] = IF p = "attacking" THEN "defending" ELSE "settling"]
             /\ adv' = Back(Taken(r, p))
      BY <1>7 DEF AdvancePhase
    <2>2. adv' \in AdvRec
      <3>1. Taken(r, p).todo \in SUBSET (Rounds \X Phases)
        BY <1>4 DEF AdvRec
      <3> QED BY <1>3, <2>1, <3>1
    <2>3. phase' \in [Rounds -> Phases]
      BY <2>1 DEF TypeOK, Phases
    <2> QED BY <1>7, <2>2, <2>3 DEF AdvancePhase, TypeOK
  <1>8. ASSUME NEW r \in Rounds, ReadRound(r) PROVE TypeOK'
    <2>1. Attacked(r) \in SUBSET Teams
      <3>1. \A k \in 1..Len(attacks) : attacks[k].g \in Teams
        BY AttackRows
      <3> QED BY <3>1 DEF Attacked
    <2>2. adv' \in AdvRec
      <3>1. Taken(r, "settling") \in AdvRec /\ r \in 0..NRounds
        BY <1>1, <1>4 DEF Rounds
      <3>2. balance \in [Teams -> Nat]
        BY DEF TypeOK
      <3> QED BY <1>8, <2>1, <3>1, <3>2 DEF ReadRound, AdvRec
    <2> QED BY <1>8, <2>2 DEF ReadRound, TypeOK
  <1>9. CASE SettleRound
    <2> DEFINE free == Teams \ adv.hit
    <2>1. /\ balance' = [t \in Teams |-> IF t \in free THEN Rewarded(t) ELSE balance[t]]
          /\ booked' = [t \in Teams |-> IF t \in free THEN Rewarded(t) ELSE booked[t]]
          /\ paid' = [paid EXCEPT ![adv.r] = [t \in Teams |-> @[t] + IF t \in free THEN 1 ELSE 0]]
          /\ phase' = [x \in Rounds |-> CASE x = adv.r -> "completed"
                                          [] x = adv.r + 1 -> "attacking"
                                          [] OTHER -> phase[x]]
      BY <1>9 DEF SettleRound, Settle
    <2>2. balance' \in [Teams -> Nat] /\ booked' \in [Teams -> Nat]
      BY <1>5, <2>1 DEF TypeOK
    <2>3. paid' \in [Rounds -> [Teams -> Nat]]
      <3> DEFINE row(r) == [t \in Teams |-> paid[r][t] + IF t \in free THEN 1 ELSE 0]
      <3>1. \A r \in Rounds : row(r) \in [Teams -> Nat]
        BY DEF TypeOK
      <3>2. paid' = [paid EXCEPT ![adv.r] = row(adv.r)]
        BY <2>1
      <3> HIDE DEF row
      <3> QED BY <3>1, <3>2 DEF TypeOK
    <2>4. phase' \in [Rounds -> Phases]
      <3>1. ASSUME NEW x \in Rounds PROVE phase'[x] \in {"completed", "attacking", phase[x]}
        <4>1. CASE x = adv.r
          BY <2>1, <4>1
        <4>2. CASE x # adv.r /\ x = adv.r + 1
          BY <2>1, <4>2
        <4>3. CASE x # adv.r /\ x # adv.r + 1
          BY <2>1, <4>3
        <4> QED BY <4>1, <4>2, <4>3
      <3> QED BY <2>1, <3>1 DEF TypeOK, Phases
    <2>5. adv' \in AdvRec
      <3>1. adv' = [adv EXCEPT !.pc = "rank"] \/ adv' = [adv EXCEPT !.pc = "cache", !.left = Teams]
        BY <1>9 DEF SettleRound, Settle
      <3> QED BY <1>1, <3>1 DEF AdvRec
    <2>6. comp' \in {"running", "ended"}
      BY <1>9 DEF SettleRound, Settle, TypeOK
    <2> QED BY <1>9, <2>2, <2>3, <2>4, <2>5, <2>6 DEF SettleRound, Settle, TypeOK
  <1>10. CASE RankAfterLastRound
    <2>1. adv' \in AdvRec
      BY <1>1, <1>3, <1>10 DEF RankAfterLastRound, AdvRec
    <2>2. ranked' \in {<<>>} \cup [Teams -> Nat]
      BY <1>10 DEF RankAfterLastRound, FinalRanks, TypeOK
    <2> QED BY <1>10, <2>1, <2>2 DEF RankAfterLastRound, TypeOK
  <1>11. ASSUME NEW t \in Teams, CacheTeam(t) PROVE TypeOK'
    <2>1. adv' \in AdvRec
      <3>1. Back(adv) \in AdvRec
        BY <1>1, <1>3 DEF AdvRec
      <3>2. [adv EXCEPT !.left = @ \ {t}] \in AdvRec
        BY <1>1 DEF AdvRec
      <3> QED BY <1>11, <3>1, <3>2 DEF CacheTeam
    <2>2. cached' \in [Teams -> Nat]
      BY <1>5, <1>11 DEF CacheTeam, TypeOK
    <2> QED BY <1>11, <2>1, <2>2 DEF CacheTeam, TypeOK
  <1> QED BY <1>6, <1>7, <1>8, <1>9, <1>10, <1>11 DEF AdvanceStep

LEMMA RequestType ==
    ASSUME TypeOK, NEW s \in Threads, Request(s)
    PROVE  TypeOK'
  <1> USE DEF season, tokens, records, tasks
  <1>1. ASSUME NEW pc, NEW r \in Rounds, NEW t \in Teams, NEW g, NEW c \in Challenges,
               \/ pc = "lock" /\ g \in Teams
               \/ pc = "verify" /\ g = NoTeam,
               Load(s, pc, r, t, g, c)
        PROVE  th' \in [Threads -> ThreadRec]
    <2> DEFINE new == [pc |-> pc, r |-> r, t |-> t, g |-> g, c |-> c, mine |-> balance[t],
                       his |-> IF g = NoTeam THEN 0 ELSE balance[g], n |-> 0, since |-> clock]
    <2>1. balance[t] \in Nat /\ clock \in Nat /\ (g # NoTeam => balance[g] \in Nat)
      BY <1>1 DEF TypeOK
    <2>2. new \in ThreadRec
      BY <1>1, <2>1 DEF ThreadRec, Serving
    <2>3. th' = [th EXCEPT ![s] = new]
      BY <1>1 DEF Load
    <2> HIDE DEF new
    <2> QED BY <2>2, <2>3 DEF TypeOK
  <1>2. ASSUME NEW r \in Rounds, NEW t \in Teams, NEW c \in Challenges, StartDefense(s, r, t, c)
        PROVE  TypeOK'
    BY <1>1, <1>2 DEF StartDefense, TypeOK
  <1>3. ASSUME NEW r \in Rounds, NEW t \in Teams, NEW g \in Teams, NEW c \in Challenges,
               StartAttack(s, r, t, g, c)
        PROVE  TypeOK'
    BY <1>1, <1>3 DEF StartAttack, TypeOK
  <1> QED BY <1>2, <1>3 DEF Request

LEMMA OtherType ==
    ASSUME TypeOK,
           \/ LockExpires \/ SettleFails \/ (\E t \in Teams : SyncLoad(t)) \/ SyncRead
           \/ SyncWrite \/ BeginClose \/ CommitClose \/ RankAfterClose \/ Boundary \/ Crash
           \/ UNCHANGED vars
    PROVE  TypeOK'
  <1> USE DEF season, tokens, records, tasks
  <1>1. adv \in AdvRec /\ sync \in SyncRec /\ NRounds \in Nat
    BY BoundAssumption DEF TypeOK
  <1>2. IdleAdv \in AdvRec /\ IdleSync \in SyncRec
    <2>1. IdleSync = [IdleSync EXCEPT !.begun = 0] /\ 0 \in 0..MaxSyncs
      BY BoundAssumption DEF IdleSync
    <2>2. IdleSync \in SyncRec
      <3> HIDE DEF IdleSync
      <3> QED BY <2>1 DEF SyncRec
    <2> QED BY <1>1, <2>2 DEF IdleAdv, AdvRec
  <1>3. sync.begun \in 0..MaxSyncs /\ SyncDone \in SyncRec
    <2>1. sync.begun \in 0..MaxSyncs
      BY <1>1 DEF SyncRec, IdleSync
    <2> QED BY <2>1 DEF SyncDone, SyncRec
  <1>4. sync.pc # "idle" => sync.t \in Teams /\ sync.n \in Nat
    BY <1>1 DEF SyncRec, IdleSync
  <1>5. CASE LockExpires
    BY <1>5 DEF LockExpires, TypeOK
  <1>6. CASE SettleFails
    <2>1. adv' \in AdvRec
      <3>1. [IdleAdv EXCEPT !.pc = "list", !.todo = adv.todo] \in AdvRec
        BY <1>1, <1>2 DEF IdleAdv, AdvRec
      <3> QED BY <1>2, <1>6, <3>1 DEF SettleFails, Back
    <2>2. faults' \in 0..MaxFaults
      BY <1>6, BoundAssumption DEF SettleFails, TypeOK
    <2> QED BY <1>6, <2>1, <2>2 DEF SettleFails, TypeOK
  <1>7. ASSUME NEW t \in Teams, SyncLoad(t) PROVE TypeOK'
    <2>1. sync.begun + 1 \in 0..MaxSyncs /\ balance[t] \in Nat
      BY <1>3, <1>7, BoundAssumption DEF SyncLoad, TypeOK
    <2>2. sync' \in SyncRec
      BY <1>7, <2>1 DEF SyncLoad, SyncRec
    <2> QED BY <1>7, <2>2 DEF SyncLoad, TypeOK
  <1>8. CASE SyncRead
    <2>1. cached[sync.t] \in Nat /\ sync.t \in Teams
      BY <1>4, <1>8 DEF SyncRead, TypeOK
    <2>2. sync \in [pc : {"read", "write"}, t : Teams, n : Nat, begun : 0..MaxSyncs]
      BY <1>1, <1>8 DEF SyncRead, SyncRec, IdleSync
    <2>3. [sync EXCEPT !.pc = "write", !.n = cached[sync.t]] \in SyncRec
      BY <2>1, <2>2 DEF SyncRec
    <2>4. sync' \in SyncRec
      BY <1>3, <1>8, <2>3 DEF SyncRead
    <2> QED BY <1>8, <2>4 DEF SyncRead, TypeOK
  <1>9. CASE SyncWrite
    BY <1>3, <1>4, <1>9 DEF SyncWrite, TypeOK
  <1>10. CASE BeginClose \/ CommitClose
    BY <1>10 DEF BeginClose, CommitClose, TypeOK, Phases
  <1>11. CASE RankAfterClose
    BY <1>11 DEF RankAfterClose, FinalRanks, TypeOK
  <1>12. CASE Boundary
    <2>1. clock' \in 0..(3 * NRounds)
      BY <1>1, <1>12 DEF Boundary, TypeOK
    <2> QED BY <1>12, <2>1 DEF Boundary, TypeOK
  <1>13. CASE Crash
    <2>1. th' \in [Threads -> ThreadRec]
      BY <1>13 DEF Crash, ThreadRec
    <2>2. faults' \in 0..MaxFaults
      BY <1>13, BoundAssumption DEF Crash, TypeOK
    <2> QED BY <1>2, <1>13, <2>1, <2>2 DEF Crash, TypeOK
  <1>14. CASE UNCHANGED vars
    BY <1>14 DEF vars, TypeOK
  <1> QED BY <1>5, <1>6, <1>7, <1>8, <1>9, <1>10, <1>11, <1>12, <1>13, <1>14

LEMMA TypeInit == Init => TypeOK
  <1> SUFFICES ASSUME Init PROVE TypeOK
    OBVIOUS
  <1>1. NRounds \in Nat /\ InitialToken \in Nat /\ MaxFaults \in Nat /\ MaxSyncs \in Nat
    BY BoundAssumption, TokenAssumption
  <1>2. th \in [Threads -> ThreadRec]
    BY DEF Init, ThreadRec
  <1>3. adv \in AdvRec
    BY <1>1 DEF Init, IdleAdv, AdvRec
  <1>4. sync \in SyncRec
    <2>1. IdleSync = [IdleSync EXCEPT !.begun = 0] /\ 0 \in 0..MaxSyncs
      BY <1>1 DEF IdleSync
    <2> HIDE DEF IdleSync
    <2> QED BY <2>1 DEF Init, SyncRec
  <1>5. attacks \in Seq([r : Rounds, g : Teams, c : Challenges])
    BY DEF Init
  <1> QED BY <1>1, <1>2, <1>3, <1>4, <1>5 DEF Init, TypeOK, Phases

(* Every reachable state of a battle is well typed, for any teams, rounds, *)
(* goroutines and amounts: no balance falls below zero, and every thread   *)
(* that pays has an exploit count or a first-patch flag to pay by.         *)
THEOREM TypeCorrect == Spec => []TypeOK
  <1>1. TypeOK /\ [Next]_vars => TypeOK'
    BY OperationType, AdvanceType, RequestType, OtherType DEF Next
  <1> QED BY <1>1, TypeInit, PTL DEF Spec

-----------------------------------------------------------------------------
(* Rounds and the clock.  The task keeps up with the phases, so each phase *)
(* of a round lies between two boundaries, and one phase ends at a         *)
(* boundary: the list of due phases has one entry, which stays true until  *)
(* the task acts on it, unless the competition is called off.              *)

PhaseEnd(r, p) == IF p = "attacking" THEN 3 * r - 2
                  ELSE IF p = "defending" THEN 3 * r - 1 ELSE 3 * r

RoundInv ==
    /\ \A r \in Rounds :
          /\ phase[r] = "attacking" => clock <= 3 * r - 2
          /\ phase[r] = "defending" => 3 * r - 2 <= clock /\ clock <= 3 * r - 1
          /\ phase[r] = "settling" => 3 * r - 1 <= clock /\ clock <= 3 * r
          /\ comp = "running" /\ phase[r] = "completed" => 3 * r <= clock
    /\ \A r \in Rounds, p \in Phases : <<r, p>> \in adv.todo =>
          /\ p # "completed" /\ clock = PhaseEnd(r, p)
          /\ comp = "running" => phase[r] = p
    /\ adv.pc = "settle" => /\ adv.r \in Rounds /\ clock = 3 * adv.r
                            /\ comp = "running" => phase[adv.r] = "settling"
    /\ adv.pc # "list" => adv.todo = {}

(* A boundary ends one phase of one round.                                 *)
LEMMA OneEnd ==
    ASSUME NEW r \in Rounds, NEW p \in Phases \ {"completed"},
           NEW q \in Rounds, NEW o \in Phases \ {"completed"}, PhaseEnd(r, p) = PhaseEnd(q, o)
    PROVE  r = q /\ p = o
  <1>1. r \in Nat /\ q \in Nat
    BY BoundAssumption DEF Rounds
  <1>2. p \in {"attacking", "defending", "settling"} /\ o \in {"attacking", "defending", "settling"}
    BY DEF Phases
  <1> QED BY <1>1, <1>2 DEF PhaseEnd

LEMMA OneDue ==
    ASSUME TypeOK, RoundInv, NEW r \in Rounds, NEW p \in Phases, <<r, p>> \in adv.todo
    PROVE  /\ adv.todo = {<<r, p>>} /\ Taken(r, p).todo = {}
           /\ Back(Taken(r, p)) = IdleAdv
  <1>1. adv \in AdvRec
    BY DEF TypeOK
  <1>2. adv.todo = {<<r, p>>}
    <2>1. ASSUME NEW x \in adv.todo PROVE x = <<r, p>>
      <3>1. PICK q \in Rounds, o \in Phases : x = <<q, o>>
        BY <1>1 DEF AdvRec
      <3>2. PhaseEnd(r, p) = PhaseEnd(q, o) /\ p # "completed" /\ o # "completed"
        BY <2>1, <3>1 DEF RoundInv
      <3> QED BY <3>1, <3>2, OneEnd
    <2> QED BY <2>1
  <1>3. Taken(r, p).todo = {}
    BY <1>1, <1>2 DEF Taken, AdvRec
  <1> QED BY <1>2, <1>3 DEF Back

(* What the steps do to rounds, by kind.                                   *)
LEMMA RoundSteps ==
    ASSUME TypeOK, RoundInv, [Next]_vars
    PROVE  \/ UNCHANGED <<comp, phase, clock, adv>>
           \/ ListDue \/ SettleRound \/ CommitClose \/ Boundary
           \/ \E r \in Rounds : AdvancePhase(r) \/ ReadRound(r)
           \/ /\ UNCHANGED <<comp, phase, clock>>
              /\ adv'.todo = {} /\ adv'.pc \notin {"list", "settle"}
  <1> USE DEF season, tokens, records, tasks
  <1>1. ASSUME NEW s \in Threads, Request(s) PROVE UNCHANGED <<comp, phase, clock, adv>>
    BY <1>1 DEF Request, StartDefense, StartAttack
  <1>2. ASSUME NEW s \in Threads, OperationStep(s) PROVE UNCHANGED <<comp, phase, clock, adv>>
    BY <1>2 DEF OperationStep, AcquireLock, AttackFails, AttackLands, PayAttack, CacheOwn,
       CacheTarget, PatchFails, PatchVerified, CommitPatch
  <1>3. CASE LockExpires \/ (\E t \in Teams : SyncLoad(t)) \/ SyncRead \/ SyncWrite
             \/ BeginClose \/ RankAfterClose \/ UNCHANGED vars
    BY <1>3 DEF LockExpires, SyncLoad, SyncRead, SyncWrite, BeginClose, RankAfterClose, vars
  <1>4. adv.pc # "list" => Back(adv) = IdleAdv
    BY DEF RoundInv, Back
  <1>5. IdleAdv.todo = {} /\ IdleAdv.pc \notin {"list", "settle"}
    BY DEF IdleAdv
  <1>6. CASE SettleFails \/ RankAfterLastRound \/ Crash
    BY <1>4, <1>5, <1>6 DEF SettleFails, RankAfterLastRound, Crash
  <1>7. ASSUME NEW t \in Teams, CacheTeam(t)
        PROVE  /\ UNCHANGED <<comp, phase, clock>>
               /\ adv'.todo = {} /\ adv'.pc \notin {"list", "settle"}
    <2>1. adv \in AdvRec /\ adv.pc = "cache" /\ adv.todo = {}
      BY <1>7 DEF CacheTeam, TypeOK, RoundInv
    <2>2. adv' = IdleAdv \/ adv' = [adv EXCEPT !.left = @ \ {t}]
      BY <1>4, <1>7, <2>1 DEF CacheTeam
    <2>3. adv'.todo = {} /\ adv'.pc \notin {"list", "settle"}
      BY <1>5, <2>1, <2>2 DEF AdvRec
    <2> QED BY <1>7, <2>3 DEF CacheTeam
  <1> QED BY <1>1, <1>2, <1>3, <1>6, <1>7 DEF Next, AdvanceStep

LEMMA RoundStep ==
    ASSUME TypeOK, RoundInv, [Next]_vars
    PROVE  RoundInv'
  <1> USE DEF season, tokens, records, tasks
  <1>0. /\ \A r \in Rounds : r \in Nat /\ phase[r] \in Phases
        /\ clock \in Nat /\ adv \in AdvRec /\ phase \in [Rounds -> Phases]
        /\ NRounds \in Nat
    BY BoundAssumption DEF TypeOK, Rounds
  <1>1. CASE UNCHANGED <<comp, phase, clock, adv>>
    BY <1>1 DEF RoundInv
  <1>2. CASE /\ UNCHANGED <<comp, phase, clock>>
             /\ adv'.todo = {} /\ adv'.pc \notin {"list", "settle"}
    BY <1>2 DEF RoundInv
  <1>3. CASE ListDue
    <2>1. /\ UNCHANGED <<comp, phase, clock>>
          /\ adv'.pc = "list" /\ adv'.todo = {<<r, phase[r]>> : r \in {x \in Rounds : Due(x)}}
      BY <1>3 DEF ListDue, IdleAdv
    <2>2. ASSUME NEW r \in Rounds, Due(r)
          PROVE  phase[r] # "completed" /\ clock = PhaseEnd(r, phase[r])
      <3>1. phase[r] \in {"attacking", "defending", "settling"} /\ clock >= EndOf(r)
        BY <1>0, <2>2 DEF Due, Phases
      <3>2. EndOf(r) = PhaseEnd(r, phase[r])
        BY <3>1 DEF EndOf, PhaseEnd
      <3> QED BY <1>0, <3>1, <3>2 DEF RoundInv, PhaseEnd
    <2>3. ASSUME NEW r \in Rounds, NEW p \in Phases, <<r, p>> \in adv'.todo
          PROVE  p # "completed" /\ clock = PhaseEnd(r, p) /\ phase[r] = p
      BY <2>1, <2>2, <2>3
    <2> QED BY <2>1, <2>3 DEF RoundInv
  <1>4. ASSUME NEW r \in Rounds, AdvancePhase(r) PROVE RoundInv'
    <2>1. PICK p \in {"attacking", "defending"} :
             /\ <<r, p>> \in adv.todo
             /\ phase' = [phase EXCEPT ![r] = IF p = "attacking" THEN "defending" ELSE "settling"]
             /\ adv' = Back(Taken(r, p))
      BY <1>4 DEF AdvancePhase
    <2>2. p \in Phases /\ clock = PhaseEnd(r, p)
      BY <2>1 DEF Phases, RoundInv
    <2>3. adv' = IdleAdv
      BY <2>1, <2>2, OneDue
    <2>4. clock' = clock /\ comp' = comp
      BY <1>4 DEF AdvancePhase
    <2>5. ASSUME NEW q \in Rounds
          PROVE  /\ phase'[q] = "attacking" => clock <= 3 * q - 2
                 /\ phase'[q] = "defending" => 3 * q - 2 <= clock /\ clock <= 3 * q - 1
                 /\ phase'[q] = "settling" => 3 * q - 1 <= clock /\ clock <= 3 * q
                 /\ comp = "running" /\ phase'[q] = "completed" => 3 * q <= clock
      <3>1. CASE q = r
        <4>1. phase'[q] = IF p = "attacking" THEN "defending" ELSE "settling"
          BY <1>0, <2>1, <3>1
        <4> QED BY <1>0, <2>1, <2>2, <3>1, <4>1 DEF PhaseEnd
      <3>2. CASE q # r
        <4>1. phase'[q] = phase[q]
          BY <1>0, <2>1, <3>2
        <4> QED BY <4>1 DEF RoundInv
      <3> QED BY <3>1, <3>2
    <2> QED BY <2>3, <2>4, <2>5 DEF RoundInv, IdleAdv
  <1>5. ASSUME NEW r \in Rounds, ReadRound(r) PROVE RoundInv'
    <2>1. <<r, "settling">> \in adv.todo /\ "settling" \in Phases /\ UNCHANGED <<comp, phase, clock>>
      BY <1>5 DEF ReadRound, Phases
    <2>2. /\ clock = 3 * r /\ (comp = "running" => phase[r] = "settling")
          /\ Taken(r, "settling").todo = {}
      BY <2>1, OneDue DEF RoundInv, PhaseEnd
    <2>3. adv'.pc = "settle" /\ adv'.r = r /\ adv'.todo = {}
      <3>1. Taken(r, "settling") \in AdvRec
        BY <1>0 DEF Taken, AdvRec
      <3> QED BY <1>5, <2>2, <3>1 DEF ReadRound, AdvRec
    <2> QED BY <2>1, <2>2, <2>3 DEF RoundInv
  <1>6. CASE SettleRound
    <2> DEFINE r == adv.r
    <2>1. /\ adv.pc = "settle" /\ r \in Rounds /\ clock = 3 * r /\ adv.todo = {}
          /\ clock' = clock /\ (comp' = "running" => comp = "running")
          /\ phase' = [x \in Rounds |-> CASE x = r -> "completed"
                                          [] x = r + 1 -> "attacking"
                                          [] OTHER -> phase[x]]
      BY <1>6 DEF SettleRound, Settle, RoundInv
    <2>2. adv'.todo = {} /\ adv'.pc \in {"rank", "cache"}
      <3>1. adv' = [adv EXCEPT !.pc = "rank"] \/ adv' = [adv EXCEPT !.pc = "cache", !.left = Teams]
        BY <1>6 DEF SettleRound, Settle
      <3> QED BY <1>0, <2>1, <3>1 DEF AdvRec
    <2> HIDE DEF r
    <2>3. ASSUME NEW q \in Rounds
          PROVE  /\ phase'[q] = "attacking" => clock <= 3 * q - 2
                 /\ phase'[q] = "defending" => 3 * q - 2 <= clock /\ clock <= 3 * q - 1
                 /\ phase'[q] = "settling" => 3 * q - 1 <= clock /\ clock <= 3 * q
                 /\ comp' = "running" /\ phase'[q] = "completed" => 3 * q <= clock
      <3>1. CASE q = r
        BY <1>0, <2>1, <3>1
      <3>2. CASE q # r /\ q = r + 1
        BY <1>0, <2>1, <3>2
      <3>3. CASE q # r /\ q # r + 1
        <4>1. phase'[q] = phase[q]
          BY <2>1, <3>3
        <4> QED BY <2>1, <4>1 DEF RoundInv
      <3> QED BY <3>1, <3>2, <3>3
    <2> QED BY <2>1, <2>2, <2>3 DEF RoundInv
  <1>7. CASE CommitClose
    BY <1>7 DEF CommitClose, RoundInv
  <1>8. CASE Boundary
    <2>1. /\ adv = IdleAdv /\ clock' = clock + 1 /\ UNCHANGED <<comp, phase, adv>>
          /\ \A r \in Rounds : ~Due(r)
      BY <1>8 DEF Boundary
    <2>2. ASSUME NEW r \in Rounds, phase[r] # "completed" PROVE clock + 1 <= PhaseEnd(r, phase[r])
      <3>1. phase[r] \in {"attacking", "defending", "settling"} /\ ~(clock >= EndOf(r))
        BY <1>0, <2>1, <2>2 DEF Due, Phases
      <3>2. EndOf(r) = PhaseEnd(r, phase[r])
        BY <3>1 DEF EndOf, PhaseEnd
      <3> QED BY <1>0, <3>1, <3>2 DEF PhaseEnd
    <2>3. ASSUME NEW q \in Rounds
          PROVE  /\ phase[q] = "attacking" => clock + 1 <= 3 * q - 2
                 /\ phase[q] = "defending" => 3 * q - 2 <= clock + 1 /\ clock + 1 <= 3 * q - 1
                 /\ phase[q] = "settling" => 3 * q - 1 <= clock + 1 /\ clock + 1 <= 3 * q
                 /\ comp = "running" /\ phase[q] = "completed" => 3 * q <= clock + 1
      BY <1>0, <2>2 DEF RoundInv, PhaseEnd
    <2> QED BY <2>1, <2>3 DEF RoundInv, IdleAdv
  <1> QED BY <1>1, <1>2, <1>3, <1>4, <1>5, <1>6, <1>7, <1>8, RoundSteps

LEMMA RoundsHold == Spec => []RoundInv
  <1>1. Init => RoundInv
    BY BoundAssumption DEF Init, RoundInv, IdleAdv, Rounds
  <1>2. TypeOK /\ RoundInv /\ [Next]_vars => RoundInv'
    BY RoundStep
  <1> QED BY <1>1, <1>2, TypeCorrect, PTL DEF Spec

(* While the competition runs, a round leaves its attack phase only when   *)
(* every earlier round is completed, and no phase of a round comes back,   *)
(* although the task acts on phases it listed before and an administrator  *)
(* may call the competition off meanwhile.                                 *)
THEOREM RoundsFollow == Spec => RoundsInTurn
  <1>1. ASSUME TypeOK, RoundInv, TypeOK', RoundInv', [Next]_vars, comp' = "running",
               NEW r \in Rounds
        PROVE  /\ Order(phase'[r]) >= Order(phase[r])
               /\ phase'[r] # "attacking" => \A q \in 1..(r - 1) : phase'[q] = "completed"
    <2> USE DEF season, tokens, records, tasks
    <2>0. /\ phase[r] \in Phases /\ phase'[r] \in Phases /\ r \in Nat /\ clock \in Nat
          /\ clock' \in Nat /\ NRounds \in Nat /\ phase \in [Rounds -> Phases]
      BY <1>1, BoundAssumption DEF TypeOK, Rounds
    <2>1. Order(phase'[r]) >= Order(phase[r])
      <3>1. CASE phase'[r] = phase[r]
        BY <2>0, <3>1 DEF Order, Phases
      <3>2. CASE SettleRound
        <4>1. /\ adv.r \in Rounds /\ clock = 3 * adv.r /\ comp = "running"
              /\ phase' = [x \in Rounds |-> CASE x = adv.r -> "completed"
                                              [] x = adv.r + 1 -> "attacking"
                                              [] OTHER -> phase[x]]
          BY <1>1, <3>2 DEF SettleRound, Settle, RoundInv
        <4>2. CASE r = adv.r
          BY <2>0, <4>1, <4>2 DEF Order, Phases
        <4>3. CASE r # adv.r /\ r = adv.r + 1
          <5>1. clock = 3 * r - 3
            <6>1. adv.r \in Nat
              BY <4>1 DEF Rounds
            <6> QED BY <2>0, <4>1, <4>3, <6>1
          <5>2. phase[r] = "attacking"
            BY <1>1, <2>0, <4>1, <5>1 DEF RoundInv, Phases
          <5> QED BY <4>1, <4>3, <5>2 DEF Order
        <4>4. CASE r # adv.r /\ r # adv.r + 1
          BY <3>1, <4>1, <4>4
        <4> QED BY <4>2, <4>3, <4>4
      <3>3. ASSUME NEW q \in Rounds, AdvancePhase(q) PROVE Order(phase'[r]) >= Order(phase[r])
        <4>1. PICK p \in {"attacking", "defending"} :
                 /\ <<q, p>> \in adv.todo
                 /\ phase' = [phase EXCEPT ![q] = IF p = "attacking" THEN "defending" ELSE "settling"]
          BY <3>3 DEF AdvancePhase
        <4>2. p \in Phases /\ comp = "running"
          BY <1>1, <3>3 DEF Phases, AdvancePhase
        <4>3. phase[q] = p
          BY <1>1, <4>1, <4>2 DEF RoundInv
        <4>4. CASE q = r
          BY <2>0, <4>1, <4>3, <4>4 DEF Order
        <4>5. CASE q # r
          BY <2>0, <3>1, <4>1, <4>5
        <4> QED BY <4>4, <4>5
      <3>4. phase'[r] = phase[r] \/ SettleRound \/ \E q \in Rounds : AdvancePhase(q)
        <4>1. ~CommitClose
          BY <1>1 DEF CommitClose
        <4> QED BY <1>1, <4>1, RoundSteps DEF ListDue, ReadRound, Boundary
      <3> QED BY <3>1, <3>2, <3>3, <3>4
    <2>2. ASSUME phase'[r] # "attacking", NEW q \in 1..(r - 1) PROVE phase'[q] = "completed"
      <3>1. q \in Rounds /\ q \in Nat /\ q <= r - 1
        BY <2>0, <2>2 DEF Rounds
      <3>2. 3 * r - 2 <= clock'
        BY <1>1, <2>0, <2>2 DEF RoundInv, Phases
      <3>3. phase'[q] \in Phases /\ 3 * q < clock'
        BY <1>1, <2>0, <3>1, <3>2 DEF TypeOK
      <3> QED BY <1>1, <2>0, <3>1, <3>3 DEF RoundInv, Phases
    <2> QED BY <2>1, <2>2
  <1>2. TypeOK /\ RoundInv /\ TypeOK' /\ RoundInv' /\ [Next]_vars =>
          [comp' = "running" => \A r \in Rounds :
             /\ Order(phase'[r]) >= Order(phase[r])
             /\ phase'[r] # "attacking" => \A q \in 1..(r - 1) : phase'[q] = "completed"]_vars
    BY <1>1
  <1> QED BY <1>2, TypeCorrect, RoundsHold, PTL DEF Spec, RoundsInTurn

-----------------------------------------------------------------------------
(* Defence rewards.  An attack that was started in the attack phase of its *)
(* round lands before the round is settled, so the attacks that the        *)
(* settlement has read are all the attacks of the round; and a round whose *)
(* rewards were paid is completed and on nobody's list any more.           *)

Attacking(s) == th[s].pc \in {"lock", "exec", "pay"}
InTime(s) == Attacking(s) => /\ th[s].since <= clock /\ clock <= th[s].since + 1
                             /\ th[s].since <= 3 * th[s].r - 2
Ended(r) == /\ 3 * r <= clock /\ phase[r] = "completed"
            /\ ~(adv.pc = "settle" /\ adv.r = r) /\ <<r, "settling">> \notin adv.todo
RewardInv ==
    /\ \A s \in Threads : InTime(s)
    /\ adv.pc = "settle" => adv.hit = Attacked(adv.r)
    /\ \A r \in Rounds, t \in Teams : paid[r][t] # 0 => Ended(r)
    /\ DefenseRewardEarned

(* What is loaded, and what is kept while an attack is executed.           *)
LEMMA InTimeStep ==
    ASSUME TypeOK, RoundInv, RewardInv, [Next]_vars, NEW s \in Threads
    PROVE  InTime(s)'
  <1> USE DEF season, tokens, records, tasks
  <1>0. th \in [Threads -> ThreadRec] /\ clock \in Nat
    BY BoundAssumption DEF TypeOK
  <1>1. ASSUME UNCHANGED clock, th'[s] = th[s] PROVE InTime(s)'
    BY <1>1 DEF RewardInv, InTime, Attacking
  <1>2. ASSUME UNCHANGED clock, ~Attacking(s)' PROVE InTime(s)'
    BY <1>2 DEF InTime
  <1>3. ASSUME NEW r \in Threads, Request(r) PROVE InTime(s)'
    <2>1. CASE r # s
      BY <1>0, <1>1, <1>3, <2>1 DEF Request, StartDefense, StartAttack, Load
    <2>2. ASSUME NEW q \in Rounds, NEW t \in Teams, NEW c \in Challenges,
                 StartDefense(s, q, t, c)
          PROVE  InTime(s)'
      <3>1. th'[s].pc = "verify" /\ UNCHANGED clock
        BY <1>0, <2>2 DEF StartDefense, Load
      <3> QED BY <1>2, <3>1 DEF Attacking
    <2>3. ASSUME NEW q \in Rounds, NEW t \in Teams, NEW g \in Teams, NEW c \in Challenges,
                 StartAttack(s, q, t, g, c)
          PROVE  InTime(s)'
      <3>1. th'[s].since = clock /\ th'[s].r = q /\ phase[q] = "attacking" /\ UNCHANGED clock
        BY <1>0, <2>3 DEF StartAttack, Load
      <3>2. clock <= 3 * q - 2
        BY <3>1 DEF RoundInv
      <3> QED BY <1>0, <3>1, <3>2 DEF InTime
    <2> QED BY <1>3, <2>1, <2>2, <2>3 DEF Request
  <1>4. ASSUME NEW r \in Threads, OperationStep(r) PROVE InTime(s)'
    <2>1. ~At(r, "idle") /\ UNCHANGED clock
      BY <1>4 DEF OperationStep, AcquireLock, AttackFails, AttackLands, PayAttack, CacheOwn,
         CacheTarget, PatchFails, PatchVerified, CommitPatch, At
    <2>2. CASE r # s
      <3>1. th'[s] = th[s]
        BY <1>0, <1>4, <2>2 DEF OperationStep, AcquireLock, AttackFails, AttackLands, PayAttack,
           CacheOwn, CacheTarget, PatchFails, PatchVerified, CommitPatch, Goto, Finish, Release
      <3> QED BY <1>1, <2>1, <3>1
    <2>3. ASSUME th'[s].since = th[s].since, th'[s].r = th[s].r, Attacking(s)
          PROVE  InTime(s)'
      BY <2>1, <2>3 DEF RewardInv, InTime
    <2>4. CASE AcquireLock(s)
      <3>1. CASE Goto(s, "exec")
        BY <2>1, <2>3, <2>4, <3>1, GotoIs DEF AcquireLock, At, Attacking
      <3>2. CASE Finish(s)
        BY <1>0, <1>2, <2>1, <3>2 DEF Finish, IdleThread, Attacking
      <3> QED BY <2>4, <3>1, <3>2 DEF AcquireLock
    <2>5. CASE AttackLands(s)
      <3>1. th[s] \in ThreadRec /\ th[s] # IdleThread
        BY <1>0, <2>5 DEF AttackLands, At, IdleThread
      <3>2. th'[s].since = th[s].since /\ th'[s].r = th[s].r
        BY <1>0, <2>5, <3>1 DEF AttackLands, ThreadRec, Serving
      <3> QED BY <2>3, <2>5, <3>2 DEF AttackLands, At, Attacking
    <2>6. CASE Finish(s)
      BY <1>0, <1>2, <2>1, <2>6 DEF Finish, IdleThread, Attacking
    <2>7. ASSUME NEW pc \in {"own", "target"}, Goto(s, pc), r = s PROVE InTime(s)'
      <3>1. th'[s].pc = pc
        BY <2>1, <2>7, GotoIs
      <3> QED BY <1>2, <2>1, <2>7, <3>1 DEF Attacking
    <2>8. CASE PatchVerified(s)
      <3>1. th'[s].pc = "patch"
        <4>1. th[s] \in ThreadRec /\ th[s] # IdleThread
          BY <1>0, <2>8 DEF PatchVerified, At, IdleThread
        <4> QED BY <1>0, <2>8, <4>1 DEF PatchVerified, ThreadRec, Serving
      <3> QED BY <1>2, <2>1, <3>1 DEF Attacking
    <2> QED BY <1>4, <2>2, <2>4, <2>5, <2>6, <2>7, <2>8 DEF OperationStep, AttackFails,
            PayAttack, CacheOwn, CacheTarget, PatchFails, CommitPatch, Release
  <1>5. CASE Boundary
    <2>1. clock' = clock + 1 /\ th'[s] = th[s] /\ (At(s, "idle") \/ th[s].since = clock)
      BY <1>5 DEF Boundary
    <2>2. At(s, "idle") => ~Attacking(s)
      BY DEF At, Attacking
    <2> QED BY <1>0, <2>1, <2>2 DEF RewardInv, InTime, Attacking
  <1>6. CASE Crash
    BY <1>2, <1>6 DEF Crash, IdleThread, Attacking
  <1>7. CASE LockExpires \/ SettleFails \/ (\E t \in Teams : SyncLoad(t)) \/ SyncRead
             \/ SyncWrite \/ BeginClose \/ CommitClose \/ RankAfterClose \/ UNCHANGED vars
    BY <1>1, <1>7 DEF LockExpires, SettleFails, SyncLoad, SyncRead, SyncWrite, BeginClose,
       CommitClose, RankAfterClose, vars
  <1>8. CASE AdvanceStep
    BY <1>1, <1>8 DEF AdvanceStep, ListDue, SettleRound, Settle, RankAfterLastRound,
       AdvancePhase, ReadRound, CacheTeam
  <1> QED BY <1>3, <1>4, <1>5, <1>6, <1>7, <1>8 DEF Next

(* Attacks are inserted by a successful attack, rewards by a settlement.   *)
LEMMA RecordSteps ==
    ASSUME [Next]_vars
    PROVE  /\ UNCHANGED attacks \/ \E s \in Threads : PayAttack(s)
           /\ UNCHANGED paid \/ SettleRound
  <1> USE DEF season, tokens, records, tasks
  <1>1. ASSUME NEW s \in Threads, Request(s) PROVE UNCHANGED <<attacks, paid>>
    BY <1>1 DEF Request, StartDefense, StartAttack
  <1>2. ASSUME NEW s \in Threads, OperationStep(s)
        PROVE  (UNCHANGED attacks \/ PayAttack(s)) /\ UNCHANGED paid
    BY <1>2 DEF OperationStep, AcquireLock, AttackFails, AttackLands, PayAttack, CacheOwn,
       CacheTarget, PatchFails, PatchVerified, CommitPatch
  <1>3. CASE AdvanceStep
    BY <1>3 DEF AdvanceStep, ListDue, SettleRound, Settle, RankAfterLastRound, AdvancePhase,
       ReadRound, CacheTeam
  <1>4. CASE LockExpires \/ SettleFails \/ (\E t \in Teams : SyncLoad(t)) \/ SyncRead
             \/ SyncWrite \/ BeginClose \/ CommitClose \/ RankAfterClose \/ Boundary \/ Crash
             \/ UNCHANGED vars
    BY <1>4 DEF LockExpires, SettleFails, SyncLoad, SyncRead, SyncWrite, BeginClose,
       CommitClose, RankAfterClose, Boundary, Crash, vars
  <1> QED BY <1>1, <1>2, <1>3, <1>4 DEF Next

(* An attack lands in a round that is not settled yet, and adds its target.*)
LEMMA AttackedStep ==
    ASSUME TypeOK, RoundInv, RewardInv, [Next]_vars
    PROVE  \/ UNCHANGED attacks
           \/ /\ UNCHANGED <<comp, phase, clock, adv, paid>>
              /\ \E r \in Rounds : /\ clock < 3 * r
                                   /\ Attacked(r) \subseteq Attacked(r)'
                                   /\ \A q \in Rounds : q # r => Attacked(q)' = Attacked(q)
  <1> USE DEF season, tokens, records, tasks
  <1>1. UNCHANGED attacks \/ \E s \in Threads : PayAttack(s)
    BY RecordSteps
  <1>2. ASSUME NEW s \in Threads, PayAttack(s)
        PROVE  /\ UNCHANGED <<comp, phase, clock, adv, paid>>
               /\ \E r \in Rounds : /\ clock < 3 * r
                                    /\ Attacked(r) \subseteq Attacked(r)'
                                    /\ \A q \in Rounds : q # r => Attacked(q)' = Attacked(q)
    <2>1. ~At(s, "idle") /\ Attacking(s)
      BY <1>2 DEF PayAttack, At, Attacking
    <2>2. PICK r \in Rounds : r = th[s].r
      BY <2>1, Loaded
    <2>3. clock < 3 * r
      <3>1. th[s].since \in Nat /\ clock \in Nat /\ r \in Nat
        <4>1. clock \in Nat /\ r \in Nat
          BY BoundAssumption DEF TypeOK, Rounds
        <4> QED BY <2>1, <4>1, Loaded
      <3>2. clock <= th[s].since + 1 /\ th[s].since <= 3 * r - 2
        BY <2>1, <2>2 DEF RewardInv, InTime
      <3> QED BY <3>1, <3>2
    <2> DEFINE row == [r |-> th[s].r, g |-> th[s].g, c |-> th[s].c]
               AttackRec == [r : Rounds, g : Teams, c : Challenges]
    <2>4. attacks' = Append(attacks, row) /\ row.r = r
      BY <1>2, <2>2 DEF PayAttack
    <2>5. attacks \in Seq(AttackRec) /\ row \in AttackRec
      <3>1. th[s].g \in Teams
        BY <1>2, <2>1, Loaded DEF PayAttack, At, Serving
      <3> QED BY <2>1, <3>1, Loaded DEF TypeOK
    <2> HIDE DEF row, AttackRec
    <2>6. /\ Len(attacks) \in Nat /\ Len(attacks') = Len(attacks) + 1
          /\ attacks'[Len(attacks) + 1] = row
          /\ \A k \in 1..Len(attacks) : attacks'[k] = attacks[k]
      BY <2>4, <2>5, AppendProperties
    <2>7. Attacked(r) \subseteq Attacked(r)'
      BY <2>6 DEF Attacked
    <2>8. ASSUME NEW q \in Rounds, q # r PROVE Attacked(q)' = Attacked(q)
      BY <2>4, <2>6, <2>8 DEF Attacked
    <2> QED BY <1>2, <2>3, <2>7, <2>8 DEF PayAttack
  <1> QED BY <1>1, <1>2

LEMMA RewardStep ==
    ASSUME TypeOK, RoundInv, RewardInv, RoundInv', [Next]_vars
    PROVE  RewardInv'
  <1> USE DEF season, tokens, records, tasks
  <1>0. /\ \A r \in Rounds : r \in Nat /\ phase[r] \in Phases
        /\ clock \in Nat /\ adv \in AdvRec /\ phase \in [Rounds -> Phases]
        /\ paid \in [Rounds -> [Teams -> Nat]]
    BY BoundAssumption DEF TypeOK, Rounds
  <1>1. \A s \in Threads : InTime(s)'
    BY InTimeStep
  <1>2. ASSUME adv'.pc = "settle" => adv'.hit = Attacked(adv.r)',
               \A r \in Rounds, t \in Teams : paid'[r][t] # 0 => Ended(r)',
               DefenseRewardEarned'
        PROVE  RewardInv'
    BY <1>1, <1>2 DEF RewardInv
  <1>3. CASE UNCHANGED <<comp, phase, clock, adv, paid>>
    <2>1. CASE UNCHANGED attacks
      BY <1>2, <1>3, <2>1 DEF RewardInv, Ended, Attacked, DefenseRewardEarned
    <2>2. CASE attacks' # attacks
      <3>1. PICK r \in Rounds : /\ clock < 3 * r /\ Attacked(r) \subseteq Attacked(r)'
                                /\ \A q \in Rounds : q # r => Attacked(q)' = Attacked(q)
        BY <2>2, AttackedStep
      <3>2. ASSUME NEW t \in Teams, paid[r][t] # 0 PROVE FALSE
        <4>1. 3 * r <= clock
          BY <3>2 DEF RewardInv, Ended
        <4> QED BY <1>0, <3>1, <4>1
      <3>3. adv.pc = "settle" => adv.r \in Rounds /\ adv.r # r
        BY <1>0, <3>1 DEF RoundInv
      <3>4. adv'.pc = "settle" => adv'.hit = Attacked(adv.r)'
        <4> SUFFICES ASSUME adv.pc = "settle" PROVE adv.hit = Attacked(adv.r)'
          BY <1>3 DEF Attacked
        <4>1. PICK q \in Rounds : q = adv.r
          BY <3>3
        <4>2. Attacked(q)' = Attacked(q) /\ adv.hit = Attacked(q)
          BY <3>1, <3>3, <4>1 DEF RewardInv
        <4> QED BY <1>3, <4>1, <4>2 DEF Attacked
      <3>5. DefenseRewardEarned'
        <4> SUFFICES ASSUME NEW q \in Rounds, NEW t \in Teams
                     PROVE  /\ paid[q][t] <= IF t \in Attacked(q)' THEN 0 ELSE 1
                            /\ comp = "running" /\ phase[q] = "completed" =>
                                 paid[q][t] = 1 \/ t \in Attacked(q)'
          BY <1>3 DEF DefenseRewardEarned
        <4>1. /\ paid[q][t] <= IF t \in Attacked(q) THEN 0 ELSE 1
              /\ comp = "running" /\ phase[q] = "completed" => paid[q][t] = 1 \/ t \in Attacked(q)
          BY DEF RewardInv, DefenseRewardEarned
        <4>2. CASE q = r
          BY <3>1, <3>2, <4>1, <4>2
        <4>3. CASE q # r
          BY <3>1, <4>1, <4>3
        <4> QED BY <4>2, <4>3
      <3> QED BY <1>2, <1>3, <3>4, <3>5 DEF RewardInv, Ended
    <2> QED BY <2>1, <2>2
  <1>4. ASSUME UNCHANGED <<comp, paid, attacks, clock>>, adv'.pc # "settle", adv'.todo = {},
               \A r \in Rounds : phase'[r] = phase[r] \/ (phase'[r] # "completed" /\ clock < 3 * r)
        PROVE  RewardInv'
    <2>1. ASSUME NEW r \in Rounds, NEW t \in Teams, paid'[r][t] # 0 PROVE Ended(r)'
      <3>1. Ended(r)
        BY <1>4, <2>1 DEF RewardInv
      <3>2. 3 * r <= clock /\ phase'[r] = "completed"
        <4>1. ~(clock < 3 * r)
          BY <1>0, <3>1 DEF Ended
        <4> QED BY <1>4, <3>1, <4>1 DEF Ended
      <3> QED BY <1>4, <3>2 DEF Ended
    <2>2. DefenseRewardEarned'
      BY <1>4 DEF RewardInv, DefenseRewardEarned, Attacked
    <2> QED BY <1>2, <1>4, <2>1, <2>2
  <1>5. CASE ListDue
    <2>1. /\ UNCHANGED <<comp, paid, attacks, clock, phase>> /\ adv'.pc = "list"
          /\ adv'.todo = {<<r, phase[r]>> : r \in {x \in Rounds : Due(x)}}
      BY <1>5 DEF ListDue, IdleAdv
    <2>2. ASSUME NEW r \in Rounds, phase[r] = "completed"
          PROVE  <<r, "settling">> \notin adv'.todo
      BY <2>1, <2>2
    <2>3. DefenseRewardEarned'
      BY <2>1 DEF RewardInv, DefenseRewardEarned, Attacked
    <2> QED BY <1>2, <2>1, <2>2, <2>3 DEF RewardInv, Ended
  <1>6. ASSUME NEW r \in Rounds, AdvancePhase(r) PROVE RewardInv'
    <2>1. PICK p \in {"attacking", "defending"} :
             /\ <<r, p>> \in adv.todo
             /\ phase' = [phase EXCEPT ![r] = IF p = "attacking" THEN "defending" ELSE "settling"]
             /\ adv' = Back(Taken(r, p))
      BY <1>6 DEF AdvancePhase
    <2>2. p \in Phases /\ clock = PhaseEnd(r, p)
      BY <2>1 DEF Phases, RoundInv
    <2>3. clock < 3 * r
      BY <1>0, <2>1, <2>2 DEF PhaseEnd
    <2>4. adv' = IdleAdv
      BY <2>1, <2>2, OneDue
    <2>5. \A q \in Rounds : phase'[q] = phase[q] \/ (phase'[q] # "completed" /\ clock < 3 * q)
      BY <1>0, <2>1, <2>3
    <2> QED BY <1>4, <1>6, <2>4, <2>5 DEF AdvancePhase, IdleAdv
  <1>7. ASSUME NEW r \in Rounds, ReadRound(r) PROVE RewardInv'
    <2>1. <<r, "settling">> \in adv.todo /\ "settling" \in Phases
          /\ UNCHANGED <<comp, phase, clock, paid, attacks>>
      BY <1>7 DEF ReadRound, Phases
    <2>2. Taken(r, "settling") \in AdvRec /\ Taken(r, "settling").todo = {}
      BY <1>0, <2>1, OneDue DEF Taken, AdvRec
    <2>3. adv'.pc = "settle" /\ adv'.r = r /\ adv'.todo = {} /\ adv'.hit = Attacked(r)
      BY <1>7, <2>2 DEF ReadRound, AdvRec
    <2>4. adv'.hit = Attacked(adv.r)'
      BY <2>1, <2>3 DEF Attacked
    <2>5. ASSUME NEW q \in Rounds, NEW t \in Teams, paid'[q][t] # 0 PROVE Ended(q)'
      BY <2>1, <2>3, <2>5 DEF RewardInv, Ended
    <2>6. DefenseRewardEarned'
      BY <2>1 DEF RewardInv, DefenseRewardEarned, Attacked
    <2> QED BY <1>2, <2>4, <2>5, <2>6
  <1>8. CASE SettleRound
    <2>1. PICK r \in Rounds : r = adv.r
      BY <1>8 DEF SettleRound, Settle, RoundInv
    <2> DEFINE free == Teams \ adv.hit
               row == [t \in Teams |-> paid[r][t] + IF t \in free THEN 1 ELSE 0]
    <2>2. /\ adv.pc = "settle" /\ clock = 3 * r /\ adv.hit = Attacked(r)
          /\ clock' = clock /\ (comp' = "running" => comp = "running") /\ UNCHANGED attacks
          /\ paid' = [paid EXCEPT ![r] = row]
          /\ phase' = [x \in Rounds |-> CASE x = r -> "completed"
                                          [] x = r + 1 -> "attacking"
                                          [] OTHER -> phase[x]]
      BY <1>8, <2>1 DEF SettleRound, Settle, RoundInv, RewardInv
    <2>3. adv'.pc # "settle" /\ adv'.todo = {}
      <3>1. adv' = [adv EXCEPT !.pc = "rank"] \/ adv' = [adv EXCEPT !.pc = "cache", !.left = Teams]
        BY <1>8 DEF SettleRound, Settle
      <3>2. adv.todo = {}
        BY <2>2 DEF RoundInv
      <3> QED BY <1>0, <3>1, <3>2 DEF AdvRec
    <2>4. \A t \in Teams : paid[r][t] = 0
      BY <2>1, <2>2 DEF RewardInv, Ended
    <2>5. \A t \in Teams : paid'[r][t] = IF t \in Attacked(r) THEN 0 ELSE 1
      <3>1. paid'[r] = row
        BY <1>0, <2>2
      <3> QED BY <2>2, <2>4, <3>1
    <2>6. \A q \in Rounds : q # r => paid'[q] = paid[q]
      BY <1>0, <2>2
    <2> HIDE DEF row
    <2>7. phase'[r] = "completed"
      BY <1>0, <2>2
    <2>8. \A q \in Rounds : q # r /\ q # r + 1 => phase'[q] = phase[q]
      BY <2>2
    <2>9. \A q \in Rounds : q = r + 1 => phase'[q] = "attacking" /\ clock < 3 * q
      BY <1>0, <2>2
    <2>10. ASSUME NEW q \in Rounds, NEW t \in Teams, paid'[q][t] # 0 PROVE Ended(q)'
      <3>1. CASE q = r
        BY <1>0, <2>2, <2>3, <2>7, <3>1 DEF Ended
      <3>2. CASE q # r
        <4>1. Ended(q)
          BY <2>6, <2>10, <3>2 DEF RewardInv
        <4>2. q # r + 1
          BY <1>0, <2>9, <4>1 DEF Ended
        <4> QED BY <2>2, <2>3, <2>8, <3>2, <4>1, <4>2 DEF Ended
      <3> QED BY <3>1, <3>2
    <2>11. DefenseRewardEarned'
      <3>1. \A q \in Rounds : Attacked(q)' = Attacked(q)
        BY <2>2 DEF Attacked
      <3>2. ASSUME NEW q \in Rounds, NEW t \in Teams
            PROVE  /\ paid'[q][t] <= IF t \in Attacked(q) THEN 0 ELSE 1
                   /\ comp' = "running" /\ phase'[q] = "completed" =>
                        paid'[q][t] = 1 \/ t \in Attacked(q)
        <4>1. CASE q = r
          BY <2>5, <4>1
        <4>2. CASE q # r
          BY <2>2, <2>6, <2>8, <2>9, <4>2 DEF RewardInv, DefenseRewardEarned
        <4> QED BY <4>1, <4>2
      <3> QED BY <3>1, <3>2 DEF DefenseRewardEarned
    <2> QED BY <1>2, <2>3, <2>10, <2>11
  <1>9. CASE CommitClose
    <2>1. UNCHANGED <<clock, adv, paid, attacks>> /\ comp' = "ended"
          /\ \A r \in Rounds : phase'[r] = "completed"
      BY <1>9 DEF CommitClose
    <2>2. DefenseRewardEarned'
      BY <2>1 DEF RewardInv, DefenseRewardEarned, Attacked
    <2> QED BY <1>2, <2>1, <2>2 DEF RewardInv, Ended, Attacked
  <1>10. CASE Boundary
    <2>1. UNCHANGED <<comp, phase, adv, paid, attacks>> /\ clock' = clock + 1
      BY <1>10 DEF Boundary
    <2>2. ASSUME NEW q \in Rounds, NEW t \in Teams, paid'[q][t] # 0 PROVE Ended(q)'
      BY <1>0, <2>1, <2>2 DEF RewardInv, Ended
    <2>3. DefenseRewardEarned'
      BY <2>1 DEF RewardInv, DefenseRewardEarned, Attacked
    <2> QED BY <1>2, <2>1, <2>2, <2>3 DEF RewardInv, Attacked
  <1>11. CASE /\ UNCHANGED <<comp, phase, clock>>
              /\ adv'.todo = {} /\ adv'.pc \notin {"list", "settle"}
    <2>1. UNCHANGED paid \/ SettleRound
      BY RecordSteps
    <2>2. UNCHANGED attacks \/ UNCHANGED <<comp, phase, clock, adv, paid>>
      BY AttackedStep
    <2> QED BY <1>3, <1>4, <1>8, <1>11, <2>1, <2>2
  <1>12. UNCHANGED paid \/ SettleRound
    BY RecordSteps
  <1> QED BY <1>3, <1>5, <1>6, <1>7, <1>8, <1>9, <1>10, <1>11, <1>12, RoundSteps

LEMMA RewardsHold == Spec => []RewardInv
  <1>1. Init => RewardInv
    <2> SUFFICES ASSUME Init PROVE RewardInv
      OBVIOUS
    <2>1. \A r \in Rounds, t \in Teams : paid[r][t] = 0 /\ phase[r] # "completed"
      BY DEF Init
    <2>2. \A s \in Threads : ~Attacking(s)
      BY DEF Init, IdleThread, Attacking
    <2>3. adv.pc # "settle"
      BY DEF Init, IdleAdv
    <2> QED BY <2>1, <2>2, <2>3 DEF RewardInv, InTime, DefenseRewardEarned
  <1>2. TypeOK /\ RoundInv /\ RoundInv' /\ RewardInv /\ [Next]_vars => RewardInv'
    BY RewardStep
  <1> QED BY <1>1, <1>2, TypeCorrect, RoundsHold, PTL DEF Spec

(* When a round is over, each team was broken into in that round or was    *)
(* paid its defence reward, and paid once: however long attacks are        *)
(* executed within the bound of the clock, and however often a settlement  *)
(* is rolled back, cut by a crash, or overtaken by the end.                *)
THEOREM RewardsAreEarned == Spec => []DefenseRewardEarned
  <1>1. RewardInv => DefenseRewardEarned
    BY DEF RewardInv
  <1> QED BY <1>1, RewardsHold, PTL

-----------------------------------------------------------------------------
(* Operations that do not overlap.  One operation or task is in flight at  *)
(* a time, so the copies it loaded stay true until it writes, and a cached *)
(* balance differs from the table only while the operation that changed it *)
(* is still to write it.                                                   *)

Alone ==
    /\ \A s, r \in Threads : ~At(s, "idle") /\ ~At(r, "idle") => s = r
    /\ \A s \in Threads : ~At(s, "idle") => adv = IdleAdv /\ sync.pc = "idle" /\ closer = "idle"
    /\ adv # IdleAdv => sync.pc = "idle" /\ closer = "idle"
    /\ sync.pc # "idle" => closer = "idle"

CopyTrue(s) ==
    LET r == th[s].r
        t == th[s].t
        g == th[s].g
        c == th[s].c
    IN  /\ th[s].pc \in {"lock", "exec", "pay"} =>
              /\ t # g /\ th[s].mine = balance[t] /\ th[s].his = balance[g]
              /\ <<g, c>> \notin patches /\ phase[r] = "attacking"
        /\ At(s, "pay") => th[s].n = CountSuccessful(c) + 1
        /\ th[s].pc \in {"verify", "patch"} => th[s].mine = balance[t] /\ <<t, c>> \notin patches
        /\ At(s, "patch") => th[s].n = IF \E o \in Teams : <<o, c>> \in patches THEN 0 ELSE 1
        /\ At(s, "own") => balance[t] = MineAfter(s)
        /\ th[s].pc \in {"own", "target"} /\ g # NoTeam => t # g /\ balance[g] = HisAfter(s)

RoundTrue ==
    /\ adv.pc = "settle" => adv.copy = balance
    /\ adv.pc = "cache" => \A t \in Teams : balance[t] = Rewarded(t)
    /\ adv.pc \in {"list", "settle", "cache"} \/ closer = "commit" => comp = "running"
    /\ comp # "running" => \A r \in Rounds : phase[r] = "completed"

Pending(x) ==
    \/ \E s \in Threads : \/ At(s, "own") /\ x \in {th[s].t, th[s].g}
                          \/ At(s, "target") /\ x = th[s].g
    \/ adv.pc = "cache" /\ x \in adv.left

CacheTrue ==
    /\ balance = booked
    /\ faults = 0 /\ comp = "running" => \A x \in Teams : cached[x] = balance[x] \/ Pending(x)
    /\ sync.pc # "idle" => /\ sync.pc = "read" /\ faults = 0 /\ comp = "running"
                           /\ sync.begun # 0 /\ sync.n = balance[sync.t]

TokenInv == Alone /\ (\A s \in Threads : CopyTrue(s)) /\ RoundTrue /\ CacheTrue

(* Who is in flight with a thread, and what a step of a thread leaves.     *)
LEMMA ThreadAlone ==
    ASSUME Alone, NEW s \in Threads, ~At(s, "idle")
    PROVE  /\ adv = IdleAdv /\ sync.pc = "idle" /\ closer = "idle"
           /\ \A r \in Threads : r # s => At(r, "idle")
  BY DEF Alone

LEMMA OperationKeeps ==
    ASSUME TypeOK, NEW s \in Threads, OperationStep(s)
    PROVE  /\ ~At(s, "idle")
           /\ UNCHANGED <<comp, ranked, phase, clock, paid, adv, sync, closer, faults>>
           /\ \A r \in Threads : r # s => th'[r] = th[r]
  BY DEF OperationStep, AcquireLock, AttackFails, AttackLands, PayAttack,
     CacheOwn, CacheTarget, PatchFails, PatchVerified, CommitPatch, Goto, Finish, Release,
     At, TypeOK, season, tokens, records, tasks

LEMMA RequestKeeps ==
    ASSUME TypeOK, ~Overlap, NEW s \in Threads, Request(s)
    PROVE  /\ Quiet
           /\ UNCHANGED <<season, tokens, records, cached, locks, tasks>>
           /\ \A r \in Threads : r # s => th'[r] = th[r]
           /\ th'[s].pc \in {"lock", "verify"}
  <1> USE DEF Load, TypeOK, MayStart
  <1>1. ASSUME NEW r \in Rounds, NEW t \in Teams, NEW c \in Challenges, StartDefense(s, r, t, c)
        PROVE  /\ Quiet
               /\ UNCHANGED <<season, tokens, records, cached, locks, tasks>>
               /\ \A q \in Threads : q # s => th'[q] = th[q]
               /\ th'[s].pc \in {"lock", "verify"}
    BY <1>1 DEF StartDefense
  <1>2. ASSUME NEW r \in Rounds, NEW t \in Teams, NEW c \in Challenges, NEW g \in Teams,
               StartAttack(s, r, t, g, c)
        PROVE  /\ Quiet
               /\ UNCHANGED <<season, tokens, records, cached, locks, tasks>>
               /\ \A q \in Threads : q # s => th'[q] = th[q]
               /\ th'[s].pc \in {"lock", "verify"}
    BY <1>2 DEF StartAttack
  <1> QED BY <1>1, <1>2 DEF Request

(* What the task leaves: the copies, and the other tasks.                  *)
LEMMA AdvanceKeeps ==
    ASSUME ~Overlap, Alone, AdvanceStep
    PROVE  /\ UNCHANGED <<ranked>> \/ RankAfterLastRound
           /\ UNCHANGED <<clock, attacks, patches, locks, th, sync, closer, faults>>
           /\ \A s \in Threads : At(s, "idle")
           /\ sync.pc = "idle" /\ closer = "idle"
           /\ adv = IdleAdv => ListDue
  <1>1. ASSUME adv # IdleAdv
        PROVE  (\A s \in Threads : At(s, "idle")) /\ sync.pc = "idle" /\ closer = "idle"
    BY <1>1 DEF Alone
  <1>2. CASE ListDue
    BY <1>2 DEF ListDue, MayStart, Quiet, season, tokens, records
  <1>3. CASE ~ListDue
    <2>1. adv.pc # "idle"
      BY <1>3 DEF AdvanceStep, SettleRound, Settle, RankAfterLastRound, AdvancePhase, ReadRound,
         CacheTeam
    <2>2. adv # IdleAdv
      BY <2>1 DEF IdleAdv
    <2> QED BY <1>1, <1>3, <2>2 DEF AdvanceStep, SettleRound, Settle, RankAfterLastRound,
            AdvancePhase, ReadRound, CacheTeam, season, tokens, records
  <1> QED BY <1>2, <1>3

LEMMA AloneStep ==
    ASSUME TypeOK, ~Overlap, Alone, [Next]_vars
    PROVE  Alone'
  <1> USE DEF season, tokens, records, tasks
  <1>1. ASSUME NEW s \in Threads, Request(s) PROVE Alone'
    BY <1>1, RequestKeeps DEF Alone, Quiet, At
  <1>2. ASSUME NEW s \in Threads, OperationStep(s) PROVE Alone'
    <2>1. /\ ~At(s, "idle")
          /\ UNCHANGED <<comp, ranked, phase, clock, paid, adv, sync, closer, faults>>
          /\ \A r \in Threads : r # s => th'[r] = th[r]
      BY <1>2, OperationKeeps
    <2>2. /\ adv = IdleAdv /\ sync.pc = "idle" /\ closer = "idle"
          /\ \A r \in Threads : r # s => At(r, "idle")
      BY <2>1, ThreadAlone
    <2> QED BY <2>1, <2>2 DEF Alone, At, IdleAdv
  <1>3. CASE AdvanceStep
    BY <1>3, AdvanceKeeps DEF Alone, At
  <1>4. CASE SettleFails
    <2>1. adv # IdleAdv
      BY <1>4 DEF SettleFails, IdleAdv
    <2> QED BY <1>4, <2>1 DEF SettleFails, Alone, At
  <1>5. CASE LockExpires \/ Boundary \/ UNCHANGED vars
    BY <1>5 DEF LockExpires, Boundary, vars, Alone, At, IdleAdv
  <1>6. ASSUME NEW t \in Teams, SyncLoad(t) PROVE Alone'
    BY <1>6 DEF SyncLoad, MayStart, Quiet, Alone, At, IdleAdv
  <1>7. CASE SyncRead \/ SyncWrite
    <2>1. sync.pc # "idle"
      BY <1>7 DEF SyncRead, SyncWrite
    <2>2. adv = IdleAdv /\ closer = "idle" /\ \A s \in Threads : At(s, "idle")
      BY <2>1 DEF Alone
    <2>3. UNCHANGED <<adv, closer, th>>
      BY <1>7 DEF SyncRead, SyncWrite
    <2> QED BY <2>2, <2>3 DEF Alone, At, IdleAdv
  <1>8. CASE BeginClose
    BY <1>8 DEF BeginClose, MayStart, Quiet, Alone, At, IdleAdv
  <1>9. CASE CommitClose \/ RankAfterClose
    <2>1. closer # "idle"
      BY <1>9 DEF CommitClose, RankAfterClose
    <2>2. adv = IdleAdv /\ sync.pc = "idle" /\ \A s \in Threads : At(s, "idle")
      BY <2>1 DEF Alone
    <2>3. UNCHANGED <<adv, sync, th>>
      BY <1>9 DEF CommitClose, RankAfterClose
    <2> QED BY <2>2, <2>3 DEF Alone, At, IdleAdv
  <1>10. CASE Crash
    <2>1. \A s \in Threads : At(s, "idle")'
      BY <1>10 DEF Crash, At, IdleThread
    <2> QED BY <1>10, <2>1 DEF Crash, Alone, At, IdleSync, IdleAdv
  <1> QED BY <1>1, <1>2, <1>3, <1>4, <1>5, <1>6, <1>7, <1>8, <1>9, <1>10 DEF Next

LEMMA RequestTokens ==
    ASSUME TypeOK, ~Overlap, TokenInv, NEW s \in Threads, Request(s), Alone'
    PROVE  TokenInv'
  <1> USE DEF season, tokens, records, tasks
  <1>1. /\ \A r \in Threads : At(r, "idle")
        /\ adv = IdleAdv /\ sync.pc = "idle" /\ closer = "idle"
        /\ UNCHANGED <<comp, phase, balance, booked, patches, cached, adv, sync, closer, faults>>
        /\ \A r \in Threads : r # s => th'[r] = th[r]
        /\ th'[s].pc \in {"lock", "verify"}
    BY RequestKeeps DEF Quiet
  <1>2. \A r \in Threads : r # s => CopyTrue(r)'
    BY <1>1 DEF CopyTrue, At
  <1>3. CopyTrue(s)'
    <2>1. ASSUME NEW r \in Rounds, NEW t \in Teams, NEW c \in Challenges, StartDefense(s, r, t, c)
          PROVE  CopyTrue(s)'
      <3>1. /\ th'[s].pc = "verify" /\ th'[s].t = t /\ th'[s].c = c /\ th'[s].mine = balance[t]
            /\ <<t, c>> \notin patches
        BY <2>1 DEF StartDefense, Load, TypeOK, HasAcceptedPatch
      <3> QED BY <1>1, <3>1 DEF CopyTrue, At
    <2>2. ASSUME NEW r \in Rounds, NEW t \in Teams, NEW c \in Challenges, NEW g \in Teams,
                 StartAttack(s, r, t, g, c)
          PROVE  CopyTrue(s)'
      <3>1. /\ th'[s].pc = "lock" /\ th'[s].t = t /\ th'[s].c = c /\ th'[s].g = g /\ th'[s].r = r
            /\ th'[s].mine = balance[t] /\ th'[s].his = balance[g]
            /\ t # g /\ <<g, c>> \notin patches /\ phase[r] = "attacking"
        BY <2>2, NamesAssumption DEF StartAttack, Load, TypeOK, HasAcceptedPatch
      <3> QED BY <1>1, <3>1 DEF CopyTrue, At
    <2> QED BY <2>1, <2>2 DEF Request
  <1>4. RoundTrue'
    BY <1>1 DEF TokenInv, RoundTrue, IdleAdv
  <1>5. CacheTrue'
    <2>1. \A x \in Teams : ~Pending(x)
      BY <1>1 DEF Pending, At, IdleAdv
    <2> QED BY <1>1, <2>1 DEF TokenInv, CacheTrue
  <1> QED BY <1>2, <1>3, <1>4, <1>5 DEF TokenInv

LEMMA OperationTokens ==
    ASSUME TypeOK, TokenInv, NEW s \in Threads, OperationStep(s), Alone'
    PROVE  TokenInv'
  <1> USE DEF season, tokens, records, tasks
  <1>1. /\ ~At(s, "idle")
        /\ UNCHANGED <<comp, phase, adv, sync, closer, faults>>
        /\ \A r \in Threads : r # s => th'[r] = th[r]
        /\ adv = IdleAdv /\ sync.pc = "idle" /\ closer = "idle"
        /\ \A r \in Threads : r # s => At(r, "idle")
    BY OperationKeeps, ThreadAlone DEF TokenInv
  <1>2. \A r \in Threads : r # s => CopyTrue(r)'
    BY <1>1 DEF CopyTrue, At
  <1>3. RoundTrue'
    BY <1>1 DEF TokenInv, RoundTrue, IdleAdv
  <1>4. CopyTrue(s) /\ balance = booked
    BY DEF TokenInv, CacheTrue
  <1>5. /\ th[s].t \in Teams /\ th[s].c \in Challenges /\ th[s].mine \in Nat /\ NoTeam \notin Teams
        /\ th[s].pc \in {"lock", "exec", "pay", "target"} => th[s].g \in Teams
        /\ th[s].pc \in {"verify", "patch"} => th[s].g = NoTeam /\ th[s].n \in {0, 1}
        /\ th[s] \in ThreadRec /\ th[s] # IdleThread
        /\ balance \in [Teams -> Nat] /\ booked \in [Teams -> Nat] /\ cached \in [Teams -> Nat]
        /\ th \in [Threads -> ThreadRec]
    BY <1>1, Loaded, NamesAssumption DEF Serving, TypeOK
  <1>6. ASSUME faults = 0, comp = "running", NEW x \in Teams,
               ~(At(s, "own") /\ x \in {th[s].t, th[s].g}), ~(At(s, "target") /\ x = th[s].g)
        PROVE  cached[x] = balance[x]
    <2>1. ~Pending(x)
      BY <1>1, <1>6 DEF Pending, At, IdleAdv
    <2> QED BY <1>6, <2>1 DEF TokenInv, CacheTrue
  <1>7. ASSUME CopyTrue(s)', balance' = booked',
               \A x \in Teams : faults = 0 /\ comp = "running" =>
                   cached'[x] = balance'[x] \/ Pending(x)'
        PROVE  TokenInv'
    <2>1. CacheTrue'
      BY <1>1, <1>7 DEF CacheTrue
    <2> QED BY <1>2, <1>3, <1>7, <2>1 DEF TokenInv
  <1>8. CASE Finish(s) /\ th[s].pc \notin {"own", "target"}
             /\ UNCHANGED <<balance, booked, cached>>
    <2>1. th'[s].pc = "idle"
      BY <1>5, <1>8 DEF Finish, IdleThread
    <2> QED BY <1>4, <1>6, <1>7, <1>8, <2>1 DEF CopyTrue, At
  <1>9. CASE AcquireLock(s)
    <2>1. CASE Finish(s)
      BY <1>8, <1>9, <2>1 DEF AcquireLock, At
    <2>2. CASE Goto(s, "exec")
      <3>1. /\ th'[s].pc = "exec" /\ th'[s].r = th[s].r /\ th'[s].t = th[s].t
            /\ th'[s].g = th[s].g /\ th'[s].c = th[s].c /\ th'[s].mine = th[s].mine
            /\ th'[s].his = th[s].his
        BY <1>1, <2>2, GotoIs
      <3>2. CopyTrue(s)'
        BY <1>1, <1>4, <1>9, <3>1 DEF CopyTrue, At, AcquireLock
      <3> QED BY <1>4, <1>6, <1>7, <1>9, <3>2 DEF AcquireLock, At
    <2> QED BY <1>9, <2>1, <2>2 DEF AcquireLock
  <1>10. CASE AttackFails(s) \/ PatchFails(s)
    BY <1>8, <1>10 DEF AttackFails, PatchFails, Release, At
  <1>11. CASE AttackLands(s)
    <2>1. /\ th'[s].pc = "pay" /\ th'[s].r = th[s].r /\ th'[s].t = th[s].t
          /\ th'[s].g = th[s].g /\ th'[s].c = th[s].c /\ th'[s].mine = th[s].mine
          /\ th'[s].his = th[s].his /\ th'[s].n = CountSuccessful(th[s].c) + 1
      BY <1>5, <1>11 DEF AttackLands, ThreadRec, Serving
    <2>2. CountSuccessful(th[s].c) = CountSuccessful(th[s].c)'
      BY <1>11, <2>1 DEF AttackLands, CountSuccessful
    <2>3. CopyTrue(s)'
      <3>1. th[s].pc = "exec" /\ UNCHANGED <<balance, patches, phase>>
        BY <1>1, <1>11 DEF AttackLands, At
      <3> QED BY <1>4, <2>1, <2>2, <3>1 DEF CopyTrue, At, CountSuccessful
    <2> QED BY <1>4, <1>6, <1>7, <1>11, <2>3 DEF AttackLands, At
  <1>12. CASE PayAttack(s)
    <2>1. /\ th'[s].pc = "own" /\ th'[s].t = th[s].t /\ th'[s].g = th[s].g
          /\ th'[s].mine = th[s].mine /\ th'[s].his = th[s].his /\ th'[s].n = th[s].n
      BY <1>1, <1>12, GotoIs DEF PayAttack
    <2>2. MineAfter(s)' = MineAfter(s) /\ HisAfter(s)' = HisAfter(s)
      BY <2>1 DEF MineAfter, HisAfter
    <2>3. th[s].t # th[s].g /\ th[s].g \in Teams /\ At(s, "pay")
      BY <1>4, <1>5, <1>12 DEF PayAttack, CopyTrue, At
    <2>4. /\ balance'[th[s].t] = MineAfter(s) /\ balance'[th[s].g] = HisAfter(s)
          /\ \A x \in Teams : x \notin {th[s].t, th[s].g} => balance'[x] = balance[x]
      BY <1>5, <1>12, <2>3 DEF PayAttack
    <2>5. CopyTrue(s)'
      BY <2>1, <2>2, <2>3, <2>4 DEF CopyTrue, At
    <2>6. balance' = booked' /\ cached' = cached
      BY <1>4, <1>12 DEF PayAttack
    <2>7. ASSUME NEW x \in Teams, faults = 0 /\ comp = "running"
          PROVE  cached'[x] = balance'[x] \/ Pending(x)'
      <3>1. CASE x \in {th[s].t, th[s].g}
        BY <2>1, <3>1 DEF Pending, At
      <3>2. CASE x \notin {th[s].t, th[s].g}
        BY <1>6, <2>3, <2>4, <2>6, <2>7, <3>2 DEF At
      <3> QED BY <3>1, <3>2
    <2> QED BY <1>7, <2>5, <2>6, <2>7
  <1>13. CASE CacheOwn(s)
    <2>1. /\ UNCHANGED <<balance, booked>> /\ cached' = [cached EXCEPT ![th[s].t] = balance[th[s].t]]
          /\ At(s, "own")
      BY <1>4, <1>13 DEF CacheOwn, CopyTrue
    <2>2. CASE th[s].g = NoTeam
      <3>1. th'[s].pc = "idle"
        BY <1>5, <1>13, <2>2 DEF CacheOwn, Finish, IdleThread
      <3>2. CopyTrue(s)'
        BY <3>1 DEF CopyTrue, At
      <3>3. ASSUME NEW x \in Teams, faults = 0 /\ comp = "running" PROVE cached'[x] = balance'[x]
        <4>1. x # th[s].t => cached[x] = balance[x]
          BY <1>5, <1>6, <2>1, <2>2, <3>3 DEF At
        <4> QED BY <1>5, <2>1, <4>1
      <3> QED BY <1>4, <1>7, <2>1, <3>2, <3>3
    <2>3. CASE th[s].g # NoTeam
      <3>1. /\ th'[s].pc = "target" /\ th'[s].t = th[s].t /\ th'[s].g = th[s].g
            /\ th'[s].mine = th[s].mine /\ th'[s].his = th[s].his /\ th'[s].n = th[s].n
        BY <1>1, <1>13, <2>3, GotoIs DEF CacheOwn
      <3>2. HisAfter(s)' = HisAfter(s)
        BY <3>1 DEF HisAfter
      <3>3. CopyTrue(s)'
        BY <1>4, <2>1, <2>3, <3>1, <3>2 DEF CopyTrue, At
      <3>4. ASSUME NEW x \in Teams, faults = 0 /\ comp = "running"
            PROVE  cached'[x] = balance'[x] \/ Pending(x)'
        <4>1. CASE x = th[s].g
          BY <3>1, <4>1 DEF Pending, At
        <4>2. CASE x # th[s].g
          <5>1. x # th[s].t => cached[x] = balance[x]
            BY <1>6, <2>1, <3>4, <4>2 DEF At
          <5> QED BY <1>5, <2>1, <5>1
        <4> QED BY <4>1, <4>2
      <3> QED BY <1>4, <1>7, <2>1, <3>3, <3>4
    <2> QED BY <2>2, <2>3
  <1>14. CASE CacheTarget(s)
    <2>1. At(s, "target") /\ th[s].g \in Teams
      BY <1>5, <1>14 DEF CacheTarget, At
    <2>2. /\ UNCHANGED <<balance, booked>> /\ cached' = [cached EXCEPT ![th[s].g] = balance[th[s].g]]
      BY <1>4, <1>5, <1>14, <2>1 DEF CacheTarget, CopyTrue, At
    <2>3. th'[s].pc = "idle"
      BY <1>5, <1>14 DEF CacheTarget, Release, Finish, IdleThread
    <2>4. CopyTrue(s)'
      BY <2>3 DEF CopyTrue, At
    <2>5. ASSUME NEW x \in Teams, faults = 0 /\ comp = "running" PROVE cached'[x] = balance'[x]
      <3>1. x # th[s].g => cached[x] = balance[x]
        BY <1>6, <2>1, <2>5 DEF At
      <3> QED BY <1>5, <2>2, <3>1
    <2> QED BY <1>4, <1>7, <2>2, <2>4, <2>5
  <1>15. CASE PatchVerified(s)
    <2> DEFINE n == IF \E o \in Teams : <<o, th[s].c>> \in patches THEN 0 ELSE 1
    <2>1. th' = [th EXCEPT ![s] = [th[s] EXCEPT !.pc = "patch", !.n = n]]
      BY <1>15 DEF PatchVerified, HasAcceptedPatch
    <2>2. /\ th'[s].pc = "patch" /\ th'[s].t = th[s].t /\ th'[s].g = th[s].g
          /\ th'[s].c = th[s].c /\ th'[s].mine = th[s].mine /\ th'[s].n = n
      <3> HIDE DEF n
      <3> QED BY <1>5, <2>1 DEF ThreadRec, Serving
    <2>3. CopyTrue(s)'
      <3>1. /\ th[s].pc = "verify" /\ UNCHANGED <<balance, patches>>
            /\ th[s].mine = balance[th[s].t] /\ <<th[s].t, th[s].c>> \notin patches
        BY <1>4, <1>15 DEF PatchVerified, CopyTrue, At
      <3>2. th'[s].n = IF \E o \in Teams : <<o, th'[s].c>> \in patches' THEN 0 ELSE 1
        BY <2>2, <3>1
      <3> HIDE DEF n
      <3> QED BY <2>2, <3>1, <3>2 DEF CopyTrue, At
    <2> QED BY <1>4, <1>6, <1>7, <1>15, <2>3 DEF PatchVerified, At
  <1>16. CASE CommitPatch(s)
    <2>1. /\ th'[s].pc = "own" /\ th'[s].t = th[s].t /\ th'[s].g = th[s].g
          /\ th'[s].mine = th[s].mine /\ th'[s].n = th[s].n
      BY <1>1, <1>16, GotoIs DEF CommitPatch
    <2>2. MineAfter(s)' = MineAfter(s)
      BY <2>1 DEF MineAfter
    <2>3. /\ At(s, "patch") /\ th[s].g = NoTeam /\ th[s].n \in {0, 1}
          /\ th[s].mine = balance[th[s].t]
      BY <1>4, <1>5, <1>16 DEF CommitPatch, CopyTrue, At
    <2>4. balance' = [balance EXCEPT ![th[s].t] = MineAfter(s)] /\ cached' = cached
      BY <1>16 DEF CommitPatch
    <2>5. balance' = booked'
      <3>1. CASE th[s].n = 1
        BY <1>4, <1>16, <3>1 DEF CommitPatch
      <3>2. CASE th[s].n # 1
        <4>1. th[s].n = 0
          BY <2>3, <3>2
        <4>2. MineAfter(s) = balance[th[s].t]
          BY <1>5, <2>3, <4>1, TokenAssumption DEF MineAfter
        <4>3. balance' = balance
          BY <1>5, <2>4, <4>2
        <4> QED BY <1>4, <1>16, <3>2, <4>3 DEF CommitPatch
      <3> QED BY <3>1, <3>2
    <2>6. CopyTrue(s)'
      BY <1>5, <2>1, <2>2, <2>3, <2>4 DEF CopyTrue, At
    <2>7. ASSUME NEW x \in Teams, faults = 0 /\ comp = "running"
          PROVE  cached'[x] = balance'[x] \/ Pending(x)'
      <3>1. CASE x = th[s].t
        BY <2>1, <3>1 DEF Pending, At
      <3>2. CASE x # th[s].t
        BY <1>5, <1>6, <2>3, <2>4, <2>7, <3>2 DEF At
      <3> QED BY <3>1, <3>2
    <2> QED BY <1>7, <2>5, <2>6, <2>7
  <1> QED BY <1>9, <1>10, <1>11, <1>12, <1>13, <1>14, <1>15, <1>16 DEF OperationStep

LEMMA AdvanceTokens ==
    ASSUME TypeOK, RoundInv, ~Overlap, TokenInv, AdvanceStep, Alone'
    PROVE  TokenInv'
  <1> USE DEF season, tokens, records, tasks
  <1>1. /\ \A s \in Threads : At(s, "idle")
        /\ sync.pc = "idle" /\ closer = "idle"
        /\ UNCHANGED <<clock, th, sync, closer, faults>>
    BY AdvanceKeeps DEF TokenInv
  <1>2. \A s \in Threads : CopyTrue(s)'
    BY <1>1 DEF CopyTrue, At
  <1>3. ASSUME RoundTrue', balance' = booked',
               \A x \in Teams : faults = 0 /\ comp' = "running" =>
                   cached'[x] = balance'[x] \/ Pending(x)'
        PROVE  TokenInv'
    <2>1. CacheTrue'
      BY <1>1, <1>3 DEF CacheTrue
    <2> QED BY <1>2, <1>3, <2>1 DEF TokenInv
  <1>4. /\ balance = booked /\ adv \in AdvRec /\ phase \in [Rounds -> Phases]
        /\ balance \in [Teams -> Nat] /\ cached \in [Teams -> Nat]
    BY DEF TokenInv, CacheTrue, TypeOK
  <1>5. ASSUME NEW x \in Teams, faults = 0, comp = "running",
               ~(adv.pc = "cache" /\ x \in adv.left)
        PROVE  cached[x] = balance[x]
    <2>1. ~Pending(x)
      BY <1>1, <1>5 DEF Pending, At
    <2> QED BY <1>5, <2>1 DEF TokenInv, CacheTrue
  <1>6. CASE ListDue
    <2>1. /\ adv.pc = "idle" /\ adv'.pc = "list"
          /\ UNCHANGED <<comp, phase, balance, booked, cached>>
      BY <1>6 DEF ListDue, IdleAdv
    <2>2. comp = "running"
      BY <1>6 DEF ListDue, Due, TokenInv, RoundTrue
    <2>3. RoundTrue'
      BY <1>1, <2>1, <2>2 DEF RoundTrue
    <2> QED BY <1>3, <1>4, <1>5, <2>1, <2>3
  <1>7. ASSUME NEW r \in Rounds, AdvancePhase(r) PROVE TokenInv'
    <2>1. PICK p \in {"attacking", "defending"} : <<r, p>> \in adv.todo /\ adv' = Back(Taken(r, p))
      BY <1>7 DEF AdvancePhase
    <2>2. p \in Phases
      BY DEF Phases
    <2>3. adv.pc = "list" /\ UNCHANGED <<comp, balance, booked, cached>> /\ adv' = IdleAdv
      BY <1>7, <2>1, <2>2, OneDue DEF AdvancePhase
    <2>4. RoundTrue'
      BY <1>1, <2>3 DEF TokenInv, RoundTrue, IdleAdv
    <2> QED BY <1>3, <1>4, <1>5, <2>3, <2>4
  <1>8. ASSUME NEW r \in Rounds, ReadRound(r) PROVE TokenInv'
    <2>1. /\ adv.pc = "list" /\ UNCHANGED <<comp, phase, balance, booked, cached>>
          /\ adv'.pc = "settle" /\ adv'.copy = balance
      <3>1. Taken(r, "settling") \in AdvRec
        BY <1>4 DEF Taken, AdvRec
      <3> QED BY <1>8, <3>1 DEF ReadRound, AdvRec
    <2>2. RoundTrue'
      BY <1>1, <2>1 DEF TokenInv, RoundTrue
    <2> QED BY <1>3, <1>4, <1>5, <2>1, <2>2
  <1>9. CASE SettleRound
    <2>1. PICK r \in Rounds : r = adv.r
      BY <1>9 DEF SettleRound, Settle, RoundInv
    <2>2. /\ adv.pc = "settle" /\ adv.copy = balance /\ comp = "running" /\ clock = 3 * r
      BY <1>9, <2>1 DEF SettleRound, Settle, TokenInv, RoundTrue, RoundInv
    <2>3. /\ balance' = [t \in Teams |-> IF t \in Teams \ adv.hit THEN Rewarded(t) ELSE balance[t]]
          /\ booked' = [t \in Teams |-> IF t \in Teams \ adv.hit THEN Rewarded(t) ELSE booked[t]]
          /\ cached' = cached
          /\ comp' = IF r = NRounds THEN "ended" ELSE comp
          /\ adv' = IF r = NRounds THEN [adv EXCEPT !.pc = "rank"]
                    ELSE [adv EXCEPT !.pc = "cache", !.left = Teams]
          /\ phase' = [x \in Rounds |-> CASE x = r -> "completed"
                                          [] x = r + 1 -> "attacking"
                                          [] OTHER -> phase[x]]
      BY <1>9, <2>1 DEF SettleRound, Settle
    <2>4. \A t \in Teams : balance'[t] = Rewarded(t)
      BY <2>2, <2>3 DEF Rewarded
    <2>5. /\ adv'.copy = adv.copy /\ adv'.hit = adv.hit
          /\ adv'.pc = (IF r = NRounds THEN "rank" ELSE "cache")
          /\ (r # NRounds => adv'.left = Teams)
      BY <1>4, <2>3 DEF AdvRec
    <2>6. \A t \in Teams : Rewarded(t)' = Rewarded(t)
      BY <2>5 DEF Rewarded
    <2>7. CASE r = NRounds
      <3>1. ASSUME NEW q \in Rounds PROVE phase'[q] = "completed"
        <4>1. q \in Nat /\ q <= r /\ r \in Nat
          BY <2>7, BoundAssumption DEF Rounds
        <4>2. CASE q = r
          BY <2>3, <4>1, <4>2
        <4>3. CASE q # r
          <5>1. phase[q] = "completed"
            BY <1>4, <2>2, <4>1, <4>3 DEF RoundInv, Phases
          <5> QED BY <2>3, <4>1, <4>3, <5>1
        <4> QED BY <4>2, <4>3
      <3>2. RoundTrue'
        BY <1>1, <2>3, <2>5, <2>7, <3>1 DEF RoundTrue
      <3> QED BY <1>3, <1>4, <2>3, <2>7, <3>2
    <2>8. CASE r # NRounds
      <3>1. RoundTrue'
        BY <1>1, <2>2, <2>3, <2>4, <2>5, <2>6, <2>8 DEF RoundTrue
      <3>2. \A x \in Teams : Pending(x)'
        BY <2>5, <2>8 DEF Pending
      <3> QED BY <1>3, <1>4, <2>3, <3>1, <3>2
    <2> QED BY <2>7, <2>8
  <1>10. CASE RankAfterLastRound
    <2>1. adv.pc = "rank" /\ adv' = IdleAdv /\ UNCHANGED <<comp, phase, balance, booked, cached>>
      BY <1>10 DEF RankAfterLastRound, RoundInv, Back
    <2>2. RoundTrue'
      BY <1>1, <2>1 DEF TokenInv, RoundTrue, IdleAdv
    <2> QED BY <1>3, <1>4, <1>5, <2>1, <2>2
  <1>11. ASSUME NEW t \in Teams, CacheTeam(t) PROVE TokenInv'
    <2>1. /\ adv.pc = "cache" /\ t \in adv.left /\ UNCHANGED <<comp, phase, balance, booked>>
          /\ adv' = IF adv.left = {t} THEN IdleAdv ELSE [adv EXCEPT !.left = @ \ {t}]
          /\ cached' = [cached EXCEPT ![t] = Rewarded(t)]
          /\ \A x \in Teams : balance[x] = Rewarded(x)
          /\ comp = "running"
      BY <1>11 DEF CacheTeam, RoundInv, Back, TokenInv, RoundTrue
    <2>2. CASE adv.left = {t}
      <3>1. RoundTrue'
        BY <1>1, <2>1, <2>2 DEF TokenInv, RoundTrue, IdleAdv
      <3>2. ASSUME NEW x \in Teams, faults = 0 PROVE cached'[x] = balance'[x]
        BY <1>4, <1>5, <2>1, <2>2, <3>2
      <3> QED BY <1>3, <1>4, <2>1, <3>1, <3>2
    <2>3. CASE adv.left # {t}
      <3>1. /\ adv'.pc = "cache" /\ adv'.copy = adv.copy /\ adv'.hit = adv.hit
            /\ adv'.left = adv.left \ {t}
        BY <1>4, <2>1, <2>3 DEF AdvRec
      <3>2. \A x \in Teams : Rewarded(x)' = Rewarded(x)
        BY <3>1 DEF Rewarded
      <3>3. RoundTrue'
        BY <1>1, <2>1, <3>1, <3>2 DEF RoundTrue
      <3>4. ASSUME NEW x \in Teams, faults = 0 PROVE cached'[x] = balance'[x] \/ Pending(x)'
        <4>1. CASE x \in adv.left /\ x # t
          BY <3>1, <4>1 DEF Pending
        <4>2. CASE x = t
          BY <1>4, <2>1, <4>2
        <4>3. CASE x \notin adv.left
          BY <1>4, <1>5, <2>1, <3>4, <4>3
        <4> QED BY <4>1, <4>2, <4>3
      <3> QED BY <1>3, <1>4, <2>1, <3>3, <3>4
    <2> QED BY <2>2, <2>3
  <1> QED BY <1>6, <1>7, <1>8, <1>9, <1>10, <1>11 DEF AdvanceStep

LEMMA OtherTokens ==
    ASSUME TypeOK, RoundInv, ~Overlap, TokenInv, Alone',
           \/ LockExpires \/ SettleFails \/ (\E t \in Teams : SyncLoad(t)) \/ SyncRead
           \/ SyncWrite \/ BeginClose \/ CommitClose \/ RankAfterClose \/ Boundary \/ Crash
           \/ UNCHANGED vars
    PROVE  TokenInv'
  <1> USE DEF season, tokens, records, tasks
  <1>1. CASE LockExpires \/ Boundary \/ UNCHANGED vars
    <2>1. UNCHANGED <<comp, phase, balance, booked, patches, attacks, cached, th, adv, sync,
                      closer, faults>>
      BY <1>1 DEF LockExpires, Boundary, vars
    <2>2. \A s \in Threads : CopyTrue(s)'
      BY <2>1 DEF TokenInv, CopyTrue, At, MineAfter, HisAfter, CountSuccessful
    <2>3. RoundTrue' /\ CacheTrue'
      BY <2>1 DEF TokenInv, RoundTrue, CacheTrue, Pending, At, Rewarded
    <2> QED BY <2>2, <2>3 DEF TokenInv
  <1>2. ASSUME \A s \in Threads : At(s, "idle"), th' = th
        PROVE  \A s \in Threads : CopyTrue(s)'
    BY <1>2 DEF CopyTrue, At
  <1>3. faults \in Nat
    BY BoundAssumption DEF TypeOK
  <1>4. CASE SettleFails
    <2>1. adv' = IdleAdv /\ faults' = faults + 1 /\ adv # IdleAdv
          /\ UNCHANGED <<comp, phase, balance, booked, th, sync, closer>>
      BY <1>4 DEF SettleFails, RoundInv, Back, IdleAdv
    <2>2. sync.pc = "idle" /\ \A s \in Threads : At(s, "idle")
      BY <2>1 DEF TokenInv, Alone
    <2>3. RoundTrue'
      BY <2>1 DEF TokenInv, RoundTrue, IdleAdv
    <2>4. CacheTrue'
      BY <1>3, <2>1, <2>2 DEF TokenInv, CacheTrue
    <2> QED BY <1>2, <2>1, <2>2, <2>3, <2>4 DEF TokenInv
  <1>5. CASE Crash
    <2>1. /\ adv' = IdleAdv /\ faults' = faults + 1 /\ sync'.pc = "idle" /\ closer' = "idle"
          /\ UNCHANGED <<comp, phase, balance, booked>>
          /\ \A s \in Threads : th'[s].pc = "idle"
      BY <1>5 DEF Crash, IdleSync, IdleThread
    <2>2. \A s \in Threads : CopyTrue(s)'
      BY <2>1 DEF CopyTrue, At
    <2>3. RoundTrue'
      BY <2>1 DEF TokenInv, RoundTrue, IdleAdv
    <2>4. CacheTrue'
      BY <1>3, <2>1 DEF TokenInv, CacheTrue
    <2> QED BY <2>2, <2>3, <2>4 DEF TokenInv
  <1>6. ASSUME \A s \in Threads : At(s, "idle"), adv = IdleAdv,
               UNCHANGED <<th, adv, balance, booked, cached, faults>>, comp' = "running" => comp = "running"
        PROVE  /\ balance' = booked'
               /\ faults' = 0 /\ comp' = "running" => cached = balance
    <2>1. \A x \in Teams : ~Pending(x)
      BY <1>6 DEF Pending, At, IdleAdv
    <2>2. cached \in [Teams -> Nat] /\ balance \in [Teams -> Nat]
      BY DEF TypeOK
    <2>3. balance = booked
      BY DEF TokenInv, CacheTrue
    <2>4. faults = 0 /\ comp = "running" => \A x \in Teams : cached[x] = balance[x]
      BY <2>1 DEF TokenInv, CacheTrue
    <2> QED BY <1>6, <2>2, <2>3, <2>4
  <1>7. ASSUME NEW t \in Teams, SyncLoad(t) PROVE TokenInv'
    <2>1. /\ \A s \in Threads : At(s, "idle")
          /\ adv = IdleAdv /\ closer = "idle" /\ comp = "running" /\ faults = 0
          /\ UNCHANGED <<comp, phase, th, adv, balance, booked, cached, closer, faults>>
          /\ sync' = [pc |-> "read", t |-> t, n |-> balance[t], begun |-> sync.begun + 1]
          /\ sync.begun \in Nat
      <3>1. sync.begun \in Nat
        BY BoundAssumption DEF TypeOK, SyncRec, IdleSync
      <3> QED BY <1>7, <3>1 DEF SyncLoad, MayStart, Quiet
    <2>2. RoundTrue'
      BY <2>1 DEF TokenInv, RoundTrue, IdleAdv
    <2>3. CacheTrue'
      <3>1. sync'.begun # 0
        BY <2>1
      <3> QED BY <1>6, <2>1, <3>1 DEF CacheTrue
    <2> QED BY <1>2, <2>1, <2>2, <2>3 DEF TokenInv
  <1>8. CASE SyncRead
    <2>1. /\ sync.pc = "read" /\ faults = 0 /\ comp = "running" /\ sync.n = balance[sync.t]
          /\ adv = IdleAdv /\ closer = "idle" /\ \A s \in Threads : At(s, "idle")
          /\ UNCHANGED <<comp, phase, th, adv, balance, booked, cached, closer, faults>>
      BY <1>8 DEF SyncRead, TokenInv, CacheTrue, Alone
    <2>2. sync.t \in Teams
      BY <2>1 DEF TypeOK, SyncRec, IdleSync
    <2>3. cached = balance /\ balance' = booked'
      BY <1>6, <2>1
    <2>4. sync'.pc = "idle"
      BY <1>8, <2>1, <2>2, <2>3 DEF SyncRead, SyncDone, IdleSync
    <2>5. RoundTrue'
      BY <2>1 DEF TokenInv, RoundTrue, IdleAdv
    <2>6. CacheTrue'
      BY <2>1, <2>3, <2>4 DEF CacheTrue
    <2> QED BY <1>2, <2>1, <2>5, <2>6 DEF TokenInv
  <1>9. ~SyncWrite
    BY DEF SyncWrite, TokenInv, CacheTrue
  <1>10. CASE BeginClose
    <2>1. /\ \A s \in Threads : At(s, "idle")
          /\ adv = IdleAdv /\ sync.pc = "idle" /\ comp = "running"
          /\ UNCHANGED <<comp, phase, th, adv, balance, booked, cached, sync, faults>>
      BY <1>10 DEF BeginClose, MayStart, Quiet
    <2>2. RoundTrue'
      BY <2>1 DEF TokenInv, RoundTrue, IdleAdv
    <2>3. CacheTrue'
      BY <1>6, <2>1 DEF CacheTrue
    <2> QED BY <1>2, <2>1, <2>2, <2>3 DEF TokenInv
  <1>11. CASE CommitClose \/ RankAfterClose
    <2>1. /\ closer # "idle" /\ closer' # "commit"
          /\ UNCHANGED <<th, adv, balance, booked, cached, sync, faults>>
          /\ \/ comp' = "ended" /\ \A r \in Rounds : phase'[r] = "completed"
             \/ UNCHANGED <<comp, phase>>
      BY <1>11 DEF CommitClose, RankAfterClose
    <2>2. adv = IdleAdv /\ sync.pc = "idle" /\ \A s \in Threads : At(s, "idle")
      BY <2>1 DEF TokenInv, Alone
    <2>3. RoundTrue'
      BY <2>1, <2>2 DEF TokenInv, RoundTrue, IdleAdv
    <2>4. CacheTrue'
      BY <1>6, <2>1, <2>2 DEF CacheTrue
    <2> QED BY <1>2, <2>1, <2>2, <2>3, <2>4 DEF TokenInv
  <1> QED BY <1>1, <1>4, <1>5, <1>7, <1>8, <1>9, <1>10, <1>11

LEMMA TokenInit == Init => TokenInv
  <1> SUFFICES ASSUME Init PROVE TokenInv
    OBVIOUS
  <1>1. \A s \in Threads : th[s].pc = "idle"
    BY DEF Init, IdleThread
  <1>2. adv.pc = "idle" /\ adv = IdleAdv /\ sync.pc = "idle" /\ closer = "idle" /\ comp = "running"
    BY DEF Init, IdleAdv, IdleSync
  <1>3. Alone /\ (\A s \in Threads : CopyTrue(s)) /\ RoundTrue
    BY <1>1, <1>2 DEF Alone, CopyTrue, RoundTrue, At
  <1>4. CacheTrue
    BY <1>2 DEF Init, CacheTrue
  <1> QED BY <1>3, <1>4 DEF TokenInv

LEMMA TokensHold == ASSUME ~Overlap PROVE Spec => []TokenInv
  <1>1. TypeOK /\ RoundInv /\ TokenInv /\ [Next]_vars => TokenInv'
    <2> SUFFICES ASSUME TypeOK, RoundInv, TokenInv, [Next]_vars PROVE TokenInv'
      OBVIOUS
    <2>1. Alone'
      BY AloneStep DEF TokenInv
    <2> QED BY <2>1, RequestTokens, OperationTokens, AdvanceTokens, OtherTokens DEF Next
  <1> QED BY <1>1, TokenInit, TypeCorrect, RoundsHold, PTL DEF Spec

(* When operations and tasks do not overlap, the balance in the table, the *)
(* cached one and the one the newest ledger row names are the same         *)
(* whenever nothing is in flight, no process crashed, and the competition  *)
(* runs; the synchronisation then finds nothing to overwrite.              *)
THEOREM BalancesStayEqual == ASSUME ~Overlap PROVE Spec => []BalancesAgree
  <1>1. TypeOK /\ TokenInv => BalancesAgree
    <2> SUFFICES ASSUME TypeOK, TokenInv, comp = "running", Quiet, faults = 0
                 PROVE  balance = cached /\ balance = booked
      BY DEF BalancesAgree
    <2>1. \A x \in Teams : ~Pending(x)
      BY DEF Pending, Quiet, At, IdleAdv
    <2>2. \A x \in Teams : cached[x] = balance[x]
      BY <2>1 DEF TokenInv, CacheTrue
    <2> QED BY <2>2 DEF TokenInv, CacheTrue, TypeOK
  <1> QED BY <1>1, TokensHold, TypeCorrect, PTL

-----------------------------------------------------------------------------
(* The refinement: the transactions are the abstract steps.                *)

LEMMA PaidIsAttack ==
    ASSUME TypeOK, TokenInv, NEW s \in Threads, PayAttack(s)
    PROVE  \E a, g \in Teams, c \in Challenges, r \in Rounds : Tokens!Attack(a, g, c, r)
  <1>0. /\ th[s].pc = "pay" /\ ~At(s, "idle")
        /\ th[s] \in Serving({"pay", "own", "target"}, Teams, Nat \ {0})
    BY Loaded DEF PayAttack, At, Serving
  <1>00. PICK r \in Rounds, a \in Teams, g \in Teams, c \in Challenges :
             r = th[s].r /\ a = th[s].t /\ g = th[s].g /\ c = th[s].c
    BY <1>0 DEF Serving
  <1> DEFINE N == Len(attacks)
             row == [r |-> r, g |-> g, c |-> c]
             Rows(d) == {k \in 1..N : attacks[k].c = d}
  <1>1. /\ th[s].pc = "pay" /\ CopyTrue(s) /\ ~At(s, "idle")
        /\ attacks' = Append(attacks, row)
        /\ UNCHANGED <<phase, patches>>
    BY <1>00 DEF PayAttack, At, TokenInv, season
  <1>2. /\ g # NoTeam /\ balance \in [Teams -> Nat] /\ th[s].n \in Nat \ {0}
        /\ attacks \in Seq([r : Rounds, g : Teams, c : Challenges]) /\ N \in Nat
    <2>1. g # NoTeam /\ th[s].n \in Nat \ {0}
      BY <1>0, NamesAssumption DEF Serving
    <2> QED BY <2>1 DEF TypeOK
  <1>3. /\ a # g /\ th[s].mine = balance[a] /\ th[s].his = balance[g]
        /\ <<g, c>> \notin patches /\ phase[r] = "attacking"
        /\ th[s].n = CountSuccessful(c) + 1
    BY <1>00, <1>1 DEF CopyTrue, At
  <1>4. /\ Len(attacks') = N + 1 /\ attacks'[N + 1] = row
        /\ \A k \in 1..N : attacks'[k] = attacks[k]
    BY <1>1, <1>2
  <1>5. ASSUME NEW d \in Challenges
        PROVE  CountSuccessful(d)' = CountSuccessful(d) + IF d = c THEN 1 ELSE 0
    <2> DEFINE New == {k \in 1..(N + 1) : attacks'[k].c = d}
    <2>1. CountSuccessful(d)' = Cardinality(New) /\ CountSuccessful(d) = Cardinality(Rows(d))
      BY <1>4 DEF CountSuccessful
    <2>2. IsFiniteSet(Rows(d)) /\ N + 1 \notin Rows(d) /\ Cardinality(Rows(d)) \in Nat
      <3>1. IsFiniteSet(1..N)
        BY <1>2, FS_Interval
      <3>2. IsFiniteSet(Rows(d))
        BY <3>1, FS_Subset
      <3> QED BY <1>2, <3>2, FS_CardinalityType
    <2>3. CASE d = c
      <3>1. New = Rows(d) \cup {N + 1}
        BY <1>2, <1>4, <2>3
      <3> HIDE DEF New, Rows
      <3>2. Cardinality(New) = Cardinality(Rows(d)) + 1
        BY <2>2, <3>1, FS_AddElement
      <3> QED BY <2>1, <2>3, <3>2
    <2>4. CASE d # c
      <3>1. New = Rows(d)
        BY <1>2, <1>4, <2>4
      <3> HIDE DEF New, Rows
      <3> QED BY <2>1, <2>2, <2>4, <3>1
    <2> QED BY <2>3, <2>4
  <1> DEFINE k == CountSuccessful(c) + 1
             exploits == [d \in Challenges |-> CountSuccessful(d)]
  <1>6. exploits' = [exploits EXCEPT ![c] = k]
    <2> SUFFICES ASSUME NEW d \in Challenges
                 PROVE  CountSuccessful(d)' = IF d = c THEN k ELSE CountSuccessful(d)
      BY <1>2
    <2>1. CountSuccessful(d) \in Nat
      <3>1. IsFiniteSet(1..N)
        BY <1>2, FS_Interval
      <3>2. IsFiniteSet(Rows(d))
        BY <3>1, FS_Subset
      <3> QED BY <3>2, FS_CardinalityType DEF CountSuccessful
    <2> QED BY <1>5, <2>1
  <1>7. Steal(k) \in Nat /\ Gain(k) \in Nat
    BY <1>2, <1>3, AmountType
  <1>8. balance' = [balance EXCEPT ![a] = @ + Gain(k),
                                   ![g] = IF balance[g] - Steal(k) < 0 THEN 0
                                          ELSE balance[g] - Steal(k)]
    <2>1. MineAfter(s) = balance[a] + Gain(k)
      BY <1>00, <1>2, <1>3 DEF MineAfter
    <2>2. HisAfter(s) = IF balance[g] - Steal(k) < 0 THEN 0 ELSE balance[g] - Steal(k)
      <3>1. balance[g] \in Nat /\ (balance[g] < Steal(k) <=> balance[g] - Steal(k) < 0)
        BY <1>2, <1>7
      <3> QED BY <1>2, <1>3, <3>1 DEF HisAfter
    <2>3. balance' = [x \in Teams |-> IF x = a THEN MineAfter(s)
                                      ELSE IF x = g THEN HisAfter(s) ELSE balance[x]]
      <3>1. balance' = [x \in Teams |-> IF x \in {a, g}
                                        THEN [y \in Teams |-> CASE y = a -> MineAfter(s)
                                                                [] y = g -> HisAfter(s)
                                                                [] OTHER -> 0][x]
                                        ELSE balance[x]]
        BY <1>00 DEF PayAttack
      <3>2. ASSUME NEW x \in Teams
            PROVE  balance'[x] = IF x = a THEN MineAfter(s)
                                 ELSE IF x = g THEN HisAfter(s) ELSE balance[x]
        <4>1. CASE x = a
          BY <1>3, <3>1, <4>1
        <4>2. CASE x # a /\ x = g
          BY <1>3, <3>1, <4>2
        <4>3. CASE x # a /\ x # g
          BY <3>1, <4>3
        <4> QED BY <4>1, <4>2, <4>3
      <3> QED BY <3>1, <3>2
    <2>4. \A x \in Teams :
             balance'[x] = [balance EXCEPT ![a] = @ + Gain(k),
                                           ![g] = IF balance[g] - Steal(k) < 0 THEN 0
                                                  ELSE balance[g] - Steal(k)][x]
      BY <1>2, <1>3, <2>1, <2>2, <2>3
    <2> QED BY <1>2, <2>3, <2>4
  <1> DEFINE hits == {<<attacks[i].r, attacks[i].g>> : i \in 1..Len(attacks)}
  <1>9. hits' = hits \cup {<<r, g>>}
    <2>1. hits' = {<<attacks'[i].r, attacks'[i].g>> : i \in 1..(N + 1)}
      BY <1>4
    <2>2. 1..(N + 1) = 1..N \cup {N + 1}
      BY <1>2
    <2> QED BY <1>4, <2>1, <2>2
  <1>10. r \notin {x \in Rounds : phase[x] = "completed"}
    BY <1>3
  <1>11. exploits[c] + 1 = k
    BY <1>2
  <1>12. UNCHANGED {x \in Rounds : phase[x] = "completed"}
    BY <1>1
  <1>13. Tokens!Attack(a, g, c, r)
    <2> HIDE DEF k
    <2> QED BY <1>1, <1>3, <1>6, <1>8, <1>9, <1>10, <1>11, <1>12 DEF Tokens!Attack
  <1> QED BY <1>13

LEMMA CommittedIsPatch ==
    ASSUME TypeOK, TokenInv, NEW s \in Threads, CommitPatch(s)
    PROVE  \E t \in Teams, c \in Challenges : Tokens!Patch(t, c)
  <1>1. /\ th[s].pc = "patch" /\ CopyTrue(s) /\ ~At(s, "idle")
        /\ th[s] \in Serving({"verify", "patch", "own"}, {NoTeam}, {0, 1})
        /\ balance \in [Teams -> Nat] /\ FirstPatchBonus \in Nat
    BY Loaded, TokenAssumption DEF CommitPatch, At, TokenInv, Serving, TypeOK
  <1>2. PICK t \in Teams, c \in Challenges : t = th[s].t /\ c = th[s].c
    BY <1>1 DEF Serving
  <1> DEFINE repeated == \E o \in Teams : <<o, c>> \in patches
  <1>3. /\ th[s].mine = balance[t] /\ <<t, c>> \notin patches
        /\ th[s].n = IF repeated THEN 0 ELSE 1
    BY <1>1, <1>2 DEF CopyTrue, At
  <1>4. /\ patches' = patches \cup {<<t, c>>}
        /\ balance' = [balance EXCEPT ![t] = MineAfter(s)]
        /\ UNCHANGED <<phase, attacks>>
    BY <1>2 DEF CommitPatch, season
  <1>5. MineAfter(s) = IF repeated THEN balance[t] ELSE balance[t] + FirstPatchBonus
    <2> HIDE DEF repeated
    <2>1. th[s].g = NoTeam /\ th[s].n \in {0, 1} /\ balance[t] \in Nat
      BY <1>1 DEF Serving
    <2>2. MineAfter(s) = balance[t] + th[s].n * FirstPatchBonus
      BY <1>3, <2>1 DEF MineAfter
    <2>3. 0 * FirstPatchBonus = 0 /\ 1 * FirstPatchBonus = FirstPatchBonus
      BY <1>1
    <2>4. CASE repeated
      BY <1>3, <2>1, <2>2, <2>3, <2>4
    <2>5. CASE ~repeated
      BY <1>3, <2>1, <2>2, <2>3, <2>5
    <2> QED BY <2>4, <2>5
  <1>6. balance' = [balance EXCEPT ![t] = IF repeated THEN @ ELSE @ + FirstPatchBonus]
    <2> HIDE DEF repeated
    <2> QED BY <1>1, <1>4, <1>5
  <1>7. /\ UNCHANGED [d \in Challenges |-> CountSuccessful(d)]
        /\ UNCHANGED {<<attacks[k].r, attacks[k].g>> : k \in 1..Len(attacks)}
        /\ UNCHANGED {r \in Rounds : phase[r] = "completed"}
    BY <1>4 DEF CountSuccessful
  <1>8. Tokens!Patch(t, c)
    BY <1>3, <1>4, <1>6, <1>7 DEF Tokens!Patch
  <1> QED BY <1>8

LEMMA SettledIsSettle ==
    ASSUME TypeOK, RoundInv, RewardInv, TokenInv, SettleRound
    PROVE  \E r \in Rounds : Tokens!Settle(r)
  <1>1. PICK r \in Rounds : r = adv.r
    BY DEF SettleRound, Settle, RoundInv
  <1>2. /\ adv.pc = "settle" /\ adv.copy = balance /\ comp = "running" /\ clock = 3 * r
        /\ phase[r] = "settling" /\ adv.hit = Attacked(r)
    BY <1>1 DEF SettleRound, Settle, TokenInv, RoundTrue, RoundInv, RewardInv
  <1>3. /\ balance' = [t \in Teams |-> IF t \in Teams \ adv.hit THEN Rewarded(t) ELSE balance[t]]
        /\ phase' = [x \in Rounds |-> CASE x = r -> "completed"
                                        [] x = r + 1 -> "attacking"
                                        [] OTHER -> phase[x]]
        /\ UNCHANGED <<attacks, patches>>
    BY <1>1 DEF SettleRound, Settle
  <1>4. \A q \in Rounds : phase'[q] = "completed" <=> phase[q] = "completed" \/ q = r
    <2> TAKE q \in Rounds
    <2>0. q \in Nat /\ r \in Nat
      BY DEF Rounds
    <2>1. CASE q = r
      BY <1>3, <2>0, <2>1
    <2>2. CASE q = r + 1
      <3>1. phase[q] # "completed"
        BY <1>2, <2>0, <2>2 DEF RoundInv
      <3> QED BY <1>3, <2>0, <2>2, <3>1
    <2>3. CASE q # r /\ q # r + 1
      BY <1>3, <2>3
    <2> QED BY <2>1, <2>2, <2>3
  <1> DEFINE hits == {<<attacks[i].r, attacks[i].g>> : i \in 1..Len(attacks)}
  <1>5. \A t \in Teams : <<r, t>> \in hits <=> t \in Attacked(r)
    BY DEF Attacked
  <1>6. balance' = [t \in Teams |-> IF <<r, t>> \in hits THEN balance[t]
                                    ELSE balance[t] + DefenseReward]
    BY <1>2, <1>3, <1>5 DEF Rewarded
  <1> HIDE DEF hits
  <1>7. r \notin {x \in Rounds : phase[x] = "completed"}
    BY <1>2
  <1>8. {x \in Rounds : phase'[x] = "completed"} = {x \in Rounds : phase[x] = "completed"} \cup {r}
    BY <1>4
  <1>9. /\ UNCHANGED [d \in Challenges |-> CountSuccessful(d)]
        /\ UNCHANGED {<<attacks[k].r, attacks[k].g>> : k \in 1..Len(attacks)}
    BY <1>3 DEF CountSuccessful
  <1>10. Tokens!Settle(r)
    BY <1>3, <1>6, <1>7, <1>8, <1>9 DEF Tokens!Settle, hits
  <1> QED BY <1>10

(* Every other step is one the abstract specification does not see.        *)
LEMMA OtherStutters ==
    ASSUME TypeOK, RoundInv, TokenInv, ~Overlap, [Next]_vars,
           \A s \in Threads : ~PayAttack(s) /\ ~CommitPatch(s), ~SettleRound, ~CommitClose
    PROVE  UNCHANGED <<balance, attacks, patches>>
           /\ \A r \in Rounds : phase'[r] = "completed" <=> phase[r] = "completed"
  <1> USE DEF season, tokens, records, tasks
  <1>1. ASSUME NEW s \in Threads, Request(s) PROVE UNCHANGED <<balance, attacks, patches, phase>>
    BY <1>1, RequestKeeps
  <1>2. ASSUME NEW s \in Threads, OperationStep(s)
        PROVE  UNCHANGED <<balance, attacks, patches, phase>>
    BY <1>2 DEF OperationStep, AcquireLock, AttackFails, AttackLands, CacheOwn, CacheTarget,
       PatchFails, PatchVerified
  <1>3. ASSUME NEW r \in Rounds, AdvancePhase(r)
        PROVE  UNCHANGED <<balance, attacks, patches>>
               /\ \A q \in Rounds : phase'[q] = "completed" <=> phase[q] = "completed"
    <2>1. PICK p \in {"attacking", "defending"} :
             /\ <<r, p>> \in adv.todo /\ adv.pc = "list"
             /\ phase' = [phase EXCEPT ![r] = IF p = "attacking" THEN "defending" ELSE "settling"]
      BY <1>3 DEF AdvancePhase
    <2>2. p \in Phases /\ comp = "running"
      BY <2>1 DEF Phases, TokenInv, RoundTrue
    <2>3. phase[r] = p
      BY <2>1, <2>2 DEF RoundInv
    <2> QED BY <1>3, <2>1, <2>3 DEF AdvancePhase, TypeOK
  <1>4. ~SyncWrite
    BY DEF SyncWrite, TokenInv, CacheTrue
  <1>5. CASE ListDue \/ RankAfterLastRound \/ (\E r \in Rounds : ReadRound(r))
             \/ (\E t \in Teams : CacheTeam(t))
    BY <1>5 DEF ListDue, RankAfterLastRound, ReadRound, CacheTeam
  <1>6. CASE LockExpires \/ SettleFails \/ (\E t \in Teams : SyncLoad(t)) \/ SyncRead
             \/ BeginClose \/ RankAfterClose \/ Boundary \/ Crash \/ UNCHANGED vars
    BY <1>6 DEF LockExpires, SettleFails, SyncLoad, SyncRead, BeginClose, RankAfterClose,
       Boundary, Crash, vars
  <1> QED BY <1>1, <1>2, <1>3, <1>4, <1>5, <1>6 DEF Next, AdvanceStep

(* When operations and tasks do not overlap, the battle keeps the promise  *)
(* of CtfTokens, crashes and rolled back settlements included: a balance   *)
(* changes by what an attack, a first patch or a settled round is worth,   *)
(* and nothing is paid for a round, a patch or an attack twice.            *)
THEOREM BattleKeepsTokens == ASSUME ~Overlap PROVE Spec => ImplementsTokens
  <1>1. Init => Tokens!Init
    <2> SUFFICES ASSUME Init PROVE Tokens!Init
      OBVIOUS
    <2>1. attacks = <<>> /\ Len(attacks) = 0
      BY DEF Init
    <2>2. \A c \in Challenges : CountSuccessful(c) = 0
      <3>1. \A c \in Challenges : {k \in 1..Len(attacks) : attacks[k].c = c} = {}
        BY <2>1
      <3> QED BY <3>1, FS_EmptySet DEF CountSuccessful
    <2>3. {<<attacks[k].r, attacks[k].g>> : k \in 1..Len(attacks)} = {}
      BY <2>1
    <2>4. {r \in Rounds : phase[r] = "completed"} = {}
      BY DEF Init
    <2> QED BY <2>2, <2>3, <2>4 DEF Init, Tokens!Init
  <1>2. TypeOK /\ RoundInv /\ RewardInv /\ TokenInv /\ [Next]_vars => [Tokens!Next]_(Tokens!vars)
    <2> SUFFICES ASSUME TypeOK, RoundInv, RewardInv, TokenInv, [Next]_vars
                 PROVE  Tokens!Next \/ UNCHANGED Tokens!vars
      OBVIOUS
    <2>1. ASSUME NEW s \in Threads, PayAttack(s) PROVE Tokens!Next
      BY <2>1, PaidIsAttack DEF Tokens!Next
    <2>2. ASSUME NEW s \in Threads, CommitPatch(s) PROVE Tokens!Next
      BY <2>2, CommittedIsPatch DEF Tokens!Next
    <2>3. CASE SettleRound
      BY <2>3, SettledIsSettle DEF Tokens!Next
    <2>4. CASE CommitClose
      <3>1. {r \in Rounds : phase'[r] = "completed"} = Rounds
        BY <2>4 DEF CommitClose
      <3>2. UNCHANGED <<balance, attacks, patches>>
        BY <2>4 DEF CommitClose, tokens, records
      <3>3. Tokens!CallOff
        BY <3>1, <3>2 DEF Tokens!CallOff, CountSuccessful
      <3> QED BY <3>3 DEF Tokens!Next
    <2>5. CASE /\ \A s \in Threads : ~PayAttack(s) /\ ~CommitPatch(s)
               /\ ~SettleRound /\ ~CommitClose
      <3>1. UNCHANGED <<balance, attacks, patches>>
            /\ \A r \in Rounds : phase'[r] = "completed" <=> phase[r] = "completed"
        BY <2>5, OtherStutters
      <3>2. {r \in Rounds : phase'[r] = "completed"} = {r \in Rounds : phase[r] = "completed"}
        BY <3>1
      <3> QED BY <3>1, <3>2 DEF Tokens!vars, CountSuccessful
    <2> QED BY <2>1, <2>2, <2>3, <2>4, <2>5
  <1> QED BY <1>1, <1>2, TypeCorrect, RoundsHold, RewardsHold, TokensHold, PTL
         DEF Spec, ImplementsTokens, Tokens!Spec
=============================================================================
