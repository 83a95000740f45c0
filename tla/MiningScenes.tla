---------------------------- MODULE MiningScenes ----------------------------
(***************************************************************************)
(* Two scenes about chains an attacker mines aside.                        *)
(***************************************************************************)
EXTENDS Integers, Sequences

CONSTANTS
    MaxLead,                    \* bound of the selfish scene
    MaxBlockHistory, MaxMined   \* the code's 8; a bound on the blocks of a chain

VARIABLE st    \* snapState of the one scene or of the other

-----------------------------------------------------------------------------
(* attacksecurity/selfishmining: an attacker keeps its blocks back and     *)
(* publishes them by how far it is ahead.  A block is who mined it.  Who   *)
(* mines, and in a race which side the next honest block takes, is any     *)
(* choice: alpha and gamma set how likely.                                 *)

SelfishFresh == [state |-> "0", public |-> <<"honest">>, private |-> <<"honest">>, atk |-> 0, hon |-> 0]
Lead(s) == Len(s.private) - Len(s.public)
Mined(chain, who) == Len(SelectSeq(chain, LAMBDA b : b = who))

\* The published part starts where the public chain ends, so nothing is replaced.
PublishPrivate(s) ==
    LET shown == SubSeq(s.private, Len(s.public) + 1, Len(s.private)) IN
    [s EXCEPT !.public = @ \o shown, !.atk = @ + Mined(shown, "attacker")]

\* The honest block at the tip gives way to the private one of the next height.
PublishOneBlock(s) ==
    LET tip == Len(s.public) IN
    IF Lead(s) <= 0 \/ s.public[tip] # "honest" THEN s
    ELSE [s EXCEPT !.public[tip] = s.private[tip + 1], !.atk = @ + 1]

NewHonestBlock(s) == [s EXCEPT !.public = Append(@, "honest")]
StateOf(lead) == CASE lead = 0 -> "0" [] lead = 1 -> "1" [] lead = 2 -> "2" [] OTHER -> "3"

\* The actions of the scene.
AttackerMines ==
    LET s == [st EXCEPT !.private = Append(@, "attacker")] IN
    /\ Lead(st) < MaxLead
    /\ st' = CASE st.state = "0" -> [s EXCEPT !.state = "1"]
               [] st.state = "0'" -> [PublishPrivate(s) EXCEPT !.state = "0"]
               [] st.state = "1" -> [s EXCEPT !.state = "2"]
               [] OTHER -> [s EXCEPT !.state = "3"]

HonestMines ==
    LET s == NewHonestBlock(st) IN
    \/ /\ st.state = "0"
       /\ st' = [s EXCEPT !.private = @ \o SubSeq(s.public, Len(@) + 1, Len(s.public)), !.hon = @ + 1]
    \/ /\ st.state = "0'"     \* it follows the attacker, and is taken back
       /\ st' = [PublishPrivate(st) EXCEPT !.hon = @ + 1, !.state = "0"]
    \/ /\ st.state = "0'"     \* it follows the honest fork
       /\ st' = [s EXCEPT !.private = s.public, !.hon = @ + 2, !.state = "0"]
    \/ st.state = "1" /\ st' = [s EXCEPT !.state = "0'"]
    \/ st.state = "2" /\ st' = [PublishPrivate(s) EXCEPT !.state = "0"]
    \/ /\ st.state = "3"
       /\ st' = LET p == PublishOneBlock(s) IN [p EXCEPT !.state = StateOf(Lead(p))]

SelfishReset == st' = SelfishFresh

SelfishInit == st = SelfishFresh
SelfishNext == AttackerMines \/ HonestMines \/ SelfishReset
SelfishSpec == SelfishInit /\ [][SelfishNext]_st

SelfishTypeOK == st.atk >= 0 /\ st.hon >= 0 /\ Lead(st) \in 0 .. MaxLead

\* The state is how far the private chain is ahead, and the attacker is paid for its
\* blocks in the public chain, once each; honest miners for no more than theirs.
RewardsInChain ==
    /\ st.state = IF st.state = "0'" THEN "0'" ELSE StateOf(Lead(st))
    /\ st.state = "0'" => Lead(st) = 0
    /\ st.atk = Mined(st.public, "attacker") /\ st.hon < Mined(st.public, "honest")

-----------------------------------------------------------------------------
(* consensus/powmining: an honest chain and, once the attack is enabled, a *)
(* copy of it that the attacker mines on.  A number of attempts finds a    *)
(* block or not.  Of a chain its last blocks are kept, which is how long   *)
(* the scene takes it for.  The state has the kept lengths, and histories  *)
(* of all that was mined.                                                  *)

PowFresh == [honest |-> 0, attack |-> 0, enabled |-> FALSE, reorged |-> FALSE,
          honestMined |-> 0, attackMined |-> 0, ahead |-> FALSE]
Kept(n) == IF n > MaxBlockHistory THEN MaxBlockHistory ELSE n

\* stepMineChain, with the outcome of its attempts.
MineHonest(s, found) ==
    IF found THEN [s EXCEPT !.honest = Kept(@ + 1), !.honestMined = @ + 1] ELSE s
MineAttack(s, found) ==
    IF found THEN [s EXCEPT !.attack = Kept(@ + 1), !.attackMined = @ + 1] ELSE s

\* step_mining, and mine_until_block.
StepMining == /\ st.honestMined < MaxMined
              /\ \E found \in BOOLEAN : st' = MineHonest(st, found)

\* The copy starts as long as the honest chain.
Enable51Attack ==
    st' = [st EXCEPT !.enabled = TRUE, !.attack = st.honest, !.attackMined = st.honestMined,
                     !.reorged = FALSE, !.ahead = FALSE]

StepAttackRound ==
    /\ st.enabled /\ st.honestMined < MaxMined /\ st.attackMined < MaxMined
    /\ \E h, a \in BOOLEAN :
         LET s == MineAttack(MineHonest(st, h), a) IN
         st' = [s EXCEPT !.reorged = @ \/ s.attack > s.honest,
                         !.ahead = @ \/ s.attackMined > s.honestMined]

PowReset == st' = PowFresh

PowInit == st = PowFresh
PowNext == StepMining \/ Enable51Attack \/ StepAttackRound \/ PowReset
PowSpec == PowInit /\ [][PowNext]_st

PowTypeOK == st.honest \in 0 .. MaxBlockHistory /\ st.attack \in 0 .. MaxBlockHistory

\* A reorganisation is announced only when the attacker's chain was longer after a round,
\* and always then while the chains are short enough to be kept.
ReorgDeserved ==
    /\ st.reorged => st.ahead
    /\ st.ahead /\ st.attackMined <= MaxBlockHistory /\ st.honestMined <= MaxBlockHistory => st.reorged
=============================================================================
