----------------------------- MODULE Proposers -----------------------------
(***************************************************************************)
(* The consensus engines: who may propose, who does for a seed, and how    *)
(* much a block scores.  Two branches grow, block by block, with proposers *)
(* the engine names; the seeds, hashes of parent and slot in the code, go  *)
(* through all remainders.                                                 *)
(***************************************************************************)
EXTENDS Integers, Sequences, SequencesExt, FiniteSets

CONSTANTS
  Configs        \* configurations: [mode, validators, delegations, delegates, minimum]

VARIABLES
  config,
  drawn,         \* blocks so far; the seed of the next one
  branches,      \* per branch the height, score and proposer of its last block
  picked         \* who proposed, in order

proposerVars == <<config, drawn, branches, picked>>

ASSUME ConfigsAssumption ==
  \A c \in Configs :
    /\ c.mode \in {"pos", "dpos", "dev"} /\ c.minimum \in Int
    /\ IsFiniteSet(DOMAIN c.validators) /\ c.validators \in [DOMAIN c.validators -> Int]
    /\ Len(c.delegations) \in Nat /\ DOMAIN c.delegations = 1 .. Len(c.delegations)
    /\ \A i \in DOMAIN c.delegations : c.delegations[i].stake \in Int

AtLeast(w, m) == [v \in {u \in DOMAIN w : w[u] >= m} |-> w[v]]
TotalOf(w) == FoldFunction(LAMBDA s, acc : s + acc, 0, w)
Lowest(m) == IF m < 1 THEN 1 ELSE m

\* What is delegated to each delegate, those that count only.
Delegated(c) ==
  LET counts(r) == r.stake > 0 /\ (c.delegates = {} \/ r.delegate \in c.delegates)
      who == {c.delegations[i].delegate : i \in {j \in DOMAIN c.delegations : counts(c.delegations[j])}}
  IN  [d \in who |->
         FoldSeq(LAMBDA r, acc : (IF counts(r) /\ r.delegate = d THEN r.stake ELSE 0) + acc, 0, c.delegations)]

Active(c) ==
  [v \in {u \in DOMAIN c.validators : c.validators[u] > 0 /\ (c.delegates = {} \/ u \in c.delegates)}
     |-> c.validators[v]]

\* validator_set of the three engines
PoSSet(c) == AtLeast(c.validators, Lowest(c.minimum))
DPoSSet(c) == AtLeast(IF DOMAIN Delegated(c) = {} THEN Active(c) ELSE Delegated(c), Lowest(c.minimum))
DevSet(c) ==
  LET some == AtLeast(c.validators, 1) IN
  IF DOMAIN some = {} THEN [v \in {"dev-validator"} |-> 1] ELSE some
ValidatorSet(c) ==
  CASE c.mode = "pos" -> PoSSet(c) [] c.mode = "dpos" -> DPoSSet(c) [] c.mode = "dev" -> DevSet(c)

\* An engine without validators is refused.
ProposerInit ==
  /\ config \in {c \in Configs : DOMAIN ValidatorSet(c) # {}}
  /\ drawn = 0 /\ picked = <<>>
  /\ branches = [b \in {1, 2} |-> [height |-> 0, score |-> 0, proposer |-> "genesis"]]
-----------------------------------------------------------------------------
\* The validators sorted by name: some order that is always the same.
Sorted == SetToSeq(DOMAIN ValidatorSet(config))
Weight(v) == ValidatorSet(config)[v]
TotalStake == TotalOf(ValidatorSet(config))

Cursor(i) == FoldSeq(LAMBDA v, acc : Weight(v) + acc, 0, SubSeq(Sorted, 1, i))

\* pick < cursor
Reached(pick, i) == pick < Cursor(i)

\* select_proposer by weight
ByWeight(pick) ==
  Sorted[IF \E k \in DOMAIN Sorted : Reached(pick, k)
         THEN CHOOSE k \in DOMAIN Sorted : Reached(pick, k) /\ (k = 1 \/ ~Reached(pick, k - 1))
         ELSE Len(Sorted)]

\* The developer engine goes round.
InTurn(slot) == Sorted[1 + (slot % Len(Sorted))]

SelectProposer(seed) == IF config.mode = "dev" THEN InTurn(seed) ELSE ByWeight(seed % TotalStake)

\* block_score
StakeScore(height, v) == height * TotalStake + Weight(v)
BlockScore(height, v) == IF config.mode = "dev" THEN height ELSE StakeScore(height, v)

Produce(b) ==
  /\ drawn < TotalStake
  /\ LET v == SelectProposer(drawn)
         h == branches[b].height + 1
     IN  /\ branches' = [branches EXCEPT ![b] = [height |-> h, score |-> BlockScore(h, v), proposer |-> v]]
         /\ picked' = Append(picked, v)
  /\ drawn' = drawn + 1
  /\ UNCHANGED config

ProposerNext == \E b \in {1, 2} : Produce(b)
ProposerSpec == ProposerInit /\ [][ProposerNext]_proposerVars
-----------------------------------------------------------------------------
ProposerTypeOK ==
  /\ drawn \in 0 .. TotalStake /\ Len(picked) = drawn
  /\ \A b \in {1, 2} : branches[b].height \in 0 .. drawn
  /\ ToSet(picked) \subseteq DOMAIN ValidatorSet(config)

\* Over as many seeds as there is stake, each validator proposes as often as it
\* has stake (delegated to it, where that counts); the developer engine, which
\* goes round, gives no one two turns more than another.
ShareIsStake ==
  drawn = TotalStake =>
    LET turns(v) == Cardinality({i \in DOMAIN picked : picked[i] = v}) IN
    \A v, w \in DOMAIN ValidatorSet(config) :
      IF config.mode = "dev" THEN turns(v) <= turns(w) + 1 ELSE turns(v) = Weight(v)

\* Of two branches the longer one scores more, whoever proposed their last
\* blocks; stake decides between branches of one height only.
LongerScoresMore ==
  \A b, c \in {1, 2} :
    /\ branches[b].height > branches[c].height => branches[b].score > branches[c].score
    /\ branches[b].height = branches[c].height /\ branches[b].height > 0 /\ config.mode # "dev" =>
         (branches[b].score > branches[c].score <=> Weight(branches[b].proposer) > Weight(branches[c].proposer))

\* The choice of proposer and of branch follows stake and height.
ProposersFair == ProposerTypeOK /\ ShareIsStake /\ LongerScoresMore
-----------------------------------------------------------------------------
(***************************************************************************)
(* ethereum_consensus_simulation of agilang/ethereum_consensus_replica.py: *)
(* slot by slot a proposer and a committee of three, and epochs that are   *)
(* justified and finalized when two thirds take part.  The validators are  *)
(* 0 .. n - 1, in the order of the configuration.                          *)
(***************************************************************************)
CONSTANTS ReplicaSizes, SlotsPerEpoch, MaxSlots      \* MaxSlots is a bound

ASSUME ReplicaAssumption ==
  ReplicaSizes \subseteq Nat \ {0} /\ SlotsPerEpoch \in Nat \ {0} /\ MaxSlots \in Nat

VARIABLE replica      \* [n, duties, justified, finalized]; the duties of each slot so far
replicaVars == <<replica>>

Replica(n) == [n |-> n, duties |-> <<>>, justified |-> -1, finalized |-> -1]
ReplicaInit == \E n \in ReplicaSizes : replica = Replica(n)

ProposerForSlot(n, slot) == slot % n
CommitteeForSlot(n, slot) ==
  IF n <= 2 THEN 0 .. n - 1 ELSE {(slot + offset) % n : offset \in 0 .. 2}

\* participation >= 2 / 3
TakePart(n, committee) == 3 * Cardinality(committee) >= 2 * n

ReplicaSlot ==
  LET slot == Len(replica.duties)
      epoch == slot \div SlotsPerEpoch
      committee == CommitteeForSlot(replica.n, slot)
      justifies == TakePart(replica.n, committee)
  IN
  /\ slot < MaxSlots
  /\ replica' =
       [replica EXCEPT
          !.duties = Append(@, [proposer |-> ProposerForSlot(replica.n, slot), committee |-> committee]),
          !.justified = IF justifies /\ epoch > @ THEN epoch ELSE @,
          !.finalized = IF justifies /\ epoch > 0 /\ epoch - 1 > @ THEN epoch - 1 ELSE @]

\* In as many slots as there are validators, from whichever on, each proposes
\* once, from within its committee, and all attest equally often.
ReplicaDuties ==
  \A k \in 1 .. Len(replica.duties) - replica.n + 1 :
    LET slots == k .. k + replica.n - 1
        sits(v) == Cardinality({i \in slots : v \in replica.duties[i].committee})
    IN  /\ {replica.duties[i].proposer : i \in slots} = 0 .. replica.n - 1
        /\ \A i \in slots : replica.duties[i].proposer \in replica.duties[i].committee
        /\ \A v, w \in 0 .. replica.n - 1 : sits(v) = sits(w)

\* With four validators or fewer the epoch before the last is final, and
\* finality never skips or overtakes justification; with more a committee is
\* less than two thirds of them, and nothing ever becomes final.
ReplicaFinality ==
  LET epoch == (Len(replica.duties) - 1) \div SlotsPerEpoch IN
  IF replica.n > 4 \/ replica.duties = <<>> THEN replica.justified = -1 /\ replica.finalized = -1
  ELSE replica.justified = epoch /\ replica.finalized = epoch - 1
=============================================================================
