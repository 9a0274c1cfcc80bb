--------------------------------- MODULE ZK ---------------------------------
(***************************************************************************)
(* Merkle proofs and Schnorr proofs.  A hash is the term it was made from: *)
(* equal hashes, equal terms.  The challenge of a Schnorr proof, a hash of *)
(* its public part, may be any number.                                     *)
(***************************************************************************)
EXTENDS Integers, Sequences, SequencesExt, FiniteSets

CONSTANTS
  LeafLists,     \* the lists a tree may be built over
  Claims,        \* what may be claimed to be a leaf
  Modulus,       \* of the Schnorr group, a prime
  Generator

ASSUME ZKAssumption == Modulus \in Nat /\ Generator \in 1 .. Modulus - 1

VARIABLES
  leaves,
  levels,        \* the hashes of the tree, lowest level first
  path,          \* the proof being made: index on the current level, and its steps
  knower         \* the Schnorr prover: secret, nonce and what it has published

zkVars == <<leaves, levels, path, knower>>

LeafHash(x) == <<"leaf", x>>
NodeHash(l, r) == <<"node", l, r>>

NoPath == [asked |-> 0, index |-> 0, steps |-> <<>>]
Nothing == [at |-> "none"]

ZKInit ==
  /\ leaves \in LeafLists
  /\ levels = <<[i \in DOMAIN leaves |-> LeafHash(leaves[i])]>>
  /\ path = NoPath /\ knower = Nothing
-----------------------------------------------------------------------------
\* A node without a sibling is its own.
Paired(level, i) == NodeHash(level[i], level[IF i < Len(level) THEN i + 1 ELSE i])

\* ZKMerkleTree.__init__, level by level
Grow ==
  /\ Len(Last(levels)) > 1
  /\ levels' = Append(levels, [i \in 1 .. (Len(Last(levels)) + 1) \div 2 |-> Paired(Last(levels), 2 * i - 1)])
  /\ UNCHANGED <<leaves, path, knower>>

RootReached == Len(Last(levels)) = 1
Root == Last(levels)[1]

Ask(i) ==
  /\ RootReached /\ path = NoPath
  /\ path' = [asked |-> i, index |-> i, steps |-> <<>>]
  /\ UNCHANGED <<leaves, levels, knower>>

\* idx ^ 1, or the node itself where the level ends (counted from 1 here)
Sibling(i, len) == IF i % 2 = 1 THEN IF i < len THEN i + 1 ELSE i ELSE i - 1

\* proof: a step per level below the root
Climb ==
  /\ path # NoPath /\ Len(path.steps) < Len(levels) - 1
  /\ LET level == levels[Len(path.steps) + 1]
         sibling == Sibling(path.index, Len(level))
     IN  path' = [path EXCEPT !.index = (@ + 1) \div 2,
                              !.steps = Append(@, [left |-> sibling < path.index, hash |-> level[sibling]])]
  /\ UNCHANGED <<leaves, levels, knower>>

\* verify: the index is not looked at.
Verify(x, steps) ==
  Root = FoldLeft(LAMBDA h, step : IF step.left THEN NodeHash(step.hash, h) ELSE NodeHash(h, step.hash),
                  LeafHash(x), steps)
-----------------------------------------------------------------------------
Exp(b, e) == FoldLeft(LAMBDA acc, i : (acc * b) % Modulus, 1, [i \in 1 .. e |-> i])

Order == Modulus - 1

\* zk_schnorr_prove: the commitment first, then the challenge and the response
Commit(secret, nonce) ==
  /\ knower = Nothing
  /\ knower' = [at |-> "committed", secret |-> secret, nonce |-> nonce,
                public |-> Exp(Generator, secret), commitment |-> Exp(Generator, nonce)]
  /\ UNCHANGED <<leaves, levels, path>>

Respond(challenge) ==
  /\ knower.at = "committed"
  /\ knower' = [at |-> "proved", public |-> knower.public, commitment |-> knower.commitment,
                challenge |-> challenge,
                response |-> (knower.nonce + challenge * knower.secret) % Order]
  /\ UNCHANGED <<leaves, levels, path>>

\* zk_schnorr_verify
SchnorrVerify(proof) ==
  Exp(Generator, proof.response) = (proof.commitment * Exp(proof.public, proof.challenge)) % Modulus

MerkleNext == Grow \/ Climb \/ \E i \in DOMAIN leaves : Ask(i)

SchnorrNext ==
  \/ \E secret, nonce \in 0 .. Modulus - 2 : Commit(secret, nonce)
  \/ \E challenge \in 0 .. Modulus - 2 : Respond(challenge)

ZKSpec == ZKInit /\ [][MerkleNext \/ SchnorrNext]_zkVars
-----------------------------------------------------------------------------
ZKTypeOK ==
  /\ Len(levels[1]) = Len(leaves)
  /\ path # NoPath => path.index \in DOMAIN levels[Len(path.steps) + 1]
  /\ knower.at \in {"none", "committed", "proved"}

\* A finished proof verifies for the leaf it was asked for and for nothing that
\* is no such leaf; and a proof with a step left out or turned round verifies at
\* most for other leaves of the tree.
ProofsVerify ==
  RootReached /\ path # NoPath /\ Len(path.steps) = Len(levels) - 1 =>
    /\ \A x \in Claims : Verify(x, path.steps) <=> x = leaves[path.asked]
    /\ \A x \in Claims, k \in DOMAIN path.steps :
         Verify(x, RemoveAt(path.steps, k)) \/ Verify(x, [path.steps EXCEPT ![k].left = ~@])
           => x \in ToSet(leaves)

\* What the knower of the secret proves verifies, whatever the challenge: the
\* exponents wrap where the powers do.
ProofsAccepted == knower.at = "proved" => SchnorrVerify(knower)
=============================================================================
