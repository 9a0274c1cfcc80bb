------------------------------ MODULE Learning ------------------------------
(***************************************************************************)
(* Reverse-mode differentiation of NDTensor: operations record their       *)
(* operands, backward walks the records from a root in reverse topological *)
(* order and every node adds to the gradients of its operands.  Integers   *)
(* stand for floats.                                                       *)
(***************************************************************************)
EXTENDS Integers, Sequences, SequencesExt, FiniteSets

CONSTANTS
  LeafSets,      \* sequences of the tensors there may be at first: [data, scalar, requires]
  MaxTensors,    \* bound: tensors
  MaxBackwards   \* bound: calls of backward

VARIABLES
  tensors,       \* all NDTensors, oldest first
  roots          \* the tensors backward has been called on, in order

gradVars == <<tensors, roots>>

Nodes == DOMAIN tensors
Zeros(data) == [k \in DOMAIN data |-> 0]
SumOf(data) == FoldSeq(LAMBDA v, acc : v + acc, 0, data)
Plus(g, h) == [k \in DOMAIN g |-> g[k] + h[k]]

\* out = NDTensor(..., parents)
Tensor(operation, parents, data, scalar) ==
  [op |-> operation, parents |-> parents, data |-> data, scalar |-> scalar,
   requires |-> \E i \in DOMAIN parents : tensors[parents[i]].requires, grad |-> Zeros(data)]

GradInit ==
  /\ \E leaves \in LeafSets :
       tensors = [i \in DOMAIN leaves |->
                    [op |-> "leaf", parents |-> <<>>, data |-> leaves[i].data, scalar |-> leaves[i].scalar,
                     requires |-> leaves[i].requires, grad |-> Zeros(leaves[i].data)]]
  /\ roots = <<>>
-----------------------------------------------------------------------------
Building == Len(tensors) < MaxTensors
Built(t) == tensors' = Append(tensors, t) /\ UNCHANGED roots

\* The j-th tensor as one of the shape of the i-th; a scalar is spread, another
\* shape raises.
Fits(i, j) == tensors[j].scalar \/ ~tensors[i].scalar
Spread(i, j) == [k \in DOMAIN tensors[i].data |-> tensors[j].data[IF tensors[j].scalar THEN 1 ELSE k]]

Add(i, j) ==
  /\ Building /\ Fits(i, j)
  /\ Built(Tensor("add", <<i, j>>, Plus(tensors[i].data, Spread(i, j)), tensors[i].scalar))
Mul(i, j) ==
  /\ Building /\ Fits(i, j)
  /\ Built(Tensor("mul", <<i, j>>, [k \in DOMAIN tensors[i].data |-> tensors[i].data[k] * Spread(i, j)[k]],
                  tensors[i].scalar))
Square(i) ==
  Building /\ Built(Tensor("square", <<i>>, [k \in DOMAIN tensors[i].data |-> tensors[i].data[k] ^ 2],
                           tensors[i].scalar))
Sum(i) == Building /\ Built(Tensor("sum", <<i>>, <<SumOf(tensors[i].data)>>, TRUE))
Relu(i) ==
  Building /\ Built(Tensor("relu", <<i>>,
                           [k \in DOMAIN tensors[i].data |-> IF tensors[i].data[k] > 0 THEN tensors[i].data[k] ELSE 0],
                           tensors[i].scalar))
-----------------------------------------------------------------------------
\* _topo: the operands of a node first, each node once.
Topo(root) ==
  LET visit[i \in Nat, out \in Seq(Nat)] ==
        IF \E k \in DOMAIN out : out[k] = i THEN out
        ELSE Append(FoldLeft(LAMBDA acc, p : visit[p, acc], out, tensors[i].parents), i)
  IN  visit[root, <<>>]

\* Mutant of Accumulated: the gradient is set.
AccumulatedSet(g, h) == h

\* grad[i] += value
Accumulated(g, h) == Plus(g, h)

Accumulate(ts, i, g) ==
  IF ts[i].requires THEN [ts EXCEPT ![i].grad = Accumulated(@, g)] ELSE ts

\* What node n with gradient g gives to its a-th operand (backward_fn).
Given(n, a, g) ==
  LET i == n.parents[1]
      other == n.parents[3 - a]
      whole == CASE n.op = "add" -> g
                 [] n.op = "mul" ->
                      [k \in DOMAIN g |-> g[k] * (IF a = 1 THEN Spread(i, other)[k] ELSE tensors[i].data[k])]
                 [] n.op = "square" -> [k \in DOMAIN g |-> g[k] * 2 * tensors[i].data[k]]
                 [] n.op = "sum" -> [k \in DOMAIN tensors[i].data |-> g[1]]
                 [] n.op = "relu" -> [k \in DOMAIN g |-> IF tensors[i].data[k] > 0 THEN g[k] ELSE 0]
  IN  IF a = 2 /\ tensors[n.parents[2]].scalar THEN <<SumOf(whole)>> ELSE whole

\* A node gives its gradient, if it has one, to its operands in turn.
Visit(ts, i) ==
  LET n == ts[i] IN
  IF ~n.requires THEN ts
  ELSE FoldLeft(LAMBDA acc, a : Accumulate(acc, n.parents[a], Given(n, a, n.grad)),
                ts, [a \in DOMAIN n.parents |-> a])

\* backward() of a scalar; the root's own gradient is the first.
Backward(i) ==
  /\ tensors[i].scalar /\ Len(roots) < MaxBackwards
  /\ roots' = Append(roots, i)
  /\ tensors' = FoldLeft(Visit, Accumulate(tensors, i, <<1>>), Reverse(Topo(i)))

GradNext ==
  \/ \E i, j \in Nodes : Add(i, j) \/ Mul(i, j)
  \/ \E i \in Nodes : Square(i) \/ Sum(i) \/ Relu(i) \/ Backward(i)

GradSpec == GradInit /\ [][GradNext]_gradVars
-----------------------------------------------------------------------------
GradTypeOK ==
  /\ \A i \in Nodes : /\ DOMAIN tensors[i].grad = DOMAIN tensors[i].data
                      /\ Len(tensors[i].data) = 1 \/ ~tensors[i].scalar
                      /\ \A p \in DOMAIN tensors[i].parents : tensors[i].parents[p] < i
  /\ ToSet(roots) \subseteq Nodes

\* The derivative of each tensor by component c of leaf x, from the front: dual
\* numbers, operation by operation.
Tangent(x, c) ==
  LET d[i \in Nodes] ==
        LET n == tensors[i]
            p(a) == n.parents[a]
            of(a, k) == d[p(a)][IF tensors[p(a)].scalar THEN 1 ELSE k]
            val(a, k) == tensors[p(a)].data[IF tensors[p(a)].scalar THEN 1 ELSE k]
        IN  [k \in DOMAIN n.data |->
               CASE n.op = "leaf" -> IF i = x /\ k = c THEN 1 ELSE 0
                 [] n.op = "add" -> of(1, k) + of(2, k)
                 [] n.op = "mul" -> of(1, k) * val(2, k) + val(1, k) * of(2, k)
                 [] n.op = "square" -> 2 * val(1, k) * of(1, k)
                 [] n.op = "sum" -> SumOf(d[p(1)])
                 [] n.op = "relu" -> IF val(1, k) > 0 THEN of(1, k) ELSE 0]
  IN  d

\* Two calls of backward that share a node which is no leaf: the second finds
\* the first one's gradient in it and passes it on again.
Inner(i) == {n \in ToSet(Topo(i)) : tensors[n].op # "leaf"}
Apart == \A a, b \in DOMAIN roots : a # b => Inner(roots[a]) \cap Inner(roots[b]) = {}

\* When backward has been called on some scalars whose expressions share only
\* leaves, every leaf that wants a gradient has the exact one, summed over the
\* calls: however often a tensor is used on the way, none of its uses is lost
\* or counted twice.
GradientExact ==
  Apart =>
    \A x \in Nodes : \A c \in DOMAIN tensors[x].data :
      tensors[x].op = "leaf" /\ tensors[x].requires =>
        tensors[x].grad[c] =
          LET d == Tangent(x, c) IN SumOf([a \in DOMAIN roots |-> d[roots[a]][1]])
-----------------------------------------------------------------------------
(***************************************************************************)
(* The byte-pair tokenizer: train merges the most frequent pair of         *)
(* symbols again and again, leaves rare words aside if it is asked to,     *)
(* and keeps as vocabulary the symbols that are left; encode repeats the   *)
(* merges on a word.  A symbol is a sequence of letters that may end in    *)
(* the mark </w>.  A text is taken as lowercase left it.                   *)
(***************************************************************************)

CONSTANTS
  Texts,         \* the texts that may be trained on: sequences of words
  MaxMerges,     \* bound: merges
  MaxLeast       \* bound: min_frequency

Mark == "</w>"

VARIABLES
  text,
  least,         \* min_frequency
  words,         \* the words trained on, as symbols (a Counter in the code)
  merges         \* learned, in order

bpeVars == <<text, least, words, merges>>

Here(s, pair, i) == i < Len(s) /\ <<s[i], s[i + 1]>> = pair

\* A merge takes two symbols.
Onward(s, pair, i) == IF Here(s, pair, i) THEN i + 2 ELSE i + 1

\* _merge_symbols
MergeSymbols(s, pair) ==
  LET from[i \in 1 .. Len(s) + 1] ==
        IF i > Len(s) THEN <<>>
        ELSE <<IF Here(s, pair, i) THEN pair[1] \o pair[2] ELSE s[i]>> \o from[Onward(s, pair, i)]
  IN  from[1]

\* _word_symbols
WordSymbols(word) == [i \in 1 .. Len(word) + 1 |-> IF i <= Len(word) THEN <<word[i]>> ELSE <<Mark>>]

\* The words that come often enough to be trained on.
FrequentWords == SelectSeq(text, LAMBDA w : Cardinality({i \in DOMAIN text : text[i] = w}) >= least)

BPEInit ==
  /\ text \in Texts /\ least \in 1 .. MaxLeast
  /\ words = [i \in DOMAIN FrequentWords |-> WordSymbols(FrequentWords[i])]
  /\ merges = <<>>
-----------------------------------------------------------------------------
Pairs == UNION {{<<words[i][k], words[i][k + 1]>> : k \in 1 .. Len(words[i]) - 1} : i \in DOMAIN words}

Frequency(pair) ==
  FoldSeq(LAMBDA w, n : n + Cardinality({k \in 1 .. Len(w) - 1 : <<w[k], w[k + 1]>> = pair}), 0, words)

\* One turn of train: a pair that none is more frequent than.  Among equals the
\* code takes the one it met first; here it may be any of them.
Learn(pair) ==
  /\ Len(merges) < MaxMerges
  /\ pair \in Pairs /\ \A other \in Pairs : Frequency(other) <= Frequency(pair)
  /\ Frequency(pair) >= least
  /\ merges' = Append(merges, pair)
  /\ words' = [i \in DOMAIN words |-> MergeSymbols(words[i], pair)]
  /\ UNCHANGED <<text, least>>

BPENext == \E pair \in Pairs : Learn(pair)

BPESpec == BPEInit /\ [][BPENext]_bpeVars
-----------------------------------------------------------------------------
\* The vocabulary of a training that ends here.
Vocab == UNION {ToSet(words[i]) : i \in DOMAIN words}

\* for pair in self.merges
InOrderLearned == merges

EncodeWord(word) == FoldLeft(MergeSymbols, WordSymbols(word), InOrderLearned)

\* encode: what is not in the vocabulary becomes <unk>.
Unk == <<"<unk>">>
Encode(t) ==
  FlattenSeq([i \in DOMAIN t |->
    LET s == EncodeWord(t[i]) IN [k \in DOMAIN s |-> IF s[k] \in Vocab THEN s[k] ELSE Unk]])

\* decode: unknown symbols are skipped, a mark ends the word.
Letters(token) == IF Last(token) = Mark THEN Front(token) ELSE token
DecodeTokens(tokens) ==
  LET read == FoldLeft(LAMBDA acc, token :
                IF token = Unk THEN acc
                ELSE LET current == acc.current \o Letters(token) IN
                     IF Last(token) = Mark
                     THEN [done |-> Append(acc.done, current), current |-> <<>>]
                     ELSE [acc EXCEPT !.current = current],
                [done |-> <<>>, current |-> <<>>], tokens)
  IN  SelectSeq(Append(read.done, read.current), LAMBDA w : w # <<>>)

-----------------------------------------------------------------------------
BPETypeOK == Len(words) = Len(FrequentWords) /\ Len(merges) <= MaxMerges

\* Whatever the training merged, the words it was trained on come back from their
\* tokens (a word too rare may lose letters to <unk>): encoding a word leads to the symbols it ended in when the merges were
\* learned, although their letters need no longer be in the vocabulary.
RoundTrip == DecodeTokens(Encode(FrequentWords)) = FrequentWords
=============================================================================
