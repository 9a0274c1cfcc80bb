------------------------------ MODULE EVMProofs ------------------------------
(***************************************************************************)
(* FramesContained, StaticReadOnly and ValueConserved hold of every        *)
(* execution, for every size of words, addresses, stack and call depth,    *)
(* whatever is called.  EVMInv is the inductive invariant: every frame     *)
(* keeps to FrameOK by itself, and each of two frames, adjacent or not, to *)
(* the gas and the static flag of the other.                               *)
(***************************************************************************)
EXTENDS EVM, NaturalsInduction, FiniteSetTheorems, TLAPS

-----------------------------------------------------------------------------
(* Functions defined by recursion over numbers exist *)

\* A set of numbers that has a member has a least one.
LEMMA LeastNumber ==
  ASSUME NEW T, T \subseteq Nat, T # {}
  PROVE  \E m \in T : \A k \in T : m <= k
<1> DEFINE Below == OpToRel(<, Nat)
<1>1. IsWellFoundedOn(Below, Nat)
  BY NatLessThanWellFounded
<1> HIDE DEF Below
<1>2. PICK m \in T : \A k \in T : ~ (<<k, m>> \in Below)
  BY <1>1, WFMin
<1>3. \A k \in T : k < m => <<k, m>> \in Below
  BY DEF Below, OpToRel
<1>4. \A k \in T : ~ (k < m)
  BY <1>2, <1>3, Zenon
<1>5. \A k \in T : m <= k
  BY <1>4
<1> QED BY <1>5

\* G says what the value at a number is, given a function that has the values below it.
Recursive(n, S, s, G) ==
  /\ n \in Nat /\ s \in S
  /\ G \in [0 .. n -> [[0 .. n -> S] -> S]]
  /\ \A i \in 0 .. n : \A f, g \in [0 .. n -> S] :
       (\A j \in 0 .. (i - 1) : f[j] = g[j]) => G[i][f] = G[i][g]

\* A function exists whose values follow from those below them.
LEMMA RecursionExists ==
  ASSUME NEW n, NEW S, NEW s, NEW G, Recursive(n, S, s, G)
  PROVE  \E f \in [0 .. n -> S] : \A i \in 0 .. n : f[i] = G[i][f]
<1> USE DEF Recursive
<1> DEFINE Upto(k, f) == \A i \in 0 .. n : i < k => f[i] = G[i][f]
           None(k) == \A f \in [0 .. n -> S] : ~Upto(k, f)
           T == {k \in 0 .. n + 1 : None(k)}
<1>1. SUFFICES ASSUME None(n + 1) PROVE FALSE
  OBVIOUS
<1>2. n + 1 \in T /\ T \subseteq Nat
  BY <1>1
<1> HIDE DEF None
<1>3. PICK k \in T : \A l \in T : k <= l
  <2> HIDE DEF T
  <2> QED BY <1>2, LeastNumber
<1>4. [i \in 0 .. n |-> s] \in [0 .. n -> S] /\ Upto(0, [i \in 0 .. n |-> s])
  OBVIOUS
<1>5. k # 0 /\ None(k) /\ k \in 0 .. n + 1
  BY <1>4 DEF None
<1>6. k - 1 \in 0 .. n /\ ~None(k - 1)
  BY <1>3, <1>5
<1>7. PICK f \in [0 .. n -> S] : Upto(k - 1, f)
  BY <1>6 DEF None
<1> DEFINE g == [f EXCEPT ![k - 1] = G[k - 1][f]]
<1>8. G[k - 1][f] \in S
  BY <1>6
<1>9. g \in [0 .. n -> S] /\ g[k - 1] = G[k - 1][f] /\ \A j \in 0 .. n : j # k - 1 => g[j] = f[j]
  BY <1>6, <1>8
<1> HIDE DEF g
<1>10. ASSUME NEW i \in 0 .. n, i < k PROVE g[i] = G[i][g]
  <2>1. \A j \in 0 .. (i - 1) : f[j] = g[j]
    BY <1>9, <1>10
  <2>2. G[i][f] = G[i][g]
    BY <2>1, <1>9
  <2>3. CASE i = k - 1
    BY <2>2, <2>3, <1>9
  <2>4. CASE i < k - 1
    BY <2>2, <2>4, <1>7, <1>9
  <2> QED BY <2>3, <2>4, <1>6, <1>10
<1>11. Upto(k, g)
  BY <1>10
<1> QED BY <1>5, <1>9, <1>11 DEF None

\* next says what the value at a number is, given the value one below.
Iterative(n, S, s, next) == n \in Nat /\ s \in S /\ next \in [1 .. n -> [S -> S]]

\* A function exists whose values follow from those one below them.
LEMMA IterationExists ==
  ASSUME NEW n, NEW S, NEW s, NEW next, Iterative(n, S, s, next)
  PROVE  \E f \in [0 .. n -> S] : \A i \in 0 .. n : f[i] = IF i = 0 THEN s ELSE next[i][f[i - 1]]
<1> USE DEF Iterative
<1> DEFINE G == [i \in 0 .. n |-> [f \in [0 .. n -> S] |-> IF i = 0 THEN s ELSE next[i][f[i - 1]]]]
<1>1. \A i \in 0 .. n, f \in [0 .. n -> S] : i # 0 => i \in 1 .. n /\ next[i][f[i - 1]] \in S
  OBVIOUS
<1>2. G \in [0 .. n -> [[0 .. n -> S] -> S]]
  BY <1>1
<1>3. \A i \in 0 .. n, f \in [0 .. n -> S] : G[i][f] = IF i = 0 THEN s ELSE next[i][f[i - 1]]
  OBVIOUS
<1> HIDE DEF G
<1>4. ASSUME NEW i \in 0 .. n, NEW f \in [0 .. n -> S], NEW g \in [0 .. n -> S],
             \A j \in 0 .. (i - 1) : f[j] = g[j]
      PROVE  G[i][f] = G[i][g]
  <2>1. i # 0 => f[i - 1] = g[i - 1]
    BY <1>4
  <2> QED BY <1>3, <2>1
<1>5. Recursive(n, S, s, G)
  BY <1>2, <1>4 DEF Recursive
<1>6. PICK f \in [0 .. n -> S] : \A i \in 0 .. n : f[i] = G[i][f]
  <2> HIDE DEF Iterative
  <2> QED BY <1>5, RecursionExists
<1> QED BY <1>3, <1>6

\* What holds at 0, and at each number if at the one below, holds up to n.
LEMMA StepByStep ==
  ASSUME NEW n \in Nat, NEW S, NEW h, h[0] \in S, \A i \in 1 .. n : h[i - 1] \in S => h[i] \in S
  PROVE  \A i \in 0 .. n : h[i] \in S
<1> DEFINE T == {i \in 0 .. n : h[i] \notin S}
<1>1. SUFFICES ASSUME T # {} PROVE FALSE
  OBVIOUS
<1>2. PICK m \in T : \A k \in T : m <= k
  <2>1. T \subseteq Nat
    OBVIOUS
  <2> HIDE DEF T
  <2> QED BY <1>1, <2>1, LeastNumber
<1>3. m # 0 /\ m - 1 \in 0 .. n /\ m \in 1 .. n
  OBVIOUS
<1>4. m - 1 \notin T
  BY <1>2, <1>3
<1> QED BY <1>3, <1>4

-----------------------------------------------------------------------------
(* Words *)

\* The sizes of words and addresses.
LEMMA WordsAre ==
  /\ WordBytes \in Nat /\ WordBytes > 0 /\ WordBits \in Nat /\ WordBits = 8 * WordBytes
  /\ WordMod \in Nat /\ WordMod > 1 /\ Words \subseteq Nat /\ {0, 1} \subseteq Words
  /\ AddressMod \in Nat /\ AddressMod > 0 /\ Addresses \subseteq Nat /\ Bytes \subseteq Nat
<1>1. WordBytes \in Nat /\ WordBytes > 0 /\ AddressMod \in Nat /\ AddressMod > 0
  BY EVMAssumption
<1>2. WordMod \in Nat /\ WordMod > 1
  <2>1. WordBytes \in 0 .. WordBytes
    BY <1>1
  <2> QED BY <1>1, <2>1, EVMAssumption DEF WordMod
<1> QED BY <1>1, <1>2 DEF WordBits, Words, Addresses, Bytes

\* A number cut to a word.
LEMMA WordIs == \A v \in Int : Word(v) \in Words
<1>1. \A m \in Nat, v \in Int : m > 1 => v % m \in 0 .. (m - 1)
  OBVIOUS
<1> QED BY <1>1, WordsAre DEF Word, Words

\* A word with one more byte behind it, cut to a word.
LEMMA ShiftIn == \A w \in Words, b \in Bytes : Word(w * 256 + b) \in Words
<1>1. \A w, b \in Nat : w * 256 + b \in Int
  OBVIOUS
<1>2. \A w \in Words, b \in Bytes : w \in Nat /\ b \in Nat
  BY WordsAre
<1> QED BY <1>1, <1>2, WordIs

\* A number cut to an address.
LEMMA AddrIs == \A v \in Int : Addr(v) \in Addresses
<1>1. \A m \in Nat, v \in Int : m > 0 => v % m \in 0 .. (m - 1)
  OBVIOUS
<1> QED BY <1>1, WordsAre DEF Addr, Addresses

\* Bytes read as a number are a word.
LEMMA ToWordIs == ASSUME NEW bs \in Seq(Bytes) PROVE ToWord(bs) \in Words
<1> DEFINE n == Len(bs)
           P(w) == w = [i \in 0 .. Len(bs) |-> IF i = 0 THEN 0 ELSE Word(w[i - 1] * 256 + bs[i])]
           next == [i \in 1 .. n |-> [w \in Words |-> Word(w * 256 + bs[i])]]
           h == Read(bs)
<1>1. n \in Nat /\ 0 \in Words /\ \A i \in 1 .. n : bs[i] \in Bytes
  BY WordsAre
<1>2. Iterative(n, Words, 0, next)
  BY <1>1, ShiftIn DEF Iterative
<1>3. \A i \in 1 .. n, w \in Words : next[i][w] = Word(w * 256 + bs[i])
  OBVIOUS
<1>4. PICK f \in [0 .. n -> Words] : \A i \in 0 .. n : f[i] = IF i = 0 THEN 0 ELSE next[i][f[i - 1]]
  <2> HIDE DEF n, next
  <2> QED BY <1>2, IterationExists
<1>5. P(f)
  <2>1. \A i \in 0 .. n : i # 0 => next[i][f[i - 1]] = Word(f[i - 1] * 256 + bs[i])
    BY <1>1, <1>3
  <2> QED BY <1>4, <2>1
<1>6. h = CHOOSE w : P(w)
  BY DEF Read
<1>7. P(h)
  <2> HIDE DEF P, h
  <2> QED BY <1>5, <1>6
<1>8. \A i \in 0 .. n : h[i] = IF i = 0 THEN 0 ELSE Word(h[i - 1] * 256 + bs[i])
  BY <1>7
<1> HIDE DEF h, P, n
<1>9. \A i \in 1 .. n : h[i - 1] \in Words => h[i] \in Words
  BY <1>1, <1>8, ShiftIn
<1>10. h[0] \in Words
  BY <1>1, <1>8
<1>11. \A i \in 0 .. n : h[i] \in Words
  BY <1>1, <1>9, <1>10, StepByStep
<1> QED BY <1>1, <1>11 DEF ToWord, h, n

\* The sum of powers of two is a number.
LEMMA OfBitsIs == \A S : OfBits(S) \in Nat
<1> SUFFICES ASSUME NEW S PROVE OfBits(S) \in Nat
  OBVIOUS
<1> DEFINE n == WordBits
           Bit(i) == IF i - 1 \in S THEN 2 ^ (i - 1) ELSE 0
           P(w) == w = [i \in 0 .. WordBits |-> IF i = 0 THEN 0 ELSE w[i - 1] + Bit(i)]
           next == [i \in 1 .. n |-> [w \in Nat |-> w + Bit(i)]]
           h == BitSums(S)
<1>1. n \in Nat /\ \A i \in 1 .. n : Bit(i) \in Nat
  <2>1. \A i \in 1 .. n : 2 ^ (i - 1) \in Nat
    BY WordsAre, EVMAssumption
  <2> QED BY <2>1, WordsAre
<1>2. h = CHOOSE w : P(w)
  BY DEF BitSums
<1> HIDE DEF Bit
<1>3. Iterative(n, Nat, 0, next)
  BY <1>1 DEF Iterative
<1>4. \A i \in 1 .. n, w \in Nat : next[i][w] = w + Bit(i)
  OBVIOUS
<1>5. PICK f \in [0 .. n -> Nat] : \A i \in 0 .. n : f[i] = IF i = 0 THEN 0 ELSE next[i][f[i - 1]]
  <2> HIDE DEF n, next
  <2> QED BY <1>3, IterationExists
<1>6. P(f)
  <2>1. \A i \in 0 .. n : i # 0 => next[i][f[i - 1]] = f[i - 1] + Bit(i)
    BY <1>1, <1>4
  <2> QED BY <1>5, <2>1
<1>7. P(h)
  <2> HIDE DEF P, h
  <2> QED BY <1>2, <1>6
<1>8. \A i \in 0 .. n : h[i] = IF i = 0 THEN 0 ELSE h[i - 1] + Bit(i)
  BY <1>7
<1> HIDE DEF h, P, n
<1>9. \A i \in 1 .. n : h[i - 1] \in Nat => h[i] \in Nat
  BY <1>1, <1>8
<1>10. h[0] \in Nat
  BY <1>1, <1>8
<1>11. \A i \in 0 .. n : h[i] \in Nat
  BY <1>1, <1>9, <1>10, StepByStep
<1> QED BY <1>1, <1>11 DEF OfBits, h, n

\* A power as pow computes it is a word.
LEMMA PowersAre == \A a, b \in Words : Powers(a, b)[a] \in Words
<1> SUFFICES ASSUME NEW a \in Words, NEW b \in Words PROVE Powers(a, b)[a] \in Words
  OBVIOUS
<1> DEFINE P(w) == w = [i \in 0 .. a |-> IF i = 0 THEN Word(1) ELSE Word(w[i - 1] * b)]
           next == [i \in 1 .. a |-> [w \in Words |-> Word(w * b)]]
           h == Powers(a, b)
<1>1. a \in Nat /\ b \in Nat /\ Word(1) \in Words
  BY WordsAre, WordIs
<1>2. \A w \in Words : Word(w * b) \in Words
  <2>1. \A w \in Nat : w * b \in Int
    BY <1>1
  <2> QED BY <2>1, WordsAre, WordIs
<1>3. Iterative(a, Words, Word(1), next)
  BY <1>1, <1>2 DEF Iterative
<1>4. \A i \in 1 .. a, w \in Words : next[i][w] = Word(w * b)
  OBVIOUS
<1>5. PICK f \in [0 .. a -> Words] : \A i \in 0 .. a : f[i] = IF i = 0 THEN Word(1) ELSE next[i][f[i - 1]]
  <2> HIDE DEF next
  <2> QED BY <1>3, IterationExists
<1>6. P(f)
  <2>1. \A i \in 0 .. a : i # 0 => next[i][f[i - 1]] = Word(f[i - 1] * b)
    BY <1>1, <1>4
  <2> QED BY <1>5, <2>1
<1>7. h = CHOOSE w : P(w)
  BY DEF Powers
<1>8. P(h)
  <2> HIDE DEF P, h
  <2> QED BY <1>6, <1>7
<1>9. \A i \in 0 .. a : h[i] = IF i = 0 THEN Word(1) ELSE Word(h[i - 1] * b)
  BY <1>8
<1> HIDE DEF h, P
<1>10. ASSUME NEW i \in 1 .. a, h[i - 1] \in Words PROVE h[i] \in Words
  <2>1. h[i] = Word(h[i - 1] * b)
    BY <1>1, <1>9
  <2> QED BY <1>2, <1>10, <2>1
<1>11. h[0] \in Words
  BY <1>1, <1>9
<1>12. \A i \in 0 .. a : h[i] \in Words
  BY <1>1, <1>10, <1>11, StepByStep
<1> QED BY <1>1, <1>12 DEF h

-----------------------------------------------------------------------------
(* Instructions *)

\* The ranges of bytes have no entry in the table of names.
LEMMA RangesUnnamed ==
  /\ DOMAIN Opcode \cap {"PUSH", "DUP", "SWAP", "LOG"} = {}
  /\ DOMAIN NameOf \cap 96 .. 164 = {}
<1>1. DOMAIN Opcode \cap {"PUSH", "DUP", "SWAP", "LOG"} = {}
  BY DEF Opcode
<1>2. \A n \in DOMAIN Opcode : Opcode[n] \notin 96 .. 164
  BY DEF Opcode
<1> QED BY <1>1, <1>2 DEF NameOf

\* The names of the ranges are names of nothing else.
LEMMA NameIs ==
  ASSUME NEW b \in Bytes
  PROVE  /\ b \in 96 .. 127 <=> Name(b) = "PUSH"
         /\ b \in 128 .. 143 <=> Name(b) = "DUP"
         /\ b \in 144 .. 159 <=> Name(b) = "SWAP"
         /\ b \in 160 .. 164 <=> Name(b) = "LOG"
<1>1. ASSUME b \in DOMAIN NameOf PROVE NameOf[b] \in DOMAIN Opcode
  <2>1. \E n \in DOMAIN Opcode : Opcode[n] = b
    BY <1>1 DEF NameOf
  <2>2. NameOf[b] = CHOOSE n \in DOMAIN Opcode : Opcode[n] = b
    BY <1>1 DEF NameOf
  <2> QED BY <2>1, <2>2
<1>2. b \in DOMAIN NameOf => NameOf[b] \notin {"PUSH", "DUP", "SWAP", "LOG"}
  BY <1>1, RangesUnnamed
<1>3. b \in 96 .. 127 => Name(b) = "PUSH"
  BY RangesUnnamed DEF Name
<1>4. b \in 128 .. 143 => Name(b) = "DUP"
  BY RangesUnnamed DEF Name
<1>5. b \in 144 .. 159 => Name(b) = "SWAP"
  BY RangesUnnamed DEF Name
<1>6. b \in 160 .. 164 => Name(b) = "LOG"
  BY RangesUnnamed DEF Name
<1>7. b \notin 96 .. 164 => Name(b) = IF b \in DOMAIN NameOf THEN NameOf[b] ELSE "unknown"
  BY RangesUnnamed DEF Name, Bytes
<1> QED BY <1>2, <1>3, <1>4, <1>5, <1>6, <1>7 DEF Bytes

\* All the loop may fetch.
Instructions == {Fetched(b, Name(b)) : b \in Bytes} \cup {Fetched(0, "STOP")}

\* Only a PUSH has an immediate.
LEMMA SizeIs == ASSUME NEW b \in Bytes PROVE Size(b) \in Nat /\ Size(b) >= 1 /\ (b \notin 96 .. 127 => Size(b) = 1)
  BY DEF Size, Bytes

\* An instruction pops as many words as its name and byte say.
LEMMA PopsAre ==
  ASSUME NEW b \in Bytes, NEW n, n = Name(b) \/ n = "STOP"
  PROVE  /\ Pops(n, b) \in Nat
         /\ n \in {"DUP", "SELFDESTRUCT", "POP", "JUMP"} => Pops(n, b) >= 1
         /\ n \in {"SWAP", "LOG"} => Pops(n, b) >= 2
<1>1. n = "DUP" => b \in 128 .. 143
  BY NameIs
<1>2. n = "SWAP" => b \in 144 .. 159
  BY NameIs
<1>3. n = "LOG" => b \in 160 .. 164
  BY NameIs
<1> QED BY <1>1, <1>2, <1>3 DEF Pops, Bytes, Unary, Binary, Ternary

\* How many, for the instructions whose name says it alone.
LEMMA PopsOfKinds ==
  ASSUME NEW b \in Bytes, NEW n
  PROVE  /\ n \in Unary => Pops(n, b) = 1
         /\ n \in Binary \cup {"MSTORE", "MSTORE8", "SSTORE", "JUMPI", "RETURN", "REVERT"} => Pops(n, b) = 2
         /\ n \in Ternary \cup {"CALLDATACOPY", "CODECOPY", "RETURNDATACOPY", "CREATE"} => Pops(n, b) = 3
         /\ n \in {"EXTCODECOPY", "CREATE2"} => Pops(n, b) = 4
         /\ n \in {"DELEGATECALL", "STATICCALL"} => Pops(n, b) = 6
         /\ n \in {"CALL", "CALLCODE"} => Pops(n, b) = 7
  BY DEF Pops, Unary, Binary, Ternary

\* A price is a number.
LEMMA GasCostIs ==
  ASSUME NEW b \in Bytes, NEW n, n = Name(b) \/ n = "STOP"
  PROVE  GasCost(n, b) \in Nat
<1>1. n = "LOG" => b \in 160 .. 164
  BY NameIs
<1> QED BY <1>1 DEF GasCost, Bytes

-----------------------------------------------------------------------------
(* Code, bytes and memory *)

\* The table of starts is what its definition asks for: each entry follows from those before it.
LEMMA StartTableIs ==
  ASSUME NEW c \in Seq(Bytes)
  PROVE  \A i \in 0 .. Len(c) : StartTable(c)[i] <=>
           i = 0 \/ \E j \in 0 .. (i - 1) : j + Size(c[j + 1]) = i /\ StartTable(c)[j]
<1> DEFINE n == Len(c)
           From(i, f) == i = 0 \/ \E j \in 0 .. (i - 1) : j + Size(c[j + 1]) = i /\ f[j]
           P(w) == w = [i \in 0 .. Len(c) |-> From(i, w)]
           G == [i \in 0 .. n |-> [f \in [0 .. n -> BOOLEAN] |-> From(i, f)]]
<1>1. n \in Nat /\ TRUE \in BOOLEAN
  OBVIOUS
<1>2. ASSUME NEW i \in 0 .. n, NEW f \in [0 .. n -> BOOLEAN], NEW g \in [0 .. n -> BOOLEAN],
             \A j \in 0 .. (i - 1) : f[j] = g[j]
      PROVE  From(i, f) = From(i, g)
  <2>1. \A j \in 0 .. (i - 1) : j + Size(c[j + 1]) = i /\ f[j] <=> j + Size(c[j + 1]) = i /\ g[j]
    BY <1>2
  <2>2. From(i, f) <=> From(i, g)
    BY <2>1
  <2> QED BY <2>2, Zenon
<1>3. \A i, f : From(i, f) \in BOOLEAN
  OBVIOUS
<1>4. StartTable(c) = CHOOSE w : P(w)
  BY DEF StartTable
<1> HIDE DEF From
<1>5. \A i \in 0 .. n, f \in [0 .. n -> BOOLEAN] : G[i][f] = From(i, f)
  BY Zenon
<1>6. G \in [0 .. n -> [[0 .. n -> BOOLEAN] -> BOOLEAN]]
  BY <1>3, Zenon
<1> HIDE DEF G, n
<1>7. \A i \in 0 .. n : \A f, g \in [0 .. n -> BOOLEAN] :
        (\A j \in 0 .. (i - 1) : f[j] = g[j]) => G[i][f] = G[i][g]
  <2> SUFFICES ASSUME NEW i \in 0 .. n, NEW f \in [0 .. n -> BOOLEAN], NEW g \in [0 .. n -> BOOLEAN],
                      \A j \in 0 .. (i - 1) : f[j] = g[j]
               PROVE  G[i][f] = G[i][g]
    BY Zenon
  <2>1. G[i][f] = From(i, f) /\ G[i][g] = From(i, g)
    BY <1>5, Zenon
  <2>2. From(i, f) = From(i, g)
    BY <1>2, Zenon
  <2> QED BY <2>1, <2>2, Zenon
<1>8. Recursive(n, BOOLEAN, TRUE, G)
  BY <1>1, <1>6, <1>7, Zenon DEF Recursive
<1>9. PICK f \in [0 .. n -> BOOLEAN] : \A i \in 0 .. n : f[i] = G[i][f]
  <2> DEFINE B == BOOLEAN
             yes == TRUE
  <2>1. Recursive(n, B, yes, G)
    BY <1>8
  <2>2. \E f \in [0 .. n -> B] : \A i \in 0 .. n : f[i] = G[i][f]
    <3> HIDE DEF B, yes
    <3> QED BY <2>1, RecursionExists
  <2> QED BY <2>2, Zenon
<1>10. \A i \in 0 .. n : f[i] = From(i, f)
  BY <1>5, <1>9, Zenon
<1>11. f = [i \in 0 .. n |-> From(i, f)]
  BY <1>10, Zenon
<1>12. P(f)
  BY <1>11, Zenon DEF n
<1>13. P(StartTable(c))
  <2> HIDE DEF P
  <2> QED BY <1>4, <1>12
<1>14. ASSUME NEW i \in 0 .. Len(c) PROVE StartTable(c)[i] = From(i, StartTable(c))
  BY <1>13, Zenon
<1> QED BY <1>14, Zenon DEF From

\* Where an instruction starts the next one does, and the first one at 0.
LEMMA StartsAre ==
  ASSUME NEW c \in Seq(Bytes)
  PROVE  /\ Starts(c) \subseteq 0 .. (Len(c) - 1)
         /\ Len(c) > 0 => 0 \in Starts(c)
         /\ \A i \in Starts(c) : i + Size(c[i + 1]) < Len(c) => i + Size(c[i + 1]) \in Starts(c)
<1>1. \A i \in 0 .. Len(c) : StartTable(c)[i] <=>
         i = 0 \/ \E j \in 0 .. (i - 1) : j + Size(c[j + 1]) = i /\ StartTable(c)[j]
  BY StartTableIs
<1>2. Starts(c) \subseteq 0 .. (Len(c) - 1)
  BY DEF Starts
<1>3. Len(c) > 0 => 0 \in Starts(c)
  <2>1. StartTable(c)[0]
    BY <1>1
  <2> QED BY <2>1 DEF Starts
<1>4. ASSUME NEW i \in Starts(c), i + Size(c[i + 1]) < Len(c) PROVE i + Size(c[i + 1]) \in Starts(c)
  <2> DEFINE k == i + Size(c[i + 1])
  <2>1. i \in 0 .. (Len(c) - 1) /\ StartTable(c)[i] /\ c[i + 1] \in Bytes
    BY <1>2 DEF Starts
  <2>2. k \in 0 .. (Len(c) - 1) /\ i \in 0 .. (k - 1)
    BY <1>4, <2>1, SizeIs
  <2>3. \E j \in 0 .. (k - 1) : j + Size(c[j + 1]) = k /\ StartTable(c)[j]
    BY <2>1, <2>2
  <2>4. StartTable(c)[k]
    <3> HIDE DEF k
    <3> QED BY <1>1, <2>2, <2>3
  <2> QED BY <2>2, <2>4 DEF Starts
<1> QED BY <1>2, <1>3, <1>4

\* Lengths.
LEMMA SliceIs ==
  ASSUME NEW d \in Seq(Bytes), NEW offset \in Nat, NEW size \in Nat
  PROVE  Slice(d, offset, size) \in Seq(Bytes) /\ Len(Slice(d, offset, size)) = size
<1>1. \A i \in 1 .. size : (IF offset + i <= Len(d) THEN d[offset + i] ELSE 0) \in Bytes
  <2>1. 0 \in Bytes
    BY DEF Bytes
  <2> QED BY <2>1
<1> QED BY <1>1 DEF Slice

\* More bytes are no fewer words of memory.
LEMMA ChunksAre ==
  /\ \A size \in Nat : Chunks(size) \in Nat
  /\ \A size, more \in Nat : size <= more => Chunks(size) <= Chunks(more)
<1>1. \A m \in Nat, x, y \in Nat : m > 0 /\ x <= y => x \div m \in Nat /\ x \div m <= y \div m
  OBVIOUS
<1>2. \A size \in Nat : size + WordBytes - 1 \in Nat
  BY WordsAre
<1>3. \A size \in Nat : Chunks(size) \in Nat
  BY <1>1, <1>2, WordsAre DEF Chunks
<1>4. \A size, more \in Nat : size <= more => Chunks(size) <= Chunks(more)
  BY <1>1, <1>2, WordsAre DEF Chunks
<1> QED BY <1>3, <1>4

\* Memory that grows does not get cheaper.
LEMMA MemoryCostGrows ==
  \A size, more \in Nat : size <= more =>
    MemoryCost(size) \in Nat /\ MemoryCost(more) \in Nat /\ MemoryCost(size) <= MemoryCost(more)
<1> SUFFICES ASSUME NEW size \in Nat, NEW more \in Nat, size <= more
             PROVE  MemoryCost(size) \in Nat /\ MemoryCost(more) \in Nat /\ MemoryCost(size) <= MemoryCost(more)
  OBVIOUS
<1>1. \A a, b \in Nat : a <= b => a * a <= b * b /\ a * a \in Nat /\ b * b \in Nat
  OBVIOUS
<1>2. \A x, y \in Nat : x <= y => x \div 512 \in Nat /\ y \div 512 \in Nat /\ x \div 512 <= y \div 512
  OBVIOUS
<1>3. Chunks(size) \in Nat /\ Chunks(more) \in Nat /\ Chunks(size) <= Chunks(more)
  BY ChunksAre
<1> DEFINE a == Chunks(size)
           b == Chunks(more)
<1> HIDE DEF a, b
<1>4. a * a \in Nat /\ b * b \in Nat /\ a * a <= b * b
  BY <1>1, <1>3 DEF a, b
<1>5. (a * a) \div 512 \in Nat /\ (b * b) \div 512 \in Nat /\ (a * a) \div 512 <= (b * b) \div 512
  BY <1>2, <1>4
<1> QED BY <1>3, <1>5 DEF MemoryCost, a, b

\* Memory that grows is memory.
LEMMA ExpandIs ==
  ASSUME NEW m \in Seq(Bytes), NEW end \in Nat
  PROVE  Expand(m, end) \in Seq(Bytes)
<1>1. Chunks(end) * WordBytes \in Nat
  <2>1. \A a, b \in Nat : a * b \in Nat
    OBVIOUS
  <2> QED BY <2>1, ChunksAre, WordsAre
<1>2. Slice(m, 0, Chunks(end) * WordBytes) \in Seq(Bytes)
  BY <1>1, SliceIs
<1> QED BY <1>2 DEF Expand

\* Memory that is written to is memory.
LEMMA WriteIs ==
  ASSUME NEW m \in Seq(Bytes), NEW offset \in Nat, NEW bs \in Seq(Bytes)
  PROVE  Write(m, offset, bs) \in Seq(Bytes)
<1> DEFINE big == Expand(m, Extent(offset, Len(bs)))
<1>1. Extent(offset, Len(bs)) \in Nat
  BY DEF Extent
<1>2. big \in Seq(Bytes)
  BY <1>1, ExpandIs
<1> HIDE DEF big
<1>3. \A i \in 1 .. Len(big) : (IF i - offset \in 1 .. Len(bs) THEN bs[i - offset] ELSE big[i]) \in Bytes
  BY <1>2
<1>4. [i \in 1 .. Len(big) |-> IF i - offset \in 1 .. Len(bs) THEN bs[i - offset] ELSE big[i]] \in Seq(Bytes)
  BY <1>2, <1>3
<1> QED BY <1>4 DEF Write, big

\* The bytes of a word.
LEMMA ToBytesIs == \A w \in Words : ToBytes(w) \in Seq(Bytes)
<1> SUFFICES ASSUME NEW w \in Words PROVE ToBytes(w) \in Seq(Bytes)
  OBVIOUS
<1>1. \A i \in 1 .. WordBytes : 256 ^ (WordBytes - i) \in Nat /\ 256 ^ (WordBytes - i) > 0
  <2>1. \A i \in 1 .. WordBytes : WordBytes - i \in 0 .. WordBytes
    BY WordsAre
  <2> QED BY <2>1, EVMAssumption
<1>2. \A v \in Nat, p \in Nat : p > 0 => (v \div p) % 256 \in 0 .. 255
  OBVIOUS
<1>3. \A i \in 1 .. WordBytes : (w \div 256 ^ (WordBytes - i)) % 256 \in Bytes
  BY <1>1, <1>2, WordsAre DEF Bytes
<1> QED BY <1>3, WordsAre DEF ToBytes

-----------------------------------------------------------------------------
(* What instructions compute *)

\* What the hash functions answer: a word, and an address.
Hashes ==
  /\ \A bs \in Seq(Bytes) : Keccak(bs) \in Words
  /\ \A a \in Addresses, n \in Nat, salt \in Words, init \in Seq(Bytes) : NewAddress(a, n, salt, init) \in Addresses

\* Powers of two are no zeroes, so that one may divide by them.
LEMMA PowersOfTwo == \A i \in 0 .. WordBits : 2 ^ i \in Nat /\ 2 ^ i > 0
  BY EVMAssumption, WordsAre

\* A word as a signed number is zero when it is.
LEMMA SignedIs == \A w \in Words : Signed(w) \in Int /\ (w # 0 => Signed(w) # 0)
  BY WordsAre DEF Signed, Words

\* Quotients and remainders are numbers.
LEMMA DivisionIs ==
  \A v \in Int, m \in Nat : m > 0 => v \div m \in Int /\ v % m \in Int
  OBVIOUS

\* Products are numbers.
LEMMA TimesIs == \A v, w \in Int : v * w \in Int
  OBVIOUS

\* Two operands make a number.
LEMMA ArithmeticIs ==
  ASSUME Hashes, top.mem \in Seq(Bytes), NEW n \in Binary, NEW a \in Words, NEW b \in Words
  PROVE  Arithmetic(n, a, b) \in Int
<1> DEFINE sa == Signed(a)
           sb == Signed(b)
           sign == IF sb < 0 THEN -1 ELSE 1
<1>1. a \in Nat /\ b \in Nat /\ Words \subseteq Int /\ Words \subseteq Nat /\ Nat \subseteq Int
  BY WordsAre
<1>2. sa \in Int /\ sb \in Int /\ sign \in Int /\ -sign \in Int /\ (a # 0 => sa # 0)
  BY SignedIs
<1>3. Abs(sa) \in Nat /\ Abs(sb) \in Nat /\ (a # 0 => Abs(sa) > 0)
  BY <1>2 DEF Abs
<1> HIDE DEF sa, sb, sign
<1>4. n = "ADD" => Arithmetic(n, a, b) \in Int
  BY <1>1 DEF Arithmetic
<1>5. n = "MUL" => Arithmetic(n, a, b) \in Int
  BY <1>1, TimesIs DEF Arithmetic
<1>6. n = "SUB" => Arithmetic(n, a, b) \in Int
  BY <1>1 DEF Arithmetic
<1>7. n = "DIV" => Arithmetic(n, a, b) \in Int
  BY <1>1, DivisionIs DEF Arithmetic
<1>8. n = "MOD" => Arithmetic(n, a, b) \in Int
  BY <1>1, DivisionIs DEF Arithmetic
<1>9. n = "SDIV" => Arithmetic(n, a, b) \in Int
  <2> DEFINE q == Abs(sb) \div Abs(sa)
             s == IF sa < 0 THEN -sign ELSE sign
  <2>1. s \in Int /\ (a # 0 => q \in Int)
    BY <1>2, <1>3, DivisionIs
  <2> HIDE DEF q, s
  <2>2. a # 0 => s * q \in Int
    BY <2>1, TimesIs
  <2> QED BY <2>2 DEF Arithmetic, q, s, sa, sb, sign
<1>10. n = "SMOD" => Arithmetic(n, a, b) \in Int
  <2> DEFINE q == Abs(sb) % Abs(sa)
  <2>1. a # 0 => q \in Int
    BY <1>2, <1>3, DivisionIs
  <2> HIDE DEF q
  <2>2. a # 0 => sign * q \in Int
    BY <1>2, <2>1, TimesIs
  <2> QED BY <2>2 DEF Arithmetic, q, sa, sb, sign
<1>11. n = "EXP" => Arithmetic(n, a, b) \in Int
  <2>1. Powers(a, b)[a] \in Int
    BY <1>1, PowersAre
  <2> QED BY <2>1 DEF Arithmetic
<1>12. n = "SIGNEXTEND" => Arithmetic(n, a, b) \in Int
  <2>1. CASE a >= WordBytes
    BY <1>1, <2>1 DEF Arithmetic
  <2>2. CASE a < WordBytes
    <3> DEFINE p == 2 ^ (8 * a + 8)
               low == b % p
    <3>1. p \in Nat /\ p > 0
      BY <1>1, <2>2, PowersOfTwo, WordsAre
    <3> HIDE DEF p
    <3>2. low \in Int
      BY <1>1, <3>1, DivisionIs
    <3> HIDE DEF low
    <3>3. low - p \in Int
      BY <3>1, <3>2
    <3>4. ~(a >= WordBytes)
      BY <1>1, <2>2, WordsAre
    <3> QED BY <3>2, <3>3, <3>4 DEF Arithmetic, low, p
  <2> QED BY <1>1, <2>1, <2>2, WordsAre
<1>13. n \in {"LT", "GT", "SLT", "SGT", "EQ"} => Arithmetic(n, a, b) \in Int
  <2>1. \A t : Truth(t) \in Int
    BY DEF Truth
  <2> HIDE DEF Truth
  <2> QED BY <2>1 DEF Arithmetic
<1>14. n \in {"AND", "OR", "XOR"} => Arithmetic(n, a, b) \in Int
  <2>1. \A S : OfBits(S) \in Int
    BY OfBitsIs
  <2> QED BY <2>1 DEF Arithmetic
<1>15. n = "BYTE" => Arithmetic(n, a, b) \in Int
  <2>1. CASE a >= WordBytes
    BY <2>1 DEF Arithmetic
  <2>2. CASE a < WordBytes
    <3> DEFINE p == 256 ^ (WordBytes - 1 - a)
    <3>1. p \in Nat /\ p > 0
      <4>1. WordBytes - 1 - a \in 0 .. WordBytes
        BY <1>1, <2>2, WordsAre
      <4> QED BY <4>1, EVMAssumption
    <3> HIDE DEF p
    <3>2. b \div p \in Int
      BY <1>1, <3>1, DivisionIs
    <3>3. (b \div p) % 256 \in Int
      BY <3>2, DivisionIs
    <3> QED BY <3>3, <1>1, <2>2, WordsAre DEF Arithmetic, p
  <2> QED BY <1>1, <2>1, <2>2, WordsAre
<1>16. n \in {"SHL", "SHR", "SAR"} => Arithmetic(n, a, b) \in Int
  <2>1. CASE a >= WordBits
    BY <2>1 DEF Arithmetic
  <2>2. CASE a < WordBits
    <3> DEFINE p == 2 ^ a
               q == 2 ^ (WordBits - a)
    <3>1. p \in Nat /\ p > 0 /\ q \in Nat /\ q > 0 /\ ~(a >= WordBits)
      BY <1>1, <2>2, PowersOfTwo, WordsAre
    <3> HIDE DEF p, q
    <3>2. b % q \in Int /\ b \div p \in Int /\ sb \div p \in Int
      BY <1>1, <1>2, <3>1, DivisionIs
    <3>3. (b % q) * p \in Int
      BY <3>1, <3>2, TimesIs
    <3> QED BY <3>1, <3>2, <3>3 DEF Arithmetic, p, q, sb
  <2> QED BY <1>1, <2>1, <2>2, WordsAre
<1>17. n = "SHA3" => Arithmetic(n, a, b) \in Int
  <2>1. Keccak(Slice(top.mem, a, b)) \in Int
    BY <1>1, SliceIs DEF Hashes
  <2> QED BY <2>1 DEF Arithmetic
<1> QED BY <1>4, <1>5, <1>6, <1>7, <1>8, <1>9, <1>10, <1>11, <1>12, <1>13, <1>14, <1>15, <1>16, <1>17 DEF Binary

-----------------------------------------------------------------------------
(* Frames *)

\* What a call of _run keeps.
Frame ==
  [code : Seq(Bytes), owner : Addresses, address : Addresses, caller : Addresses, value : Words,
   calldata : Seq(Bytes), static : BOOLEAN, gas : Nat, pc : Nat, at : Instructions, stack : Seq(Words),
   mem : Seq(Bytes), ret : Seq(Bytes), area : Seq(Nat)]

\* It is at an instruction, and its stack has room.
FrameOK(f) ==
  /\ f \in Frame /\ f.at = Instruction(f.code, f.pc)
  /\ f.pc < Len(f.code) => f.pc \in Starts(f.code)
  /\ Len(f.stack) <= MaxStack /\ Len(f.area) = 4

\* What the loop fetches for a byte.
LEMMA InstructionsAre ==
  ASSUME NEW x \in Instructions
  PROVE  /\ x.pops \in Nat /\ x.cost \in Nat /\ x.size \in Nat /\ x.size >= 1
         /\ \E b \in Bytes : x = Fetched(b, Name(b)) \/ x = Fetched(b, "STOP")
<1>1. PICK b \in Bytes : x = Fetched(b, Name(b)) \/ x = Fetched(b, "STOP")
  <2>1. 0 \in Bytes
    BY DEF Bytes
  <2> QED
    BY <2>1 DEF Instructions
<1>2. CASE x = Fetched(b, Name(b))
  BY <1>1, <1>2, PopsAre, GasCostIs, SizeIs DEF Fetched
<1>3. CASE x = Fetched(b, "STOP")
  BY <1>1, <1>3, PopsAre, GasCostIs, SizeIs DEF Fetched
<1> QED
  BY <1>1, <1>2, <1>3

\* Whatever pc is, the loop finds an instruction: STOP behind the end.
LEMMA InstructionIs ==
  ASSUME NEW c \in Seq(Bytes), NEW pc \in Nat
  PROVE  Instruction(c, pc) \in Instructions
<1>1. CASE pc < Len(c)
  <2>1. c[pc + 1] \in Bytes
    BY <1>1
  <2> QED
    BY <1>1, <2>1 DEF Instruction, Instructions
<1>2. CASE ~(pc < Len(c))
  BY <1>2 DEF Instruction, Instructions
<1> QED
  BY <1>1, <1>2

\* The frame f has moved to pc, with what it has left and keeps then.
Moves(g, f, pc, gas, stack, mem) ==
  /\ FrameOK(f)
  /\ pc \in Nat /\ (pc < Len(f.code) => pc \in Starts(f.code))
  /\ gas \in Nat /\ stack \in Seq(Words) /\ Len(stack) <= MaxStack /\ mem \in Seq(Bytes)
  /\ g = [At(f, pc) EXCEPT !.gas = gas, !.stack = stack, !.mem = mem]

\* Moving on, whatever is paid, pushed and kept.
LEMMA MovedIs ==
  ASSUME NEW g, NEW f, NEW pc, NEW gas, NEW stack, NEW mem, Moves(g, f, pc, gas, stack, mem)
  PROVE  /\ FrameOK(g) /\ g.gas = gas /\ g.stack = stack /\ g.mem = mem
         /\ g.owner = f.owner /\ g.address = f.address
         /\ g.caller = f.caller /\ g.value = f.value /\ g.static = f.static
<1> USE DEF Moves
<1>1. f \in Frame /\ f.code \in Seq(Bytes)
  BY DEF FrameOK, Frame
<1>2. Instruction(f.code, pc) \in Instructions
  BY <1>1, InstructionIs
<1>4. g \in Frame
  BY <1>1, <1>2 DEF Frame, At
<1>5. /\ g.gas = gas /\ g.stack = stack /\ g.mem = mem /\ g.area = f.area
      /\ g.code = f.code /\ g.owner = f.owner /\ g.address = f.address
      /\ g.caller = f.caller /\ g.value = f.value /\ g.static = f.static
      /\ g.pc = pc /\ g.at = Instruction(f.code, pc)
  BY <1>1, <1>2 DEF Frame, At
<1> QED
  BY <1>4, <1>5 DEF FrameOK

\* What the frames of a call keep to, each by itself and with those around it.
FramesOK(fs) ==
  /\ fs \in Seq(Frame) /\ Len(fs) <= MaxCallDepth + 1
  /\ \A i \in 1 .. Len(fs) : FrameOK(fs[i])
  /\ \A i \in 1 .. (Len(fs) - 1) : Len(fs[i].stack) < MaxStack
  /\ \A i, j \in 1 .. Len(fs) : i <= j => fs[j].gas <= fs[i].gas /\ (fs[i].static => fs[j].static)
  /\ \A i \in 2 .. Len(fs) : Rooted(fs[i], fs[i - 1])

\* Changes nothing that the frames around it go by, and earns no gas.
Continues(g, f) ==
  /\ g.owner = f.owner /\ g.address = f.address /\ g.caller = f.caller /\ g.value = f.value
  /\ g.static = f.static /\ g.gas <= f.gas

\* The running frame may change as long as it goes by what the frames around it go by.
LEMMA TopChanged ==
  ASSUME NEW fs, FramesOK(fs), fs # <<>>, NEW g, FrameOK(g), Continues(g, fs[Len(fs)])
  PROVE  FramesOK([fs EXCEPT ![Len(fs)] = g])
<1> DEFINE gs == [fs EXCEPT ![Len(fs)] = g]
<1>1. /\ fs \in Seq(Frame) /\ Len(fs) \in Nat /\ Len(fs) > 0 /\ Len(fs) <= MaxCallDepth + 1
      /\ g \in Frame /\ MaxStack \in Nat
  BY EVMAssumption DEF FramesOK, FrameOK
<1>2. gs \in Seq(Frame) /\ Len(gs) = Len(fs) /\ gs[Len(fs)] = g /\ \A i \in 1 .. (Len(fs) - 1) : gs[i] = fs[i]
  BY <1>1
<1> HIDE DEF gs
<1>3. \A i \in 1 .. Len(fs) : FrameOK(gs[i])
  BY <1>1, <1>2 DEF FramesOK
<1>4. \A i \in 1 .. Len(fs) : fs[i] \in Frame /\ gs[i] \in Frame
  BY <1>1, <1>2
<1>5. \A i, j \in 1 .. Len(fs) : i <= j => gs[j].gas <= gs[i].gas /\ (gs[i].static => gs[j].static)
  <2> SUFFICES ASSUME NEW i \in 1 .. Len(fs), NEW j \in 1 .. Len(fs), i <= j
               PROVE  gs[j].gas <= gs[i].gas /\ (gs[i].static => gs[j].static)
    OBVIOUS
  <2>1. /\ fs[j].gas <= fs[i].gas /\ (fs[i].static => fs[j].static)
        /\ fs[i].gas \in Nat /\ fs[j].gas \in Nat /\ gs[i].gas \in Nat /\ gs[j].gas \in Nat
    BY <1>4 DEF FramesOK, Frame
  <2>2. CASE i = Len(fs)
    <3>1. i = j
      BY <1>1, <2>2
    <3> QED
      BY <2>1, <3>1
  <2>3. CASE i # Len(fs)
    <3>1. gs[i] = fs[i]
      BY <1>1, <1>2, <2>3
    <3>2. gs[j].gas <= fs[j].gas /\ gs[j].static = fs[j].static
      BY <1>1, <1>2, <2>1 DEF Continues
    <3> QED
      BY <2>1, <3>1, <3>2
  <2> QED
    BY <2>2, <2>3
<1>6. \A i \in 2 .. Len(fs) : Rooted(gs[i], gs[i - 1])
  <2> SUFFICES ASSUME NEW i \in 2 .. Len(fs) PROVE Rooted(gs[i], gs[i - 1])
    OBVIOUS
  <2>1. gs[i - 1] = fs[i - 1] /\ Rooted(fs[i], fs[i - 1])
    BY <1>1, <1>2 DEF FramesOK
  <2>2. /\ gs[i].owner = fs[i].owner /\ gs[i].address = fs[i].address
        /\ gs[i].caller = fs[i].caller /\ gs[i].value = fs[i].value
    BY <1>1, <1>2 DEF Continues
  <2> QED
    BY <2>1, <2>2 DEF Rooted
<1>7. \A i \in 1 .. (Len(fs) - 1) : Len(gs[i].stack) < MaxStack
  BY <1>1, <1>2 DEF FramesOK
<1> QED
  BY <1>1, <1>2, <1>3, <1>5, <1>6, <1>7 DEF FramesOK, gs

\* A frame may be called that has no more gas than the running one, and is static if it is.
LEMMA Pushed ==
  ASSUME NEW fs, FramesOK(fs), fs # <<>>, Len(fs) <= MaxCallDepth, Len(fs[Len(fs)].stack) < MaxStack,
         NEW g, FrameOK(g), Rooted(g, fs[Len(fs)]), g.gas <= fs[Len(fs)].gas, fs[Len(fs)].static => g.static
  PROVE  FramesOK(Append(fs, g))
<1> DEFINE n == Len(fs)
           gs == Append(fs, g)
<1>1. /\ fs \in Seq(Frame) /\ n \in Nat /\ n > 0 /\ n <= MaxCallDepth
      /\ g \in Frame /\ MaxStack \in Nat /\ MaxCallDepth \in Nat
  BY EVMAssumption DEF FramesOK, FrameOK
<1>2. gs \in Seq(Frame) /\ Len(gs) = n + 1 /\ gs[n + 1] = g /\ \A i \in 1 .. n : gs[i] = fs[i]
  BY <1>1
<1> HIDE DEF gs
<1>3. \A i \in 1 .. (n + 1) : FrameOK(gs[i])
  BY <1>1, <1>2 DEF FramesOK
<1>4. \A i \in 1 .. (n + 1) : gs[i] \in Frame
  BY <1>1, <1>2
<1>5. \A i, j \in 1 .. (n + 1) : i <= j => gs[j].gas <= gs[i].gas /\ (gs[i].static => gs[j].static)
  <2> SUFFICES ASSUME NEW i \in 1 .. (n + 1), NEW j \in 1 .. (n + 1), i <= j
               PROVE  gs[j].gas <= gs[i].gas /\ (gs[i].static => gs[j].static)
    OBVIOUS
  <2>1. gs[i].gas \in Nat /\ gs[j].gas \in Nat
    BY <1>4 DEF Frame
  <2>2. CASE j <= n
    BY <1>1, <1>2, <2>2 DEF FramesOK
  <2>3. CASE j = n + 1 /\ i = n + 1
    BY <2>1, <2>3
  <2>4. CASE j = n + 1 /\ i <= n
    <3>0. fs[n] \in Frame /\ fs[i] \in Frame
      <4> HIDE DEF n
      <4>1. n \in 1 .. Len(fs) /\ i \in 1 .. Len(fs)
        BY <1>1, <2>4 DEF n
      <4> QED
        BY <1>1, <4>1
    <3>1. gs[i] = fs[i] /\ gs[j] = g
      BY <1>1, <1>2, <2>4
    <3>3. fs[n].gas \in Nat /\ g.gas \in Nat /\ fs[i].gas \in Nat
      BY <1>1, <3>0 DEF Frame
    <3>2. fs[n].gas <= fs[i].gas /\ (fs[i].static => fs[n].static)
      BY <1>1, <2>4 DEF FramesOK
    <3> QED
      BY <3>1, <3>2, <3>3
  <2> QED
    BY <1>1, <2>2, <2>3, <2>4
<1>6. \A i \in 2 .. (n + 1) : Rooted(gs[i], gs[i - 1])
  BY <1>1, <1>2 DEF FramesOK
<1>7. \A i \in 1 .. n : Len(gs[i].stack) < MaxStack
  BY <1>1, <1>2 DEF FramesOK
<1> QED
  BY <1>1, <1>2, <1>3, <1>5, <1>6, <1>7 DEF FramesOK, gs

\* The running frame may return to the one below it.
LEMMA Popped ==
  ASSUME NEW fs, FramesOK(fs), Len(fs) > 1, NEW g, FrameOK(g), Continues(g, fs[Len(fs) - 1])
  PROVE  FramesOK(Append(SubSeq(fs, 1, Len(fs) - 2), g))
<1> DEFINE n == Len(fs) - 1
           es == SubSeq(fs, 1, n)
           gs == [es EXCEPT ![n] = g]
<1>1. fs \in Seq(Frame) /\ n \in Nat /\ n > 0 /\ n <= MaxCallDepth + 1 /\ Len(fs) = n + 1
  BY EVMAssumption DEF FramesOK
<1>2. es \in Seq(Frame) /\ Len(es) = n /\ es # <<>> /\ \A i \in 1 .. n : es[i] = fs[i]
  <2>1. es = [i \in 1 .. n |-> fs[i]]
    BY <1>1
  <2>2. \A i \in 1 .. n : fs[i] \in Frame
    BY <1>1
  <2> HIDE DEF es, n
  <2> QED
    BY <1>1, <2>1, <2>2
<1>3. FramesOK(es)
  <2> HIDE DEF es, n
  <2>1. \A i \in 1 .. n : FrameOK(es[i])
    BY <1>1, <1>2 DEF FramesOK
  <2>2. \A i \in 1 .. (n - 1) : Len(es[i].stack) < MaxStack
    BY <1>1, <1>2 DEF FramesOK
  <2>3. \A i, j \in 1 .. n : i <= j => es[j].gas <= es[i].gas /\ (es[i].static => es[j].static)
    BY <1>1, <1>2 DEF FramesOK
  <2>4. \A i \in 2 .. n : Rooted(es[i], es[i - 1])
    BY <1>1, <1>2 DEF FramesOK
  <2> QED
    BY <1>1, <1>2, <2>1, <2>2, <2>3, <2>4 DEF FramesOK
<1>4. es[Len(es)] = fs[n]
  BY <1>1, <1>2
<1>5. FramesOK(gs)
  <2> HIDE DEF es, n
  <2> QED
    BY <1>1, <1>2, <1>3, <1>4, TopChanged DEF n
<1>6. Append(SubSeq(fs, 1, Len(fs) - 2), g) = gs
  <2>1. g \in Frame
    BY DEF FrameOK
  <2> DEFINE ds == SubSeq(fs, 1, Len(fs) - 2)
  <2>2. ds \in Seq(Frame) /\ Len(ds) = n - 1 /\ \A i \in 1 .. (n - 1) : ds[i] = fs[i]
    BY <1>1
  <2>3. Append(ds, g) \in Seq(Frame) /\ Len(Append(ds, g)) = n
        /\ \A i \in 1 .. n : Append(ds, g)[i] = IF i = n THEN g ELSE fs[i]
    <3> HIDE DEF ds, n
    <3> QED
      BY <1>1, <2>1, <2>2
  <2>4. gs \in Seq(Frame) /\ Len(gs) = n /\ \A i \in 1 .. n : gs[i] = IF i = n THEN g ELSE fs[i]
    <3> HIDE DEF es, n
    <3> QED
      BY <1>1, <1>2, <2>1
  <2> HIDE DEF ds, gs, n
  <2> QED
    BY <1>1, <2>3, <2>4, SMT DEF ds
<1> QED
  BY <1>5, <1>6

-----------------------------------------------------------------------------
(* The invariant, and what a running instruction may rely on *)

\* What the accounts keep to.
AccountsOK ==
  /\ balance \in [Addresses -> Nat] /\ nonce \in [Addresses -> Nat] /\ code \in [Addresses -> Seq(Bytes)]
  /\ storage = [a \in Addresses |-> storage[a]]
  /\ \A a \in Addresses : \A k \in DOMAIN storage[a] : k \in Words /\ storage[a][k] \in Words

\* The inductive invariant of an execution.
EVMInv ==
  /\ request \in Requests /\ FramesOK(frames) /\ AccountsOK
  /\ \A i \in 1 .. Len(frames) : frames[i].gas <= request.gas
  /\ result \notin {NoResult, Escaped} => result.used \in 0 .. request.gas

\* There is a running frame, and it is a frame.
LEMMA TopIs ==
  ASSUME EVMInv, frames # <<>>
  PROVE  /\ FrameOK(top) /\ top \in Frame /\ Len(frames) \in Nat /\ Len(frames) > 0 /\ frames \in Seq(Frame)
         /\ top.gas <= request.gas /\ request.gas \in Nat /\ top.gas \in Nat
<1>1. frames \in Seq(Frame) /\ Len(frames) \in Nat /\ Len(frames) > 0
  BY DEF EVMInv, FramesOK
<1>2. FrameOK(top)
  BY <1>1 DEF EVMInv, FramesOK, top
<1>3. request.gas \in Nat
  BY EVMAssumption DEF EVMInv
<1> QED
  BY <1>1, <1>2, <1>3 DEF EVMInv, FrameOK, Frame, top

\* What the instruction has to work on.
LEMMA OperandsAre ==
  ASSUME EVMInv, frames # <<>>, top.pc < Len(top.code), ~Short
  PROVE  /\ \E b \in Bytes : top.at = Fetched(b, Name(b)) /\ b = top.code[top.pc + 1]
         /\ top.at.pops \in Nat /\ top.at.cost \in Nat /\ top.at.size \in Nat
         /\ arg \in Seq(Words) /\ Len(arg) = top.at.pops
         /\ rest \in Seq(Words) /\ Len(rest) = Len(top.stack) - top.at.pops
         /\ ins # "PUSH" => top.at.size = 1
         /\ ins \in {"DUP", "SELFDESTRUCT", "POP", "JUMP"} => top.at.pops >= 1
         /\ ins \in {"SWAP", "LOG"} => top.at.pops >= 2
         /\ ins \in Unary => top.at.pops = 1
         /\ ins \in Binary \cup {"MSTORE", "MSTORE8", "SSTORE", "JUMPI", "RETURN", "REVERT"} => top.at.pops = 2
         /\ ins \in Ternary \cup {"CALLDATACOPY", "CODECOPY", "RETURNDATACOPY", "CREATE"} => top.at.pops = 3
         /\ ins \in {"EXTCODECOPY", "CREATE2"} => top.at.pops = 4
         /\ ins \in {"DELEGATECALL", "STATICCALL"} => top.at.pops = 6
         /\ ins \in {"CALL", "CALLCODE"} => top.at.pops = 7
         /\ top.pc + top.at.size \in Nat
         /\ top.pc + top.at.size < Len(top.code) => top.pc + top.at.size \in Starts(top.code)
<1>1. FrameOK(top) /\ top \in Frame /\ top.pc \in Nat /\ top.code \in Seq(Bytes) /\ top.stack \in Seq(Words)
  BY TopIs DEF Frame
<1>2. top.code[top.pc + 1] \in Bytes
  BY <1>1
<1> DEFINE b == top.code[top.pc + 1]
<1>3. top.at = Fetched(b, Name(b))
  BY <1>1 DEF FrameOK, Instruction
<1> HIDE DEF b
<1>4. b \in Bytes /\ b = top.code[top.pc + 1]
  BY <1>2 DEF b
<1>5. ins = Name(b) /\ top.at.pops = Pops(ins, b) /\ top.at.size = Size(b) /\ top.at.cost = GasCost(ins, b)
  BY <1>3 DEF Fetched, ins
<1>6. top.at.pops \in Nat /\ top.at.cost \in Nat /\ top.at.size \in Nat
  BY <1>4, <1>5, PopsAre, GasCostIs, SizeIs
<1>7. top.at.pops <= Len(top.stack)
  BY <1>1, <1>6 DEF Short
<1>8. arg \in Seq(Words) /\ Len(arg) = top.at.pops
  BY <1>1, <1>6, <1>7 DEF arg
<1>9. rest \in Seq(Words) /\ Len(rest) = Len(top.stack) - top.at.pops
  BY <1>1, <1>6, <1>7 DEF rest
<1>10. ins # "PUSH" => top.at.size = 1
  BY <1>4, <1>5, NameIs, SizeIs
<1>11. /\ ins \in {"DUP", "SELFDESTRUCT", "POP", "JUMP"} => top.at.pops >= 1
       /\ ins \in {"SWAP", "LOG"} => top.at.pops >= 2
  BY <1>4, <1>5, PopsAre
<1>12. /\ ins \in Unary => top.at.pops = 1
       /\ ins \in Binary \cup {"MSTORE", "MSTORE8", "SSTORE", "JUMPI", "RETURN", "REVERT"} => top.at.pops = 2
       /\ ins \in Ternary \cup {"CALLDATACOPY", "CODECOPY", "RETURNDATACOPY", "CREATE"} => top.at.pops = 3
       /\ ins \in {"EXTCODECOPY", "CREATE2"} => top.at.pops = 4
       /\ ins \in {"DELEGATECALL", "STATICCALL"} => top.at.pops = 6
       /\ ins \in {"CALL", "CALLCODE"} => top.at.pops = 7
  BY <1>4, <1>5, PopsOfKinds
<1>13. top.pc \in Starts(top.code)
  BY <1>1 DEF FrameOK
<1>14. top.pc + top.at.size < Len(top.code) => top.pc + top.at.size \in Starts(top.code)
  BY <1>1, <1>4, <1>5, <1>13, StartsAre
<1> QED
  BY <1>1, <1>3, <1>4, <1>6, <1>8, <1>9, <1>10, <1>11, <1>12, <1>14

\* A word of the operands.
LEMMA OperandIs ==
  ASSUME arg \in Seq(Words), NEW i \in Nat, i >= 1, i <= Len(arg)
  PROVE  arg[i] \in Words /\ arg[i] \in Nat /\ Addr(arg[i]) \in Addresses
<1>1. arg[i] \in Words
  OBVIOUS
<1>2. arg[i] \in Nat
  BY <1>1, WordsAre
<1>3. Addr(arg[i]) \in Addresses
  BY <1>2, AddrIs
<1> QED
  BY <1>1, <1>2, <1>3

\* Words and addresses are numbers.
LEMMA NumbersAre ==
  /\ \A w \in Words : w \in Nat /\ w \in Int
  /\ \A a \in Addresses : a \in Nat /\ a \in Int
  BY WordsAre

\* A truth value on the stack.
LEMMA TruthIs == \A b \in BOOLEAN : Truth(b) \in {0, 1}
  BY DEF Truth

\* What SLOAD finds is a word.
LEMMA StoredIs ==
  ASSUME AccountsOK, NEW a \in Addresses, NEW k
  PROVE  Stored(a, k) \in Words
<1>1. k \in DOMAIN storage[a] => storage[a][k] \in Words
  BY DEF AccountsOK
<1> QED
  BY <1>1, WordsAre DEF Stored

\* What an instruction pushes is a number.
LEMMA ComputedIs ==
  ASSUME EVMInv, Hashes, frames # <<>>, top.pc < Len(top.code), ~Short, ins \in Computes
  PROVE  Computed \in Int
<1>1. /\ top.code \in Seq(Bytes) /\ top.pc \in Nat /\ top.mem \in Seq(Bytes) /\ top.ret \in Seq(Bytes)
      /\ top.calldata \in Seq(Bytes) /\ top.address \in Addresses /\ top.caller \in Addresses
      /\ top.value \in Words /\ top.gas \in Nat
  BY TopIs DEF Frame
<1>2. /\ arg \in Seq(Words) /\ Len(arg) = top.at.pops /\ top.at.cost \in Nat /\ top.at.size \in Nat
      /\ ins \in Unary => Len(arg) = 1
      /\ ins \in Binary => Len(arg) = 2
      /\ ins \in Ternary => Len(arg) = 3
      /\ top.at.size >= 1
  <2>1. top.at \in Instructions
    BY TopIs DEF Frame
  <2> QED
    BY <2>1, OperandsAre, InstructionsAre
<1>3. AccountsOK /\ Env \in [EnvOps -> Int]
  BY EVMAssumption DEF EVMInv
<1>4. ins \in Unary => arg[1] \in Words /\ arg[1] \in Nat /\ Addr(arg[1]) \in Addresses
  BY <1>2, OperandIs
<1>5. ins \in Binary => arg[1] \in Words /\ arg[2] \in Words
  BY <1>2, OperandIs
<1>6. ins \in Ternary => arg[1] \in Nat /\ arg[2] \in Nat /\ arg[3] \in Nat
  BY <1>2, OperandIs
<1>7. CASE ins = "PUSH"
  <2>1. Computed = ToWord(Slice(top.code, top.pc + 1, top.at.size - 1))
    BY <1>7 DEF Computed, Binary
  <2>2. top.pc + 1 \in Nat /\ top.at.size - 1 \in Nat
    BY <1>1, <1>2
  <2>3. Slice(top.code, top.pc + 1, top.at.size - 1) \in Seq(Bytes)
    BY <1>1, <2>2, SliceIs
  <2> QED
    BY <2>1, <2>3, ToWordIs, NumbersAre
<1>8. CASE ins \in {"PUSH0", "PC", "MSIZE", "GAS", "CALLDATASIZE", "CODESIZE", "RETURNDATASIZE"}
  <2>1. /\ ins = "PUSH0" => Computed = 0
        /\ ins = "PC" => Computed = top.pc
        /\ ins = "MSIZE" => Computed = Len(top.mem)
        /\ ins = "GAS" => Computed = top.gas - top.at.cost
        /\ ins = "CALLDATASIZE" => Computed = Len(top.calldata)
        /\ ins = "CODESIZE" => Computed = Len(top.code)
        /\ ins = "RETURNDATASIZE" => Computed = Len(top.ret)
    BY DEF Computed, Binary
  <2>2. {0, top.pc, Len(top.mem), top.gas - top.at.cost, Len(top.calldata), Len(top.code), Len(top.ret)} \subseteq Int
    BY <1>1, <1>2
  <2> QED
    BY <1>8, <2>1, <2>2
<1>9. CASE ins \in {"ADDRESS", "CALLER", "CALLVALUE", "SELFBALANCE"}
  <2>1. /\ ins = "ADDRESS" => Computed = top.address
        /\ ins = "CALLER" => Computed = top.caller
        /\ ins = "CALLVALUE" => Computed = top.value
        /\ ins = "SELFBALANCE" => Computed = balance[top.address]
    BY DEF Computed, Binary
  <2>2. top.address \in Int /\ top.caller \in Int /\ top.value \in Int
    BY <1>1, NumbersAre
  <2>3. balance[top.address] \in Int
    BY <1>1, <1>3 DEF AccountsOK
  <2> QED
    BY <1>9, <2>1, <2>2, <2>3
<1>10. CASE ins \in {"ISZERO", "NOT", "BLOCKHASH", "BLOBHASH"}
  <2>1. Computed \in {Truth(arg[1] = 0), WordMod - 1 - arg[1], 0}
    BY <1>10 DEF Computed, Binary
  <2>2. {Truth(arg[1] = 0), WordMod - 1 - arg[1], 0} \subseteq Int
    BY <1>4, <1>10, WordsAre DEF Unary, Truth
  <2> QED
    BY <2>1, <2>2
<1>11. CASE ins \in {"BALANCE", "EXTCODESIZE", "EXTCODEHASH", "SLOAD"}
  <2>1. /\ ins = "BALANCE" => Computed = balance[Addr(arg[1])]
        /\ ins = "EXTCODESIZE" => Computed = Len(code[Addr(arg[1])])
        /\ ins = "EXTCODEHASH" => Computed = Keccak(code[Addr(arg[1])])
        /\ ins = "SLOAD" => Computed = Stored(top.address, arg[1])
    BY DEF Computed, Binary
  <2>2. Addr(arg[1]) \in Addresses
    BY <1>4, <1>11 DEF Unary
  <2>3. balance[Addr(arg[1])] \in Int /\ code[Addr(arg[1])] \in Seq(Bytes)
    BY <1>3, <2>2 DEF AccountsOK
  <2>4. Keccak(code[Addr(arg[1])]) \in Int
    BY <2>3, NumbersAre DEF Hashes
  <2>5. Stored(top.address, arg[1]) \in Int
    BY <1>1, <1>3, StoredIs, NumbersAre
  <2> QED
    BY <1>11, <2>1, <2>3, <2>4, <2>5
<1>12. CASE ins \in {"CALLDATALOAD", "MLOAD"}
  <2> DEFINE from == IF ins = "MLOAD" THEN top.mem ELSE top.calldata
  <2>1. Computed = ToWord(Slice(from, arg[1], WordBytes))
    BY <1>12 DEF Computed, Binary
  <2>2. Slice(from, arg[1], WordBytes) \in Seq(Bytes)
    <3>1. arg[1] \in Nat /\ from \in Seq(Bytes) /\ WordBytes \in Nat
      BY <1>1, <1>4, <1>12, WordsAre DEF Unary
    <3> HIDE DEF from
    <3> QED
      BY <3>1, SliceIs
  <2> QED
    BY <2>1, <2>2, ToWordIs, NumbersAre
<1>13. CASE ins \in Ternary
  <2>1. /\ ins = "ADDMOD" => Computed = IF arg[3] = 0 THEN 0 ELSE (arg[1] + arg[2]) % arg[3]
        /\ ins = "MULMOD" => Computed = IF arg[3] = 0 THEN 0 ELSE (arg[1] * arg[2]) % arg[3]
    BY DEF Computed, Binary
  <2>2. arg[1] + arg[2] \in Int /\ arg[1] * arg[2] \in Int
    BY <1>6, <1>13, TimesIs
  <2>3. arg[3] # 0 => (arg[1] + arg[2]) % arg[3] \in Int /\ (arg[1] * arg[2]) % arg[3] \in Int
    <3> DEFINE v == arg[1] + arg[2]
               w == arg[1] * arg[2]
    <3> HIDE DEF v, w
    <3>1. arg[3] # 0 => v % arg[3] \in Int /\ w % arg[3] \in Int
      BY <1>6, <1>13, <2>2, DivisionIs DEF v, w
    <3> QED
      BY <3>1 DEF v, w
  <2> QED
    BY <1>13, <2>1, <2>3 DEF Ternary
<1>14. CASE ins \in Binary
  <2>1. Computed = Arithmetic(ins, arg[1], arg[2])
    BY <1>14 DEF Computed, Binary
  <2> QED
    BY <1>1, <1>5, <1>14, <2>1, ArithmeticIs
<1>15. CASE ins \in EnvOps
  <2>1. Computed \in {0, Env[ins]}
    BY <1>15 DEF Computed, Binary, EnvOps
  <2> QED
    BY <1>3, <1>15, <2>1
<1>16. \/ ins = "PUSH"
       \/ ins \in {"PUSH0", "PC", "MSIZE", "GAS", "CALLDATASIZE", "CODESIZE", "RETURNDATASIZE"}
       \/ ins \in {"ADDRESS", "CALLER", "CALLVALUE", "SELFBALANCE"}
       \/ ins \in {"ISZERO", "NOT", "BLOCKHASH", "BLOBHASH"}
       \/ ins \in {"BALANCE", "EXTCODESIZE", "EXTCODEHASH", "SLOAD"}
       \/ ins \in {"CALLDATALOAD", "MLOAD"}
       \/ ins \in Ternary \/ ins \in Binary \/ ins \in EnvOps
  BY DEF Computes, Nullary, Unary
<1> QED
  BY <1>7, <1>8, <1>9, <1>10, <1>11, <1>12, <1>13, <1>14, <1>15, <1>16

\* How far memory is reached.
LEMMA ReachIs ==
  ASSUME EVMInv, frames # <<>>, top.pc < Len(top.code), ~Short
  PROVE  Reach \in Nat
<1>1. /\ arg \in Seq(Words) /\ WordBytes \in Nat
      /\ ins \in {"SHA3", "LOG"} => Len(arg) >= 2
      /\ ins = "MLOAD" => Len(arg) = 1
      /\ ins \in {"MSTORE", "MSTORE8"} => Len(arg) = 2
      /\ ins = "EXTCODECOPY" => Len(arg) = 4
      /\ ins \in Copies \ {"EXTCODECOPY"} => Len(arg) = 3
  <2>1. /\ arg \in Seq(Words) /\ WordBytes \in Nat /\ Len(arg) = top.at.pops /\ top.at.pops \in Nat
        /\ "SHA3" \in Binary /\ "MLOAD" \in Unary
        /\ Copies \ {"EXTCODECOPY"} = {"CALLDATACOPY", "CODECOPY", "RETURNDATACOPY"}
    BY OperandsAre, WordsAre DEF Binary, Unary, Copies
  <2>2. /\ ins \in {"SWAP", "LOG"} => top.at.pops >= 2
        /\ ins \in Unary => top.at.pops = 1
        /\ ins \in Binary \cup {"MSTORE", "MSTORE8", "SSTORE", "JUMPI", "RETURN", "REVERT"} => top.at.pops = 2
        /\ ins \in Ternary \cup {"CALLDATACOPY", "CODECOPY", "RETURNDATACOPY", "CREATE"} => top.at.pops = 3
        /\ ins \in {"EXTCODECOPY", "CREATE2"} => top.at.pops = 4
    BY OperandsAre
  <2> QED
    BY <2>1, <2>2
<1>2. \A i \in Nat : i >= 1 /\ i <= Len(arg) => arg[i] \in Nat
  BY <1>1, OperandIs
<1>3. ins \in {"SHA3", "LOG"} => Reach = arg[1] + arg[2]
  BY DEF Reach, Copies
<1>4. ins \in {"MLOAD", "MSTORE"} => Reach = arg[1] + WordBytes
  BY DEF Reach, Copies
<1>5. ins = "MSTORE8" => Reach = arg[1] + 1
  BY DEF Reach, Copies
<1>6. ins = "EXTCODECOPY" => Reach = arg[2] + arg[4]
  BY DEF Reach, Copies
<1>7. ins \in Copies \ {"EXTCODECOPY"} => Reach = arg[1] + arg[3]
  BY DEF Reach, Copies
<1>8. ins \notin Copies \cup {"SHA3", "LOG", "MLOAD", "MSTORE", "MSTORE8"} => Reach = 0
  BY DEF Reach, Copies
<1> QED
  BY <1>1, <1>2, <1>3, <1>4, <1>5, <1>6, <1>7, <1>8 DEF Copies

\* An instruction does not earn gas.
LEMMA SurchargeIs ==
  ASSUME EVMInv, frames # <<>>, top.pc < Len(top.code), ~Short
  PROVE  Surcharge \in Nat
<1>1. /\ arg \in Seq(Words) /\ top.mem \in Seq(Bytes) /\ Reach \in Nat
      /\ ins \in Copies \cup {"SHA3", "LOG", "EXP"} => Len(arg) >= 2
  <2>1. /\ arg \in Seq(Words) /\ Len(arg) = top.at.pops /\ top.at.pops \in Nat
        /\ {"SHA3", "EXP"} \subseteq Binary
        /\ Copies \ {"EXTCODECOPY"} = {"CALLDATACOPY", "CODECOPY", "RETURNDATACOPY"}
        /\ ins \in {"SWAP", "LOG"} => top.at.pops >= 2
        /\ ins \in Binary \cup {"MSTORE", "MSTORE8", "SSTORE", "JUMPI", "RETURN", "REVERT"} => top.at.pops = 2
        /\ ins \in Ternary \cup {"CALLDATACOPY", "CODECOPY", "RETURNDATACOPY", "CREATE"} => top.at.pops = 3
        /\ ins \in {"EXTCODECOPY", "CREATE2"} => top.at.pops = 4
    BY OperandsAre DEF Binary, Copies
  <2>2. top.mem \in Seq(Bytes)
    BY TopIs DEF Frame
  <2> QED
    BY <2>1, <2>2, ReachIs
<1> DEFINE grown == IF ins # "MLOAD" /\ Reach > Len(top.mem) THEN MemoryCost(Reach) - MemoryCost(Len(top.mem)) ELSE 0
           copied == Chunks(arg[Len(arg)])
           digits == Cardinality({n \in 1 .. WordBytes : 256 ^ (n - 1) <= arg[1]})
<1>2. grown \in Nat
  <2>1. Len(top.mem) \in Nat
    BY <1>1
  <2>2. CASE Reach > Len(top.mem)
    <3>1. /\ MemoryCost(Len(top.mem)) \in Nat /\ MemoryCost(Reach) \in Nat
          /\ MemoryCost(Len(top.mem)) <= MemoryCost(Reach)
      BY <1>1, <2>1, <2>2, MemoryCostGrows
    <3> QED
      BY <3>1
  <2> QED
    BY <1>1, <2>1, <2>2
<1>3. ins \in Copies \cup {"SHA3"} => copied \in Nat
  <2>1. ins \in Copies \cup {"SHA3"} => arg[Len(arg)] \in Nat
    BY <1>1, OperandIs
  <2> QED
    BY <2>1, ChunksAre
<1>4. digits \in Nat
  <2> DEFINE D == {n \in 1 .. WordBytes : 256 ^ (n - 1) <= arg[1]}
  <2>0. IsFiniteSet(1 .. WordBytes)
    BY WordsAre, FS_Interval
  <2>1. IsFiniteSet(D)
    <3>1. D \subseteq 1 .. WordBytes
      OBVIOUS
    <3> QED
      BY <2>0, <3>1, FS_Subset
  <2> QED
    BY <2>1, FS_CardinalityType
<1>5. ins = "LOG" => arg[2] \in Nat
  BY <1>1, OperandIs
<1> HIDE DEF grown, copied, digits
<1>6. ins \in Copies => Surcharge = grown + 3 * copied
  BY DEF Surcharge, Copies, grown, copied
<1>7. ins = "SHA3" => Surcharge = grown + 6 * copied
  BY DEF Surcharge, Copies, grown, copied
<1>8. ins = "LOG" => Surcharge = grown + 8 * arg[2]
  BY DEF Surcharge, Copies, grown
<1>9. ins = "EXP" => Surcharge = grown + 50 * digits
  BY DEF Surcharge, Copies, grown, digits
<1>10. ins \notin Copies \cup {"SHA3", "LOG", "EXP"} => Surcharge = grown + 0
  BY DEF Surcharge, Copies, grown
<1> QED
  BY <1>2, <1>3, <1>4, <1>5, <1>6, <1>7, <1>8, <1>9, <1>10

\* An instruction that does not raise has been paid for, and nobody earned by it.
LEMMA LeftIs ==
  ASSUME EVMInv, frames # <<>>, top.pc < Len(top.code), ~Raises
  PROVE  ~Short /\ Reach \in Nat /\ left \in Nat /\ left <= top.gas
<1>1. ~Short /\ ~(left < 0)
  BY DEF Raises
<1>2. Surcharge \in Nat /\ Reach \in Nat /\ top.at.cost \in Nat /\ top.gas \in Nat
  BY <1>1, SurchargeIs, ReachIs, OperandsAre, TopIs
<1>3. left = top.gas - (top.at.cost + Surcharge)
  BY DEF left, Charged
<1> QED
  BY <1>1, <1>2, <1>3

-----------------------------------------------------------------------------
(* Moving on *)

\* To continue what continues is to continue.
LEMMA ContinuesTwice ==
  ASSUME NEW f, NEW g, NEW h, f \in Frame, g \in Frame, h \in Frame, Continues(g, f), Continues(h, g)
  PROVE  Continues(h, f)
<1>1. f.gas \in Nat /\ g.gas \in Nat /\ h.gas \in Nat
  BY DEF Frame
<1>2. h.gas <= g.gas /\ g.gas <= f.gas
  BY DEF Continues
<1>3. h.gas <= f.gas
  BY <1>1, <1>2
<1> QED
  BY <1>3, Zenon DEF Continues

\* A field changed in place.
LEMMA Kept ==
  ASSUME NEW f, FrameOK(f)
  PROVE  /\ \A m \in Seq(Bytes) : LET g == [f EXCEPT !.mem = m] IN
              FrameOK(g) /\ Continues(g, f) /\ g.mem = m /\ g.stack = f.stack /\ g.gas = f.gas
         /\ \A r \in Seq(Bytes) : LET g == [f EXCEPT !.ret = r] IN
              FrameOK(g) /\ Continues(g, f) /\ g.mem = f.mem /\ g.stack = f.stack
         /\ \A s \in Seq(Words) : Len(s) <= MaxStack => LET g == [f EXCEPT !.stack = s] IN
              FrameOK(g) /\ Continues(g, f) /\ g.mem = f.mem
         /\ \A a \in Seq(Nat) : Len(a) = 4 => LET g == [f EXCEPT !.area = a] IN
              FrameOK(g) /\ Continues(g, f) /\ g.stack = f.stack /\ g.gas = f.gas
<1>1. f \in Frame
  BY DEF FrameOK
<1>2. ASSUME NEW m \in Seq(Bytes), NEW g, g = [f EXCEPT !.mem = m]
      PROVE  FrameOK(g) /\ Continues(g, f) /\ g.mem = m /\ g.stack = f.stack /\ g.gas = f.gas
  <2>1. g \in Frame /\ g.mem = m
    BY <1>1, <1>2 DEF Frame
  <2>2. /\ g.code = f.code /\ g.owner = f.owner /\ g.address = f.address
        /\ g.caller = f.caller /\ g.value = f.value /\ g.static = f.static
        /\ g.gas = f.gas /\ g.pc = f.pc /\ g.at = f.at /\ g.stack = f.stack /\ g.area = f.area
    BY <1>1, <1>2 DEF Frame
  <2>3. FrameOK(g)
    BY <1>2, <2>1, <2>2 DEF FrameOK
  <2>4. g.gas <= f.gas
    BY <1>1, <2>2 DEF Frame
  <2> QED
    BY <2>1, <2>2, <2>3, <2>4, Zenon DEF Continues
<1>3. ASSUME NEW r \in Seq(Bytes), NEW g, g = [f EXCEPT !.ret = r]
      PROVE  FrameOK(g) /\ Continues(g, f) /\ g.mem = f.mem /\ g.stack = f.stack
  <2>1. g \in Frame /\ g.ret = r
    BY <1>1, <1>3 DEF Frame
  <2>2. /\ g.code = f.code /\ g.owner = f.owner /\ g.address = f.address
        /\ g.caller = f.caller /\ g.value = f.value /\ g.static = f.static
        /\ g.gas = f.gas /\ g.pc = f.pc /\ g.at = f.at /\ g.stack = f.stack /\ g.mem = f.mem /\ g.area = f.area
    BY <1>1, <1>3 DEF Frame
  <2>3. FrameOK(g)
    BY <1>3, <2>1, <2>2 DEF FrameOK
  <2>4. g.gas <= f.gas
    BY <1>1, <2>2 DEF Frame
  <2> QED
    BY <2>1, <2>2, <2>3, <2>4, Zenon DEF Continues
<1>4. ASSUME NEW s \in Seq(Words), Len(s) <= MaxStack, NEW g, g = [f EXCEPT !.stack = s]
      PROVE  FrameOK(g) /\ Continues(g, f) /\ g.mem = f.mem
  <2>1. g \in Frame /\ g.stack = s
    BY <1>1, <1>4 DEF Frame
  <2>2. /\ g.code = f.code /\ g.owner = f.owner /\ g.address = f.address
        /\ g.caller = f.caller /\ g.value = f.value /\ g.static = f.static
        /\ g.gas = f.gas /\ g.pc = f.pc /\ g.at = f.at /\ g.mem = f.mem /\ g.area = f.area
    BY <1>1, <1>4 DEF Frame
  <2>3. FrameOK(g)
    BY <1>4, <2>1, <2>2 DEF FrameOK
  <2>4. g.gas <= f.gas
    BY <1>1, <2>2 DEF Frame
  <2> QED
    BY <2>1, <2>2, <2>3, <2>4, Zenon DEF Continues
<1>5. ASSUME NEW a \in Seq(Nat), Len(a) = 4, NEW g, g = [f EXCEPT !.area = a]
      PROVE  FrameOK(g) /\ Continues(g, f) /\ g.stack = f.stack /\ g.gas = f.gas
  <2>1. g \in Frame /\ g.area = a
    BY <1>1, <1>5 DEF Frame
  <2>2. /\ g.code = f.code /\ g.owner = f.owner /\ g.address = f.address
        /\ g.caller = f.caller /\ g.value = f.value /\ g.static = f.static
        /\ g.gas = f.gas /\ g.pc = f.pc /\ g.at = f.at /\ g.stack = f.stack /\ g.mem = f.mem
    BY <1>1, <1>5 DEF Frame
  <2>3. FrameOK(g)
    BY <1>5, <2>1, <2>2 DEF FrameOK
  <2>4. g.gas <= f.gas
    BY <1>1, <2>2 DEF Frame
  <2> QED
    BY <2>1, <2>2, <2>3, <2>4, Zenon DEF Continues
<1> QED
  BY <1>2, <1>3, <1>4, <1>5

\* The frame behind its instruction.
LEMMA PastIs ==
  ASSUME EVMInv, frames # <<>>, top.pc < Len(top.code), ~Raises,
         NEW pushed \in Seq(Words), Len(pushed) + Len(rest) <= MaxStack
  PROVE  /\ FrameOK(Past(pushed)) /\ Continues(Past(pushed), top) /\ Past(pushed).mem \in Seq(Bytes)
         /\ Past(pushed).gas = left /\ Past(pushed).stack = pushed \o rest /\ Past(pushed) \in Frame
<1>1. FrameOK(top) /\ top \in Frame /\ top.mem \in Seq(Bytes)
  BY TopIs DEF Frame
<1>2. ~Short /\ Reach \in Nat /\ left \in Nat /\ left <= top.gas
  BY LeftIs
<1> DEFINE pc == top.pc + top.at.size
<1>3. pc \in Nat /\ (pc < Len(top.code) => pc \in Starts(top.code)) /\ rest \in Seq(Words)
  BY <1>2, OperandsAre
<1> HIDE DEF pc
<1>4. pushed \o rest \in Seq(Words) /\ Len(pushed \o rest) <= MaxStack
  BY <1>3
<1>5. Expand(top.mem, Reach) \in Seq(Bytes)
  BY <1>1, <1>2, ExpandIs
<1>6. Past(pushed) = [At(top, pc) EXCEPT !.gas = left, !.stack = pushed \o rest, !.mem = Expand(top.mem, Reach)]
  <2>1. At(top, pc).mem = top.mem
    BY <1>1 DEF At, Frame
  <2> QED
    BY <2>1 DEF Past, pc
<1> DEFINE stack == pushed \o rest
           mem == Expand(top.mem, Reach)
           g == Past(pushed)
<1>7. /\ FrameOK(g) /\ g.gas = left /\ g.stack = stack /\ g.mem = mem
      /\ g.owner = top.owner /\ g.address = top.address
      /\ g.caller = top.caller /\ g.value = top.value /\ g.static = top.static
  <2>1. stack \in Seq(Words) /\ Len(stack) <= MaxStack /\ mem \in Seq(Bytes)
    BY <1>4, <1>5
  <2>2. g = [At(top, pc) EXCEPT !.gas = left, !.stack = stack, !.mem = mem]
    BY <1>6
  <2> HIDE DEF stack, mem, g
  <2>3. Moves(g, top, pc, left, stack, mem)
    BY <1>1, <1>2, <1>3, <2>1, <2>2 DEF Moves
  <2> QED
    BY <2>3, MovedIs, Zenon
<1>8. Past(pushed) \in Frame
  BY <1>7 DEF FrameOK
<1>9. Continues(Past(pushed), top)
  BY <1>2, <1>7, Zenon DEF Continues
<1> QED
  BY <1>5, <1>7, <1>8, <1>9

\* The running frame goes on.
LEMMA GoesOn ==
  ASSUME EVMInv, frames # <<>>, NEW g, FrameOK(g), Continues(g, top), Run(g), AccountsOK'
  PROVE  EVMInv'
<1>1. frames' = [frames EXCEPT ![Len(frames)] = g] /\ request' = request /\ result' = result
  BY DEF Run
<1>2. frames \in Seq(Frame) /\ Len(frames) \in Nat /\ Len(frames) > 0 /\ request.gas \in Nat /\ top \in Frame /\ g \in Frame
  BY TopIs DEF FrameOK
<1>3. FramesOK(frames')
  BY <1>1, TopChanged DEF EVMInv, top
<1>4. \A i \in 1 .. Len(frames') : frames'[i].gas <= request.gas
  <2>1. g.gas <= top.gas /\ top.gas <= request.gas /\ top.gas \in Nat /\ g.gas \in Nat
    BY <1>2, TopIs DEF Continues, Frame
  <2> QED
    BY <1>1, <1>2, <2>1 DEF EVMInv
<1> QED
  BY <1>1, <1>3, <1>4 DEF EVMInv

-----------------------------------------------------------------------------
(* The actions keep the invariant *)

\* What every instruction that is executed may rely on.
LEMMA ExecIs ==
  ASSUME EVMInv, NEW names, Exec(names)
  PROVE  /\ frames # <<>> /\ top.pc < Len(top.code) /\ ~Raises /\ ~Short /\ ins \in names
         /\ Len(rest) \in Nat /\ rest \in Seq(Words) /\ Len(top.stack) \in Nat /\ Len(top.stack) <= MaxStack
         /\ Len(rest) + top.at.pops = Len(top.stack) /\ top.at.pops \in Nat /\ MaxStack \in Nat
         /\ arg \in Seq(Words) /\ Len(arg) = top.at.pops
         /\ FrameOK(top) /\ top \in Frame /\ AccountsOK
<1>1. frames # <<>> /\ top.pc < Len(top.code) /\ ~Raises /\ ins \in names
  BY DEF Exec, InsNext, Begun
<1>2. ~Short
  BY <1>1 DEF Raises
<1>3. FrameOK(top) /\ top \in Frame /\ top.stack \in Seq(Words) /\ Len(top.stack) <= MaxStack
  BY <1>1, TopIs DEF FrameOK, Frame
<1>4. /\ rest \in Seq(Words) /\ Len(rest) = Len(top.stack) - top.at.pops /\ top.at.pops \in Nat
      /\ arg \in Seq(Words) /\ Len(arg) = top.at.pops
  BY <1>1, <1>2, OperandsAre
<1>5. AccountsOK
  BY DEF EVMInv
<1>6. MaxStack \in Nat
  BY EVMAssumption
<1> QED
  BY <1>1, <1>2, <1>3, <1>4, <1>5, <1>6

\* Accounts nobody touches stay in order.
LEMMA AccountsStay ==
  ASSUME AccountsOK, UNCHANGED worldVars
  PROVE  AccountsOK'
  BY DEF AccountsOK, worldVars

\* An exception that leaves execute leaves no frame.
LEMMA EscapingKeeps ==
  ASSUME EVMInv, Escaping, AccountsOK'
  PROVE  EVMInv'
<1>1. frames' = <<>> /\ request' = request /\ result' = Escaped
  BY DEF Escaping
<1>2. FramesOK(frames')
  <2>1. <<>> \in Seq(Frame) /\ Len(<<>>) = 0 /\ MaxCallDepth \in Nat
    BY EVMAssumption
  <2> QED
    BY <1>1, <2>1 DEF FramesOK
<1>3. \A i \in 1 .. Len(frames') : FALSE
  BY <1>1
<1>4. ~(result' \notin {NoResult, Escaped})
  BY <1>1
<1> QED
  BY <1>1, <1>2, <1>3, <1>4 DEF EVMInv

\* Compute keeps EVMInv.
LEMMA ComputeKeeps ==
  ASSUME EVMInv, Hashes, Compute
  PROVE  EVMInv'
<1>1. Exec(Computes) /\ Run(Past(<<Word(Computed)>>)) /\ UNCHANGED worldVars
  BY DEF Compute
<1>2. Computed \in Int
  BY <1>1, ExecIs, ComputedIs
<1> DEFINE pushed == <<Word(Computed)>>
<1>3. pushed \in Seq(Words) /\ Len(pushed) = 1
  BY <1>2, WordIs
<1>4. ~(Len(rest) >= MaxStack)
  BY <1>1, ExecIs DEF Raises
<1>5. Len(pushed) + Len(rest) <= MaxStack
  BY <1>1, <1>3, <1>4, ExecIs
<1>6. FrameOK(Past(pushed)) /\ Continues(Past(pushed), top)
  <2> HIDE DEF pushed
  <2> QED
    BY <1>1, <1>3, <1>5, ExecIs, PastIs
<1>7. AccountsOK'
  BY <1>1, ExecIs, AccountsStay
<1> QED
  BY <1>1, <1>6, <1>7, ExecIs, GoesOn

\* Shuffle keeps EVMInv.
LEMMA ShuffleKeeps ==
  ASSUME EVMInv, Shuffle
  PROVE  EVMInv'
<1> DEFINE up == <<Last(arg)>> \o arg
           round == <<Last(arg)>> \o SubSeq(arg, 2, Len(arg) - 1) \o <<arg[1]>>
           pushed == CASE ins = "DUP" -> up [] ins = "SWAP" -> round [] OTHER -> <<>>
<1>1. Exec({"POP", "DUP", "SWAP", "JUMPDEST"}) /\ Run(Past(pushed)) /\ UNCHANGED worldVars
  BY DEF Shuffle
<1> HIDE DEF up, round
<1>2. ins = "DUP" => up \in Seq(Words) /\ Len(up) = Len(arg) + 1 /\ Len(top.stack) < MaxStack
  <2>1. ins = "DUP" => Last(arg) \in Words
    BY <1>1, ExecIs, OperandsAre, OperandIs DEF Last
  <2>2. ins = "DUP" => ~(Len(top.stack) >= MaxStack)
    BY <1>1, ExecIs DEF Raises
  <2> QED
    BY <1>1, <2>1, <2>2, ExecIs DEF up
<1>3. ins = "SWAP" => round \in Seq(Words) /\ Len(round) = Len(arg)
  <2> SUFFICES ASSUME ins = "SWAP" PROVE round \in Seq(Words) /\ Len(round) = Len(arg)
    OBVIOUS
  <2>1. Len(arg) >= 2 /\ arg \in Seq(Words) /\ Len(arg) \in Nat
    BY <1>1, ExecIs, OperandsAre
  <2>2. Last(arg) \in Words /\ arg[1] \in Words
    BY <2>1, OperandIs DEF Last
  <2> DEFINE middle == SubSeq(arg, 2, Len(arg) - 1)
  <2>3. middle \in Seq(Words) /\ Len(middle) = Len(arg) - 2
    <3>1. middle = [i \in 1 .. (Len(arg) - 2) |-> arg[i + 1]]
      BY <2>1
    <3>2. \A i \in 1 .. (Len(arg) - 2) : arg[i + 1] \in Words
      BY <2>1
    <3> HIDE DEF middle
    <3> QED
      BY <2>1, <3>1, <3>2
  <2> HIDE DEF middle
  <2> QED
    BY <2>1, <2>2, <2>3 DEF round, middle
<1>4. pushed \in Seq(Words) /\ Len(pushed) + Len(rest) <= MaxStack
  <2>1. CASE ins = "DUP"
    BY <1>1, <1>2, <2>1, ExecIs
  <2>2. CASE ins = "SWAP"
    BY <1>1, <1>3, <2>2, ExecIs
  <2>3. CASE ins \notin {"DUP", "SWAP"}
    <3>1. pushed = <<>>
      BY <2>3
    <3> HIDE DEF pushed
    <3>2. pushed \in Seq(Words) /\ Len(pushed) = 0
      BY <3>1
    <3> QED
      BY <1>1, <3>2, ExecIs
  <2> QED
    BY <2>1, <2>2, <2>3
<1> HIDE DEF pushed
<1>5. FrameOK(Past(pushed)) /\ Continues(Past(pushed), top)
  BY <1>1, <1>4, ExecIs, PastIs
<1>6. AccountsOK'
  BY <1>1, ExecIs, AccountsStay
<1> QED
  BY <1>1, <1>5, <1>6, ExecIs, GoesOn

\* The frame behind its instruction, memory written to, goes on.
LEMMA PastWritten ==
  ASSUME EVMInv, frames # <<>>, top.pc < Len(top.code), ~Raises, NEW m \in Seq(Bytes),
         NEW pushed \in Seq(Words), Len(pushed) + Len(rest) <= MaxStack
  PROVE  LET g == [Past(pushed) EXCEPT !.mem = m] IN
         FrameOK(g) /\ Continues(g, top) /\ g.mem = m /\ g.stack = pushed \o rest /\ g.gas = left /\ g \in Frame
<1> DEFINE p == Past(pushed)
           g == [p EXCEPT !.mem = m]
<1>1. FrameOK(p) /\ Continues(p, top) /\ p \in Frame /\ p.stack = pushed \o rest /\ p.gas = left
  BY PastIs
<1>2. FrameOK(g) /\ Continues(g, p) /\ g.mem = m /\ g.stack = p.stack /\ g.gas = p.gas
  <2> HIDE DEF p
  <2> QED
    BY <1>1, Kept
<1> HIDE DEF p, g
<1>3. g \in Frame /\ top \in Frame
  BY <1>2, TopIs DEF FrameOK
<1>4. Continues(g, top)
  BY <1>1, <1>2, <1>3, ContinuesTwice
<1> QED
  BY <1>1, <1>2, <1>3, <1>4, Zenon DEF g, p

\* Store keeps EVMInv.
LEMMA StoreKeeps ==
  ASSUME EVMInv, Store
  PROVE  EVMInv'
<1> DEFINE source == CASE ins = "CALLDATACOPY" -> top.calldata [] ins = "CODECOPY" -> top.code
                       [] ins = "EXTCODECOPY" -> code[Addr(arg[1])] [] OTHER -> top.ret
           bs == CASE ins = "MSTORE" -> ToBytes(arg[2]) [] ins = "MSTORE8" -> <<arg[2] % 256>>
                   [] ins = "LOG" -> <<>>
                   [] OTHER -> Slice(source, arg[Len(arg) - 1], arg[Len(arg)])
           offset == arg[IF ins = "EXTCODECOPY" THEN 2 ELSE 1]
           p == Past(<<>>)
           m == Write(p.mem, offset, bs)
           g == [p EXCEPT !.mem = m]
<1>1. Exec(Stores) /\ Run(g) /\ UNCHANGED worldVars
  BY DEF Store
<1> HIDE DEF source
<1>2. /\ ins \in Stores /\ arg \in Seq(Words)
      /\ Len(arg) >= 2 /\ (ins \in Copies => Len(arg) >= 3)
  <2>1. ins \in Stores /\ arg \in Seq(Words) /\ Len(arg) = top.at.pops /\ Len(arg) \in Nat
        /\ frames # <<>> /\ top.pc < Len(top.code) /\ ~Short
    BY <1>1, ExecIs
  <2>2. /\ ins \in {"SWAP", "LOG"} => top.at.pops >= 2
        /\ ins \in Binary \cup {"MSTORE", "MSTORE8", "SSTORE", "JUMPI", "RETURN", "REVERT"} => top.at.pops = 2
        /\ ins \in Ternary \cup {"CALLDATACOPY", "CODECOPY", "RETURNDATACOPY", "CREATE"} => top.at.pops = 3
        /\ ins \in {"EXTCODECOPY", "CREATE2"} => top.at.pops = 4
    BY <2>1, OperandsAre
  <2> QED
    BY <2>1, <2>2 DEF Stores, Copies
<1>3. \A i \in Nat : i >= 1 /\ i <= Len(arg) => arg[i] \in Words /\ arg[i] \in Nat /\ Addr(arg[i]) \in Addresses
  BY <1>2, OperandIs
<1>4. source \in Seq(Bytes)
  <2>1. top.calldata \in Seq(Bytes) /\ top.code \in Seq(Bytes) /\ top.ret \in Seq(Bytes)
    BY <1>1, ExecIs DEF Frame
  <2>2. code[Addr(arg[1])] \in Seq(Bytes)
    <3>1. Addr(arg[1]) \in Addresses /\ AccountsOK
      BY <1>1, <1>2, OperandIs, ExecIs
    <3> QED
      BY <3>1 DEF AccountsOK
  <2> QED
    BY <2>1, <2>2 DEF source
<1>5. bs \in Seq(Bytes)
  <2>1. CASE ins = "MSTORE"
    BY <1>2, <1>3, <2>1, ToBytesIs
  <2>2. CASE ins = "MSTORE8"
    <3>1. arg[2] \in Nat
      BY <1>2, OperandIs
    <3>2. arg[2] % 256 \in Bytes
      BY <3>1 DEF Bytes
    <3>3. bs = <<arg[2] % 256>>
      BY <2>2
    <3> HIDE DEF bs
    <3> QED
      BY <3>2, <3>3
  <2>3. CASE ins = "LOG"
    BY <2>3
  <2>4. CASE ins \notin {"MSTORE", "MSTORE8", "LOG"}
    <3>1. bs = Slice(source, arg[Len(arg) - 1], arg[Len(arg)])
      BY <2>4
    <3>2. arg[Len(arg) - 1] \in Nat /\ arg[Len(arg)] \in Nat
      BY <1>2, <1>3
    <3> QED
      BY <1>4, <3>1, <3>2, SliceIs
  <2> QED
    BY <2>1, <2>2, <2>3, <2>4
<1>6. offset \in Nat
  BY <1>2, <1>3
<1>7. <<>> \in Seq(Words) /\ Len(<<>>) + Len(rest) <= MaxStack
  BY <1>1, ExecIs
<1> HIDE DEF bs, offset
<1>8. m \in Seq(Bytes)
  <2>1. p.mem \in Seq(Bytes)
    BY <1>1, <1>7, ExecIs, PastIs
  <2> HIDE DEF p
  <2> QED
    BY <1>5, <1>6, <2>1, WriteIs
<1> HIDE DEF m
<1>9. FrameOK(g) /\ Continues(g, top)
  BY <1>1, <1>7, <1>8, ExecIs, PastWritten
<1> HIDE DEF g
<1>10. AccountsOK'
  BY <1>1, ExecIs, AccountsStay
<1> QED
  BY <1>1, <1>9, <1>10, ExecIs, GoesOn

\* SStore keeps EVMInv.
LEMMA SStoreKeeps ==
  ASSUME EVMInv, SStore
  PROVE  EVMInv'
<1>1. Exec({"SSTORE"}) /\ Run(Past(<<>>)) /\ UNCHANGED <<balance, nonce, code>>
      /\ storage' = [storage EXCEPT ![top.address] = Altered(storage[top.address], arg[1], arg[2])]
  BY DEF SStore
<1>2. arg[1] \in Words /\ arg[2] \in Words
  <2>1. ins = "SSTORE" /\ arg \in Seq(Words) /\ Len(arg) = top.at.pops /\ frames # <<>> /\ top.pc < Len(top.code) /\ ~Short
    BY <1>1, ExecIs
  <2>2. top.at.pops = 2
    BY <2>1, OperandsAre
  <2> QED
    BY <2>1, <2>2, OperandIs
<1>3. AccountsOK /\ top.address \in Addresses
  BY <1>1, ExecIs DEF Frame
<1>4. AccountsOK'
  <2> DEFINE s == Altered(storage[top.address], arg[1], arg[2])
  <2>1. \A k \in DOMAIN s : k \in Words /\ s[k] \in Words
    BY <1>2, <1>3 DEF AccountsOK, Altered
  <2>2. storage' = [storage EXCEPT ![top.address] = s]
    BY <1>1
  <2> HIDE DEF s
  <2>3. storage' = [a \in Addresses |-> storage'[a]]
    BY <1>3, <2>2 DEF AccountsOK
  <2>4. \A a \in Addresses : storage'[a] = IF a = top.address THEN s ELSE storage[a]
    BY <1>3, <2>2 DEF AccountsOK
  <2>5. \A a \in Addresses : \A k \in DOMAIN storage'[a] : k \in Words /\ storage'[a][k] \in Words
    BY <1>3, <2>1, <2>4 DEF AccountsOK
  <2>6. balance' = balance /\ nonce' = nonce /\ code' = code
    BY <1>1
  <2> QED
    BY <1>3, <2>3, <2>5, <2>6 DEF AccountsOK
<1>5. <<>> \in Seq(Words) /\ Len(<<>>) + Len(rest) <= MaxStack
  BY <1>1, ExecIs
<1>6. FrameOK(Past(<<>>)) /\ Continues(Past(<<>>), top)
  BY <1>1, <1>5, ExecIs, PastIs
<1> QED
  BY <1>1, <1>4, <1>6, ExecIs, GoesOn

\* Jump keeps EVMInv.
LEMMA JumpKeeps ==
  ASSUME EVMInv, Jump
  PROVE  EVMInv'
<1> DEFINE to == IF Jumps THEN arg[1] ELSE top.pc + 1
           p == Past(<<>>)
           g == At(p, to)
<1>1. Exec({"JUMP", "JUMPI"}) /\ Run(g) /\ UNCHANGED worldVars
  BY DEF Jump
<1>2. frames # <<>> /\ top.pc < Len(top.code) /\ ~Raises /\ ~Short /\ ins \in {"JUMP", "JUMPI"}
  BY <1>1, ExecIs
<1>3. top.code \in Seq(Bytes) /\ top.pc \in Nat
  BY <1>2, TopIs DEF Frame
<1>4. to \in Nat /\ (to < Len(top.code) => to \in Starts(top.code))
  <2>1. CASE Jumps
    <3>1. arg[1] \in Jumpdests(top.code)
      BY <1>2, <2>1 DEF Raises
    <3>2. to = arg[1] /\ to \in Starts(top.code)
      BY <2>1, <3>1 DEF Jumpdests
    <3> HIDE DEF to
    <3> QED
      BY <1>3, <3>2, StartsAre
  <2>2. CASE ~Jumps
    <3>1. to = top.pc + 1
      BY <2>2
    <3>2. /\ top.at.size = 1
          /\ top.pc + top.at.size < Len(top.code) => top.pc + top.at.size \in Starts(top.code)
      BY <1>2, OperandsAre
    <3> HIDE DEF to
    <3> QED
      BY <1>3, <3>1, <3>2
  <2> QED
    BY <2>1, <2>2
<1> HIDE DEF to
<1>5. <<>> \in Seq(Words) /\ Len(<<>>) + Len(rest) <= MaxStack
  BY <1>1, ExecIs
<1>6. FrameOK(p) /\ Continues(p, top) /\ p \in Frame
  BY <1>2, <1>5, PastIs
<1>7. p.code = top.code
  BY <1>2, TopIs DEF Past, At, Frame
<1> HIDE DEF p
<1>8. p.gas \in Nat /\ p.stack \in Seq(Words) /\ p.mem \in Seq(Bytes) /\ Len(p.stack) <= MaxStack
  BY <1>6 DEF FrameOK, Frame
<1>9. g = [At(p, to) EXCEPT !.gas = p.gas, !.stack = p.stack, !.mem = p.mem]
  <2>1. p = [code |-> p.code, owner |-> p.owner, address |-> p.address, caller |-> p.caller, value |-> p.value,
             calldata |-> p.calldata, static |-> p.static, gas |-> p.gas, pc |-> p.pc, at |-> p.at,
             stack |-> p.stack, mem |-> p.mem, ret |-> p.ret, area |-> p.area]
    BY <1>6 DEF Frame
  <2> QED
    BY <2>1 DEF At
<1>10. Moves(g, p, to, p.gas, p.stack, p.mem)
  BY <1>4, <1>6, <1>7, <1>8, <1>9 DEF Moves
<1> HIDE DEF g
<1>11. FrameOK(g) /\ g.gas = p.gas /\ g.owner = p.owner /\ g.address = p.address
       /\ g.caller = p.caller /\ g.value = p.value /\ g.static = p.static
  <2> DEFINE gas == p.gas
             stack == p.stack
             mem == p.mem
  <2>1. Moves(g, p, to, gas, stack, mem)
    BY <1>10
  <2> HIDE DEF gas, stack, mem
  <2>2. FrameOK(g) /\ g.gas = gas /\ g.owner = p.owner /\ g.address = p.address
        /\ g.caller = p.caller /\ g.value = p.value /\ g.static = p.static
    BY <2>1, MovedIs
  <2> QED
    BY <2>2, Zenon DEF gas
<1>12. g \in Frame /\ top \in Frame /\ g.gas <= p.gas
  BY <1>2, <1>8, <1>11, TopIs DEF FrameOK
<1>13. Continues(g, p)
  BY <1>11, <1>12, Zenon DEF Continues
<1>14. Continues(g, top)
  BY <1>6, <1>12, <1>13, ContinuesTwice
<1>15. AccountsOK'
  BY <1>1, ExecIs, AccountsStay
<1> QED
  BY <1>1, <1>2, <1>11, <1>14, <1>15, GoesOn

\* Create keeps EVMInv.
LEMMA CreateKeeps ==
  ASSUME EVMInv, Hashes, Create
  PROVE  EVMInv'
<1> DEFINE init == Slice(top.mem, arg[2], arg[3])
           count == nonce[top.address] + 1
           salt == IF ins = "CREATE2" THEN arg[4] ELSE 0
           new == NewAddress(top.address, count, salt, init)
           p == Past(<<Word(new)>>)
           m == Expand(p.mem, Extent(arg[2], arg[3]))
           g == [p EXCEPT !.mem = m]
<1>1. /\ Exec(Creating) /\ Run(g)
      /\ nonce' = [nonce EXCEPT ![top.address] = count, ![new] = 0]
      /\ balance' = [balance EXCEPT ![new] = arg[1]]
      /\ code' = [code EXCEPT ![new] = init]
      /\ storage' = [storage EXCEPT ![new] = <<>>]
  BY DEF Create
<1>2. frames # <<>> /\ top.pc < Len(top.code) /\ ~Raises /\ ~Short /\ ins \in {"CREATE", "CREATE2"} /\ AccountsOK
  BY <1>1, ExecIs DEF Creating
<1>3. /\ arg \in Seq(Words) /\ Len(arg) = top.at.pops /\ top.at.pops >= 3
      /\ (ins = "CREATE2" => top.at.pops = 4) /\ top.at.pops \in Nat
  BY <1>2, OperandsAre
<1>4. /\ arg[1] \in Words /\ arg[2] \in Nat /\ arg[3] \in Nat /\ arg[1] \in Nat
      /\ ins = "CREATE2" => arg[4] \in Words
  BY <1>3, OperandIs
<1>5. top.mem \in Seq(Bytes) /\ top.address \in Addresses
  BY <1>2, TopIs DEF Frame
<1>6. init \in Seq(Bytes)
  BY <1>4, <1>5, SliceIs
<1>7. count \in Nat /\ salt \in Words
  BY <1>2, <1>4, <1>5, WordsAre DEF AccountsOK
<1> HIDE DEF init, count, salt
<1>8. new \in Addresses
  BY <1>5, <1>6, <1>7 DEF Hashes
<1> HIDE DEF new
<1>9. AccountsOK'
  <2>1. balance' \in [Addresses -> Nat] /\ nonce' \in [Addresses -> Nat] /\ code' \in [Addresses -> Seq(Bytes)]
    BY <1>1, <1>2, <1>4, <1>5, <1>6, <1>7, <1>8 DEF AccountsOK
  <2>2. storage' = [a \in Addresses |-> storage'[a]]
    BY <1>1, <1>2, <1>8 DEF AccountsOK
  <2>3. \A a \in Addresses : storage'[a] = IF a = new THEN <<>> ELSE storage[a]
    BY <1>1, <1>2, <1>8 DEF AccountsOK
  <2>4. \A a \in Addresses : \A k \in DOMAIN storage'[a] : k \in Words /\ storage'[a][k] \in Words
    <3>1. DOMAIN <<>> = {}
      OBVIOUS
    <3> QED
      BY <1>2, <2>3, <3>1 DEF AccountsOK
  <2> QED
    BY <2>1, <2>2, <2>4 DEF AccountsOK
<1> DEFINE pushed == <<Word(new)>>
<1>10. pushed \in Seq(Words) /\ Len(pushed) + Len(rest) <= MaxStack
  <2>1. Word(new) \in Words
    BY <1>8, NumbersAre, WordIs
  <2>2. Len(rest) + top.at.pops = Len(top.stack) /\ Len(top.stack) <= MaxStack /\ Len(rest) \in Nat
        /\ Len(top.stack) \in Nat /\ MaxStack \in Nat
    BY <1>1, ExecIs
  <2> QED
    BY <1>3, <2>1, <2>2
<1>11. m \in Seq(Bytes)
  <2>1. p.mem \in Seq(Bytes)
    <3> HIDE DEF pushed
    <3>1. Past(pushed).mem \in Seq(Bytes)
      BY <1>2, <1>10, PastIs
    <3> QED
      BY <3>1 DEF pushed
  <2>2. Extent(arg[2], arg[3]) \in Nat
    BY <1>4 DEF Extent
  <2> HIDE DEF p
  <2> QED
    BY <2>1, <2>2, ExpandIs
<1> HIDE DEF m
<1>12. FrameOK(g) /\ Continues(g, top)
  <2> HIDE DEF pushed
  <2>1. FrameOK([Past(pushed) EXCEPT !.mem = m]) /\ Continues([Past(pushed) EXCEPT !.mem = m], top)
    BY <1>2, <1>10, <1>11, PastWritten
  <2> QED
    BY <2>1 DEF pushed
<1> HIDE DEF g
<1> QED
  BY <1>1, <1>2, <1>9, <1>12, GoesOn

\* Who calls has what the call goes by.
LEMMA CallIs ==
  ASSUME EVMInv, Exec(Calls)
  PROVE  /\ frames # <<>> /\ top.pc < Len(top.code) /\ ~Raises /\ top \in Frame /\ AccountsOK
         /\ arg \in Seq(Words) /\ Len(arg) \in {6, 7} /\ (ins \in {"CALL", "CALLCODE"} => Len(arg) = 7)
         /\ callee \in Addresses /\ callValue \in Words
         /\ area \in Seq(Nat) /\ Len(area) = 4 /\ area[1] \in Nat /\ area[2] \in Nat /\ area[3] \in Nat /\ area[4] \in Nat
         /\ Len(rest) + 6 <= Len(top.stack) /\ Len(rest) \in Nat /\ Len(top.stack) <= MaxStack /\ MaxStack \in Nat
         /\ Len(top.stack) \in Nat
<1>1. /\ frames # <<>> /\ top.pc < Len(top.code) /\ ~Raises /\ ~Short /\ ins \in Calls /\ AccountsOK /\ top \in Frame
      /\ Len(rest) + top.at.pops = Len(top.stack) /\ Len(top.stack) <= MaxStack /\ Len(rest) \in Nat
      /\ arg \in Seq(Words) /\ Len(arg) = top.at.pops /\ Len(top.stack) \in Nat /\ MaxStack \in Nat
  BY ExecIs
<1>2. /\ ins \in {"DELEGATECALL", "STATICCALL"} => top.at.pops = 6
      /\ ins \in {"CALL", "CALLCODE"} => top.at.pops = 7
  BY <1>1, OperandsAre
<1>3. Len(arg) \in {6, 7} /\ (ins \in {"CALL", "CALLCODE"} => Len(arg) = 7)
  BY <1>1, <1>2 DEF Calls
<1>4. callee \in Addresses
  BY <1>1, <1>3, OperandIs DEF callee
<1>5. callValue \in Words
  <2>1. top.value \in Words
    BY <1>1 DEF Frame
  <2> QED
    BY <1>1, <1>3, <2>1, OperandIs DEF callValue
<1>6. area \in Seq(Words) /\ Len(area) = 4
  BY <1>1, <1>3 DEF area
<1>7. area \in Seq(Nat)
  BY <1>6, NumbersAre
<1>8. area[1] \in Nat /\ area[2] \in Nat /\ area[3] \in Nat /\ area[4] \in Nat
  <2>1. area[1] \in Words /\ area[2] \in Words /\ area[3] \in Words /\ area[4] \in Words
    BY <1>6
  <2> QED
    BY <2>1, NumbersAre
<1> QED
  BY <1>1, <1>3, <1>4, <1>5, <1>6, <1>7, <1>8

\* Money goes from one account to another, which may be itself.
LEMMA TransferredIs ==
  ASSUME NEW b \in [Addresses -> Nat], NEW a \in Addresses, NEW c \in Addresses, NEW v \in Nat, v <= b[a]
  PROVE  Transferred(b, a, c, v) \in [Addresses -> Nat]
<1> DEFINE b1 == [b EXCEPT ![a] = b[a] - v]
<1>1. b1 \in [Addresses -> Nat]
  <2>1. b[a] \in Nat
    OBVIOUS
  <2>2. b[a] - v \in Nat
    BY <2>1
  <2> QED
    BY <2>2
<1>2. Transferred(b, a, c, v) = [b1 EXCEPT ![c] = b1[c] + v]
  BY DEF Transferred
<1> HIDE DEF b1
<1>3. b1[c] + v \in Nat
  BY <1>1
<1> QED
  BY <1>1, <1>2, <1>3

\* A call that is not refused leaves no debt.
LEMMA PayKeeps ==
  ASSUME EVMInv, Exec(Calls), ~Refused, Pay
  PROVE  AccountsOK'
<1>1. AccountsOK /\ callee \in Addresses /\ callValue \in Words /\ top \in Frame
  BY CallIs
<1>2. balance' \in [Addresses -> Nat]
  <2>1. CASE ins = "CALL"
    <3>1. ~(balance[top.address] < callValue)
      BY <2>1 DEF Refused
    <3>2. callValue \in Nat /\ top.address \in Addresses /\ balance \in [Addresses -> Nat]
      BY <1>1, NumbersAre DEF Frame, AccountsOK
    <3>3. callValue <= balance[top.address]
      BY <3>1, <3>2
    <3>4. balance' = Transferred(balance, top.address, callee, callValue)
      BY <2>1 DEF Pay
    <3> QED
      BY <1>1, <3>2, <3>3, <3>4, TransferredIs
  <2>2. CASE ins # "CALL"
    BY <1>1, <2>2 DEF Pay, AccountsOK
  <2> QED
    BY <2>1, <2>2
<1> QED
  BY <1>1, <1>2 DEF Pay, AccountsOK

\* The caller behind the instruction that calls.
LEMMA CallingIs ==
  ASSUME EVMInv, Exec(Calls), NEW pushed \in Seq(Words), Len(pushed) <= 1
  PROVE  /\ FrameOK(Calling(pushed)) /\ Continues(Calling(pushed), top) /\ Calling(pushed) \in Frame
         /\ Calling(pushed).mem \in Seq(Bytes) /\ Calling(pushed).stack = pushed \o rest /\ Calling(pushed).gas = left
<1> DEFINE p == Past(pushed)
           m == Expand(p.mem, Extent(area[1], area[2]))
<1>1. frames # <<>> /\ top.pc < Len(top.code) /\ ~Raises /\ Len(pushed) + Len(rest) <= MaxStack
  BY CallIs
<1>2. p.mem \in Seq(Bytes)
  BY <1>1, PastIs
<1>3. Extent(area[1], area[2]) \in Nat
  BY CallIs DEF Extent
<1>4. m \in Seq(Bytes)
  <2> HIDE DEF p
  <2> QED
    BY <1>2, <1>3, ExpandIs
<1>5. Calling(pushed) = [p EXCEPT !.mem = m]
  BY DEF Calling
<1> HIDE DEF m
<1>6. /\ FrameOK([p EXCEPT !.mem = m]) /\ Continues([p EXCEPT !.mem = m], top) /\ [p EXCEPT !.mem = m].mem = m
      /\ [p EXCEPT !.mem = m].stack = pushed \o rest /\ [p EXCEPT !.mem = m].gas = left /\ [p EXCEPT !.mem = m] \in Frame
  BY <1>1, <1>4, PastWritten
<1> HIDE DEF p
<1> QED
  BY <1>4, <1>5, <1>6

\* CallRefused keeps EVMInv.
LEMMA CallRefusedKeeps ==
  ASSUME EVMInv, CallRefused
  PROVE  EVMInv'
<1> DEFINE p == Calling(<<0>>)
           g == [p EXCEPT !.ret = <<>>]
<1>1. Exec(Calls) /\ Run(g) /\ UNCHANGED worldVars
  BY DEF CallRefused
<1>2. FrameOK(p) /\ Continues(p, top) /\ p \in Frame
  <2> DEFINE pushed == <<0>>
  <2>1. pushed \in Seq(Words) /\ Len(pushed) <= 1
    BY WordsAre
  <2> HIDE DEF pushed
  <2>2. FrameOK(Calling(pushed)) /\ Continues(Calling(pushed), top) /\ Calling(pushed) \in Frame
    BY <1>1, <2>1, CallingIs
  <2> QED
    BY <2>2 DEF pushed
<1>3. FrameOK(g) /\ Continues(g, p)
  <2>1. <<>> \in Seq(Bytes)
    OBVIOUS
  <2> HIDE DEF p
  <2> QED
    BY <1>2, <2>1, Kept
<1> HIDE DEF g
<1>4. g \in Frame /\ top \in Frame
  BY <1>1, <1>3, CallIs DEF FrameOK
<1>5. Continues(g, top)
  BY <1>2, <1>3, <1>4, ContinuesTwice
<1> QED
  BY <1>1, <1>3, <1>5, ExecIs, AccountsStay, GoesOn

\* CallEmpty keeps EVMInv.
LEMMA CallEmptyKeeps ==
  ASSUME EVMInv, CallEmpty
  PROVE  EVMInv'
<1> DEFINE p == Calling(<<1>>)
           q == [p EXCEPT !.ret = <<>>]
           m == Write(p.mem, area[3], Slice(<<>>, 0, area[4]))
           g == [q EXCEPT !.mem = m]
<1>1. Exec(Calls) /\ ~Refused /\ Pay
  BY DEF CallEmpty
<1>2. FrameOK(p) /\ Continues(p, top) /\ p \in Frame /\ p.mem \in Seq(Bytes)
  <2> DEFINE pushed == <<1>>
  <2>1. pushed \in Seq(Words) /\ Len(pushed) <= 1
    BY WordsAre
  <2> HIDE DEF pushed
  <2>2. /\ FrameOK(Calling(pushed)) /\ Continues(Calling(pushed), top)
        /\ Calling(pushed) \in Frame /\ Calling(pushed).mem \in Seq(Bytes)
    BY <1>1, <2>1, CallingIs
  <2> QED
    BY <2>2 DEF pushed
<1>3. Escaping \/ Run(g)
  <2>1. Escaping \/ Run([p EXCEPT !.ret = <<>>, !.mem = m])
    BY DEF CallEmpty
  <2> HIDE DEF p, m
  <2>2. [p EXCEPT !.ret = <<>>, !.mem = m] = g
    OBVIOUS
  <2> QED
    BY <2>1, <2>2
<1> HIDE DEF p
<1>4. <<>> \in Seq(Bytes)
  OBVIOUS
<1>5. m \in Seq(Bytes)
  <2>1. Slice(<<>>, 0, area[4]) \in Seq(Bytes) /\ area[3] \in Nat
    BY <1>1, <1>4, CallIs, SliceIs
  <2> QED
    BY <1>2, <2>1, WriteIs
<1> HIDE DEF m
<1>6. FrameOK(q) /\ Continues(q, p)
  BY <1>2, <1>4, Kept
<1> HIDE DEF q
<1>7. FrameOK(g) /\ Continues(g, q)
  BY <1>5, <1>6, Kept
<1> HIDE DEF g
<1>8. g \in Frame /\ q \in Frame /\ top \in Frame
  BY <1>1, <1>6, <1>7, CallIs DEF FrameOK
<1>9. Continues(g, top)
  <2>1. Continues(q, top)
    BY <1>2, <1>6, <1>8, ContinuesTwice
  <2> QED
    BY <1>7, <1>8, <2>1, ContinuesTwice
<1>10. AccountsOK'
  BY <1>1, PayKeeps
<1>11. CASE Escaping
  BY <1>10, <1>11, EscapingKeeps
<1>12. CASE Run(g)
  BY <1>1, <1>7, <1>9, <1>10, <1>12, ExecIs, GoesOn
<1> QED
  BY <1>3, <1>11, <1>12

\* The callee's frame: the caller's static flag, no more than the gas it has left,
\* and an account that is its own or the caller's.
LEMMA ChildIs ==
  ASSUME EVMInv, Exec(Calls)
  PROVE  /\ FrameOK(Child) /\ Child.gas <= left /\ left \in Nat /\ Child.gas \in Nat
         /\ (top.static => Child.static)
         /\ \A g : Continues(g, top) => Rooted(Child, g)
<1>1. /\ frames # <<>> /\ top.pc < Len(top.code) /\ ~Raises /\ top \in Frame /\ AccountsOK
      /\ arg[1] \in Nat /\ callee \in Addresses /\ callValue \in Words /\ area[1] \in Nat /\ area[2] \in Nat
  <2>1. arg \in Seq(Words) /\ Len(arg) \in {6, 7}
    BY CallIs
  <2> QED
    BY <2>1, CallIs, OperandIs
<1>2. left \in Nat
  BY <1>1, LeftIs
<1>3. ChildGas \in Nat /\ ChildGas <= left
  BY <1>1, <1>2 DEF ChildGas, Least
<1>4. code[callee] \in Seq(Bytes) /\ Instruction(code[callee], 0) \in Instructions
  BY <1>1, InstructionIs DEF AccountsOK
<1>5. Slice(top.mem, area[1], area[2]) \in Seq(Bytes)
  BY <1>1, SliceIs DEF Frame
<1>6. /\ ChildStatic \in BOOLEAN /\ ChildAddress \in Addresses /\ top.ret \in Seq(Bytes)
      /\ top.caller \in Addresses /\ top.address \in Addresses
  BY <1>1 DEF ChildStatic, ChildAddress, Frame
<1>7. <<0, 0, 0, 0>> \in Seq(Nat) /\ Len(<<0, 0, 0, 0>>) = 4
  OBVIOUS
<1>8. /\ Child.code = code[callee] /\ Child.owner = callee /\ Child.address = ChildAddress /\ Child.value = callValue
      /\ Child.caller = (IF ins = "DELEGATECALL" THEN top.caller ELSE top.address)
      /\ Child.gas = ChildGas /\ Child.pc = 0 /\ Child.at = Instruction(code[callee], 0) /\ Child.stack = <<>>
      /\ Child.area = <<0, 0, 0, 0>>
  BY DEF Child
<1>9. Child.static = ChildStatic
  BY DEF Child
<1>10. Child \in Frame
  <2> DEFINE caller == IF ins = "DELEGATECALL" THEN top.caller ELSE top.address
  <2>1. caller \in Addresses
    BY <1>6
  <2> HIDE DEF caller
  <2> QED
    BY <1>1, <1>3, <1>4, <1>5, <1>6, <1>7, <2>1 DEF Child, Frame, caller
<1>11. FrameOK(Child)
  <2>1. 0 < Len(code[callee]) => 0 \in Starts(code[callee])
    BY <1>4, StartsAre
  <2>2. Len(<<>>) <= MaxStack
    BY EVMAssumption
  <2> QED
    BY <1>7, <1>8, <1>10, <2>1, <2>2 DEF FrameOK
<1>12. ASSUME NEW g, Continues(g, top) PROVE Rooted(Child, g)
  <2>1. g.address = top.address /\ g.caller = top.caller /\ g.value = top.value
    BY <1>12 DEF Continues
  <2> QED
    BY <1>8, <2>1 DEF Rooted, ChildAddress, callValue
<1>13. top.static => Child.static
  BY <1>9, Zenon DEF ChildStatic
<1> QED
  BY <1>2, <1>3, <1>8, <1>11, <1>12, <1>13

\* CallEnter keeps EVMInv.
LEMMA CallEnterKeeps ==
  ASSUME EVMInv, CallEnter
  PROVE  EVMInv'
<1> DEFINE p == Calling(<<>>)
           g == [p EXCEPT !.area = area]
           fs == [frames EXCEPT ![Len(frames)] = g]
<1>1. Exec(Calls) /\ ~Refused /\ Pay /\ frames' = Append(fs, Child) /\ request' = request /\ result' = result
  BY DEF CallEnter
<1>2. FrameOK(p) /\ Continues(p, top) /\ p \in Frame /\ p.stack = <<>> \o rest /\ p.gas = left
  <2>1. <<>> \in Seq(Words) /\ Len(<<>>) <= 1
    OBVIOUS
  <2> QED
    BY <1>1, <2>1, CallingIs
<1> HIDE DEF p
<1>3. FrameOK(g) /\ Continues(g, p) /\ g.stack = p.stack /\ g.gas = p.gas
  <2>1. area \in Seq(Nat) /\ Len(area) = 4
    BY <1>1, CallIs
  <2> QED
    BY <1>2, <2>1, Kept
<1> HIDE DEF g
<1>4. g \in Frame /\ top \in Frame /\ frames # <<>>
  BY <1>1, <1>3, CallIs DEF FrameOK
<1>5. Continues(g, top)
  BY <1>2, <1>3, <1>4, ContinuesTwice
<1>6. /\ frames \in Seq(Frame) /\ Len(frames) \in Nat /\ Len(frames) > 0
      /\ request.gas \in Nat /\ top.gas <= request.gas /\ top.gas \in Nat
  BY <1>4, TopIs
<1>7. FramesOK(fs) /\ fs # <<>> /\ Len(fs) = Len(frames) /\ fs[Len(fs)] = g
  <2>1. FramesOK(fs)
    BY <1>3, <1>4, <1>5, TopChanged DEF EVMInv, top
  <2> QED
    BY <1>4, <1>6, <2>1
<1>8. Len(g.stack) < MaxStack
  <2>1. /\ Len(rest) + 6 <= Len(top.stack) /\ Len(rest) \in Nat /\ Len(top.stack) <= MaxStack
        /\ MaxStack \in Nat /\ Len(top.stack) \in Nat
    BY <1>1, CallIs
  <2>2. rest \in Seq(Words)
    BY <1>1, ExecIs
  <2>3. <<>> \o rest = rest
    BY <2>2
  <2> QED
    BY <1>2, <1>3, <2>1, <2>3
<1>9. Len(frames) <= MaxCallDepth
  BY <1>1, <1>6, EVMAssumption DEF Refused
<1>10. FrameOK(Child) /\ Rooted(Child, g) /\ Child.gas <= g.gas /\ (g.static => Child.static) /\ Child.gas \in Nat
  <2>1. FrameOK(Child) /\ Rooted(Child, g) /\ Child.gas <= g.gas /\ Child.gas \in Nat
    BY <1>1, <1>2, <1>3, <1>5, ChildIs
  <2>2. top.static => Child.static
    BY <1>1, ChildIs
  <2>3. g.static = top.static
    BY <1>5 DEF Continues
  <2> QED
    BY <2>1, <2>2, <2>3, Zenon
<1> HIDE DEF fs
<1>11. FramesOK(frames')
  BY <1>1, <1>7, <1>8, <1>9, <1>10, Pushed
<1>12. \A i \in 1 .. Len(frames') : frames'[i].gas <= request.gas
  <2>1. fs \in Seq(Frame) /\ Child \in Frame
    BY <1>7, <1>10 DEF FramesOK, FrameOK
  <2>2. g.gas <= request.gas /\ g.gas \in Nat
    <3>1. g.gas \in Nat
      BY <1>4 DEF Frame
    <3>2. g.gas <= top.gas
      BY <1>5 DEF Continues
    <3> QED
      BY <1>6, <3>1, <3>2
  <2>3. Child.gas <= request.gas
    BY <1>6, <1>10, <2>2
  <2>4. \A i \in 1 .. Len(frames) : fs[i].gas <= request.gas
    BY <1>6, <2>2 DEF fs, EVMInv
  <2>5. Len(frames') = Len(frames) + 1 /\ frames'[Len(frames) + 1] = Child /\ \A i \in 1 .. Len(frames) : frames'[i] = fs[i]
    BY <1>1, <1>6, <1>7, <2>1
  <2> QED
    BY <1>6, <2>3, <2>4, <2>5
<1>13. AccountsOK'
  BY <1>1, PayKeeps
<1> QED
  BY <1>1, <1>11, <1>12, <1>13 DEF EVMInv

\* The frame that called has its answer.
LEMMA AnsweredIs ==
  ASSUME NEW f, FrameOK(f), Len(f.stack) < MaxStack, NEW ok \in BOOLEAN, NEW output \in Seq(Bytes), NEW g,
         g = [f EXCEPT !.ret = output, !.stack = <<Truth(ok)>> \o f.stack,
                       !.mem = Write(f.mem, f.area[3], Slice(output, 0, f.area[4]))]
  PROVE  FrameOK(g) /\ Continues(g, f)
<1>1. /\ f \in Frame /\ f.stack \in Seq(Words) /\ f.mem \in Seq(Bytes)
      /\ f.area \in Seq(Nat) /\ Len(f.area) = 4 /\ MaxStack \in Nat
  BY EVMAssumption DEF FrameOK, Frame
<1> DEFINE s == <<Truth(ok)>> \o f.stack
           m == Write(f.mem, f.area[3], Slice(output, 0, f.area[4]))
           g1 == [f EXCEPT !.ret = output]
           g2 == [g1 EXCEPT !.stack = s]
<1>2. s \in Seq(Words) /\ Len(s) <= MaxStack
  <2>1. Truth(ok) \in Words
    BY TruthIs, WordsAre
  <2> QED
    BY <1>1, <2>1
<1>3. m \in Seq(Bytes)
  <2>1. f.area[3] \in Nat /\ f.area[4] \in Nat
    BY <1>1
  <2>2. Slice(output, 0, f.area[4]) \in Seq(Bytes)
    BY <2>1, SliceIs
  <2> QED
    BY <1>1, <2>1, <2>2, WriteIs
<1>4. g = [f EXCEPT !.ret = output, !.stack = s, !.mem = m]
  OBVIOUS
<1> HIDE DEF s, m
<1>5. g = [g2 EXCEPT !.mem = m]
  BY <1>4
<1>6. FrameOK(g1) /\ Continues(g1, f)
  BY Kept
<1> HIDE DEF g1
<1>7. FrameOK(g2) /\ Continues(g2, g1)
  BY <1>2, <1>6, Kept
<1> HIDE DEF g2
<1>8. FrameOK(g) /\ Continues(g, g2)
  <2>1. FrameOK([g2 EXCEPT !.mem = m]) /\ Continues([g2 EXCEPT !.mem = m], g2)
    BY <1>3, <1>7, Kept
  <2> QED
    BY <1>5, <2>1, Zenon
<1>9. g \in Frame /\ g1 \in Frame /\ g2 \in Frame
  BY <1>6, <1>7, <1>8 DEF FrameOK
<1>10. Continues(g2, f)
  BY <1>1, <1>6, <1>7, <1>9, ContinuesTwice
<1> QED
  BY <1>1, <1>8, <1>9, <1>10, ContinuesTwice

\* The beginning of a sequence.
LEMMA BeginningIs ==
  ASSUME NEW S, NEW s \in Seq(S), NEW n \in Nat, n <= Len(s)
  PROVE  SubSeq(s, 1, n) \in Seq(S) /\ Len(SubSeq(s, 1, n)) = n /\ \A i \in 1 .. n : SubSeq(s, 1, n)[i] = s[i]
  OBVIOUS

\* A frame returns, to its caller or to execute.
LEMMA FinishKeeps ==
  ASSUME EVMInv, frames # <<>>, NEW ok \in BOOLEAN, NEW reverted, NEW output \in Seq(Bytes), NEW gas \in Nat,
         gas <= top.gas, Finish(ok, reverted, output, gas), AccountsOK'
  PROVE  EVMInv'
<1>0. SUFFICES ASSUME FinishOf(ok, reverted, output, gas), ~Escaping PROVE EVMInv'
  <2>1. CASE Escaping
    BY <2>1, EscapingKeeps
  <2>2. CASE ~Escaping
    <3>1. FinishOf(ok, reverted, output, gas)
      BY <2>2 DEF Finish
    <3> QED
      BY <1>0, <2>2, <3>1
  <2> QED
    BY <2>1, <2>2
<1>1. /\ frames \in Seq(Frame) /\ Len(frames) \in Nat /\ Len(frames) > 0
      /\ request.gas \in Nat /\ top.gas \in Nat /\ top.gas <= request.gas
  BY TopIs
<1>2. CASE Len(frames) = 1
  <2>1. frames' = <<>> /\ request' = request /\ result'.used = request.gas - gas
    BY <1>0, <1>2 DEF FinishOf
  <2>2. result'.used \in 0 .. request'.gas
    BY <1>1, <2>1
  <2>3. FramesOK(frames')
    <3>1. <<>> \in Seq(Frame) /\ Len(<<>>) = 0 /\ MaxCallDepth \in Nat
      BY EVMAssumption
    <3> QED
      BY <2>1, <3>1 DEF FramesOK
  <2>4. \A i \in 1 .. Len(frames') : FALSE
    BY <2>1
  <2> QED
    BY <2>1, <2>2, <2>3, <2>4 DEF EVMInv
<1>3. CASE Len(frames) # 1
  <2> DEFINE f == frames[Len(frames) - 1]
             back == [f EXCEPT !.ret = output, !.stack = <<Truth(ok)>> \o f.stack,
                               !.mem = Write(f.mem, f.area[3], Slice(output, 0, f.area[4]))]
             lower == SubSeq(frames, 1, Len(frames) - 2)
  <2>1. frames' = Append(lower, back) /\ request' = request /\ result' = result
    BY <1>0, <1>3 DEF FinishOf
  <2>2. Len(frames) > 1 /\ Len(frames) - 1 \in 1 .. (Len(frames) - 1) /\ Len(frames) - 1 \in 1 .. Len(frames)
    <3>1. Len(frames) \in Nat /\ Len(frames) > 0 /\ Len(frames) # 1
      BY <1>1, <1>3
    <3>2. \A n \in Nat : n > 0 /\ n # 1 => n > 1 /\ n - 1 \in 1 .. (n - 1) /\ n - 1 \in 1 .. n
      OBVIOUS
    <3> QED
      BY <3>1, <3>2, Zenon
  <2>3. FrameOK(f) /\ Len(f.stack) < MaxStack /\ f.gas <= request.gas
    BY <2>2 DEF EVMInv, FramesOK
  <2>4. FrameOK(back) /\ Continues(back, f)
    <3> HIDE DEF f
    <3> QED
      BY <2>3, AnsweredIs
  <2> HIDE DEF back
  <2>5. FramesOK(frames')
    BY <2>1, <2>2, <2>4, Popped DEF EVMInv
  <2>6. \A i \in 1 .. Len(frames') : frames'[i].gas <= request.gas
    <3>1. lower \in Seq(Frame) /\ Len(lower) = Len(frames) - 2 /\ \A i \in 1 .. (Len(frames) - 2) : lower[i] = frames[i]
      <4>1. Len(frames) - 2 \in Nat /\ Len(frames) - 2 <= Len(frames)
        BY <1>1, <2>2
      <4> QED
        BY <1>1, <4>1, BeginningIs, Zenon
    <3>2. back \in Frame /\ f \in Frame
      BY <2>3, <2>4 DEF FrameOK
    <3>3. back.gas <= request.gas
      <4>1. back.gas \in Nat /\ f.gas \in Nat /\ back.gas <= f.gas
        BY <2>4, <3>2 DEF Frame, Continues
      <4> QED
        BY <1>1, <2>3, <4>1
    <3>4. \A i \in 1 .. (Len(frames) - 2) : frames[i].gas <= request.gas
      BY <1>1 DEF EVMInv
    <3> HIDE DEF lower
    <3>5. /\ Len(frames') = Len(frames) - 1 /\ frames'[Len(frames) - 1] = back
          /\ \A i \in 1 .. (Len(frames) - 2) : frames'[i] = lower[i]
      BY <1>1, <2>1, <2>2, <3>1, <3>2
    <3> QED
      BY <1>1, <2>2, <3>1, <3>3, <3>4, <3>5
  <2> QED
    BY <2>1, <2>5, <2>6 DEF EVMInv
<1> QED
  BY <1>2, <1>3

\* RunsOff, Stop and Return keep EVMInv.
LEMMA EndKeeps ==
  ASSUME EVMInv, RunsOff \/ Stop \/ Return
  PROVE  EVMInv'
<1>1. UNCHANGED worldVars /\ AccountsOK'
  BY AccountsStay DEF RunsOff, Stop, Return, EVMInv
<1>2. <<>> \in Seq(Bytes) /\ TRUE \in BOOLEAN
  OBVIOUS
<1>3. CASE RunsOff
  <2>1. frames # <<>> /\ Finish(TRUE, FALSE, <<>>, top.gas)
    BY <1>3 DEF RunsOff, Begun
  <2>2. top.gas \in Nat /\ top.gas <= top.gas
    BY <2>1, TopIs
  <2> QED
    BY <1>1, <1>2, <2>1, <2>2, FinishKeeps
<1>4. CASE Stop
  <2>1. Exec({"STOP"}) /\ Finish(TRUE, FALSE, <<>>, left)
    BY <1>4 DEF Stop
  <2>2. frames # <<>> /\ left \in Nat /\ left <= top.gas
    BY <2>1, ExecIs, LeftIs
  <2> QED
    BY <1>1, <1>2, <2>1, <2>2, FinishKeeps
<1>5. CASE Return
  <2> DEFINE output == Slice(top.mem, arg[1], arg[2])
             ok == ins = "RETURN"
  <2>1. Exec({"RETURN", "REVERT"}) /\ Finish(ok, ins = "REVERT", output, left)
    BY <1>5 DEF Return
  <2>2. frames # <<>> /\ left \in Nat /\ left <= top.gas /\ ok \in BOOLEAN
    BY <2>1, ExecIs, LeftIs
  <2>3. output \in Seq(Bytes)
    <3>1. arg \in Seq(Words) /\ Len(arg) = 2 /\ top.mem \in Seq(Bytes)
      BY <2>1, ExecIs, OperandsAre DEF Frame
    <3>2. arg[1] \in Nat /\ arg[2] \in Nat
      BY <3>1, OperandIs
    <3> QED
      BY <3>1, <3>2, SliceIs
  <2> HIDE DEF output, ok
  <2> QED
    BY <1>1, <2>1, <2>2, <2>3, FinishKeeps
<1> QED
  BY <1>3, <1>4, <1>5

\* SelfDestruct keeps EVMInv.
LEMMA SelfDestructKeeps ==
  ASSUME EVMInv, SelfDestruct
  PROVE  EVMInv'
<1>1. /\ Exec({"SELFDESTRUCT"}) /\ Finish(TRUE, FALSE, <<>>, left) /\ UNCHANGED <<nonce, storage>>
      /\ balance' = [balance EXCEPT ![Addr(arg[1])] = balance[Addr(arg[1])] + balance[top.address], ![top.address] = 0]
      /\ code' = [code EXCEPT ![top.address] = <<>>]
  BY DEF SelfDestruct
<1>2. frames # <<>> /\ left \in Nat /\ left <= top.gas /\ AccountsOK /\ top.address \in Addresses
  BY <1>1, ExecIs, LeftIs DEF Frame
<1>3. Addr(arg[1]) \in Addresses
  <2>1. arg \in Seq(Words) /\ Len(arg) >= 1
    BY <1>1, ExecIs, OperandsAre
  <2> QED
    BY <2>1, OperandIs
<1>4. AccountsOK'
  <2>1. balance' \in [Addresses -> Nat]
    <3>1. balance[Addr(arg[1])] + balance[top.address] \in Nat /\ balance \in [Addresses -> Nat]
      BY <1>2, <1>3 DEF AccountsOK
    <3> QED
      BY <1>1, <3>1
  <2>2. code' \in [Addresses -> Seq(Bytes)]
    BY <1>1, <1>2 DEF AccountsOK
  <2> QED
    BY <1>1, <1>2, <2>1, <2>2 DEF AccountsOK
<1>5. <<>> \in Seq(Bytes) /\ TRUE \in BOOLEAN
  OBVIOUS
<1> QED
  BY <1>1, <1>2, <1>4, <1>5, FinishKeeps

\* Raise keeps EVMInv.
LEMMA RaiseKeeps ==
  ASSUME EVMInv, Raise
  PROVE  EVMInv'
<1>1. frames' = <<>> /\ result'.used = request.gas /\ request' = request /\ UNCHANGED worldVars /\ frames # <<>>
  BY DEF Raise, InsNext, Begun, worldVars
<1>2. AccountsOK'
  BY <1>1, AccountsStay DEF EVMInv
<1>3. request.gas \in Nat
  BY <1>1, TopIs
<1>4. result'.used \in 0 .. request'.gas
  BY <1>1, <1>3
<1>5. FramesOK(frames')
  <2>1. <<>> \in Seq(Frame) /\ Len(<<>>) = 0 /\ MaxCallDepth \in Nat
    BY EVMAssumption
  <2> QED
    BY <1>1, <2>1 DEF FramesOK
<1>6. \A i \in 1 .. Len(frames') : FALSE
  BY <1>1
<1> QED
  BY <1>1, <1>2, <1>4, <1>5, <1>6 DEF EVMInv

\* Escape keeps EVMInv, a creation's nonce counted or not.
LEMMA EscapeKeeps ==
  ASSUME EVMInv, Escape
  PROVE  EVMInv'
<1>1. Escaping
  BY DEF Escape
<1>2. CASE UNCHANGED worldVars
  BY <1>1, <1>2, AccountsStay, EscapingKeeps DEF EVMInv
<1>3. CASE Exec(Creating) /\ nonce' = [nonce EXCEPT ![top.address] = @ + 1] /\ UNCHANGED <<balance, code, storage>>
  <2>1. AccountsOK /\ top.address \in Addresses
    BY <1>3, ExecIs DEF Frame
  <2>2. nonce' \in [Addresses -> Nat]
    BY <1>3, <2>1 DEF AccountsOK
  <2>3. AccountsOK'
    BY <1>3, <2>1, <2>2 DEF AccountsOK
  <2> QED
    BY <1>1, <2>3, EscapingKeeps
<1> QED
  BY <1>2, <1>3 DEF Escape

-----------------------------------------------------------------------------
(* The theorems *)

\* EVMInv holds when execute is called.
LEMMA InitStarts == ASSUME EVMInit PROVE EVMInv
<1> DEFINE f == [code |-> request.bytecode, owner |-> request.address, address |-> request.address,
                 caller |-> request.caller, value |-> request.value, calldata |-> request.calldata,
                 static |-> request.static, gas |-> request.gas,
                 pc |-> 0, at |-> Instruction(request.bytecode, 0), stack |-> <<>>,
                 mem |-> <<>>, ret |-> <<>>, area |-> <<0, 0, 0, 0>>]
<1>1. /\ request.bytecode \in Seq(Bytes) /\ request.address \in Addresses /\ request.caller \in Addresses
      /\ request.value \in Words /\ request.calldata \in Seq(Bytes) /\ request.gas \in Nat /\ request.static \in BOOLEAN
      /\ request.codes \in [Addresses -> Seq(Bytes)] /\ request.balance \in [Addresses -> Nat]
      /\ request \in Requests
  BY EVMAssumption DEF EVMInit
<1>2. f \in Frame /\ f.at = Instruction(f.code, f.pc) /\ f.pc = 0 /\ f.code = request.bytecode /\ f.stack = <<>>
      /\ f.area = <<0, 0, 0, 0>> /\ f.gas = request.gas
  <2>1. Instruction(request.bytecode, 0) \in Instructions
    BY <1>1, InstructionIs
  <2>2. <<0, 0, 0, 0>> \in Seq(Nat) /\ <<>> \in Seq(Words) /\ <<>> \in Seq(Bytes)
    OBVIOUS
  <2> QED
    BY <1>1, <2>1, <2>2 DEF Frame
<1>3. FrameOK(f)
  <2>1. f.pc < Len(f.code) => f.pc \in Starts(f.code)
    BY <1>1, <1>2, StartsAre
  <2>2. Len(f.stack) <= MaxStack /\ Len(f.area) = 4
    BY <1>2, EVMAssumption
  <2> HIDE DEF f
  <2> QED
    BY <1>2, <2>1, <2>2 DEF FrameOK
<1>4. frames = <<f>>
  BY DEF EVMInit
<1> HIDE DEF f
<1>5. FramesOK(frames)
  <2>1. frames \in Seq(Frame) /\ Len(frames) = 1 /\ frames[1] = f /\ MaxCallDepth \in Nat
    BY <1>2, <1>4, EVMAssumption
  <2>2. f.gas <= f.gas
    BY <1>1, <1>2
  <2>3. \A i \in 1 .. Len(frames) : i = 1
    BY <2>1
  <2>4. \A i, j \in 1 .. Len(frames) : i <= j => frames[j].gas <= frames[i].gas /\ (frames[i].static => frames[j].static)
    BY <2>1, <2>2, <2>3
  <2>5. \A i \in 2 .. Len(frames) : FALSE
    BY <2>1
  <2>6. \A i \in 1 .. (Len(frames) - 1) : FALSE
    BY <2>1
  <2>7. \A i \in 1 .. Len(frames) : FrameOK(frames[i])
    BY <1>3, <2>1, <2>3
  <2>8. Len(frames) <= MaxCallDepth + 1
    BY <2>1
  <2> QED
    BY <2>1, <2>4, <2>5, <2>6, <2>7, <2>8 DEF FramesOK
<1>6. \A i \in 1 .. Len(frames) : frames[i].gas <= request.gas
  BY <1>1, <1>2, <1>4
<1>7. AccountsOK
  <2>1. balance \in [Addresses -> Nat] /\ nonce \in [Addresses -> Nat]
    BY <1>1 DEF EVMInit
  <2>2. code \in [Addresses -> Seq(Bytes)]
    <3>1. code = [request.codes EXCEPT ![request.address] =
                    IF request.codes[request.address] = <<>> THEN request.bytecode ELSE request.codes[request.address]]
      BY DEF EVMInit
    <3>2. request.codes[request.address] \in Seq(Bytes)
      BY <1>1
    <3> QED
      BY <1>1, <3>1, <3>2
  <2>3. storage = [a \in Addresses |-> <<>>] /\ DOMAIN <<>> = {}
    BY DEF EVMInit
  <2>4. storage = [a \in Addresses |-> storage[a]] /\ \A a \in Addresses : storage[a] = <<>>
    BY <2>3
  <2> QED
    BY <2>1, <2>2, <2>3, <2>4 DEF AccountsOK
<1>8. result = NoResult
  BY DEF EVMInit
<1> QED
  BY <1>1, <1>5, <1>6, <1>7, <1>8 DEF EVMInv

\* Every step keeps EVMInv.
LEMMA NextKeeps == ASSUME Hashes, EVMInv, [EVMNext]_evmVars PROVE EVMInv'
<1>1. CASE Compute
  BY <1>1, ComputeKeeps
<1>2. CASE Shuffle
  BY <1>2, ShuffleKeeps
<1>3. CASE Store
  BY <1>3, StoreKeeps
<1>4. CASE SStore
  BY <1>4, SStoreKeeps
<1>5. CASE Jump
  BY <1>5, JumpKeeps
<1>6. CASE Create
  BY <1>6, CreateKeeps
<1>7. CASE CallRefused
  BY <1>7, CallRefusedKeeps
<1>8. CASE CallEmpty
  BY <1>8, CallEmptyKeeps
<1>9. CASE CallEnter
  BY <1>9, CallEnterKeeps
<1>10. CASE RunsOff \/ Stop \/ Return
  BY <1>10, EndKeeps
<1>11. CASE SelfDestruct
  BY <1>11, SelfDestructKeeps
<1>12. CASE Raise
  BY <1>12, RaiseKeeps
<1>13. CASE Escape
  BY <1>13, EscapeKeeps
<1>14. CASE UNCHANGED evmVars
  <2>1. AccountsOK'
    BY <1>14 DEF evmVars, EVMInv, AccountsOK
  <2>2. request' = request /\ frames' = frames /\ result' = result
    BY <1>14 DEF evmVars
  <2> QED
    BY <2>1, <2>2 DEF EVMInv
<1> QED
  BY <1>1, <1>2, <1>3, <1>4, <1>5, <1>6, <1>7, <1>8, <1>9, <1>10, <1>11, <1>12, <1>13, <1>14 DEF EVMNext

\* EVMInv holds in every state of every execution.
THEOREM EVMInvHolds == Hashes => (EVMSpec => []EVMInv)
<1> SUFFICES ASSUME Hashes PROVE EVMSpec => []EVMInv
  OBVIOUS
<1>1. EVMInit => EVMInv
  BY InitStarts
<1>2. EVMInv /\ [EVMNext]_evmVars => EVMInv'
  BY NextKeeps
<1> QED
  BY <1>1, <1>2, PTL DEF EVMSpec

\* The inductive invariant says what FramesContained asks for.
LEMMA ContainedIs == ASSUME EVMInv PROVE FramesContained
<1>1. frames \in Seq(Frame) /\ Len(frames) \in Nat /\ DOMAIN frames = 1 .. Len(frames) /\ Len(frames) <= MaxCallDepth + 1
  BY DEF EVMInv, FramesOK
<1>2. ASSUME NEW i \in DOMAIN frames
      PROVE  FrameOK(frames[i]) /\ frames[i] \in Frame /\ frames[i].gas <= request.gas
  BY <1>1 DEF EVMInv, FramesOK
<1>3. AccountsOK
  BY DEF EVMInv
<1>4. EVMTypeOK
  <2>1. ASSUME NEW i \in DOMAIN frames
        PROVE  LET f == frames[i] IN
               /\ {f.owner, f.address, f.caller} \subseteq Addresses /\ f.value \in Words
               /\ f.stack \in Seq(Words) /\ Len(f.stack) <= MaxStack
               /\ {f.code, f.mem, f.ret, f.calldata} \subseteq Seq(Bytes)
               /\ f.gas \in Nat /\ f.pc \in Nat /\ f.static \in BOOLEAN
    <3> DEFINE f == frames[i]
    <3>1. f \in Frame /\ Len(f.stack) <= MaxStack
      BY <1>2, <2>1 DEF FrameOK
    <3> HIDE DEF f
    <3>2. /\ f.owner \in Addresses /\ f.address \in Addresses /\ f.caller \in Addresses /\ f.value \in Words
          /\ f.stack \in Seq(Words) /\ f.code \in Seq(Bytes) /\ f.mem \in Seq(Bytes) /\ f.ret \in Seq(Bytes)
          /\ f.calldata \in Seq(Bytes) /\ f.gas \in Nat /\ f.pc \in Nat /\ f.static \in BOOLEAN
      BY <3>1 DEF Frame
    <3> QED
      BY <3>1, <3>2, Zenon DEF f
  <2>2. balance \in [Addresses -> Int] /\ nonce \in [Addresses -> Nat] /\ code \in [Addresses -> Seq(Bytes)]
    BY <1>3 DEF AccountsOK
  <2> QED
    BY <1>1, <1>3, <2>1, <2>2 DEF EVMTypeOK, AccountsOK
<1>5. PcAtInstruction
  BY <1>2 DEF PcAtInstruction, FrameOK
<1>6. GasNested
  <2>1. \A i \in 2 .. Len(frames) : frames[i].gas <= frames[i - 1].gas
    <3> SUFFICES ASSUME NEW i \in 2 .. Len(frames) PROVE frames[i].gas <= frames[i - 1].gas
      OBVIOUS
    <3>1. i - 1 \in 1 .. Len(frames) /\ i \in 1 .. Len(frames) /\ i - 1 <= i
      BY <1>1
    <3> QED
      BY <3>1 DEF EVMInv, FramesOK
  <2> QED
    BY <1>2, <2>1 DEF GasNested, EVMInv
<1>7. DelegationRooted
  BY DEF DelegationRooted, EVMInv, FramesOK
<1>8. NoDebt
  BY <1>3 DEF NoDebt, AccountsOK
<1> QED
  BY <1>4, <1>5, <1>6, <1>7, <1>8 DEF FramesContained

\* FramesContained: at every step of every execution, of every bytecode, each
\* frame is at an instruction, has words on its stack and bytes in its memory,
\* no more gas than its caller, and an account it may work on.
THEOREM EVMFramesContained == Hashes => (EVMSpec => []FramesContained)
<1> SUFFICES ASSUME Hashes PROVE EVMSpec => []FramesContained
  OBVIOUS
<1>1. EVMInv => FramesContained
  BY ContainedIs
<1>2. EVMSpec => []EVMInv
  BY EVMInvHolds
<1> QED
  BY <1>1, <1>2, PTL

\* Whatever frame is static, the running one is, and it raises before it writes.
LEMMA StaticIs ==
  ASSUME EVMInv, EVMNext, \E i \in DOMAIN frames : frames[i].static
  PROVE  UNCHANGED <<nonce, code, storage>>
<1>1. PICK i \in 1 .. Len(frames) : frames[i].static
  BY DEF EVMInv, FramesOK
<1>2. frames # <<>> /\ Len(frames) \in Nat /\ i <= Len(frames) /\ Len(frames) \in 1 .. Len(frames)
  BY <1>1 DEF EVMInv, FramesOK
<1>3. top.static
  BY <1>1, <1>2 DEF EVMInv, FramesOK, top
<1>4. \A names : Exec(names) => ins \notin Writing
  BY <1>3 DEF Exec, Raises
<1>5. ~SStore /\ ~Create /\ ~SelfDestruct /\ ~Exec(Creating)
  <2>1. Exec({"SSTORE"}) => ins = "SSTORE"
    BY DEF Exec
  <2>2. Exec({"SELFDESTRUCT"}) => ins = "SELFDESTRUCT"
    BY DEF Exec
  <2>3. Exec(Creating) => ins \in Creating
    BY DEF Exec
  <2> QED
    BY <1>4, <2>1, <2>2, <2>3 DEF SStore, Create, SelfDestruct, Writing
<1> QED
  BY <1>5 DEF EVMNext, Compute, Shuffle, Store, Jump, CallRefused, CallEmpty, CallEnter, Pay, RunsOff, Stop,
             Return, Raise, Escape, worldVars

\* StaticReadOnly: while a frame is static, however deep the one that runs,
\* nonces, code and storage stay.
THEOREM EVMStaticReadOnly == Hashes => (EVMSpec => StaticReadOnly)
<1> SUFFICES ASSUME Hashes PROVE EVMSpec => StaticReadOnly
  OBVIOUS
<1>1. EVMInv /\ [EVMNext]_evmVars =>
        [(\E i \in DOMAIN frames : frames[i].static) => UNCHANGED <<nonce, code, storage>>]_evmVars
  BY StaticIs
<1>2. EVMSpec => []EVMInv
  BY EVMInvHolds
<1> QED
  BY <1>1, <1>2, PTL DEF EVMSpec, StaticReadOnly

\* What the accounts have.
Balances == [Addresses -> Nat]

\* What the accounts below an address have adds up.
LEMMA SumsAre ==
  ASSUME NEW b \in Balances
  PROVE  /\ \A i \in 0 .. AddressMod : Sums(b)[i] \in Nat
         /\ Sums(b)[0] = 0
         /\ \A i \in 1 .. AddressMod : Sums(b)[i] = Sums(b)[i - 1] + b[i - 1]
<1> DEFINE n == AddressMod
           P(w) == w = [i \in 0 .. AddressMod |-> IF i = 0 THEN 0 ELSE w[i - 1] + b[i - 1]]
           next == [i \in 1 .. n |-> [w \in Nat |-> w + b[i - 1]]]
           h == Sums(b)
<1>1. n \in Nat /\ n > 0 /\ \A i \in 1 .. n : b[i - 1] \in Nat
  BY WordsAre DEF Balances, Addresses
<1>2. h = CHOOSE w : P(w)
  BY DEF Sums
<1>3. Iterative(n, Nat, 0, next)
  BY <1>1 DEF Iterative
<1>4. \A i \in 1 .. n, w \in Nat : next[i][w] = w + b[i - 1]
  OBVIOUS
<1>5. PICK f \in [0 .. n -> Nat] : \A i \in 0 .. n : f[i] = IF i = 0 THEN 0 ELSE next[i][f[i - 1]]
  <2> HIDE DEF n, next
  <2> QED BY <1>3, IterationExists
<1>6. P(f)
  <2>1. \A i \in 0 .. n : i # 0 => next[i][f[i - 1]] = f[i - 1] + b[i - 1]
    BY <1>1, <1>4
  <2> QED BY <1>5, <2>1
<1>7. P(h)
  <2> HIDE DEF P, h
  <2> QED BY <1>2, <1>6
<1>8. \A i \in 0 .. n : h[i] = IF i = 0 THEN 0 ELSE h[i - 1] + b[i - 1]
  BY <1>7
<1> HIDE DEF h, P, n
<1>9. \A i \in 1 .. n : h[i - 1] \in Nat => h[i] \in Nat
  <2> SUFFICES ASSUME NEW i \in 1 .. n, h[i - 1] \in Nat PROVE h[i] \in Nat
    OBVIOUS
  <2>1. h[i] = h[i - 1] + b[i - 1] /\ b[i - 1] \in Nat
    BY <1>1, <1>8
  <2> QED
    BY <2>1
<1>10. h[0] = 0
  BY <1>1, <1>8
<1>11. \A i \in 0 .. n : h[i] \in Nat
  <2>1. h[0] \in Nat
    BY <1>10
  <2> QED
    BY <1>1, <1>9, <2>1, StepByStep
<1>12. \A i \in 1 .. n : h[i] = h[i - 1] + b[i - 1]
  BY <1>1, <1>8
<1> QED BY <1>10, <1>11, <1>12 DEF h, n

\* A change of one balance changes the total by as much.
LEMMA TotalChanges ==
  ASSUME NEW b \in Balances, NEW a \in Addresses, NEW v \in Nat
  PROVE  /\ [b EXCEPT ![a] = v] \in Balances /\ Total(b) \in Nat /\ b[a] \in Nat
         /\ Total([b EXCEPT ![a] = v]) = Total(b) - b[a] + v
<1> DEFINE c == [b EXCEPT ![a] = v]
           h == Sums(b)
           k == Sums(c)
           n == AddressMod
           d(i) == IF i > a THEN v - b[a] ELSE 0
           Differ == {i \in 0 .. n : k[i] # h[i] + d(i)}
<1>1. c \in Balances /\ b[a] \in Nat /\ a \in Nat /\ n \in Nat /\ n > 0 /\ a < n /\ c[a] = v
      /\ \A i \in Addresses : b[i] \in Nat /\ c[i] \in Nat /\ (i # a => c[i] = b[i])
  BY WordsAre DEF Balances, Addresses
<1> HIDE DEF c
<1>2. /\ \A i \in 0 .. n : h[i] \in Nat
      /\ h[0] = 0
      /\ \A i \in 1 .. n : h[i] = h[i - 1] + b[i - 1]
  BY SumsAre
<1>3. /\ \A i \in 0 .. n : k[i] \in Nat
      /\ k[0] = 0
      /\ \A i \in 1 .. n : k[i] = k[i - 1] + c[i - 1]
  BY <1>1, SumsAre
<1> HIDE DEF h, k
<1>4. ASSUME Differ # {} PROVE FALSE
  <2>1. Differ \subseteq Nat
    BY <1>1
  <2> HIDE DEF Differ
  <2>2. PICK m \in Differ : \A j \in Differ : m <= j
    BY <1>4, <2>1, LeastNumber
  <2>3. m \in 0 .. n /\ k[m] # h[m] + d(m)
    BY <2>2 DEF Differ
  <2>4. m # 0
    BY <1>1, <1>2, <1>3, <2>3
  <2>5. m - 1 \in 0 .. n /\ m - 1 \notin Differ /\ m \in 1 .. n /\ m - 1 \in Addresses /\ m - 1 \in Nat
    BY <1>1, <2>1, <2>2, <2>3, <2>4 DEF Addresses
  <2>6. k[m - 1] = h[m - 1] + d(m - 1)
    BY <2>5 DEF Differ
  <2>7. k[m] = k[m - 1] + c[m - 1] /\ h[m] = h[m - 1] + b[m - 1]
    BY <1>2, <1>3, <2>5
  <2>8. k[m - 1] \in Nat /\ h[m - 1] \in Nat /\ c[m - 1] \in Nat /\ b[m - 1] \in Nat
    BY <1>1, <1>2, <1>3, <2>5
  <2>9. CASE m - 1 = a
    BY <1>1, <2>3, <2>5, <2>6, <2>7, <2>8, <2>9
  <2>10. CASE m - 1 # a
    <3>1. c[m - 1] = b[m - 1] /\ d(m) = d(m - 1) /\ d(m) \in Int
      BY <1>1, <2>5, <2>10
    <3> QED
      BY <2>3, <2>6, <2>7, <2>8, <3>1
  <2> QED
    BY <2>9, <2>10
<1>5. n \notin Differ /\ n \in 0 .. n /\ d(n) = v - b[a]
  BY <1>1, <1>4
<1>6. k[n] = h[n] + (v - b[a])
  BY <1>5
<1>7. h[n] \in Nat /\ k[n] \in Nat
  BY <1>2, <1>3, <1>5
<1> QED
  BY <1>1, <1>6, <1>7 DEF Total, h, k, c

\* Money that goes from one account to another is conserved.
LEMMA TransferConserves ==
  ASSUME NEW b \in Balances, NEW a \in Addresses, NEW c \in Addresses, NEW v \in Nat, v <= b[a]
  PROVE  Total(Transferred(b, a, c, v)) = Total(b)
<1> DEFINE left1 == b[a] - v
           b1 == [b EXCEPT ![a] = left1]
           more == b1[c] + v
           b2 == [b1 EXCEPT ![c] = more]
<1>1. b[a] \in Nat /\ left1 \in Nat
  <2>1. b[a] \in Nat
    BY DEF Balances
  <2> QED
    BY <2>1
<1>2. b1 \in Balances /\ Total(b) \in Nat /\ Total(b1) = Total(b) - b[a] + left1
  <2> HIDE DEF left1
  <2> QED
    BY <1>1, TotalChanges
<1>3. Transferred(b, a, c, v) = b2
  BY DEF Transferred
<1> HIDE DEF b1
<1>4. b1[c] \in Nat /\ more \in Nat
  BY <1>2 DEF Balances
<1>5. Total(b1) \in Nat /\ Total(b2) = Total(b1) - b1[c] + more
  <2> HIDE DEF more
  <2> QED
    BY <1>2, <1>4, TotalChanges
<1> HIDE DEF b2
<1> QED
  BY <1>1, <1>2, <1>3, <1>4, <1>5

\* Only a creation, and a destruction in one's own favour, change the total.
LEMMA ValueIs ==
  ASSUME EVMInv, EVMNext, ins \notin Creating, ~(ins = "SELFDESTRUCT" /\ Addr(arg[1]) = top.address)
  PROVE  Total(balance') = Total(balance)
<1>1. balance \in Balances
  BY DEF EVMInv, AccountsOK, Balances
<1>2. CASE CallEmpty \/ CallEnter
  <2>1. Exec(Calls) /\ ~Refused /\ Pay
    BY <1>2 DEF CallEmpty, CallEnter
  <2>2. CASE ins = "CALL"
    <3>1. ~(balance[top.address] < callValue)
      BY <2>1, <2>2 DEF Refused
    <3>2. callValue \in Nat /\ top.address \in Addresses /\ callee \in Addresses
      BY <2>1, CallIs, NumbersAre DEF Frame
    <3>3. balance[top.address] \in Nat
      BY <1>1, <3>2 DEF Balances
    <3>4. callValue <= balance[top.address]
      BY <3>1, <3>2, <3>3
    <3>5. balance' = Transferred(balance, top.address, callee, callValue)
      BY <2>1, <2>2 DEF Pay
    <3> QED
      BY <1>1, <3>2, <3>4, <3>5, TransferConserves
  <2>3. CASE ins # "CALL"
    BY <2>1, <2>3 DEF Pay
  <2> QED
    BY <2>2, <2>3
<1>3. CASE SelfDestruct
  <2> DEFINE x == Addr(arg[1])
             t == top.address
             more == balance[x] + balance[t]
             b1 == [balance EXCEPT ![x] = more]
             b2 == [b1 EXCEPT ![t] = 0]
  <2>1. Exec({"SELFDESTRUCT"}) /\ balance' = [balance EXCEPT ![x] = more, ![t] = 0]
    BY <1>3 DEF SelfDestruct
  <2>2. ins = "SELFDESTRUCT" /\ t \in Addresses /\ arg \in Seq(Words) /\ Len(arg) >= 1
    BY <2>1, ExecIs, OperandsAre DEF Frame
  <2>3. x \in Addresses /\ x # t
    BY <2>2, OperandIs
  <2> HIDE DEF x, t
  <2>4. balance' = b2
    BY <2>1
  <2>5. balance[x] \in Nat /\ balance[t] \in Nat /\ more \in Nat
    BY <1>1, <2>2, <2>3 DEF Balances
  <2> HIDE DEF more
  <2>6. b1 \in Balances /\ Total(balance) \in Nat /\ Total(b1) = Total(balance) - balance[x] + more /\ b1[t] = balance[t]
    <3>1. b1 \in Balances /\ Total(balance) \in Nat /\ Total(b1) = Total(balance) - balance[x] + more
      BY <1>1, <2>3, <2>5, TotalChanges
    <3>2. b1[t] = balance[t]
      BY <1>1, <2>2, <2>3 DEF Balances
    <3> QED
      BY <3>1, <3>2
  <2> HIDE DEF b1
  <2>7. Total(b1) \in Nat /\ Total(b2) = Total(b1) - b1[t] + 0
    BY <2>2, <2>6, TotalChanges
  <2>8. Total(b2) = Total(balance)
    <3> HIDE DEF b2
    <3> QED
      BY <2>5, <2>6, <2>7 DEF more
  <2> QED
    BY <2>4, <2>8
<1>4. CASE Create
  BY <1>4 DEF Create, Exec
<1>5. CASE ~(CallEmpty \/ CallEnter \/ SelfDestruct \/ Create)
  <2>1. balance' = balance
    BY <1>5 DEF EVMNext, Compute, Shuffle, Store, SStore, Jump, CallRefused, RunsOff, Stop, Return, Raise, Escape, worldVars
  <2> QED
    BY <2>1
<1> QED
  BY <1>2, <1>3, <1>4, <1>5

\* ValueConserved: transfers between accounts neither make nor lose value, the
\* transfer to oneself included.
THEOREM EVMValueConserved == Hashes => (EVMSpec => ValueConserved)
<1> SUFFICES ASSUME Hashes PROVE EVMSpec => ValueConserved
  OBVIOUS
<1>1. EVMInv /\ [EVMNext]_evmVars =>
        [Total(balance') # Total(balance) =>
           ins \in Creating \/ (ins = "SELFDESTRUCT" /\ Addr(arg[1]) = top.address)]_evmVars
  BY ValueIs
<1>2. EVMSpec => []EVMInv
  BY EVMInvHolds
<1> QED
  BY <1>1, <1>2, PTL DEF EVMSpec, ValueConserved
=============================================================================
