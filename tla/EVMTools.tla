------------------------------ MODULE EVMTools ------------------------------
(***************************************************************************)
(* The tools of evm.py beside the interpreter: the disassembler and the    *)
(* bytecode builder, and the encoding of call data.                        *)
(***************************************************************************)
EXTENDS EVM

\* evm_disassemble from pc on: where each instruction is, its byte and its data.
RECURSIVE Disassembled(_, _)
Disassembled(c, pc) ==
  IF pc >= Len(c) THEN <<>>
  ELSE LET next == pc + Size(c[pc + 1])
           last == IF next > Len(c) THEN Len(c) ELSE next
       IN  <<[pc |-> pc, byte |-> c[pc + 1], data |-> SubSeq(c, pc + 2, last)]>> \o Disassembled(c, next)

\* EVMBytecodeBuilder.op, push0 and push on bytes; push takes one to 32 of them.
Built(item) == IF item.byte \in 96 .. 127 THEN <<95 + Len(item.data)>> \o item.data ELSE <<item.byte>>

\* The disassembler and the interpreter agree on where the instructions of a
\* program start, and the builder makes the same program of what the first
\* reads, unless the program ends inside a PUSH.
ToolsAgree ==
  \A i \in DOMAIN frames : frames[i].pc = 0 =>
    \A c \in {frames[i].code} : \A items \in {Disassembled(c, 0)} :
      /\ {items[k].pc : k \in DOMAIN items} = Starts(c)
      /\ (\A k \in DOMAIN items : Len(items[k].data) + 1 = Size(items[k].byte)) =>
           FlattenSeq([k \in DOMAIN items |-> Built(items[k])]) = c
-----------------------------------------------------------------------------
(***************************************************************************)
(* Call data: evm_abi_encode and evm_abi_decode, with words of WordBytes.  *)
(* A type is a base, "string" for the bytes of any length, with a number   *)
(* of [] behind it; a value is a number, bytes, or a sequence of values.   *)
(* An address is the number its hexadecimal digits make, however many, or  *)
(* -1 if others are among the last; "bool text" is a bool whose value is   *)
(* given as a text, as the command line gives it.                          *)
(***************************************************************************)

CONSTANT Calldata    \* what is encoded: [types, values]

VARIABLES
  abi,        \* the types and values
  encoded,    \* their encoding, or NotYet, or Raised
  decoded     \* what the decoder reads in it

abiVars == <<abi, encoded, decoded>>
NotYet == [not |-> "yet"]
Refusing == [raises |-> "ValueError"]

Dynamic(t) == t.arrays > 0 \/ t.base = "string"
Element(t) == [t EXCEPT !.arrays = @ - 1]
\* right-justified by zeroes to full words
Filled(bs) == Slice(bs, 0, Chunks(Len(bs)) * WordBytes)

\* What an encoder does not refuse: of an address any length is taken.
Encodes(t, v) ==
  CASE t.base = "uint" -> v \in Words
    [] t.base = "address" -> v >= 0
    [] t.base = "bytes" -> Len(v) = WordBytes - 1
    [] t.base = "bytes32" -> Len(v) <= WordBytes
    [] OTHER -> TRUE

\* A static value in a word, bytes at its left end; an int keeps its low bits, an
\* address its last digits, and a bool is whether Python takes the value for true.
StaticWord(t, v) ==
  CASE t.base \in {"bytes", "bytes32"} -> Slice(v, 0, WordBytes)
    [] t.base = "address" -> ToBytes(Addr(v))
    [] t.base = "bool" -> ToBytes(IF v = 0 THEN 0 ELSE 1)
    [] t.base = "bool text" -> ToBytes(IF v = <<>> THEN 0 ELSE 1)
    [] OTHER -> ToBytes(Word(v))

Offset(heads, before) == heads * WordBytes + Len(FlattenSeq(before))

\* The offsets of items behind as many words, and then the items.
Listed(items) ==
  FlattenSeq([i \in DOMAIN items |-> ToBytes(Offset(Len(items), SubSeq(items, 1, i - 1)))]) \o FlattenSeq(items)

\* _abi_encode_dynamic_no_prefix
RECURSIVE DynamicTail(_, _)
DynamicTail(t, v) ==
  ToBytes(Len(v)) \o
    IF t.arrays = 0 THEN Filled(v)
    ELSE IF Dynamic(Element(t)) THEN Listed([i \in DOMAIN v |-> DynamicTail(Element(t), v[i])])
    ELSE FlattenSeq([i \in DOMAIN v |-> StaticWord(t, v[i])])

\* evm_abi_encode: a word for each type, and the tails of the dynamic ones
Encoding(ts, vs) ==
  LET tails == [i \in DOMAIN ts |-> IF Dynamic(ts[i]) THEN DynamicTail(ts[i], vs[i]) ELSE <<>>]
      word(i) == IF Dynamic(ts[i]) THEN ToBytes(Offset(Len(ts), SubSeq(tails, 1, i - 1)))
                 ELSE StaticWord(ts[i], vs[i])
  IN  FlattenSeq([i \in DOMAIN ts |-> word(i)]) \o FlattenSeq(tails)

\* evm_abi_decode: an element of an array is read in a word of its own, in which
\* the offset of a dynamic one leads nowhere.
RECURSIVE Decoding(_, _)
Decoding(ts, raw) ==
  LET wordAt(offset) == ToWord(Slice(raw, offset, WordBytes))
      read(i) ==
        LET t == ts[i]
            head == (i - 1) * WordBytes
            start == wordAt(head) + WordBytes
            size == wordAt(wordAt(head))
        IN  IF t.arrays > 0
            THEN [k \in 1 .. size |-> Decoding(<<Element(t)>>, Slice(raw, start + (k - 1) * WordBytes, WordBytes))[1]]
            ELSE CASE t.base = "string" -> SubSeq(raw, start + 1, Least(start + size, Len(raw)))
                   [] t.base = "bytes" -> Slice(raw, head, WordBytes - 1)
                   [] t.base = "bytes32" -> Slice(raw, head, WordBytes)
                   [] t.base = "int" -> Signed(wordAt(head))
                   [] t.base = "address" -> Addr(wordAt(head))
                   [] t.base \in {"bool", "bool text"} -> wordAt(head) # 0
                   [] OTHER -> wordAt(head)
  IN  [i \in DOMAIN ts |-> read(i)]

AbiInit == abi \in Calldata /\ encoded = NotYet /\ decoded = NotYet

\* Every static value, in an array or not, fits its type.
RECURSIVE AllEncode(_, _)
AllEncode(t, v) ==
  IF t.arrays > 0 THEN \A i \in DOMAIN v : AllEncode(Element(t), v[i]) ELSE Encodes(t, v)

Encode ==
  /\ encoded = NotYet
  /\ encoded' = IF /\ Len(abi.types) = Len(abi.values)
                   /\ \A i \in DOMAIN abi.types : AllEncode(abi.types[i], abi.values[i])
                THEN [raises |-> "no", bytes |-> Encoding(abi.types, abi.values)] ELSE Refusing
  /\ UNCHANGED <<abi, decoded>>

DecodeAgain ==
  /\ encoded \notin {NotYet, Refusing} /\ decoded = NotYet
  /\ decoded' = [values |-> Decoding(abi.types, encoded.bytes)]
  /\ UNCHANGED <<abi, encoded>>

AbiNext == Encode \/ DecodeAgain
AbiSpec == AbiInit /\ [][AbiNext]_abiVars

\* What is read in the word of a value: the value, if it is of its type.  One that
\* is not is refused or changed: an int to its low bits, an address to its last
\* digits, a short bytes32 by zeroes, a bool to its truth, so that the text
\* "false" is true (evm.py:196, 258-269, 298).
KeptAs(t, v, read) ==
  CASE t.base = "int" -> read \in Signed(WordMod \div 2) .. WordMod \div 2 - 1 /\ (read - v) % WordMod = 0
    [] t.base = "address" -> read \in Addresses /\ (v - read) % AddressMod = 0
    [] t.base = "bytes32" -> Len(read) = WordBytes /\ IsPrefix(v, read) /\ \A i \in Len(v) + 1 .. WordBytes : read[i] = 0
    [] t.base = "bool" -> read = (v # 0)
    [] t.base = "bool text" -> read = (v # <<>>)
    [] OTHER -> read = v

\* What was encoded is read back as KeptAs says, empty arrays and bytes at both
\* ends of a word included: but for arrays of dynamic values, of which the decoder
\* finds the number and nothing else (evm.py:385-390).  Such an array is encoded
\* as the list of its elements would be, offsets counted from behind its length.
ReadBack(t, v, read) ==
  IF t.arrays = 0 THEN KeptAs(t, v, read)
  ELSE /\ Len(read) = Len(v)
       /\ \A i \in DOMAIN v : IF Dynamic(Element(t)) THEN read[i] = <<>> ELSE KeptAs(t, v[i], read[i])
CallDataKept ==
  /\ decoded # NotYet =>
       \A i \in DOMAIN abi.types : ReadBack(abi.types[i], abi.values[i], decoded.values[i])
  /\ encoded \notin {NotYet, Refusing} =>
       /\ Len(encoded.bytes) % WordBytes = 0
       /\ \A i \in DOMAIN abi.types :
            \A t \in {abi.types[i]}, v \in {abi.values[i]} : Dynamic(t) /\ t.arrays > 0 =>
              DynamicTail(t, v) = ToBytes(Len(v)) \o Encoding([k \in DOMAIN v |-> Element(t)], v)
=============================================================================
