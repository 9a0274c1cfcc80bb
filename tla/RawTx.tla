------------------------------- MODULE RawTx -------------------------------
(***************************************************************************)
(* Signed raw transactions: RLP, signing and the recovery of the sender,   *)
(* on a smaller scale.  A byte is a digit of base Base, "long" begins      *)
(* above ShortLength bytes, the curve y^2 = x^3 + 7 is over the integers   *)
(* modulo P and has N points.  Two servers read them, agi chain rpc        *)
(* (rpc.py) and the gateway of a project, each with a decoder of its own.  *)
(***************************************************************************)
EXTENDS Integers, Sequences, SequencesExt, FiniteSets

CONSTANTS
  Single,        \* 0x80: bytes below stand for themselves
  ShortLength,   \* 55: the longest that has its length in the prefix
  LengthBytes,   \* 8: the most bytes a length may take
  AddressBytes,  \* 20
  P, N, G,       \* the curve and its generator
  Keys, Seeds,   \* private keys, and the values k starts from
  Drafts,        \* unsigned transactions: [family, chain, numbers, to, data]
  ChainId,       \* the chain of the node
  Digest(_)      \* the hash of a sequence of bytes, as a number

ASSUME RawTxAssumption == {Single, ShortLength, LengthBytes, AddressBytes, P, N, ChainId} \subseteq Nat \ {0}

LongString == Single + ShortLength               \* 0xB7
ListPrefix == LongString + LengthBytes + 1 \* 0xC0
LongList == ListPrefix + ShortLength             \* 0xF7
Base == LongList + LengthBytes + 1         \* 0x100

VARIABLES
  draft, key, seed,
  signed,        \* the signature: the parity of y, r and s
  raw,           \* the bytes that are sent
  answer,        \* what the node behind rpc.py makes of them
  gateway        \* and the node behind the gateway

rawVars == <<draft, key, seed, signed, raw, answer, gateway>>
-----------------------------------------------------------------------------
\* _int_to_bytes: no leading zeros, nothing for 0.  _bytes_to_int.
RECURSIVE IntToBytes(_)
IntToBytes(n) == IF n = 0 THEN <<>> ELSE Append(IntToBytes(n \div Base), n % Base)
BytesToInt(bs) == FoldLeft(LAMBDA n, b : n * Base + b, 0, bs)

\* An item is [list |-> FALSE, bytes |-> ...] or [list |-> TRUE, items |-> ...].
Str(bs) == [list |-> FALSE, bytes |-> bs]
List(items) == [list |-> TRUE, items |-> items]

Prefixed(short, long, bs) ==
  IF Len(bs) <= ShortLength THEN <<short + Len(bs)>> \o bs
  ELSE <<long + Len(IntToBytes(Len(bs)))>> \o IntToBytes(Len(bs)) \o bs

\* _rlp_encode
RECURSIVE RlpEncode(_)
RlpEncode(item) ==
  IF item.list
  THEN Prefixed(ListPrefix, LongList, FlattenSeq([i \in DOMAIN item.items |-> RlpEncode(item.items[i])]))
  ELSE IF Len(item.bytes) = 1 /\ item.bytes[1] < Single THEN item.bytes
  ELSE Prefixed(Single, LongString, item.bytes)

Raised == [error |-> TRUE]
RlpSlice(data, a, b) == SubSeq(data, a + 1, b)

\* decode_one: the item at an offset and the offset behind it; an item that ends
\* behind the data raises.  The last item of a list may end behind the list.
RECURSIVE DecodeOne(_, _), DecodeItems(_, _, _, _)
DecodeOne(data, offset) ==
  IF offset >= Len(data) THEN Raised
  ELSE LET prefix == data[offset + 1]
           isList == prefix >= ListPrefix
           short == IF isList THEN ListPrefix ELSE Single
           long == IF isList THEN LongList ELSE LongString
           lengths == IF prefix > long THEN prefix - long ELSE 0
           start == offset + 1 + lengths
           length == IF lengths = 0 THEN prefix - short
                     ELSE BytesToInt(RlpSlice(data, offset + 1, IF start > Len(data) THEN Len(data) ELSE start))
       IN  IF prefix < Single THEN [error |-> FALSE, item |-> Str(<<prefix>>), end |-> offset + 1]
           ELSE IF start + length > Len(data) \/ start > Len(data) THEN Raised
           ELSE IF isList THEN DecodeItems(data, start, start + length, <<>>)
           ELSE [error |-> FALSE, item |-> Str(RlpSlice(data, start, start + length)), end |-> start + length]
DecodeItems(data, cursor, end, items) ==
  IF cursor >= end THEN [error |-> FALSE, item |-> List(items), end |-> end]
  ELSE LET one == DecodeOne(data, cursor) IN
       IF one.error THEN Raised ELSE DecodeItems(data, one.end, end, Append(items, one.item))

\* _rlp_decode: nothing may follow.
RlpDecode(data) ==
  LET one == DecodeOne(data, 0) IN IF one.error \/ one.end # Len(data) THEN Raised ELSE one
-----------------------------------------------------------------------------
Infinity == <<>>
Inverses(m) == [a \in 1 .. m - 1 |-> CHOOSE b \in 1 .. m - 1 : (a * b) % m = 1]
InverseP == Inverses(P)
InverseN == Inverses(N)

\* _ec_add
EcAdd(a, b) ==
  CASE a = Infinity -> b
    [] a # Infinity /\ b = Infinity -> a
    [] a # Infinity /\ b # Infinity ->
         IF a[1] = b[1] /\ (a[2] + b[2]) % P = 0 THEN Infinity
         ELSE LET slope == IF a = b THEN (3 * a[1] * a[1] * InverseP[(2 * a[2]) % P]) % P
                           ELSE ((b[2] - a[2]) * InverseP[(b[1] - a[1]) % P]) % P
                  x == (slope * slope - a[1] - b[1]) % P
              IN  <<x, (slope * (a[1] - x) - a[2]) % P>>

\* _ec_mul: doubling, with the bits of k from the lowest.
RECURSIVE EcMulFrom(_, _, _)
EcMulFrom(k, addend, result) ==
  IF k = 0 THEN result
  ELSE EcMulFrom(k \div 2, EcAdd(addend, addend), IF k % 2 = 1 THEN EcAdd(result, addend) ELSE result)
EcMul(k, point) == EcMulFrom(k % N, point, Infinity)

Power(b, e) == FoldLeft(LAMBDA acc, i : (acc * b) % P, 1, [i \in 1 .. e |-> i])
-----------------------------------------------------------------------------
\* Mutant of Parity: the parity stays when s is exchanged for N - s.
ParityKept(y, high) == y % 2
Parity(y, high) == IF high THEN 1 - (y % 2) ELSE y % 2

\* _sign_hash_for_test_vector: k goes up until r and s are not 0; s is the lower
\* of two.
RECURSIVE Sign(_, _, _)
Sign(z, d, k) ==
  LET point == EcMul(k, G)
      r == IF point = Infinity THEN 0 ELSE point[1] % N
      s == IF r = 0 THEN 0 ELSE (InverseN[k] * (z + r * d)) % N
      high == s > N \div 2
  IN  IF s = 0 THEN Sign(z, d, (k + 1) % N)
      ELSE [parity |-> Parity(point[2], high), r |-> r, s |-> IF high THEN N - s ELSE s]

\* _recover_public_key, for a signature in range
Recover(z, sig) ==
  LET beta == Power((Power(sig.r, 3) + 7) % P, (P + 1) \div 4)
      y == IF beta % 2 = sig.parity THEN beta ELSE P - beta
  IN  EcMul(InverseN[sig.r % N], EcAdd(EcMul(sig.s, <<sig.r, y>>), EcMul((0 - z) % N, G)))
InRange(sig) == /\ sig.r \in 1 .. N - 1 /\ sig.s \in 1 .. N - 1
                /\ sig.s <= N \div 2 /\ sig.parity \in {0, 1}
-----------------------------------------------------------------------------
Num(n) == Str(IntToBytes(n))
Nums(ns) == [i \in DOMAIN ns |-> Num(ns[i])]

\* The fields a family signs: nonce, fees and gas before to, value and data behind.
Body(d) == Nums(Front(d.numbers)) \o <<Str(d.to), Num(Last(d.numbers)), Str(d.data)>>
AccessList == List(<<>>)
Unsigned(d) ==
  CASE d.family = "legacy" -> Body(d) \o <<Num(d.chain), Str(<<>>), Str(<<>>)>>
    [] d.family = "typed" -> <<Num(d.chain)>> \o Body(d) \o <<AccessList>>
    [] d.family = "old" -> Body(d)

\* The byte that comes first with a typed transaction, 2930 or 1559 by its fees.
TypeByte(numbers) == Len(numbers) - 3

Payload(d) ==
  (IF d.family = "typed" THEN <<TypeByte(d.numbers)>> ELSE <<>>) \o RlpEncode(List(Unsigned(d)))

V(d, sig) ==
  CASE d.family = "legacy" -> 35 + 2 * d.chain + sig.parity
    [] d.family = "old" -> 27 + sig.parity
    [] d.family = "typed" -> sig.parity

RawOf(d, sig) ==
  LET fields == (IF d.family = "typed" THEN Unsigned(d) ELSE Body(d)) \o Nums(<<V(d, sig), sig.r, sig.s>>)
  IN  (IF d.family = "typed" THEN <<TypeByte(d.numbers)>> ELSE <<>>) \o RlpEncode(List(fields))

Refusal(why) == [refused |-> why]

\* The sender of fields read as draft d with signature sig.
Accepted(d, sig) ==
  IF d.chain # ChainId THEN Refusal("wrong_chain_id")
  ELSE IF ~InRange(sig) THEN Refusal("invalid_signature")
  ELSE [refused |-> "no", draft |-> d, sender |-> Recover(Digest(Payload(d)), sig)]

\* decode_ethereum_signed_raw_transaction.  What the node checks the signature
\* against is encoded anew from the fields.
Decoded(bytes) ==
  LET typed == bytes[1] \in {1, 2}
      one == RlpDecode(IF typed THEN Tail(bytes) ELSE bytes)
      fields == one.item.items
      n(i) == BytesToInt(fields[i].bytes)
      k == Len(fields)
      sig(parity) == [parity |-> parity, r |-> n(k - 1), s |-> n(k)]
      body(family, chain, first, last) ==
        [family |-> family, chain |-> chain,
         numbers |-> [i \in 1 .. last - first - 1 |-> n(IF i = last - first - 1 THEN last - 1 ELSE first + i - 1)],
         to |-> fields[last - 2].bytes, data |-> fields[last].bytes]
      v == n(k - 2)
  IN  CASE one.error -> Refusal("rlp")
        [] ~one.error /\ (~one.item.list \/ k # IF typed THEN 10 + bytes[1] ELSE 9) -> Refusal("field_count")
        [] OTHER ->
             IF Len(fields[k - IF typed THEN 6 ELSE 5].bytes) \notin {0, AddressBytes}
             THEN Refusal("invalid_to_address_length")
             ELSE IF typed THEN Accepted(body("typed", n(1), 2, k - 4), sig(v))
             ELSE IF v >= 35 THEN Accepted(body("legacy", (v - 35) \div 2, 1, 6), sig((v - 35) % 2))
             ELSE IF v \in {27, 28} THEN Refusal("missing_eip155_chain_id")
             ELSE Refusal("invalid_legacy_v")

\* _tx_kind, and _make_tx: the transaction the node behind rpc.py gets.
KindOf(to, data) ==
  IF data = <<>> THEN "transfer" ELSE IF to = <<>> THEN "deploy_contract" ELSE "contract_call"
MadeTx(d, sender) ==
  LET k == Len(d.numbers) IN
  [from |-> sender, to |-> d.to, value |-> d.numbers[k], data |-> d.data, nonce |-> d.numbers[1],
   gasLimit |-> d.numbers[k - 1], gasPrice |-> d.numbers[k - 2], kind |-> KindOf(d.to, d.data)]
-----------------------------------------------------------------------------
\* Account.recover_transaction: the account whose key signed the bytes.
RecoverTransaction == EcMul(key, G)

\* _as_int of a chain id that is left empty.
ChainOr(n) == IF n = 0 THEN ChainId ELSE n

\* The gas limit and the price; of a type 2, the higher of its two fees, at least 1.
GatewayGas(type, n, last) ==
  [limit |-> n[last - 3],
   price |-> IF type = 2 THEN Max({n[last - 5], n[last - 4], 1}) ELSE n[last - 4]]

\* _decode_raw_transaction of the patched gateway takes the fields by their
\* places, the last of them is data, and looks at no signature of its own.
\* What it makes is of the default kind.
GatewayDecoded(bytes) ==
  LET type == IF bytes[1] \in {1, 2} THEN bytes[1] ELSE 0
      fields == RlpDecode(IF type > 0 THEN Tail(bytes) ELSE bytes).item.items
      last == 6 + type
      n == [i \in 1 .. last |-> BytesToInt(fields[i].bytes)]
      v == BytesToInt(fields[7].bytes)
      gas == GatewayGas(type, n, last)
      chain == IF type > 0 THEN ChainOr(n[1]) ELSE IF v >= 35 THEN (v - 35) \div 2 ELSE ChainId
  IN  IF chain # ChainId THEN Refusal("wrong_chain_id")
      ELSE [refused |-> "no",
            tx |-> [from |-> RecoverTransaction, to |-> fields[last - 2].bytes, value |-> n[last - 1],
                    data |-> fields[last].bytes, nonce |-> n[IF type > 0 THEN 2 ELSE 1],
                    gasLimit |-> gas.limit, gasPrice |-> gas.price, kind |-> "transfer"]]
-----------------------------------------------------------------------------
RawInit ==
  /\ draft \in Drafts /\ key \in Keys /\ seed \in Seeds
  /\ signed = Raised /\ raw = <<>> /\ answer = Refusal("not sent") /\ gateway = Refusal("not sent")

SignDraft ==
  /\ signed = Raised
  /\ signed' = Sign(Digest(Payload(draft)), key, seed)
  /\ UNCHANGED <<draft, key, seed, raw, answer, gateway>>

Send ==
  /\ signed # Raised /\ raw = <<>>
  /\ raw' = RawOf(draft, signed)
  /\ UNCHANGED <<draft, key, seed, signed, answer, gateway>>

Decode ==
  /\ raw # <<>> /\ answer.refused = "not sent"
  /\ answer' = Decoded(raw)
  /\ UNCHANGED <<draft, key, seed, signed, raw, gateway>>

GatewayDecode ==
  /\ raw # <<>> /\ gateway.refused = "not sent"
  /\ gateway' = GatewayDecoded(raw)
  /\ UNCHANGED <<draft, key, seed, signed, raw, answer>>

RawNext == SignDraft \/ Send \/ Decode \/ GatewayDecode
RawSpec == RawInit /\ [][RawNext]_rawVars
-----------------------------------------------------------------------------
RawTypeOK ==
  /\ signed # Raised => InRange(signed)
  /\ \A i \in DOMAIN raw : raw[i] \in 0 .. Base - 1
  /\ answer.refused \in {"not sent", "no", "wrong_chain_id", "missing_eip155_chain_id"}

\* A transaction of this chain is read as what was signed, and its sender is the
\* one whose key signed it, whatever k was drawn, on both sides of the length at
\* which RLP changes form, for zeros and for numbers with several bytes.  Of
\* another chain, or without one, it is refused.
SignedIsRecovered ==
  answer.refused # "not sent" =>
    IF draft.family = "old" THEN answer.refused = "missing_eip155_chain_id"
    ELSE IF draft.chain # ChainId THEN answer.refused = "wrong_chain_id"
    ELSE answer = [refused |-> "no", draft |-> draft, sender |-> EcMul(key, G)]

\* The two decoders make the same transaction of the same bytes, but for the
\* higher price of one whose tip is above its fee or whose fee is 0, and the kind of
\* one with data, which the gateway always makes a transfer
\* (blockchain_nonce_mempool_patch.py:508); and the gateway takes nothing that
\* rpc.py refuses but what names no chain (:485, :488), which it takes for its own.
ServersAgree ==
  answer.refused # "not sent" /\ gateway.refused # "not sent" =>
    /\ answer.refused = "no" =>
         LET made == MadeTx(answer.draft, answer.sender)
             capped == TypeByte(draft.numbers) = 2 => draft.numbers[3] >= Max({draft.numbers[2], 1})
         IN  /\ gateway.refused = "no"
             /\ \A f \in DOMAIN made \ {"gasPrice", "kind"} : gateway.tx[f] = made[f]
             /\ gateway.tx.kind = made.kind \/ made.data # <<>>
             /\ gateway.tx.gasPrice >= made.gasPrice
             /\ capped => gateway.tx.gasPrice = made.gasPrice
    /\ gateway.refused = "no" => answer.refused = "no" \/ draft.family = "old" \/ draft.chain = 0
=============================================================================
