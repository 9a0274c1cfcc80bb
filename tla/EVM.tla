-------------------------------- MODULE EVM ---------------------------------
(***************************************************************************)
(* The bytecode interpreter: EVMInterpreter.execute and _run of evm.py.    *)
(* Python's recursion of _run is a stack of frames, the last one runs.     *)
(* Bytes are the real bytes; a word has WordBytes of them where the code   *)
(* has 32, and memory grows by that many.  A log's text is left out; the   *)
(* exceptions execute catches are one failure, since all end it alike.     *)
(* Those it does not catch, when the memory or Python's own stack does not *)
(* suffice, leave it without a result: how much a call of execute has of   *)
(* both is part of the request.                                            *)
(***************************************************************************)
EXTENDS Integers, Sequences, FiniteSets, SequencesExt

CONSTANTS
  WordBytes,                  \* 32 in the code
  AddressMod,                 \* 2^160
  MaxStack,                   \* MAX_STACK
  MaxCallDepth,               \* MAX_CALL_DEPTH
  Env,                        \* what ORIGIN, TIMESTAMP, ... answer
  Keccak(_),                  \* the hash of bytes, a word
  NewAddress(_, _, _, _),     \* the hash of creator, nonce, salt and code
  Requests                    \* what execute may be called with

VARIABLES
  request,    \* the call under way
  frames,     \* the calls of _run, outermost first
  balance, nonce, code, storage,     \* the accounts of the EVMWorldState
  result      \* the EVMResult of execute, or NoResult

evmVars == <<request, frames, balance, nonce, code, storage, result>>
worldVars == <<balance, nonce, code, storage>>

NoResult == [ok |-> FALSE, reverted |-> FALSE, used |-> -1, output |-> <<>>]
Escaped == [NoResult EXCEPT !.used = -2]        \* an exception has left execute

WordMod == 256 ^ WordBytes
WordBits == 8 * WordBytes
Words == 0 .. (WordMod - 1)
Bytes == 0 .. 255
Addresses == 0 .. (AddressMod - 1)

EnvOps == {"ORIGIN", "GASPRICE", "COINBASE", "TIMESTAMP", "NUMBER", "PREVRANDAO", "GASLIMIT",
           "CHAINID", "BASEFEE", "BLOBBASEFEE"}

\* The powers are arithmetic, which the provers do not know.
ASSUME EVMAssumption ==
  /\ {WordBytes, AddressMod} \subseteq Nat \ {0} /\ {MaxStack, MaxCallDepth} \subseteq Nat
  /\ \A i \in 0 .. WordBits : 2 ^ i \in Nat /\ 2 ^ i > i
  /\ \A i \in 0 .. WordBytes : 256 ^ i \in Nat /\ 256 ^ i > i
  /\ Env \in [EnvOps -> Int]
  /\ Requests \subseteq
       [bytecode : Seq(Bytes), address : Addresses, caller : Addresses, value : Words, calldata : Seq(Bytes),
        gas : Nat, static : BOOLEAN, codes : [Addresses -> Seq(Bytes)], balance : [Addresses -> Nat],
        room : Nat,        \* frames of _run that Python's recursion limit leaves
        memory : Nat]      \* bytes that a frame's bytearray can have

Word(v) == v % WordMod
Signed(w) == IF w >= WordMod \div 2 THEN w - WordMod ELSE w
-----------------------------------------------------------------------------
(* Instructions *)

\* PUSH1 .. PUSH32, DUP, SWAP and LOG are ranges of bytes and have no entry.
Opcode ==
  [STOP |-> 0, ADD |-> 1, MUL |-> 2, SUB |-> 3, DIV |-> 4, SDIV |-> 5, MOD |-> 6, SMOD |-> 7,
   ADDMOD |-> 8, MULMOD |-> 9, EXP |-> 10, SIGNEXTEND |-> 11,
   LT |-> 16, GT |-> 17, SLT |-> 18, SGT |-> 19, EQ |-> 20, ISZERO |-> 21, AND |-> 22, OR |-> 23,
   XOR |-> 24, NOT |-> 25, BYTE |-> 26, SHL |-> 27, SHR |-> 28, SAR |-> 29, SHA3 |-> 32,
   ADDRESS |-> 48, BALANCE |-> 49, ORIGIN |-> 50, CALLER |-> 51, CALLVALUE |-> 52,
   CALLDATALOAD |-> 53, CALLDATASIZE |-> 54, CALLDATACOPY |-> 55, CODESIZE |-> 56, CODECOPY |-> 57,
   GASPRICE |-> 58, EXTCODESIZE |-> 59, EXTCODECOPY |-> 60, RETURNDATASIZE |-> 61,
   RETURNDATACOPY |-> 62, EXTCODEHASH |-> 63, BLOCKHASH |-> 64, COINBASE |-> 65, TIMESTAMP |-> 66,
   NUMBER |-> 67, PREVRANDAO |-> 68, GASLIMIT |-> 69, CHAINID |-> 70, SELFBALANCE |-> 71,
   BASEFEE |-> 72, BLOBHASH |-> 73, BLOBBASEFEE |-> 74,
   POP |-> 80, MLOAD |-> 81, MSTORE |-> 82, MSTORE8 |-> 83, SLOAD |-> 84, SSTORE |-> 85, JUMP |-> 86,
   JUMPI |-> 87, PC |-> 88, MSIZE |-> 89, GAS |-> 90, JUMPDEST |-> 91, PUSH0 |-> 95,
   CREATE |-> 240, CALL |-> 241, CALLCODE |-> 242, RETURN |-> 243, DELEGATECALL |-> 244,
   CREATE2 |-> 245, STATICCALL |-> 250, REVERT |-> 253, INVALID |-> 254, SELFDESTRUCT |-> 255]

NameOf == [b \in {Opcode[n] : n \in DOMAIN Opcode} |-> CHOOSE n \in DOMAIN Opcode : Opcode[n] = b]

Name(b) ==
  CASE b \in 96 .. 127 -> "PUSH" [] b \in 128 .. 143 -> "DUP" [] b \in 144 .. 159 -> "SWAP"
    [] b \in 160 .. 164 -> "LOG" [] b \in DOMAIN NameOf -> NameOf[b] [] OTHER -> "unknown"

\* Bytes of the instruction that starts with b, its immediate included.
Size(b) == IF b \in 96 .. 127 THEN b - 94 ELSE 1

Nullary == EnvOps \cup {"ADDRESS", "CALLER", "CALLVALUE", "CALLDATASIZE", "CODESIZE",
             "RETURNDATASIZE", "SELFBALANCE", "PC", "MSIZE", "GAS", "PUSH0", "PUSH"}
Unary == {"ISZERO", "NOT", "BALANCE", "CALLDATALOAD", "EXTCODESIZE", "EXTCODEHASH", "BLOCKHASH",
          "BLOBHASH", "MLOAD", "SLOAD"}
Binary == {"ADD", "MUL", "SUB", "DIV", "SDIV", "MOD", "SMOD", "EXP", "SIGNEXTEND", "LT", "GT", "SLT",
           "SGT", "EQ", "AND", "OR", "XOR", "BYTE", "SHL", "SHR", "SAR", "SHA3"}
Ternary == {"ADDMOD", "MULMOD"}
Computes == Nullary \cup Unary \cup Binary \cup Ternary
Copies == {"CALLDATACOPY", "CODECOPY", "EXTCODECOPY", "RETURNDATACOPY"}
Stores == Copies \cup {"MSTORE", "MSTORE8", "LOG"}
Calls == {"CALL", "CALLCODE", "DELEGATECALL", "STATICCALL"}
Creating == {"CREATE", "CREATE2"}
Writing == Creating \cup {"SSTORE", "SELFDESTRUCT"}     \* refused in a static frame

\* How many words the instruction b named n takes from the stack, DUP and SWAP
\* aside, which need as many as they reach down to.
Pops(n, b) ==
  CASE n = "DUP" -> b - 127 [] n = "SWAP" -> b - 142 [] n = "LOG" -> b - 158
    [] n \in Unary \cup {"POP", "JUMP", "SELFDESTRUCT"} -> 1
    [] n \in Binary \cup {"MSTORE", "MSTORE8", "SSTORE", "JUMPI", "RETURN", "REVERT"} -> 2
    [] n \in Ternary \cup {"CALLDATACOPY", "CODECOPY", "RETURNDATACOPY", "CREATE"} -> 3
    [] n \in {"EXTCODECOPY", "CREATE2"} -> 4
    [] n \in {"DELEGATECALL", "STATICCALL"} -> 6 [] n \in {"CALL", "CALLCODE"} -> 7
    [] OTHER -> 0

GasCost(n, b) ==
  CASE n = "LOG" -> 375 + 375 * (b - 160)
    [] n \in {"STOP", "RETURN", "REVERT", "INVALID"} -> 0
    [] n = "JUMPDEST" -> 1
    [] n \in {"MUL", "DIV", "SDIV", "MOD", "SMOD", "SIGNEXTEND", "SELFBALANCE"} -> 5
    [] n \in {"ADDMOD", "MULMOD", "JUMP"} -> 8 [] n \in {"EXP", "JUMPI"} -> 10
    [] n = "BLOCKHASH" -> 20 [] n = "SHA3" -> 30
    [] n \in {"BALANCE", "EXTCODESIZE", "EXTCODECOPY", "EXTCODEHASH", "SLOAD"} -> 100
    [] n \in Calls -> 700 [] n = "SELFDESTRUCT" -> 5000 [] n = "SSTORE" -> 20000
    [] n \in Creating -> 32000
    [] n \in (Nullary \ {"PUSH", "SELFBALANCE"}) \cup {"POP"} -> 2
    [] OTHER -> 3

Fetched(b, n) == [name |-> n, byte |-> b, size |-> Size(b), pops |-> Pops(n, b), cost |-> GasCost(n, b)]

\* The instruction of c that the loop reads at pc.
Instruction(c, pc) == IF pc < Len(c) THEN Fetched(c[pc + 1], Name(c[pc + 1])) ELSE Fetched(0, "STOP")

\* Where the instructions of c start, and where a jump may go: the data of a
\* PUSH are skipped.
StartTable(c) ==
  LET start[i \in 0 .. Len(c)] == \/ i = 0
                                  \/ \E j \in 0 .. (i - 1) : j + Size(c[j + 1]) = i /\ start[j]
  IN  start
Starts(c) == {i \in 0 .. (Len(c) - 1) : StartTable(c)[i]}
Jumpdests(c) == {i \in Starts(c) : c[i + 1] = Opcode.JUMPDEST}
-----------------------------------------------------------------------------
(* Bytes and memory *)

Least(a, b) == IF a <= b THEN a ELSE b
\* The words that the first bytes of bs are.
Read(bs) == LET word[i \in 0 .. Len(bs)] == IF i = 0 THEN 0 ELSE Word(word[i - 1] * 256 + bs[i]) IN word
ToWord(bs) == Read(bs)[Len(bs)]
ToBytes(w) == [i \in 1 .. WordBytes |-> (w \div 256 ^ (WordBytes - i)) % 256]
\* size bytes of d from offset on, with zeroes behind the end of d.
Slice(d, offset, size) == [i \in 1 .. size |-> IF offset + i <= Len(d) THEN d[offset + i] ELSE 0]

Chunks(size) == (size + WordBytes - 1) \div WordBytes
MemoryCost(size) == 3 * Chunks(size) + (Chunks(size) * Chunks(size)) \div 512
Expand(m, end) == IF end <= Len(m) THEN m ELSE Slice(m, 0, Chunks(end) * WordBytes)
Extent(offset, size) == IF size = 0 THEN 0 ELSE offset + size
Write(m, offset, bs) ==
  LET big == Expand(m, Extent(offset, Len(bs))) IN
  [i \in 1 .. Len(big) |-> IF i - offset \in 1 .. Len(bs) THEN bs[i - offset] ELSE big[i]]
-----------------------------------------------------------------------------
(* The running frame *)

top == frames[Len(frames)]
ins == top.at.name
arg == SubSeq(top.stack, 1, top.at.pops)                \* what pop() answers, in that order
rest == SubSeq(top.stack, top.at.pops + 1, Len(top.stack))
Addr(w) == w % AddressMod

Bits(w) == {i \in 0 .. (WordBits - 1) : (w \div 2 ^ i) % 2 = 1}
\* The sums of the powers of two that S has below each number, and of all.
BitSums(S) ==
  LET sum[i \in 0 .. WordBits] == IF i = 0 THEN 0 ELSE sum[i - 1] + (IF i - 1 \in S THEN 2 ^ (i - 1) ELSE 0)
  IN  sum
OfBits(S) == BitSums(S)[WordBits]

\* b ^ a as pow computes it, modulo a word.
Powers(a, b) == LET power[i \in 0 .. a] == IF i = 0 THEN Word(1) ELSE Word(power[i - 1] * b) IN power
Truth(b) == IF b THEN 1 ELSE 0
Abs(v) == IF v < 0 THEN -v ELSE v

\* The value of an instruction with two operands, arg[1] popped first: SUB, DIV,
\* MOD, EXP and the comparisons have the one popped second on their left.
Arithmetic(n, a, b) ==
  LET sa == Signed(a)
      sb == Signed(b)
      sign == IF sb < 0 THEN -1 ELSE 1
  IN
  CASE n = "ADD" -> a + b [] n = "MUL" -> a * b [] n = "SUB" -> b - a
    [] n = "DIV" -> IF a = 0 THEN 0 ELSE b \div a
    [] n = "MOD" -> IF a = 0 THEN 0 ELSE b % a
    [] n = "SDIV" -> IF a = 0 THEN 0
                     ELSE (IF sa < 0 THEN -sign ELSE sign) * (Abs(sb) \div Abs(sa))
    [] n = "SMOD" -> IF a = 0 THEN 0 ELSE sign * (Abs(sb) % Abs(sa))
    [] n = "EXP" -> Powers(a, b)[a]
    [] n = "SIGNEXTEND" -> IF a >= WordBytes THEN b
                           ELSE LET low == b % 2 ^ (8 * a + 8) IN
                                IF low >= 2 ^ (8 * a + 7) THEN low - 2 ^ (8 * a + 8) ELSE low
    [] n = "LT" -> Truth(b < a) [] n = "GT" -> Truth(b > a)
    [] n = "SLT" -> Truth(sb < sa) [] n = "SGT" -> Truth(sb > sa) [] n = "EQ" -> Truth(a = b)
    [] n = "AND" -> OfBits(Bits(a) \cap Bits(b)) [] n = "OR" -> OfBits(Bits(a) \cup Bits(b))
    [] n = "XOR" -> OfBits((Bits(a) \cup Bits(b)) \ (Bits(a) \cap Bits(b)))
    [] n = "BYTE" -> IF a >= WordBytes THEN 0 ELSE (b \div 256 ^ (WordBytes - 1 - a)) % 256
    [] n = "SHL" -> IF a >= WordBits THEN 0 ELSE (b % 2 ^ (WordBits - a)) * 2 ^ a
    [] n = "SHR" -> IF a >= WordBits THEN 0 ELSE b \div 2 ^ a
    [] n = "SAR" -> IF a >= WordBits THEN (IF sb < 0 THEN -1 ELSE 0) ELSE sb \div 2 ^ a
    [] n = "SHA3" -> Keccak(Slice(top.mem, a, b))

Altered(s, k, v) == [j \in {k} \cup DOMAIN s |-> IF j = k THEN v ELSE s[j]]
Stored(a, k) == IF k \in DOMAIN storage[a] THEN storage[a][k] ELSE 0

\* What an instruction of Computes pushes.  A callee's BLOBBASEFEE is 0: the
\* child context is built without it.
Computed ==
  CASE ins = "PUSH" -> ToWord(Slice(top.code, top.pc + 1, top.at.size - 1))
    [] ins = "PUSH0" -> 0 [] ins = "PC" -> top.pc [] ins = "MSIZE" -> Len(top.mem)
    [] ins = "GAS" -> top.gas - top.at.cost
    [] ins = "BLOBBASEFEE" /\ Len(frames) > 1 -> 0
    [] ins = "ADDRESS" -> top.address [] ins = "CALLER" -> top.caller
    [] ins = "CALLVALUE" -> top.value [] ins = "SELFBALANCE" -> balance[top.address]
    [] ins = "CALLDATASIZE" -> Len(top.calldata) [] ins = "CODESIZE" -> Len(top.code)
    [] ins = "RETURNDATASIZE" -> Len(top.ret)
    [] ins = "ISZERO" -> Truth(arg[1] = 0) [] ins = "NOT" -> WordMod - 1 - arg[1]
    [] ins = "BALANCE" -> balance[Addr(arg[1])]
    [] ins = "CALLDATALOAD" -> ToWord(Slice(top.calldata, arg[1], WordBytes))
    [] ins = "EXTCODESIZE" -> Len(code[Addr(arg[1])])
    [] ins = "EXTCODEHASH" -> Keccak(code[Addr(arg[1])])
    [] ins \in {"BLOCKHASH", "BLOBHASH"} -> 0
    [] ins = "MLOAD" -> ToWord(Slice(top.mem, arg[1], WordBytes))
    [] ins = "SLOAD" -> Stored(top.address, arg[1])
    [] ins = "ADDMOD" -> IF arg[3] = 0 THEN 0 ELSE (arg[1] + arg[2]) % arg[3]
    [] ins = "MULMOD" -> IF arg[3] = 0 THEN 0 ELSE (arg[1] * arg[2]) % arg[3]
    [] ins \in Binary -> Arithmetic(ins, arg[1], arg[2])
    [] OTHER -> Env[ins]

\* How far into memory the instruction reaches; MLOAD does so without paying.
Reach ==
  CASE ins \in {"SHA3", "LOG"} -> arg[1] + arg[2] [] ins \in {"MLOAD", "MSTORE"} -> arg[1] + WordBytes
    [] ins = "MSTORE8" -> arg[1] + 1 [] ins = "EXTCODECOPY" -> arg[2] + arg[4]
    [] ins \in Copies \ {"EXTCODECOPY"} -> arg[1] + arg[3] [] OTHER -> 0

\* What it costs on top of its price in the table.
Surcharge ==
  LET copied == Chunks(arg[Len(arg)]) IN
  (IF ins # "MLOAD" /\ Reach > Len(top.mem) THEN MemoryCost(Reach) - MemoryCost(Len(top.mem)) ELSE 0)
  + CASE ins \in Copies -> 3 * copied [] ins = "SHA3" -> 6 * copied
      [] ins = "LOG" -> 8 * arg[2]
      [] ins = "EXP" -> 50 * Cardinality({n \in 1 .. WordBytes : 256 ^ (n - 1) <= arg[1]})
      [] OTHER -> 0

\* Mutant of Charged: the price is held against the gas and not taken off it.
ChargedNot(gas, cost) == IF gas < cost THEN -1 ELSE gas

Charged(gas, cost) == gas - cost
left == Charged(top.gas, top.at.cost + Surcharge)

Jumps == ins = "JUMP" \/ (ins = "JUMPI" /\ arg[2] # 0)

\* charge, pop, push and the instructions' own checks raise.
Short == Len(top.stack) < top.at.pops
Raises ==
  \/ Short
  \/ /\ ~Short
     /\ \/ ins \in {"unknown", "INVALID"} \/ left < 0
        \/ ins = "DUP" /\ Len(top.stack) >= MaxStack
        \/ ins \in Computes /\ Len(rest) >= MaxStack
        \/ ins = "RETURNDATACOPY" /\ arg[2] + arg[3] > Len(top.ret)
        \/ Jumps /\ arg[1] \notin Jumpdests(top.code)
        \/ ins \in Writing /\ top.static

\* How far the running frame's memory has to grow for the instruction.
Grown ==
  CASE ins \in Calls -> LET in == SubSeq(arg, Len(arg) - 3, Len(arg) - 2) IN Extent(in[1], in[2])
    [] ins \in Creating -> Extent(arg[2], arg[3]) [] ins \in {"RETURN", "REVERT"} -> Extent(arg[1], arg[2])
    [] OTHER -> Reach

\* Memory grows before it is paid for, behind the checks that come earlier.
TooLarge(end) == Chunks(end) * WordBytes > request.memory
Outgrows ==
  /\ ~Short /\ top.gas >= top.at.cost /\ ~(ins \in Writing /\ top.static)
  /\ ~(ins = "RETURNDATACOPY" /\ arg[2] + arg[3] > Len(top.ret))
  /\ TooLarge(Grown)

\* The frame has begun, and an instruction is next.
Begun == frames # <<>> /\ Len(frames) <= request.room
InsNext == Begun /\ top.pc < Len(top.code)
-----------------------------------------------------------------------------
(* Steps within a frame *)

Exec(names) == InsNext /\ ins \in names /\ ~Raises /\ ~Outgrows

At(f, pc) == [f EXCEPT !.pc = pc, !.at = Instruction(f.code, pc)]

\* The running frame behind the instruction, which has pushed the given words.
Past(pushed) ==
  [At(top, top.pc + top.at.size) EXCEPT !.gas = left, !.stack = pushed \o rest, !.mem = Expand(@, Reach)]

Run(f) == frames' = [frames EXCEPT ![Len(frames)] = f] /\ UNCHANGED <<request, result>>

\* The exception leaves every _run and execute too.
Escaping == frames' = <<>> /\ result' = Escaped /\ UNCHANGED request

Compute == Exec(Computes) /\ Run(Past(<<Word(Computed)>>)) /\ UNCHANGED worldVars

Shuffle ==
  /\ Exec({"POP", "DUP", "SWAP", "JUMPDEST"})
  /\ Run(Past(CASE ins = "DUP" -> <<Last(arg)>> \o arg
                [] ins = "SWAP" -> <<Last(arg)>> \o SubSeq(arg, 2, Len(arg) - 1) \o <<arg[1]>>
                [] OTHER -> <<>>))
  /\ UNCHANGED worldVars

Store ==
  /\ Exec(Stores)
  /\ LET source == CASE ins = "CALLDATACOPY" -> top.calldata [] ins = "CODECOPY" -> top.code
                     [] ins = "EXTCODECOPY" -> code[Addr(arg[1])] [] OTHER -> top.ret
         bs == CASE ins = "MSTORE" -> ToBytes(arg[2]) [] ins = "MSTORE8" -> <<arg[2] % 256>>
                 [] ins = "LOG" -> <<>>
                 [] OTHER -> Slice(source, arg[Len(arg) - 1], arg[Len(arg)])
     IN  Run([Past(<<>>) EXCEPT !.mem = Write(@, arg[IF ins = "EXTCODECOPY" THEN 2 ELSE 1], bs)])
  /\ UNCHANGED worldVars

SStore ==
  /\ Exec({"SSTORE"})
  /\ storage' = [storage EXCEPT ![top.address] = Altered(@, arg[1], arg[2])]
  /\ Run(Past(<<>>)) /\ UNCHANGED <<balance, nonce, code>>

Jump ==
  /\ Exec({"JUMP", "JUMPI"})
  /\ Run(At(Past(<<>>), IF Jumps THEN arg[1] ELSE top.pc + 1))
  /\ UNCHANGED worldVars

\* The init code becomes the code of a new account, run by nobody; the creator
\* does not pay what the new account gets.
Create ==
  /\ Exec(Creating)
  /\ LET init == Slice(top.mem, arg[2], arg[3])
         count == nonce[top.address] + 1
         new == NewAddress(top.address, count, IF ins = "CREATE2" THEN arg[4] ELSE 0, init)
     IN  /\ nonce' = [nonce EXCEPT ![top.address] = count, ![new] = 0]
         /\ balance' = [balance EXCEPT ![new] = arg[1]]
         /\ code' = [code EXCEPT ![new] = init]
         /\ storage' = [storage EXCEPT ![new] = <<>>]
         /\ Run([Past(<<Word(new)>>) EXCEPT !.mem = Expand(@, Extent(arg[2], arg[3]))])
-----------------------------------------------------------------------------
(* Calls *)

callee == Addr(arg[2])
callValue == IF ins \in {"CALL", "CALLCODE"} THEN arg[3] ELSE top.value
area == SubSeq(arg, Len(arg) - 3, Len(arg))        \* in_offset, in_size, out_offset, out_size

\* Mutant of Transferred: both balances are read before either is written.
TransferFromOld(b, a, c, v) == [b EXCEPT ![a] = b[a] - v, ![c] = b[c] + v]

Transferred(b, a, c, v) == [[b EXCEPT ![a] = @ - v] EXCEPT ![c] = @ + v]

Refused ==
  \/ Len(frames) > MaxCallDepth
  \/ ins = "CALL" /\ balance[top.address] < callValue

Calling(pushed) == [Past(pushed) EXCEPT !.mem = Expand(@, Extent(area[1], area[2]))]

CallRefused ==
  /\ Exec(Calls) /\ Refused
  /\ Run([Calling(<<0>>) EXCEPT !.ret = <<>>])
  /\ UNCHANGED worldVars

Pay ==
  /\ balance' = IF ins = "CALL" THEN Transferred(balance, top.address, callee, callValue) ELSE balance
  /\ UNCHANGED <<nonce, code, storage>>

\* Nothing to run at the callee: the call succeeds.
CallEmpty ==
  /\ Exec(Calls) /\ ~Refused /\ code[callee] = <<>>
  /\ Pay
  /\ IF TooLarge(Extent(area[3], area[4])) THEN Escaping
     ELSE Run([Calling(<<1>>) EXCEPT !.ret = <<>>, !.mem = Write(@, area[3], Slice(<<>>, 0, area[4]))])

\* Mutants of ChildStatic and ChildGas: static is not handed down; a callee has
\* what it is given.
ChildStaticOwn == ins = "STATICCALL"
ChildGasAsked == arg[1]

ChildAddress == IF ins \in {"CALLCODE", "DELEGATECALL"} THEN top.address ELSE callee
ChildStatic == top.static \/ ins = "STATICCALL"
ChildGas == Least(arg[1], left)

Child ==
  [code     |-> code[callee],
   owner    |-> callee,                              \* whose code it is
   address  |-> ChildAddress,
   caller   |-> IF ins = "DELEGATECALL" THEN top.caller ELSE top.address,
   value    |-> callValue,
   calldata |-> Slice(top.mem, area[1], area[2]),
   static   |-> ChildStatic,
   gas      |-> ChildGas,
   pc |-> 0, at |-> Instruction(code[callee], 0), stack |-> <<>>, mem |-> <<>>, ret |-> top.ret, area |-> <<0, 0, 0, 0>>]

\* The caller keeps all of its gas: what the callee spends is not taken off.  A
\* frame that Python has no room for does not begin.
CallEnter ==
  /\ Exec(Calls) /\ ~Refused /\ code[callee] # <<>>
  /\ Pay
  /\ frames' = Append([frames EXCEPT ![Len(frames)] = [Calling(<<>>) EXCEPT !.area = area]], Child)
  /\ UNCHANGED <<request, result>>

\* The frame's _run returns: to the caller, or to execute.  A frame that
\* reverted leaves the accounts as they are.
FinishOf(ok, reverted, output, gas) ==
  IF Len(frames) = 1
  THEN /\ frames' = <<>>
       /\ result' = [ok |-> ok, reverted |-> reverted, used |-> request.gas - gas, output |-> output]
       /\ UNCHANGED request
  ELSE LET f == frames[Len(frames) - 1]
           back == [f EXCEPT !.ret = output, !.stack = <<Truth(ok)>> \o @,
                             !.mem = Write(@, f.area[3], Slice(output, 0, f.area[4]))]
       IN  IF TooLarge(Extent(f.area[3], f.area[4])) THEN Escaping
           ELSE frames' = Append(SubSeq(frames, 1, Len(frames) - 2), back) /\ UNCHANGED <<request, result>>

\* In the last frame there is room for, making the result may be too deep.
Finish(ok, reverted, output, gas) ==
  FinishOf(ok, reverted, output, gas) \/ (Len(frames) = request.room /\ Escaping)

RunsOff ==
  /\ Begun /\ top.pc >= Len(top.code)
  /\ Finish(TRUE, FALSE, <<>>, top.gas) /\ UNCHANGED worldVars

Stop == Exec({"STOP"}) /\ Finish(TRUE, FALSE, <<>>, left) /\ UNCHANGED worldVars

Return ==
  /\ Exec({"RETURN", "REVERT"})
  /\ Finish(ins = "RETURN", ins = "REVERT", Slice(top.mem, arg[1], arg[2]), left)
  /\ UNCHANGED worldVars

SelfDestruct ==
  /\ Exec({"SELFDESTRUCT"})
  /\ balance' = [balance EXCEPT ![Addr(arg[1])] = @ + balance[top.address], ![top.address] = 0]
  /\ code' = [code EXCEPT ![top.address] = <<>>]
  /\ Finish(TRUE, FALSE, <<>>, left) /\ UNCHANGED <<nonce, storage>>

\* The exception leaves every _run and is caught by execute; nothing is undone.
Raise ==
  /\ InsNext /\ Raises /\ ~Outgrows
  /\ frames' = <<>>
  /\ result' = [ok |-> FALSE, reverted |-> FALSE, used |-> request.gas, output |-> <<>>]
  /\ UNCHANGED <<request, worldVars>>

\* OverflowError, MemoryError: the memory cannot grow.  RecursionError: a frame
\* does not begin, or a helper of the last one is too deep, that of a creation
\* behind the nonce.
Escape ==
  /\ Escaping
  /\ \/ InsNext /\ Outgrows /\ UNCHANGED worldVars
     \/ frames # <<>> /\ Len(frames) >= request.room /\ UNCHANGED worldVars
     \/ /\ Len(frames) = request.room /\ Exec(Creating)
        /\ nonce' = [nonce EXCEPT ![top.address] = @ + 1] /\ UNCHANGED <<balance, code, storage>>
-----------------------------------------------------------------------------
EVMInit ==
  /\ request \in Requests
  /\ balance = request.balance /\ nonce = [a \in Addresses |-> 0]
  /\ code = [request.codes EXCEPT ![request.address] = IF @ = <<>> THEN request.bytecode ELSE @]
  /\ storage = [a \in Addresses |-> <<>>]
  /\ frames = << [code |-> request.bytecode, owner |-> request.address, address |-> request.address,
                  caller |-> request.caller, value |-> request.value, calldata |-> request.calldata,
                  static |-> request.static, gas |-> request.gas,
                  pc |-> 0, at |-> Instruction(request.bytecode, 0), stack |-> <<>>,
                  mem |-> <<>>, ret |-> <<>>, area |-> <<0, 0, 0, 0>>] >>
  /\ result = NoResult

EVMNext ==
  \/ Compute \/ Shuffle \/ Store \/ SStore \/ Jump \/ Create
  \/ CallRefused \/ CallEmpty \/ CallEnter
  \/ RunsOff \/ Stop \/ Return \/ SelfDestruct \/ Raise \/ Escape

\* execute is one loop that nothing waits in.
EVMSpec == EVMInit /\ [][EVMNext]_evmVars /\ WF_evmVars(EVMNext)
-----------------------------------------------------------------------------
(***************************************************************************)
(* What an execution promises, whatever its bytecode.                      *)
(***************************************************************************)

\* Type invariant: words on every stack, bytes in memory and code, at most
\* MaxCallDepth calls inside the outermost one.
EVMTypeOK ==
  /\ Len(frames) <= MaxCallDepth + 1
  /\ \A i \in DOMAIN frames :
       LET f == frames[i] IN
       /\ {f.owner, f.address, f.caller} \subseteq Addresses /\ f.value \in Words
       /\ f.stack \in Seq(Words) /\ Len(f.stack) <= MaxStack
       /\ {f.code, f.mem, f.ret, f.calldata} \subseteq Seq(Bytes)
       /\ f.gas \in Nat /\ f.pc \in Nat /\ f.static \in BOOLEAN
  /\ balance \in [Addresses -> Int] /\ nonce \in [Addresses -> Nat]
  /\ code \in [Addresses -> Seq(Bytes)]
  /\ \A a \in Addresses : \A k \in DOMAIN storage[a] : k \in Words /\ storage[a][k] \in Words

\* No byte of a PUSH's data is ever executed, wherever the jumps of a program
\* and its truncated pushes lead.
PcAtInstruction ==
  \A i \in DOMAIN frames :
    frames[i].pc < Len(frames[i].code) => frames[i].pc \in Starts(frames[i].code)

\* However deep, a callee has at most the gas its caller has left, so that the
\* outermost frame's gas bounds each frame's, and no result reports more than
\* was given.
GasNested ==
  /\ \A i \in DOMAIN frames : frames[i].gas <= request.gas
  /\ \A i \in 2 .. Len(frames) : frames[i].gas <= frames[i - 1].gas
  /\ result \notin {NoResult, Escaped} => result.used \in 0 .. request.gas

\* A frame works on its own code's account, or on the account of the frame
\* that delegated to it, and then it is told of that frame or of that frame's
\* own caller and value: nobody's storage is reached through two delegations
\* unless each of them worked on it.
Rooted(f, g) ==
  /\ f.address \in {f.owner, g.address}
  /\ \/ f.caller = g.address
     \/ f.caller = g.caller /\ f.address = g.address /\ f.value = g.value
DelegationRooted == \A i \in 2 .. Len(frames) : Rooted(frames[i], frames[i - 1])

\* Nobody's balance is negative, whoever calls whom with a value on the way.
NoDebt == \A a \in Addresses : balance[a] >= 0

\* What the frames of an execution hold keeps within what they were given:
\* instructions, gas, accounts to work on, and money.
FramesContained ==
  EVMTypeOK /\ PcAtInstruction /\ GasNested /\ DelegationRooted /\ NoDebt

\* While any frame is static, whatever it calls leaves the accounts' storage,
\* code and nonces alone.
StaticReadOnly ==
  [][(\E i \in DOMAIN frames : frames[i].static) => UNCHANGED <<nonce, code, storage>>]_evmVars

\* What the accounts below each address have, and what all have.
Sums(b) == LET sum[i \in 0 .. AddressMod] == IF i = 0 THEN 0 ELSE sum[i - 1] + b[i - 1] IN sum
Total(b) == Sums(b)[AddressMod]

\* Value moves and is neither made nor lost, a call to oneself included, except
\* by a creation, which nobody pays for, and by an account destroyed in its own
\* favour.
ValueConserved ==
  [][Total(balance') # Total(balance) =>
       ins \in Creating \/ (ins = "SELFDESTRUCT" /\ Addr(arg[1]) = top.address)]_evmVars

\* Every program ends, each instruction that goes on costing gas: callers do not
\* pay for their callees, but a callee has no more than they.  It ends with a
\* result, unless Python has less room than MAX_CALL_DEPTH asks for, as with its
\* limit of 1000 it has, or less memory than two words can address: then an
\* exception may leave execute, and what was done to the accounts stays
\* (evm.py:696-702).
ExecutionEnds ==
  <>(/\ frames = <<>> /\ result # NoResult
     /\ result = Escaped => request.room <= MaxCallDepth + 1 \/ request.memory < 2 * WordMod)
=============================================================================
