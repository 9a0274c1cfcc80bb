------------------------------ MODULE Compiler ------------------------------
(***************************************************************************)
(* AGILTranslator on a set of source files.  A line of a source imports    *)
(* another file, or needs a Python import of some kind (a struct needs     *)
(* dataclasses, an enum needs enum, any needs typing), or neither.  An     *)
(* imported file is translated by the same object in the middle of the     *)
(* importer and put in front of it; the flags that say which Python        *)
(* imports are needed belong to the object.                                *)
(***************************************************************************)
EXTENDS Sequences, SequencesExt, FiniteSets, Integers

CONSTANTS
  Sources,       \* the sets of source files: [files -> lines]
  Main,          \* the file that is translated
  MaxCalls       \* bound: Python's recursion limit, in nested files

Import(f) == [import |-> f, needs |-> "none"]
Needs(k) == [import |-> "none", needs |-> k]

\* What the translation consists of.
Provided(k) == [provides |-> k, needs |-> "none", of |-> "none"]
Line(f, k) == [provides |-> "none", needs |-> k, of |-> f]

\* The flag a line sets.  Of a return type, a declared variable or a field only
\* "any" itself sets it; "any" within a type, as in list[any], is emitted as Any
\* too.  (In parameters and aliases both set it: they are Needs("any").)
Noted(k) == {k} \ {"none", "any within"}
PythonName(k) == IF k = "any within" THEN "any" ELSE k

VARIABLES
  sources,
  needed,        \* _dataclass_needed, _enum_needed, _typing_needed
  moduleCache,   \* _module_cache
  calls,         \* the nested calls of translate_file, the innermost last
  translated     \* what came of it: the kind of outcome and the lines

translatorVars == <<sources, needed, moduleCache, calls, translated>>

Call(f) == [file |-> f, at |-> 1, imported |-> {}, preamble |-> <<>>, lines |-> <<>>]
Unfinished == [outcome |-> "none", lines |-> <<>>]

\* translate_file(Main) by a new translator: the flags are cleared.
TranslatorInit ==
  /\ sources \in Sources
  /\ needed = {} /\ moduleCache = <<>>
  /\ calls = <<Call(Main)>>
  /\ translated = Unfinished

call == Last(calls)
line == sources[call.file][call.at]
Reading == calls # <<>> /\ call.at <= Len(sources[call.file])

\* The innermost call with these changes, and one line further.
Further(c) == Front(calls) \o <<[c EXCEPT !.at = @ + 1]>>
-----------------------------------------------------------------------------
\* A line that imports nothing is taken over; what it needs is noted.
Take ==
  /\ Reading /\ line.import = "none"
  /\ needed' = needed \cup Noted(line.needs)
  /\ calls' = Further([call EXCEPT !.lines = Append(@, Line(call.file, line.needs))])
  /\ UNCHANGED <<sources, moduleCache, translated>>

\* An import of a file that this file has imported before is left out.
ImportAgain ==
  /\ Reading /\ line.import \in call.imported
  /\ calls' = Further(call)
  /\ UNCHANGED <<sources, needed, moduleCache, translated>>

Importing == Reading /\ line.import # "none" /\ line.import \notin call.imported

\* Mutant of Cached: a file that is being translated counts as translated.
CachedEarly(f) == f \in DOMAIN moduleCache \/ \E i \in DOMAIN calls : calls[i].file = f

\* path in self._module_cache
Cached(f) == f \in DOMAIN moduleCache

Inlined(f) == IF f \in DOMAIN moduleCache THEN moduleCache[f] ELSE <<>>

\* A file the translator has translated comes from its cache.
ImportCached ==
  /\ Importing /\ Cached(line.import)
  /\ calls' = Further([call EXCEPT !.imported = @ \cup {line.import},
                                   !.preamble = @ \o Inlined(line.import)])
  /\ UNCHANGED <<sources, needed, moduleCache, translated>>

Fails(o) ==
  /\ translated' = [outcome |-> o, lines |-> <<>>]
  /\ calls' = <<>>
  /\ UNCHANGED <<sources, needed, moduleCache>>

Fresh == Importing /\ ~Cached(line.import)

\* E001
ImportMissing == Fresh /\ line.import \notin DOMAIN sources /\ Fails("missing")

\* Files that import each other are followed until Python refuses.
RecursionError ==
  Fresh /\ line.import \in DOMAIN sources /\ Len(calls) = MaxCalls /\ Fails("recursion")

\* translate clears the flags, those of the importer's lines so far with them.
Cleared == {}

ImportFile ==
  /\ Fresh /\ line.import \in DOMAIN sources /\ Len(calls) < MaxCalls
  /\ needed' = Cleared
  /\ calls' = Append(calls, Call(line.import))
  /\ UNCHANGED <<sources, moduleCache, translated>>
-----------------------------------------------------------------------------
\* The imports the flags ask for, and a mutant: only the main file has them.
FlagsHeader == SetToSeq({Provided(k) : k \in needed})
HeaderOfMain == IF Len(calls) = 1 THEN FlagsHeader ELSE <<>>
Header == FlagsHeader

Output == Header \o call.preamble \o call.lines

\* A file ends: its translation is cached, and goes into the importer's preamble
\* or is the answer.
EndOfFile ==
  /\ calls # <<>> /\ call.at > Len(sources[call.file])
  /\ moduleCache' = [f \in DOMAIN moduleCache \cup {call.file} |->
                       IF f = call.file THEN Output ELSE moduleCache[f]]
  /\ IF Len(calls) = 1
     THEN calls' = <<>> /\ translated' = [outcome |-> "ok", lines |-> Output]
     ELSE LET above == Last(Front(calls)) IN
          /\ calls' = Front(Front(calls)) \o
                        <<[above EXCEPT !.imported = @ \cup {call.file},
                                        !.preamble = @ \o Output, !.at = @ + 1]>>
          /\ UNCHANGED translated
  /\ UNCHANGED <<sources, needed>>

TranslatorNext ==
  Take \/ ImportAgain \/ ImportCached \/ ImportMissing \/ RecursionError \/ ImportFile \/ EndOfFile

\* The calls run to their end.
TranslatorFairness == WF_translatorVars(TranslatorNext)
TranslatorSpec == TranslatorInit /\ [][TranslatorNext]_translatorVars /\ TranslatorFairness
-----------------------------------------------------------------------------
TranslatorTypeOK ==
  /\ needed \subseteq {"struct", "enum", "any"}
  /\ DOMAIN moduleCache \subseteq DOMAIN sources
  /\ Len(calls) <= MaxCalls
  /\ \A i \in DOMAIN calls : /\ calls[i].file \in DOMAIN sources
                              /\ calls[i].imported \subseteq DOMAIN moduleCache
  /\ translated.outcome \in {"none", "ok", "missing", "recursion"}

ImportsOf(f) == {sources[f][i].import : i \in DOMAIN sources[f]} \ {"none"}
ImportsFirst(f) ==
  \A i, j \in DOMAIN sources[f] :
    sources[f][i].needs # "none" /\ sources[f][j].import # "none" => j < i

\* When every file puts its imports before all else, whatever a line of the
\* translation needs from Python is imported above it: the flags that each
\* nested translation clears and leaves behind lose nothing.  The exception is
\* Any within another type (translator.py:293, 320, 382): it is there for sure
\* only when some line of the same file has Any where it is noted.
HeadersComplete ==
  (\A f \in DOMAIN sources : ImportsFirst(f)) =>
    \A i \in DOMAIN translated.lines : LET l == translated.lines[i] IN
      \/ l.needs = "none"
      \/ \E j \in 1 .. i - 1 : translated.lines[j].provides = PythonName(l.needs)
      \/ l.needs = "any within" /\ Needs("any") \notin ToSet(sources[l.of])

\* Files that Main imports, directly or not.
Files == DOMAIN sources \cup UNION {ImportsOf(f) : f \in DOMAIN sources}
ReachedFrom(S) ==
  {f \in Files : \A T \in SUBSET Files :
     S \subseteq T /\ (\A g \in T \cap DOMAIN sources : ImportsOf(g) \subseteq T) => f \in T}

Resolvable ==
  \A f \in ReachedFrom({Main}) : f \in DOMAIN sources /\ f \notin ReachedFrom(ImportsOf(f))

\* A translation comes to an end: with a program when all that is imported is
\* there and no file imports itself in the end, otherwise with an error.
CyclesRefused ==
  calls # <<>> ~> /\ calls = <<>>
                 /\ IF Resolvable THEN translated.outcome = "ok"
                    ELSE translated.outcome \in {"missing", "recursion"}
-----------------------------------------------------------------------------
(***************************************************************************)
(* Expressions of agilang/c_backend.py: what _expr_node writes for Python's*)
(* tree, read again with C's precedences and computed in C's integers.     *)
(* An expression is <<"num", n>>, <<"var", x>>, <<op, e>>, <<op, e, f>>,   *)
(* <<"cmp", e, ops, es>> or <<"and" or "or", es>>, a token <<"num", n>>,   *)
(* <<"var", x>> or <<sign>>.                                               *)
(***************************************************************************)

CONSTANTS Expressions, Environments,
          Bits,          \* the width of C's int
          MaxNesting     \* bound: how deep an expression nests

VARIABLES expr, env, emitted
cVars == <<expr, env, emitted>>
-----------------------------------------------------------------------------
Kind(e) == e[1]
Arithmetic == {"+", "-", "*", "/", "%"}
Relations == {"==", "!=", "<", "<=", ">", ">="}

Sign(s) == <<<<s>>>>
Paren(ts) == Sign("(") \o ts \o Sign(")")
Between(parts, op) == FoldLeft(LAMBDA ts, p : IF ts = <<>> THEN p ELSE ts \o Sign(op) \o p, <<>>, parts)

\* The operands of an expression, and all that is in it.
Operands(e) ==
  CASE Kind(e) \in {"num", "var"} -> {}
    [] Kind(e) \in {"and", "or"} -> ToSet(e[2])
    [] Kind(e) = "cmp" -> {e[2]} \cup ToSet(e[4])
    [] OTHER -> ToSet(Tail(e))
Within(e) ==
  LET depth[n \in 0 .. MaxNesting] == IF n = 0 THEN {e} ELSE UNION {Operands(x) : x \in depth[n - 1]}
  IN  UNION {depth[n] : n \in 0 .. MaxNesting}

\* the tokens _expr_node writes
Binary(l, op, r) == Paren(l \o Sign(op) \o r)
ExprNode(whole) ==
  LET node[e \in Within(whole)] ==
        CASE Kind(e) \in {"num", "var"} -> <<e>>
          [] Kind(e) \in Arithmetic -> Binary(node[e[2]], e[1], node[e[3]])
          [] Kind(e) \in {"not", "neg"} -> Paren(Sign(IF Kind(e) = "not" THEN "!" ELSE "neg") \o node[e[2]])
          [] Kind(e) = "cmp" -> LET side(k) == node[IF k = 0 THEN e[2] ELSE e[4][k]] IN
                                Between([k \in DOMAIN e[3] |-> Binary(side(k - 1), e[3][k], side(k))], "&&")
          [] Kind(e) \in {"and", "or"} -> Paren(Between([k \in DOMAIN e[2] |-> node[e[2][k]]],
                                                        IF Kind(e) = "and" THEN "&&" ELSE "||"))
  IN  node[whole]

CInit == expr \in Expressions /\ env \in Environments /\ emitted = <<>>
Generate == emitted = <<>> /\ emitted' = ExprNode(expr) /\ UNCHANGED <<expr, env>>
CNext == Generate
-----------------------------------------------------------------------------
\* C's side: integers of Bits bits that wrap (the compiler's choice), division
\* towards zero, relations and connectives of value 0 and 1.
Wrapped(n) == LET m == n % (2 ^ Bits) IN IF m >= 2 ^ (Bits - 1) THEN m - 2 ^ Bits ELSE m
Bool(b) == IF b THEN 1 ELSE 0
Abs(n) == IF n < 0 THEN -n ELSE n
Quotient(m, n) == (IF (m < 0) = (n < 0) THEN 1 ELSE -1) * (Abs(m) \div Abs(n))
Related(op, m, n) ==
  CASE op = "==" -> m = n [] op = "!=" -> m # n [] op = "<" -> m < n
    [] op = "<=" -> m <= n [] op = ">" -> m > n [] op = ">=" -> m >= n
COp(op, m, n) ==
  CASE op = "+" -> Wrapped(m + n) [] op = "-" -> Wrapped(m - n) [] op = "*" -> Wrapped(m * n)
    [] op = "/" -> IF n = 0 THEN 0 ELSE Quotient(m, n)
    [] op = "%" -> IF n = 0 THEN 0 ELSE m - n * Quotient(m, n)
    [] op = "&&" -> Bool(m # 0 /\ n # 0) [] op = "||" -> Bool(m # 0 \/ n # 0)
    [] OTHER -> Bool(Related(op, m, n))

Level == [op \in {"||"} |-> 1] @@ [op \in {"&&"} |-> 2] @@ [op \in {"==", "!="} |-> 3]
         @@ [op \in {"<", "<=", ">", ">="} |-> 4] @@ [op \in {"+", "-"} |-> 5] @@ [op \in {"*", "/", "%"} |-> 6]

\* The value of tokens: read["operand", _, k, level] is <<value, next token>> of
\* the longest expression from k whose operators bind at least as tightly as
\* level, read["rest", left, k, level] the same behind a first operand.
CValue(ts) ==
  LET read[what \in {"operand", "rest"}, left \in Int, k \in Nat, level \in Nat] ==
        IF what = "operand"
        THEN LET inner == read["operand", 0, k + 1, IF ts[k][1] = "(" THEN 1 ELSE 7]
                 first == CASE ts[k][1] = "(" -> <<inner[1], inner[2] + 1>>
                            [] ts[k][1] = "!" -> <<Bool(inner[1] = 0), inner[2]>>
                            [] ts[k][1] = "neg" -> <<Wrapped(-inner[1]), inner[2]>>
                            [] OTHER -> <<IF ts[k][1] = "num" THEN ts[k][2] ELSE env[ts[k][2]], k + 1>>
             IN  read["rest", first[1], first[2], level]
        ELSE IF IF k > Len(ts) THEN TRUE ELSE ts[k][1] = ")" \/ Level[ts[k][1]] < level
             THEN <<left, k>>
             ELSE LET r == read["operand", 0, k + 1, Level[ts[k][1]] + 1]
                  IN  read["rest", COp(ts[k][1], left, r[1]), r[2], level]
  IN  read["operand", 0, 1, 1][1]

\* Python's side: unbounded integers.
Eval(whole) ==
  LET value[e \in Within(whole)] ==
        CASE Kind(e) = "num" -> e[2]
          [] Kind(e) = "var" -> env[e[2]]
          [] Kind(e) \in {"+", "-", "*", "%"} ->
               LET m == value[e[2]]
                   n == value[e[3]] IN
               (CASE e[1] = "+" -> m + n [] e[1] = "-" -> m - n [] e[1] = "*" -> m * n
                  [] e[1] = "%" -> IF n = 0 THEN 0 ELSE IF n > 0 THEN m % n ELSE -((-m) % (-n)))
          [] Kind(e) = "neg" -> -value[e[2]]
          [] Kind(e) = "not" -> Bool(value[e[2]] = 0)
          [] Kind(e) = "cmp" ->
               LET side(k) == value[IF k = 0 THEN e[2] ELSE e[4][k]] IN
               Bool(\A k \in DOMAIN e[3] : Related(e[3][k], side(k - 1), side(k)))
          [] Kind(e) \in {"and", "or"} ->      \* the first operand that decides, or the last
               LET decides == {k \in DOMAIN e[2] : (value[e[2][k]] # 0) = (e[1] = "or")} IN
               value[e[2][Min(decides \cup {Len(e[2])})]]
  IN  value[whole]

\* What the backend leaves to the program: no chained comparison inside an
\* operator, no "and" or "or" for its value, no quotient, no remainder of a
\* negative number, no value beyond the width.
Chained(e) == Kind(e) = "cmp" /\ Len(e[3]) > 1
InFragment(whole) ==
  /\ \A e \in Within(whole) :
       /\ Kind(e) # "/"
       /\ \A s \in Operands(e) : /\ Kind(e) \notin {"and", "or"} => ~Chained(s)
                                 /\ Kind(s) \in {"and", "or"} => Kind(e) \in {"and", "or", "not"}
  /\ \A e \in Within(whole) : /\ Eval(e) = Wrapped(Eval(e))
                              /\ Kind(e) = "%" => Eval(e[2]) >= 0 /\ Eval(e[3]) > 0

\* The C program computes what the Python program does on the same values
\* (c_backend.py:212-247).
MeaningKept ==
  emitted # <<>> /\ InFragment(expr) =>
    IF Kind(expr) \in {"and", "or"} THEN (CValue(emitted) # 0) = (Eval(expr) # 0)
    ELSE CValue(emitted) = Eval(expr)
=============================================================================
