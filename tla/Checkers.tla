------------------------------ MODULE Checkers ------------------------------
(***************************************************************************)
(* The visitor of agilang/checker.py on the generated Python, and its rule *)
(* for const: a stack of scopes of which each starts as a copy of the one  *)
(* around it (a function's, a class's, a comprehension's), and the return  *)
(* type of the function around a return.  The program is any walk through  *)
(* statements; binds and defs record what it has bound and defined.        *)
(***************************************************************************)
EXTENDS Integers, SequencesExt, Sequences, FiniteSets

CONSTANTS Idents, MaxScopes, MaxDefs      \* the last two bound the exploration

VARIABLES scopeStack, fnReturn, functions, consts,    \* the visitor's
          opened, binds, defs,                        \* the program's
          report
semanticVars == <<scopeStack, fnReturn, functions, consts, opened, binds, defs, report>>
-----------------------------------------------------------------------------
Scope == Last(scopeStack)
Depth == Len(scopeStack)
Scoped(x) == scopeStack' = [scopeStack EXCEPT ![Depth] = @ \cup {x}]
Binds(x) == binds' = binds \cup {<<x, Depth>>}
Quiet == "quiet"
Known == Idents \cup {"self"}

SemanticInit ==
  /\ scopeStack = <<{}>> /\ fnReturn = "any" /\ functions = {} /\ consts = {}
  /\ opened = <<>> /\ binds = {} /\ defs = {} /\ report = Quiet

\* an import, an assignment's, a for's or a with's target
Bind(x) ==
  /\ Scoped(x) /\ Binds(x) /\ report' = Quiet
  /\ UNCHANGED <<fnReturn, functions, consts, opened, defs>>

\* const x = ..., by the source's lines and in no scope
Const(x) ==
  /\ consts' = consts \cup {x} /\ Scoped(x) /\ Binds(x)
  /\ report' = IF x \in consts THEN "W401" ELSE Quiet
  /\ UNCHANGED <<fnReturn, functions, opened, defs>>

Reassign(x) ==
  /\ Scoped(x) /\ Binds(x) /\ report' = IF x \in consts THEN "E401" ELSE Quiet
  /\ UNCHANGED <<fnReturn, functions, consts, opened, defs>>

Use(x) ==
  /\ report' = IF x \in Scope THEN Quiet ELSE "W301"
  /\ UNCHANGED <<scopeStack, fnReturn, functions, consts, opened, binds, defs>>

Enter(kind, returns) ==
  /\ Depth < MaxScopes
  /\ opened' = Append(opened, [kind |-> kind, returns |-> returns, outer |-> fnReturn])

\* visit_FunctionDef: its name in the scope around it, its parameters in its own
DefineFunction(x, p, returns) ==
  /\ Enter("fn", returns) /\ Cardinality(defs) < MaxDefs
  /\ functions' = functions \cup {x} /\ defs' = defs \cup {x}
  /\ scopeStack' = Append([scopeStack EXCEPT ![Depth] = @ \cup {x}], Scope \cup {x} \cup p)
  /\ binds' = binds \cup {<<x, Depth>>} \cup {<<n, Depth + 1>> : n \in p}
  /\ fnReturn' = returns /\ report' = IF x \in functions THEN "W101" ELSE Quiet
  /\ UNCHANGED consts

DefineClass(x) ==
  /\ Enter("class", fnReturn)
  /\ scopeStack' = Append([scopeStack EXCEPT ![Depth] = @ \cup {x}], Scope \cup {x, "self"})
  /\ binds' = binds \cup {<<x, Depth>>, <<"self", Depth + 1>>} /\ report' = Quiet
  /\ UNCHANGED <<fnReturn, functions, consts, defs>>

Comprehension ==
  /\ Enter("comprehension", fnReturn)
  /\ scopeStack' = Append(scopeStack, Scope) /\ report' = Quiet
  /\ UNCHANGED <<fnReturn, functions, consts, binds, defs>>

Popped(stack) == Front(stack)
Leave ==
  /\ opened # <<>> /\ opened' = Front(opened)
  /\ scopeStack' = Popped(scopeStack) /\ fnReturn' = Last(opened).outer
  /\ binds' = {b \in binds : b[2] < Depth} /\ report' = Quiet
  /\ UNCHANGED <<functions, consts, defs>>

ReturnValue ==
  /\ report' = IF fnReturn = "void" THEN "W201" ELSE Quiet
  /\ UNCHANGED <<scopeStack, fnReturn, functions, consts, opened, binds, defs>>

SemanticNext ==
  \/ \E x \in Idents : Bind(x) \/ Const(x) \/ Reassign(x) \/ DefineClass(x)
  \/ \E x \in Known : Use(x)
  \/ \E x \in Idents, p \in SUBSET Idents, r \in {"any", "void"} : DefineFunction(x, p, r)
  \/ Comprehension \/ Leave \/ ReturnValue
-----------------------------------------------------------------------------
SemanticTypeOK ==
  /\ \A i \in DOMAIN scopeStack : scopeStack[i] \subseteq Known
  /\ report \in {Quiet, "W101", "W201", "W301", "W401", "E401"}

Around == SelectSeq(opened, LAMBDA o : o.kind = "fn")

\* A name is taken for bound exactly when a statement before it has bound it in
\* a block that is still open, and what a return is held against is the function
\* it is in, however functions, classes and comprehensions nest (checker.py:67-113,
\* 131-162).
ScopesLexical ==
  /\ Depth = Len(opened) + 1
  /\ Scope = {x \in Known : \E d \in 1 .. Depth : <<x, d>> \in binds}
  /\ fnReturn = IF Around = <<>> THEN "any" ELSE Last(Around).returns
  /\ functions = defs
-----------------------------------------------------------------------------
(***************************************************************************)
(* The type checker on the body of a function, statement by statement,     *)
(* side by side with what Python then does: the checker keeps a scope per  *)
(* open block, Python one set of variables per way through the branches so *)
(* far.  The expressions are literals, names and binary operations.        *)
(***************************************************************************)

CONSTANTS
  Names,
  Params,        \* what the parameters may be declared as: [names -> types]
  MaxStmts,      \* bound: statements
  MaxBlocks      \* bound: blocks open at a time, the function's included

Types == {"i32", "f64", "str", "bool"}

\* Expressions.
Lit(t) == [op |-> "lit", type |-> t, left |-> "", right |-> ""]
Ref(n) == [op |-> "name", type |-> "", left |-> n, right |-> n]
Op(o, n, m) == [op |-> o, type |-> "", left |-> n, right |-> m]
Exprs ==
  {Lit(t) : t \in Types} \cup {Ref(n) : n \in Names}
    \cup {Op(o, n, m) : o \in {"+", "/", "<"}, n \in Names, m \in Names}

VARIABLES
  scopes,        \* per open block its scope: name -> [type, mutable]
  entered,       \* per open block but the first, the environments at its start
  envs,          \* the environments Python may have here: name -> type of its value
  returns,       \* the declared return type
  verdict,       \* the first diagnostic: none, a warning or an error
  wrong,         \* may Python have raised, or returned another type?
  stmts

checkVars == <<scopes, entered, envs, returns, verdict, wrong, stmts>>

scope == Last(scopes)
-----------------------------------------------------------------------------
\* compatible: an integer goes for a float.
Compatible(expected, actual) == expected = actual \/ (expected = "f64" /\ actual = "i32")

\* The type of a binary operation on operands of these types, or an error
\* (ETYPE42, ETYPE43); a comparison is a bool whatever it compares.
OfOperation(o, l, r) ==
  CASE o = "<" -> "bool"
    [] o # "<" /\ {l, r} = {"str"} -> IF o = "+" THEN "str" ELSE "error"
    [] o # "<" /\ {l, r} \subseteq {"i32", "f64"} ->
         IF "f64" \in {l, r} \/ o = "/" THEN "f64" ELSE "i32"
    [] OTHER -> "error"

\* _infer_node: an unknown name is an error (ETYPE41).
Infer(e) ==
  IF e.op = "lit" THEN e.type
  ELSE IF ~{e.left, e.right} \subseteq DOMAIN scope THEN "error"
  ELSE IF e.op = "name" THEN scope[e.left].type
  ELSE OfOperation(e.op, scope[e.left].type, scope[e.right].type)

\* What Python makes of it, by the types of the values.  Strings and numbers do
\* not compare; numbers, with bool among them, compare and add.
ValueOf(e, env) ==
  IF e.op = "lit" THEN e.type
  ELSE IF ~{e.left, e.right} \subseteq DOMAIN env THEN "raise"
  ELSE LET l == env[e.left] r == env[e.right] IN
    CASE e.op = "name" -> l
      [] e.op # "name" /\ "str" \in {l, r} ->
           IF {l, r} = {"str"} /\ e.op # "/" THEN IF e.op = "<" THEN "bool" ELSE "str" ELSE "raise"
      [] OTHER -> CASE e.op = "<" -> "bool"
                    [] e.op = "/" -> "f64"
                    [] e.op = "+" -> IF "f64" \in {l, r} THEN "f64" ELSE "i32"

\* Does the checker look at what a comparison compares?  It does not: such an
\* expression is left out here when its sides are not of one kind.
Comparable(e) ==
  e.op = "<" /\ {e.left, e.right} \subseteq DOMAIN scope =>
    ("str" \in {scope[e.left].type, scope[e.right].type} => scope[e.left].type = scope[e.right].type)
-----------------------------------------------------------------------------
CheckInit ==
  /\ \E p \in Params :
       /\ scopes = <<[n \in DOMAIN p |-> [type |-> p[n], mutable |-> TRUE]]>>
       /\ envs = {env \in [DOMAIN p -> Types] : \A n \in DOMAIN p : Compatible(p[n], env[n])}
  /\ entered = <<>>
  /\ returns \in {"i32", "f64"}
  /\ verdict = "none" /\ wrong = FALSE /\ stmts = 0

\* A further statement; what follows the first diagnostic is not looked at.
More == verdict = "none" /\ stmts < MaxStmts /\ stmts' = stmts + 1

MayRaise(e) == \E env \in envs : ValueOf(e, env) = "raise"
Rest(e) == {env \in envs : ValueOf(e, env) # "raise"}
Bound(n, e) ==
  {[m \in DOMAIN env \cup {n} |-> IF m = n THEN ValueOf(e, env) ELSE env[m]] : env \in Rest(e)}

\* let or const, with a declared type or without ("")
Let(n, t, mutable, e) ==
  /\ More
  /\ verdict' = CASE n \in DOMAIN scope -> "WTYPE30"
                  [] n \notin DOMAIN scope /\ Infer(e) = "error" -> "error"
                  [] OTHER -> IF t # "" /\ ~Compatible(t, Infer(e)) THEN "ETYPE31" ELSE "none"
  /\ scopes' = Front(scopes) \o
       <<[m \in DOMAIN scope \cup {n} |->
            IF m = n THEN [type |-> IF t = "" THEN Infer(e) ELSE t, mutable |-> mutable] ELSE scope[m]]>>
  /\ envs' = Bound(n, e) /\ wrong' = (wrong \/ MayRaise(e))
  /\ UNCHANGED <<entered, returns>>

Assign(n, e) ==
  /\ More
  /\ verdict' = IF n \notin DOMAIN scope THEN "ETYPE20"
                ELSE IF ~scope[n].mutable THEN "ETYPE21"
                ELSE IF Infer(e) = "error" THEN "error"
                ELSE IF ~Compatible(scope[n].type, Infer(e)) THEN "ETYPE22" ELSE "none"
  /\ envs' = Bound(n, e) /\ wrong' = (wrong \/ MayRaise(e))
  /\ UNCHANGED <<scopes, entered, returns>>

CheckReturn(e) ==
  /\ More
  /\ verdict' = IF Infer(e) = "error" THEN "error"
                ELSE IF ~Compatible(returns, Infer(e)) THEN "ETYPE10" ELSE "none"
  /\ wrong' = (wrong \/ MayRaise(e) \/ \E env \in Rest(e) : ~Compatible(returns, ValueOf(e, env)))
  /\ envs' = {}
  /\ UNCHANGED <<scopes, entered, returns>>
-----------------------------------------------------------------------------
\* if, elif, else: a block_scope of its own, a copy of the one around it.
Open(e) ==
  /\ Len(scopes) < MaxBlocks
  /\ More
  /\ verdict' = IF Infer(e) = "error" THEN "error" ELSE "none"
  /\ scopes' = Append(scopes, scope)
  /\ entered' = Append(entered, Rest(e))
  /\ envs' = Rest(e) /\ wrong' = (wrong \/ MayRaise(e))
  /\ UNCHANGED returns

\* The scope of the block is dropped.
Restored == Front(scopes)

\* Python has run the block or not, and keeps its variables.
Close ==
  /\ Len(scopes) > 1
  /\ scopes' = Restored
  /\ envs' = envs \cup Last(entered)
  /\ entered' = Front(entered)
  /\ UNCHANGED <<returns, verdict, wrong, stmts>>

CheckNext ==
  \/ \E e \in Exprs : /\ Comparable(e)
                      /\ \/ CheckReturn(e) \/ Open(e)
                         \/ \E n \in Names : Assign(n, e)
                         \/ \E n \in Names, t \in Types \cup {""}, mutable \in BOOLEAN : Let(n, t, mutable, e)
  \/ Close

CheckSpec == CheckInit /\ [][CheckNext]_checkVars
-----------------------------------------------------------------------------
CheckTypeOK ==
  /\ Len(scopes) = Len(entered) + 1 /\ Len(scopes) <= MaxBlocks
  /\ verdict \in {"none", "WTYPE30", "error", "ETYPE10", "ETYPE20", "ETYPE21", "ETYPE22", "ETYPE31"}
  /\ verdict = "none" => \A n \in DOMAIN scope : scope[n].type \in Types

\* As long as the checker has said nothing, not even that a name is shadowed,
\* no way through the program raises for a name or an operand, or returns what
\* is not of the declared type, and each variable the checker knows is there,
\* with a value of its type or an integer for a float.
AcceptedRuns ==
  verdict = "none" =>
    /\ ~wrong
    /\ \A env \in envs : \A n \in DOMAIN scope :
         n \in DOMAIN env /\ Compatible(scope[n].type, env[n])
=============================================================================
