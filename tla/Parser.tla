------------------------------- MODULE Parser -------------------------------
(***************************************************************************)
(* tokenize of agilang/lexer.py over classes of characters: a letter "a",  *)
(* a digit "1", the quotes and signs that matter themselves, NL a line     *)
(* end, "?" a character that begins no token.  One step scans one token.   *)
(***************************************************************************)
EXTENDS Integers, SequencesExt

CONSTANTS CharTexts, NL     \* the sources, and the class of the line end

VARIABLES chars, at, row, col, tokens, scanned
lexVars == <<chars, at, row, col, tokens, scanned>>
-----------------------------------------------------------------------------
LexInit ==
  /\ chars \in CharTexts /\ at = 1 /\ row = 1 /\ col = 1
  /\ tokens = <<>> /\ scanned = "no"

Scanning == scanned = "no" /\ at <= Len(chars)
This == chars[at]
Char(j) == IF j <= Len(chars) THEN chars[j] ELSE "end"

\* The end of the longest run from here in which Good holds of all positions.
Run(Good(_)) ==
  CHOOSE j \in at .. Len(chars) + 1 :
    /\ \A k \in at .. j - 1 : Good(k)
    /\ j > Len(chars) \/ ~Good(j)

Emit(kind, to) ==
  /\ tokens' = Append(tokens, [kind |-> kind, from |-> at, to |-> to, row |-> row, col |-> col])
  /\ at' = to

SkipSpace == Scanning /\ This = " " /\ at' = at + 1 /\ col' = col + 1 /\ UNCHANGED <<chars, row, tokens, scanned>>

Across(kind, to) == Emit(kind, to) /\ col' = col + to - at /\ UNCHANGED <<chars, row, scanned>>

NewLine ==
  /\ Scanning /\ This = NL /\ Emit("NEWLINE", at + 1)
  /\ row' = row + 1 /\ col' = 1 /\ UNCHANGED <<chars, scanned>>

InWord(k) == chars[k] \in {"a", "1"}
InNumber(k) == chars[k] = "1" \/ (chars[k] = "." /\ \A m \in at .. k - 1 : chars[m] # ".")

Comment == Scanning /\ This = "#" /\ Across("COMMENT", Run(LAMBDA k : chars[k] # NL))
Word == Scanning /\ This = "a" /\ Across("IDENT", Run(InWord))
Number == Scanning /\ This = "1" /\ Across("NUMBER", Run(InNumber))

\* A position in the string is escaped by a backslash that is not.
Escaped(k) == (k - 1 - Max({at} \cup {m \in at .. k - 1 : chars[m] # "\\"})) % 2 = 1
Closes(k) == chars[k] = "q" /\ ~Escaped(k)
Breaks(k) == chars[k] = NL /\ ~Escaped(k)
Ending == {k \in at + 1 .. Len(chars) : Closes(k) \/ Breaks(k)}
Closed == Ending # {} /\ Closes(Min(Ending))
Error(code) == scanned' = code /\ UNCHANGED <<chars, at, row, col, tokens>>

String ==
  /\ Scanning /\ This = "q"
  /\ IF Closed THEN Across("STRING", Min(Ending) + 1) ELSE Error("ELEX01")

DoubleSigns == {<<"=", "=">>, <<"-", ">">>}
Singles == {"=", "-", ">", "."}
Symbol ==
  /\ Scanning /\ This \in Singles
  /\ Across("SYMBOL", IF <<This, Char(at + 1)>> \in DoubleSigns THEN at + 2 ELSE at + 1)

Unexpected == Scanning /\ This \in {"?", "\\"} /\ Error("ELEX02")

EndOfText == scanned = "no" /\ at > Len(chars) /\ scanned' = "all" /\ UNCHANGED <<chars, at, row, col, tokens>>

LexNext ==
  \/ SkipSpace \/ NewLine \/ Comment \/ Word \/ Number \/ String \/ Symbol \/ Unexpected \/ EndOfText
-----------------------------------------------------------------------------
LineEnds(k) == Cardinality({m \in 1 .. k - 1 : chars[m] = NL})
LastEnd(k) == Max({0} \cup {m \in 1 .. k - 1 : chars[m] = NL})
Folded(k) == \E n \in DOMAIN tokens : /\ tokens[n].kind = "STRING" /\ tokens[n].to <= k
                                      /\ \E m \in tokens[n].from .. tokens[n].to - 1 : chars[m] = NL

\* Every character but a blank is in one token, the tokens are in the text's
\* order, and each is told to be at the line and column where it is, unless a
\* string before it goes on over a line's end (lexer.py:60-150).
PositionsTrue ==
  /\ \A k \in 1 .. at - 1 : \/ chars[k] = " "
                           \/ \E n \in DOMAIN tokens : tokens[n].from <= k /\ k < tokens[n].to
  /\ \A n \in DOMAIN tokens : LET t == tokens[n] IN
       /\ t.from < t.to /\ (n > 1 => tokens[n - 1].to <= t.from)
       /\ ~Folded(t.from) => t.row = 1 + LineEnds(t.from) /\ t.col = t.from - LastEnd(t.from)

\* No token ends where a longer one of its kind could: two words, two numbers or
\* the halves of a sign of two characters never touch (lexer.py:81-98, 132-142).
Longest ==
  \A n \in 2 .. Len(tokens) : LET s == tokens[n - 1]
                                  t == tokens[n] IN
    s.to = t.from =>
      /\ s.kind = "IDENT" => t.kind \notin {"IDENT", "NUMBER"}
      /\ s.kind = "NUMBER" => t.kind # "NUMBER"
      /\ s.kind = "SYMBOL" /\ s.to = s.from + 1 => <<chars[s.from], chars[t.from]>> \notin DoubleSigns
-----------------------------------------------------------------------------
(***************************************************************************)
(* AGILParser of agilang/parser.py: lines joined while a bracket is open,  *)
(* then blocks by indentation.  A line is its indentation, the bracket     *)
(* depth it adds and what it is: "import" and "record" (struct, enum) mean *)
(* something at the top level only, "fn" and "if" (any block statement)    *)
(* have a body, "bad" is a line whose pattern does not match.  The tree is *)
(* kept as each line's parent, 0 for the program.                          *)
(***************************************************************************)

CONSTANTS Programs      \* sequences of [indent, kind, delta]

VARIABLES source, lines, index, blocks, parent, parsed
parserVars == <<source, lines, index, blocks, parent, parsed>>
-----------------------------------------------------------------------------
\* _logical_lines: [line: a joined line, buffer: raw lines so far, depth]
Joined(raws) == Head(raws)
JoinStep(acc, raw) ==
  LET depth == IF acc.depth + raw.delta > 0 THEN acc.depth + raw.delta ELSE 0
      buffer == Append(acc.buffer, raw) IN
  IF depth = 0 THEN [lines |-> Append(acc.lines, Joined(buffer)), buffer |-> <<>>, depth |-> 0]
  ELSE [lines |-> acc.lines, buffer |-> buffer, depth |-> depth]
LogicalLines(raws) ==
  LET acc == FoldLeft(JoinStep, [lines |-> <<>>, buffer |-> <<>>, depth |-> 0], raws) IN
  IF acc.buffer = <<>> THEN acc.lines ELSE Append(acc.lines, Joined(acc.buffer))

Block(base, header, record) == [base |-> base, header |-> header, record |-> record]

ParserInit ==
  /\ source \in Programs /\ lines = LogicalLines(source)
  /\ index = 1 /\ blocks = <<Block(0, 0, FALSE)>>
  /\ parent = <<>> /\ parsed = "no"

Current == lines[index]
InnerBlock == Last(blocks)
TopLevel == Len(blocks) = 1
LinesLeft == parsed = "no" /\ index <= Len(lines)

SkipBlank ==
  /\ LinesLeft /\ Current.kind = "blank"
  /\ index' = index + 1 /\ parent' = Append(parent, 0)
  /\ UNCHANGED <<source, lines, blocks, parsed>>

Dedented == IF InnerBlock.record THEN Current.indent <= InnerBlock.base ELSE Current.indent < InnerBlock.base
CloseBlock ==
  /\ parsed = "no"
  /\ ~LinesLeft \/ (LinesLeft /\ Current.kind # "blank" /\ Dedented)
  /\ IF TopLevel THEN parsed' = "tree" /\ UNCHANGED blocks ELSE blocks' = Front(blocks) /\ UNCHANGED parsed
  /\ UNCHANGED <<source, lines, index, parent>>

Inside == LinesLeft /\ Current.kind # "blank" /\ ~Dedented
Refuse(code) == parsed' = code /\ UNCHANGED <<source, lines, index, blocks, parent>>

UnexpectedIndentation == Inside /\ ~InnerBlock.record /\ Current.indent > InnerBlock.base /\ Refuse("EPARSE01")

Expected == Inside /\ (InnerBlock.record \/ Current.indent = InnerBlock.base)
Taken == index' = index + 1 /\ parent' = Append(parent, InnerBlock.header) /\ UNCHANGED <<source, lines, parsed>>

\* a struct's field, an enum's variant: at any deeper indentation
Member == Inside /\ InnerBlock.record /\ Current.kind = "field" /\ Taken /\ UNCHANGED blocks
BadMember == Inside /\ InnerBlock.record /\ Current.kind # "field" /\ Refuse("EPARSE04")

Statement == Expected /\ ~InnerBlock.record
IsRecord == Current.kind = "record" /\ TopLevel
BadLine == Statement /\ Current.kind = "bad" /\ Refuse("EPARSE07")

BodyIndent(indent) == indent + 4
OpenBlock ==
  /\ Statement
  /\ \/ Current.kind \in {"fn", "if"} /\ blocks' = Append(blocks, Block(BodyIndent(Current.indent), index, FALSE))
     \/ IsRecord /\ blocks' = Append(blocks, Block(Current.indent, index, TRUE))
  /\ Taken

Simple == Statement /\ Current.kind \notin {"fn", "if", "bad"} /\ ~IsRecord /\ Taken /\ UNCHANGED blocks

ParserNext == SkipBlank \/ CloseBlock \/ UnexpectedIndentation \/ Member \/ BadMember \/ BadLine \/ OpenBlock \/ Simple
ParserFairness == WF_parserVars(ParserNext)
-----------------------------------------------------------------------------
Full == {n \in DOMAIN lines : lines[n].kind # "blank"}

\* The offside rule: a line belongs to the last line before it that is indented
\* less, of which a record takes all that is deeper.
Above(n) == {m \in Full : m < n /\ lines[m].indent < lines[n].indent
                          /\ \A k \in Full : m < k /\ k <= n => lines[k].indent > lines[m].indent}
Owner(n) ==
  LET records == {m \in Above(n) : lines[m].kind = "record" /\ lines[m].indent = 0} IN
  IF records # {} THEN Min(records) ELSE IF Above(n) = {} THEN 0 ELSE Max(Above(n))
Belongs(n) ==
  IF Owner(n) = 0 THEN lines[n].indent = 0 /\ lines[n].kind # "bad"
  ELSE LET k == lines[Owner(n)].kind IN
       \/ k = "record" /\ lines[Owner(n)].indent = 0 /\ lines[n].kind = "field"
       \/ k \in {"fn", "if"} /\ lines[n].indent = lines[Owner(n)].indent + 4 /\ lines[n].kind # "bad"

\* The blocks of the tree are those of the offside rule, with every line in it
\* once, and a program is refused exactly where a line fits none (parser.py:106-123).
TreeFollowsIndentation ==
  /\ parsed = "tree" => \A n \in Full : Belongs(n) /\ parent[n] = Owner(n)
  /\ parsed \notin {"no", "tree"} => ~Belongs(index) /\ \A n \in Full : n < index => Belongs(n)

\* Every program is parsed or refused.
ParserEnds == parsed = "no" ~> parsed # "no"
=============================================================================
