--------------------------- MODULE MCApplications ---------------------------
(***************************************************************************)
(* What programs are made with and run on: the compiler, the learning      *)
(* runtime, the web framework and its clients, one part at a time, each on *)
(* the small inputs below.                                                 *)
(***************************************************************************)
EXTENDS Compiler, Checkers, Parser, Learning, Vision, WebApp, Manifest, PubSub, Workspace

VARIABLE part

UpTo(S, m, n) == UNION {[1 .. k -> S] : k \in m .. n}

\* Up to three imports and declarations; "lost" is no file.
MCSources ==
  {("main" :> m) @@ ("a" :> a) @@ ("b" :> b) :
     m \in UpTo({Import("a"), Import("b"), Needs("struct")}, 0, 3),
     a \in UpTo({Import("b"), Import("main"), Needs("enum"), Needs("any"), Needs("any within")}, 0, 2),
     b \in UpTo({Import("a"), Import("lost"), Needs("struct"), Needs("none")}, 0, 1)}

\* A vector and a scalar, of which at least one wants a gradient.
MCLeafSets ==
  {<<[data |-> <<2, -1>>, scalar |-> FALSE, requires |-> f], [data |-> <<3>>, scalar |-> TRUE, requires |-> TRUE]>> :
     f \in BOOLEAN}

MCNames == {"x", "y"}
MCParams == {<<>>, "x" :> "f64", "x" :> "str"}

\* A word of up to five letters, two of up to three, or three of up to two.
MCTexts ==
  [1 .. 1 -> UpTo({"a", "b"}, 1, 5)] \cup [1 .. 2 -> UpTo({"a", "b"}, 1, 3)] \cup [1 .. 3 -> UpTo({"a", "b"}, 1, 2)]


\* Up to four lines at up to three depths, some with an open bracket.
RawLine(n, k, d) == [indent |-> n, kind |-> k, delta |-> d]
MCPrograms ==
  UpTo({RawLine(n, k, 0) : n \in {0, 4, 8}, k \in {"fn", "stmt", "record", "field"}}, 0, 3)
  \cup {<<RawLine(0, "fn", 0)>> \o p :
          p \in UpTo({RawLine(n, k, 0) : n \in {0, 4, 6, 8}, k \in {"if", "stmt", "bad"}} \cup {RawLine(0, "blank", 0)}, 2, 3)}
  \cup UpTo({RawLine(0, "stmt", d) : d \in {-1, 0, 1}} \cup {RawLine(4, "stmt", 0)}, 2, 4)

MCCharTexts ==
  UpTo({"a", "1", "q", "\\", "n"}, 0, 4) \cup UpTo({"=", "-", ">", "1", ".", " "}, 1, 4)
  \cup {<<"a">> \o t : t \in UpTo({"#", "q", "n", "?", "a"}, 1, 4)}

Atoms == {<<"var", "x">>, <<"var", "y">>, <<"num", 2>>}
Compared == {<<"cmp", e, <<o>>, <<f>>>> : e \in Atoms, f \in Atoms, o \in {"<", "=="}}
            \cup {<<"cmp", e, <<"<", o>>, <<f, g>>>> : e \in Atoms, f \in Atoms, g \in Atoms, o \in {"<", "!="}}
Small == Atoms \cup Compared
         \cup {<<o, e, f>> : o \in {"+", "-", "*", "%", "/"}, e \in Atoms, f \in Atoms}
         \cup {<<o, e>> : o \in {"not", "neg"}, e \in Atoms}
         \cup {<<o, <<e, f>>>> : o \in {"and", "or"}, e \in Atoms, f \in Atoms}
MCExpressions ==
  Small
  \cup {<<o, e, f>> : o \in {"-", "*", "%"}, e \in Small, f \in Atoms}
  \cup {<<o, f, e>> : o \in {"-", "*", "%"}, e \in Small, f \in Atoms}
  \cup {<<"cmp", e, <<o>>, <<f>>>> : o \in {"<", "=="}, e \in Small, f \in Atoms}
  \cup {<<o, e>> : o \in {"not", "neg"}, e \in Small}
  \cup {<<o, <<e, <<"cmp", f, <<"<">>, <<g>>>>>>>> : o \in {"and", "or"}, e \in Small, f \in Atoms, g \in {<<"num", 2>>}}
MCEnvironments == {"x" :> m @@ "y" :> n : m \in {-3, 3}, n \in {0, 2}}

Ask(b, m, p, c, l) == [browser |-> b, method |-> m, path |-> p, csrf |-> c, big |-> l]
MCWebRequests ==
  {Ask("b2", "POST", "/login", FALSE, FALSE), Ask("b2", "POST", "/me", TRUE, FALSE),
   Ask("b1", "POST", "/logout", TRUE, FALSE), Ask("b1", "GET", "/me", FALSE, FALSE),
   Ask("b1", "POST", "/me", FALSE, TRUE), Ask("b2", "GET", "/file", FALSE, FALSE),
   Ask("b2", "GET", "/none", FALSE, FALSE)}
ARoute(m, ps, mw, d) == [method |-> m, paths |-> ps, middleware |-> mw, deed |-> d]
MCBefore == <<"body_limit">>
MCAfter == <<"security_headers", "own">>
MCRoutes ==
  <<ARoute("POST", {"/login"}, <<>>, "login"),
    ARoute("POST", {"/logout"}, <<"auth_required">>, "logout"),
    ARoute("ANY", {"/me", "/logout"}, <<"auth_required", "csrf_protect", "own">>, "page")>>

\* Images and kernels with values of both signs, images of bytes among them.
Grey(h, w, c, m, low) == [y \in 1 .. h |-> [x \in 1 .. w |-> ((y * c + x * (c + 2) + y * x) % m) + low]]
RGB(h, w, c, m, low) == [y \in 1 .. h |-> [x \in 1 .. w |-> [k \in 1 .. 2 |-> ((y * c + x * (c + 2) + k * 3 + y * x) % m) + low]]]
MCSamples ==
  {[kind |-> "plain", image |-> Grey(h, w, c, 5, -2), net |-> [kernel |-> Grey(2, 2, d, 5, -2), bias |-> c - 1],
    stride |-> s, target |-> Grey(3, 3, c + d, 4, -1)] : h \in 2 .. 4, w \in {2, 4}, c \in {1, 2}, d \in {1, 3}, s \in {1, 2}}
  \cup {[kind |-> "features", image |-> RGB(3, 3, c, 5, -2),
         net |-> [kernels |-> <<RGB(2, 2, d, 7, -3), RGB(2, 2, d + 1, 5, -2)>>, biases |-> <<1, -2>>],
         target |-> <<Grey(2, 2, c, 9, 0), Grey(2, 2, d, 6, 0)>>] : c \in {1, 2, 4}, d \in 1 .. 3}
  \cup {[kind |-> "classifier", image |-> RGB(h, h, c, m, -2),
         net |-> [kernels |-> <<RGB(2, 2, d, 7, -3), RGB(2, 2, d + 1, 9, -4)>>, biases |-> <<1, 3>>, pool |-> 2,
                  dense |-> Grey(2 * ((h - 1) \div 2) ^ 2, 2, d, 7, -3), bias |-> <<2, -1>>], slopes |-> s] :
         h \in {4, 5}, c \in {1, 2}, d \in 1 .. 3, m \in {4, 7}, s \in {<<-3, 3>>, <<2, -2>>}}
  \cup {[kind |-> "kernel", name |-> n, backend |-> b, fallback |-> f, installed |-> i, devices |-> d] :
         n \in {"matmul", "conv2d", "attention"}, b \in {"auto", "cpu", "cuda", "metal"}, f \in BOOLEAN,
         i \in SUBSET {"torch", "cupy", "torch_directml"}, d \in {{}, {"cuda"}, {"mps"}}}
MCGradients == {-2, 0, 3}

\* The sizes on both sides of each form of the length, pings and a close between.
TextOf(n) == [op |-> "text", size |-> n]
MCFrameLists ==
  {<<TextOf(m), TextOf(n)>> : m \in {0, 1, 125, 126, 65535, 65536, 65538}, n \in {2, 65536}}
    \cup {<<[op |-> o, size |-> n], TextOf(3), TextOf(126)>> : o \in {"ping", "pong", "close", "binary"}, n \in {0, 2, 125}}
-----------------------------------------------------------------------------
TranslatorIdle ==
  sources = <<>> /\ needed = {} /\ moduleCache = <<>> /\ calls = <<>> /\ translated = Unfinished
GradIdle == tensors = <<>> /\ roots = <<>>
CheckIdle ==
  /\ scopes = <<<<>>>> /\ entered = <<>> /\ envs = {} /\ returns = "i32"
  /\ verdict = "none" /\ wrong = FALSE /\ stmts = 0
BPEIdle == text = <<>> /\ least = 1 /\ words = <<>> /\ merges = <<>>
VisionIdle == sample = Untrained /\ learned = Untrained

ParserIdle ==
  /\ source = <<>> /\ lines = <<>> /\ index = 1 /\ blocks = <<Block(0, 0, FALSE)>>
  /\ parent = <<>> /\ parsed = "tree"
LexIdle == chars = <<>> /\ at = 1 /\ row = 1 /\ col = 1 /\ tokens = <<>> /\ scanned = "no"
CIdle == expr = <<"num", 2>> /\ env = <<>> /\ emitted = <<>>
SocketIdle ==
  /\ frames = <<>> /\ masked = FALSE /\ sent = 0 /\ wire = <<>> /\ buffer = <<>> /\ reader = Listening
  /\ received = <<>> /\ ponged = <<>> /\ swallowed = FALSE /\ outOfStep = FALSE /\ timeouts = 0
HTTPIdle ==
  /\ httpCall = [pc |-> "end", url |-> "public", at |-> "public", attempt |-> 0, hop |-> 0, returned |-> "nothing"]
  /\ onTheWay = {} /\ done = {}

MCInit ==
  /\ part \in {"translator", "checker", "semantic", "parser", "lexer", "cbackend", "autograd", "bpe", "vision", "adam",
               "web", "http", "manifest", "pubsub", "socket", "workspace"}
  /\ IF part = "vision" THEN VisionInit ELSE VisionIdle
  /\ AdamInit /\ SemanticInit /\ WebInit /\ ManifestInit /\ PubInit /\ WorkspaceInit
  /\ part # "manifest" => single /\ lock = toml
  /\ IF part = "translator" THEN TranslatorInit ELSE TranslatorIdle
  /\ IF part = "checker" THEN CheckInit ELSE CheckIdle
  /\ IF part = "parser" THEN ParserInit ELSE ParserIdle
  /\ IF part = "lexer" THEN LexInit ELSE LexIdle
  /\ IF part = "cbackend" THEN CInit ELSE CIdle
  /\ IF part = "autograd" THEN GradInit ELSE GradIdle
  /\ IF part = "bpe" THEN BPEInit ELSE BPEIdle
  /\ IF part = "http" THEN HTTPInit ELSE HTTPIdle
  /\ IF part = "socket" THEN SocketInit ELSE SocketIdle

compilerVars == <<translatorVars, checkVars, semanticVars, parserVars, lexVars, cVars>>
learningVars == <<gradVars, bpeVars, visionVars, adamVars>>
frameworkVars == <<webVars, httpVars, manifestVars, pubVars, socketVars, workspaceVars>>

Compiling ==
  \/ /\ part = "translator" /\ TranslatorNext
     /\ UNCHANGED <<checkVars, semanticVars, parserVars, lexVars, cVars>>
  \/ /\ part = "checker" /\ CheckNext
     /\ UNCHANGED <<translatorVars, semanticVars, parserVars, lexVars, cVars>>
  \/ /\ part = "semantic" /\ SemanticNext
     /\ UNCHANGED <<translatorVars, checkVars, parserVars, lexVars, cVars>>
  \/ /\ part = "parser" /\ ParserNext
     /\ UNCHANGED <<translatorVars, checkVars, semanticVars, lexVars, cVars>>
  \/ /\ part = "lexer" /\ LexNext
     /\ UNCHANGED <<translatorVars, checkVars, semanticVars, parserVars, cVars>>
  \/ /\ part = "cbackend" /\ CNext
     /\ UNCHANGED <<translatorVars, checkVars, semanticVars, parserVars, lexVars>>

Learns ==
  \/ part = "autograd" /\ GradNext /\ UNCHANGED <<bpeVars, visionVars, adamVars>>
  \/ part = "bpe" /\ BPENext /\ UNCHANGED <<gradVars, visionVars, adamVars>>
  \/ part = "vision" /\ VisionNext /\ UNCHANGED <<gradVars, bpeVars, adamVars>>
  \/ part = "adam" /\ AdamNext /\ UNCHANGED <<gradVars, bpeVars, visionVars>>

Framework ==
  \/ part = "web" /\ WebNext /\ UNCHANGED <<httpVars, manifestVars, pubVars, socketVars, workspaceVars>>
  \/ part = "http" /\ HTTPNext /\ UNCHANGED <<webVars, manifestVars, pubVars, socketVars, workspaceVars>>
  \/ part = "manifest" /\ ManifestNext /\ UNCHANGED <<webVars, httpVars, pubVars, socketVars, workspaceVars>>
  \/ part = "pubsub" /\ PubNext /\ UNCHANGED <<webVars, httpVars, manifestVars, socketVars, workspaceVars>>
  \/ part = "workspace" /\ WorkspaceNext /\ UNCHANGED <<webVars, httpVars, manifestVars, pubVars, socketVars>>
  \/ part = "socket" /\ SocketNext /\ UNCHANGED <<webVars, httpVars, manifestVars, pubVars, workspaceVars>>

MCNext ==
  /\ UNCHANGED part
  /\ \/ Compiling /\ UNCHANGED <<learningVars, frameworkVars>>
     \/ Learns /\ UNCHANGED <<compilerVars, frameworkVars>>
     \/ Framework /\ UNCHANGED <<compilerVars, learningVars>>

MCSpec ==
  /\ MCInit /\ [][MCNext]_<<compilerVars, learningVars, frameworkVars, part>>
  /\ TranslatorFairness /\ ParserFairness /\ HTTPFairness /\ WebFairness
-----------------------------------------------------------------------------
\* What the translator emits has its imports, what the type checker lets pass
\* raises no type error, scopes are lexical, blocks follow the indentation, tokens
\* are where they are said to be, and C computes what Python does.
CompilerSound ==
  /\ part = "translator" => TranslatorTypeOK /\ HeadersComplete
  /\ part = "checker" => CheckTypeOK /\ AcceptedRuns
  /\ part = "semantic" => SemanticTypeOK /\ ScopesLexical
  /\ part = "parser" => TreeFollowsIndentation
  /\ part = "lexer" => PositionsTrue /\ Longest
  /\ part = "cbackend" => MeaningKept

\* Gradients are the derivatives, forward passes written twice agree, Adam's
\* moments are averages, and tokens give their text back.
LearningExact ==
  /\ part = "autograd" => GradTypeOK /\ GradientExact
  /\ part = "bpe" => BPETypeOK /\ RoundTrip
  /\ part = "vision" => PlainSlopes /\ FeatureSlopes /\ ClassifierSlopes /\ ForwardsAgree /\ DispatchedWhereItRuns
  /\ part = "adam" => MomentsUnbiased

\* A request passes its steps in order under a sound session, calls,
\* publications and messages happen as often as they are said to, and a project made can be
\* used and keeps what the user has written.
FrameworkSound ==
  /\ part = "web" => WebTypeOK /\ PipelineInOrder /\ SessionsSound
  /\ part = "http" => AnswersTrue
  /\ part = "manifest" => NothingInvented
  /\ part = "pubsub" => DeliveredOnce
  /\ part = "socket" => FramesRead
  /\ part = "workspace" => ProjectUsable /\ EditsKept

\* Translations, parsings, calls and requests come to an end.
ApplicationsEnd == CyclesRefused /\ ParserEnds /\ HTTPReturns /\ WebEnds
=============================================================================
