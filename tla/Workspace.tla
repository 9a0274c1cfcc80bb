----------------------------- MODULE Workspace -----------------------------
(***************************************************************************)
(* Making a project: `agi new`, `agi make:page`, `agi hosting scaffold`    *)
(* and `agi mobile native-bridge` write their files one by one into a      *)
(* project directory.  A template is the sequence of the files it writes,  *)
(* each with the project files it needs when it is used: what it imports,  *)
(* includes, renders, links or executes.  The process can be killed in the *)
(* middle of a write, the user edits files between two commands, and       *)
(* --force lets a command into a directory that is not empty.              *)
(*                                                                         *)
(* Left out: the text of the files, and names that give another directory. *)
(* A removed tree (shutil.rmtree) is gone in one step.                     *)
(***************************************************************************)
EXTENDS Integers, Sequences, FiniteSets

CONSTANTS Templates,    \* templates asked for
          Vias,         \* the function called: "command" the installed one, "smart" and "scaffold" a library's
          Others,       \* the other commands given, of "page", "hosting" and "bridge"
          EditPaths,    \* the files the user edits
          CrashPaths,   \* the files a kill may leave torn
          MaxMakes,     \* bound: commands
          MaxDepth      \* bound: Python's recursion limit

VARIABLES disk,         \* path -> [kind, whole, mine]: who wrote it, is it all there, is it the user's text
          make,         \* the command in progress: [cmd, kind, at, outcome]
          frame,        \* the create_project it is in, and how deep
          made,         \* commands given
          kept          \* files with the user's text that no --force has given up
workspaceVars == <<disk, make, frame, made, kept>>
-----------------------------------------------------------------------------
\* A file of a template, and the steps that are not writes.
File(p, needs) == [op |-> "write", path |-> p, needs |-> needs]
Plain(ps) == [i \in 1 .. Len(ps) |-> File(ps[i], {})]
Rmtree(p) == [op |-> "remove", path |-> p, needs |-> {}]
RemoveAll == [op |-> "clear", path |-> "", needs |-> {}]
Unless(p) == [op |-> "unless", path |-> p, needs |-> {}]

\* What `agi run` takes from agilang.toml: [project].entry, which the templates set to the default.
ProjectEntry == {"src/main.agi"}
View(v) == "resources/views/" \o v \o ".ags"
Css == "resources/assets/css/app.css"
Script(s) == "resources/assets/js/" \o s \o ".js"
AgiFiles(ss) == [i \in 1 .. Len(ss) |-> File("src/" \o ss[i] \o ".agi", {})]
Json(cs) == [i \in 1 .. Len(cs) |-> File("config/" \o cs[i] \o ".json", {})]

\* ---- scaffold.create_project
ProjectHead == <<File("agilang.toml", ProjectEntry)>> \o Plain(<<".env.example", ".gitignore">>)
BasicFiles == AgiFiles(<<"main">>)
AiSources == <<File("src/main.agi", {View("home"), View("layout"), Css})>> \o AgiFiles(<<"model">>)
AiViews ==
  <<File(View("layout"), {Css, Script("ai-runtime")})>> \o Plain(<<View("home"), View("predict"), Css, Script("ai-runtime")>>)
AiRest == <<File("public/css/app.css", {Css})>> \o Plain(<<"storage/.gitkeep", "docs/AI_RUNBOOK.md">>)
SystemsFiles == AgiFiles(<<"main", "network", "evm">>)
ZkFiles == AgiFiles(<<"main", "circuit", "schnorr">>) \o Plain(<<"docs/ZK_RUNBOOK.md">>)
ChainSources ==
  <<File("src/main.agi", {View("home"), View("layout"), Css})>> \o AgiFiles(<<"chain", "mempool", "devnet", "evm_contract">>)
ChainViews ==
  <<File(View("layout"), {Css, Script("blockchain-runtime")})>>
  \o Plain(<<View("home"), View("blockchain"), Css, Script("blockchain-runtime")>>)
ChainRest ==
  <<File("public/css/app.css", {Css})>> \o Plain(<<"storage/.gitkeep">>) \o Json(<<"validators">>)
  \o Plain(<<"docs/BLOCKCHAIN_RUNBOOK.md">>)
WebSources == <<File("src/main.agi", {View("home"), View("dashboard"), View("layout"), Css})>> \o AgiFiles(<<"realtime">>)
WebViews ==
  <<File(View("layout"), {Css, Script("ags-runtime")})>>
  \o Plain(<<View("home"), View("dashboard"), "templates/home.html", "templates/dashboard.html">>)
WebAssets ==
  Plain(<<Css>>) \o <<File("public/css/app.css", {Css})>> \o Plain(<<Script("ags-runtime")>>)
  \o <<File("public/js/app.js", {Script("ags-runtime")})>> \o Plain(<<"storage/.gitkeep">>)

\* _copy_vendor_runtime: the runtime is copied afresh into vendor/agilang.
Vendor == <<Rmtree("vendor/agilang")>> \o Plain(<<"vendor/agilang", "vendor/README.md">>)
\* write_shared_hosting_files: each entry point loads the app through the copied runtime.
HostingFiles ==
  <<File("public_html/.htaccess", {"public_html/app.cgi"})>>
  \o [i \in 1 .. 3 |-> File(<<"public_html/app.cgi", "public_html/app.fcgi", "passenger_wsgi.py">>[i],
                            {"src/main.agi", "vendor/agilang"})]
  \o Plain(<<"deployment/CPANEL_PLESK_CGI_FASTCGI.md">>)
TestsAndDocs ==
  <<File("tests/test_main.agi", {"src/main.agi"})>> \o Plain(<<"deployment/NGINX.md", "deployment/CADDY.md">>)
\* basic gets neither the runtime nor the hosting files.
ProjectTail(bundled) ==
  TestsAndDocs \o (IF bundled THEN Vendor \o HostingFiles ELSE <<>>) \o Plain(<<"README.md">>)

\* ---- smart_chain_scaffold.create_smart_chain_project, and the frontend of smart_chain_cli
ChainConfigs ==
  Json(<<"genesis", "network", "rpc", "beacon", "validators", "p2p", "security", "slashing", "performance", "readiness">>)
  \o <<File("config/chain-services.json",
            {"config/" \o c \o ".json" : c \in {"genesis", "rpc", "beacon", "validators", "p2p", "security", "slashing", "performance"}})>>
  \o Json(<<"metamask">>)
SmartChainFiles ==
  <<File("agilang.toml", ProjectEntry)>> \o Plain(<<".gitignore", ".env.example", ".env.production.example">>)
  \o ChainConfigs \o Json(<<"profiles/local", "profiles/production">>) \o Plain(<<"config/jwt.hex.example">>)
  \o AgiFiles(<<"main", "chain", "rpc", "devnet">>)
SmartChainScripts ==
  [i \in 1 .. 6 |-> File("scripts/" \o <<"run_chain", "run_validator", "run_p2p_node", "rpc_gate", "readiness",
                                         "monitor_resources">>[i] \o ".py",
                         IF i = 5 THEN {"config/chain-services.json", "config/genesis.json"} ELSE {})]
  \o [i \in 1 .. 3 |-> File("start-chain." \o <<"ps1", "cmd", "sh">>[i], {"config/chain-services.json"})]
  \o Plain(<<"README.md", "storage/.gitkeep">>)
  \o <<File("tests/test_smart_chain_scaffold.py", {"config/network.json", "config/chain-services.json", "vendor/agilang"})>>
Frontend ==
  <<Unless("frontend/api-contract.json")>> \o Plain(<<"frontend/api-contract.json">>)
  \o <<File("frontend/index.html", {"frontend/assets/dashboard.css", "frontend/assets/dashboard.js"})>>
  \o Plain(<<"frontend/assets/dashboard.css", "frontend/assets/dashboard.js", "frontend/README.md">>)

\* ---- blockchain_runtime_gateway.generate_blockchain_app
GatewaySources ==
  <<File("agilang.toml", ProjectEntry)>> \o Plain(<<".env.example", ".env.production.example", ".gitignore">>)
  \o AgiFiles(<<"main", "chain", "devnet", "staking", "rpc">>)
GatewayExplorer == <<File("src/explorer.agi", {View("home"), View("layout"), Css})>>
GatewayViews ==
  <<File(View("layout"), {Css, Script("blockchain-runtime")})>>
  \o Plain(<<View("home"), View("blockchain"), View("explorer"), View("validator"), Css, Script("blockchain-runtime")>>)
GatewayConfigs ==
  Json(<<"genesis", "validators", "rpc", "network", "ethereum-clients", "profiles/local", "profiles/production",
         "validators.internal", "validators.external.example", "metamask", "contracts.example", "wallets/wallets.example">>)
GatewayDocs ==
  Plain(<<"docs/PRODUCTION_ARCHITECTURE.md", "docs/VALIDATOR_WORKFLOW.md", "docs/METAMASK_CONTRACTS_RECEIPTS.md",
          "docs/METAMASK_SETUP.md", "docs/STORAGE_DURABILITY.md", "README.md">>)
\* copy_runtime_vendor, with the three entry points it writes at the root.
EntryPoints == [i \in 1 .. 3 |-> File(<<"run", "chain", "rpc">>[i] \o ".agi", {"src/" \o <<"main", "chain", "rpc">>[i] \o ".agi"})]
RuntimeVendor == <<Rmtree("vendor/agilang")>> \o Plain(<<"vendor/agilang">>) \o EntryPoints \o Plain(<<"vendor/README.md">>)

\* ---- ai_runtime_generator.generate_ai_runtime_app
Workflows == <<"dataset", "train", "infer", "cnn", "llm", "onnx", "gpu", "distributed", "benchmark", "transformer">>
AiEntries ==
  <<RemoveAll, File("agilang.toml", {}), File(".env.example", {}), File("run.agi", {"src/ai_runtime.agi"})>>
  \o [i \in 1 .. 10 |-> File(Workflows[i] \o ".agi", {"src/" \o Workflows[i] \o ".agi"})]
  \o Plain(<<"config/ai.agi", "routes/ai.agi", "app/controllers/AiController.agi">>)
AiWorkflows == AgiFiles(<<"ai_runtime">> \o Workflows) \o Plain(<<View("dashboard")>>) \o Json(<<"ai">>) \o Plain(<<"README.md">>)

\* ---- mobile_runtime.create_mobile_native_bridge --target both; cli._make_page
MobileHead == Plain(<<"README.md", "runtime/mobile-runtime.json">>)
AndroidBridge ==
  <<File("android/agilang-runtime/CMakeLists.txt", {"native/agilang_net_runtime.c"}),
    File("android/agilang-runtime/build.gradle", {"android/agilang-runtime/CMakeLists.txt"})>>
  \o Plain(<<"android/agilang-runtime/src/main/AndroidManifest.xml", "android/agilang-runtime/src/main/java/com/agilang/runtime/AgilangRuntimeModule.kt",
             "android/README.md">>)
IosBridge ==
  Plain(<<"ios/AgilangRuntimeBridge.swift", "ios/include/agilang_net_runtime.h", "ios/AgilangRuntime.podspec", "ios/README.md">>)
MobileTail == Plain(<<"native/agilang_net_runtime.c", "native/agilang_net_runtime.h", "src/agilangNativeRuntime.ts">>)
PageFiles == Plain(<<View("pricing")>>)

Scripts ==
  [basic      |-> ProjectHead \o BasicFiles \o ProjectTail(FALSE),
   ai         |-> ProjectHead \o AiSources \o AiViews \o AiRest \o ProjectTail(TRUE),
   systems    |-> ProjectHead \o SystemsFiles \o ProjectTail(TRUE),
   zk         |-> ProjectHead \o ZkFiles \o ProjectTail(TRUE),
   blockchain |-> ProjectHead \o ChainSources \o ChainViews \o ChainRest \o ProjectTail(TRUE),
   web        |-> ProjectHead \o WebSources \o WebViews \o WebAssets \o ProjectTail(TRUE),
   smartChain |-> SmartChainFiles \o SmartChainScripts \o Vendor,
   smartChainApp |-> SmartChainFiles \o SmartChainScripts \o Vendor \o Frontend,
   gateway    |-> GatewaySources \o GatewayExplorer \o GatewayViews \o GatewayConfigs \o GatewayDocs \o RuntimeVendor,
   aiRuntime  |-> AiEntries \o AiWorkflows \o RuntimeVendor,
   bridge     |-> MobileHead \o AndroidBridge \o IosBridge \o MobileTail,
   hosting    |-> HostingFiles,
   page       |-> PageFiles]
Kinds == DOMAIN Scripts

\* What a file needs, as the last step that writes it leaves it.
NeededBy ==
  [k \in Kinds |->
     [p \in {Scripts[k][i].path : i \in DOMAIN Scripts[k]} |->
        Scripts[k][CHOOSE i \in DOMAIN Scripts[k] :
                     /\ Scripts[k][i].path = p
                     /\ \A j \in DOMAIN Scripts[k] : Scripts[k][j].path = p => j <= i].needs]]

\* The files a template writes, and those that its steps before n have left.
WrittenBy(k) == {Scripts[k][i].path : i \in {j \in DOMAIN Scripts[k] : Scripts[k][j].op = "write"}}
Removes(step, p) == step.op = "clear" \/ (step.op = "remove" /\ step.path = p)
LeftBy(k, n) ==
  {p \in WrittenBy(k) :
     \E j \in DOMAIN Scripts[k] :
       /\ j < n /\ Scripts[k][j].op = "write" /\ Scripts[k][j].path = p
       /\ \A i \in DOMAIN Scripts[k] : j < i /\ i < n => ~Removes(Scripts[k][i], p)}
FrontendPaths == {Frontend[i].path : i \in DOMAIN Frontend}

\* What is no project of its own: `agi new` makes none of these.
Additions == {"page", "hosting", "bridge"}
ASSUME WorkspaceAssumption ==
  /\ Templates \subseteq Kinds \ Additions /\ Others \subseteq Additions
  /\ Vias \subseteq {"command", "smart", "scaffold"} /\ MaxDepth \in Nat \ {0} /\ MaxMakes \in Nat

\* The templates as they stand, read off the sequences above: what is written
\* or skipped is no longer removed, only the frontend can be skipped, a page is one
\* file, and what the files of a project need is among its files.
ASSUME TemplatesAssumption ==
  /\ \A k \in Kinds : Scripts[k] \in Seq({Scripts[k][i] : i \in DOMAIN Scripts[k]}) /\ Len(Scripts[k]) > 0
  /\ \A i \in DOMAIN Scripts.page : Scripts.page[i].op = "write" /\ Scripts.page[i].path = View("pricing")
  /\ \A k \in Kinds : \A i \in DOMAIN Scripts[k] :
       Scripts[k][i].op = "unless" =>
         \A j \in DOMAIN Scripts[k] : i < j => Scripts[k][j].op = "write" /\ Scripts[k][j].path \in FrontendPaths
  /\ \A k \in Kinds \ {"aiRuntime"} : WrittenBy(k) \subseteq LeftBy(k, Len(Scripts[k]) + 1)
  /\ \A k \in Kinds \ ({"aiRuntime"} \cup Additions) : \A p \in WrittenBy(k) \ FrontendPaths :
       NeededBy[k][p] \subseteq WrittenBy(k) \ FrontendPaths
-----------------------------------------------------------------------------
\* The commands: a template asked of a function, for the installed command as one word or two, or another command.
Makes ==
  {[what |-> "new", template |-> t, via |-> v, spaced |-> s, force |-> f] :
     t \in Templates, v \in Vias, s \in BOOLEAN, f \in BOOLEAN}
  \cup {[what |-> w, template |-> "none", via |-> "command", spaced |-> FALSE, force |-> f] : w \in Others, f \in BOOLEAN}

ChainTemplates == {"blockchain", "evm", "smart-chain", "smart_chain", "chain"}
Idle == [cmd |-> <<>>, kind |-> "page", at |-> 1, outcome |-> "none"]

WorkspaceInit == disk = <<>> /\ make = Idle /\ frame = [in |-> "none", depth |-> 0] /\ made = 0 /\ kept = {}

\* The exceptions at the head of the generators: FileExistsError.
Refuses(kind, force) ==
  CASE kind = "hosting" -> FALSE                                 \* --force is the default of its parser
    [] kind = "page" -> View("pricing") \in DOMAIN disk /\ ~force
    [] OTHER -> disk # <<>> /\ ~force

\* The generator `kind` begins to write, or refuses.
StartWriting(cmd, kind) ==
  make' = [cmd |-> cmd, kind |-> kind, at |-> 1,
           outcome |-> IF Refuses(kind, cmd.force) THEN "refused" ELSE "writing"]

\* cli_runtime._handle_new takes `--template ai` and `--template blockchain`, written as two words, for itself.
Intercepted(cmd) ==
  /\ cmd.what = "new" /\ cmd.via = "command" /\ cmd.spaced
  /\ cmd.template \in {"ai", "blockchain"}

\* A command is given: what is not a project to be made, or intercepted, goes to create_project.
Give(cmd) ==
  /\ make.outcome \notin {"writing", "calling"} /\ made < MaxMakes
  /\ cmd.via # "command" => ~cmd.spaced
  /\ made' = made + 1
  /\ IF cmd.what # "new" THEN StartWriting(cmd, cmd.what) /\ UNCHANGED frame
     ELSE IF Intercepted(cmd)
          THEN StartWriting(cmd, IF cmd.template = "ai" THEN "aiRuntime" ELSE "gateway") /\ UNCHANGED frame
          ELSE /\ frame' = [in |-> cmd.via, depth |-> 1]
               /\ make' = [cmd |-> cmd, kind |-> "page", at |-> 1, outcome |-> "calling"]
  /\ UNCHANGED <<disk, kept>>

\* scaffold.create_project as smart_chain_scaffold finds it: smart_chain_cli.main has put its own in its place.
LegacyCreate(via) == IF via = "command" THEN "command" ELSE "scaffold"

\* One call of a create_project: "command" is smart_chain_cli's, "smart" smart_chain_scaffold's, "scaffold" the first one.
CallCreate ==
  /\ make.outcome = "calling"
  /\ CASE frame.depth = MaxDepth -> make' = [make EXCEPT !.outcome = "RecursionError"] /\ UNCHANGED frame
       [] frame.depth < MaxDepth /\ frame.in = "scaffold" -> StartWriting(make.cmd, make.cmd.template) /\ UNCHANGED frame
       [] frame.depth < MaxDepth /\ frame.in = "command" ->
            frame' = [in |-> "smart", depth |-> frame.depth + 1] /\ UNCHANGED make
       [] frame.depth < MaxDepth /\ frame.in = "smart" ->
            IF make.cmd.template \in ChainTemplates
            THEN /\ StartWriting(make.cmd, IF make.cmd.via = "command" THEN "smartChainApp" ELSE "smartChain")
                 /\ UNCHANGED frame
            ELSE frame' = [in |-> LegacyCreate(make.cmd.via), depth |-> frame.depth + 1] /\ UNCHANGED make
  /\ UNCHANGED <<disk, made, kept>>

\* The step the command in progress is at, and how it goes on.
Step == Scripts[make.kind][make.at]
GoOn(n) ==
  make' = [make EXCEPT !.at = n, !.outcome = IF n > Len(Scripts[make.kind]) THEN "ok" ELSE "writing"]
Without(p) == [q \in DOMAIN disk \ {p} |-> disk[q]]
With(p, file) == [q \in DOMAIN disk \cup {p} |-> IF q = p THEN file ELSE disk[q]]
Forced == make.cmd.force \/ make.kind = "hosting"

\* _write: mkdir, write_text.
Write ==
  /\ make.outcome = "writing" /\ Step.op = "write"
  /\ disk' = With(Step.path, [kind |-> make.kind, whole |-> TRUE, mine |-> FALSE])
  /\ kept' = IF Forced THEN kept \ {Step.path} ELSE kept
  /\ GoOn(make.at + 1)
  /\ UNCHANGED <<frame, made>>

\* shutil.rmtree, of the copied runtime or of the whole project.
Clear ==
  /\ make.outcome = "writing" /\ Step.op \in {"remove", "clear"}
  /\ disk' = IF Step.op = "clear" THEN <<>> ELSE Without(Step.path)
  /\ kept' = IF ~Forced THEN kept ELSE IF Step.op = "clear" THEN {} ELSE kept \ {Step.path}
  /\ GoOn(make.at + 1)
  /\ UNCHANGED <<frame, made>>

\* smart_chain_cli writes the frontend unless its contract is there.
Skip ==
  /\ make.outcome = "writing" /\ Step.op = "unless"
  /\ GoOn(IF Step.path \in DOMAIN disk THEN Len(Scripts[make.kind]) + 1 ELSE make.at + 1)
  /\ UNCHANGED <<disk, frame, made, kept>>

\* The process is killed between opening a file and closing it.
Kill ==
  /\ make.outcome = "writing" /\ Step.op = "write" /\ Step.path \in CrashPaths
  /\ disk' = With(Step.path, [kind |-> make.kind, whole |-> FALSE, mine |-> FALSE])
  /\ kept' = IF Forced THEN kept \ {Step.path} ELSE kept
  /\ make' = [make EXCEPT !.outcome = "killed"]
  /\ UNCHANGED <<frame, made>>

\* The user edits a file between two commands.
Edit ==
  /\ make.outcome \notin {"writing", "calling"} /\ made < MaxMakes
  /\ \E p \in EditPaths \cap DOMAIN disk :
       /\ disk[p].whole /\ ~disk[p].mine
       /\ disk' = [disk EXCEPT ![p].mine = TRUE]
       /\ kept' = kept \cup {p}
  /\ UNCHANGED <<make, frame, made>>

WorkspaceNext == (\E cmd \in Makes : Give(cmd)) \/ CallCreate \/ Write \/ Clear \/ Skip \/ Kill \/ Edit
WorkspaceSpec == WorkspaceInit /\ [][WorkspaceNext]_workspaceVars
-----------------------------------------------------------------------------
\* A project made to the end can be used: whatever was in the directory
\* before, half-written or the user's own, each of its files is there and
\* whole, and so is what it imports, includes, renders, links or executes,
\* as the last command that wrote it left it.  Two projects are left out
\* (the README describes both): the AI runtime app, whose run.agi the runtime copied
\* in writes over with one that includes a file the app does not have, and the
\* frontend of a smart chain, which is not completed once its contract file
\* is there.
Made(p) == p \in DOMAIN disk /\ disk[p].whole
ProjectUsable ==
  make.outcome = "ok" /\ make.cmd.what = "new" /\ make.kind # "aiRuntime" =>
    \A p \in WrittenBy(make.kind) \ FrontendPaths :
      Made(p) /\ \A q \in NeededBy[make.kind][p] : Made(q)

\* What the user has edited is overwritten or removed by no command that was
\* not told to: not by a second `new` over what a killed one left, not by
\* make:page.  (hosting scaffold is always told to.)
EditsKept == \A p \in kept : p \in DOMAIN disk /\ disk[p].mine

\* "Create a new AGILANG project. Defaults to a full web starter."
\* (src/agilang/cli.py:1129): `agi new` makes it, or refuses the directory.
NewMakesProject == make.outcome # "RecursionError"
=============================================================================
