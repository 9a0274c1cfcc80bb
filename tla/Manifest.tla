------------------------------ MODULE Manifest ------------------------------
(***************************************************************************)
(* agilang.toml and agilang.lock as agilang/pkg.py keeps them: add, remove *)
(* and install read the manifest, write it (open truncates it first) and   *)
(* then the lock.  Commands of several processes overlap, and a command    *)
(* may be killed between two steps.                                        *)
(***************************************************************************)
EXTENDS Integers, FiniteSets

CONSTANTS Processes, Packages, MaxCommands      \* MaxCommands bounds the exploration

VARIABLES toml, lock, command, commands, asked, single
manifestVars == <<toml, lock, command, commands, asked, single>>
-----------------------------------------------------------------------------
\* A file has the keys of its project section and dependencies; a truncated one
\* neither.  write knows three keys; a project of agi new has a fourth.
WrittenKeys == {"name", "version", "entry"}
ProjectKeys == WrittenKeys \cup {"template"}
Truncated == [project |-> {}, deps |-> {}]
NoCommand == [pc |-> "none", name |-> "none", of |-> "none", manifest |-> Truncated]

ManifestInit ==
  /\ \/ toml = [project |-> WrittenKeys, deps |-> {}] /\ lock = toml            \* init_project
     \/ toml = [project |-> ProjectKeys, deps |-> {}] /\ lock = Truncated       \* agi new: no lock
  /\ command = [p \in Processes |-> NoCommand] /\ commands = 0
  /\ asked = {} /\ single \in BOOLEAN

Goes(p, c) == command' = [command EXCEPT ![p] = c]

Changed(name, m, k) ==
  CASE name = "add" -> [m EXCEPT !.deps = @ \cup {k}]
    [] name = "remove" -> [m EXCEPT !.deps = @ \ {k}]
    [] name = "install" -> m

\* Mutant of FirstStep: add and remove forget to write the manifest.
FirstStepLock(name) == "lock"

\* install leaves the manifest as it is
FirstStep(name) == IF name = "install" THEN "lock" ELSE "truncate"

\* load_manifest, and the change in memory
BeginCommand(p) ==
  /\ command[p].pc = "none" /\ commands < MaxCommands
  /\ single => \A q \in Processes : command[q].pc = "none"
  /\ commands' = commands + 1
  /\ \E name \in {"add", "remove", "install"}, k \in Packages :
       /\ Goes(p, [pc |-> FirstStep(name), name |-> name, of |-> k,
                 manifest |-> Changed(name, toml, k)])
       /\ asked' = IF name = "add" THEN asked \cup {k} ELSE asked
  /\ UNCHANGED <<toml, lock, single>>

\* write: the file is opened, then filled
Truncate(p) ==
  /\ command[p].pc = "truncate" /\ toml' = Truncated
  /\ Goes(p, [command[p] EXCEPT !.pc = "write"]) /\ UNCHANGED <<lock, commands, asked, single>>
WriteToml(p) ==
  /\ command[p].pc = "write"
  /\ toml' = [command[p].manifest EXCEPT !.project = @ \cap WrittenKeys]
  /\ Goes(p, [command[p] EXCEPT !.pc = "lock"]) /\ UNCHANGED <<lock, commands, asked, single>>

\* write_lock: the manifest in memory with all keys, not the one in the file
Locked(p) == command[p].manifest
WriteLock(p) ==
  /\ command[p].pc = "lock" /\ lock' = Locked(p)
  /\ Goes(p, NoCommand) /\ UNCHANGED <<toml, commands, asked, single>>

KillCommand(p) ==
  /\ command[p].pc # "none" /\ Goes(p, [NoCommand EXCEPT !.name = "killed"])
  /\ UNCHANGED <<toml, lock, commands, asked, single>>

ManifestNext == \E p \in Processes : BeginCommand(p) \/ Truncate(p) \/ WriteToml(p) \/ WriteLock(p) \/ KillCommand(p)
-----------------------------------------------------------------------------
\* The lock follows the manifest whenever a command has completed and none runs
\* beside it, whatever was killed before it (pkg.py:105-138): the dependencies
\* are the same, and so are the keys of the project, except that a manifest that
\* was written again has lost those that write does not know, which the lock
\* still has (pkg.py:40, :53).  After an install the two are the same.
Follows(l, m) == l.deps = m.deps /\ m.project \in {l.project, l.project \cap WrittenKeys}
LockMatches ==
  [][\A p \in Processes : single /\ WriteLock(p) =>
       Follows(lock, toml)' /\ (command[p].name = "install" => lock' = toml')]_manifestVars

\* Nothing is in either file that no add has put there.
NothingInvented == toml.deps \cup lock.deps \subseteq asked
=============================================================================
