------------------------------ MODULE Database ------------------------------
(***************************************************************************)
(* The active records of agilang/web.py (Model, QuerySet) over SQLite:     *)
(* each call is a transaction of its own, save writes all columns of the   *)
(* object, and a new row gets the greatest id plus one.                    *)
(***************************************************************************)
EXTENDS Integers, SequencesExt

CONSTANTS Sessions, Columns, Values, MaxId, MaxOrmCalls      \* MaxId and MaxOrmCalls bound the exploration

ASSUME OrmAssumption == MaxId \in Nat /\ MaxOrmCalls \in Nat

VARIABLES rows, object, saved, inserts, topDeleted, ormCalls
ormVars == <<rows, object, saved, inserts, topDeleted, ormCalls>>
-----------------------------------------------------------------------------
\* An object, id 0 when it was never saved; serial tells which insertion made
\* the row it stands for.
NoObject == [id |-> 0, serial |-> 0, data |-> <<>>]
NextId(r) == IF DOMAIN r = {} THEN 1 ELSE Max(DOMAIN r) + 1

OrmInit ==
  /\ rows = <<>> /\ object = [s \in Sessions |-> NoObject]
  /\ saved = {} /\ inserts = 0 /\ topDeleted = FALSE /\ ormCalls = 0

OrmCall == ormCalls < MaxOrmCalls /\ ormCalls' = ormCalls + 1

Make(s) ==
  /\ OrmCall
  /\ \E d \in [Columns -> Values] : object' = [object EXCEPT ![s] = [NoObject EXCEPT !.data = d]]
  /\ UNCHANGED <<rows, saved, inserts, topDeleted>>

GetObject(s) ==
  /\ OrmCall
  /\ \E i \in DOMAIN rows :
       object' = [object EXCEPT ![s] = [id |-> i, serial |-> rows[i].serial, data |-> rows[i].data]]
  /\ UNCHANGED <<rows, saved, inserts, topDeleted>>

SetColumn(s) ==
  /\ object[s] # NoObject /\ OrmCall
  /\ \E c \in Columns, v \in Values : object' = [object EXCEPT ![s].data[c] = v]
  /\ UNCHANGED <<rows, saved, inserts, topDeleted>>

Insert(s) ==
  LET i == NextId(rows) IN
  /\ object[s] # NoObject /\ object[s].id = 0 /\ i <= MaxId /\ OrmCall
  /\ inserts' = inserts + 1
  /\ rows' = [j \in DOMAIN rows \cup {i} |->
                IF j = i THEN [serial |-> inserts', data |-> object[s].data] ELSE rows[j]]
  /\ object' = [object EXCEPT ![s].id = i, ![s].serial = inserts']
  /\ saved' = saved \cup {<<i, object[s].data>>}
  /\ UNCHANGED topDeleted

\* the columns an UPDATE sets: all of them
Written(row, data) == data
Update(s) ==
  LET o == object[s] IN
  /\ o.id # 0 /\ OrmCall
  /\ rows' = [i \in DOMAIN rows |-> IF i = o.id THEN [rows[i] EXCEPT !.data = Written(@, o.data)] ELSE rows[i]]
  /\ saved' = saved \cup {<<o.id, o.data>>}
  /\ UNCHANGED <<object, inserts, topDeleted>>

Delete(s) ==
  LET o == object[s] IN
  /\ o.id # 0 /\ OrmCall
  /\ rows' = Restrict(rows, DOMAIN rows \ {o.id})
  /\ topDeleted' = (topDeleted \/ (o.id \in DOMAIN rows /\ o.id + 1 = NextId(rows)))
  /\ UNCHANGED <<object, saved, inserts>>

OrmNext == \E s \in Sessions : Make(s) \/ GetObject(s) \/ SetColumn(s) \/ Insert(s) \/ Update(s) \/ Delete(s)
-----------------------------------------------------------------------------
\* A row is as one object was when it was saved under that id: two objects of
\* one row never mix their columns, though the later save puts back what the
\* other had changed (web.py:957-963).
RowsWhole == \A i \in DOMAIN rows : <<i, rows[i].data>> \in saved

\* As long as no newest row is deleted, an object stands for the row it was read
\* from or written to, or for none: its id never becomes a stranger's
\* (web.py:964-970).
SameRow ==
  ~topDeleted => \A s \in Sessions : object[s].id \in DOMAIN rows => rows[object[s].id].serial = object[s].serial
-----------------------------------------------------------------------------
(***************************************************************************)
(* MigrationManager.run in several processes on one database file.  A      *)
(* migration runs with commits of its own and is recorded in another one;  *)
(* the name is the primary key of the record.                              *)
(***************************************************************************)

CONSTANTS
  Procs,        \* processes that run the migrations when they start
  MigrationList,         \* the migrations, in order
  Faulty,       \* migrations that may raise
  MaxAttempts   \* bound: runs begun by each process

MigrationNames == {MigrationList[i] : i \in DOMAIN MigrationList}

ASSUME MigrationAssumption ==
  /\ MigrationList \in Seq(MigrationNames)
  /\ \A i, j \in DOMAIN MigrationList : MigrationList[i] = MigrationList[j] => i = j
  /\ Faulty \subseteq MigrationNames
  /\ MaxAttempts \in Nat

VARIABLES
  recorded,     \* table agilang_migrations
  effects,      \* how often the function of each migration has had an effect
  proc,
  attempts

migrationVars == <<recorded, effects, proc, attempts>>

Away == [at |-> "away", i |-> 0]

MigrationInit ==
  /\ recorded = {}
  /\ effects = [m \in MigrationNames |-> 0]
  /\ proc = [p \in Procs |-> Away]
  /\ attempts = [p \in Procs |-> 0]
-----------------------------------------------------------------------------
Current(p) == MigrationList[proc[p].i]

Begin(p) ==
  /\ proc[p] = Away
  /\ attempts[p] < MaxAttempts
  /\ attempts' = [attempts EXCEPT ![p] = @ + 1]
  /\ proc' = [proc EXCEPT ![p] = [at |-> "ask", i |-> 1]]
  /\ UNCHANGED <<recorded, effects>>

RunReturns(p) ==
  /\ proc[p].at = "ask"
  /\ proc[p].i > Len(MigrationList)
  /\ proc' = [proc EXCEPT ![p] = Away]
  /\ UNCHANGED <<recorded, effects, attempts>>

\* name in self.applied()
Known(p) == Current(p) \in recorded

AskApplied(p) ==
  /\ proc[p].at = "ask"
  /\ proc[p].i <= Len(MigrationList)
  /\ proc' = IF Known(p) THEN [proc EXCEPT ![p].i = @ + 1] ELSE [proc EXCEPT ![p].at = "run"]
  /\ UNCHANGED <<recorded, effects, attempts>>

\* fn(self.db)
Run(p) ==
  /\ proc[p].at = "run"
  /\ effects' = [effects EXCEPT ![Current(p)] = @ + 1]
  /\ proc' = [proc EXCEPT ![p].at = "record"]
  /\ UNCHANGED <<recorded, attempts>>

AfterRaise(p) == [proc EXCEPT ![p] = Away]

\* the exception of a migration, after its first effect or before it, ends run
Raise(p) ==
  /\ proc[p].at = "run" /\ Current(p) \in Faulty
  /\ \E done \in 0 .. 1 : effects' = [effects EXCEPT ![Current(p)] = @ + done]
  /\ proc' = AfterRaise(p)
  /\ UNCHANGED <<recorded, attempts>>

\* INSERT: a second record of a name raises IntegrityError, which ends run
Record(p) ==
  /\ proc[p].at = "record"
  /\ recorded' = recorded \cup {Current(p)}
  /\ proc' = [proc EXCEPT ![p] = IF Current(p) \in recorded
                                 THEN Away ELSE [at |-> "ask", i |-> @.i + 1]]
  /\ UNCHANGED <<effects, attempts>>

\* the process is killed; it may be started again
Kill(p) ==
  /\ proc[p] # Away
  /\ proc' = [proc EXCEPT ![p] = Away]
  /\ UNCHANGED <<recorded, effects, attempts>>

MigrationNext ==
  \E p \in Procs : Begin(p) \/ RunReturns(p) \/ AskApplied(p) \/ Run(p) \/ Raise(p)
                     \/ Record(p) \/ Kill(p)

MigrationSpec == MigrationInit /\ [][MigrationNext]_migrationVars
-----------------------------------------------------------------------------
MigrationTypeOK ==
  /\ recorded \subseteq MigrationNames
  /\ effects \in [MigrationNames -> Nat]
  /\ \A p \in Procs : /\ proc[p].at \in {"away", "ask", "run", "record"}
                       /\ proc[p].i \in 0 .. Len(MigrationList) + 1
                       /\ attempts[p] \in 0 .. MaxAttempts

\* However many processes run the list, are killed in the middle of it or fail:
\* a migration has an effect only when all those before it are recorded, and
\* is recorded only when it has had one.
InOrder ==
  \A i \in DOMAIN MigrationList :
    /\ effects[MigrationList[i]] > 0 => \A j \in 1 .. i - 1 : MigrationList[j] \in recorded
    /\ MigrationList[i] \in recorded => effects[MigrationList[i]] > 0

\* recorded, and nobody is left who found it missing before
Settled(m) ==
  /\ m \in recorded
  /\ \A p \in Procs : proc[p].at \in {"run", "record"} => Current(p) # m

\* A migration may well run twice, when processes overlap or one is killed
\* before the record; but once settled it stays so and has no effect again,
\* whoever runs the list.
SettledStays ==
  [][\A m \in MigrationNames : Settled(m) => Settled(m)' /\ effects'[m] = effects[m]]_migrationVars
\* Migrations take effect in their order, and once settled never again.
MigrationsSettle == [](MigrationTypeOK /\ InOrder) /\ SettledStays
-----------------------------------------------------------------------------
(***************************************************************************)
(* agi db: migrations as files of SQL, run by processes that each have a   *)
(* connection to MySQL.  There a statement on the schema commits what its  *)
(* connection has pending, waits for those with rows pending in its table, *)
(* and is not undone by a rollback.                                        *)
(***************************************************************************)

CONSTANTS
  Migrators,
  SqlOf,        \* the text of each kind of file, as a sequence of tokens
  Meaning,      \* of a token: the verb, table and column of the statement it begins
  ComesAfter,        \* the kinds that are written before each kind; each is written once
  NameRank,     \* the order of the kinds of one second, by name
  TableOrder,   \* the tables in the order of SHOW TABLES
  MaxSqlRuns, MaxFiles      \* bounds

VARIABLES
  second,       \* of the clock
  files,        \* database/migrations: [second, kind]
  schema,       \* the columns of each table
  kept,         \* agilang_migrations, as committed
  sown,         \* files whose rows are committed
  migrator,         \* of each process: where it is, the files it has still to run, the
                \* statement of the first, what it has pending, the tables to drop
  sqlRuns,
  disturbed,    \* has a run been killed or overlapped?
  dropping,     \* "now" from where a refresh begins to drop to where one ends that;
                \* "mixed" once another run was under way meanwhile
  failed        \* has a run failed?

sqlVars == <<second, files, schema, kept, sown, migrator, sqlRuns, disturbed, dropping, failed>>

Closes(token, quoted) == token = ";" /\ ~quoted

\* _split_sql: statements end at the semicolons outside of quotes.
SplitSql(text) ==
  LET next(acc, token) ==
        IF Closes(token, acc.quoted)
        THEN [acc EXCEPT !.current = <<>>,
                         !.all = IF acc.current = <<>> THEN @ ELSE Append(@, acc.current)]
        ELSE [acc EXCEPT !.current = Append(@, token), !.quoted = (@ # (token = "'"))]
      end == FoldLeft(next, [all |-> <<>>, current |-> <<>>, quoted |-> FALSE], text)
  IN  IF end.current = <<>> THEN end.all ELSE Append(end.all, end.current)

Statements == [k \in DOMAIN SqlOf |-> SplitSql(SqlOf[k])]

Unconnected == [at |-> "away", todo |-> <<>>, k |-> 1, records |-> <<>>, rows |-> {}, tables |-> <<>>]

SqlInit ==
  /\ second = 0 /\ files = {} /\ schema = <<>> /\ kept = <<>> /\ sown = {}
  /\ migrator = [p \in Migrators |-> Unconnected] /\ sqlRuns = 0
  /\ disturbed = FALSE /\ dropping = "no" /\ failed = FALSE

Quiet == \A p \in Migrators : migrator[p] = Unconnected

\* _db_table, or a file written by hand; the name has the second.
WriteFile(kind) ==
  /\ Quiet /\ Cardinality(files) < MaxFiles /\ sqlRuns < MaxSqlRuns
  /\ kind \notin {f.kind : f \in files} /\ ComesAfter[kind] \subseteq {f.kind : f \in files}
  /\ files' = files \cup {[second |-> second, kind |-> kind]}
  /\ \E d \in {0, 1} : second' = second + d
  /\ UNCHANGED <<schema, kept, sown, migrator, sqlRuns, disturbed, dropping, failed>>

Sorted(S) ==
  SetToSortSeq(S, LAMBDA f, g : f.second < g.second \/ (f.second = g.second /\ NameRank[f.kind] < NameRank[g.kind]))

\* _mysql_connect and, for refresh, SHOW TABLES
ConnectMySQL(p, refresh) ==
  /\ migrator[p].at = "away" /\ sqlRuns < MaxSqlRuns /\ files # {}
  /\ sqlRuns' = sqlRuns + 1
  /\ migrator' = [migrator EXCEPT ![p].at = IF refresh THEN "drop" ELSE "read",
                          ![p].tables = IF refresh THEN SelectSeq(TableOrder, LAMBDA t : t = "agilang_migrations" \/ t \in DOMAIN schema) ELSE <<>>]
  /\ dropping' = IF dropping = "mixed" \/ (~Quiet /\ (refresh \/ dropping = "now")) THEN "mixed"
                  ELSE IF refresh THEN "now" ELSE dropping
  /\ disturbed' = (disturbed \/ ~Quiet)
  /\ UNCHANGED <<second, files, schema, kept, sown, failed>>

\* The file and the statement that a connection is at.
sqlFile(p) == Head(migrator[p].todo)
sql(p) == Statements[sqlFile(p).kind]
Statement(p) == Meaning[Head(sql(p)[migrator[p].k])]

InFile(p) == migrator[p].at = "run" /\ migrator[p].todo # <<>>

\* statements on the schema, which first commit
Alters(m) == m.verb \in {"create", "add", "drop column"}

\* Has it read the records, or written some, since its last commit?
HoldsRecords(p) ==
  /\ migrator[p].at = "run"
  /\ \/ migrator[p].records # <<>> \/ migrator[p].todo = <<>>
     \/ \A i \in 1 .. migrator[p].k - 1 : ~Alters(Meaning[Head(sql(p)[i])])

\* Does another connection have rows pending in the table, or read it?
Waits(p, t) ==
  \E q \in Migrators \ {p} :
    IF t = "agilang_migrations" THEN HoldsRecords(q)
    ELSE \E f \in migrator[q].rows : \E st \in ToSet(Statements[f.kind]) : Meaning[Head(st)].table = t

DropTable(p) ==
  /\ migrator[p].at = "drop" /\ migrator[p].tables # <<>>
  /\ \E t \in {Head(migrator[p].tables)} :
       /\ ~Waits(p, t)
       /\ schema' = Restrict(schema, DOMAIN schema \ {t})
       /\ kept' = IF t = "agilang_migrations" THEN <<>> ELSE kept
  /\ sown' = {f \in sown : \A st \in ToSet(Statements[f.kind]) : Meaning[Head(st)].table \in DOMAIN schema'}
  /\ migrator' = [migrator EXCEPT ![p].tables = Tail(@)]
  /\ UNCHANGED <<second, files, sqlRuns, disturbed, dropping, failed>>

Refreshed(p) ==
  /\ migrator[p].at = "drop" /\ migrator[p].tables = <<>>
  /\ migrator' = [migrator EXCEPT ![p].at = "read"]
  /\ dropping' = IF dropping = "now" THEN "no" ELSE dropping
  /\ UNCHANGED <<second, files, schema, kept, sown, sqlRuns, disturbed, failed>>

\* the files that are not recorded, once
ReadKept(p) ==
  /\ migrator[p].at = "read"
  /\ \E todo \in {Sorted(files \ ToSet(kept))} :
       migrator' = [migrator EXCEPT ![p] = IF todo = <<>> THEN Unconnected ELSE [@ EXCEPT !.at = "run", !.todo = todo]]
  /\ UNCHANGED <<second, files, schema, kept, sown, sqlRuns, disturbed, dropping, failed>>

\* A schema after a statement on it, and whether the statement fails.
Altered(sch, m) ==
  CASE m.verb = "create" -> IF m.table \in DOMAIN sch THEN sch ELSE (m.table :> {"id"}) @@ sch
    [] m.verb = "add" -> [sch EXCEPT ![m.table] = @ \cup {m.column}]
    [] m.verb = "drop column" -> [sch EXCEPT ![m.table] = @ \ {m.column}]
    [] OTHER -> sch
Errs(sch, m) ==
  ~ CASE m.verb = "create" -> TRUE
      [] m.verb = "add" -> m.table \in DOMAIN sch /\ m.column \notin sch[m.table]
      [] m.verb = "drop column" -> m.table \in DOMAIN sch /\ m.column \in sch[m.table]
      [] m.verb = "insert" -> m.table \in DOMAIN sch
      [] OTHER -> FALSE

Pending(p) == kept' = kept \o migrator[p].records /\ sown' = sown \cup migrator[p].rows

\* a statement on the schema, which first commits
Alter(p) ==
  /\ InFile(p) /\ migrator[p].k <= Len(sql(p)) /\ Alters(Statement(p)) /\ ~Errs(schema, Statement(p))
  /\ ~Waits(p, Statement(p).table)
  /\ Pending(p)
  /\ schema' = Altered(schema, Statement(p))
  /\ migrator' = [migrator EXCEPT ![p].k = @ + 1, ![p].records = <<>>, ![p].rows = {}]
  /\ UNCHANGED <<second, files, sqlRuns, disturbed, dropping, failed>>

InsertRows(p) ==
  /\ InFile(p) /\ migrator[p].k <= Len(sql(p)) /\ Statement(p).verb = "insert" /\ ~Errs(schema, Statement(p))
  /\ migrator' = [migrator EXCEPT ![p].k = @ + 1, ![p].rows = @ \cup {sqlFile(p)}]
  /\ UNCHANGED <<second, files, schema, kept, sown, sqlRuns, disturbed, dropping, failed>>

\* conn.rollback() and the exception; a statement on the schema that fails has
\* committed before.
StatementFails(p) ==
  /\ InFile(p) /\ migrator[p].k <= Len(sql(p)) /\ Errs(schema, Statement(p))
  /\ IF Alters(Statement(p)) THEN Pending(p) ELSE UNCHANGED <<kept, sown>>
  /\ migrator' = [migrator EXCEPT ![p] = Unconnected] /\ failed' = TRUE
  /\ UNCHANGED <<second, files, schema, sqlRuns, disturbed, dropping>>

\* INSERT INTO agilang_migrations: the name is unique, also against records that
\* others have pending, for which it waits.
RowLocked(p) == \E q \in Migrators \ {p} : sqlFile(p) \in ToSet(migrator[q].records)

RecordFile(p) ==
  /\ InFile(p) /\ migrator[p].k > Len(sql(p)) /\ ~RowLocked(p)
  /\ IF sqlFile(p) \in ToSet(kept)
     THEN migrator' = [migrator EXCEPT ![p] = Unconnected] /\ failed' = TRUE
     ELSE /\ migrator' = [migrator EXCEPT ![p].records = Append(@, sqlFile(p)), ![p].todo = Tail(@), ![p].k = 1]
          /\ UNCHANGED failed
  /\ UNCHANGED <<second, files, schema, kept, sown, sqlRuns, disturbed, dropping>>

CommitAll(p) ==
  /\ migrator[p].at = "run" /\ migrator[p].todo = <<>>
  /\ Pending(p)
  /\ migrator' = [migrator EXCEPT ![p] = Unconnected]
  /\ UNCHANGED <<second, files, schema, sqlRuns, disturbed, dropping, failed>>

\* The process is killed, or its connection breaks, or a lock is waited for too long.
Breaks(p) ==
  /\ migrator[p].at # "away"
  /\ migrator' = [migrator EXCEPT ![p] = Unconnected] /\ disturbed' = TRUE
  /\ UNCHANGED <<second, files, schema, kept, sown, sqlRuns, dropping, failed>>

SqlNext ==
  \/ \E kind \in DOMAIN SqlOf : WriteFile(kind)
  \/ \E p \in Migrators :
       \/ \E refresh \in BOOLEAN : ConnectMySQL(p, refresh)
       \/ DropTable(p) \/ Refreshed(p) \/ ReadKept(p) \/ Alter(p) \/ InsertRows(p)
       \/ StatementFails(p) \/ RecordFile(p) \/ CommitAll(p) \/ Breaks(p)

SqlSpec == SqlInit /\ [][SqlNext]_sqlVars
-----------------------------------------------------------------------------
\* The schema that statements make of an empty database.
Replayed(statements) ==
  FoldLeft(LAMBDA sch, st : IF Errs(sch, Meaning[Head(st)]) THEN sch ELSE Altered(sch, Meaning[Head(st)]), <<>>, statements)
OfFiles(fs) == FlattenSeq([i \in DOMAIN fs |-> Statements[fs[i].kind]])

\* Whatever is killed, fails or overlaps, unless a refresh was cut short: the
\* schema is that of the recorded files in the order of their records, with at
\* most the first statements of one more.  Rows of a file that does nothing else
\* are there exactly when it is recorded, and no file is recorded twice.  A run
\* of files of different seconds that nothing disturbs does not fail.
OneSecond == \E f, g \in files : f # g /\ f.second = g.second
SchemaFollowsRecords ==
  /\ dropping = "no" /\ files # {} /\ ~OneSecond =>
       \E f \in files : \E n \in 0 .. Len(Statements[f.kind]) :
         schema = Replayed(OfFiles(kept) \o SubSeq(Statements[f.kind], 1, n))
  /\ \A f \in files :
       (dropping = "no" /\ \A st \in ToSet(Statements[f.kind]) : Meaning[Head(st)].verb = "insert") =>
         (f \in sown <=> f \in ToSet(kept))
  /\ Cardinality(ToSet(kept)) = Len(kept)
  /\ failed => disturbed \/ OneSecond
=============================================================================
