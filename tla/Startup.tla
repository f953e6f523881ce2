------------------------------- MODULE Startup -------------------------------
(***************************************************************************)
(* Processes that start on one database: each of them applies the ordered  *)
(* migrations, and the import command then copies the reviews of a legacy  *)
(* file in one transaction.  Servers, workers and commands all migrate,    *)
(* without a lock that would keep them apart, and any of them may be       *)
(* interrupted and started again.  PostgreSQL takes the changes of a       *)
(* schema back with their transaction; SQLite keeps them.                  *)
(***************************************************************************)
EXTENDS Integers, Sequences, FiniteSets

CONSTANTS
  Processes,
  Importers,      \* the processes that run the import command
  LegacyFiles,    \* sequences of legacy reviews [place, sound]
  MaxCrashes,
  MaxImports      \* how often the import command is run

ASSUME StartupAssumption == Importers \subseteq Processes

VARIABLES
  transactional,  \* whether schema changes belong to the transaction
  schema,         \* the objects that exist
  ledger,         \* schema_migrations
  step,           \* how far each process is
  version,        \* the migration it is at
  missing,        \* the objects it has seen missing
  unknown,        \* the legacy rows it has seen missing
  legacy,         \* the legacy file
  reviews,        \* reviews with a request key: [key, author, place]
  origin,         \* whether the legacy institution and author exist
  crashes,
  imports         \* how often the command was started, and its last outcome

database == <<schema, ledger>>
data == <<reviews, origin, imports>>

vars == <<transactional, database, step, version, missing, unknown, legacy, data, crashes>>

\* The ledger, the table of the tasks with its new column and its index, and the
\* tables that are created before it.
Objects == {"ledger", "tables", "tasks", "attempts", "index"}
Versions == 1..2          \* MIGRATIONS

At(p, where) == step[p] = where

Goto(p, where, number, objects) ==
  /\ step' = [step EXCEPT ![p] = where]
  /\ version' = [version EXCEPT ![p] = number]
  /\ missing' = [missing EXCEPT ![p] = objects]
  /\ unknown' = [unknown EXCEPT ![p] = {}]

\* A new database, or one that the first release has left.  The file may be
\* imported where a client already used a key of the form legacy:1.
Init ==
  /\ transactional \in BOOLEAN
  /\ \/ schema = {} /\ ledger = {} /\ reviews = {}
     \/ /\ schema = {"ledger", "tables", "tasks", "index"} /\ ledger = {1}
        /\ reviews \in {{}, {[key |-> 1, author |-> "client", place |-> "elsewhere"]}}
  /\ step = [p \in Processes |-> "start"]
  /\ version = [p \in Processes |-> 0]
  /\ missing = [p \in Processes |-> {}]
  /\ unknown = [p \in Processes |-> {}]
  /\ legacy \in LegacyFiles
  /\ origin = FALSE
  /\ crashes = 0
  /\ imports = [started |-> 0, outcome |-> "none"]

\* --------------------------------------------------------------- migration

\* create_all for the ledger looks first ...
LookForLedger(p) ==
  /\ At(p, "start")
  /\ Goto(p, "ledger", 0, {"ledger"} \ schema)
  /\ UNCHANGED <<transactional, database, legacy, data, crashes>>

\* ... and fails when the table has appeared meanwhile.
CreateLedger(p) ==
  /\ At(p, "ledger")
  /\ IF missing[p] \cap schema # {} THEN Goto(p, "dead", 0, {}) /\ UNCHANGED schema
     ELSE schema' = schema \cup missing[p] /\ Goto(p, "check", 1, {})
  /\ UNCHANGED <<transactional, ledger, legacy, data, crashes>>

\* After the last version comes the work of the process itself.
After(p, number) ==
  IF number = 2 THEN Goto(p, "ready", 2, {}) ELSE Goto(p, "check", number + 1, {})

CheckVersion(p) ==
  /\ At(p, "check")
  /\ IF version[p] \in ledger THEN After(p, version[p])
     ELSE Goto(p, "inspect", version[p], {})
  /\ UNCHANGED <<transactional, database, legacy, data, crashes>>

\* Plausible bugs: a migration is applied without a look at what is there, or
\* the second one is taken to be part of the first.
MissingBlindly(number) ==
  IF number = 1 THEN {"tables", "tasks", "attempts", "index"} ELSE {"attempts"}

MissingFirstOnly(number) ==
  IF number = 1 /\ "tables" \notin schema THEN {"tables", "tasks", "attempts", "index"} ELSE {}

\* What _apply_migration finds missing.  The tables are created as the current
\* models describe them, with the column that the second version would add.  An
\* index is not looked for: it is created after its table, if that was missing.
Missing(number) ==
  IF number = 2 THEN {"attempts"} \ schema
  ELSE ({"tables"} \ schema)
         \cup IF "tasks" \in schema THEN {} ELSE {"tasks", "attempts", "index"}

Inspect(p) ==
  /\ At(p, "inspect")
  /\ Goto(p, "apply", version[p], Missing(version[p]))
  /\ UNCHANGED <<transactional, database, legacy, data, crashes>>

\* Another process holds changes that are not committed: the statement waits.
Held(p) ==
  /\ transactional
  /\ \E q \in Processes \ {p} : At(q, "record") /\ missing[q] \cap missing[p] # {}

\* What the next statement creates: a table comes with its columns.
Statement(objects) ==
  IF "tables" \in objects THEN {"tables"}
  ELSE IF objects \ {"index"} # {} THEN objects \ {"index"} ELSE objects

\* PostgreSQL keeps all statements for the commit; with SQLite each is kept at
\* once, and others may come in between.
Apply(p) ==
  LET now == IF transactional THEN missing[p] ELSE Statement(missing[p])
      later == missing[p] \ now
  IN  /\ At(p, "apply") /\ ~Held(p)
      /\ IF now \cap schema # {} THEN Goto(p, "dead", 0, {}) /\ UNCHANGED schema
         ELSE IF transactional THEN Goto(p, "record", version[p], now) /\ UNCHANGED schema
         ELSE /\ schema' = schema \cup now
              /\ Goto(p, IF later = {} THEN "record" ELSE "apply", version[p], later)
      /\ UNCHANGED <<transactional, ledger, legacy, data, crashes>>

\* The row of the ledger and the commit.
Record(p) ==
  /\ At(p, "record")
  /\ IF version[p] \in ledger THEN Goto(p, "dead", 0, {}) /\ UNCHANGED database
     ELSE /\ ledger' = ledger \cup {version[p]}
          /\ schema' = schema \cup missing[p]
          /\ After(p, version[p])
  /\ UNCHANGED <<transactional, legacy, data, crashes>>

\* ------------------------------------------------------------------ import

Key(n) == n                 \* legacy:<id>
Present == {r.key : r \in reviews}
NewRow(n) == [key |-> Key(n), author |-> "unknown", place |-> legacy[n].place]

Finish(p, outcome) ==
  /\ Goto(p, "ended", 2, {})
  /\ imports' = [imports EXCEPT !.outcome = outcome]

\* inspect_legacy refuses the whole file for one row that is not sound.
ImportInspect(p) ==
  /\ p \in Importers /\ At(p, "ready") /\ imports.started < MaxImports
  /\ IF \E n \in DOMAIN legacy : ~legacy[n].sound
     THEN /\ Goto(p, "ended", 2, {})
          /\ imports' = [started |-> imports.started + 1, outcome |-> "refused"]
     ELSE /\ Goto(p, "import", 2, {})
          /\ imports' = [started |-> imports.started + 1, outcome |-> "none"]
  /\ UNCHANGED <<transactional, database, legacy, reviews, origin, crashes>>

\* A plausible bug: a row is known by its place instead of its key.
UnknownRowsByPlace ==
  {n \in DOMAIN legacy : ~\E m \in DOMAIN legacy : m < n /\ legacy[m].place = legacy[n].place}

\* The rows that are not there yet.
UnknownRows == {n \in DOMAIN legacy : Key(n) \notin Present}

ImportRead(p) ==
  /\ At(p, "import")
  /\ step' = [step EXCEPT ![p] = IF origin THEN "insert" ELSE "insert_all"]
  /\ unknown' = [unknown EXCEPT ![p] = UnknownRows]
  /\ UNCHANGED <<version, missing, transactional, database, legacy, data, crashes>>

\* All legacy reviews have one author: two of them may want one place.
Collides(rows) ==
  \/ \E n \in rows : Key(n) \in Present
  \/ \E n \in rows, m \in rows : n # m /\ legacy[n].place = legacy[m].place
  \/ \E n \in rows : \E r \in reviews : r.author = "unknown" /\ r.place = legacy[n].place

\* One transaction inserts what was missing, or nothing.
ImportCommit(p) ==
  /\ step[p] \in {"insert", "insert_all"}
  /\ IF Collides(unknown[p]) \/ (At(p, "insert_all") /\ origin)
     THEN Finish(p, "failed") /\ UNCHANGED <<reviews, origin>>
     ELSE /\ reviews' = reviews \cup {NewRow(n) : n \in unknown[p]}
          /\ origin' = TRUE
          /\ Finish(p, "imported")
  /\ UNCHANGED <<transactional, database, legacy, crashes>>

\* ------------------------------------------------------ crashes and restarts

\* A crash anywhere loses what was not committed.
Crash(p) ==
  /\ crashes < MaxCrashes /\ step[p] \notin {"dead", "ready", "ended"}
  /\ crashes' = crashes + 1
  /\ Goto(p, "dead", 0, {})
  /\ UNCHANGED <<transactional, database, legacy, data>>

\* A process that ended with an error is started again.
Restart(p) ==
  /\ At(p, "dead")
  /\ Goto(p, "start", 0, {})
  /\ UNCHANGED <<transactional, database, legacy, data, crashes>>

\* The import command is run again.
Rerun(p) ==
  /\ At(p, "ended") /\ imports.started < MaxImports
  /\ Goto(p, "start", 0, {})
  /\ UNCHANGED <<transactional, database, legacy, data, crashes>>

Migrate(p) ==
  LookForLedger(p) \/ CreateLedger(p) \/ CheckVersion(p) \/ Inspect(p) \/ Apply(p) \/ Record(p)

Import(p) == ImportInspect(p) \/ ImportRead(p) \/ ImportCommit(p)

Next == \E p \in Processes : Migrate(p) \/ Import(p) \/ Crash(p) \/ Restart(p) \/ Rerun(p)

\* A process runs on, and one that died is started again.
Fairness == \A p \in Processes : WF_vars(Migrate(p) \/ Import(p)) /\ WF_vars(Restart(p))

FairSpec == Init /\ [][Next]_vars /\ Fairness

\* ------------------------------------------------------------ properties

Upgraded(p) == step[p] \in {"ready", "import", "insert", "insert_all", "ended"}

\* db/migrate.py: the tables and columns of what the ledger says was applied are
\* there, and a process whose upgrade returned works on the newest schema,
\* whoever applied it and whatever was interrupted.  An index is not promised:
\* one that a crash on SQLite kept from being created stays missing.
LedgerIsTrue ==
  /\ 1 \in ledger => {"tables", "tasks"} \subseteq schema
  /\ 2 \in ledger => "attempts" \in schema
  /\ \A p \in Processes : Upgraded(p) => ledger = Versions

\* db/migrate.py: an upgrade that was interrupted or that lost a race can be
\* repeated: every process gets past it, also where SQLite has kept half of a
\* migration.
EveryoneStarts == \A p \in Processes : <>Upgraded(p)

ImportedRows == {r \in reviews : r.author = "unknown"}

\* Two reviews of the unknown author never share a course and a term.
OnePerPlace ==
  \A r, s \in ImportedRows : r # s => r.place # s.place

\* db/legacy.py: an import stores all rows that no client's key hides, or none,
\* each of them once and in a place of its own; no interruption and no second
\* import leaves a part or a duplicate, and an import that says it is done has
\* left a review under the key of every row.
ImportWhole ==
  /\ \/ ImportedRows = {}
     \/ ImportedRows = {NewRow(n) : n \in {m \in DOMAIN legacy :
                          ~\E r \in reviews : r.author = "client" /\ r.key = Key(m)}}
  /\ imports.outcome = "imported" => \A n \in DOMAIN legacy : Key(n) \in Present
  /\ OnePerPlace
=============================================================================
