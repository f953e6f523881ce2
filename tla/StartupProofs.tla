---------------------------- MODULE StartupProofs ----------------------------
(***************************************************************************)
(* Migration and import for any processes, files, crashes and repetitions. *)
(***************************************************************************)
EXTENDS Startup, TLAPS

Steps == {"start", "ledger", "check", "inspect", "apply", "record", "ready",
          "import", "insert", "insert_all", "ended", "dead"}

\* Type correctness of what the migrations work with.
MigrationTypeOK ==
  /\ schema \subseteq Objects /\ ledger \subseteq Versions
  /\ step \in [Processes -> Steps]
  /\ version \in [Processes -> 0..2]
  /\ missing \in [Processes -> SUBSET Objects]

\* What a version promises to be there.
Promised(number) == IF number = 1 THEN {"tables", "tasks"} ELSE {"attempts"}

Backed == (1 \in ledger => {"tables", "tasks"} \subseteq schema) /\ (2 \in ledger => "attempts" \in schema)

\* The second version is only looked at when the first is recorded, and a
\* migration that is about to be recorded leaves what it promises.
Working(p) ==
  /\ step[p] \in {"check", "inspect", "apply", "record"} =>
       /\ version[p] \in Versions
       /\ version[p] = 2 => 1 \in ledger
  /\ step[p] \in {"apply", "record"} => Promised(version[p]) \subseteq schema \cup missing[p]
  /\ Upgraded(p) => ledger = Versions

MigrationInv == MigrationTypeOK /\ Backed /\ \A p \in Processes : Working(p)

Grows == schema \subseteq schema' /\ ledger \subseteq ledger'

\* One process moves: what the others rely on stays, as the database grows.
LEMMA GotoKeeps ==
  ASSUME MigrationInv, NEW p \in Processes, NEW where \in Steps, NEW number \in 0..2,
         NEW objects \in SUBSET Objects, Goto(p, where, number, objects),
         Grows, schema' \subseteq Objects, ledger' \subseteq Versions, Backed',
         where \in {"check", "inspect", "apply", "record"} =>
           number \in Versions /\ (number = 2 => 1 \in ledger'),
         where \in {"apply", "record"} => Promised(number) \subseteq schema' \cup objects,
         where \in {"ready", "import", "insert", "insert_all", "ended"} => ledger' = Versions
  PROVE  MigrationInv'
<1>1. /\ step'[p] = where /\ version'[p] = number /\ missing'[p] = objects
      /\ \A q \in Processes : q # p => step'[q] = step[q] /\ version'[q] = version[q]
                                        /\ missing'[q] = missing[q]
  BY DEF Goto, MigrationInv, MigrationTypeOK
<1>2. MigrationTypeOK'  BY DEF Goto, MigrationInv, MigrationTypeOK
<1>3. Working(p)'  BY <1>1 DEF Working, Upgraded
<1>4. ASSUME NEW q \in Processes, q # p PROVE Working(q)'
  BY <1>1, <1>4 DEF MigrationInv, MigrationTypeOK, Working, Upgraded, Grows
<1> QED  BY <1>2, <1>3, <1>4 DEF MigrationInv

\* A step that leaves the schema and the ledger alone grows them as well.
LEMMA SameDatabase ==
  ASSUME MigrationInv, UNCHANGED database
  PROVE  Grows /\ schema' \subseteq Objects /\ ledger' \subseteq Versions /\ Backed'
BY DEF MigrationInv, MigrationTypeOK, Backed, Grows, database

\* The step behind a version that is recorded.
LEMMA AfterKeeps ==
  ASSUME MigrationInv, NEW p \in Processes, version[p] \in Versions, After(p, version[p]),
         Grows, schema' \subseteq Objects, ledger' \subseteq Versions, Backed',
         version[p] \in ledger', version[p] = 2 => 1 \in ledger'
  PROVE  MigrationInv'
<1>1. CASE version[p] = 2
  <2>1. Goto(p, "ready", 2, {})  BY <1>1 DEF After
  <2>2. ledger' = Versions
    <3>1. 1 \in ledger' /\ 2 \in ledger'  BY <1>1
    <3>2. \A n \in Versions : n = 1 \/ n = 2  BY DEF Versions
    <3> QED  BY <3>1, <3>2
  <2> QED  BY <2>1, <2>2, GotoKeeps DEF Steps
<1>2. CASE version[p] = 1
  <2>1. Goto(p, "check", 2, {})  BY <1>2 DEF After
  <2> QED  BY <1>2, <2>1, GotoKeeps DEF Steps, Versions
<1> QED  BY <1>1, <1>2 DEF Versions

\* Every step of a migration keeps the invariant.
LEMMA MigrateKeeps ==
  ASSUME MigrationInv, NEW p \in Processes, Migrate(p)
  PROVE  MigrationInv'
<1>0. /\ schema \subseteq Objects /\ ledger \subseteq Versions /\ missing[p] \in SUBSET Objects
      /\ version[p] \in 0..2 /\ Backed /\ Working(p)
  BY DEF MigrationInv, MigrationTypeOK
<1>1. CASE LookForLedger(p)
  <2>1. Goto(p, "ledger", 0, {"ledger"} \ schema) /\ UNCHANGED database
    BY <1>1 DEF LookForLedger
  <2>2. {"ledger"} \ schema \in SUBSET Objects  BY DEF Objects
  <2> QED  BY <2>1, <2>2, SameDatabase, GotoKeeps DEF Steps
<1>2. CASE CreateLedger(p)
  <2>1. CASE Goto(p, "dead", 0, {}) /\ UNCHANGED schema
    <3>1. UNCHANGED database  BY <1>2, <2>1 DEF CreateLedger, database
    <3> QED  BY <2>1, <3>1, SameDatabase, GotoKeeps DEF Steps
  <2>2. CASE schema' = schema \cup missing[p] /\ Goto(p, "check", 1, {})
    <3>1. /\ Grows /\ schema' \subseteq Objects /\ ledger' \subseteq Versions /\ Backed'
      BY <1>0, <1>2, <2>2 DEF CreateLedger, Grows, Backed
    <3> QED  BY <2>2, <3>1, GotoKeeps DEF Steps, Versions
  <2> QED  BY <1>2, <2>1, <2>2 DEF CreateLedger
<1>3. CASE CheckVersion(p)
  <2>1. /\ UNCHANGED database /\ version[p] \in Versions
        /\ version[p] = 2 => 1 \in ledger
    BY <1>0, <1>3 DEF CheckVersion, At, Working
  <2>2. CASE version[p] \in ledger /\ After(p, version[p])
    BY <2>1, <2>2, SameDatabase, AfterKeeps DEF database
  <2>3. CASE Goto(p, "inspect", version[p], {})
    BY <1>0, <2>1, <2>3, SameDatabase, GotoKeeps DEF Steps, database
  <2> QED  BY <1>3, <2>2, <2>3 DEF CheckVersion
<1>4. CASE Inspect(p)
  <2>1. /\ UNCHANGED database /\ version[p] \in Versions
        /\ version[p] = 2 => 1 \in ledger
        /\ Goto(p, "apply", version[p], Missing(version[p]))
    BY <1>0, <1>4 DEF Inspect, At, Working
  <2>2. /\ Missing(version[p]) \in SUBSET Objects
        /\ Promised(version[p]) \subseteq schema \cup Missing(version[p])
    BY <2>1 DEF Missing, Promised, Objects, Versions
  <2> QED  BY <1>0, <2>1, <2>2, SameDatabase, GotoKeeps DEF Steps, database
<1>5. CASE Apply(p)
  <2>1. /\ ledger' = ledger /\ version[p] \in Versions
        /\ version[p] = 2 => 1 \in ledger
        /\ Promised(version[p]) \subseteq schema \cup missing[p]
    BY <1>0, <1>5 DEF Apply, At, Working
  <2>2. CASE Goto(p, "dead", 0, {}) /\ UNCHANGED schema
    <3>1. UNCHANGED database  BY <2>1, <2>2 DEF database
    <3> QED  BY <2>2, <3>1, SameDatabase, GotoKeeps DEF Steps
  <2> DEFINE now == Statement(missing[p])
             later == missing[p] \ now
  <2>3. CASE Goto(p, "record", version[p], missing[p]) /\ UNCHANGED schema
    <3>1. UNCHANGED database  BY <2>1, <2>3 DEF database
    <3>2. Grows /\ schema' \subseteq Objects /\ ledger' \subseteq Versions /\ Backed'
      BY <3>1, SameDatabase
    <3> QED  BY <1>0, <2>1, <2>3, <3>2, GotoKeeps DEF Steps
  <2>4. CASE /\ schema' = schema \cup now
             /\ Goto(p, IF later = {} THEN "record" ELSE "apply", version[p], later)
    <3>1. now \subseteq missing[p]  BY DEF Statement
    <3>2. PICK where \in {"record", "apply"} : Goto(p, where, version[p], later)  BY <2>4
    <3>3. later \in SUBSET Objects  BY <1>0
    <3>4. /\ Grows /\ schema' \subseteq Objects /\ ledger' \subseteq Versions /\ Backed'
          /\ Promised(version[p]) \subseteq schema' \cup later
      BY <1>0, <2>1, <2>4, <3>1 DEF Grows, Backed
    <3> HIDE DEF now, later
    <3> QED  BY <1>0, <2>1, <3>2, <3>3, <3>4, GotoKeeps DEF Steps
  <2>5. missing[p] \ missing[p] = {}  OBVIOUS
  <2> QED  BY <1>5, <2>2, <2>3, <2>4, <2>5 DEF Apply
<1>6. CASE Record(p)
  <2>1. /\ version[p] \in Versions /\ (version[p] = 2 => 1 \in ledger)
        /\ Promised(version[p]) \subseteq schema \cup missing[p]
    BY <1>0, <1>6 DEF Record, At, Working
  <2>2. CASE Goto(p, "dead", 0, {}) /\ UNCHANGED database
    BY <2>2, SameDatabase, GotoKeeps DEF Steps
  <2>3. CASE /\ ledger' = ledger \cup {version[p]} /\ schema' = schema \cup missing[p]
             /\ After(p, version[p])
    <3>1. Grows /\ schema' \subseteq Objects /\ ledger' \subseteq Versions
      BY <1>0, <2>1, <2>3 DEF Grows
    <3>2. Backed'
      BY <1>0, <2>1, <2>3 DEF Backed, Promised, Versions
    <3> QED  BY <2>1, <2>3, <3>1, <3>2, AfterKeeps
  <2> QED  BY <1>6, <2>2, <2>3 DEF Record
<1> QED  BY <1>1, <1>2, <1>3, <1>4, <1>5, <1>6 DEF Migrate

\* The import, crashes and restarts leave the schema and the ledger alone.
LEMMA OthersKeep ==
  ASSUME MigrationInv, NEW p \in Processes,
         Import(p) \/ Crash(p) \/ Restart(p) \/ Rerun(p)
  PROVE  MigrationInv'
<1>1. UNCHANGED database
  BY DEF Import, ImportInspect, ImportRead, ImportCommit, Crash, Restart, Rerun
<1>2. CASE Crash(p) \/ Restart(p) \/ Rerun(p)
  <2>1. Goto(p, "dead", 0, {}) \/ Goto(p, "start", 0, {})
    BY <1>2 DEF Crash, Restart, Rerun
  <2> QED  BY <1>1, <2>1, SameDatabase, GotoKeeps DEF Steps
<1>3. CASE ImportInspect(p)
  <2>1. ledger' = Versions
    BY <1>1, <1>3 DEF ImportInspect, At, MigrationInv, Working, Upgraded, database
  <2>2. Goto(p, "ended", 2, {}) \/ Goto(p, "import", 2, {})
    BY <1>3 DEF ImportInspect
  <2> QED  BY <1>1, <2>1, <2>2, SameDatabase, GotoKeeps DEF Steps
<1>4. CASE ImportRead(p)
  <2>1. PICK where \in {"insert", "insert_all"} : step' = [step EXCEPT ![p] = where]
    BY <1>4 DEF ImportRead
  <2>2. /\ version' = version /\ missing' = missing /\ schema' = schema /\ ledger' = ledger
        /\ ledger = Versions
    BY <1>1, <1>4 DEF ImportRead, At, MigrationInv, Working, Upgraded, database
  <2>3. MigrationTypeOK'
    BY <2>1, <2>2 DEF MigrationInv, MigrationTypeOK, Steps
  <2>4. ASSUME NEW q \in Processes PROVE Working(q)'
    <3>1. CASE q = p
      BY <2>1, <2>2, <3>1 DEF MigrationInv, MigrationTypeOK, Working, Upgraded
    <3>2. CASE q # p
      BY <2>1, <2>2, <3>2 DEF MigrationInv, MigrationTypeOK, Working, Upgraded
    <3> QED  BY <3>1, <3>2
  <2> QED  BY <1>1, <2>3, <2>4, SameDatabase DEF MigrationInv
<1>5. CASE ImportCommit(p)
  <2>1. ledger' = Versions
    BY <1>1, <1>5 DEF ImportCommit, At, MigrationInv, Working, Upgraded, database
  <2>2. Goto(p, "ended", 2, {})  BY <1>5 DEF ImportCommit, Finish
  <2> QED  BY <1>1, <2>1, <2>2, SameDatabase, GotoKeeps DEF Steps
<1> QED  BY <1>2, <1>3, <1>4, <1>5 DEF Import

\* Processes start before the first migration, on a database that is new or
\* that the first release has left.
LEMMA InitInv == Init => MigrationInv
BY DEF Init, MigrationInv, MigrationTypeOK, Backed, Working, Upgraded, Versions, Objects, Steps

\* Every step keeps the invariant.
LEMMA StepInv == MigrationInv /\ [Next]_vars => MigrationInv'
<1> SUFFICES ASSUME MigrationInv, [Next]_vars PROVE MigrationInv'  OBVIOUS
<1>1. CASE Next
  <2>1. PICK p \in Processes : Migrate(p) \/ Import(p) \/ Crash(p) \/ Restart(p) \/ Rerun(p)
    BY <1>1 DEF Next
  <2> QED  BY <2>1, MigrateKeeps, OthersKeep
<1>2. CASE UNCHANGED vars
  BY <1>2 DEF vars, database, MigrationInv, MigrationTypeOK, Backed, Working, Upgraded
<1> QED  BY <1>1, <1>2

\* However many processes migrate one database at once, whatever is
\* interrupted and whether the database takes schema changes back: the ledger
\* names only what is there, and nobody works on an older schema.
THEOREM MigrationSafe == FairSpec => []LedgerIsTrue
<1>1. MigrationInv => LedgerIsTrue
  BY DEF MigrationInv, Backed, Working, LedgerIsTrue
<1> QED  BY <1>1, InitInv, StepInv, PTL DEF FairSpec

\* Imported reviews keep to different places, also for imports at once.
LEMMA ImportStep == OnePerPlace /\ [Next]_vars => OnePerPlace'
<1> SUFFICES ASSUME OnePerPlace, [Next]_vars PROVE OnePerPlace'  OBVIOUS
<1>1. CASE reviews' = reviews  BY <1>1 DEF OnePerPlace, ImportedRows
<1>2. ASSUME NEW p \in Processes, ImportCommit(p), reviews' # reviews
      PROVE  OnePerPlace'
  <2> DEFINE new == {NewRow(n) : n \in unknown[p]}
  <2>1. ~Collides(unknown[p]) /\ reviews' = reviews \cup new /\ legacy' = legacy
    BY <1>2 DEF ImportCommit
  <2>2. ImportedRows' = ImportedRows \cup new
    BY <2>1 DEF ImportedRows, NewRow
  <2>3. ASSUME NEW r \in new, NEW s \in new, r # s PROVE r.place # s.place
    BY <2>1, <2>3 DEF Collides, NewRow, Key
  <2>4. ASSUME NEW r \in new, NEW s \in ImportedRows PROVE r.place # s.place
    BY <2>1 DEF Collides, NewRow, ImportedRows
  <2> QED  BY <2>2, <2>3, <2>4 DEF OnePerPlace
<1>3. CASE Next /\ reviews' # reviews
  BY <1>2, <1>3 DEF Next, Migrate, Import, LookForLedger, CreateLedger, CheckVersion, Inspect,
     Apply, Record, ImportInspect, ImportRead, Crash, Restart, Rerun, data
<1> QED  BY <1>1, <1>3 DEF vars, data

\* No import ever stores two legacy reviews for one course and term, which the
\* unique key would refuse for their common author.
THEOREM ImportsKeepPlaces == FairSpec => []OnePerPlace
<1>1. Init => OnePerPlace  BY DEF Init, OnePerPlace, ImportedRows
<1> QED  BY <1>1, ImportStep, PTL DEF FairSpec

(***************************************************************************)
(* All of the file or nothing                                              *)
(***************************************************************************)

\* The rows of the file that no client's key hides.
Own == {n \in DOMAIN legacy : ~\E r \in reviews : r.author = "client" /\ r.key = Key(n)}

ImportTypeOK ==
  /\ origin \in BOOLEAN
  /\ unknown \in [Processes -> SUBSET DOMAIN legacy]
  /\ imports \in [started : Nat, outcome : {"none", "refused", "imported", "failed"}]
  /\ \A r \in reviews : r.author \in {"client", "unknown"}

\* The legacy author tells whether the file was imported.
OriginTells ==
  /\ ImportedRows = IF origin THEN {NewRow(n) : n \in Own} ELSE {}
  /\ imports.outcome = "imported" => origin

\* Who read before the first import is about to insert all of the file, and
\* will be refused if another came first; who read later has nothing to insert.
Inserting(p) ==
  /\ step[p] = "insert_all" => unknown[p] = Own
  /\ step[p] = "insert" => origin /\ unknown[p] = {}

ImportInv ==
  /\ MigrationInv /\ OnePerPlace
  /\ ImportTypeOK /\ OriginTells /\ \A p \in Processes : Inserting(p)

\* What is there of the file when the legacy author is, or is not.
LEMMA UnknownIs ==
  ASSUME ImportInv
  PROVE  UnknownRows = IF origin THEN {} ELSE Own
<1>1. ASSUME NEW n \in DOMAIN legacy PROVE NewRow(n).key = Key(n) /\ NewRow(n).author = "unknown"
  BY DEF NewRow
<1>2. \A r \in reviews : r.author = "client" \/ r \in ImportedRows
  BY DEF ImportInv, ImportTypeOK, ImportedRows
<1>3. \A r \in ImportedRows : r \in reviews  BY DEF ImportedRows
<1>4. CASE origin
  <2>1. ASSUME NEW n \in DOMAIN legacy PROVE Key(n) \in Present
    <3>1. CASE n \in Own
      <4>1. NewRow(n) \in ImportedRows  BY <1>4, <3>1 DEF ImportInv, OriginTells
      <4> QED  BY <1>1, <1>3, <4>1 DEF Present
    <3>2. CASE n \notin Own  BY <3>2 DEF Own, Present
    <3> QED  BY <3>1, <3>2
  <2> QED  BY <1>4, <2>1 DEF UnknownRows
<1>5. CASE ~origin
  <2>1. \A r \in reviews : r.author = "client"  BY <1>2, <1>5 DEF ImportInv, OriginTells
  <2> QED  BY <1>5, <2>1 DEF UnknownRows, Present, Own
<1> QED  BY <1>4, <1>5

\* Steps that store no review.
LEMMA StoreNothing ==
  ASSUME ImportInv, NEW p \in Processes, UNCHANGED <<legacy, reviews, origin>>,
         unknown' \in [Processes -> SUBSET DOMAIN legacy],
         imports' \in [started : Nat, outcome : {"none", "refused", "imported", "failed"}],
         imports'.outcome = "imported" => imports.outcome = "imported",
         \A q \in Processes \ {p} : step'[q] = step[q] /\ unknown'[q] = unknown[q],
         Inserting(p)', MigrationInv', OnePerPlace'
  PROVE  ImportInv'
<1>1. Own' = Own  BY DEF Own, Key
<1>2. ImportTypeOK'  BY DEF ImportInv, ImportTypeOK
<1>3. OriginTells'  BY <1>1 DEF ImportInv, OriginTells, ImportedRows, NewRow, Key
<1>4. \A q \in Processes : Inserting(q)'  BY <1>1 DEF ImportInv, Inserting
<1> QED  BY <1>2, <1>3, <1>4 DEF ImportInv

\* A process that goes elsewhere has no rows to insert.
LEMMA GotoStoresNothing ==
  ASSUME ImportInv, NEW p \in Processes, NEW where, NEW number, NEW objects,
         Goto(p, where, number, objects), where \notin {"insert", "insert_all"}
  PROVE  /\ unknown' \in [Processes -> SUBSET DOMAIN legacy]
         /\ \A q \in Processes \ {p} : step'[q] = step[q] /\ unknown'[q] = unknown[q]
         /\ Inserting(p)'
<1>1. step' = [step EXCEPT ![p] = where] /\ unknown' = [unknown EXCEPT ![p] = {}]
  BY DEF Goto
<1>2. step \in [Processes -> Steps] /\ unknown \in [Processes -> SUBSET DOMAIN legacy]
  BY DEF ImportInv, ImportTypeOK, MigrationInv, MigrationTypeOK
<1>3. step'[p] = where  BY <1>1, <1>2
<1>4. Inserting(p)'  BY <1>3 DEF Inserting
<1> QED  BY <1>1, <1>2, <1>4

\* The transaction of the import stores the whole file, or nothing.
LEMMA CommitKeeps ==
  ASSUME ImportInv, NEW p \in Processes, ImportCommit(p), MigrationInv', OnePerPlace'
  PROVE  ImportInv'
<1>1. /\ legacy' = legacy /\ step[p] \in {"insert", "insert_all"}
      /\ Inserting(p) /\ ImportTypeOK /\ OriginTells
  BY DEF ImportCommit, ImportInv
<1>2. ASSUME NEW outcome \in {"imported", "failed"}, Finish(p, outcome)
      PROVE  /\ unknown' \in [Processes -> SUBSET DOMAIN legacy]
             /\ \A q \in Processes \ {p} : step'[q] = step[q] /\ unknown'[q] = unknown[q]
             /\ Inserting(p)' /\ imports'.outcome = outcome
             /\ imports' \in [started : Nat, outcome : {"none", "refused", "imported", "failed"}]
  <2>1. Goto(p, "ended", 2, {}) /\ imports' = [imports EXCEPT !.outcome = outcome]
    BY <1>2 DEF Finish
  <2>2. /\ imports'.outcome = outcome
        /\ imports' \in [started : Nat, outcome : {"none", "refused", "imported", "failed"}]
    BY <1>1, <2>1 DEF ImportTypeOK
  <2> QED  BY <2>1, <2>2, GotoStoresNothing
<1>3. CASE Finish(p, "failed") /\ UNCHANGED <<reviews, origin>>
  BY <1>1, <1>2, <1>3, StoreNothing
<1>4. CASE /\ ~(At(p, "insert_all") /\ origin) /\ origin' = TRUE
           /\ reviews' = reviews \cup {NewRow(n) : n \in unknown[p]} /\ Finish(p, "imported")
  <2> DEFINE new == {NewRow(n) : n \in unknown[p]}
  <2>1. /\ unknown' \in [Processes -> SUBSET DOMAIN legacy] /\ Inserting(p)'
        /\ \A q \in Processes \ {p} : step'[q] = step[q] /\ unknown'[q] = unknown[q]
        /\ imports' \in [started : Nat, outcome : {"none", "refused", "imported", "failed"}]
    BY <1>2, <1>4
  <2>2. \A r \in new : r.author = "unknown"  BY DEF NewRow
  <2>3. reviews' = reviews \cup new  BY <1>4
  <2>4. \A n : NewRow(n)' = NewRow(n)  BY <1>1 DEF NewRow, Key
  <2> HIDE DEF new
  <2>5. Own' = Own
    <3>1. \A r \in reviews' : r.author = "client" => r \in reviews  BY <2>2, <2>3
    <3> QED  BY <1>1, <2>3, <3>1 DEF Own, Key
  <2>6. ImportedRows' = ImportedRows \cup new  BY <2>2, <2>3 DEF ImportedRows
  <2>7. ImportedRows' = {NewRow(n) : n \in Own}
    <3>1. CASE step[p] = "insert"
      <4>1. new = {} /\ origin  BY <1>1, <3>1 DEF Inserting, new
      <4> QED  BY <1>1, <2>6, <4>1 DEF OriginTells
    <3>2. CASE step[p] = "insert_all"
      <4>1. ~origin /\ unknown[p] = Own  BY <1>1, <1>4, <3>2 DEF Inserting, At
      <4>2. ImportedRows = {}  BY <1>1, <4>1 DEF OriginTells
      <4> QED  BY <2>6, <4>1, <4>2 DEF new
    <3> QED  BY <1>1, <3>1, <3>2
  <2>8. OriginTells'  BY <1>4, <2>4, <2>5, <2>7 DEF OriginTells
  <2>9. ImportTypeOK'  BY <1>1, <1>4, <2>1, <2>2, <2>3 DEF ImportTypeOK
  <2>10. ASSUME NEW q \in Processes PROVE Inserting(q)'
    <3>1. CASE q = p  BY <2>1, <3>1
    <3>2. CASE q # p
      <4>1. Inserting(q)  BY DEF ImportInv
      <4> QED  BY <1>4, <2>1, <2>5, <3>2, <4>1 DEF Inserting
    <3> QED  BY <3>1, <3>2
  <2> QED  BY <2>8, <2>9, <2>10 DEF ImportInv
<1> QED  BY <1>3, <1>4 DEF ImportCommit

LEMMA WholeStep == ImportInv /\ [Next]_vars => ImportInv'
<1> SUFFICES ASSUME ImportInv, [Next]_vars PROVE ImportInv'  OBVIOUS
<1>1. MigrationInv' /\ OnePerPlace'  BY StepInv, ImportStep DEF ImportInv
<1>2. CASE UNCHANGED vars
  BY <1>1, <1>2 DEF vars, data, ImportInv, ImportTypeOK, OriginTells, Inserting, Own,
     ImportedRows, NewRow, Key
<1>3. ASSUME NEW p \in Processes, NEW where, NEW number, NEW objects,
             Goto(p, where, number, objects), where \notin {"insert", "insert_all"},
             UNCHANGED <<legacy, data>>
      PROVE  ImportInv'
  <2>1. UNCHANGED <<legacy, reviews, origin>> /\ imports' = imports  BY <1>3 DEF data
  <2>2. imports \in [started : Nat, outcome : {"none", "refused", "imported", "failed"}]
    BY DEF ImportInv, ImportTypeOK
  <2> QED  BY <1>1, <1>3, <2>1, <2>2, GotoStoresNothing, StoreNothing
<1>4. ASSUME NEW p \in Processes, Migrate(p) \/ Crash(p) \/ Restart(p) \/ Rerun(p) PROVE ImportInv'
  <2>1. UNCHANGED <<legacy, data>>
    BY <1>4 DEF Migrate, LookForLedger, CreateLedger, CheckVersion, Inspect, Apply, Record,
                Crash, Restart, Rerun
  <2>2. \E where \in {"ledger", "dead", "check", "ready", "inspect", "apply", "record", "start"} :
          \E number, objects : Goto(p, where, number, objects)
    <3>1. CASE LookForLedger(p)  BY <3>1 DEF LookForLedger
    <3>2. CASE CreateLedger(p)  BY <3>2 DEF CreateLedger
    <3>3. CASE CheckVersion(p)  BY <3>3 DEF CheckVersion, After
    <3>4. CASE Inspect(p)  BY <3>4 DEF Inspect
    <3>5. CASE Apply(p)  BY <3>5 DEF Apply
    <3>6. CASE Record(p)  BY <3>6 DEF Record, After
    <3>7. CASE Crash(p) \/ Restart(p) \/ Rerun(p)  BY <3>7 DEF Crash, Restart, Rerun
    <3> QED  BY <1>4, <3>1, <3>2, <3>3, <3>4, <3>5, <3>6, <3>7 DEF Migrate
  <2> QED  BY <1>3, <2>1, <2>2
<1>5. ASSUME NEW p \in Processes, ImportInspect(p) PROVE ImportInv'
  <2>1. PICK where \in {"ended", "import"}, outcome \in {"none", "refused"} :
          /\ Goto(p, where, 2, {})
          /\ imports' = [started |-> imports.started + 1, outcome |-> outcome]
    BY <1>5 DEF ImportInspect
  <2>2. UNCHANGED <<legacy, reviews, origin>>  BY <1>5 DEF ImportInspect
  <2>3. imports.started \in Nat  BY DEF ImportInv, ImportTypeOK
  <2>4. /\ imports' \in [started : Nat, outcome : {"none", "refused", "imported", "failed"}]
        /\ imports'.outcome # "imported"
    BY <2>1, <2>3
  <2>5. /\ unknown' \in [Processes -> SUBSET DOMAIN legacy] /\ Inserting(p)'
        /\ \A q \in Processes \ {p} : step'[q] = step[q] /\ unknown'[q] = unknown[q]
    BY <2>1, GotoStoresNothing
  <2> QED  BY <1>1, <2>2, <2>4, <2>5, StoreNothing
<1>6. ASSUME NEW p \in Processes, ImportRead(p) PROVE ImportInv'
  <2>1. /\ step' = [step EXCEPT ![p] = IF origin THEN "insert" ELSE "insert_all"]
        /\ unknown' = [unknown EXCEPT ![p] = UnknownRows]
        /\ UNCHANGED <<legacy, reviews, origin, imports>>
    BY <1>6 DEF ImportRead, data
  <2>2. /\ step \in [Processes -> Steps] /\ unknown \in [Processes -> SUBSET DOMAIN legacy]
        /\ imports \in [started : Nat, outcome : {"none", "refused", "imported", "failed"}]
    BY DEF ImportInv, ImportTypeOK, MigrationInv, MigrationTypeOK
  <2>3. UnknownRows \in SUBSET DOMAIN legacy  BY DEF UnknownRows
  <2>4. /\ unknown' \in [Processes -> SUBSET DOMAIN legacy]
        /\ \A q \in Processes \ {p} : step'[q] = step[q] /\ unknown'[q] = unknown[q]
        /\ step'[p] = IF origin THEN "insert" ELSE "insert_all"
        /\ unknown'[p] = IF origin THEN {} ELSE Own
    BY <2>1, <2>2, <2>3, UnknownIs
  <2>5. Own' = Own  BY <2>1 DEF Own, Key
  <2>6. Inserting(p)'  BY <2>1, <2>4, <2>5 DEF Inserting
  <2> QED  BY <1>1, <2>1, <2>2, <2>4, <2>6, StoreNothing
<1>7. ASSUME NEW p \in Processes, ImportCommit(p) PROVE ImportInv'
  BY <1>1, <1>7, CommitKeeps
<1> QED  BY <1>2, <1>4, <1>5, <1>6, <1>7 DEF Next, Import

\* An import stores every row of the file that no client's key hides, each
\* once and in a place of its own, or none of them: whatever is interrupted,
\* however often it is repeated and however many imports run at once.
THEOREM ImportIsWhole == FairSpec => []ImportWhole
<1>1. Init => ImportInv
  <2> SUFFICES ASSUME Init PROVE ImportInv  OBVIOUS
  <2>1. MigrationInv  BY InitInv
  <2>2. \A r \in reviews : r.author = "client"
    <3>1. reviews = {} \/ reviews = {[key |-> 1, author |-> "client", place |-> "elsewhere"]}
      BY DEF Init
    <3> QED  BY <3>1
  <2>3. ImportTypeOK /\ ImportedRows = {}
    <3>1. imports \in [started : Nat, outcome : {"none", "refused", "imported", "failed"}]
      BY DEF Init
    <3> QED  BY <2>2, <3>1 DEF Init, ImportTypeOK, ImportedRows
  <2>4. OriginTells /\ OnePerPlace  BY <2>3 DEF Init, OriginTells, OnePerPlace
  <2>5. \A p \in Processes : Inserting(p)  BY DEF Init, Inserting
  <2> QED  BY <2>1, <2>3, <2>4, <2>5 DEF ImportInv
<1>2. ASSUME ImportInv PROVE ImportWhole
  <2>1. \/ ImportedRows = {}
        \/ ImportedRows = {NewRow(n) : n \in {m \in DOMAIN legacy :
                             ~\E r \in reviews : r.author = "client" /\ r.key = Key(m)}}
    BY <1>2 DEF ImportInv, OriginTells, Own
  <2>2. imports.outcome = "imported" => \A n \in DOMAIN legacy : Key(n) \in Present
    <3>1. imports.outcome = "imported" => UnknownRows = {}
      BY <1>2, UnknownIs DEF ImportInv, OriginTells
    <3> QED  BY <3>1 DEF UnknownRows
  <2> QED  BY <1>2, <2>1, <2>2 DEF ImportInv, ImportWhole
<1>3. ImportInv => ImportWhole  BY <1>2
<1> QED  BY <1>1, <1>3, WholeStep, PTL DEF FairSpec
=============================================================================
