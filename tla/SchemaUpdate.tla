----------------------------- MODULE SchemaUpdate -----------------------------
(***************************************************************************)
(* How the database gets its tables when the server starts: checkSchema    *)
(* and updateSchema of Database.ts, with the statements of schemas.ts and  *)
(* of schema/*.ts.                                                         *)
(*                                                                         *)
(* The process may stop, or lose its connection, at any await.  MariaDB    *)
(* commits at every CREATE, ALTER and DROP: each statement is durable by   *)
(* itself, the transaction around a version is over after the first one,   *)
(* the row that records the version is durable as soon as it is inserted,  *)
(* and a rollback has nothing to undo.                                     *)
(*                                                                         *)
(* Of a table the model keeps that it exists and the columns, constraints  *)
(* and keys a later statement depends on.                                  *)
(***************************************************************************)
EXTENDS Naturals, Sequences

CONSTANT MaxStops  \* bound: times the process is stopped or a query fails

ASSUME MaxStopsAssumption == MaxStops \in Nat

-----------------------------------------------------------------------------
(* Statements.  A database is a set of pairs <<table, part>>.              *)

\* CREATE TABLE IF NOT EXISTS: parts are those of the new table, refs the
\* tables its foreign keys point to.
Create(table, parts, refs) ==
  [op |-> "create", table |-> table, parts |-> parts, refs |-> refs]

\* ALTER TABLE ... ADD, in any of its forms
Add(table, part) == [op |-> "add", table |-> table, part |-> part]
\* ALTER TABLE ... DROP FOREIGN KEY
Drop(table, part) == [op |-> "drop", table |-> table, part |-> part]
\* DROP ... IF EXISTS of a part, and of a table
DropIfExists(table, part) ==
  [op |-> "dropIfExists", table |-> table, part |-> part]
DropTable(table) == [op |-> "dropTable", table |-> table]
\* ALTER TABLE ... CHANGE
Rename(table, part, to) ==
  [op |-> "rename", table |-> table, part |-> part, to |-> to]
\* ALTER TABLE ... MODIFY, which can be repeated
Modify(table) == [op |-> "modify", table |-> table]

Exists(db, table) == <<table, "table">> \in db

\* MariaDB accepts the statement.
Accepted(db, stmt) ==
  CASE stmt.op = "create"    -> \A t \in stmt.refs : Exists(db, t)
    [] stmt.op = "dropTable" -> TRUE
    [] stmt.op \in {"modify", "dropIfExists"} -> Exists(db, stmt.table)
    [] stmt.op = "add" -> /\ Exists(db, stmt.table)
                          /\ <<stmt.table, stmt.part>> \notin db
    [] stmt.op = "drop" -> <<stmt.table, stmt.part>> \in db
    [] stmt.op = "rename" -> /\ <<stmt.table, stmt.part>> \in db
                             /\ <<stmt.table, stmt.to>> \notin db

\* What the statement makes of the database.
After(db, stmt) ==
  CASE stmt.op = "create" ->
         IF Exists(db, stmt.table) THEN db
         ELSE db \cup ({stmt.table} \X (stmt.parts \cup {"table"}))
    [] stmt.op = "dropTable" -> {p \in db : p[1] # stmt.table}
    [] stmt.op = "modify" -> db
    [] stmt.op = "add" -> db \cup {<<stmt.table, stmt.part>>}
    [] stmt.op \in {"drop", "dropIfExists"} -> db \ {<<stmt.table, stmt.part>>}
    [] stmt.op = "rename" ->
         (db \ {<<stmt.table, stmt.part>>}) \cup {<<stmt.table, stmt.to>>}

-----------------------------------------------------------------------------
(* The versions.                                                           *)

SchemaTable == <<Create("SCHEMA", {}, {})>>

FirstTables ==
  << Create("accounts", {}, {}),
     Create("passkey", {"ibfk_1"}, {"accounts"}),
     Create("accountOptions", {}, {"accounts"}),
     Create("varTableList", {"name", "unique name", "ibfk_1"}, {"accounts"}),
     Create("varTableData", {"ibfk_1"}, {"varTableList"}),
     Create("jwtToken", {"ibfk_1"}, {"accounts"}) >>

\* The foreign key of a table is dropped and added again, with cascades.
DropReference(table) == Drop(table, "ibfk_1")
AddReference(table) == Add(table, "ibfk_1 cascades")

Alterations ==
  << DropTable("accountOptions"),
     DropIfExists("varTableList", "unique name"),
     Add("varTableList", "created_at"),
     Add("varTableData", "varKeyInTable"),
     Add("passkey", "nickname"),
     Add("passkey", "id"),
     Add("jwtToken", "nickname"),
     Add("accounts", "allowPassword, nickname"),
     Modify("accounts"),
     Rename("varTableList", "name", "nickname"),
     DropReference("passkey"), AddReference("passkey"),
     DropReference("varTableList"), AddReference("varTableList"),
     DropReference("varTableData"), AddReference("varTableData"),
     DropReference("jwtToken"), AddReference("jwtToken"),
     Create("groupList", {}, {"accounts"}),
     Create("groupContent", {}, {"groupList", "jwtToken", "accounts"}),
     Create("permissionEntry", {}, {"varTableList"}),
     Create("permission", {},
            {"permissionEntry", "jwtToken", "accounts", "groupList"}) >>

\* schemas: "2025-05-10", "2025-05-11" and "2025-06-09"
Script == <<SchemaTable, FirstTables, Alterations>>
Latest == Len(Script)

-----------------------------------------------------------------------------

VARIABLES
  db,          \* the tables
  row,         \* the version of the last row of SCHEMA, 0 without a row
  pc,          \* "down", "check", "update", "failed" or "serve"
  version,     \* the version under way
  done,        \* the statements of it that were executed in this start
  stops        \* times the process was stopped or a query failed

schemaVars == <<db, row, pc, version, done, stops>>

\* every table and part there can be
Parts ==
  LET tables == {"SCHEMA", "accounts", "passkey", "accountOptions",
                 "varTableList", "varTableData", "jwtToken", "groupList",
                 "groupContent", "permissionEntry", "permission"}
      parts == {"table", "name", "unique name", "ibfk_1", "ibfk_1 cascades",
                "created_at", "varKeyInTable", "nickname", "id",
                "allowPassword, nickname"}
  IN  tables \X parts

SchemaTypeOK ==
  /\ db \subseteq Parts
  /\ row \in 0 .. Latest
  /\ pc \in {"down", "check", "update", "failed", "serve"}
  /\ version \in 1 .. Latest
  /\ done \in 0 .. Len(Script[version])
  /\ stops \in 0 .. MaxStops

SchemaInit ==
  /\ db = {}
  /\ row = 0
  /\ pc = "down"
  /\ version = 1
  /\ done = 0
  /\ stops = 0

\* the container starts: main.ts constructs Database, which calls init
Start ==
  /\ pc = "down"
  /\ pc' = "check"
  /\ UNCHANGED <<db, row, version, done, stops>>

\* the first version updateSchema takes: the one after the current version
FirstToRunMutant(current) == current + 2
LatestOnlyMutant(current) == Latest
FirstToRun(current) == current + 1

Begin(v) ==
  /\ pc' = "update"
  /\ version' = v
  /\ done' = 0
  /\ UNCHANGED <<db, row, stops>>

\* checkSchema
CheckFirstStart == pc = "check" /\ ~Exists(db, "SCHEMA") /\ Begin(1)

CheckOldVersion ==
  /\ pc = "check"
  /\ Exists(db, "SCHEMA")
  /\ row \in 1 .. (Latest - 1)
  /\ Begin(FirstToRun(row))

CheckUpToDate ==
  /\ pc = "check"
  /\ row = Latest
  /\ pc' = "serve"
  /\ UNCHANGED <<db, row, version, done, stops>>

\* schemaList.at(-1) is undefined: reading VERSION_DATE throws, nobody
\* catches the rejection of init, and the process ends.
CheckWithoutRow ==
  /\ pc = "check"
  /\ Exists(db, "SCHEMA")
  /\ row = 0
  /\ pc' = "down"
  /\ UNCHANGED <<db, row, version, done, stops>>

Statement == Script[version][done + 1]

\* v.func: one statement
Execute ==
  /\ pc = "update"
  /\ done < Len(Script[version])
  /\ Accepted(db, Statement)
  /\ db' = After(db, Statement)
  /\ done' = done + 1
  /\ UNCHANGED <<row, pc, version, stops>>

\* the statement is refused: catch, up to conn.rollback()
Refused ==
  /\ pc = "update"
  /\ done < Len(Script[version])
  /\ ~Accepted(db, Statement)
  /\ pc' = "failed"
  /\ UNCHANGED <<db, row, version, done, stops>>

\* a statement, or the insertion of the row, fails for another reason (no
\* space, a lock waited for too long, the connection gone): the same catch
QueryFails ==
  /\ pc = "update"
  /\ stops < MaxStops
  /\ stops' = stops + 1
  /\ pc' = "failed"
  /\ UNCHANGED <<db, row, version, done>>

\* Promise.reject(): the process ends
End ==
  /\ pc = "failed"
  /\ pc' = "down"
  /\ UNCHANGED <<db, row, version, done, stops>>

\* the row of the version may be written
MayRecordMutant == TRUE
MayRecord == done = Len(Script[version])

\* INSERT_STATEMENT, and the loop goes on or ends
Record ==
  /\ pc = "update"
  /\ MayRecord
  /\ row' = version
  /\ done' = 0
  /\ \/ /\ version < Latest
        /\ version' = version + 1
        /\ UNCHANGED pc
     \/ /\ version = Latest
        /\ pc' = "serve"
        /\ UNCHANGED version
  /\ UNCHANGED <<db, stops>>

\* The process is stopped, or a query of checkSchema fails, which ends it.
Stop ==
  /\ pc # "down"
  /\ stops < MaxStops
  /\ stops' = stops + 1
  /\ pc' = "down"
  /\ UNCHANGED <<db, row, version, done>>

Run ==
  \/ Start \/ CheckFirstStart \/ CheckOldVersion \/ CheckUpToDate
  \/ CheckWithoutRow \/ Execute \/ Refused \/ End \/ Record

SchemaNext == Run \/ QueryFails \/ Stop

SchemaSpec == SchemaInit /\ [][SchemaNext]_schemaVars

\* docker starts the container again and MariaDB answers.
FairSpec == SchemaSpec /\ WF_schemaVars(Run)

-----------------------------------------------------------------------------

\* All statements in order, and the tables a start without a stop has after
\* the first n of them.
AllStatements == Script[1] \o Script[2] \o Script[3]

Made[n \in 0 .. Len(AllStatements)] ==
  IF n = 0 THEN {} ELSE After(Made[n - 1], AllStatements[n])

TablesOf(v) ==
  Made[CASE v = 0 -> 0
         [] v = 1 -> Len(Script[1])
         [] v = 2 -> Len(Script[1]) + Len(Script[2])
         [] v = 3 -> Len(AllStatements)]

\* Whatever stops and repetitions led there, the server serves only on the
\* tables a first start without a stop would have made.
ServesOnTheLatestTables ==
  pc = "serve" => row = Latest /\ db = TablesOf(Latest)

\* A row is written only when the tables are those of its version, and no
\* version is recorded twice or left out.
RowsTellTheTables ==
  [][row' # row => row' = row + 1 /\ db' = TablesOf(row')]_schemaVars

\* A process that was stopped between two versions, or anywhere in the
\* second, which only creates missing tables, serves at one of its next
\* starts unless it is stopped again.
StopsThatAreRecovered ==
  \A n \in 0 .. MaxStops :
    (pc = "down" /\ stops = n /\ (db = TablesOf(row) \/ row = 1))
      ~> (pc = "serve" \/ stops > n)

\* updateSchema logs "Rollback": a version that failed leaves the tables as
\* they were before it.
RollbackRestoresTables == pc = "failed" => db = TablesOf(row)
=============================================================================
