------------------------------ MODULE Catalog -------------------------------
(***************************************************************************)
(* The tables of a database: Database (database.cpp) with its catalog file *)
(* and the .db file of each table, the schema part of Table (table.cpp)    *)
(* and the statements that use them (executor.cpp).                        *)
(*                                                                         *)
(* CREATE and DROP change the file system in several steps, and the        *)
(* process may be killed between any two.  Rows are represented by their   *)
(* layout, the schema they were written with: a table's rows are the set   *)
(* of layouts in its heap, which should be no other than its own.  How     *)
(* they lie in the file is the matter of RowHeap and Table.                *)
(***************************************************************************)
CONSTANTS
    Names,         \* table names
    Schemas,       \* schemas of CREATE statements
    NoSchema,      \* that of a table which was never given one
    RemoveFails    \* whether the removal of a file may fail

ASSUME CatalogAssumption ==
    /\ NoSchema \notin Schemas
    /\ RemoveFails \in BOOLEAN

VARIABLES
    catalog,    \* the names in data/bitbase.meta
    file,       \* the .db files: Absent, or their schema and rows
    tables,     \* Database::tables of the process
    mem,        \* the schema and rows of each open table as it sees them
    op,         \* what the process is doing
    damage,     \* history: "torn" once it died while the catalog was empty,
                \* "kept" once a file could not be removed
    known       \* history: the tables whose CREATE was answered with success,
                \* with their schema, until a DROP of theirs begins

vars == << catalog, file, tables, mem, op, damage, known >>

Absent == [schema |-> NoSchema, rows |-> {}, exists |-> FALSE]
EmptyFile == [schema |-> NoSchema, rows |-> {}, exists |-> TRUE]

Idle == [kind |-> "idle"]
Creating(n, s, step) == [kind |-> "create", name |-> n, schema |-> s, step |-> step]
Dropping(n, step) == [kind |-> "drop", name |-> n, step |-> step]
Loading(rest) == [kind |-> "load", rest |-> rest]
Leaving == [kind |-> "exit"]

\* Table's constructor: a file that is there is opened, whatever it holds.
Open(n) ==
    LET found == IF file[n].exists THEN file[n] ELSE EmptyFile
    IN  /\ file' = [file EXCEPT ![n] = found]
        /\ mem' = [mem EXCEPT ![n] = found]
        /\ tables' = tables \cup {n}

\* Fault: the destructor writes the metadata page only.
CloseTableShort(n) ==
    /\ file' = [file EXCEPT ![n].schema = mem[n].schema]
    /\ tables' = tables \ {n}
    /\ mem' = [mem EXCEPT ![n] = Absent]

\* Table's destructor writes what the table has in memory.
CloseTable(n) ==
    /\ file' = [file EXCEPT ![n] = mem[n]]
    /\ tables' = tables \ {n}
    /\ mem' = [mem EXCEPT ![n] = Absent]

Init ==
    /\ catalog = {}
    /\ file = [n \in Names |-> Absent]
    /\ tables = {}
    /\ mem = [n \in Names |-> Absent]
    /\ op = Idle
    /\ damage = {}
    /\ known = << >>

Unknown(n) == [m \in DOMAIN known \ {n} |-> known[m]]

-----------------------------------------------------------------------------
(* CREATE TABLE *)

CreateOpen(n, s) ==
    /\ op = Idle
    /\ n \notin tables
    /\ Open(n)
    /\ op' = Creating(n, s, "truncate")
    /\ UNCHANGED << catalog, damage, known >>

\* persist_catalog: the stream empties the file when it is opened ...
PersistTruncate(next) == op' = next /\ catalog' = {}

\* Fault: the table at hand is left out.
PersistWriteOld(next) == op' = next /\ catalog' = tables \ {op.name}

\* ... and writes its buffer when it is closed.
PersistWrite(next) == op' = next /\ catalog' = tables

CreateTruncate ==
    /\ op.kind = "create" /\ op.step = "truncate"
    /\ PersistTruncate([op EXCEPT !.step = "write"])
    /\ UNCHANGED << file, tables, mem, damage, known >>

CreateWrite ==
    /\ op.kind = "create" /\ op.step = "write"
    /\ PersistWrite([op EXCEPT !.step = "schema"])
    /\ UNCHANGED << file, tables, mem, damage, known >>

\* Fault: the metadata page is not written.
set_schemaInMemory(n, s) ==
    /\ mem' = [mem EXCEPT ![n].schema = s]
    /\ UNCHANGED file

\* Table::set_schema writes the metadata page to the file.
set_schema(n, s) ==
    /\ mem' = [mem EXCEPT ![n].schema = s]
    /\ file' = [file EXCEPT ![n].schema = s]

CreateSchema ==
    /\ op.kind = "create" /\ op.step = "schema"
    /\ set_schema(op.name, op.schema)
    /\ op' = Idle
    /\ known' = [m \in DOMAIN known \cup {op.name} |->
                    IF m = op.name THEN op.schema ELSE known[m]]
    /\ UNCHANGED << catalog, tables, damage >>

-----------------------------------------------------------------------------
(* DROP TABLE *)

DropClose(n) ==
    /\ op = Idle
    /\ n \in tables
    /\ CloseTable(n)
    /\ op' = Dropping(n, "remove")
    /\ known' = Unknown(n)
    /\ UNCHANGED << catalog, damage >>

\* Fault: the file is left where it is.
DropRemoveNot ==
    /\ op.kind = "drop" /\ op.step = "remove"
    /\ op' = [op EXCEPT !.step = "truncate"]
    /\ UNCHANGED << catalog, file, tables, mem, damage, known >>

DropRemove ==
    /\ op.kind = "drop" /\ op.step = "remove"
    /\ op' = [op EXCEPT !.step = "truncate"]
    /\ \/ /\ file' = [file EXCEPT ![op.name] = Absent]
          /\ UNCHANGED damage
       \/ /\ RemoveFails
          /\ damage' = damage \cup {"kept"}
          /\ UNCHANGED file
    /\ UNCHANGED << catalog, tables, mem, known >>

DropTruncate ==
    /\ op.kind = "drop" /\ op.step = "truncate"
    /\ PersistTruncate([op EXCEPT !.step = "write"])
    /\ UNCHANGED << file, tables, mem, damage, known >>

DropWrite ==
    /\ op.kind = "drop" /\ op.step = "write"
    /\ PersistWrite(Idle)
    /\ UNCHANGED << file, tables, mem, damage, known >>

-----------------------------------------------------------------------------
(* Rows.  A table that was never given a schema takes none: every INSERT has *)
(* more values than it has columns.                                          *)

\* Fault: the values are not counted.
InsertUncounted(n) ==
    /\ op = Idle
    /\ n \in tables
    /\ mem' = [mem EXCEPT ![n].rows = @ \cup {mem[n].schema}]
    /\ file' = [file EXCEPT ![n].rows = @ \cup {mem[n].schema}]
    /\ UNCHANGED << catalog, tables, op, damage, known >>

Insert(n) ==
    /\ op = Idle
    /\ n \in tables
    /\ mem[n].schema # NoSchema
    /\ mem' = [mem EXCEPT ![n].rows = @ \cup {mem[n].schema}]
    /\ file' = [file EXCEPT ![n].rows = @ \cup {mem[n].schema}]
    /\ UNCHANGED << catalog, tables, op, damage, known >>

\* In memory only, as every deletion is.
DeleteAll(n) ==
    /\ op = Idle
    /\ n \in tables
    /\ mem' = [mem EXCEPT ![n].rows = {}]
    /\ UNCHANGED << catalog, file, tables, op, damage, known >>

-----------------------------------------------------------------------------
(* The process *)

\* .exit: the destructor of Database closes the tables in any order.
Exit ==
    /\ op = Idle
    /\ op' = Leaving
    /\ UNCHANGED << catalog, file, tables, mem, damage, known >>

ExitClose(n) ==
    /\ op = Leaving
    /\ n \in tables
    /\ CloseTable(n)
    /\ UNCHANGED << catalog, op, damage, known >>

\* The next process reads the catalog.
Start ==
    /\ tables' = {}
    /\ mem' = [n \in Names |-> Absent]
    /\ op' = Loading(catalog)
    /\ UNCHANGED << catalog, file, known >>

ExitStart ==
    /\ op = Leaving
    /\ tables = {}
    /\ Start
    /\ UNCHANGED damage

Killed ==
    /\ Start
    /\ damage' = damage \cup IF op.kind \in {"create", "drop"} /\ op.step = "write"
                            THEN {"torn"} ELSE {}

\* load_catalog opens the listed tables one by one.
Load(n) ==
    /\ op.kind = "load"
    /\ n \in op.rest
    /\ Open(n)
    /\ op' = Loading(op.rest \ {n})
    /\ UNCHANGED << catalog, damage, known >>

Loaded ==
    /\ op = Loading({})
    /\ op' = Idle
    /\ UNCHANGED << catalog, file, tables, mem, damage, known >>

Next ==
    \/ \E n \in Names :
          \/ \E s \in Schemas : CreateOpen(n, s)
          \/ DropClose(n) \/ Insert(n) \/ DeleteAll(n) \/ ExitClose(n) \/ Load(n)
    \/ CreateTruncate \/ CreateWrite \/ CreateSchema
    \/ DropRemove \/ DropTruncate \/ DropWrite
    \/ Exit \/ ExitStart \/ Killed \/ Loaded

Spec == Init /\ [][Next]_vars

-----------------------------------------------------------------------------
(* Properties *)

File == [schema : Schemas \cup {NoSchema}, rows : SUBSET Schemas, exists : BOOLEAN]

TypeOK ==
    /\ catalog \subseteq Names
    /\ file \in [Names -> File]
    /\ tables \subseteq Names
    /\ mem \in [Names -> File]
    /\ op \in {Idle, Leaving}
              \cup [kind : {"create"}, name : Names, schema : Schemas,
                    step : {"truncate", "write", "schema"}]
              \cup [kind : {"drop"}, name : Names,
                    step : {"remove", "truncate", "write"}]
              \cup [kind : {"load"}, rest : SUBSET Names]
    /\ damage \subseteq {"torn", "kept"}
    /\ DOMAIN known \subseteq Names
    /\ \A n \in DOMAIN known : known[n] \in Schemas

\* Between statements the catalog lists the open tables and no other, and each
\* of them has its file: what the session sees is what the next process finds,
\* whatever creates, drops and kills came before.
CatalogCurrent ==
    op = Idle => catalog = tables /\ \A n \in tables : file[n].exists

\* Every row of an open table was written with the schema that the table has,
\* so that deserialize_dynamic_row reads it right: no create, in whatever state
\* a drop or a kill has left the files, finds the rows of an earlier table.
RowsFitSchema ==
    damage = {} => \A n \in tables : mem[n].rows \subseteq {mem[n].schema}

\* A table whose CREATE was answered with success is there, with its schema,
\* after any number of kills and restarts, until it is dropped - unless a kill
\* came while the catalog was empty.
KnownTablesComeBack ==
    "torn" \notin damage /\ op = Idle =>
        \A n \in DOMAIN known : n \in tables /\ mem[n].schema = known[n]

\* Leaving the program and starting it again change no table: what a session
\* had in memory is what the files hold when their tables are closed, and what
\* the next session reads from them - unless a kill comes in between.
Contents == [n \in DOMAIN known |-> IF n \in tables THEN mem[n] ELSE file[n]]
KilledLeaving == op = Leaving /\ tables # {} /\ op' # Leaving

RestartKeepsContents ==
    [][op.kind \in {"exit", "load"} /\ ~KilledLeaving => Contents' = Contents]_vars

-----------------------------------------------------------------------------
(* What the documentation says and the code does not do *)

\* Readme.md:292-293: create_table makes "a fresh Table", so that rebuild_index
\* is "a no-op, since it's empty".
CreatedTableIsEmpty ==
    op.kind = "create" => mem[op.name].rows = {}
=============================================================================
