--------------------------- MODULE CatalogProofs ----------------------------
(***************************************************************************)
(* Proofs about Catalog, for any number of tables and schemas and wherever *)
(* the process is killed: the catalog lists the open tables, their rows    *)
(* have their schema, tables come back with the schema they were created   *)
(* with, and a restart changes none of them.                               *)
(*                                                                         *)
(* What the properties say of the time between statements says nothing of  *)
(* the steps of CREATE and DROP, at each of which a kill may end the       *)
(* process, and nothing of the files without a table that kills leave, of  *)
(* which CREATE opens one.  IInv says what holds there.                    *)
(***************************************************************************)
EXTENDS Catalog, TLAPS

\* What the catalog file lists, by what the process is doing.
Listing ==
    /\ op.kind = "idle" => catalog = tables
    /\ op.kind = "create" =>
          /\ op.name \in tables
          /\ op.step = "truncate" => catalog = tables \ {op.name}
          /\ op.step = "write" => catalog = {}
          /\ op.step = "schema" => catalog = tables
    /\ op.kind = "drop" =>
          /\ op.name \notin tables
          /\ op.step \in {"remove", "truncate"} => catalog = tables \cup {op.name}
          /\ op.step = "write" => catalog = {}
    /\ op.kind = "load" => catalog = tables \cup op.rest /\ op.rest \cap tables = {}
    /\ op.kind = "exit" => tables \subseteq catalog

\* An open table and its file have one schema, and just after it was opened
\* they are the same.
Opened ==
    \A n \in tables :
        /\ file[n].exists /\ mem[n].exists
        /\ file[n].schema = mem[n].schema
        /\ op.kind = "load" => mem[n] = file[n]

\* The names that the process or the next one knows of.
Listed == IF op.kind \in {"create", "drop"} THEN tables ELSE catalog

\* A file fits its schema as a table does; one that CREATE may open has no
\* rows, and CREATE itself adds none.
FilesFit ==
    damage = {} =>
        /\ \A n \in Names : file[n].rows \subseteq {file[n].schema}
        /\ \A n \in tables : mem[n].rows \subseteq {mem[n].schema}
        /\ \A n \in Names \ Listed :
              file[n].rows = {} \/ (op.kind = "drop" /\ op.step = "remove" /\ op.name = n)
        /\ op.kind = "create" => file[op.name].rows = {} /\ mem[op.name].rows = {}

\* A known table has its file, and is in the catalog that comes next.
KnownKept ==
    /\ \A n \in DOMAIN known : file[n].exists
    /\ op.kind = "drop" => op.name \notin DOMAIN known
    /\ "torn" \notin damage =>
          /\ \A n \in DOMAIN known : n \in Listed /\ file[n].schema = known[n]
          /\ op.kind = "create" => op.name \notin DOMAIN known

IInv ==
    /\ TypeOK
    /\ Listing
    /\ Opened
    /\ FilesFit
    /\ KnownKept

-----------------------------------------------------------------------------

\* Before the first statement there is nothing.
LEMMA InitIInv == Init => IInv
  BY DEF Init, IInv, TypeOK, Listing, Opened, Listed, FilesFit, KnownKept, Idle, File,
         Absent

-----------------------------------------------------------------------------
(* Every action preserves IInv *)

\* CREATE opens a file that no table of the catalog has, which is why it is empty.
LEMMA CreateOpenIInv ==
    ASSUME NEW n \in Names, NEW s \in Schemas, IInv, CreateOpen(n, s)
    PROVE  IInv'
  <1>1. TypeOK'
    BY DEF IInv, TypeOK, File, Idle, Leaving, CreateOpen, Open, Creating, EmptyFile,
           Absent
  <1>2. Listing'
    BY DEF IInv, TypeOK, Listing, Idle, Leaving, CreateOpen, Open, Creating,
           EmptyFile, Absent
  <1>3. Opened'
    BY DEF IInv, TypeOK, Listing, Opened, File, Idle, Leaving, CreateOpen, Open,
           Creating, EmptyFile, Absent
  <1>4. FilesFit'
    BY DEF IInv, TypeOK, Listing, Opened, FilesFit, Listed, File, Idle, Leaving,
           CreateOpen, Open, Creating, EmptyFile, Absent
  <1>5. KnownKept'
    BY DEF IInv, TypeOK, Listing, Opened, KnownKept, Listed, File, Idle, Leaving,
           CreateOpen, Open, Creating, EmptyFile, Absent
  <1> QED
    BY <1>1, <1>2, <1>3, <1>4, <1>5 DEF IInv

LEMMA CreateTruncateIInv ==
    ASSUME IInv, CreateTruncate
    PROVE  IInv'
  <1>1. TypeOK'
    BY DEF IInv, TypeOK, File, Idle, Leaving, CreateTruncate, PersistTruncate
  <1>2. Listing'
    BY DEF IInv, TypeOK, Listing, Idle, Leaving, CreateTruncate, PersistTruncate
  <1>3. Opened'
    BY DEF IInv, TypeOK, Listing, Opened, File, Idle, Leaving, CreateTruncate,
           PersistTruncate
  <1>4. FilesFit'
    BY DEF IInv, TypeOK, Listing, Opened, FilesFit, Listed, File, Idle, Leaving,
           CreateTruncate, PersistTruncate
  <1>5. KnownKept'
    BY DEF IInv, TypeOK, Listing, Opened, KnownKept, Listed, File, Idle, Leaving,
           CreateTruncate, PersistTruncate
  <1> QED
    BY <1>1, <1>2, <1>3, <1>4, <1>5 DEF IInv

LEMMA CreateWriteIInv ==
    ASSUME IInv, CreateWrite
    PROVE  IInv'
  <1>1. TypeOK'
    BY DEF IInv, TypeOK, File, Idle, Leaving, CreateWrite, PersistWrite
  <1>2. Listing'
    BY DEF IInv, TypeOK, Listing, Idle, Leaving, CreateWrite, PersistWrite
  <1>3. Opened'
    BY DEF IInv, TypeOK, Listing, Opened, File, Idle, Leaving, CreateWrite, PersistWrite
  <1>4. FilesFit'
    BY DEF IInv, TypeOK, Listing, Opened, FilesFit, Listed, File, Idle, Leaving,
           CreateWrite, PersistWrite
  <1>5. KnownKept'
    BY DEF IInv, TypeOK, Listing, Opened, KnownKept, Listed, File, Idle, Leaving,
           CreateWrite, PersistWrite
  <1> QED
    BY <1>1, <1>2, <1>3, <1>4, <1>5 DEF IInv

\* The table becomes known with the schema that is now in its file, and with no rows.
LEMMA CreateSchemaIInv ==
    ASSUME IInv, CreateSchema
    PROVE  IInv'
  <1>1. TypeOK'
    <2>1. op.name \in Names /\ op.schema \in Schemas
      BY DEF IInv, TypeOK, Idle, Leaving, CreateSchema
    <2>2. file' \in [Names -> File] /\ mem' \in [Names -> File]
      BY <2>1 DEF IInv, TypeOK, File, CreateSchema, set_schema
    <2>3. /\ DOMAIN known' \subseteq Names
          /\ \A n \in DOMAIN known' : known'[n] \in Schemas
      BY <2>1 DEF IInv, TypeOK, CreateSchema
    <2> QED
      BY <2>2, <2>3 DEF IInv, TypeOK, Idle, CreateSchema
  <1>2. Listing'
    BY DEF IInv, TypeOK, Listing, Idle, Leaving, CreateSchema, set_schema
  <1>3. Opened'
    BY DEF IInv, TypeOK, Listing, Opened, File, Idle, Leaving, CreateSchema, set_schema
  <1>4. FilesFit'
    BY DEF IInv, TypeOK, Listing, Opened, FilesFit, Listed, File, Idle, Leaving,
           CreateSchema, set_schema
  <1>5. KnownKept'
    BY DEF IInv, TypeOK, Listing, Opened, KnownKept, Listed, File, Idle, Leaving,
           CreateSchema, set_schema
  <1> QED
    BY <1>1, <1>2, <1>3, <1>4, <1>5 DEF IInv

\* The table is closed and no longer known, but still listed.
LEMMA DropCloseIInv ==
    ASSUME NEW n \in Names, IInv, DropClose(n)
    PROVE  IInv'
  <1>1. TypeOK'
    BY DEF IInv, TypeOK, File, Idle, Leaving, DropClose, CloseTable, Dropping,
           Unknown, Absent
  <1>2. Listing'
    BY DEF IInv, TypeOK, Listing, Idle, Leaving, DropClose, CloseTable, Dropping,
           Unknown, Absent
  <1>3. Opened'
    BY DEF IInv, TypeOK, Listing, Opened, File, Idle, Leaving, DropClose, CloseTable,
           Dropping, Unknown, Absent
  <1>4. FilesFit'
    BY DEF IInv, TypeOK, Listing, Opened, FilesFit, Listed, File, Idle, Leaving,
           DropClose, CloseTable, Dropping, Unknown, Absent
  <1>5. KnownKept'
    BY DEF IInv, TypeOK, Listing, Opened, KnownKept, Listed, File, Idle, Leaving,
           DropClose, CloseTable, Dropping, Unknown, Absent
  <1> QED
    BY <1>1, <1>2, <1>3, <1>4, <1>5 DEF IInv

\* A removal that fails leaves rows behind, and damage says so.
LEMMA DropRemoveIInv ==
    ASSUME IInv, DropRemove
    PROVE  IInv'
  <1>1. TypeOK'
    <2>1. op \in [kind : {"drop"}, name : Names, step : {"remove", "truncate", "write"}]
      BY DEF IInv, TypeOK, Idle, Leaving, DropRemove
    <2>2. op' \in [kind : {"drop"}, name : Names, step : {"remove", "truncate", "write"}]
      BY <2>1 DEF DropRemove
    <2>3. Absent \in File
      BY DEF Absent, File
    <2>4. file' = [file EXCEPT ![op.name] = Absent] \/ file' = file
      BY DEF DropRemove
    <2>5. file' \in [Names -> File]
      BY <2>3, <2>4 DEF IInv, TypeOK
    <2> QED
      BY <2>2, <2>5 DEF IInv, TypeOK, DropRemove
  <1>2. Listing'
    BY DEF IInv, TypeOK, Listing, Idle, Leaving, DropRemove, Absent
  <1>3. Opened'
    BY DEF IInv, TypeOK, Listing, Opened, File, Idle, Leaving, DropRemove, Absent
  <1>4. FilesFit'
    BY DEF IInv, TypeOK, Listing, Opened, FilesFit, Listed, File, Idle, Leaving,
           DropRemove, Absent
  <1>5. KnownKept'
    <2>1. /\ op'.kind = "drop" /\ op'.name = op.name /\ op.kind = "drop"
          /\ Listed' = Listed
      BY DEF IInv, TypeOK, Idle, Leaving, Listed, DropRemove
    <2>2. \A n \in DOMAIN known : file'[n] = file[n]
      BY DEF IInv, TypeOK, KnownKept, DropRemove
    <2> QED
      BY <2>1, <2>2 DEF IInv, KnownKept, DropRemove
  <1> QED
    BY <1>1, <1>2, <1>3, <1>4, <1>5 DEF IInv

LEMMA DropTruncateIInv ==
    ASSUME IInv, DropTruncate
    PROVE  IInv'
  <1>1. TypeOK'
    BY DEF IInv, TypeOK, File, Idle, Leaving, DropTruncate, PersistTruncate
  <1>2. Listing'
    BY DEF IInv, TypeOK, Listing, Idle, Leaving, DropTruncate, PersistTruncate
  <1>3. Opened'
    BY DEF IInv, TypeOK, Listing, Opened, File, Idle, Leaving, DropTruncate,
           PersistTruncate
  <1>4. FilesFit'
    BY DEF IInv, TypeOK, Listing, Opened, FilesFit, Listed, File, Idle, Leaving,
           DropTruncate, PersistTruncate
  <1>5. KnownKept'
    BY DEF IInv, TypeOK, Listing, Opened, KnownKept, Listed, File, Idle, Leaving,
           DropTruncate, PersistTruncate
  <1> QED
    BY <1>1, <1>2, <1>3, <1>4, <1>5 DEF IInv

LEMMA DropWriteIInv ==
    ASSUME IInv, DropWrite
    PROVE  IInv'
  <1>1. TypeOK'
    BY DEF IInv, TypeOK, File, Idle, Leaving, DropWrite, PersistWrite
  <1>2. Listing'
    BY DEF IInv, TypeOK, Listing, Idle, Leaving, DropWrite, PersistWrite
  <1>3. Opened'
    BY DEF IInv, TypeOK, Listing, Opened, File, Idle, Leaving, DropWrite, PersistWrite
  <1>4. FilesFit'
    BY DEF IInv, TypeOK, Listing, Opened, FilesFit, Listed, File, Idle, Leaving,
           DropWrite, PersistWrite
  <1>5. KnownKept'
    BY DEF IInv, TypeOK, Listing, Opened, KnownKept, Listed, File, Idle, Leaving,
           DropWrite, PersistWrite
  <1> QED
    BY <1>1, <1>2, <1>3, <1>4, <1>5 DEF IInv

LEMMA InsertIInv ==
    ASSUME NEW n \in Names, IInv, Insert(n)
    PROVE  IInv'
  <1>1. TypeOK'
    BY DEF IInv, TypeOK, File, Idle, Leaving, Insert
  <1>2. Listing'
    BY DEF IInv, TypeOK, Listing, Idle, Leaving, Insert
  <1>3. Opened'
    BY DEF IInv, TypeOK, Listing, Opened, File, Idle, Leaving, Insert
  <1>4. FilesFit'
    BY DEF IInv, TypeOK, Listing, Opened, FilesFit, Listed, File, Idle, Leaving, Insert
  <1>5. KnownKept'
    BY DEF IInv, TypeOK, Listing, Opened, KnownKept, Listed, File, Idle, Leaving, Insert
  <1> QED
    BY <1>1, <1>2, <1>3, <1>4, <1>5 DEF IInv

LEMMA DeleteAllIInv ==
    ASSUME NEW n \in Names, IInv, DeleteAll(n)
    PROVE  IInv'
  <1>1. TypeOK'
    BY DEF IInv, TypeOK, File, Idle, Leaving, DeleteAll
  <1>2. Listing'
    BY DEF IInv, TypeOK, Listing, Idle, Leaving, DeleteAll
  <1>3. Opened'
    BY DEF IInv, TypeOK, Listing, Opened, File, Idle, Leaving, DeleteAll
  <1>4. FilesFit'
    BY DEF IInv, TypeOK, Listing, Opened, FilesFit, Listed, File, Idle, Leaving,
           DeleteAll
  <1>5. KnownKept'
    BY DEF IInv, TypeOK, Listing, Opened, KnownKept, Listed, File, Idle, Leaving,
           DeleteAll
  <1> QED
    BY <1>1, <1>2, <1>3, <1>4, <1>5 DEF IInv

LEMMA ExitIInv ==
    ASSUME IInv, Exit
    PROVE  IInv'
  <1>1. TypeOK'
    BY DEF IInv, TypeOK, File, Idle, Leaving, Exit
  <1>2. Listing'
    BY DEF IInv, TypeOK, Listing, Idle, Leaving, Exit
  <1>3. Opened'
    BY DEF IInv, TypeOK, Listing, Opened, File, Idle, Leaving, Exit
  <1>4. FilesFit'
    BY DEF IInv, TypeOK, Listing, Opened, FilesFit, Listed, File, Idle, Leaving, Exit
  <1>5. KnownKept'
    BY DEF IInv, TypeOK, Listing, Opened, KnownKept, Listed, File, Idle, Leaving, Exit
  <1> QED
    BY <1>1, <1>2, <1>3, <1>4, <1>5 DEF IInv

\* What the table has in memory becomes what its file holds.
LEMMA ExitCloseIInv ==
    ASSUME NEW n \in Names, IInv, ExitClose(n)
    PROVE  IInv'
  <1>1. TypeOK'
    BY DEF IInv, TypeOK, File, Idle, Leaving, ExitClose, CloseTable, Absent
  <1>2. Listing'
    BY DEF IInv, TypeOK, Listing, Idle, Leaving, ExitClose, CloseTable, Absent
  <1>3. Opened'
    BY DEF IInv, TypeOK, Listing, Opened, File, Idle, Leaving, ExitClose, CloseTable,
           Absent
  <1>4. FilesFit'
    BY DEF IInv, TypeOK, Listing, Opened, FilesFit, Listed, File, Idle, Leaving,
           ExitClose, CloseTable, Absent
  <1>5. KnownKept'
    BY DEF IInv, TypeOK, Listing, Opened, KnownKept, Listed, File, Idle, Leaving,
           ExitClose, CloseTable, Absent
  <1> QED
    BY <1>1, <1>2, <1>3, <1>4, <1>5 DEF IInv

LEMMA ExitStartIInv ==
    ASSUME IInv, ExitStart
    PROVE  IInv'
  <1>1. TypeOK'
    BY DEF IInv, TypeOK, File, Idle, Leaving, ExitStart, Start, Loading, Absent
  <1>2. Listing'
    BY DEF IInv, TypeOK, Listing, Idle, Leaving, ExitStart, Start, Loading, Absent
  <1>3. Opened'
    BY DEF IInv, TypeOK, Listing, Opened, File, Idle, Leaving, ExitStart, Start,
           Loading, Absent
  <1>4. FilesFit'
    BY DEF IInv, TypeOK, Listing, Opened, FilesFit, Listed, File, Idle, Leaving,
           ExitStart, Start, Loading, Absent
  <1>5. KnownKept'
    BY DEF IInv, TypeOK, Listing, Opened, KnownKept, Listed, File, Idle, Leaving,
           ExitStart, Start, Loading, Absent
  <1> QED
    BY <1>1, <1>2, <1>3, <1>4, <1>5 DEF IInv

\* A kill leaves the file of an unfinished CREATE without rows, and that of a
\* DROP in the catalog until it is removed; in between the catalog is torn.
LEMMA KilledIInv ==
    ASSUME IInv, Killed
    PROVE  IInv'
  <1>1. TypeOK'
    BY DEF IInv, TypeOK, File, Idle, Leaving, Killed, Start, Loading, Absent
  <1>2. Listing'
    BY DEF IInv, TypeOK, Listing, Idle, Leaving, Killed, Start, Loading, Absent
  <1>3. Opened'
    BY DEF IInv, TypeOK, Listing, Opened, File, Idle, Leaving, Killed, Start, Loading,
           Absent
  <1>4. FilesFit'
    <2> SUFFICES ASSUME damage' = {}
                 PROVE  \A n \in Names \ catalog : file[n].rows = {}
      BY DEF IInv, FilesFit, Listed, Killed, Start, Loading
    <2>1. CASE op.kind = "create"
      BY <2>1 DEF IInv, TypeOK, Listing, FilesFit, Listed, Idle, Leaving, Killed
    <2>2. CASE op.kind = "drop"
      BY <2>2 DEF IInv, TypeOK, Listing, FilesFit, Listed, Idle, Leaving, Killed
    <2>3. CASE op.kind \notin {"create", "drop"}
      BY <2>3 DEF IInv, FilesFit, Listed, Killed
    <2> QED
      BY <2>1, <2>2, <2>3
  <1>5. KnownKept'
    BY DEF IInv, TypeOK, Listing, Opened, KnownKept, Listed, File, Idle, Leaving,
           Killed, Start, Loading, Absent
  <1> QED
    BY <1>1, <1>2, <1>3, <1>4, <1>5 DEF IInv

\* A listed table has its file, which Open finds.
LEMMA LoadIInv ==
    ASSUME NEW n \in Names, IInv, Load(n)
    PROVE  IInv'
  <1>1. TypeOK'
    BY DEF IInv, TypeOK, File, Idle, Leaving, Load, Open, Loading, EmptyFile, Absent
  <1>2. Listing'
    BY DEF IInv, TypeOK, Listing, Idle, Leaving, Load, Open, Loading, EmptyFile, Absent
  <1>3. Opened'
    BY DEF IInv, TypeOK, Listing, Opened, File, Idle, Leaving, Load, Open, Loading,
           EmptyFile, Absent
  <1>4. FilesFit'
    BY DEF IInv, TypeOK, Listing, Opened, FilesFit, Listed, File, Idle, Leaving, Load,
           Open, Loading, EmptyFile, Absent
  <1>5. KnownKept'
    BY DEF IInv, TypeOK, Listing, Opened, KnownKept, Listed, File, Idle, Leaving,
           Load, Open, Loading, EmptyFile, Absent
  <1> QED
    BY <1>1, <1>2, <1>3, <1>4, <1>5 DEF IInv

LEMMA LoadedIInv ==
    ASSUME IInv, Loaded
    PROVE  IInv'
  <1>1. TypeOK'
    BY DEF IInv, TypeOK, File, Idle, Leaving, Loaded, Loading
  <1>2. Listing'
    BY DEF IInv, TypeOK, Listing, Idle, Leaving, Loaded, Loading
  <1>3. Opened'
    BY DEF IInv, TypeOK, Listing, Opened, File, Idle, Leaving, Loaded, Loading
  <1>4. FilesFit'
    BY DEF IInv, TypeOK, Listing, Opened, FilesFit, Listed, File, Idle, Leaving,
           Loaded, Loading
  <1>5. KnownKept'
    BY DEF IInv, TypeOK, Listing, Opened, KnownKept, Listed, File, Idle, Leaving,
           Loaded, Loading
  <1> QED
    BY <1>1, <1>2, <1>3, <1>4, <1>5 DEF IInv

LEMMA NextIInv == IInv /\ [Next]_vars => IInv'
  <1> SUFFICES ASSUME IInv, [Next]_vars
               PROVE  IInv'
    OBVIOUS
  <1>1. CASE \E n \in Names, s \in Schemas : CreateOpen(n, s)
    BY <1>1, CreateOpenIInv
  <1>2. CASE CreateTruncate
    BY <1>2, CreateTruncateIInv
  <1>3. CASE CreateWrite
    BY <1>3, CreateWriteIInv
  <1>4. CASE CreateSchema
    BY <1>4, CreateSchemaIInv
  <1>5. CASE \E n \in Names : DropClose(n)
    BY <1>5, DropCloseIInv
  <1>6. CASE DropRemove
    BY <1>6, DropRemoveIInv
  <1>7. CASE DropTruncate
    BY <1>7, DropTruncateIInv
  <1>8. CASE DropWrite
    BY <1>8, DropWriteIInv
  <1>9. CASE \E n \in Names : Insert(n)
    BY <1>9, InsertIInv
  <1>10. CASE \E n \in Names : DeleteAll(n)
    BY <1>10, DeleteAllIInv
  <1>11. CASE Exit
    BY <1>11, ExitIInv
  <1>12. CASE \E n \in Names : ExitClose(n)
    BY <1>12, ExitCloseIInv
  <1>13. CASE ExitStart
    BY <1>13, ExitStartIInv
  <1>14. CASE Killed
    BY <1>14, KilledIInv
  <1>15. CASE \E n \in Names : Load(n)
    BY <1>15, LoadIInv
  <1>16. CASE Loaded
    BY <1>16, LoadedIInv
  <1>17. CASE UNCHANGED vars
    BY <1>17 DEF vars, IInv, TypeOK, Listing, Opened, Listed, FilesFit, KnownKept
  <1> QED
    BY <1>1, <1>2, <1>3, <1>4, <1>5, <1>6, <1>7, <1>8, <1>9,
       <1>10, <1>11, <1>12, <1>13, <1>14, <1>15, <1>16, <1>17 DEF Next

THEOREM Invariance == Spec => []IInv
  BY InitIInv, NextIInv, PTL DEF Spec

-----------------------------------------------------------------------------
(* The properties *)

\* The state keeps its type, however many tables there are and wherever the
\* process is killed.
THEOREM TypeCorrect == Spec => []TypeOK
  <1>1. IInv => TypeOK
    BY DEF IInv
  <1> QED
    BY <1>1, Invariance, PTL

\* Between statements the catalog lists the open tables and no other, and each
\* has its file (Database::create_table, drop_table, persist_catalog).
THEOREM CatalogIsCurrent == Spec => []CatalogCurrent
  <1>1. IInv => CatalogCurrent
    BY DEF IInv, Listing, Opened, CatalogCurrent, Idle
  <1> QED
    BY <1>1, Invariance, PTL

\* An open table has no rows of another schema than its own, unless a kill tore
\* the catalog or a removal failed (Table's constructor opens what it finds).
THEOREM StoredRowsFit == Spec => []RowsFitSchema
  <1>1. IInv => RowsFitSchema
    BY DEF IInv, TypeOK, Opened, FilesFit, File, RowsFitSchema
  <1> QED
    BY <1>1, Invariance, PTL

\* A table whose CREATE was answered with success is back after every restart,
\* with its schema (Database::load_catalog).
THEOREM TablesComeBack == Spec => []KnownTablesComeBack
  <1>1. IInv => KnownTablesComeBack
    BY DEF IInv, TypeOK, Listing, Opened, Listed, KnownKept, Idle, KnownTablesComeBack
  <1> QED
    BY <1>1, Invariance, PTL

\* Leaving the program and starting it again change no table (the destructors of
\* Database and Table, then load_catalog), whatever was killed before.
THEOREM RestartIsFaithful == Spec => RestartKeepsContents
  <1> DEFINE Restarting == op.kind \in {"exit", "load"} /\ ~KilledLeaving
  <1>1. ASSUME IInv, [Next]_vars
        PROVE  [Restarting => Contents' = Contents]_vars
    <2> SUFFICES ASSUME Restarting, Next
                 PROVE  Contents' = Contents
      BY <1>1
    <2>1. \/ ExitStart \/ Killed \/ Loaded
          \/ \E m \in Names : ExitClose(m) \/ Load(m)
      BY DEF Next, CreateOpen, CreateTruncate, CreateWrite, CreateSchema, DropClose,
            DropRemove, DropTruncate, DropWrite, Insert, DeleteAll, Exit, Idle
    <2>2. known' = known /\ DOMAIN known \subseteq Names
      BY <1>1, <2>1 DEF IInv, TypeOK, ExitClose, ExitStart, Start, Killed, Load, Loaded
    <2> SUFFICES ASSUME NEW n \in DOMAIN known
                 PROVE  (IF n \in tables THEN mem[n] ELSE file[n])'
                            = IF n \in tables THEN mem[n] ELSE file[n]
      BY <2>2 DEF Contents
    <2>3. CASE \E m \in Names : ExitClose(m)
      BY <1>1, <2>2, <2>3 DEF IInv, TypeOK, ExitClose, CloseTable
    <2>4. CASE ExitStart
      BY <2>4 DEF ExitStart, Start
    <2>5. CASE Killed
      <3>1. CASE op.kind = "exit"
        BY <1>1, <2>5, <3>1 DEF IInv, TypeOK, KilledLeaving, Killed, Start, Idle,
              Leaving, Loading
      <3>2. CASE op.kind = "load"
        BY <1>1, <2>2, <2>5, <3>2 DEF IInv, Opened, Killed, Start
      <3> QED
        BY <3>1, <3>2
    <2>6. CASE \E m \in Names : Load(m)
      BY <1>1, <2>2, <2>6 DEF IInv, TypeOK, Listing, KnownKept, Load, Open
    <2>7. CASE Loaded
      BY <2>7 DEF Loaded
    <2> QED
      BY <2>1, <2>3, <2>4, <2>5, <2>6, <2>7
  <1> QED
    BY <1>1, Invariance, PTL DEF Spec, RestartKeepsContents
=============================================================================
