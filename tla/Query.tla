------------------------------- MODULE Query --------------------------------
(***************************************************************************)
(* One line of input: what the parser makes of it (Parser.tla), and, when  *)
(* that is a SELECT, the way to the rows that the executor takes           *)
(* (executor.cpp), the filter, the order and the limit (Table's            *)
(* filter_rows and order_rows, table.cpp), and the columns that it prints. *)
(* The other statements end here; RowHeap, Table and Catalog go on.        *)
(*                                                                         *)
(* A row is the sequence of its values in the order of the columns, all of *)
(* them numbers; a row of an answer carries its place in the heap as its   *)
(* identity.  The table is intact: its index leads to every row.           *)
(***************************************************************************)
EXTENDS Parser
LOCAL INSTANCE SequencesExt

CONSTANTS
    Tables,        \* tables: their schema, and the rows that were inserted
    Inputs         \* lines: the statement that was meant, the line that was
                   \* typed, and whether it is the whole of it

\* For BIGINT and FLOAT dynamic_row_format.cpp has no case.
StoredTypes == {"INT", "DOUBLE"}
Types == StoredTypes \cup {"BIGINT", "FLOAT"}

Stored(schema, i) == schema[i].type \in StoredTypes
Column(schema, name) == {i \in DOMAIN schema : schema[i].name = name}
PrimaryKey(schema) == {i \in DOMAIN schema : schema[i].primary}

ASSUME QueryAssumption ==
    /\ WORD \in Nat \ {0}
    /\ \A t \in Tables :
          /\ Cardinality(PrimaryKey(t.schema)) <= 1
          /\ \A i \in DOMAIN t.schema : t.schema[i].type \in Types
          /\ \A i \in PrimaryKey(t.schema) :
                /\ t.schema[i].type = "INT"
                /\ \A r, s \in DOMAIN t.heap :
                      Key(t.heap[r][i]) = Key(t.heap[s][i]) => r = s

VARIABLES
    asked,        \* the statement that is meant
    text,         \* the line, until it is parsed
    whole,        \* whether the line is all of the statement
    statement,    \* the statement as it was parsed
    table,        \* the table asked
    stage,        \* what comes next
    rows,         \* the rows so far
    printed,      \* the answer
    outcome       \* "ok"; "error" when one is reported; "abort" when an
                  \* exception ends the process, "undefined" when a line or a
                  \* row is read behind its end

input == << asked, whole >>
query == << input, text, statement, table >>
vars == << query, stage, rows, printed, outcome >>

Init ==
    /\ \E in \in Inputs : asked = in.asked /\ text = in.text /\ whole = in.whole
    /\ statement = Nothing
    /\ table = << >>
    /\ stage = "parse"
    /\ rows = << >>
    /\ printed = << >>
    /\ outcome = "ok"

Go(next) == stage' = next /\ UNCHANGED << printed, outcome >>

Stop(what) ==
    /\ outcome' = what
    /\ stage' = "done"
    /\ UNCHANGED << rows, printed >>

-----------------------------------------------------------------------------
(* Repl::start: the line is parsed, and executed if that succeeded *)

Parse ==
    /\ stage = "parse"
    /\ text' = << >>
    /\ LET parsed == parse(text)
       IN  /\ statement' = parsed.statement
           /\ \/ /\ parsed.statement.type = "SELECT"
                 /\ Go("table")
                 /\ UNCHANGED rows
              \/ /\ parsed.statement.type # "SELECT"
                 /\ Stop(parsed.outcome)
    /\ UNCHANGED << input, table >>

-----------------------------------------------------------------------------
(* Executor::execute, SELECT *)

\* get_table: the name leads to some table, or to none.
GetTable ==
    /\ stage = "table"
    /\ \/ /\ table' \in Tables
          /\ Go("fetch")
          /\ UNCHANGED rows
       \/ Stop("error") /\ UNCHANGED table
    /\ UNCHANGED << input, text, statement >>

\* What deserialize_dynamic_row returns of the row at place r.
RowAt(r) ==
    LET values == table.heap[r]
        kept   == SelectSeq([i \in DOMAIN values |-> i],
                            LAMBDA i : Stored(table.schema, i))
    IN  [at |-> r, values |-> [k \in DOMAIN kept |-> values[kept[k]]]]

get_all_dynamic == [r \in DOMAIN table.heap |-> RowAt(r)]

\* range_query and find_all_by_id: in the order of the keys.  The index of a
\* table without a primary key is empty.
range_query(start, end) ==
    LET KeyOf(r)    == Key(table.heap[r][CHOOSE i \in PrimaryKey(table.schema) : TRUE])
        InRange(r)  == PrimaryKey(table.schema) # {} /\ KeyOf(r) \in start .. end
        Before(r, s) == KeyOf(r) < KeyOf(s)
        places      == SetToSortSeq({r \in DOMAIN table.heap : InRange(r)}, Before)
    IN  [k \in DOMAIN places |-> RowAt(places[k])]

\* The conditions that name the primary key's value; the last one is used.
PinsKey(where) ==
    {c \in DOMAIN where : /\ where[c].op = << "=" >>
                          /\ IsNumber(where[c].value)
                          /\ \E i \in PrimaryKey(table.schema) :
                                table.schema[i].name = where[c].column}

\* The way to the rows: the range, the key that a condition pins, or all of
\* them.
Found ==
    LET pins == PinsKey(statement.conditions)
        key  == Key(Number(statement.conditions[TheLast(pins)].value))
    IN  CASE statement.is_range                 -> range_query(statement.from, statement.to)
          [] ~statement.is_range /\ pins # {}   -> range_query(key, key)
          [] ~statement.is_range /\ pins = {}   -> get_all_dynamic

\* Fault: the filter is left out behind the index.
FetchUnfiltered ==
    /\ stage = "fetch"
    /\ rows' = Found
    /\ Go(IF PinsKey(statement.conditions) = {} THEN "filter" ELSE "order")
    /\ UNCHANGED query

Fetch ==
    /\ stage = "fetch"
    /\ rows' = Found
    /\ Go("filter")
    /\ UNCHANGED query

-----------------------------------------------------------------------------
(* Table::filter_rows, Table::order_rows and the limit *)

Compare(v, op, w) ==
    CASE op = << "=" >>  -> v = w
      [] op = << "!=" >> -> v # w
      [] op = << "<" >>  -> v < w
      [] op = << ">" >>  -> v > w
      [] op = << "<=" >> -> v <= w
      [] op = << ">=" >> -> v >= w
      [] OTHER     -> TRUE

\* A column is looked up in the schema and read in the row, which is shorter
\* when a column before it was not stored.
Readable(row, name) == \A i \in Column(table.schema, name) : i <= Len(row.values)

Holds(row, cond) ==
    \E i \in Column(table.schema, cond.column) :
        IsNumber(cond.value) /\ Compare(row.values[i], cond.op, Number(cond.value))

\* The loop over the conditions stops at the first one that does not hold.
Reads(row, where) ==
    {c \in DOMAIN where : \A d \in 1 .. c - 1 :
                              Readable(row, where[d].column) /\ Holds(row, where[d])}

Filter ==
    /\ stage = "filter"
    /\ IF \E r \in DOMAIN rows : \E c \in Reads(rows[r], statement.conditions) :
             ~Readable(rows[r], statement.conditions[c].column)
       THEN Stop("undefined")
       ELSE /\ rows' = SelectSeq(rows, LAMBDA row :
                                 \A c \in DOMAIN statement.conditions :
                                     Holds(row, statement.conditions[c]))
            /\ Go("order")
    /\ UNCHANGED query

\* std::sort leaves rows of equal value in any order.
SortedBy(s, i) == \A k \in 2 .. Len(s) : s[k - 1].values[i] <= s[k].values[i]
Orders(s) ==
    {[k \in DOMAIN s |-> s[p[k]]] :
        p \in {q \in [DOMAIN s -> DOMAIN s] : \A k, l \in DOMAIN s : q[k] = q[l] => k = l}}

Order ==
    /\ stage = "order"
    /\ \/ /\ statement.order = << >> \/ Column(table.schema, statement.order) = {}
          /\ Go("limit")
          /\ UNCHANGED rows
       \/ /\ statement.order # << >>
          /\ \E i \in Column(table.schema, statement.order) :
                IF Len(rows) > 1 /\ \E r \in DOMAIN rows : i > Len(rows[r].values)
                THEN Stop("undefined")
                ELSE /\ \E s \in Orders(rows) :
                           /\ Len(s) > 1 => SortedBy(s, i)
                           /\ rows' = s
                     /\ Go("limit")
    /\ UNCHANGED query

\* Fault: the limit cuts one row too few.
LimitLoose ==
    /\ stage = "limit"
    /\ rows' = IF statement.limit.is /\ Len(rows) > statement.limit.n + 1
               THEN SubSeq(rows, 1, statement.limit.n) ELSE rows
    /\ Go("print")
    /\ UNCHANGED query

\* resize throws when it is asked for a negative number of rows.
Limit ==
    /\ stage = "limit"
    /\ IF statement.limit.is /\ Len(rows) > statement.limit.n
       THEN \/ statement.limit.n < 0 /\ Stop("abort")
            \/ /\ statement.limit.n >= 0
               /\ rows' = SubSeq(rows, 1, statement.limit.n)
               /\ Go("print")
       ELSE Go("print") /\ UNCHANGED rows
    /\ UNCHANGED query

-----------------------------------------------------------------------------
(* Printing the answer *)

\* What is printed for the columns of a select list; a name that is no column
\* gives NULL.
Cell(row, name) ==
    IF Column(table.schema, name) = {} THEN {"NULL"}
    ELSE {row.values[i] : i \in Column(table.schema, name)}

Cells(row) ==
    IF statement.select_all THEN row.values
    ELSE [k \in DOMAIN statement.select_columns |->
             CHOOSE v \in Cell(row, statement.select_columns[k]) : TRUE]

Answer ==
    /\ stage = "print"
    /\ IF /\ rows # << >> /\ ~statement.select_all
          /\ \E k \in DOMAIN statement.select_columns :
                ~Readable(rows[1], statement.select_columns[k])
       THEN Stop("undefined")
       ELSE /\ printed' = [r \in DOMAIN rows |-> Cells(rows[r])]
            /\ stage' = "done"
            /\ UNCHANGED << rows, outcome >>
    /\ UNCHANGED query

Done == stage = "done" /\ UNCHANGED vars

Next == Parse \/ GetTable \/ Fetch \/ Filter \/ Order \/ Limit \/ Answer \/ Done

Spec == Init /\ [][Next]_vars

-----------------------------------------------------------------------------
(* Properties: reading the line *)

\* The texts that take the fast path, by the conditions that were meant.
IsRange(where) ==
    /\ Len(where) >= 2
    /\ where[1].column = << "id" >> /\ where[1].op = << ">=" >>
    /\ where[2].column = << "id" >> /\ where[2].op = << "<=" >>

TakesFastPath == asked.type = "SELECT" /\ IsRange(asked.conditions)
RangeNumbers == \A c \in {1, 2} : IsNumber(asked.conditions[c].value)

BeforeMark(values) ==
    LET marks == {i \in DOMAIN values : values[i] = << ")" >>}
    IN  IF marks = {} THEN values
        ELSE SubSeq(values, 1, (CHOOSE i \in marks : \A j \in marks : i <= j) - 1)

Meant ==
    IF TakesFastPath
    THEN [asked EXCEPT !.conditions = << >>, !.is_range = TRUE,
                       !.from = Key(Number(asked.conditions[1].value)),
                       !.to = Key(Number(asked.conditions[2].value))]
    ELSE [asked EXCEPT !.raw_values = BeforeMark(@)]

\* Whatever the spaces and quotes, a line is taken for the statement that it
\* states: all of its parts, and nothing else (tokenize, Parser::parse).  Two
\* things come out otherwise: the range of the fast path, which replaces the
\* conditions, or ends the process when it is none of numbers; and a value ")",
\* which ends the values of an INSERT although it is quoted.
StatementUnderstood ==
    stage # "parse" /\ whole =>
        IF TakesFastPath /\ ~RangeNumbers THEN outcome = "abort" ELSE statement = Meant

\* s is what is left of t when its end is cut off, be it within the last item.
CutList(s, t, CutItem(_, _)) ==
    /\ Len(s) <= Len(t)
    /\ \A k \in DOMAIN s : s[k] = t[k] \/ (k = Len(s) /\ CutItem(s[k], t[k]))

\* A condition that was cut is there when something of its value is.
CutCondition(c, d) ==
    /\ c.column = d.column /\ c.op = d.op /\ IsPrefix(c.value, d.value)
    /\ c.value = << >> => d.value = << >>

\* The words that are missing may be those that make it a key, or unique.
CutColumn(c, d) == c = [d EXCEPT !.primary = FALSE, !.unique = FALSE]

\* A line that lacks its end is refused, read behind its end (SELECT and CREATE
\* only), or taken for a statement of the same kind on the same table that
\* lacks the end of its list: never for one with another condition, value or
\* column than those that were meant (the bounds checks of Parser::parse).
CutMeansLess ==
    stage # "parse" /\ ~whole =>
        /\ outcome = "undefined" => asked.type \in {"SELECT", "CREATE_TABLE"}
        /\ statement # Nothing =>
              /\ statement.type = asked.type /\ statement.table = asked.table
              /\ CutList(statement.raw_values, asked.raw_values, IsPrefix)
              /\ CutList(statement.columns, asked.columns, CutColumn)
              /\ CutList(statement.conditions, asked.conditions, CutCondition)
              /\ statement.is_range => TakesFastPath
              /\ statement.select_columns = asked.select_columns
              /\ statement.order \in {<< >>, asked.order}
              /\ statement.limit \in {NoLimit, asked.limit}
              /\ statement.update_column = asked.update_column
              /\ IsPrefix(statement.update_value, asked.update_value)

-----------------------------------------------------------------------------
(* Properties: answering a SELECT *)

\* What the where clause asks for, of the rows as they were inserted.
Wanted ==
    {r \in DOMAIN table.heap :
        \A c \in DOMAIN asked.conditions :
            Holds([at |-> r, values |-> table.heap[r]], asked.conditions[c])}

Answered == {rows[k].at : k \in DOMAIN rows}

\* The statements the code is right about: any but those that take the fast
\* path, and of them the ones that only bound the primary key, which has to be
\* called id, from numbers and keys that are not negative.
FastPathRight ==
    IsRange(asked.conditions) =>
        /\ Len(asked.conditions) = 2
        /\ RangeNumbers
        /\ \A c \in {1, 2} : Number(asked.conditions[c].value) >= 0
        /\ \E i \in PrimaryKey(table.schema) :
              /\ table.schema[i].name = << "id" >>
              /\ \A r \in DOMAIN table.heap : table.heap[r][i] >= 0

AllStored == \A i \in DOMAIN table.schema : Stored(table.schema, i)
LimitNegative == asked.limit.is /\ asked.limit.n < 0
Executed == stage = "done" /\ whole /\ table # << >> /\ AllStored
Finished == Executed /\ ~LimitNegative

\* Whichever of the three ways to the rows the executor takes, the answer is
\* the rows that the where clause asks for, each once, and of each row the
\* columns that were asked for, as they were inserted.
AnswerComplete ==
    Finished /\ FastPathRight =>
        /\ outcome = "ok"
        /\ \A k, l \in DOMAIN rows : rows[k].at = rows[l].at => k = l
        /\ \A k \in DOMAIN rows : rows[k].values = table.heap[rows[k].at]
        /\ ~asked.limit.is => Answered = Wanted
        /\ DOMAIN printed = DOMAIN rows
        /\ \A k \in DOMAIN printed :
              IF asked.select_all THEN printed[k] = table.heap[rows[k].at]
              ELSE \A c \in DOMAIN asked.select_columns :
                      \A i \in Column(table.schema, asked.select_columns[c]) :
                          printed[k][c] = table.heap[rows[k].at][i]

\* An ordered answer is in order; a limit takes as many rows as there are, up
\* to its number (none for 0), and of an ordered answer the first ones.  A
\* negative limit is no answer at all: whatever the table holds, even no row,
\* the process ends before anything is printed (executor.cpp:122-123).
AnswerOrdered ==
    /\ Executed /\ FastPathRight /\ LimitNegative =>
          outcome = "abort" /\ printed = << >>
    /\ Finished /\ FastPathRight =>
        /\ Answered \subseteq Wanted
        /\ asked.limit.is =>
              /\ Len(rows) <= asked.limit.n
              /\ Len(rows) < asked.limit.n => Answered = Wanted
        /\ \A i \in Column(table.schema, asked.order) :
              /\ SortedBy(rows, i)
              /\ \A k \in DOMAIN rows : \A r \in Wanted \ Answered :
                    rows[k].values[i] <= table.heap[r][i]

-----------------------------------------------------------------------------
(* What the documentation says and the code does not do *)

\* Readme.md:236-241: the fast path is taken by a condition that is "exactly"
\* a range of id, "so it can use the B+ tree's range scan instead of a full
\* table scan": the answer should be that of the scan.
FastPathAnswers == Finished /\ outcome = "ok" /\ ~asked.limit.is => Answered = Wanted

\* Readme.md:160-171: every column is serialized, an INT64 in 8 bytes.
RowsComeBack ==
    stage = "done" => \A k \in DOMAIN rows : rows[k].values = table.heap[rows[k].at]

\* Readme.md:232-234: parse "returns false with a human-readable error string
\* for malformed input": a DELETE or an UPDATE whose where clause was cut short
\* has as many conditions as were begun, and does not go to all rows.
CutIsRefused ==
    stage # "parse" /\ ~whole /\ statement # Nothing =>
        (statement.conditions = << >> => asked.conditions = << >>)
=============================================================================
