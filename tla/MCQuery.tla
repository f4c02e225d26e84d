------------------------------ MODULE MCQuery -------------------------------
(* Instances of Query for TLC. *)
EXTENDS Query
LOCAL INSTANCE SequencesExt

CONSTANT
    HeapSize     \* the number of rows at most

\* The numbers in rows and conditions, those in limits, and how they are written.
Numbers == {-1, 1, 2}
LimitNumbers == Numbers \cup {0}
Numeral(n) == CASE n = -1 -> "-1" [] n = 0 -> "0" [] n = 1 -> "1" [] n = 2 -> "2"
MCNumerals == [word \in {Numeral(n) : n \in LimitNumbers} |->
                  CHOOSE n \in LimitNumbers : Numeral(n) = word]

-----------------------------------------------------------------------------
(* Tables *)

Plain(name) == [name |-> << name >>, type |-> "INT", primary |-> FALSE]
Primary(name) == [name |-> << name >>, type |-> "INT", primary |-> TRUE]
Big(name) == [name |-> << name >>, type |-> "BIGINT", primary |-> FALSE]

\* With the primary key called id; with another one; with none; and with a
\* column that is not stored.
MCSchemas ==
    {<< Primary("id"), Plain("a") >>, << Plain("id"), Primary("a") >>,
     << Plain("id"), Plain("a") >>, << Primary("id"), Big("b"), Plain("a") >>}

Heaps(schema) ==
    {heap \in UNION {[1 .. n -> [DOMAIN schema -> Numbers]] : n \in 0 .. HeapSize} :
        \A i \in DOMAIN schema : \A r, s \in DOMAIN heap :
            /\ schema[i].primary /\ Key(heap[r][i]) = Key(heap[s][i]) => r = s
            \* what is not stored is of no interest
            /\ schema[i].type = "BIGINT" => heap[r][i] = 1}

MCTables ==
    UNION {{[schema |-> schema, heap |-> heap] : heap \in Heaps(schema)} :
              schema \in MCSchemas}

-----------------------------------------------------------------------------
(* Statements *)

Cond(column, op, n) ==
    [column |-> << column >>, op |-> << op >>, value |-> << Numeral(n) >>]
TextCond(column, op, value) == [column |-> << column >>, op |-> << op >>, value |-> value]

CondsOn(columns, ops) ==
    {Cond(column, op, value) : column \in columns, op \in ops, value \in Numbers}

First  == CondsOn({"id"}, {"=", ">=", "<="})
          \cup {TextCond("id", op, << "x" >>) : op \in {">=", "="}}
Second == CondsOn({"id", "a"}, {"=", "<="})
          \cup {TextCond("id", "<=", << "x" >>), Cond("c", "=", 1)}

Clauses ==
    {<< >>}
    \cup {<< c >> : c \in CondsOn({"id", "a"}, {"=", "!=", "<", ">"}) \cup First}
    \cup {<< c, d >> : c \in First, d \in Second}
    \cup {<< Cond("id", ">=", v), Cond("id", "<=", w), Cond("a", "=", x) >> :
             v, w, x \in Numbers}

Limits == {NoLimit} \cup [is : {TRUE}, n : LimitNumbers]

Select(where) == [Statement("SELECT", << "t" >>) EXCEPT !.select_all = TRUE, !.conditions = where]
SelectOf(columns, where) ==
    [Statement("SELECT", << "t" >>) EXCEPT !.select_columns = columns, !.conditions = where]

\* Every where clause alone, and a few with all that can follow.
Selects ==
    {Select(where) : where \in Clauses}
    \cup {[Select(where) EXCEPT !.order = order, !.limit = limit] :
            where \in {<< >>, << Cond("a", ">=", 1) >>,
                       << Cond("id", ">=", 1), Cond("id", "<=", 2) >>},
            order \in {<< >>, << "id" >>, << "a" >>, << "c" >>}, limit \in Limits}
    \cup {SelectOf(columns, << Cond("id", ">", 1) >>) :
            columns \in {<< << "a" >>, << "id" >> >>, << << "c" >> >>}}

\* Values that need quotes, and some that only look like something else.
Values == {<< "1" >>, << >>, << "x", " ", "y" >>, << "x", ",", "y" >>, << ")" >>, << "and" >>}

Lists == UNION {[1 .. n -> Values] : n \in 0 .. 2}
Wheres ==
    {<< >>, << Cond("id", "=", 1) >>}
    \cup {<< TextCond("a", "!=", v), Cond("id", "<=", 2) >> : v \in Values}
    \cup {<< Cond("id", ">=", 1), Cond("id", "<=", 2) >>}

Col(name, type, primary, unique) ==
    [name |-> << name >>, type |-> type, primary |-> primary, unique |-> unique]

Others ==
    {[Statement("INSERT", << "t" >>) EXCEPT !.raw_values = values] : values \in Lists}
    \cup {[Statement("DELETE", << "t" >>) EXCEPT !.conditions = where] : where \in Wheres}
    \cup {[Statement("UPDATE", << "t" >>) EXCEPT
              !.update_column = << "a" >>, !.update_value = v, !.conditions = where] :
            v \in Values, where \in Wheres}
    \cup {[Statement("CREATE_TABLE", << "t" >>) EXCEPT !.columns = columns] :
            columns \in {<< Col("id", "INT", TRUE, FALSE) >>,
                         << Col("id", "INT", TRUE, FALSE), Col("a", "TEXT", FALSE, TRUE) >>,
                         << Col("a", "BIGINT", FALSE, TRUE), Col("id", "INT", TRUE, FALSE),
                            Col("b", "BOOL", FALSE, FALSE) >>}}
    \cup {Statement("DROP_TABLE", << "t" >>)}

-----------------------------------------------------------------------------
(* Lines *)

\* A value is quoted unless it is a single word.
Written(value) ==
    IF Len(value) = 1 /\ value[1] \notin Punctuation THEN value
    ELSE << Quote >> \o value \o << Quote >>

W(word) == << << word >> >>

\* Lists of pieces, one of which stands between any two others.
Join(lists, between) ==
    FoldLeft(LAMBDA s, list : IF s = << >> THEN list ELSE s \o between \o list, << >>, lists)

CondPieces(c) == << c.column, c.op, Written(c.value) >>
WherePieces(where) ==
    IF where = << >> THEN << >>
    ELSE W("where") \o Join([k \in DOMAIN where |-> CondPieces(where[k])], W("and"))

ColumnPieces(c) ==
    << c.name, << c.type >> >>
    \o (IF c.primary THEN W("primary") \o W("key") ELSE << >>)
    \o (IF c.unique THEN W("unique") ELSE << >>)

Pieces(s) ==
    CASE s.type = "INSERT" ->
            W("insert") \o W("into") \o << s.table >> \o W("values") \o W("(")
            \o Join([k \in DOMAIN s.raw_values |-> << Written(s.raw_values[k]) >>], W(","))
            \o W(")")
      [] s.type = "SELECT" ->
            W("select")
            \o (IF s.select_all THEN W("*")
                ELSE Join([k \in DOMAIN s.select_columns |-> << s.select_columns[k] >>], W(",")))
            \o W("from") \o << s.table >> \o WherePieces(s.conditions)
            \o (IF s.order = << >> THEN << >> ELSE W("order") \o W("by") \o << s.order >>)
            \o (IF s.limit.is THEN W("limit") \o W(Numeral(s.limit.n)) ELSE << >>)
      [] s.type = "DELETE" ->
            W("delete") \o W("from") \o << s.table >> \o WherePieces(s.conditions)
      [] s.type = "UPDATE" ->
            W("update") \o << s.table >> \o W("set") \o << s.update_column >> \o W("=")
            \o << Written(s.update_value) >> \o WherePieces(s.conditions)
      [] s.type = "CREATE_TABLE" ->
            W("create") \o W("table") \o << s.table >> \o W("(")
            \o Join([k \in DOMAIN s.columns |-> ColumnPieces(s.columns[k])], W(","))
            \o W(")")
      [] s.type = "DROP_TABLE" -> W("drop") \o W("table") \o << s.table >>

\* Spaces everywhere; or only between two words, and a semicolon at the end.
IsMark(piece) == Len(piece) = 1 /\ piece[1] \in Punctuation
Line(pieces, tight) ==
    LET Gap(k) == IF tight /\ (IsMark(pieces[k]) \/ IsMark(pieces[k + 1])) THEN << >>
                  ELSE << Space >>
    IN  FlattenSeq([k \in DOMAIN pieces |->
            IF k = Len(pieces) THEN pieces[k] ELSE pieces[k] \o Gap(k)])
        \o (IF tight THEN << ";" >> ELSE << >>)

Whole(s, tight) == [asked |-> s, text |-> Line(Pieces(s), tight), whole |-> TRUE]

\* The SELECTs of which every beginning is read as well.
CutSelects == {s \in Selects : Len(s.conditions) >= 2 \/ s.limit.is \/ s.select_columns # << >>}

MCInputs ==
    {Whole(s, tight) : s \in Selects \cup Others, tight \in BOOLEAN}
    \cup UNION {{[asked |-> s, text |-> SubSeq(Line(Pieces(s), FALSE), 1, n), whole |-> FALSE] :
                    n \in 0 .. Len(Line(Pieces(s), FALSE)) - 1} : s \in CutSelects \cup Others}
=============================================================================
