------------------------------- MODULE Parser -------------------------------
(***************************************************************************)
(* Parser::parse (parser.cpp): from a line to a Statement, or to an error. *)
(* An exception of stoi, which nothing catches, is the outcome "abort";    *)
(* tokens[i] behind the last token is undefined.                           *)
(***************************************************************************)
EXTENDS Tokenizer, FiniteSets
LOCAL INSTANCE SequencesExt

CONSTANTS
    Numerals,      \* the words that are numbers of an int, with their values
    WORD           \* 2^32, the size of a key

\* stoi: it skips spaces and reads the digits that follow.
Digits(token) == SelectSeq(token, LAMBDA c : c # Space)
IsNumber(token) == token # << >> /\ Digits(token) # << >> /\ Digits(token)[1] \in DOMAIN Numerals
Number(token) == Numerals[Digits(token)[1]]

\* stoul, or stoi, and the conversion to uint32_t.
Key(n) == n % WORD

\* Quotes around a value are dropped; the tokenizer leaves none.
strip_quotes(token) ==
    IF Len(token) >= 2 /\ token[1] = Quote /\ token[Len(token)] = Quote
    THEN SubSeq(token, 2, Len(token) - 1) ELSE token

NoLimit == [is |-> FALSE, n |-> 0]

\* A Statement; the fields that its type does not use keep these values.
Statement(type, table) ==
    [type |-> type, table |-> table,
     raw_values |-> << >>, columns |-> << >>,
     select_all |-> FALSE, select_columns |-> << >>, conditions |-> << >>,
     is_range |-> FALSE, from |-> 0, to |-> 0, order |-> << >>, limit |-> NoLimit,
     update_column |-> << >>, update_value |-> << >>]

Nothing == Statement("none", << >>)

Accepted(stmt) == [outcome |-> "ok", statement |-> stmt]
Fails(outcome) == [outcome |-> outcome, statement |-> Nothing]
Refused == Fails("error")

\* The token, when there is one, is the word.
Is(tokens, i, word) == i <= Len(tokens) /\ tokens[i] = << word >>

-----------------------------------------------------------------------------
(* The conditions behind where, in SELECT, DELETE and UPDATE *)

\* Fault: a condition may lack its value.
ConditionsFromShort(tokens, start) ==
    LET from[i \in Nat] ==
            IF i + 1 > Len(tokens) THEN [conditions |-> << >>, next |-> i]
            ELSE LET value == IF i + 2 > Len(tokens) THEN << >> ELSE tokens[i + 2]
                     cond  == [column |-> tokens[i], op |-> tokens[i + 1], value |-> value]
                     rest  == IF Is(tokens, i + 3, "and") THEN from[i + 4]
                              ELSE [conditions |-> << >>, next |-> i + 3]
                 IN  [rest EXCEPT !.conditions = << cond >> \o @]
    IN  from[start]

\* The conditions that begin at token start, and where the loop over them
\* stops.  What is too short to be a condition is left where it is.
ConditionsFrom(tokens, start) ==
    LET from[i \in Nat] ==
            IF i + 2 > Len(tokens) THEN [conditions |-> << >>, next |-> i]
            ELSE LET cond == [column |-> tokens[i], op |-> tokens[i + 1],
                              value |-> strip_quotes(tokens[i + 2])]
                     rest == IF Is(tokens, i + 3, "and") THEN from[i + 4]
                             ELSE [conditions |-> << >>, next |-> i + 3]
                 IN  [rest EXCEPT !.conditions = << cond >> \o @]
    IN  from[start]

\* Without the word where, what follows is not looked at.
WhereAt(tokens, i) ==
    IF Is(tokens, i, "where") THEN ConditionsFrom(tokens, i + 1)
    ELSE [conditions |-> << >>, next |-> i]

-----------------------------------------------------------------------------
(* The statements *)

parse_insert(tokens) ==
    LET values[i \in Nat] ==
            IF i > Len(tokens) \/ Is(tokens, i, ")") THEN << >>
            ELSE << strip_quotes(tokens[i]) >>
                 \o values[IF Is(tokens, i + 1, ",") THEN i + 2 ELSE i + 1]
    IN  IF /\ Len(tokens) >= 6 /\ Is(tokens, 2, "into")
           /\ Is(tokens, 4, "values") /\ Is(tokens, 5, "(")
        THEN Accepted([Statement("INSERT", tokens[3]) EXCEPT !.raw_values = values[6]])
        ELSE Refused

\* A where clause that begins like this takes the fast path.
RangeAt(tokens, i) ==
    /\ Len(tokens) >= i + 6
    /\ Is(tokens, i, "id") /\ Is(tokens, i + 1, ">=") /\ Is(tokens, i + 3, "and")
    /\ Is(tokens, i + 4, "id") /\ Is(tokens, i + 5, "<=")

TheLast(S) == CHOOSE c \in S : \A d \in S : d <= c

\* order by and limit may stand anywhere behind the conditions; the last ones
\* count.
WithOrderAndLimit(stmt, tokens, i) ==
    LET rest   == {j \in DOMAIN tokens : j >= i}
        orders == {j \in rest : /\ Is(tokens, j, "order") /\ Is(tokens, j + 1, "by")
                                /\ j + 2 <= Len(tokens)}
        limits == {j \in rest : Is(tokens, j, "limit") /\ j + 1 <= Len(tokens)}
    IN  IF \E j \in limits : ~IsNumber(tokens[j + 1]) THEN Fails("abort")
        ELSE Accepted(
                [stmt EXCEPT
                    !.order = IF orders = {} THEN << >> ELSE tokens[TheLast(orders) + 2],
                    !.limit = IF limits = {} THEN NoLimit
                              ELSE [is |-> TRUE, n |-> Number(tokens[TheLast(limits) + 1])]])

\* What follows from: the table, and the rows that are asked for.
parse_from(stmt, tokens, i) ==
    LET named == [stmt EXCEPT !.table = tokens[i + 1]]
        where == WhereAt(tokens, i + 2)
    IN  IF i + 1 > Len(tokens) THEN Fails("undefined")
        ELSE IF Is(tokens, i + 2, "where") /\ RangeAt(tokens, i + 3)
        THEN IF IsNumber(tokens[i + 5]) /\ IsNumber(tokens[i + 9])
             THEN WithOrderAndLimit(
                     [named EXCEPT !.is_range = TRUE, !.from = Key(Number(tokens[i + 5])),
                                   !.to = Key(Number(tokens[i + 9]))],
                     tokens, i + 10)
             ELSE Fails("abort")
        ELSE WithOrderAndLimit([named EXCEPT !.conditions = where.conditions],
                               tokens, where.next)

parse_select(tokens) ==
    LET all   == Is(tokens, 2, "*")
        froms == {i \in DOMAIN tokens : i >= 2 /\ Is(tokens, i, "from")}
        from  == IF all THEN 3 ELSE CHOOSE i \in froms : \A j \in froms : i <= j
        names == SelectSeq(SubSeq(tokens, 2, from - 1), LAMBDA token : token # << "," >>)
    IN  CASE Len(tokens) < 2                          -> Fails("undefined")
          [] all /\ Is(tokens, 3, "from")             ->
                parse_from([Statement("SELECT", << >>) EXCEPT !.select_all = TRUE], tokens, 3)
          [] Len(tokens) >= 2 /\ ~all /\ froms # {}   ->
                parse_from([Statement("SELECT", << >>) EXCEPT !.select_columns = names],
                           tokens, from)
          [] OTHER                                    -> Refused

parse_delete(tokens) ==
    IF Len(tokens) >= 3 /\ Is(tokens, 2, "from")
    THEN Accepted([Statement("DELETE", tokens[3]) EXCEPT
                      !.conditions = WhereAt(tokens, 4).conditions])
    ELSE Refused

\* The token between column and value is not looked at.
parse_update(tokens) ==
    IF Len(tokens) >= 6 /\ Is(tokens, 3, "set")
    THEN Accepted([Statement("UPDATE", tokens[2]) EXCEPT
                      !.update_column = tokens[4],
                      !.update_value = strip_quotes(tokens[6]),
                      !.conditions = WhereAt(tokens, 7).conditions])
    ELSE Refused

ColumnTypes == {"INT", "BIGINT", "FLOAT", "DOUBLE", "BOOL", "TEXT"}

\* The columns that begin at token start, pk telling whether one before them is
\* the primary key; and how the loop over them ends.
ColumnsFrom(tokens, start) ==
    LET Primary(i) == Is(tokens, i + 2, "primary") /\ Is(tokens, i + 3, "key")
        Unique(i)  == ~Primary(i) /\ Is(tokens, i + 2, "unique")
        Behind(i)  == i + (IF Primary(i) THEN 4 ELSE IF Unique(i) THEN 3 ELSE 2)
        Ends(how)  == [outcome |-> how, columns |-> << >>]
        from[i \in Nat, pk \in BOOLEAN] ==
            CASE i > Len(tokens) \/ Is(tokens, i, ")") -> Ends("ok")
              [] i = Len(tokens) /\ ~Is(tokens, i, ")") -> Ends("undefined")
              [] i < Len(tokens) /\ ~Is(tokens, i, ")") ->
                    IF tokens[i + 1] \notin {<< t >> : t \in ColumnTypes} \/ (Primary(i) /\ pk)
                    THEN Ends("error")
                    ELSE LET column == [name |-> tokens[i], type |-> tokens[i + 1][1],
                                        primary |-> Primary(i), unique |-> Unique(i)]
                             next == Behind(i)
                             rest == from[IF Is(tokens, next, ",") THEN next + 1 ELSE next,
                                          pk \/ Primary(i)]
                         IN  [rest EXCEPT !.columns = << column >> \o @]
    IN  from[start, FALSE]

parse_create(tokens) ==
    LET list == ColumnsFrom(tokens, 5)
    IN  CASE Len(tokens) < 2                                  -> Fails("undefined")
          [] Len(tokens) \in 2 .. 3 /\ Is(tokens, 2, "table") -> Fails("undefined")
          [] Len(tokens) > 3 /\ Is(tokens, 2, "table") /\ Is(tokens, 4, "(") ->
                IF list.outcome # "ok" THEN Fails(list.outcome)
                ELSE Accepted([Statement("CREATE_TABLE", tokens[3]) EXCEPT
                                  !.columns = list.columns])
          [] OTHER                                            -> Refused

parse_drop(tokens) ==
    IF Len(tokens) >= 3 /\ Is(tokens, 2, "table")
    THEN Accepted(Statement("DROP_TABLE", tokens[3])) ELSE Refused

parse(input) ==
    LET tokens == tokenize(input)
    IN  CASE Is(tokens, 1, "insert") -> parse_insert(tokens)
          [] Is(tokens, 1, "select") -> parse_select(tokens)
          [] Is(tokens, 1, "delete") -> parse_delete(tokens)
          [] Is(tokens, 1, "update") -> parse_update(tokens)
          [] Is(tokens, 1, "create") -> parse_create(tokens)
          [] Is(tokens, 1, "drop")   -> parse_drop(tokens)
          [] OTHER                   -> Refused
=============================================================================
