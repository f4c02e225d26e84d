----------------------------- MODULE Tokenizer ------------------------------
(***************************************************************************)
(* tokenize (utils/tokenizer.cpp).  A line is a sequence of symbols: a     *)
(* quote, a space, a punctuation mark, or a word, which stands for a       *)
(* run of all other characters.  A token is a sequence of symbols too;     *)
(* the one of an empty string literal is empty.                            *)
(***************************************************************************)
EXTENDS Integers, Sequences
LOCAL INSTANCE SequencesExt

Quote == "'"
Space == " "
Punctuation == {"(", ")", ",", ";"}

\* The tokens so far, the one under way, and whether it is inside quotes.
Fresh == [tokens |-> << >>, current |-> << >>, in_string |-> FALSE]

Push(s) == [s EXCEPT !.tokens = Append(@, s.current), !.current = << >>]
Flush(s) == IF s.current = << >> THEN s ELSE Push(s)

\* Fault: a mark ends the token inside quotes too.
ConsumeMarks(s, c) ==
    CASE c = Quote ->
            IF s.in_string THEN [Push(s) EXCEPT !.in_string = FALSE]
            ELSE [s EXCEPT !.in_string = TRUE]
      [] c \in Punctuation -> [Flush(s) EXCEPT !.tokens = Append(@, << c >>)]
      [] c = Space /\ ~s.in_string -> Flush(s)
      [] OTHER -> [s EXCEPT !.current = Append(@, c)]

Consume(s, c) ==
    CASE c = Quote ->
            IF s.in_string THEN [Push(s) EXCEPT !.in_string = FALSE]
            ELSE [s EXCEPT !.in_string = TRUE]
      [] c \in Punctuation /\ ~s.in_string ->
            [Flush(s) EXCEPT !.tokens = Append(@, << c >>)]
      [] c = Space /\ ~s.in_string -> Flush(s)
      [] OTHER -> [s EXCEPT !.current = Append(@, c)]

\* What is under way at the end of the line is a token, quoted or not.
tokenize(input) == Flush(FoldLeft(Consume, Fresh, input)).tokens
=============================================================================
