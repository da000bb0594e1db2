------------------------------- MODULE MCRepl -------------------------------
(* Two kinds of users: one types one sentence, right or nearly right; the  *)
(* other works with a table, in lines that end where they like.            *)
EXTENDS Repl

MCWords == [w \in {"CREATE", "TABLE", "INT", "PRIMARY", "KEY", "INDEX", "ON", "INSERT", "INTO",
                   "VALUES", "SELECT", "FROM", "WHERE", "EXPLAIN",
                   "select", "items", "goods", "id", "value", "sku", "price", "by_value", "by_id"} |->
              IF w = "select" THEN "SELECT" ELSE w]
MCDigits == ("1" :> 1) @@ ("2" :> 2) @@ ("9" :> 9)

Sentences ==
  { <<"CREATE", " ", "TABLE", " ", "goods", "(", "sku", " ", "INT", " ", "PRIMARY", " ", "KEY",
      ",", "price", " ", "INT", ")", ";">>,
    <<"CREATE", " ", "INDEX", " ", "by_id", " ", "ON", " ", "items", "(", "id", ")", ";">>,
    <<"INSERT", " ", "INTO", " ", "items", " ", "VALUES", "(", "1", ",", "-", "9", ")", ";">>,
    <<"EXPLAIN", " ", "select", " ", "*", "FROM", " ", "items", ";">>,
    <<"SELECT", " ", "id", ",", "value", " ", "FROM", " ", "items", " ", "WHERE", " ", "value",
      "!", "=", "1", ";">>,
    <<"CREATE", " ", "TABLE", " ", "goods", "(", "sku", " ", "INT", ",",
      "price", " ", "INT", " ", "PRIMARY", " ", "KEY", ")", ";">>,
    <<"CREATE", " ", "TABLE", " ", "goods", "(", "sku", " ", "INT", ")", ";">>,
    <<"INSERT", " ", "INTO", " ", "items", " ", "VALUES", "(", "1", ")", ";">>,
    <<"INSERT", " ", "INTO", " ", "items", " ", "VALUES", "(", "1", ",", "2", ",", "9", ")", ";">> }

Pieces == {",", "*", "=", "1", "id", "INT", "KEY", "?", "-"}

\* A sentence, or one with a piece missing, doubled or exchanged.
Nearly(s) ==
  {s} \cup {RemoveAt(s, i) : i \in 1 .. Len(s) - 1}
      \cup {InsertAt(s, i, p) : i \in 1 .. Len(s) - 1, p \in Pieces}
      \cup {ReplaceAt(s, i, p) : i \in 1 .. Len(s) - 1, p \in Pieces}

Ins(a, b) == <<"INSERT", " ", "INTO", " ", "items", " ", "VALUES", "(", a, ",", b, ")", ";">>
OnValue == <<"CREATE", " ", "INDEX", " ", "by_value", " ", "ON", " ", "items", "(", "value", ")", ";">>
OnId == <<"CREATE", " ", "INDEX", " ", "by_id", " ", "ON", " ", "items", "(", "id", ")", ";">>
Goods == <<"CREATE", " ", "TABLE", " ", "goods", "(", "sku", " ", "INT", ",", "price", " ", "INT", ")", ";">>
Swapped == <<"CREATE", " ", "TABLE", " ", "items", "(", "value", " ", "INT", ",", "id", " ", "INT", ")", ";">>
Get(table, col) == <<"SELECT", " ", "*", " ", "FROM", " ", table, " ",
                     "WHERE", " ", col, "=", "1", ";">>

MCLines ==
  { Ins("1", "1"), <<" ">> \o Ins("1", "2"),
    Ins("2", "1") \o <<" ">> \o Ins("1", "1"),
    Swapped, OnValue, OnId \o <<"-", "-", " ", ";">>,
    Goods \o <<"INSERT", " ", "INTO", " ", "goods", " ", "VALUES", "(", "2", ",", "2", ")", ";">>,
    Get("items", "value"),
    <<"SELECT", " ", "id">>, <<"FROM", " ", "items", ";", "SELECT">>,
    <<" ", "-", "-", "id">>, <<".quit">>, <<".other", "id">> }

MCProbes == UNION {Nearly(s) : s \in Sentences}
=============================================================================
