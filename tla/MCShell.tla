------------------------------ MODULE MCShell ------------------------------
(* The shell of demo-shell on a short list of lines a user may type. *)
EXTENDS Shell

MCBehaviour == (<<"src">> :> "source") @@ (<<"yes">> :> "endless") @@ (<<"cat">> :> "filter")
               @@ (<<"head">> :> "head") @@ (<<"sleep">> :> "sleep")

MCDirs == {<<"/h">>, <<"/t">>}
MCLoginHome == <<"/h">>

YesHead == <<"yes", " ", "|", " ", "head">>

MCLines ==
  { <<>>, <<"|", "cat">>, <<"exit">>, <<"sleep">>, YesHead,
    <<"src", " ", "|", "cat", "|", "head">>,
    <<"nosuch", "|", "cat">>,
    <<"src", ">", "f", "|", "cat", " ", "<", "f", " ", "<", "g">>,
    <<"src", " ", "2", ">", "&", "1", ">", "f", "|", "head", " ", "2", ">", "f">>,
    <<"alias", " ", "y", "=", "'">> \o YesHead \o <<"'">>, <<"y">>, <<"unalias", " ", "y">>,
    <<"cd">>, <<"cd", " ", "/t">>, <<"cd", " ", "x">>,
    <<"export", " ", "HOME", "=", "/t", " ", "x">>,
    <<"unset", " ", "HOME">>, <<"type", " ", "cat", " ", "cd">> }

MCWords == {<<a>> : a \in {"x", " ", "|", ">", "\"", "\\"}}
           \cup {<<a, b>> : a, b \in {"x", " ", "2", "|", ">", "\"", "\\"}}
           \cup {ErrToOut, ErrAppend, ErrOutput, Append2}
=============================================================================
