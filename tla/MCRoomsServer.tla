---------------------------- MODULE MCRoomsServer ----------------------------
(* RoomsServer with one room.  The long word is a text that does not fit a  *)
(* message beside a name, or a name that does not fit a notice beside a     *)
(* room; either still fits a frame of its own.                              *)
EXTENDS RoomsServer

Sizes == [word \in {"", "ann", "r", "hi", "long"} |->
            CASE word = "" -> 0 [] word = "long" -> 2 [] OTHER -> 1]

Frame(type, word) == [type |-> type, payload |-> word]
Enter == {Frame("Hello", "ann"), Frame("Join", "r")}

Sensible == <<Enter \cup {Frame("Join", ""), Frame("Leave", ""),
                          Frame("Message", "hi"), Frame("Message", "long")},
              Enter \cup {Frame("BadVersion", ""), Frame("BadLength", "")}>>
LongName == <<Enter, {Frame("Hello", "long"), Frame("Join", "r")}>>

\* The clients that keep their names short leave room for every notice.
ASSUME ShortNames == ClientFrames = Sensible => NoticesFit

FewFrames == <<3, 2>>
Ends == <<{"fin"}, {"reset"}>>
Halves == {Frame("Message", "hi"), Frame("BadLength", "")}
=============================================================================
