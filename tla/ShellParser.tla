---------------------------- MODULE ShellParser ----------------------------
(***************************************************************************)
(* From a typed line to a pipeline: tokenize (exec_runner.cpp) and         *)
(* parse_pipeline (pipeline.cpp) of demo-shell.  A line is a sequence of   *)
(* characters; a run of ordinary characters that the shell never looks     *)
(* into, "head" or "/tmp", counts as one character.  A word is a sequence  *)
(* of characters too, so that an operator and a quoted word that spells it *)
(* are one and the same token, as they are in the code.                    *)
(***************************************************************************)
EXTENDS Naturals, Sequences, SequencesExt

Quote1 == "'"
Quote2 == "\""
Escape == "\\"
Blank == " "
Bar == "|"
\* What a backslash escapes between double quotes.
EscapedInQuotes == {Quote2, Escape, "$", "backtick"}

\* Written longest first: the first one that matches is taken.
ErrToOut == <<"2", ">", "&", "1">>
ErrAppend == <<"2", ">", ">">>
ErrOutput == <<"2", ">">>
Append2 == <<">", ">">>
Output == <<">">>
Input == <<"<">>
Pipe == <<Bar>>
Operators == <<ErrToOut, ErrAppend, ErrOutput, Append2, Output, Input, Pipe>>

\* The operators that begin with 2 are recognised at the start of a word only.
OperatorAt(line, i, atWordStart) ==
  LET Here(op) == /\ IsPrefix(op, SubSeq(line, i, Len(line)))
                  /\ op[1] = "2" => atWordStart
      k == SelectInSeq(Operators, Here)
  IN  IF k = 0 THEN <<>> ELSE Operators[k]

Flush(s) == IF s.word = <<>> THEN s
            ELSE [s EXCEPT !.words = Append(@, s.word), !.word = <<>>]

\* Slip for Tokenize: an escape is honoured inside single quotes too.
TokenizeEscapesAll(line) ==
  LET Step(s, i) ==
        LET c == line[i] IN
        IF s.skip > 0 THEN [s EXCEPT !.skip = @ - 1]
        ELSE IF c = Escape /\ i < Len(line)
        THEN [s EXCEPT !.word = Append(@, line[i + 1]), !.skip = 1]
        ELSE IF c = Quote1 THEN [s EXCEPT !.quote = IF @ = c THEN "none" ELSE c]
        ELSE IF c = Blank /\ s.quote = "none" THEN Flush(s)
        ELSE [s EXCEPT !.word = Append(@, c)]
      end == FoldLeft(Step, [words |-> <<>>, word |-> <<>>, quote |-> "none", skip |-> 0],
                      [i \in 1 .. Len(line) |-> i])
  IN  [ok |-> end.quote = "none", words |-> Flush(end).words]

\* The variables of tokenize; skip counts the characters already consumed by
\* an escape or by a longer operator.
NoToken == [words |-> <<>>, word |-> <<>>, quote |-> "none", skip |-> 0]

Add(s, c) == [s EXCEPT !.word = Append(@, c)]

\* What the loop does with the i-th character.
TokenStep(line, s, i) ==
  LET c == line[i]
      Escaped == [Add(s, line[i + 1]) EXCEPT !.skip = 1]
      op == OperatorAt(line, i, s.word = <<>>)
  IN  CASE s.skip > 0 -> [s EXCEPT !.skip = @ - 1]
        [] s.quote = Quote1 -> IF c = Quote1 THEN [s EXCEPT !.quote = "none"]
                               ELSE Add(s, c)
        [] s.quote = Quote2 ->
             IF c = Quote2 THEN [s EXCEPT !.quote = "none"]
             ELSE IF c = Escape /\ i < Len(line) /\ line[i + 1] \in EscapedInQuotes
             THEN Escaped ELSE Add(s, c)
        [] s.skip = 0 /\ s.quote = "none" ->
             IF c \in {Quote1, Quote2} THEN [s EXCEPT !.quote = c]
             ELSE IF c = Escape /\ i < Len(line) THEN Escaped
             ELSE IF c = Blank THEN Flush(s)
             ELSE IF op # <<>>
             THEN [Flush(s) EXCEPT !.words = Append(@, op), !.skip = Len(op) - 1]
             ELSE Add(s, c)

Tokenize(line) ==
  LET end == FoldLeft(LAMBDA s, i : TokenStep(line, s, i), NoToken,
                      [i \in 1 .. Len(line) |-> i])
  IN  [ok |-> end.quote = "none", words |-> Flush(end).words]

----------------------------------------------------------------------------
RedirectOps == {Input, Output, Append2, ErrOutput, ErrAppend, ErrToOut}

(***************************************************************************)
(* A segment between two bars: the words are arguments, except that a      *)
(* redirection takes the next word as its target.  want is the             *)
(* redirection that still waits for it.                                    *)
(***************************************************************************)
CommandStep(s, w) ==
  LET Redirect(op, t) == [s EXCEPT !.redirects = Append(@, [op |-> op, target |-> t]),
                                   !.want = <<>>]
  IN  CASE s.want # <<>> -> IF w \in RedirectOps THEN [s EXCEPT !.ok = FALSE]
                            ELSE Redirect(s.want, w)
        [] s.want = <<>> /\ w = ErrToOut -> Redirect(w, <<>>)
        [] s.want = <<>> /\ w \in RedirectOps \ {ErrToOut} -> [s EXCEPT !.want = w]
        [] s.want = <<>> /\ w \notin RedirectOps -> [s EXCEPT !.argv = Append(@, w)]

NoCommand == [argv |-> <<>>, redirects |-> <<>>, want |-> <<>>, ok |-> TRUE]

ParseCommand(words) ==
  LET end == FoldLeft(CommandStep, NoCommand, words)
  IN  [argv |-> end.argv, redirects |-> end.redirects,
       ok |-> end.ok /\ end.want = <<>> /\ end.argv # <<>>]

\* The words between the bars; a bar at either end leaves an empty segment.
SegmentStep(segs, w) == IF w = Pipe THEN Append(segs, <<>>)
                        ELSE [segs EXCEPT ![Len(segs)] = Append(@, w)]

Segments(words) == FoldLeft(SegmentStep, << <<>> >>, words)

(***************************************************************************)
(* ok is FALSE where the code throws.  A line of blanks is the empty       *)
(* pipeline, which is no error.                                            *)
(***************************************************************************)
ParsePipeline(line) ==
  LET toks == Tokenize(line)
      segs == Segments(toks.words)
      cmds == [i \in DOMAIN segs |-> ParseCommand(segs[i])]
  IN  IF toks.words = <<>> THEN [ok |-> toks.ok, commands |-> <<>>]
      ELSE [ok |-> toks.ok /\ \A i \in DOMAIN segs : segs[i] # <<>> /\ cmds[i].ok,
            commands |-> [i \in DOMAIN segs |-> [argv |-> cmds[i].argv,
                                                 redirects |-> cmds[i].redirects]]]
=============================================================================
