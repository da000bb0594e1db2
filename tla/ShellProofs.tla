----------------------------- MODULE ShellProofs -----------------------------
(***************************************************************************)
(* What the parser returns for every line, and from it, for any number of  *)
(* stages, lines and sessions: how the descriptors of every process stand  *)
(* at every point between pipe() and exec, that the prompt comes back      *)
(* clean, and that the history file keeps what was saved.                  *)
(***************************************************************************)
EXTENDS Shell, SetInduction, SequenceTheorems

\* The characters of words: those that are typed and those of the operators.
Char == {"1", "2", "<", ">", "&", Bar} \cup UNION {ToSet(line) : line \in Lines}
Word == Seq(Char)

-----------------------------------------------------------------------------
(* The parser. *)

LEMMA SelectedIndex ==
  ASSUME NEW m \in Nat, NEW I \in SUBSET (1 .. m)
  PROVE  (IF I # {} THEN Min(I) ELSE 0) \in 0 .. m
<1>1. CASE I = {}
  BY <1>1
<1>2. CASE I # {}
  <2>1. I \in SUBSET Nat
    OBVIOUS
  <2>2. Min(I) \in I
    BY <1>2, <2>1, MinProperties
  <2>3. \A x \in I : x \in 0 .. m
    OBVIOUS
  <2> QED
    BY <1>2, <2>2, <2>3
<1> QED
  BY <1>1, <1>2

\* The operators are words.
LEMMA OperatorWords ==
  /\ Len(Operators) = 7
  /\ \A k \in 1 .. 7 : Operators[k] \in Word /\ Len(Operators[k]) \in Nat \ {0}
<1>1. {"1", "2", "<", ">", "&", Bar} \subseteq Char
  BY DEF Char
<1>2. ErrToOut \in Word /\ Len(ErrToOut) \in Nat \ {0}
  BY <1>1 DEF Word, ErrToOut
<1>3. ErrAppend \in Word /\ Len(ErrAppend) \in Nat \ {0}
  BY <1>1 DEF Word, ErrAppend
<1>4. ErrOutput \in Word /\ Len(ErrOutput) \in Nat \ {0}
  BY <1>1 DEF Word, ErrOutput
<1>5. Append2 \in Word /\ Len(Append2) \in Nat \ {0}
  BY <1>1 DEF Word, Append2
<1>6. Output \in Word /\ Len(Output) \in Nat \ {0}
  BY <1>1 DEF Word, Output
<1>7. Input \in Word /\ Len(Input) \in Nat \ {0}
  BY <1>1 DEF Word, Input
<1>8. Pipe \in Word /\ Len(Pipe) \in Nat \ {0}
  BY <1>1 DEF Word, Pipe
<1> QED
  BY <1>2, <1>3, <1>4, <1>5, <1>6, <1>7, <1>8 DEF Operators

LEMMA OperatorAtType ==
  ASSUME NEW line, NEW i, NEW start
  PROVE  /\ OperatorAt(line, i, start) \in Word
         /\ OperatorAt(line, i, start) # <<>> => Len(OperatorAt(line, i, start)) \in Nat \ {0}
<1> DEFINE Here(op) == /\ IsPrefix(op, SubSeq(line, i, Len(line)))
                       /\ op[1] = "2" => start
           I == {j \in 1 .. Len(Operators) : Here(Operators[j])}
           k == IF I # {} THEN Min(I) ELSE 0
<1>1. I \in SUBSET (1 .. 7)
  BY OperatorWords
<1> HIDE DEF I
<1>2. k \in 0 .. 7
  BY <1>1, SelectedIndex
<1>3. OperatorAt(line, i, start) = IF k = 0 THEN <<>> ELSE Operators[k]
  BY DEF OperatorAt, SelectInSeq, I
<1>4. <<>> \in Word
  BY DEF Word
<1> HIDE DEF k
<1>5. k # 0 => k \in 1 .. 7
  BY <1>2
<1> QED
  BY <1>3, <1>4, <1>5, OperatorWords

(* tokenize. *)

Scan == [words : Seq(Word), word : Word, quote : {"none", Quote1, Quote2}, skip : Nat]

LEMMA FlushType ==
  ASSUME NEW s \in Scan
  PROVE  Flush(s) \in Scan
<1>1. s.words \in Seq(Word) /\ s.word \in Word /\ <<>> \in Word
  BY DEF Scan, Word
<1>2. Append(s.words, s.word) \in Seq(Word)
  BY <1>1
<1> QED
  BY <1>1, <1>2 DEF Flush, Scan

LEMMA AddType ==
  ASSUME NEW s \in Scan, NEW c \in Char
  PROVE  Add(s, c) \in Scan
<1>1. Append(s.word, c) \in Word
  BY DEF Scan, Word
<1> QED
  BY <1>1 DEF Add, Scan

LEMMA TokenStepType ==
  ASSUME NEW line \in Word, NEW s \in Scan, NEW i \in 1 .. Len(line)
  PROVE  TokenStep(line, s, i) \in Scan
<1> DEFINE c == line[i]
           Escaped == [Add(s, line[i + 1]) EXCEPT !.skip = 1]
           op == OperatorAt(line, i, s.word = <<>>)
<1>1. c \in Char /\ Len(line) \in Nat
  BY DEF Word
<1>2. i < Len(line) => line[i + 1] \in Char
  BY <1>1 DEF Word
<1>3. i < Len(line) => Escaped \in Scan
  BY <1>2, AddType DEF Scan
<1>4. Add(s, c) \in Scan /\ Flush(s) \in Scan
  BY <1>1, AddType, FlushType
<1>5. op # <<>> => [Flush(s) EXCEPT !.words = Append(@, op), !.skip = Len(op) - 1] \in Scan
  <2> SUFFICES ASSUME op # <<>> PROVE [Flush(s) EXCEPT !.words = Append(@, op), !.skip = Len(op) - 1] \in Scan
    OBVIOUS
  <2>1. op \in Word /\ Len(op) \in Nat \ {0}
    BY OperatorAtType
  <2> HIDE DEF op
  <2>2. Append(Flush(s).words, op) \in Seq(Word)
    BY <1>4, <2>1 DEF Scan
  <2>3. Len(op) - 1 \in Nat
    BY <2>1
  <2> QED
    BY <1>4, <2>2, <2>3 DEF Scan
<1>6. s.skip > 0 => [s EXCEPT !.skip = @ - 1] \in Scan
  BY DEF Scan
<1>7. \A q \in {"none", Quote1, Quote2} : [s EXCEPT !.quote = q] \in Scan
  BY DEF Scan
<1>8. s.skip \in Nat /\ s.quote \in {"none", Quote1, Quote2}
  BY DEF Scan
<1>9. \/ s.skip > 0 \/ s.quote = Quote1 \/ s.quote = Quote2
      \/ s.skip = 0 /\ s.quote = "none"
  BY <1>8
<1> HIDE DEF c, Escaped, op
<1> QED
  BY <1>3, <1>4, <1>5, <1>6, <1>7, <1>9 DEF TokenStep, c, Escaped, op

LEMMA TokenizeType ==
  ASSUME NEW line \in Word
  PROVE  Tokenize(line) \in [ok : BOOLEAN, words : Seq(Word)]
<1> DEFINE m == Len(line)
           seq == [i \in 1 .. Len(line) |-> i]
           Step(s, i) == TokenStep(line, s, i)
           g == [p \in Scan \X (1 .. m) |-> Step(p[1], seq[p[2]])]
           end == FoldLeft(LAMBDA s, i : TokenStep(line, s, i), NoToken, seq)
           Is(h) == h = [s \in SUBSET DOMAIN seq |->
                          IF s = {} THEN NoToken ELSE Step(h[s \ {Max(s)}], seq[Max(s)])]
           fold == CHOOSE h : Is(h)
<1>1. m \in Nat /\ NoToken \in Scan
  BY DEF Word, NoToken, Scan
<1>2. \A s \in Scan, i \in 1 .. m : Step(s, i) \in Scan
  BY TokenStepType
<1>3. end = fold[DOMAIN seq]
  BY DEF FoldLeft, MapThenFoldSet
<1>0. DOMAIN seq = 1 .. m /\ \A i \in 1 .. m : seq[i] = i
  OBVIOUS
<1> HIDE DEF m, Step, end, seq
<1>4. g \in [Scan \X (1 .. m) -> Scan]
  BY <1>0, <1>2
<1>5. PICK F : Folds(F, Scan, m, NoToken, g)
  BY <1>1, <1>4, FoldExists
<1>6. \A s \in SUBSET (1 .. m) : s # {} => Max(s) \in 1 .. m
  BY <1>1, MaxIndex
<1>7. Is(F)
  <2>1. \A s \in SUBSET (1 .. m) : s # {} =>
          g[<<F[s \ {Max(s)}], Max(s)>>] = Step(F[s \ {Max(s)}], seq[Max(s)])
    BY <1>5, <1>6 DEF Folds
  <2> HIDE DEF g
  <2> QED
    BY <1>0, <1>5, <2>1 DEF Folds
<1>8. Is(fold)
  BY <1>7
<1> HIDE DEF fold
<1>9. fold[{}] \in Scan
  BY <1>0, <1>1, <1>8
<1>10. \A s \in SUBSET (1 .. m) : s # {} /\ fold[s \ {Max(s)}] \in Scan => fold[s] \in Scan
  <2>1. \A s \in SUBSET (1 .. m) : s # {} => fold[s] = Step(fold[s \ {Max(s)}], seq[Max(s)])
    BY <1>0, <1>8
  <2> HIDE DEF Is
  <2> QED
    BY ZenonT(60), <1>0, <1>2, <1>6, <2>1
<1>11. end \in Scan
  <2>1. m \in 0 .. m
    BY <1>1
  <2> HIDE DEF Is
  <2>2. fold[1 .. m] \in Scan
    BY <1>1, <1>9, <1>10, <2>1, FoldStays
  <2> QED
    BY <1>0, <1>3, <2>2
<1>12. Flush(end).words \in Seq(Word)
  BY <1>11, FlushType DEF Scan
<1> QED
  BY <1>12 DEF Tokenize, end, seq

(* parse_pipeline. *)

Redirection == [op : RedirectOps, target : Word]
Draft == [argv : Seq(Word), redirects : Seq(Redirection), want : RedirectOps \cup {<<>>},
          ok : BOOLEAN]

LEMMA CommandStepType ==
  ASSUME NEW s \in Draft, NEW w \in Word
  PROVE  CommandStep(s, w) \in Draft
<1> DEFINE Redirect(op, t) == [s EXCEPT !.redirects = Append(@, [op |-> op, target |-> t]),
                                        !.want = <<>>]
<1>1. \A op \in RedirectOps, t \in Word : Redirect(op, t) \in Draft
  <2> TAKE op \in RedirectOps, t \in Word
  <2>1. Append(s.redirects, [op |-> op, target |-> t]) \in Seq(Redirection)
    BY DEF Draft, Redirection
  <2> QED
    BY <2>1 DEF Draft
<1>2. <<>> \in Word /\ ErrToOut \in RedirectOps
  BY DEF Word, RedirectOps
<1>3. s.want # <<>> => s.want \in RedirectOps
  BY DEF Draft
<1>4. [s EXCEPT !.ok = FALSE] \in Draft
  BY DEF Draft
<1>5. w \in RedirectOps => [s EXCEPT !.want = w] \in Draft
  BY DEF Draft
<1>6. [s EXCEPT !.argv = Append(@, w)] \in Draft
  <2>1. Append(s.argv, w) \in Seq(Word)
    BY DEF Draft
  <2> QED
    BY <2>1 DEF Draft
<1> HIDE DEF Redirect
<1>7. CASE s.want # <<>>
  BY <1>1, <1>3, <1>4, <1>7 DEF CommandStep, Redirect
<1>8. CASE s.want = <<>>
  BY <1>1, <1>2, <1>5, <1>6, <1>8 DEF CommandStep, Redirect
<1> QED
  BY <1>7, <1>8

LEMMA ParseCommandType ==
  ASSUME NEW seq \in Seq(Word)
  PROVE  /\ ParseCommand(seq).argv \in Seq(Word)
         /\ ParseCommand(seq).redirects \in Seq(Redirection)
         /\ ParseCommand(seq).ok => ParseCommand(seq).argv # <<>>
<1> DEFINE m == Len(seq)
           Step(s, w) == CommandStep(s, w)
           g == [p \in Draft \X (1 .. m) |-> Step(p[1], seq[p[2]])]
           end == FoldLeft(CommandStep, NoCommand, seq)
           Is(h) == h = [s \in SUBSET DOMAIN seq |->
                          IF s = {} THEN NoCommand ELSE Step(h[s \ {Max(s)}], seq[Max(s)])]
           fold == CHOOSE h : Is(h)
<1>1. m \in Nat /\ NoCommand \in Draft
  BY DEF NoCommand, Draft
<1>2. \A s \in Draft, w \in Word : Step(s, w) \in Draft
  BY CommandStepType
<1>3. end = fold[DOMAIN seq]
  BY DEF FoldLeft, MapThenFoldSet
<1>0. DOMAIN seq = 1 .. m /\ \A i \in 1 .. m : seq[i] \in Word
  OBVIOUS
<1> HIDE DEF m, Step, end
<1>4. g \in [Draft \X (1 .. m) -> Draft]
  BY <1>0, <1>2
<1>5. PICK F : Folds(F, Draft, m, NoCommand, g)
  BY <1>1, <1>4, FoldExists
<1>6. \A s \in SUBSET (1 .. m) : s # {} => Max(s) \in 1 .. m
  BY <1>1, MaxIndex
<1>7. Is(F)
  <2>1. \A s \in SUBSET (1 .. m) : s # {} =>
          g[<<F[s \ {Max(s)}], Max(s)>>] = Step(F[s \ {Max(s)}], seq[Max(s)])
    BY <1>5, <1>6 DEF Folds
  <2> HIDE DEF g
  <2> QED
    BY <1>0, <1>5, <2>1 DEF Folds
<1>8. Is(fold)
  BY <1>7
<1> HIDE DEF fold
<1>9. fold[{}] \in Draft
  BY <1>0, <1>1, <1>8
<1>10. \A s \in SUBSET (1 .. m) : s # {} /\ fold[s \ {Max(s)}] \in Draft => fold[s] \in Draft
  <2>1. \A s \in SUBSET (1 .. m) : s # {} => fold[s] = Step(fold[s \ {Max(s)}], seq[Max(s)])
    BY <1>0, <1>8
  <2> HIDE DEF Is
  <2> QED
    BY <1>0, <1>2, <1>6, <2>1
<1>11. end \in Draft
  <2>1. m \in 0 .. m
    BY <1>1
  <2> HIDE DEF Is
  <2>2. fold[1 .. m] \in Draft
    BY <1>1, <1>9, <1>10, <2>1, FoldStays
  <2> QED
    BY <1>0, <1>3, <2>2
<1> QED
  BY <1>11 DEF ParseCommand, end, Draft

LEMMA SegmentsType ==
  ASSUME NEW seq \in Seq(Word)
  PROVE  Segments(seq) \in Seq(Seq(Word)) \ {<<>>}
<1> DEFINE m == Len(seq)
           V == Seq(Seq(Word)) \ {<<>>}
           base == << <<>> >>
           Step(s, w) == SegmentStep(s, w)
           g == [p \in V \X (1 .. m) |-> Step(p[1], seq[p[2]])]
           Is(h) == h = [s \in SUBSET DOMAIN seq |->
                          IF s = {} THEN base ELSE Step(h[s \ {Max(s)}], seq[Max(s)])]
           fold == CHOOSE h : Is(h)
<1>1. m \in Nat /\ base \in V
  OBVIOUS
<1>2. \A s \in V, w \in Word : Step(s, w) \in V
  <2> TAKE s \in V, w \in Word
  <2>1. s \in Seq(Seq(Word)) /\ Len(s) \in Nat \ {0}
    OBVIOUS
  <2>2. s[Len(s)] \in Seq(Word)
    BY <2>1
  <2>3. Append(s[Len(s)], w) \in Seq(Word)
    BY <2>2
  <2>4. [s EXCEPT ![Len(s)] = Append(@, w)] \in V
    BY <2>1, <2>3
  <2>5. Append(s, <<>>) \in V
    <3>1. <<>> \in Seq(Word)
      OBVIOUS
    <3>2. Append(s, <<>>) \in Seq(Seq(Word)) /\ Len(Append(s, <<>>)) = Len(s) + 1
      BY <2>1, <3>1
    <3>3. \A t \in Seq(Seq(Word)) : Len(t) # 0 => t \in V
      OBVIOUS
    <3>4. Len(s) + 1 # 0
      BY <2>1
    <3> HIDE DEF V
    <3> QED
      BY <3>2, <3>3, <3>4
  <2> QED
    BY <2>4, <2>5 DEF SegmentStep
<1>3. Segments(seq) = fold[DOMAIN seq]
  BY DEF FoldLeft, MapThenFoldSet, Segments
<1>0. DOMAIN seq = 1 .. m /\ \A i \in 1 .. m : seq[i] \in Word
  OBVIOUS
<1> HIDE DEF m, Step, V, base
<1>4. g \in [V \X (1 .. m) -> V]
  BY <1>0, <1>2
<1>5. PICK F : Folds(F, V, m, base, g)
  BY <1>1, <1>4, FoldExists
<1>6. \A s \in SUBSET (1 .. m) : s # {} => Max(s) \in 1 .. m
  BY <1>1, MaxIndex
<1>7. Is(F)
  <2>1. \A s \in SUBSET (1 .. m) : s # {} =>
          g[<<F[s \ {Max(s)}], Max(s)>>] = Step(F[s \ {Max(s)}], seq[Max(s)])
    BY <1>5, <1>6 DEF Folds
  <2> HIDE DEF g
  <2> QED
    BY <1>0, <1>5, <2>1 DEF Folds
<1>8. Is(fold)
  BY <1>7
<1> HIDE DEF fold
<1>9. fold[{}] \in V
  BY <1>0, <1>1, <1>8
<1>10. \A s \in SUBSET (1 .. m) : s # {} /\ fold[s \ {Max(s)}] \in V => fold[s] \in V
  <2>1. \A s \in SUBSET (1 .. m) : s # {} => fold[s] = Step(fold[s \ {Max(s)}], seq[Max(s)])
    BY <1>0, <1>8
  <2> HIDE DEF Is
  <2> QED
    BY <1>0, <1>2, <1>6, <2>1
<1>11. m \in 0 .. m
  BY <1>1
<1> HIDE DEF Is
<1>12. fold[1 .. m] \in V
  BY <1>1, <1>9, <1>10, <1>11, FoldStays
<1> QED
  BY <1>0, <1>3, <1>12 DEF V

Command == [argv : Seq(Word), redirects : Seq(Redirection)]

\* What parse_pipeline returns for any line of words: commands with words and
\* redirections, each with an argument when it did not throw.
LEMMA ParsePipelineType ==
  ASSUME NEW line \in Word
  PROVE  LET p == ParsePipeline(line) IN
         /\ p.commands \in Seq(Command)
         /\ p.ok => \A i \in DOMAIN p.commands : p.commands[i].argv # <<>>
<1> DEFINE toks == Tokenize(line)
           segs == Segments(toks.words)
           cmds == [i \in DOMAIN segs |-> ParseCommand(segs[i])]
           ok == toks.ok /\ \A i \in DOMAIN segs : segs[i] # <<>> /\ cmds[i].ok
           coms == [i \in DOMAIN segs |-> [argv |-> cmds[i].argv, redirects |-> cmds[i].redirects]]
<1>1. toks.words \in Seq(Word)
  BY TokenizeType
<1> HIDE DEF toks
<1>2. segs \in Seq(Seq(Word))
  BY <1>1, SegmentsType
<1> HIDE DEF segs
<1>3. \A i \in DOMAIN segs : cmds[i] = ParseCommand(segs[i]) /\ segs[i] \in Seq(Word)
  BY <1>2
<1>4. \A i \in DOMAIN segs : /\ cmds[i].argv \in Seq(Word)
                             /\ cmds[i].redirects \in Seq(Redirection)
                             /\ cmds[i].ok => cmds[i].argv # <<>>
  BY <1>3, ParseCommandType
<1> HIDE DEF cmds
<1>5. coms \in Seq(Command)
  <2>1. DOMAIN segs = 1 .. Len(segs) /\ Len(segs) \in Nat
    BY <1>2
  <2>2. \A i \in 1 .. Len(segs) :
          [argv |-> cmds[i].argv, redirects |-> cmds[i].redirects] \in Command
    BY <1>4, <2>1 DEF Command
  <2> QED
    BY <2>1, <2>2
<1>6. DOMAIN coms = DOMAIN segs /\ \A i \in DOMAIN segs : coms[i].argv = cmds[i].argv
  OBVIOUS
<1> HIDE DEF coms
<1>7. ParsePipeline(line) =
        IF toks.words = <<>> THEN [ok |-> toks.ok, commands |-> <<>>]
        ELSE [ok |-> ok, commands |-> coms]
  BY DEF ParsePipeline, toks, segs, cmds, coms
<1>8. CASE toks.words = <<>>
  BY <1>7, <1>8
<1>9. CASE toks.words # <<>>
  <2>1. ParsePipeline(line) = [ok |-> ok, commands |-> coms]
    BY <1>7, <1>9
  <2>2. ok => \A i \in DOMAIN segs : cmds[i].ok
    OBVIOUS
  <2> HIDE DEF ok
  <2>3. ParsePipeline(line).commands = coms /\ ParsePipeline(line).ok = ok
    BY <2>1
  <2> QED
    BY <1>4, <1>5, <1>6, <2>2, <2>3
<1> QED
  BY <1>8, <1>9

-----------------------------------------------------------------------------
(* The builtins.                                                           *)

\* Finite or not, a map from some of K to L.
Maps(K, L) == UNION {[D -> L] : D \in SUBSET K}

LEMMA MapsType ==
  ASSUME NEW K, NEW L, NEW f \in Maps(K, L)
  PROVE  /\ DOMAIN f \in SUBSET K
         /\ f \in [DOMAIN f -> L]
BY DEF Maps

LEMMA MapsPut ==
  ASSUME NEW K, NEW L, NEW f \in Maps(K, L), NEW key \in K, NEW val \in L
  PROVE  Bind(f, key, val) \in Maps(K, L)
<1>1. DOMAIN f \cup {key} \in SUBSET K /\ f \in [DOMAIN f -> L]
  BY MapsType
<1>2. Bind(f, key, val) \in [DOMAIN f \cup {key} -> L]
  BY <1>1 DEF Bind
<1> QED
  BY <1>1, <1>2 DEF Maps

LEMMA MapsLess ==
  ASSUME NEW K, NEW L, NEW f \in Maps(K, L), NEW D
  PROVE  [w \in DOMAIN f \ D |-> f[w]] \in Maps(K, L)
<1>1. DOMAIN f \ D \in SUBSET K /\ f \in [DOMAIN f -> L]
  BY MapsType
<1>2. [w \in DOMAIN f \ D |-> f[w]] \in [DOMAIN f \ D -> L]
  BY <1>1
<1> QED
  BY <1>1, <1>2 DEF Maps

\* The words a variable or a directory is named by.
Name == Word \cup {Home} \cup Dirs

LEMMA KeyValueType ==
  ASSUME NEW w \in Word, EqAt(w) > 0
  PROVE  Key(w) \in Word /\ Value(w) \in Word
<1> DEFINE I == {j \in 1 .. Len(w) : w[j] = "="}
<1>1. Len(w) \in Nat /\ I \in SUBSET (1 .. Len(w))
  BY DEF Word
<1>2. EqAt(w) = IF I # {} THEN Min(I) ELSE 0
  BY DEF EqAt, SelectInSeq
<1> HIDE DEF I
<1>3. EqAt(w) \in 1 .. Len(w)
  BY <1>1, <1>2, SelectedIndex
<1>4. SubSeq(w, 1, EqAt(w) - 1) \in Word
  <2>1. EqAt(w) - 1 \in 1 - 1 .. Len(w) /\ 1 \in 1 .. Len(w) + 1
    BY <1>1, <1>3
  <2> QED
    BY <2>1, SubSeqProperties DEF Word
<1>5. SubSeq(w, EqAt(w) + 1, Len(w)) \in Word
  <2>1. EqAt(w) + 1 \in 1 .. Len(w) + 1 /\ Len(w) \in (EqAt(w) + 1) - 1 .. Len(w)
    BY <1>1, <1>3
  <2> QED
    BY <2>1, SubSeqProperties DEF Word
<1> QED
  BY <1>4, <1>5 DEF Key, Value

\* A record of what the builtins change, for given directories and so on.
States(E, A, C) == [env : E, aliases : A, cwd : C, code : {0, 1}]

LEMMA AliasType ==
  ASSUME NEW argv \in Seq(Word), argv # <<>>, NEW E, NEW C,
         NEW st \in [env : E, aliases : Maps(Word, Word), cwd : C, code : Int]
  PROVE  Alias(argv, st) \in States(E, Maps(Word, Word), C)
<1> DEFINE seq == Tail(argv)
           m == Len(seq)
           V == States(E, Maps(Word, Word), C)
           base == [st EXCEPT !.code = 0]
           Step(s, w) == IF EqAt(w) > 0 THEN [s EXCEPT !.aliases = Bind(@, Key(w), Value(w))]
                         ELSE IF w \in DOMAIN s.aliases THEN s ELSE [s EXCEPT !.code = 1]
           g == [p \in V \X (1 .. m) |-> Step(p[1], seq[p[2]])]
           Is(h) == h = [s \in SUBSET DOMAIN seq |->
                          IF s = {} THEN base ELSE Step(h[s \ {Max(s)}], seq[Max(s)])]
           fold == CHOOSE h : Is(h)
<1>0. m \in Nat /\ DOMAIN seq = 1 .. m /\ \A i \in 1 .. m : seq[i] \in Word
  <2>1. seq \in Seq(Word)
    OBVIOUS
  <2> QED
    BY <2>1
<1>1. base \in V
  BY DEF States
<1>2. \A s \in V, w \in Word : Step(s, w) \in V
  <2> TAKE s \in V, w \in Word
  <2>1. EqAt(w) > 0 => Bind(s.aliases, Key(w), Value(w)) \in Maps(Word, Word)
    BY KeyValueType, MapsPut DEF States
  <2> QED
    BY <2>1 DEF States
<1>3. Alias(argv, st) = fold[DOMAIN seq]
  BY DEF FoldLeft, MapThenFoldSet, Alias
<1> HIDE DEF m, Step, V, base, seq
<1>4. g \in [V \X (1 .. m) -> V]
  BY <1>0, <1>2
<1>5. PICK F : Folds(F, V, m, base, g)
  BY <1>0, <1>1, <1>4, FoldExists
<1>6. \A s \in SUBSET (1 .. m) : s # {} => Max(s) \in 1 .. m
  BY <1>0, MaxIndex
<1>7. Is(F)
  <2>1. \A s \in SUBSET (1 .. m) : s # {} =>
          g[<<F[s \ {Max(s)}], Max(s)>>] = Step(F[s \ {Max(s)}], seq[Max(s)])
    BY <1>5, <1>6 DEF Folds
  <2> HIDE DEF g
  <2> QED
    BY <1>0, <1>5, <2>1 DEF Folds
<1>8. Is(fold)
  BY <1>7
<1> HIDE DEF fold
<1>9. fold[{}] \in V
  BY <1>0, <1>1, <1>8
<1>10. \A s \in SUBSET (1 .. m) : s # {} /\ fold[s \ {Max(s)}] \in V => fold[s] \in V
  <2>1. \A s \in SUBSET (1 .. m) : s # {} => fold[s] = Step(fold[s \ {Max(s)}], seq[Max(s)])
    BY <1>0, <1>8
  <2> HIDE DEF Is
  <2> QED
    BY <1>0, <1>2, <1>6, <2>1
<1>11. m \in 0 .. m
  BY <1>0
<1> HIDE DEF Is
<1>12. fold[1 .. m] \in V
  BY <1>0, <1>9, <1>10, <1>11, FoldStays
<1> QED
  BY <1>0, <1>3, <1>12 DEF V

LEMMA ExportType ==
  ASSUME NEW argv \in Seq(Word), argv # <<>>, NEW A, NEW C,
         NEW st \in [env : Maps(Name, Name), aliases : A, cwd : C, code : Int]
  PROVE  Export(argv, st) \in States(Maps(Name, Name), A, C)
<1> DEFINE seq == Tail(argv)
           m == Len(seq)
           V == States(Maps(Name, Name), A, C)
           base == [st EXCEPT !.code = IF Len(argv) < 2 THEN 1 ELSE 0]
           Step(s, w) == IF s.code # 0 THEN s
                         ELSE IF EqAt(w) > 1 THEN [s EXCEPT !.env = Bind(@, Key(w), Value(w))]
                         ELSE [s EXCEPT !.code = 1]
           g == [p \in V \X (1 .. m) |-> Step(p[1], seq[p[2]])]
           Is(h) == h = [s \in SUBSET DOMAIN seq |->
                          IF s = {} THEN base ELSE Step(h[s \ {Max(s)}], seq[Max(s)])]
           fold == CHOOSE h : Is(h)
<1>0. m \in Nat /\ DOMAIN seq = 1 .. m /\ \A i \in 1 .. m : seq[i] \in Word
  <2>1. seq \in Seq(Word)
    OBVIOUS
  <2> QED
    BY <2>1
<1>1. base \in V
  BY DEF States
<1>2. \A s \in V, w \in Word : Step(s, w) \in V
  <2> TAKE s \in V, w \in Word
  <2>1. Len(w) \in Nat /\ EqAt(w) \in 0 .. Len(w)
    <3> DEFINE I == {j \in 1 .. Len(w) : w[j] = "="}
    <3>1. Len(w) \in Nat /\ I \in SUBSET (1 .. Len(w))
      BY DEF Word
    <3>2. EqAt(w) = IF I # {} THEN Min(I) ELSE 0
      BY DEF EqAt, SelectInSeq
    <3> HIDE DEF I
    <3> QED
      BY <3>1, <3>2, SelectedIndex
  <2>2. EqAt(w) > 1 => EqAt(w) > 0
    BY <2>1
  <2>3. EqAt(w) > 1 => Bind(s.env, Key(w), Value(w)) \in Maps(Name, Name)
    BY <2>2, KeyValueType, MapsPut DEF States, Name
  <2> QED
    BY <2>3 DEF States
<1>3. Export(argv, st) = fold[DOMAIN seq]
  BY DEF FoldLeft, MapThenFoldSet, Export
<1> HIDE DEF m, Step, V, base, seq
<1>4. g \in [V \X (1 .. m) -> V]
  BY <1>0, <1>2
<1>5. PICK F : Folds(F, V, m, base, g)
  BY <1>0, <1>1, <1>4, FoldExists
<1>6. \A s \in SUBSET (1 .. m) : s # {} => Max(s) \in 1 .. m
  BY <1>0, MaxIndex
<1>7. Is(F)
  <2>1. \A s \in SUBSET (1 .. m) : s # {} =>
          g[<<F[s \ {Max(s)}], Max(s)>>] = Step(F[s \ {Max(s)}], seq[Max(s)])
    BY <1>5, <1>6 DEF Folds
  <2> HIDE DEF g
  <2> QED
    BY <1>0, <1>5, <2>1 DEF Folds
<1>8. Is(fold)
  BY <1>7
<1> HIDE DEF fold
<1>9. fold[{}] \in V
  BY <1>0, <1>1, <1>8
<1>10. \A s \in SUBSET (1 .. m) : s # {} /\ fold[s \ {Max(s)}] \in V => fold[s] \in V
  <2>1. \A s \in SUBSET (1 .. m) : s # {} => fold[s] = Step(fold[s \ {Max(s)}], seq[Max(s)])
    BY <1>0, <1>8
  <2> HIDE DEF Is
  <2> QED
    BY <1>0, <1>2, <1>6, <2>1
<1>11. m \in 0 .. m
  BY <1>0
<1> HIDE DEF Is
<1>12. fold[1 .. m] \in V
  BY <1>0, <1>9, <1>10, <1>11, FoldStays
<1> QED
  BY <1>0, <1>3, <1>12 DEF V

LEMMA UnsetType ==
  ASSUME NEW argv \in Seq(Word), argv # <<>>, NEW A, NEW C,
         NEW st \in [env : Maps(Name, Name), aliases : A, cwd : C, code : Int]
  PROVE  Unset(argv, st) \in States(Maps(Name, Name), A, C)
<1> DEFINE seq == Tail(argv)
           m == Len(seq)
           V == States(Maps(Name, Name), A, C)
           base == [st EXCEPT !.code = 0]
           Step(s, w) == IF s.code # 0 THEN s
                         ELSE IF w # <<>> /\ EqAt(w) = 0
                         THEN [s EXCEPT !.env = [v \in DOMAIN @ \ {w} |-> @[v]]]
                         ELSE [s EXCEPT !.code = 1]
           g == [p \in V \X (1 .. m) |-> Step(p[1], seq[p[2]])]
           Is(h) == h = [s \in SUBSET DOMAIN seq |->
                          IF s = {} THEN base ELSE Step(h[s \ {Max(s)}], seq[Max(s)])]
           fold == CHOOSE h : Is(h)
<1>0. m \in Nat /\ DOMAIN seq = 1 .. m /\ \A i \in 1 .. m : seq[i] \in Word
  <2>1. seq \in Seq(Word)
    OBVIOUS
  <2> QED
    BY <2>1
<1>1. base \in V
  BY DEF States
<1>2. \A s \in V, w \in Word : Step(s, w) \in V
  <2> TAKE s \in V, w \in Word
  <2>1. [v \in DOMAIN s.env \ {w} |-> s.env[v]] \in Maps(Name, Name)
    BY MapsLess DEF States
  <2> QED
    BY <2>1 DEF States
<1>3. Unset(argv, st) = fold[DOMAIN seq]
  BY DEF FoldLeft, MapThenFoldSet, Unset
<1> HIDE DEF m, Step, V, base, seq
<1>4. g \in [V \X (1 .. m) -> V]
  BY <1>0, <1>2
<1>5. PICK F : Folds(F, V, m, base, g)
  BY <1>0, <1>1, <1>4, FoldExists
<1>6. \A s \in SUBSET (1 .. m) : s # {} => Max(s) \in 1 .. m
  BY <1>0, MaxIndex
<1>7. Is(F)
  <2>1. \A s \in SUBSET (1 .. m) : s # {} =>
          g[<<F[s \ {Max(s)}], Max(s)>>] = Step(F[s \ {Max(s)}], seq[Max(s)])
    BY <1>5, <1>6 DEF Folds
  <2> HIDE DEF g
  <2> QED
    BY <1>0, <1>5, <2>1 DEF Folds
<1>8. Is(fold)
  BY <1>7
<1> HIDE DEF fold
<1>9. fold[{}] \in V
  BY <1>0, <1>1, <1>8
<1>10. \A s \in SUBSET (1 .. m) : s # {} /\ fold[s \ {Max(s)}] \in V => fold[s] \in V
  <2>1. \A s \in SUBSET (1 .. m) : s # {} => fold[s] = Step(fold[s \ {Max(s)}], seq[Max(s)])
    BY <1>0, <1>8
  <2> HIDE DEF Is
  <2> QED
    BY <1>0, <1>2, <1>6, <2>1
<1>11. m \in 0 .. m
  BY <1>0
<1> HIDE DEF Is
<1>12. fold[1 .. m] \in V
  BY <1>0, <1>9, <1>10, <1>11, FoldStays
<1> QED
  BY <1>0, <1>3, <1>12 DEF V

\* What a builtin leaves: the environment and the aliases keep their types.
LEMMA TryBuiltinType ==
  ASSUME NEW argv \in Seq(Word), argv # <<>>, argv[1] \in BuiltinNames, NEW C,
         NEW st \in [env : Maps(Name, Name), aliases : Maps(Word, Word), cwd : C, code : Int]
  PROVE  LET after == TryBuiltin(argv, st) IN
         after.env \in Maps(Name, Name) /\ after.aliases \in Maps(Word, Word) /\ after.code \in Int
<1>1. /\ Cd(argv, st).env = st.env /\ Cd(argv, st).aliases = st.aliases
      /\ Cd(argv, st).code \in Int
  BY DEF Cd
<1>2. /\ Type(argv, st).env = st.env /\ Type(argv, st).aliases = st.aliases
      /\ Type(argv, st).code \in Int
  BY DEF Type
<1>3. /\ Export(argv, st).env \in Maps(Name, Name) /\ Export(argv, st).code \in Int
      /\ Export(argv, st).aliases \in Maps(Word, Word)
  <2>1. Export(argv, st) \in States(Maps(Name, Name), Maps(Word, Word), C)
    BY ExportType
  <2> QED
    BY <2>1 DEF States
<1>4. /\ Unset(argv, st).env \in Maps(Name, Name) /\ Unset(argv, st).code \in Int
      /\ Unset(argv, st).aliases \in Maps(Word, Word)
  <2>1. Unset(argv, st) \in States(Maps(Name, Name), Maps(Word, Word), C)
    BY UnsetType
  <2> QED
    BY <2>1 DEF States
<1>5. /\ Alias(argv, st).env \in Maps(Name, Name) /\ Alias(argv, st).code \in Int
      /\ Alias(argv, st).aliases \in Maps(Word, Word)
  <2>1. Alias(argv, st) \in States(Maps(Name, Name), Maps(Word, Word), C)
    BY AliasType
  <2> QED
    BY <2>1 DEF States
<1>6. /\ Unalias(argv, st).env = st.env /\ Unalias(argv, st).code \in Int
      /\ Unalias(argv, st).aliases \in Maps(Word, Word)
  <2>1. [w \in DOMAIN st.aliases \ ToSet(Tail(argv)) |-> st.aliases[w]] \in Maps(Word, Word)
    BY MapsLess
  <2>2. /\ Unalias(argv, st).env = st.env /\ Unalias(argv, st).code = 0
        /\ Unalias(argv, st).aliases =
             [w \in DOMAIN st.aliases \ ToSet(Tail(argv)) |-> st.aliases[w]]
    BY DEF Unalias
  <2> QED
    BY <2>1, <2>2
<1>7. [st EXCEPT !.code = 0].env = st.env /\ [st EXCEPT !.code = 0].aliases = st.aliases
      /\ [st EXCEPT !.code = 0].code \in Int
  OBVIOUS
<1>8. \/ argv[1] \in {<<"pwd">>, <<"history">>, <<"echo">>}
      \/ argv[1] = <<"cd">> \/ argv[1] = <<"export">> \/ argv[1] = <<"unset">>
      \/ argv[1] = <<"alias">> \/ argv[1] = <<"unalias">> \/ argv[1] = <<"type">>
  BY DEF BuiltinNames
<1> QED
  BY <1>1, <1>2, <1>3, <1>4, <1>5, <1>6, <1>7, <1>8 DEF TryBuiltin

\* What is typed is a line of words, with its first word replaced as well.
LEMMA ExpandAliasType ==
  ASSUME NEW line \in Lines, aliases \in Maps(Word, Word)
  PROVE  ExpandAlias(line) \in Word
<1> DEFINE I == {j \in 1 .. Len(line) : line[j] # Blank}
           start == IF I # {} THEN Min(I) ELSE 0
           rest == IF start = 0 THEN <<>> ELSE SubSeq(line, start, Len(line))
           J == {j \in 1 .. Len(rest) : rest[j] = Blank}
           end == IF J # {} THEN Min(J) ELSE 0
           first == IF end = 0 THEN rest ELSE SubSeq(rest, 1, end - 1)
           after == SubSeq(rest, Len(first) + 1, Len(rest))
<1>1. line \in Word
  <2>1. ToSet(line) \subseteq Char
    BY DEF Char
  <2>2. line \in Seq(ToSet(line))
    BY ShellAssumption
  <2> QED
    BY <2>1, <2>2, SeqMonotonic DEF Word
<1>2. ExpandAlias(line) =
        IF start # 0 /\ first \in DOMAIN aliases THEN aliases[first] \o after ELSE line
  BY DEF ExpandAlias, SelectInSeq
<1>3. start \in 0 .. Len(line) /\ Len(line) \in Nat
  <2>1. Len(line) \in Nat /\ I \in SUBSET (1 .. Len(line))
    BY <1>1 DEF Word
  <2> HIDE DEF I
  <2> QED
    BY <2>1, SelectedIndex
<1> HIDE DEF start
<1>4. rest \in Word
  <2>1. CASE start = 0
    BY <2>1 DEF Word
  <2>2. CASE start # 0
    <3>1. \A j \in start .. Len(line) : line[j] \in Char
      BY <1>1, <1>3, <2>2 DEF Word
    <3> QED
      BY <1>3, <2>2, <3>1, SubSeqProperties DEF Word
  <2> QED
    BY <2>1, <2>2
<1> HIDE DEF rest
<1>5. end \in 0 .. Len(rest) /\ Len(rest) \in Nat
  <2>1. Len(rest) \in Nat /\ J \in SUBSET (1 .. Len(rest))
    BY <1>4 DEF Word
  <2> HIDE DEF J
  <2> QED
    BY <2>1, SelectedIndex
<1> HIDE DEF end
<1>6. Len(first) \in Nat
  <2>1. CASE end = 0
    BY <1>5, <2>1
  <2>2. CASE end # 0
    <3>1. \A j \in 1 .. end - 1 : rest[j] \in Char
      BY <1>4, <1>5 DEF Word
    <3> QED
      BY <1>5, <2>2, <3>1, SubSeqProperties
  <2> QED
    BY <2>1, <2>2
<1> HIDE DEF first
<1>7. after \in Word
  <2>1. \A j \in Len(first) + 1 .. Len(rest) : rest[j] \in Char
    BY <1>4, <1>5, <1>6 DEF Word
  <2> QED
    BY <1>5, <1>6, <2>1, SubSeqProperties DEF Word
<1>8. first \in DOMAIN aliases => aliases[first] \in Word
  BY MapsType
<1>9. \A u \in Word, v \in Word : u \o v \in Word
  BY DEF Word
<1> HIDE DEF after
<1> QED
  BY <1>1, <1>2, <1>7, <1>8, <1>9

LEMMA ParsedLine ==
  ASSUME NEW line \in Lines, aliases \in Maps(Word, Word)
  PROVE  LET p == ParsePipeline(ExpandAlias(line)) IN
         /\ p.commands \in Seq(Command)
         /\ p.ok => \A i \in DOMAIN p.commands : p.commands[i].argv # <<>>
BY ExpandAliasType, ParsePipelineType

-----------------------------------------------------------------------------
(* Descriptor tables.                                                      *)

Objects == [kind : {"tty", "none", "r", "w", "file"}, of : Nat]
Tables == [Descriptors -> Objects]

\* Where pipe() puts the k-th pipe when nothing but 0, 1 and 2 and the pipes
\* before it is open: the two lowest descriptors that are free.
Pair(k) == <<2 * k + 1, 2 * k + 2>>

\* The three standard descriptors, the first m pipes, and nothing else.
HasPipes(table, m) ==
  /\ \A d \in 0 .. 2 : table[d] = Term
  /\ \A k \in 1 .. m : table[2 * k + 1] = ReadEnd(k) /\ table[2 * k + 2] = WriteEnd(k)
  /\ \A d \in Descriptors : d > 2 * m + 2 => table[d] = Closed

\* The pairs of the first m pipes, and zeros for the others.
PairsUpTo(ps, m, all) ==
  /\ ps \in Seq(Nat \X Nat) /\ Len(ps) = all
  /\ \A k \in 1 .. all : ps[k] = IF k <= m THEN Pair(k) ELSE <<0, 0>>

\* Every descriptor from 3 to 2 * m + 2 belongs to one of the first m pairs.
LEMMA PairsCover ==
  ASSUME NEW m \in Nat
  PROVE  \A d \in 3 .. 2 * m + 2 : \E k \in 1 .. m : d = 2 * k + 1 \/ d = 2 * k + 2
<1> DEFINE T == {k \in 0 .. m : \A d \in 3 .. 2 * k + 2 :
                                 \E j \in 1 .. k : d = 2 * j + 1 \/ d = 2 * j + 2}
<1>1. 0 \in T
  OBVIOUS
<1>2. ASSUME NEW k \in 0 .. m - 1, k \in T PROVE k + 1 \in T
  <2>1. ASSUME NEW d \in 3 .. 2 * (k + 1) + 2
        PROVE  \E j \in 1 .. k + 1 : d = 2 * j + 1 \/ d = 2 * j + 2
    <3>1. CASE d <= 2 * k + 2
      <4>1. PICK j \in 1 .. k : d = 2 * j + 1 \/ d = 2 * j + 2
        BY <1>2, <3>1
      <4>2. j \in 1 .. k + 1
        OBVIOUS
      <4> QED
        BY <4>1, <4>2
    <3>2. CASE d > 2 * k + 2
      <4>1. d = 2 * (k + 1) + 1 \/ d = 2 * (k + 1) + 2
        BY <3>2
      <4>2. k + 1 \in 1 .. k + 1
        OBVIOUS
      <4> QED
        BY <4>1, <4>2
    <3> QED
      BY <3>1, <3>2
  <2>2. k + 1 \in 0 .. m
    OBVIOUS
  <2> QED
    BY <2>1, <2>2
<1> HIDE DEF T
<1>3. m \in T
  BY <1>1, <1>2, BoundedSetInduction
<1> QED
  BY <1>3 DEF T

LEMMA PairsAreDescriptors ==
  ASSUME NEW all \in 1 .. MaxStages
  PROVE  /\ all \in Nat /\ MaxStages \in Nat
         /\ 0 \in Descriptors /\ 1 \in Descriptors /\ 2 \in Descriptors
         /\ \A k \in 1 .. all - 1 : 2 * k + 1 \in Descriptors /\ 2 * k + 2 \in Descriptors
BY PipelineAssumption DEF Descriptors

LEMMA ObjectFacts ==
  /\ Term \in Objects /\ Closed \in Objects
  /\ \A k \in Nat : ReadEnd(k) \in Objects /\ WriteEnd(k) \in Objects /\ File(k) \in Objects
  /\ Term # Closed
  /\ \A k \in Nat : /\ ReadEnd(k) \notin {Term, Closed} /\ WriteEnd(k) \notin {Term, Closed}
BY DEF Objects, Term, Closed, ReadEnd, WriteEnd, File

\* Two pipe() calls after one another: pipe m + 1 goes to Pair(m + 1).
LEMMA NextPair ==
  ASSUME NEW table \in Tables, NEW all \in 1 .. MaxStages, NEW m \in 0 .. all - 2,
         HasPipes(table, m)
  PROVE  LET free == {d \in Descriptors : table[d] = Closed}
             r == Min(free)
             w == Min(free \ {r})
         IN  /\ r = 2 * (m + 1) + 1 /\ w = 2 * (m + 1) + 2
             /\ HasPipes([table EXCEPT ![r] = ReadEnd(m + 1), ![w] = WriteEnd(m + 1)], m + 1)
<1> DEFINE free == {d \in Descriptors : table[d] = Closed}
           r == Min(free)
           w == Min(free \ {r})
<1>1. m \in Nat /\ all \in Nat /\ 2 * m + 3 \in Descriptors /\ 2 * m + 4 \in Descriptors
  BY PipelineAssumption DEF Descriptors
<1>2. \A d \in Descriptors : d <= 2 * m + 2 => table[d] # Closed
  <2> SUFFICES ASSUME NEW d \in Descriptors, d <= 2 * m + 2 PROVE table[d] # Closed
    OBVIOUS
  <2>1. d \in Nat
    BY DEF Descriptors
  <2>2. CASE d \in 0 .. 2
    BY <2>2, ObjectFacts DEF HasPipes
  <2>3. CASE d \notin 0 .. 2
    <3>1. d \in 3 .. 2 * m + 2
      BY <1>1, <2>1, <2>3
    <3>2. PICK k \in 1 .. m : d = 2 * k + 1 \/ d = 2 * k + 2
      BY <1>1, <3>1, PairsCover
    <3>3. k \in Nat
      OBVIOUS
    <3>4. table[d] = ReadEnd(k) \/ table[d] = WriteEnd(k)
      BY <3>2 DEF HasPipes
    <3> QED
      BY <3>3, <3>4, ObjectFacts
  <2> QED
    BY <2>2, <2>3
<1>3. free = {d \in Descriptors : d >= 2 * m + 3}
  <2>1. \A d \in Descriptors : d \in Nat
    BY DEF Descriptors
  <2>2. \A d \in Descriptors : table[d] = Closed <=> d > 2 * m + 2
    BY <1>1, <1>2, <2>1 DEF HasPipes
  <2>3. \A d \in Descriptors : d > 2 * m + 2 <=> d >= 2 * m + 3
    BY <1>1, <2>1
  <2> QED
    BY <2>2, <2>3
<1> HIDE DEF free
<1>4. free \in SUBSET Nat /\ 2 * m + 3 \in free /\ 2 * m + 4 \in free
  BY <1>1, <1>3 DEF Descriptors
<1>5. r = 2 * m + 3
  <2>1. r \in free /\ \A y \in free : r <= y
    BY <1>4, MinProperties
  <2> HIDE DEF r
  <2> QED
    BY <1>1, <1>3, <1>4, <2>1
<1> HIDE DEF r
<1>6. w = 2 * m + 4
  <2>1. free \ {r} \in SUBSET Nat /\ 2 * m + 4 \in free \ {r}
    BY <1>1, <1>4, <1>5
  <2>2. w \in free \ {r} /\ \A y \in free \ {r} : w <= y
    BY <2>1, MinProperties
  <2> HIDE DEF w
  <2>3. w \in Nat /\ w >= 2 * m + 3 /\ w # 2 * m + 3 /\ w <= 2 * m + 4
    BY <1>1, <1>3, <1>4, <1>5, <2>1, <2>2
  <2> QED
    BY <1>1, <2>3
<1> HIDE DEF w
<1> DEFINE new == [table EXCEPT ![r] = ReadEnd(m + 1), ![w] = WriteEnd(m + 1)]
<1>7. \A d \in Descriptors : new[d] = IF d = 2 * m + 4 THEN WriteEnd(m + 1)
                                      ELSE IF d = 2 * m + 3 THEN ReadEnd(m + 1) ELSE table[d]
  BY <1>1, <1>5, <1>6 DEF Tables
<1> HIDE DEF new
<1>8. \A d \in 0 .. 2 : new[d] = Term
  <2>1. \A d \in 0 .. 2 : d \in Descriptors /\ d # 2 * m + 3 /\ d # 2 * m + 4
    BY <1>1, PairsAreDescriptors
  <2> QED
    BY <1>7, <2>1 DEF HasPipes
<1>9. \A k \in 1 .. m + 1 : new[2 * k + 1] = ReadEnd(k) /\ new[2 * k + 2] = WriteEnd(k)
  <2> TAKE k \in 1 .. m + 1
  <2>1. CASE k = m + 1
    BY <1>1, <1>7, <2>1
  <2>2. CASE k # m + 1
    <3>1. k \in 1 .. m /\ k \in 1 .. all - 1
      BY <1>1, <2>2
    <3>2. 2 * k + 1 \in Descriptors /\ 2 * k + 2 \in Descriptors
      BY <3>1, PairsAreDescriptors
    <3>3. 2 * k + 1 < 2 * m + 3 /\ 2 * k + 2 < 2 * m + 3
      BY <1>1, <3>1
    <3>4. new[2 * k + 1] = table[2 * k + 1] /\ new[2 * k + 2] = table[2 * k + 2]
      BY <1>1, <1>7, <3>2, <3>3
    <3> QED
      BY <3>1, <3>4 DEF HasPipes
  <2> QED
    BY <2>1, <2>2
<1>10. \A d \in Descriptors : d > 2 * (m + 1) + 2 => new[d] = Closed
  <2>1. \A d \in Descriptors : d \in Nat
    BY DEF Descriptors
  <2>2. \A d \in Descriptors : d > 2 * (m + 1) + 2 => d > 2 * m + 2 /\ d # 2 * m + 3 /\ d # 2 * m + 4
    BY <1>1, <2>1
  <2> QED
    BY <1>7, <2>2 DEF HasPipes
<1>11. HasPipes(new, m + 1)
  BY <1>8, <1>9, <1>10 DEF HasPipes
<1>12. r = 2 * (m + 1) + 1 /\ w = 2 * (m + 1) + 2
  BY <1>1, <1>5, <1>6
<1> QED
  BY <1>11, <1>12 DEF new, r, w, free

\* close_all_pipes when the first m of its pipes are made: nothing is left open
\* but 1, 2 and, when all are made, 0.  A pair not made yet is zeros.
LEMMA AllPipesClosed ==
  ASSUME NEW all \in Nat, NEW m \in 0 .. all, PairsUpTo(pipes, m, all), NEW table,
         \A d \in Descriptors : d > 2 * m + 2 => table[d] = Closed
  PROVE  /\ CloseAllPipes(table) \in [Descriptors -> {table[d] : d \in 0 .. 2} \cup {Closed}]
         /\ \A d \in Descriptors :
              CloseAllPipes(table)[d] = IF d \in {1, 2} \/ (d = 0 /\ m = all) THEN table[d] ELSE Closed
<1> DEFINE In(d) == \E k \in DOMAIN pipes : d \in {pipes[k][1], pipes[k][2]}
<1>1. /\ m \in Nat /\ DOMAIN pipes = 1 .. all
      /\ \A k \in 1 .. all : k \in Nat /\ pipes[k] = IF k <= m THEN Pair(k) ELSE <<0, 0>>
  BY DEF PairsUpTo
<1>2. \A d \in Descriptors : CloseAllPipes(table)[d] = IF In(d) THEN Closed ELSE table[d]
  BY DEF CloseAllPipes
<1>3. ASSUME NEW d \in {1, 2} PROVE ~In(d)
  <2>1. \A k \in 1 .. all : pipes[k] = <<2 * k + 1, 2 * k + 2>> \/ pipes[k] = <<0, 0>>
    BY <1>1 DEF Pair
  <2>2. \A k \in 1 .. all : 2 * k + 1 >= 3 /\ 2 * k + 2 >= 4
    OBVIOUS
  <2> QED
    BY <1>1, <2>1, <2>2
<1>4. In(0) <=> m # all
  <2>1. ASSUME m # all PROVE In(0)
    <3>1. m + 1 \in 1 .. all /\ ~(m + 1 <= m)
      BY <2>1
    <3>2. pipes[m + 1] = <<0, 0>>
      BY <1>1, <3>1
    <3> QED
      BY <1>1, <3>1, <3>2
  <2>2. ASSUME m = all PROVE ~In(0)
    <3>1. \A k \in 1 .. all : pipes[k] = <<2 * k + 1, 2 * k + 2>>
      BY <1>1, <2>2 DEF Pair
    <3>2. \A k \in 1 .. all : 2 * k + 1 >= 3 /\ 2 * k + 2 >= 4
      OBVIOUS
    <3> QED
      BY <1>1, <3>1, <3>2
  <2> QED
    BY <2>1, <2>2
<1>5. ASSUME NEW d \in 3 .. 2 * m + 2 PROVE In(d)
  <2>1. PICK k \in 1 .. m : d = 2 * k + 1 \/ d = 2 * k + 2
    BY <1>1, PairsCover
  <2>2. k \in 1 .. all /\ k <= m
    OBVIOUS
  <2>3. pipes[k] = <<2 * k + 1, 2 * k + 2>>
    BY <1>1, <2>2 DEF Pair
  <2> QED
    BY <1>1, <2>1, <2>2, <2>3
<1> HIDE DEF In
<1>6. \A d \in Descriptors : \/ d = 0 \/ d \in {1, 2} \/ d \in 3 .. 2 * m + 2 \/ d > 2 * m + 2
  BY DEF Descriptors
<1>7. \A d \in Descriptors :
        CloseAllPipes(table)[d] = IF d \in {1, 2} \/ (d = 0 /\ m = all) THEN table[d] ELSE Closed
  <2> TAKE d \in Descriptors
  <2>1. CASE d = 0
    BY <1>2, <1>4, <2>1
  <2>2. CASE d \in {1, 2}
    BY <1>2, <1>3, <2>2
  <2>3. CASE d \in 3 .. 2 * m + 2
    BY <1>2, <1>5, <2>3
  <2>4. CASE d > 2 * m + 2
    <3>1. d # 0 /\ d \notin {1, 2}
      BY <1>1, <2>4
    <3> QED
      BY <1>2, <2>4, <3>1
  <2> QED
    BY <1>6, <2>1, <2>2, <2>3, <2>4
<1>8. CloseAllPipes(table) = [d \in Descriptors |-> CloseAllPipes(table)[d]]
  BY DEF CloseAllPipes
<1> QED
  BY <1>7, <1>8

-----------------------------------------------------------------------------
(* The inductive invariant of the pipelines. *)

TypeOK ==
  /\ loop \in {"off", "prompt", "ended", "killed"}
  /\ aliases \in Maps(Word, Word) /\ env \in Maps(Name, Name) /\ code \in Int
  /\ commands \in Seq(Command)
  /\ job \in [pc : {"idle", "pipe", "fork", "close", "wait", "killed"}, i : Nat, status : Int]
  /\ pipes \in Seq(Nat \X Nat)
  /\ fd \in [{Shell} \cup Stages -> Tables]
  /\ sig \in [{Shell} \cup Stages -> {"default", "ignored"}]
  /\ stage \in [Stages -> [pc : {"none", "forked", "wired", "redirect", "running", "exited",
                                 "reaped"},
                           redirect : Nat, left : Nat, hand : BOOLEAN, eof : BOOLEAN,
                           exit : Int]]

\* The last of the redirections rs on descriptor d before the j-th, and what
\* standard output is there for the i-th of all commands.
Latest(rs, d, j) == SelectLastInSeq(SubSeq(rs, 1, j - 1), LAMBDA r : TargetOf(r.op) = d)
OutOf(rs, i, all, j) ==
  LET r == Latest(rs, 1, j) IN
  IF r # 0 THEN File(r) ELSE IF i < all THEN WriteEnd(i) ELSE Term

\* The standard descriptors of the i-th of all commands before the j-th
\* redirection is applied.
Standard(rs, i, all, j, table) ==
  LET in == Latest(rs, 0, j)
      err == Latest(rs, 2, j)
  IN  /\ table[0] = IF in # 0 THEN File(in) ELSE IF i > 1 THEN ReadEnd(i - 1) ELSE Term
      /\ table[1] = OutOf(rs, i, all, j)
      /\ table[2] = IF err = 0 THEN Term
                    ELSE IF rs[err].op = ErrToOut THEN OutOf(rs, i, all, err)
                    ELSE File(err)

ClosedAbove(table, top) == \A d \in Descriptors : d > top => table[d] = Closed

\* The shell's table after pipe(), fork() and close(), or a pipe() that failed.
StdOnly(table) ==
  table[0] \in {Term, Closed} /\ table[1] = Term /\ table[2] = Term /\ ClosedAbove(table, 2)

\* A child between fork and exec, and after it.
Child(i) ==
  LET rs == commands[i].redirects IN
  /\ stage[i].pc = "forked" => HasPipes(fd[i], n - 1)
  /\ stage[i].pc # "forked" => sig[i] = "default"
  /\ stage[i].pc = "wired" => /\ Standard(rs, i, n, 1, fd[i])
                              /\ ClosedAbove(fd[i], 2 * (n - 1) + 2)
  /\ stage[i].pc = "redirect" => /\ stage[i].redirect \in 1 .. Len(rs) + 1
                                 /\ Standard(rs, i, n, stage[i].redirect, fd[i])
                                 /\ ClosedAbove(fd[i], 2)
  /\ stage[i].pc = "running" => /\ Standard(rs, i, n, Len(rs) + 1, fd[i])
                                /\ ClosedAbove(fd[i], 2)

AllPipes == n \in 1 .. MaxStages /\ PairsUpTo(pipes, n - 1, n - 1)

\* Whoever lives belongs to the pipeline that runs, or ran last.
LiveInv == \A i \in Stages : Live(i) => i <= n /\ AllPipes /\ Child(i)

JobInv ==
  loop = "prompt" =>
    /\ sig[Shell] = "ignored" /\ job.pc # "killed"
    /\ job.pc = "pipe" => /\ n \in 1 .. MaxStages /\ job.i \in 1 .. n - 1
                          /\ PairsUpTo(pipes, job.i - 1, n - 1)
                          /\ HasPipes(fd[Shell], job.i - 1)
                          /\ \A i \in Stages : stage[i].pc = "none"
    /\ job.pc = "fork" => /\ AllPipes /\ job.i \in 1 .. n
                          /\ HasPipes(fd[Shell], n - 1)
                          /\ \A i \in Stages : i >= job.i => stage[i].pc = "none"
    /\ job.pc = "close" => /\ AllPipes /\ HasPipes(fd[Shell], n - 1)
                           /\ \A i \in Stages : i > n => stage[i].pc = "none"
    /\ job.pc = "wait" => /\ n \in 1 .. MaxStages /\ job.i \in 1 .. n
                          /\ StdOnly(fd[Shell]) /\ fd[Shell][0] = Term
                          /\ \A i \in Stages : /\ i < job.i => stage[i].pc = "reaped"
                                               /\ i > n => stage[i].pc = "none"
    /\ job.pc = "idle" => /\ StdOnly(fd[Shell])
                          /\ fd[Shell][0] = Term \/ "pipe" \in failed
                          /\ \/ \A i \in Stages : stage[i].pc \in {"none", "reaped"}
                             \/ "fork" \in failed

IndInv == TypeOK /\ LiveInv /\ JobInv

LEMMA BaseFacts ==
  /\ AllClosed \in Tables
  /\ [AllClosed EXCEPT ![0] = Term, ![1] = Term, ![2] = Term] \in Tables
  /\ HasPipes([AllClosed EXCEPT ![0] = Term, ![1] = Term, ![2] = Term], 0)
  /\ NoStage \in [pc : {"none", "forked", "wired", "redirect", "running", "exited", "reaped"},
                  redirect : Nat, left : Nat, hand : BOOLEAN, eof : BOOLEAN, exit : Int]
  /\ NoStage.pc = "none"
  /\ Shell \notin Stages
<1>1. AllClosed \in Tables /\ \A d \in Descriptors : AllClosed[d] = Closed
  BY ObjectFacts DEF AllClosed, Tables
<1>2. 0 \in Descriptors /\ 1 \in Descriptors /\ 2 \in Descriptors /\ Descriptors \subseteq Nat
  BY PipelineAssumption DEF Descriptors
<1> DEFINE base == [AllClosed EXCEPT ![0] = Term, ![1] = Term, ![2] = Term]
<1>3. base \in Tables
  BY <1>1, <1>2, ObjectFacts DEF Tables
<1>4. \A d \in Descriptors : base[d] = IF d \in 0 .. 2 THEN Term ELSE Closed
  BY <1>1, <1>2 DEF Tables
<1> HIDE DEF base
<1>5. HasPipes(base, 0)
  <2>1. \A d \in 0 .. 2 : d \in Descriptors
    BY <1>2
  <2>2. \A d \in Descriptors : d > 2 * 0 + 2 => d \notin 0 .. 2
    BY <1>2
  <2>3. 1 .. 0 = {}
    OBVIOUS
  <2> QED
    BY <1>4, <2>1, <2>2, <2>3 DEF HasPipes
<1>6. Shell \notin Stages
  BY PipelineAssumption DEF Shell, Stages
<1> QED
  BY <1>1, <1>3, <1>5, <1>6 DEF base, NoStage

\* With no pipes there is nothing but the standard descriptors.
LEMMA NoPipesStd ==
  ASSUME NEW table, HasPipes(table, 0)
  PROVE  StdOnly(table) /\ table[0] = Term
<1>1. 0 \in 0 .. 2 /\ 1 \in 0 .. 2 /\ 2 \in 0 .. 2 /\ 2 * 0 + 2 = 2
  OBVIOUS
<1> QED
  BY <1>1 DEF HasPipes, StdOnly, ClosedAbove

LEMMA InitInv ==
  ASSUME Init
  PROVE  IndInv
<1>1. aliases \in Maps(Word, Word) /\ env \in Maps(Name, Name)
  <2>1. \A K, L : <<>> \in Maps(K, L)
    <3> TAKE K, L
    <3>1. <<>> \in [{} -> L] /\ {} \in SUBSET K
      OBVIOUS
    <3> QED
      BY <3>1 DEF Maps
  <2> QED
    BY <2>1 DEF Init
<1>2. commands = <<>> /\ pipes = <<>> /\ code = 0 /\ loop = "off"
  BY DEF Init, InitPipeline
<1>3. commands \in Seq(Command) /\ pipes \in Seq(Nat \X Nat) /\ code \in Int
  BY <1>2
<1>4. job \in [pc : {"idle", "pipe", "fork", "close", "wait", "killed"}, i : Nat, status : Int]
  BY DEF Init, InitPipeline
<1>5. TypeOK
  BY <1>1, <1>2, <1>3, <1>4, BaseFacts DEF Init, InitPipeline, TypeOK
<1>6. LiveInv
  BY BaseFacts DEF Init, InitPipeline, LiveInv, Live
<1>7. JobInv
  BY <1>2 DEF JobInv
<1> QED
  BY <1>5, <1>6, <1>7 DEF IndInv

LEMMA StartSessionInv ==
  ASSUME IndInv, StartSession
  PROVE  IndInv'
<1> DEFINE base == [AllClosed EXCEPT ![0] = Term, ![1] = Term, ![2] = Term]
<1>1. /\ loop' = "prompt" /\ job' = [pc |-> "idle", i |-> 0, status |-> 0]
      /\ commands' = <<>> /\ pipes' = <<>> /\ aliases' = <<>> /\ code' = 0
      /\ stage' = [i \in Stages |-> NoStage] /\ env' = Bind(<<>>, Home, LoginHome)
  BY DEF StartSession
<1>2. fd' = [fd EXCEPT ![Shell] = base] /\ sig' = [sig EXCEPT ![Shell] = "ignored"]
  BY DEF StartSession, InstallShellSignalHandlers
<1>3. \A K, L : <<>> \in Maps(K, L)
  <2> TAKE K, L
  <2>1. <<>> \in [{} -> L] /\ {} \in SUBSET K
    OBVIOUS
  <2> QED
    BY <2>1 DEF Maps
<1>4. env' \in Maps(Name, Name) /\ aliases' \in Maps(Word, Word)
  BY <1>1, <1>3, MapsPut, ShellAssumption DEF Name
<1>5. /\ fd' \in [{Shell} \cup Stages -> Tables] /\ fd'[Shell] = base
      /\ sig' \in [{Shell} \cup Stages -> {"default", "ignored"}] /\ sig'[Shell] = "ignored"
  BY <1>2, BaseFacts DEF IndInv, TypeOK
<1>6. \A i \in Stages : stage'[i] = NoStage
  BY <1>1
<1>7. TypeOK'
  <2>1. commands' \in Seq(Command) /\ pipes' \in Seq(Nat \X Nat) /\ code' \in Int
    BY <1>1
  <2>2. stage' \in [Stages -> [pc : {"none", "forked", "wired", "redirect", "running", "exited",
                                 "reaped"},
                           redirect : Nat, left : Nat, hand : BOOLEAN, eof : BOOLEAN,
                           exit : Int]]
    BY <1>1, BaseFacts
  <2> QED
    BY <1>1, <1>4, <1>5, <2>1, <2>2 DEF TypeOK
<1>8. LiveInv'
  BY <1>6, BaseFacts DEF LiveInv, Live
<1>9. JobInv'
  <2>1. StdOnly(base) /\ base[0] = Term
    BY BaseFacts, NoPipesStd
  <2> QED
    BY <1>1, <1>5, <1>6, <2>1, BaseFacts DEF JobInv
<1> QED
  BY <1>7, <1>8, <1>9 DEF IndInv

\* A line that does not touch the pipeline, whatever else it does.
LEMMA Frame ==
  ASSUME IndInv, UNCHANGED pipelineVars,
         loop' \in {"off", "prompt", "ended", "killed"}, loop' = "prompt" => loop = "prompt",
         aliases' \in Maps(Word, Word), env' \in Maps(Name, Name), code' \in Int
  PROVE  IndInv'
<1>1. UNCHANGED <<commands, job, pipes, fd, sig, stage, failed>>
  BY DEF pipelineVars
<1>2. TypeOK'
  BY <1>1 DEF IndInv, TypeOK
<1>3. LiveInv'
  BY <1>1 DEF IndInv, LiveInv, Live, AllPipes, Child, n
<1>4. JobInv'
  BY <1>1 DEF IndInv, JobInv, AllPipes, n
<1> QED
  BY <1>2, <1>3, <1>4 DEF IndInv

LEMMA PipelineLineInv ==
  ASSUME IndInv, NEW line \in Lines, NEW p, AtPrompt, fd[Shell][0] = Term,
         p.commands \in Seq(Command), PipelineLine(line, p)
  PROVE  IndInv'
<1> DEFINE cs == p.commands
           m == Len(cs)
<1>1. /\ cs # <<>> /\ m <= MaxStages /\ \A i \in Stages : ~Live(i)
      /\ commands' = cs /\ UNCHANGED <<fd, sig, failed, loop, aliases, env, code>>
      /\ job' = [pc |-> IF m = 1 THEN "fork" ELSE "pipe", i |-> 1, status |-> 0]
      /\ pipes' = [k \in 1 .. m - 1 |-> <<0, 0>>]
      /\ stage' = [i \in Stages |-> NoStage]
  BY DEF PipelineLine, Accept, StartPipeline
<1>2. m \in 1 .. MaxStages
  <2>1. m \in Nat /\ m # 0
    BY <1>1
  <2> HIDE DEF m
  <2> QED
    BY <1>1, <2>1, PipelineAssumption
<1>3. n' = m
  BY <1>1 DEF n
<1> HIDE DEF m
<1>4. \A i \in Stages : stage'[i].pc = "none"
  BY <1>1, BaseFacts
<1>5. PairsUpTo(pipes', 0, m - 1)
  <2>1. m - 1 \in Nat
    BY <1>2
  <2>2. pipes' \in Seq(Nat \X Nat) /\ Len(pipes') = m - 1
    <3>1. ASSUME NEW all \in Nat, NEW ps, ps = [k \in 1 .. all |-> <<0, 0>>]
          PROVE  ps \in Seq(Nat \X Nat) /\ Len(ps) = all
      BY <3>1
    <3> QED
      BY <1>1, <2>1, <3>1
  <2>3. \A k \in 1 .. m - 1 : ~(k <= 0) /\ pipes'[k] = <<0, 0>>
    BY <1>1
  <2> QED
    BY <2>2, <2>3 DEF PairsUpTo
<1>6. TypeOK'
  <2>1. job' \in [pc : {"idle", "pipe", "fork", "close", "wait", "killed"}, i : Nat, status : Int]
    BY <1>1
  <2>2. stage' \in [Stages -> [pc : {"none", "forked", "wired", "redirect", "running", "exited",
                                 "reaped"},
                           redirect : Nat, left : Nat, hand : BOOLEAN, eof : BOOLEAN,
                           exit : Int]]
    BY <1>1, BaseFacts
  <2> QED
    BY <1>1, <1>5, <2>1, <2>2 DEF IndInv, TypeOK, PairsUpTo
<1>7. LiveInv'
  BY <1>4 DEF LiveInv, Live
<1>8. HasPipes(fd[Shell], 0)
  <2>1. StdOnly(fd[Shell]) /\ loop = "prompt"
    BY DEF AtPrompt, IndInv, JobInv
  <2>2. \A d \in 0 .. 2 : d = 0 \/ d = 1 \/ d = 2
    OBVIOUS
  <2>3. 1 .. 0 = {} /\ 2 * 0 + 2 = 2
    OBVIOUS
  <2> QED
    BY <2>1, <2>2, <2>3 DEF StdOnly, ClosedAbove, HasPipes
<1>9. JobInv'
  <2>1. loop = "prompt" /\ sig[Shell] = "ignored"
    BY DEF AtPrompt, IndInv, JobInv
  <2>2. CASE m = 1
    <3>1. job'.pc = "fork" /\ job'.i = 1
      BY <1>1, <2>2
    <3>2. m - 1 = 0 /\ 1 \in 1 .. m
      BY <1>2, <2>2
    <3>3. AllPipes'
      BY <1>2, <1>3, <1>5, <3>2 DEF AllPipes
    <3> QED
      BY <1>1, <1>3, <1>4, <1>8, <2>1, <3>1, <3>2, <3>3 DEF JobInv
  <2>3. CASE m # 1
    <3>1. job'.pc = "pipe" /\ job'.i = 1
      BY <1>1, <2>3
    <3>2. 1 \in 1 .. m - 1 /\ job'.i - 1 = 0
      BY <1>2, <2>3, <3>1
    <3> QED
      BY <1>1, <1>2, <1>3, <1>4, <1>5, <1>8, <2>1, <3>1, <3>2 DEF JobInv
  <2> QED
    BY <2>2, <2>3
<1> QED
  BY <1>6, <1>7, <1>9 DEF IndInv

LEMMA ReadLineInv ==
  ASSUME IndInv, ReadLine
  PROVE  IndInv'
<1>1. PICK line \in Lines :
        LET p == ParsePipeline(ExpandAlias(line)) IN
        IgnoreLine(p) \/ ExitLine(line, p) \/ BuiltinLine(line, p) \/ PipelineLine(line, p)
  BY DEF ReadLine
<1>2. PICK p : p = ParsePipeline(ExpandAlias(line))
  OBVIOUS
<1>3. /\ p.commands \in Seq(Command)
      /\ p.ok => \A i \in DOMAIN p.commands : p.commands[i].argv # <<>>
  BY <1>2, ParsedLine DEF IndInv, TypeOK
<1>4. loop = "prompt" /\ AtPrompt /\ fd[Shell][0] = Term
  BY DEF ReadLine, AtPrompt
<1>5. CASE IgnoreLine(p)
  BY <1>4, <1>5, Frame DEF IgnoreLine, IndInv, TypeOK
<1>6. CASE ExitLine(line, p)
  BY <1>4, <1>6, Frame DEF ExitLine, IndInv, TypeOK
<1>7. CASE BuiltinLine(line, p)
  <2> DEFINE argv == p.commands[1].argv
             st == [env |-> env, aliases |-> aliases, cwd |-> cwd, code |-> code]
             after == TryBuiltin(argv, st)
  <2>1. /\ p.ok /\ p.commands # <<>> /\ argv[1] \in BuiltinNames
        /\ env' = after.env /\ aliases' = after.aliases /\ code' = after.code
        /\ UNCHANGED loop /\ UNCHANGED pipelineVars
    BY <1>7 DEF BuiltinLine, Accept, Bare
  <2>2. 1 \in DOMAIN p.commands /\ p.commands[1] \in Command
    BY <1>3, <2>1
  <2>3. argv \in Seq(Word) /\ argv # <<>>
    BY <1>3, <2>1, <2>2 DEF Command
  <2>4. st \in [env : Maps(Name, Name), aliases : Maps(Word, Word), cwd : {cwd}, code : Int]
    BY DEF IndInv, TypeOK
  <2> HIDE DEF argv, st
  <2>5. after.env \in Maps(Name, Name) /\ after.aliases \in Maps(Word, Word) /\ after.code \in Int
    BY <2>1, <2>3, <2>4, TryBuiltinType
  <2> HIDE DEF after
  <2> QED
    BY <1>4, <2>1, <2>5, Frame
<1>8. CASE PipelineLine(line, p)
  BY <1>3, <1>4, <1>8, PipelineLineInv
<1> QED
  BY <1>1, <1>2, <1>5, <1>6, <1>7, <1>8

LEMMA LoopInv ==
  ASSUME IndInv, EndOfInput \/ Kill
  PROVE  IndInv'
<1>1. CASE EndOfInput
  BY <1>1, Frame DEF EndOfInput, IndInv, TypeOK
<1>2. CASE Kill
  <2>1. /\ loop' = "killed" /\ fd' = [fd EXCEPT ![Shell] = AllClosed]
        /\ job' = [job EXCEPT !.pc = "killed"]
        /\ UNCHANGED <<commands, pipes, sig, stage, aliases, env, code>>
    BY <1>2 DEF Kill
  <2>2. TypeOK'
    BY <2>1, BaseFacts DEF IndInv, TypeOK
  <2>3. \A i \in Stages : fd'[i] = fd[i]
    BY <2>1, BaseFacts DEF IndInv, TypeOK
  <2>4. LiveInv'
    BY <2>1, <2>3 DEF IndInv, LiveInv, Live, AllPipes, Child, n
  <2>5. JobInv'
    BY <2>1 DEF JobInv
  <2> QED
    BY <2>2, <2>4, <2>5 DEF IndInv
<1> QED
  BY <1>1, <1>2

(* run_pipeline, call by call.  code is what the loop prints. *)

LEMMA MakePipeInv ==
  ASSUME IndInv, loop = "prompt", MakePipe,
         UNCHANGED <<loop, aliases, env>>, code' \in Int
  PROVE  IndInv'
<1> DEFINE free == {d \in Descriptors : fd[Shell][d] = Closed}
           r == Min(free)
           w == Min(free \ {r})
           m == job.i - 1
           table == [fd[Shell] EXCEPT ![r] = ReadEnd(job.i), ![w] = WriteEnd(job.i)]
<1>1. /\ job.pc = "pipe" /\ fd' = [fd EXCEPT ![Shell][r] = ReadEnd(job.i), ![Shell][w] = WriteEnd(job.i)]
      /\ pipes' = [pipes EXCEPT ![job.i] = <<r, w>>]
      /\ job' = IF job.i < n - 1 THEN [job EXCEPT !.i = @ + 1]
                ELSE [job EXCEPT !.pc = "fork", !.i = 1]
      /\ UNCHANGED <<commands, sig, stage, failed>>
  BY DEF MakePipe
<1>2. /\ n \in 1 .. MaxStages /\ job.i \in 1 .. n - 1 /\ PairsUpTo(pipes, m, n - 1)
      /\ HasPipes(fd[Shell], m) /\ \A i \in Stages : stage[i].pc = "none"
      /\ sig[Shell] = "ignored"
  BY <1>1 DEF IndInv, JobInv
<1>3. fd[Shell] \in Tables /\ job.i \in Nat /\ n \in Nat
  BY <1>2 DEF IndInv, TypeOK
<1>4. m \in 0 .. n - 2 /\ m + 1 = job.i
  BY <1>2, <1>3
<1> HIDE DEF m
<1>5. r = 2 * job.i + 1 /\ w = 2 * job.i + 2 /\ HasPipes(table, job.i)
  <2>1. /\ r = 2 * (m + 1) + 1 /\ w = 2 * (m + 1) + 2
        /\ HasPipes([fd[Shell] EXCEPT ![r] = ReadEnd(m + 1), ![w] = WriteEnd(m + 1)], m + 1)
    BY <1>2, <1>3, <1>4, NextPair
  <2> HIDE DEF r, w, free
  <2> QED
    BY <1>4, <2>1
<1> HIDE DEF r, w, free
<1>6. r \in Descriptors /\ w \in Descriptors /\ <<r, w>> = Pair(job.i) /\ <<r, w>> \in Nat \X Nat
  <2>1. r \in Descriptors /\ w \in Descriptors
    BY <1>2, <1>5, PairsAreDescriptors
  <2> QED
    BY <1>3, <1>5, <2>1 DEF Pair
<1>7. fd' = [fd EXCEPT ![Shell] = table]
  BY <1>1 DEF IndInv, TypeOK, Tables
<1>8. table \in Tables
  BY <1>3, <1>6, ObjectFacts DEF Tables
<1> HIDE DEF table
<1>9. fd' \in [{Shell} \cup Stages -> Tables] /\ fd'[Shell] = table
  BY <1>7, <1>8 DEF IndInv, TypeOK
<1>10. PairsUpTo(pipes', job.i, n - 1)
  <2>1. pipes' \in Seq(Nat \X Nat) /\ Len(pipes') = n - 1
    BY <1>1, <1>2, <1>6 DEF PairsUpTo
  <2>2. ASSUME NEW k \in 1 .. n - 1
        PROVE  pipes'[k] = IF k <= job.i THEN Pair(k) ELSE <<0, 0>>
    <3>1. DOMAIN pipes = 1 .. n - 1 /\ pipes[k] = IF k <= m THEN Pair(k) ELSE <<0, 0>>
      BY <1>2 DEF PairsUpTo
    <3>2. CASE k = job.i
      BY <1>1, <1>6, <3>1, <3>2
    <3>3. CASE k # job.i
      <4>1. pipes'[k] = pipes[k]
        BY <1>1, <3>1, <3>3
      <4>2. k <= m <=> k <= job.i
        BY <1>3, <1>4, <3>3
      <4> QED
        BY <3>1, <4>1, <4>2
    <3> QED
      BY <3>2, <3>3
  <2> QED
    BY <2>1, <2>2 DEF PairsUpTo
<1>11. job' \in [pc : {"idle", "pipe", "fork", "close", "wait", "killed"}, i : Nat, status : Int]
  <2>1. job \in [pc : {"idle", "pipe", "fork", "close", "wait", "killed"}, i : Nat, status : Int]
    BY DEF IndInv, TypeOK
  <2>2. [job EXCEPT !.i = @ + 1] \in
          [pc : {"idle", "pipe", "fork", "close", "wait", "killed"}, i : Nat, status : Int]
    BY <2>1
  <2>3. [job EXCEPT !.pc = "fork", !.i = 1] \in
          [pc : {"idle", "pipe", "fork", "close", "wait", "killed"}, i : Nat, status : Int]
    BY <2>1
  <2> QED
    BY <1>1, <2>2, <2>3
<1>12. TypeOK'
  BY <1>1, <1>9, <1>10, <1>11 DEF IndInv, TypeOK, PairsUpTo
<1>13. LiveInv'
  BY <1>1, <1>2 DEF LiveInv, Live
<1>14. n' = n
  BY <1>1 DEF n
<1>15. JobInv'
  <2>1. CASE job.i < n - 1
    <3>1. job'.pc = "pipe" /\ job'.i = job.i + 1
      BY <1>1, <2>1 DEF IndInv, TypeOK
    <3>2. job'.i \in 1 .. n - 1 /\ job'.i - 1 = job.i
      BY <1>2, <1>3, <2>1, <3>1
    <3> QED
      BY <1>1, <1>2, <1>5, <1>9, <1>10, <1>14, <3>1, <3>2 DEF JobInv
  <2>2. CASE ~(job.i < n - 1)
    <3>1. job'.pc = "fork" /\ job'.i = 1 /\ job.i = n - 1
      BY <1>1, <1>2, <1>3, <2>2 DEF IndInv, TypeOK
    <3>2. 1 \in 1 .. n
      BY <1>2, <1>3
    <3>3. AllPipes'
      BY <1>2, <1>10, <1>14, <3>1 DEF AllPipes
    <3> QED
      BY <1>1, <1>2, <1>5, <1>9, <1>14, <3>1, <3>2, <3>3 DEF JobInv
  <2> QED
    BY <2>1, <2>2
<1> QED
  BY <1>12, <1>13, <1>15 DEF IndInv

\* The shell's table when it has closed all the pipes it made.
LEMMA ShellCloses ==
  ASSUME IndInv, NEW m, n \in 1 .. MaxStages, m \in 0 .. n - 1,
         PairsUpTo(pipes, m, n - 1), HasPipes(fd[Shell], m)
  PROVE  LET table == CloseAllPipes(fd[Shell]) IN
         table \in Tables /\ StdOnly(table) /\ (m = n - 1 => table[0] = Term)
<1> DEFINE table == CloseAllPipes(fd[Shell])
           all == n - 1
<1>1. all \in Nat /\ m \in 0 .. all
  OBVIOUS
<1> HIDE DEF all
<1>2. \A d \in Descriptors : d > 2 * m + 2 => fd[Shell][d] = Closed
  BY DEF HasPipes
<1>3. PairsUpTo(pipes, m, all)
  BY DEF all
<1>4. /\ table \in [Descriptors -> {fd[Shell][d] : d \in 0 .. 2} \cup {Closed}]
      /\ \A d \in Descriptors :
           table[d] = IF d \in {1, 2} \/ (d = 0 /\ m = all) THEN fd[Shell][d] ELSE Closed
  BY <1>1, <1>2, <1>3, AllPipesClosed
<1> HIDE DEF table
<1>5. 0 \in Descriptors /\ 1 \in Descriptors /\ 2 \in Descriptors /\ Descriptors \subseteq Nat
  BY PipelineAssumption DEF Descriptors
<1>6. /\ 0 \in 0 .. 2 /\ 1 \in 0 .. 2 /\ 2 \in 0 .. 2 /\ \A d \in 0 .. 2 : fd[Shell][d] = Term
  BY DEF HasPipes
<1>7. table \in Tables
  <2>1. {fd[Shell][d] : d \in 0 .. 2} \cup {Closed} \subseteq Objects
    BY <1>6, ObjectFacts
  <2> QED
    BY <1>4, <2>1 DEF Tables
<1>8. ClosedAbove(table, 2)
  <2>1. \A d \in Descriptors : d > 2 => d \notin {1, 2} /\ d # 0
    BY <1>5
  <2> QED
    BY <1>4, <2>1 DEF ClosedAbove
<1>9. table[1] = Term /\ table[2] = Term /\ table[0] \in {Term, Closed}
  BY <1>4, <1>5, <1>6
<1>10. m = n - 1 => table[0] = Term
  BY <1>4, <1>5, <1>6 DEF all
<1> QED
  BY <1>7, <1>8, <1>9, <1>10 DEF StdOnly, table

LEMMA CallFailsInv ==
  ASSUME IndInv, loop = "prompt", PipeFails \/ ForkFails,
         UNCHANGED <<loop, aliases, env>>, code' \in Int
  PROVE  IndInv'
<1> DEFINE table == CloseAllPipes(fd[Shell])
<1>1. /\ fd' = [fd EXCEPT ![Shell] = table] /\ job' = [pc |-> "idle", i |-> 0, status |-> -1]
      /\ UNCHANGED <<commands, pipes, sig, stage>>
  BY DEF PipeFails, ForkFails, Return
<1>2. table \in Tables /\ StdOnly(table) /\ (table[0] = Term \/ "pipe" \in failed')
  <2>1. CASE PipeFails
    <3>1. n \in 1 .. MaxStages /\ job.i \in 1 .. n - 1 /\ PairsUpTo(pipes, job.i - 1, n - 1)
          /\ HasPipes(fd[Shell], job.i - 1)
      BY <2>1 DEF PipeFails, IndInv, JobInv
    <3>2. job.i - 1 \in 0 .. n - 1
      BY <3>1
    <3>3. table \in Tables /\ StdOnly(table)
      BY <3>1, <3>2, ShellCloses
    <3> QED
      BY <2>1, <3>3 DEF PipeFails
  <2>2. CASE ForkFails
    <3>1. n \in 1 .. MaxStages /\ PairsUpTo(pipes, n - 1, n - 1) /\ HasPipes(fd[Shell], n - 1)
      BY <2>2 DEF ForkFails, IndInv, JobInv, AllPipes
    <3>2. n - 1 \in 0 .. n - 1
      BY <3>1
    <3> QED
      BY <3>1, <3>2, ShellCloses
  <2> QED
    BY <2>1, <2>2
<1> HIDE DEF table
<1>3. \/ \A i \in Stages : stage[i].pc \in {"none", "reaped"}
      \/ "fork" \in failed'
  <2>1. CASE PipeFails
    BY <2>1 DEF PipeFails, IndInv, JobInv
  <2>2. CASE ForkFails
    BY <2>2 DEF ForkFails
  <2> QED
    BY <2>1, <2>2
<1>4. fd' \in [{Shell} \cup Stages -> Tables] /\ fd'[Shell] = table
      /\ \A i \in Stages : fd'[i] = fd[i]
  BY <1>1, <1>2, BaseFacts DEF IndInv, TypeOK
<1>5. job' \in [pc : {"idle", "pipe", "fork", "close", "wait", "killed"}, i : Nat, status : Int]
  BY <1>1
<1>6. TypeOK'
  BY <1>1, <1>4, <1>5 DEF IndInv, TypeOK
<1>7. LiveInv'
  BY <1>1, <1>4 DEF IndInv, LiveInv, Live, AllPipes, Child, n
<1>8. JobInv'
  BY <1>1, <1>2, <1>3, <1>4 DEF IndInv, JobInv
<1> QED
  BY <1>6, <1>7, <1>8 DEF IndInv

LEMMA ForkInv ==
  ASSUME IndInv, loop = "prompt", Fork,
         UNCHANGED <<loop, aliases, env>>, code' \in Int
  PROVE  IndInv'
<1> DEFINE new == [NoStage EXCEPT !.pc = "forked", !.left = SourceItems]
<1>1. /\ job.pc = "fork" /\ fd' = [fd EXCEPT ![job.i] = fd[Shell]]
      /\ sig' = [sig EXCEPT ![job.i] = sig[Shell]]
      /\ stage' = [stage EXCEPT ![job.i] = new]
      /\ job' = IF job.i < n THEN [job EXCEPT !.i = @ + 1] ELSE [job EXCEPT !.pc = "close"]
      /\ UNCHANGED <<commands, pipes, failed>>
  BY DEF Fork
<1>2. /\ AllPipes /\ n \in 1 .. MaxStages /\ job.i \in 1 .. n /\ HasPipes(fd[Shell], n - 1)
      /\ \A i \in Stages : i >= job.i => stage[i].pc = "none"
      /\ sig[Shell] = "ignored"
  BY <1>1 DEF IndInv, JobInv, AllPipes
<1>3. job.i \in Stages /\ n \in Nat /\ job.i \in Nat
  BY <1>2, PipelineAssumption DEF Stages
<1>4. /\ new \in [pc : {"none", "forked", "wired", "redirect", "running", "exited", "reaped"},
                  redirect : Nat, left : Nat, hand : BOOLEAN, eof : BOOLEAN, exit : Int]
      /\ new.pc = "forked"
  BY BaseFacts, PipelineAssumption
<1> HIDE DEF new
<1>5. TypeOK'
  <2>1. job \in [pc : {"idle", "pipe", "fork", "close", "wait", "killed"}, i : Nat, status : Int]
    BY DEF IndInv, TypeOK
  <2>2. [job EXCEPT !.i = @ + 1] \in
          [pc : {"idle", "pipe", "fork", "close", "wait", "killed"}, i : Nat, status : Int]
    BY <2>1
  <2>3. [job EXCEPT !.pc = "close"] \in
          [pc : {"idle", "pipe", "fork", "close", "wait", "killed"}, i : Nat, status : Int]
    BY <2>1
  <2>4. job' \in [pc : {"idle", "pipe", "fork", "close", "wait", "killed"}, i : Nat, status : Int]
    BY <1>1, <2>2, <2>3
  <2> QED
    BY <1>1, <1>3, <1>4, <2>4 DEF IndInv, TypeOK
<1>6. /\ fd'[job.i] = fd[Shell] /\ stage'[job.i] = new /\ fd'[Shell] = fd[Shell]
      /\ sig'[Shell] = sig[Shell]
      /\ \A i \in Stages \ {job.i} : fd'[i] = fd[i] /\ sig'[i] = sig[i] /\ stage'[i] = stage[i]
  BY <1>1, <1>3, BaseFacts DEF IndInv, TypeOK
<1>7. n' = n /\ AllPipes'
  BY <1>1, <1>2 DEF n, AllPipes
<1>8. LiveInv'
  <2> SUFFICES ASSUME NEW i \in Stages, Live(i)' PROVE i <= n /\ Child(i)'
    BY <1>7 DEF LiveInv
  <2>1. CASE i = job.i
    BY <1>2, <1>3, <1>4, <1>6, <1>7, <2>1 DEF Child
  <2>2. CASE i # job.i
    <3>1. Live(i) /\ i <= n /\ Child(i)
      BY <1>6, <2>2 DEF Live, IndInv, LiveInv
    <3> QED
      BY <1>1, <1>6, <1>7, <2>2, <3>1 DEF Child
  <2> QED
    BY <2>1, <2>2
<1>9. JobInv'
  <2>1. CASE job.i < n
    <3>1. job'.pc = "fork" /\ job'.i = job.i + 1
      BY <1>1, <2>1 DEF IndInv, TypeOK
    <3>2. job'.i \in 1 .. n
      BY <1>3, <2>1, <3>1
    <3>3. \A i \in Stages : i >= job'.i => i # job.i /\ i >= job.i
      BY <1>3, <3>1 DEF Stages
    <3>4. \A i \in Stages : i >= job'.i => stage'[i].pc = "none"
      BY <1>2, <1>6, <3>3
    <3> QED
      BY <1>1, <1>2, <1>6, <1>7, <3>1, <3>2, <3>4 DEF JobInv
  <2>2. CASE ~(job.i < n)
    <3>1. job'.pc = "close" /\ job.i = n
      BY <1>1, <1>2, <1>3, <2>2 DEF IndInv, TypeOK
    <3>2. \A i \in Stages : i > n => i # job.i /\ i >= job.i
      BY <1>3, <3>1 DEF Stages
    <3>3. \A i \in Stages : i > n => stage'[i].pc = "none"
      BY <1>2, <1>6, <3>2
    <3> QED
      BY <1>1, <1>2, <1>6, <1>7, <3>1, <3>3 DEF JobInv
  <2> QED
    BY <2>1, <2>2
<1> QED
  BY <1>5, <1>8, <1>9 DEF IndInv

LEMMA CloseParentEndsInv ==
  ASSUME IndInv, loop = "prompt", CloseParentEnds,
         UNCHANGED <<loop, aliases, env>>, code' \in Int
  PROVE  IndInv'
<1> DEFINE table == CloseAllPipes(fd[Shell])
<1>1. /\ job.pc = "close" /\ fd' = [fd EXCEPT ![Shell] = table]
      /\ job' = [job EXCEPT !.pc = "wait", !.i = 1]
      /\ UNCHANGED <<commands, pipes, sig, stage, failed>>
  BY DEF CloseParentEnds
<1>2. /\ n \in 1 .. MaxStages /\ PairsUpTo(pipes, n - 1, n - 1) /\ HasPipes(fd[Shell], n - 1)
      /\ sig[Shell] = "ignored" /\ \A i \in Stages : i > n => stage[i].pc = "none"
  BY <1>1 DEF IndInv, JobInv, AllPipes
<1>3. table \in Tables /\ StdOnly(table) /\ table[0] = Term
  <2>1. n - 1 \in 0 .. n - 1
    BY <1>2
  <2> QED
    BY <1>2, <2>1, ShellCloses
<1> HIDE DEF table
<1>4. fd' \in [{Shell} \cup Stages -> Tables] /\ fd'[Shell] = table
      /\ \A i \in Stages : fd'[i] = fd[i]
  BY <1>1, <1>3, BaseFacts DEF IndInv, TypeOK
<1>5. /\ job' \in [pc : {"idle", "pipe", "fork", "close", "wait", "killed"}, i : Nat, status : Int]
      /\ job'.pc = "wait" /\ job'.i = 1
  BY <1>1 DEF IndInv, TypeOK
<1>6. TypeOK'
  BY <1>1, <1>4, <1>5 DEF IndInv, TypeOK
<1>7. LiveInv'
  BY <1>1, <1>4 DEF IndInv, LiveInv, Live, AllPipes, Child, n
<1>8. JobInv'
  <2>1. 1 \in 1 .. n /\ \A i \in Stages : ~(i < 1)
    BY <1>2 DEF Stages
  <2>2. n' = n
    BY <1>1 DEF n
  <2> QED
    BY <1>1, <1>2, <1>3, <1>4, <1>5, <2>1, <2>2 DEF JobInv
<1> QED
  BY <1>6, <1>7, <1>8 DEF IndInv

LEMMA WaitInv ==
  ASSUME IndInv, loop = "prompt", Wait,
         UNCHANGED <<loop, aliases, env>>, code' \in Int
  PROVE  IndInv'
<1>1. /\ job.pc = "wait" /\ stage[job.i].pc = "exited"
      /\ stage' = [stage EXCEPT ![job.i].pc = "reaped"]
      /\ IF job.i < n THEN job' = [job EXCEPT !.i = @ + 1]
         ELSE job' = [pc |-> "idle", i |-> 0, status |-> stage[job.i].exit]
      /\ UNCHANGED <<commands, pipes, fd, sig, failed>>
  BY DEF Wait, Return
<1>2. /\ n \in 1 .. MaxStages /\ job.i \in 1 .. n /\ StdOnly(fd[Shell]) /\ fd[Shell][0] = Term
      /\ \A i \in Stages : /\ i < job.i => stage[i].pc = "reaped"
                           /\ i > n => stage[i].pc = "none"
      /\ sig[Shell] = "ignored"
  BY <1>1 DEF IndInv, JobInv
<1>3. job.i \in Stages /\ n \in Nat /\ job.i \in Nat
  BY <1>2, PipelineAssumption DEF Stages
<1>4. TypeOK'
  <2>1. job' \in [pc : {"idle", "pipe", "fork", "close", "wait", "killed"}, i : Nat, status : Int]
    BY <1>1, <1>3 DEF IndInv, TypeOK
  <2>2. stage' \in [Stages -> [pc : {"none", "forked", "wired", "redirect", "running", "exited",
                                 "reaped"},
                           redirect : Nat, left : Nat, hand : BOOLEAN, eof : BOOLEAN,
                           exit : Int]]
    <3> DEFINE st == [stage[job.i] EXCEPT !.pc = "reaped"]
               Stage == [pc : {"none", "forked", "wired", "redirect", "running", "exited", "reaped"},
                         redirect : Nat, left : Nat, hand : BOOLEAN, eof : BOOLEAN, exit : Int]
    <3>1. stage \in [Stages -> Stage]
      BY DEF IndInv, TypeOK
    <3>2. stage[job.i] \in Stage
      BY <1>3, <3>1
    <3>3. st \in Stage
      BY <3>2
    <3>4. stage' = [stage EXCEPT ![job.i] = st]
      BY <1>1
    <3> HIDE DEF st
    <3> QED
      BY <1>3, <3>1, <3>3, <3>4
  <2> QED
    BY <1>1, <2>1, <2>2 DEF IndInv, TypeOK
<1>5. stage'[job.i].pc = "reaped" /\ \A i \in Stages \ {job.i} : stage'[i] = stage[i]
  BY <1>1, <1>3 DEF IndInv, TypeOK
<1>6. LiveInv'
  <2> SUFFICES ASSUME NEW i \in Stages, Live(i)' PROVE (i <= n /\ AllPipes /\ Child(i))'
    BY DEF LiveInv
  <2>1. i # job.i
    BY <1>5 DEF Live
  <2>2. stage'[i] = stage[i] /\ Live(i)
    BY <1>5, <2>1 DEF Live
  <2> QED
    BY <1>1, <2>2 DEF IndInv, LiveInv, AllPipes, Child, n
<1>7. n' = n
  BY <1>1 DEF n
<1>8. JobInv'
  <2>1. CASE job.i < n
    <3>1. job'.pc = "wait" /\ job'.i = job.i + 1
      BY <1>1, <2>1 DEF IndInv, TypeOK
    <3>2. job'.i \in 1 .. n
      BY <1>3, <2>1, <3>1
    <3>3. \A i \in Stages : i < job'.i => i = job.i \/ i < job.i
      BY <1>3, <3>1 DEF Stages
    <3>4. \A i \in Stages : i > n => i # job.i
      BY <1>2, <1>3
    <3>5. \A i \in Stages : /\ i < job'.i => stage'[i].pc = "reaped"
                            /\ i > n => stage'[i].pc = "none"
      BY <1>2, <1>5, <3>3, <3>4
    <3> QED
      BY <1>1, <1>2, <1>7, <3>1, <3>2, <3>5 DEF JobInv
  <2>2. CASE ~(job.i < n)
    <3>1. job'.pc = "idle" /\ job.i = n
      BY <1>1, <1>2, <1>3, <2>2
    <3>2. \A i \in Stages : i = job.i \/ i < job.i \/ i > n
      BY <1>3, <3>1 DEF Stages
    <3>3. \A i \in Stages : stage'[i].pc \in {"none", "reaped"}
      BY <1>2, <1>5, <3>2
    <3> QED
      BY <1>1, <1>2, <3>1, <3>3 DEF JobInv
  <2> QED
    BY <2>1, <2>2
<1> QED
  BY <1>4, <1>6, <1>8 DEF IndInv

LEMMA RunPipelineInv ==
  ASSUME IndInv, RunPipeline
  PROVE  IndInv'
<1>1. loop = "prompt" /\ UNCHANGED <<loop, aliases, env>>
  BY DEF RunPipeline, sessionVars
<1>3. MakePipe \/ PipeFails \/ Fork \/ ForkFails \/ CloseParentEnds \/ Wait
  BY DEF RunPipeline, ShellStep
<1>2. code' \in Int
  <2>1. CASE job'.pc # "idle"
    BY <2>1 DEF RunPipeline, IndInv, TypeOK
  <2>2. CASE job'.pc = "idle"
    <3>1. code' = job'.status
      BY <2>2 DEF RunPipeline
    <3>2. job.pc = "wait" => job.i \in Stages
      BY <1>1, PipelineAssumption DEF IndInv, JobInv, Stages
    <3>3. CASE PipeFails \/ ForkFails
      BY <3>1, <3>3 DEF PipeFails, ForkFails, Return
    <3>4. CASE Wait
      BY <2>2, <3>1, <3>2, <3>4 DEF Wait, Return, IndInv, TypeOK
    <3>5. CASE MakePipe
      BY <2>2, <3>5 DEF MakePipe, IndInv, TypeOK
    <3>6. CASE Fork \/ CloseParentEnds
      BY <2>2, <3>6 DEF Fork, CloseParentEnds, IndInv, TypeOK
    <3> QED
      BY <1>3, <3>3, <3>4, <3>5, <3>6
  <2> QED
    BY <2>1, <2>2
<1> QED
  BY <1>1, <1>2, <1>3, MakePipeInv, CallFailsInv, ForkInv, CloseParentEndsInv, WaitInv

(* The children. *)

\* The last redirection on d: none before the first, and then one at a time.
LEMMA LatestStep ==
  ASSUME NEW rs \in Seq(Redirection), NEW d
  PROVE  /\ Latest(rs, d, 1) = 0
         /\ \A j \in 1 .. Len(rs) :
              /\ Latest(rs, d, j) \in 0 .. j - 1
              /\ Latest(rs, d, j + 1) = IF TargetOf(rs[j].op) = d THEN j ELSE Latest(rs, d, j)
<1> DEFINE I(j) == {i \in 1 .. j - 1 : TargetOf(rs[i].op) = d}
<1>1. ASSUME NEW j \in 1 .. Len(rs) + 1
      PROVE  Latest(rs, d, j) = IF I(j) # {} THEN Max(I(j)) ELSE 0
  <2> DEFINE s == SubSeq(rs, 1, j - 1)
  <2>1. \A i \in 1 .. j - 1 : rs[i] \in Redirection
    OBVIOUS
  <2>2. Len(s) = j - 1 /\ \A i \in 1 .. j - 1 : s[i] = rs[i]
    <3>1. j - 1 \in Int /\ 1 \in Int /\ j \in Int
      OBVIOUS
    <3>2. /\ Len(s) = IF 1 <= j - 1 THEN (j - 1) - 1 + 1 ELSE 0
          /\ \A i \in 1 .. (j - 1) - 1 + 1 : s[i] = rs[1 + i - 1]
      BY <2>1, <3>1, SubSeqProperties
    <3> HIDE DEF s
    <3>3. (j - 1) - 1 + 1 = j - 1 /\ \A i \in 1 .. j - 1 : 1 + i - 1 = i
      OBVIOUS
    <3>4. ~(1 <= j - 1) => j - 1 = 0
      OBVIOUS
    <3> QED
      BY <3>2, <3>3, <3>4
  <2>3. Latest(rs, d, j) = LET K == {i \in 1 .. Len(s) : TargetOf(s[i].op) = d}
                           IN  IF K # {} THEN Max(K) ELSE 0
    BY DEF Latest, SelectLastInSeq
  <2> HIDE DEF s
  <2>4. {i \in 1 .. Len(s) : TargetOf(s[i].op) = d} = I(j)
    BY <2>2
  <2> QED
    BY <2>3, <2>4
<1>2. \A j \in Nat : I(j) \in SUBSET (1 .. j - 1)
  OBVIOUS
<1>3. \A j \in Nat \ {0} : I(j + 1) = IF TargetOf(rs[j].op) = d THEN I(j) \cup {j} ELSE I(j)
  <2> TAKE j \in Nat \ {0}
  <2>1. 1 .. (j + 1) - 1 = (1 .. j - 1) \cup {j}
    OBVIOUS
  <2> QED
    BY <2>1
<1>4. I(1) = {}
  OBVIOUS
<1> HIDE DEF I
<1>5. Len(rs) \in Nat /\ 1 \in 1 .. Len(rs) + 1
  OBVIOUS
<1>6. ASSUME NEW j \in 1 .. Len(rs)
      PROVE  /\ Latest(rs, d, j) \in 0 .. j - 1
             /\ Latest(rs, d, j + 1) = IF TargetOf(rs[j].op) = d THEN j ELSE Latest(rs, d, j)
  <2>1. j \in Nat \ {0} /\ j \in 1 .. Len(rs) + 1 /\ j + 1 \in 1 .. Len(rs) + 1 /\ j - 1 \in Nat
    OBVIOUS
  <2>2. I(j) # {} => Max(I(j)) \in I(j) /\ \A y \in I(j) : y <= Max(I(j))
    BY <1>2, <2>1, MaxIndex
  <2>3. Latest(rs, d, j) \in 0 .. j - 1
    BY <1>1, <1>2, <2>1, <2>2
  <2>4. CASE TargetOf(rs[j].op) = d
    <3>1. I(j + 1) = I(j) \cup {j}
      BY <1>3, <2>1, <2>4
    <3>2. I(j) \cup {j} \in SUBSET (1 .. j) /\ I(j) \cup {j} # {}
      BY <1>2, <2>1
    <3>3. /\ Max(I(j) \cup {j}) \in I(j) \cup {j}
          /\ \A y \in I(j) \cup {j} : y <= Max(I(j) \cup {j})
      BY <2>1, <3>2, MaxIndex
    <3>4. \A x \in 1 .. j : j <= x => x = j
      OBVIOUS
    <3>5. Max(I(j) \cup {j}) = j
      BY <3>2, <3>3, <3>4
    <3> QED
      BY <1>1, <2>1, <2>3, <2>4, <3>1, <3>2, <3>5
  <2>5. CASE TargetOf(rs[j].op) # d
    BY <1>1, <1>3, <2>1, <2>3, <2>5
  <2> QED
    BY <2>4, <2>5
<1> QED
  BY <1>1, <1>4, <1>5, <1>6

StageRec == [pc : {"none", "forked", "wired", "redirect", "running", "exited", "reaped"},
             redirect : Nat, left : Nat, hand : BOOLEAN, eof : BOOLEAN, exit : Int]

\* Some of the children that live do something, and keep to what Child says.
LEMMA ChildFrame ==
  ASSUME IndInv, NEW H \in SUBSET Stages, \A i \in H : Live(i),
         UNCHANGED <<commands, pipes, failed, loop, aliases, env, code>>,
         job' = job \/ (loop # "prompt" /\ job' = [job EXCEPT !.pc = "killed"]),
         fd' \in [{Shell} \cup Stages -> Tables],
         sig' \in [{Shell} \cup Stages -> {"default", "ignored"}],
         stage' \in [Stages -> StageRec],
         \A p \in ({Shell} \cup Stages) \ H : fd'[p] = fd[p] /\ sig'[p] = sig[p],
         \A i \in Stages \ H : stage'[i] = stage[i],
         \A i \in H : stage'[i].pc \notin {"none", "reaped"} /\ (Live(i)' => Child(i)')
  PROVE  IndInv'
<1>1. TypeOK'
  <2>1. job' \in [pc : {"idle", "pipe", "fork", "close", "wait", "killed"}, i : Nat, status : Int]
    BY DEF IndInv, TypeOK
  <2> QED
    BY <2>1 DEF IndInv, TypeOK, StageRec
<1>2. n' = n
  BY DEF n
<1>3. LiveInv'
  <2> SUFFICES ASSUME NEW i \in Stages, Live(i)' PROVE i <= n /\ AllPipes' /\ Child(i)'
    BY <1>2 DEF LiveInv
  <2>1. CASE i \in H
    BY <1>2, <2>1 DEF IndInv, LiveInv, AllPipes
  <2>2. CASE i \notin H
    <3>1. stage'[i] = stage[i] /\ fd'[i] = fd[i] /\ sig'[i] = sig[i]
      BY <2>2
    <3>2. Live(i) /\ i <= n /\ AllPipes /\ Child(i)
      BY <3>1 DEF Live, IndInv, LiveInv
    <3> QED
      BY <1>2, <3>1, <3>2 DEF AllPipes, Child
  <2> QED
    BY <2>1, <2>2
<1>4. JobInv'
  <2> SUFFICES ASSUME loop = "prompt" PROVE JobInv'
    BY DEF JobInv
  <2>1. job' = job /\ fd'[Shell] = fd[Shell] /\ sig'[Shell] = sig[Shell]
    BY BaseFacts
  <2>2. \A i \in Stages : stage[i].pc \in {"none", "reaped"} => stage'[i] = stage[i]
    BY DEF Live
  <2>3. \A i \in H : stage[i].pc \notin {"none", "reaped"}
    BY DEF Live
  <2> QED
    BY <1>2, <2>1, <2>2, <2>3 DEF IndInv, JobInv, AllPipes
<1> QED
  BY <1>1, <1>3, <1>4 DEF IndInv

\* One of them does, its handlers reset or as they were.
LEMMA ChildMoves ==
  ASSUME IndInv, NEW i \in Stages, Live(i), NEW table \in Tables, NEW new \in StageRec,
         UNCHANGED <<commands, job, pipes, failed, loop, aliases, env, code>>,
         fd' = [fd EXCEPT ![i] = table], stage' = [stage EXCEPT ![i] = new],
         sig' = sig \/ sig' = [sig EXCEPT ![i] = "default"],
         new.pc \notin {"none", "reaped"}, Live(i)' => Child(i)'
  PROVE  IndInv'
<1> DEFINE H == {i}
<1>1. H \in SUBSET Stages /\ \A j \in H : Live(j)
  OBVIOUS
<1>2. /\ fd' \in [{Shell} \cup Stages -> Tables] /\ stage' \in [Stages -> StageRec]
      /\ sig' \in [{Shell} \cup Stages -> {"default", "ignored"}]
  BY DEF IndInv, TypeOK, StageRec
<1>3. \A p \in ({Shell} \cup Stages) \ H : fd'[p] = fd[p] /\ sig'[p] = sig[p]
  BY DEF IndInv, TypeOK
<1>4. \A j \in Stages \ H : stage'[j] = stage[j]
  BY DEF IndInv, TypeOK
<1>5. \A j \in H : stage'[j].pc \notin {"none", "reaped"} /\ (Live(j)' => Child(j)')
  BY DEF IndInv, TypeOK
<1> HIDE DEF H
<1> QED
  BY <1>1, <1>2, <1>3, <1>4, <1>5, ChildFrame

\* A child that ends holds nothing any more.
LEMMA EndsInv ==
  ASSUME IndInv, NEW i \in Stages, Live(i), NEW x \in Int, Ends(i, x),
         UNCHANGED <<commands, job, pipes, sig, failed, loop, aliases, env, code>>
  PROVE  IndInv'
<1> DEFINE new == [NoStage EXCEPT !.pc = "exited", !.exit = x]
<1>1. stage' = [stage EXCEPT ![i] = new] /\ fd' = [fd EXCEPT ![i] = AllClosed]
  BY DEF Ends
<1>2. new \in StageRec /\ new.pc = "exited"
  BY DEF StageRec, NoStage
<1> HIDE DEF new
<1>3. ~Live(i)'
  BY <1>1, <1>2 DEF IndInv, TypeOK, Live
<1> QED
  BY <1>1, <1>2, <1>3, ChildMoves, BaseFacts

LEMMA InterruptInv ==
  ASSUME IndInv, Interrupt, UNCHANGED <<sessionVars, code>>
  PROVE  IndInv'
<1> DEFINE hit == {i \in Stages : Live(i) /\ sig[i] = "default"}
           new == [NoStage EXCEPT !.pc = "exited", !.exit = 128 + 2]
<1>1. /\ stage' = [i \in Stages |-> IF i \in hit THEN new ELSE stage[i]]
      /\ fd' = [p \in DOMAIN fd |-> IF p \in hit THEN AllClosed ELSE fd[p]]
      /\ job' = IF sig[Shell] = "default" THEN [job EXCEPT !.pc = "killed"] ELSE job
      /\ UNCHANGED <<commands, pipes, sig, failed, loop, aliases, env, code>>
  BY DEF Interrupt, sessionVars
<1>2. new \in StageRec /\ new.pc = "exited"
  <2>1. 128 + 2 \in Int
    OBVIOUS
  <2> HIDE DEF new
  <2>2. \A x \in Int : [NoStage EXCEPT !.pc = "exited", !.exit = x] \in StageRec
                      /\ [NoStage EXCEPT !.pc = "exited", !.exit = x].pc = "exited"
    BY DEF StageRec, NoStage
  <2> QED
    BY <2>1, <2>2 DEF new
<1> HIDE DEF new
<1>3. hit \in SUBSET Stages /\ \A i \in hit : Live(i)
  OBVIOUS
<1> HIDE DEF hit
<1>4. /\ fd' \in [{Shell} \cup Stages -> Tables] /\ stage' \in [Stages -> StageRec]
      /\ \A i \in hit : stage'[i] = new
      /\ \A p \in ({Shell} \cup Stages) \ hit : fd'[p] = fd[p]
      /\ \A i \in Stages \ hit : stage'[i] = stage[i]
  BY <1>1, <1>2, <1>3, BaseFacts DEF IndInv, TypeOK, StageRec
<1>5. \A i \in hit : ~Live(i)' /\ stage'[i].pc \notin {"none", "reaped"}
  BY <1>2, <1>3, <1>4 DEF Live
<1>6. sig' \in [{Shell} \cup Stages -> {"default", "ignored"}] /\ \A p : sig'[p] = sig[p]
  BY <1>1 DEF IndInv, TypeOK
<1>7. job' = job \/ (loop # "prompt" /\ job' = [job EXCEPT !.pc = "killed"])
  BY <1>1 DEF IndInv, JobInv
<1> QED
  BY <1>1, <1>3, <1>4, <1>5, <1>6, <1>7, ChildFrame

LEMMA RedirectsType ==
  ASSUME IndInv, NEW i \in Stages, i <= n
  PROVE  commands[i] \in Command /\ commands[i].redirects \in Seq(Redirection)
<1>1. commands \in Seq(Command)
  BY DEF IndInv, TypeOK
<1>2. Len(commands) \in Nat
  BY <1>1
<1>3. i \in 1 .. Len(commands)
  BY <1>2 DEF n, Stages
<1>4. commands[i] \in Command
  BY <1>1, <1>3
<1> QED
  BY <1>4 DEF Command

LEMMA WireUpInv ==
  ASSUME IndInv, NEW i \in Stages, WireUp(i), UNCHANGED <<sessionVars, code>>
  PROVE  IndInv'
<1> DEFINE table == [d \in Descriptors |->
                       CASE d = 0 /\ i > 1 -> fd[i][pipes[i - 1][1]]
                         [] d = 1 /\ i < n -> fd[i][pipes[i][2]]
                         [] OTHER -> fd[i][d]]
           rs == commands[i].redirects
<1>1. /\ stage[i].pc = "forked" /\ Live(i)
      /\ stage' = [stage EXCEPT ![i].pc = "wired"] /\ sig' = [sig EXCEPT ![i] = "default"]
      /\ fd' = [fd EXCEPT ![i] = table]
      /\ UNCHANGED <<commands, job, pipes, failed, loop, aliases, env, code>>
  BY DEF WireUp, RestoreDefaultSignalHandlers, Live, sessionVars
<1>2. /\ n \in 1 .. MaxStages /\ i <= n /\ PairsUpTo(pipes, n - 1, n - 1)
      /\ HasPipes(fd[i], n - 1) /\ n \in Nat /\ i \in Nat
  BY <1>1 DEF IndInv, LiveInv, AllPipes, Child, Stages
<1>3. rs \in Seq(Redirection)
  BY <1>2, RedirectsType
<1>4. fd[i] \in Tables
  BY DEF IndInv, TypeOK
<1>5. i > 1 => pipes[i - 1][1] \in Descriptors /\ fd[i][pipes[i - 1][1]] = ReadEnd(i - 1)
  <2> SUFFICES ASSUME i > 1 PROVE pipes[i - 1][1] \in Descriptors /\ fd[i][pipes[i - 1][1]] = ReadEnd(i - 1)
    OBVIOUS
  <2>1. i - 1 \in 1 .. n - 1
    BY <1>2
  <2>2. pipes[i - 1] = Pair(i - 1)
    BY SMTT(30), <1>2, <2>1 DEF PairsUpTo
  <2>3. pipes[i - 1][1] = 2 * (i - 1) + 1
    BY <2>2 DEF Pair
  <2> QED
    BY <1>2, <2>1, <2>3, PairsAreDescriptors DEF HasPipes
<1>6. i < n => pipes[i][2] \in Descriptors /\ fd[i][pipes[i][2]] = WriteEnd(i)
  <2> SUFFICES ASSUME i < n PROVE pipes[i][2] \in Descriptors /\ fd[i][pipes[i][2]] = WriteEnd(i)
    OBVIOUS
  <2>1. i \in 1 .. n - 1
    BY <1>2 DEF Stages
  <2>2. pipes[i] = Pair(i)
    BY <1>2, <2>1 DEF PairsUpTo
  <2>3. pipes[i][2] = 2 * i + 2
    BY <2>2 DEF Pair
  <2> QED
    BY <1>2, <2>1, <2>3, PairsAreDescriptors DEF HasPipes
<1>7. 0 \in Descriptors /\ 1 \in Descriptors /\ 2 \in Descriptors /\ Descriptors \subseteq Nat
  BY PipelineAssumption DEF Descriptors
<1>8. /\ table[0] = IF i > 1 THEN ReadEnd(i - 1) ELSE Term
      /\ table[1] = IF i < n THEN WriteEnd(i) ELSE Term
      /\ table[2] = Term
      /\ \A d \in Descriptors : d # 0 /\ d # 1 => table[d] = fd[i][d]
  <2>1. 0 \in 0 .. 2 /\ 1 \in 0 .. 2 /\ 2 \in 0 .. 2
    OBVIOUS
  <2>2. fd[i][0] = Term /\ fd[i][1] = Term /\ fd[i][2] = Term
    BY <1>2, <2>1 DEF HasPipes
  <2> QED
    BY <1>5, <1>6, <1>7, <2>2
<1>9. table \in Tables
  <2>1. \A d \in Descriptors : table[d] \in Objects
    BY <1>2, <1>4, <1>7, <1>8, ObjectFacts DEF Tables
  <2> QED
    BY <2>1 DEF Tables
<1> HIDE DEF table
<1>10. ClosedAbove(table, 2 * (n - 1) + 2)
  <2>1. 2 * (n - 1) + 2 >= 2 /\ 2 * (n - 1) + 2 \in Nat
    BY <1>2
  <2>2. \A d \in Descriptors : d > 2 * (n - 1) + 2 => d # 0 /\ d # 1
    BY <1>7, <2>1
  <2> QED
    BY <1>2, <1>8, <2>2 DEF ClosedAbove, HasPipes
<1>11. Standard(rs, i, n, 1, table)
  BY <1>3, <1>8, LatestStep DEF Standard, OutOf
<1> HIDE DEF rs
<1>12. /\ fd'[i] = table /\ sig'[i] = "default" /\ stage'[i].pc = "wired"
       /\ [stage[i] EXCEPT !.pc = "wired"] \in StageRec
       /\ stage' = [stage EXCEPT ![i] = [stage[i] EXCEPT !.pc = "wired"]]
       /\ [stage[i] EXCEPT !.pc = "wired"].pc = "wired"
  BY <1>1, <1>9 DEF IndInv, TypeOK, StageRec
<1>13. Child(i)'
  <2>1. n' = n /\ commands'[i].redirects = rs
    BY <1>1 DEF n, rs
  <2> QED
    BY <1>10, <1>11, <1>12, <2>1 DEF Child
<1> QED
  BY <1>1, <1>9, <1>12, <1>13, ChildMoves

LEMMA CloseChildEndsInv ==
  ASSUME IndInv, NEW i \in Stages, CloseChildEnds(i), UNCHANGED <<sessionVars, code>>
  PROVE  IndInv'
<1> DEFINE table == CloseAllPipes(fd[i])
           rs == commands[i].redirects
           all == n - 1
           new == [stage[i] EXCEPT !.pc = "redirect", !.redirect = 1]
<1>1. /\ stage[i].pc = "wired" /\ Live(i)
      /\ stage' = [stage EXCEPT ![i] = new] /\ fd' = [fd EXCEPT ![i] = table]
      /\ UNCHANGED <<commands, job, pipes, sig, failed, loop, aliases, env, code>>
  <2>1. /\ stage[i].pc = "wired"
        /\ stage' = [stage EXCEPT ![i].pc = "redirect", ![i].redirect = 1]
        /\ fd' = [fd EXCEPT ![i] = CloseAllPipes(@)]
        /\ UNCHANGED <<commands, job, pipes, sig, failed, loop, aliases, env, code>>
    BY DEF CloseChildEnds, sessionVars
  <2>2. Live(i)
    BY <2>1 DEF Live
  <2> QED
    BY <2>1, <2>2 DEF IndInv, TypeOK
<1>2. /\ n \in 1 .. MaxStages /\ i <= n /\ PairsUpTo(pipes, n - 1, n - 1)
      /\ Standard(rs, i, n, 1, fd[i]) /\ ClosedAbove(fd[i], 2 * (n - 1) + 2)
      /\ sig[i] = "default"
  BY <1>1 DEF IndInv, LiveInv, AllPipes, Child
<1>3. rs \in Seq(Redirection)
  BY <1>2, RedirectsType
<1>4. all \in Nat /\ all \in 0 .. all /\ PairsUpTo(pipes, all, all)
      /\ \A d \in Descriptors : d > 2 * all + 2 => fd[i][d] = Closed
  BY <1>2 DEF ClosedAbove
<1> HIDE DEF all
<1>5. /\ table \in [Descriptors -> {fd[i][d] : d \in 0 .. 2} \cup {Closed}]
      /\ \A d \in Descriptors :
           table[d] = IF d \in {1, 2} \/ (d = 0 /\ all = all) THEN fd[i][d] ELSE Closed
  BY <1>4, AllPipesClosed
<1> HIDE DEF table
<1>6. 0 \in Descriptors /\ 1 \in Descriptors /\ 2 \in Descriptors /\ Descriptors \subseteq Nat
  BY PipelineAssumption DEF Descriptors
<1>7. table \in Tables
  <2>1. \A d \in 0 .. 2 : d \in Descriptors
    BY <1>6
  <2>2. {fd[i][d] : d \in 0 .. 2} \cup {Closed} \subseteq Objects
    BY <2>1, ObjectFacts DEF IndInv, TypeOK, Tables
  <2> QED
    BY <1>5, <2>2 DEF Tables
<1>8. table[0] = fd[i][0] /\ table[1] = fd[i][1] /\ table[2] = fd[i][2]
  BY <1>5, <1>6
<1>9. ClosedAbove(table, 2)
  <2>1. \A d \in Descriptors : d > 2 => d \notin {1, 2} /\ d # 0
    BY <1>6
  <2> QED
    BY <1>5, <2>1 DEF ClosedAbove
<1>10. Standard(rs, i, n, 1, table)
  BY <1>2, <1>8 DEF Standard
<1>11. 1 \in 1 .. Len(rs) + 1
  BY <1>3
<1> HIDE DEF rs
<1>12. new \in StageRec /\ new.pc = "redirect" /\ new.redirect = 1
  BY DEF IndInv, TypeOK, StageRec
<1> HIDE DEF new
<1>13. fd'[i] = table /\ stage'[i] = new /\ sig'[i] = "default"
  BY <1>1, <1>2 DEF IndInv, TypeOK
<1>14. Child(i)'
  <2>1. n' = n /\ commands'[i].redirects = rs
    BY <1>1 DEF n, rs
  <2> QED
    BY <1>9, <1>10, <1>11, <1>12, <1>13, <2>1 DEF Child
<1> QED
  BY <1>1, <1>7, <1>12, <1>14, ChildMoves

\* The operators are told apart by what they say.
LEMMA Targets ==
  ASSUME NEW op \in RedirectOps
  PROVE  TargetOf(op) \in {0, 1, 2} /\ (op = ErrToOut => TargetOf(op) = 2)
BY DEF TargetOf, RedirectOps, Input, Output, Append2, ErrOutput, ErrAppend, ErrToOut

\* One redirection more, on one descriptor.
LEMMA StandardStep ==
  ASSUME NEW rs \in Seq(Redirection), NEW i \in Nat, NEW all, NEW j \in 1 .. Len(rs),
         NEW table \in Tables, Standard(rs, i, all, j, table)
  PROVE  Standard(rs, i, all, j + 1,
                  [table EXCEPT ![TargetOf(rs[j].op)] =
                     IF rs[j].op = ErrToOut THEN table[1] ELSE File(j)])
<1> DEFINE op == rs[j].op
           t == TargetOf(op)
           new == [table EXCEPT ![t] = IF op = ErrToOut THEN table[1] ELSE File(j)]
<1>1. op \in RedirectOps
  <2>1. rs[j] \in Redirection
    OBVIOUS
  <2> QED
    BY <2>1 DEF Redirection
<1>2. t \in {0, 1, 2} /\ (op = ErrToOut => t = 2)
  BY <1>1, Targets
<1> HIDE DEF t
<1>3. 0 \in Descriptors /\ 1 \in Descriptors /\ 2 \in Descriptors
  BY PipelineAssumption DEF Descriptors
<1>4. \A d \in Descriptors : new[d] = IF d = t THEN IF op = ErrToOut THEN table[1] ELSE File(j)
                                      ELSE table[d]
  BY <1>2, <1>3 DEF Tables
<1>5. \A d : /\ Latest(rs, d, j) \in 0 .. j - 1
             /\ Latest(rs, d, j + 1) = IF t = d THEN j ELSE Latest(rs, d, j)
  BY LatestStep DEF t
<1>6. j # 0
  OBVIOUS
<1> HIDE DEF new
<1>7. OutOf(rs, i, all, j + 1) = IF t = 1 THEN File(j) ELSE OutOf(rs, i, all, j)
  BY <1>5, <1>6 DEF OutOf
<1> DEFINE in(k) == Latest(rs, 0, k)
           err(k) == Latest(rs, 2, k)
<1>8. /\ table[0] = IF in(j) # 0 THEN File(in(j)) ELSE IF i > 1 THEN ReadEnd(i - 1) ELSE Term
      /\ table[1] = OutOf(rs, i, all, j)
      /\ table[2] = IF err(j) = 0 THEN Term
                    ELSE IF rs[err(j)].op = ErrToOut THEN OutOf(rs, i, all, err(j))
                    ELSE File(err(j))
  BY DEF Standard
<1>9. /\ in(j + 1) = IF t = 0 THEN j ELSE in(j)
      /\ err(j + 1) = IF t = 2 THEN j ELSE err(j)
  BY <1>5
<1> HIDE DEF in, err
<1>10. new[0] = IF in(j + 1) # 0 THEN File(in(j + 1))
                ELSE IF i > 1 THEN ReadEnd(i - 1) ELSE Term
  <2>1. new[0] = IF t = 0 THEN File(j) ELSE table[0]
    BY <1>2, <1>3, <1>4
  <2> QED
    BY <1>6, <1>8, <1>9, <2>1
<1>11. new[1] = OutOf(rs, i, all, j + 1)
  <2>1. new[1] = IF t = 1 THEN File(j) ELSE table[1]
    BY <1>2, <1>3, <1>4
  <2> QED
    BY <1>7, <1>8, <2>1
<1>12. new[2] = IF err(j + 1) = 0 THEN Term
                ELSE IF rs[err(j + 1)].op = ErrToOut THEN OutOf(rs, i, all, err(j + 1))
                ELSE File(err(j + 1))
  <2>1. new[2] = IF t = 2 THEN IF op = ErrToOut THEN table[1] ELSE File(j) ELSE table[2]
    BY <1>3, <1>4
  <2> QED
    BY <1>6, <1>8, <1>9, <2>1
<1>13. Standard(rs, i, all, j + 1, new)
  BY SMTT(30), <1>10, <1>11, <1>12 DEF Standard, in, err
<1> QED
  BY <1>13 DEF t, new

LEMMA ApplyRedirectInv ==
  ASSUME IndInv, NEW i \in Stages, ApplyRedirect(i), UNCHANGED <<sessionVars, code>>
  PROVE  IndInv'
<1> DEFINE j == stage[i].redirect
           rs == commands[i].redirects
           op == rs[j].op
           table == [fd[i] EXCEPT ![TargetOf(op)] =
                       IF op = ErrToOut THEN fd[i][1] ELSE File(j)]
           new == [stage[i] EXCEPT !.redirect = j + 1]
<1>1. /\ stage[i].pc = "redirect" /\ Live(i) /\ j \in DOMAIN rs
      /\ UNCHANGED <<commands, job, pipes, sig, failed, loop, aliases, env, code>>
  <2>1. stage[i].pc = "redirect"
    BY DEF ApplyRedirect
  <2> QED
    BY <2>1 DEF ApplyRedirect, sessionVars, Live
<1>2. /\ i \in Nat /\ i <= n /\ n' = n
      /\ Standard(rs, i, n, j, fd[i]) /\ ClosedAbove(fd[i], 2) /\ sig[i] = "default"
  BY <1>1 DEF IndInv, LiveInv, Child, Stages, n
<1>3. rs \in Seq(Redirection) /\ j \in 1 .. Len(rs)
  BY <1>1, <1>2, RedirectsType
<1>4. CASE Ends(i, 1)
  BY <1>1, <1>4, EndsInv
<1>5. CASE /\ fd' = [fd EXCEPT ![i][TargetOf(op)] =
                        IF op = ErrToOut THEN fd[i][1] ELSE File(j)]
           /\ stage' = [stage EXCEPT ![i].redirect = j + 1]
  <2>1. fd[i] \in Tables
    BY DEF IndInv, TypeOK
  <2>2. fd' = [fd EXCEPT ![i] = table] /\ stage' = [stage EXCEPT ![i] = new]
    BY <1>5 DEF IndInv, TypeOK
  <2>3. TargetOf(op) \in {0, 1, 2}
    <3>1. rs[j] \in Redirection
      BY <1>3
    <3> QED
      BY <3>1, Targets DEF Redirection
  <2>4. Standard(rs, i, n, j + 1, table)
    BY <1>2, <1>3, <2>1, StandardStep
  <2>5. ClosedAbove(table, 2)
    <3>1. \A d \in Descriptors : d > 2 => d # TargetOf(op)
      BY <2>3 DEF Descriptors
    <3> QED
      BY <1>2, <2>1, <3>1 DEF ClosedAbove, Tables
  <2>6. table \in Tables
    <3>1. 1 \in Descriptors
      BY PipelineAssumption DEF Descriptors
    <3>2. fd[i][1] \in Objects /\ File(j) \in Objects
      BY <1>3, <2>1, <3>1 DEF Tables, File, Objects
    <3> QED
      BY <2>1, <3>2 DEF Tables
  <2>7. j + 1 \in 1 .. Len(rs) + 1 /\ j + 1 \in Nat
    BY <1>3
  <2> HIDE DEF table
  <2>8. new \in StageRec /\ new.pc = "redirect" /\ new.redirect = j + 1
    BY <1>1, <2>7 DEF IndInv, TypeOK, StageRec
  <2> HIDE DEF new
  <2>9. fd'[i] = table /\ stage'[i] = new /\ sig'[i] = "default"
    BY <1>1, <1>2, <2>2 DEF IndInv, TypeOK
  <2>10. commands'[i].redirects = rs
    BY <1>1
  <2> HIDE DEF rs, j
  <2>11. Child(i)'
    BY <1>2, <2>4, <2>5, <2>7, <2>8, <2>9, <2>10 DEF Child
  <2> QED
    BY <1>1, <2>2, <2>6, <2>8, <2>11, ChildMoves
<1> QED
  BY <1>4, <1>5 DEF ApplyRedirect

LEMMA ExecInv ==
  ASSUME IndInv, NEW i \in Stages, Exec(i), UNCHANGED <<sessionVars, code>>
  PROVE  IndInv'
<1> DEFINE j == stage[i].redirect
           rs == commands[i].redirects
           new == [stage[i] EXCEPT !.pc = "running"]
<1>1. /\ stage[i].pc = "redirect" /\ Live(i) /\ j > Len(rs)
      /\ UNCHANGED <<commands, job, pipes, sig, failed, loop, aliases, env, code>>
  <2>1. stage[i].pc = "redirect"
    BY DEF Exec
  <2> QED
    BY <2>1 DEF Exec, sessionVars, Live
<1>2. /\ i <= n /\ n' = n /\ j \in 1 .. Len(rs) + 1
      /\ Standard(rs, i, n, j, fd[i]) /\ ClosedAbove(fd[i], 2) /\ sig[i] = "default"
  BY <1>1 DEF IndInv, LiveInv, Child, n
<1>3. rs \in Seq(Redirection)
  BY <1>2, RedirectsType
<1>4. j = Len(rs) + 1
  <2>1. Len(rs) \in Nat
    BY <1>3
  <2> QED
    BY <1>1, <1>2, <2>1
<1>5. CASE Ends(i, 127)
  <2>1. 127 \in Int
    OBVIOUS
  <2> QED
    BY <1>1, <1>5, <2>1, EndsInv
<1>6. CASE stage' = [stage EXCEPT ![i].pc = "running"] /\ UNCHANGED fd
  <2>1. /\ fd' = [fd EXCEPT ![i] = fd[i]] /\ stage' = [stage EXCEPT ![i] = new]
        /\ fd[i] \in Tables
    BY <1>6 DEF IndInv, TypeOK
  <2>2. new \in StageRec /\ new.pc = "running"
    BY DEF IndInv, TypeOK, StageRec
  <2> HIDE DEF new
  <2>3. fd'[i] = fd[i] /\ stage'[i] = new /\ sig'[i] = "default"
    BY <1>1, <1>2, <2>1 DEF IndInv, TypeOK
  <2>4. commands'[i].redirects = rs
    BY <1>1
  <2> HIDE DEF rs, j
  <2>5. Child(i)'
    BY <1>2, <1>4, <2>2, <2>3, <2>4 DEF Child
  <2> QED
    BY <1>1, <2>1, <2>2, <2>5, ChildMoves
<1> QED
  BY <1>5, <1>6 DEF Exec

\* A program that runs keeps its descriptors; only its own bookkeeping moves.
LEMMA RunsOn ==
  ASSUME IndInv, NEW i \in Stages, stage[i].pc = "running",
         NEW new \in StageRec, new.pc = "running", stage' = [stage EXCEPT ![i] = new],
         UNCHANGED <<commands, job, pipes, fd, sig, failed, loop, aliases, env, code>>
  PROVE  IndInv'
<1>1. Live(i) /\ Child(i) /\ n' = n
  BY DEF IndInv, LiveInv, Live, n
<1>2. fd' = [fd EXCEPT ![i] = fd[i]] /\ fd[i] \in Tables
  BY DEF IndInv, TypeOK
<1>3. stage'[i] = new
  BY DEF IndInv, TypeOK
<1>4. Child(i)'
  BY <1>1, <1>3 DEF Child
<1> QED
  BY <1>1, <1>2, <1>4, ChildMoves

LEMMA ProgramStepInv ==
  ASSUME IndInv, NEW i \in Stages, ProgramStep(i), UNCHANGED <<sessionVars, code>>
  PROVE  IndInv'
<1>1. /\ stage[i].pc = "running" /\ Live(i) /\ stage[i] \in StageRec
      /\ UNCHANGED <<commands, job, pipes, sig, failed, loop, aliases, env, code>>
  <2>1. stage[i].pc = "running"
    BY DEF ProgramStep, ReadItem, WriteItem, Finish
  <2> QED
    BY <2>1 DEF ProgramStep, ReadItem, WriteItem, Finish, sessionVars, Live, IndInv, TypeOK,
                StageRec
<1>2. CASE ReadItem(i)
  <2> DEFINE head == Kind(i) = "head"
             one == [stage[i] EXCEPT !.hand = TRUE, !.eof = head]
             two == [stage[i] EXCEPT !.eof = TRUE]
  <2>1. UNCHANGED fd
    BY <1>2 DEF ReadItem
  <2>2. \/ stage' = [stage EXCEPT ![i].hand = TRUE, ![i].eof = head]
        \/ stage' = [stage EXCEPT ![i].eof = TRUE]
    BY <1>2 DEF ReadItem
  <2>3. head \in BOOLEAN
    OBVIOUS
  <2> HIDE DEF head
  <2>4. stage' = [stage EXCEPT ![i] = one] \/ stage' = [stage EXCEPT ![i] = two]
    BY <2>2 DEF IndInv, TypeOK
  <2>5. /\ one \in StageRec /\ two \in StageRec /\ one.pc = "running" /\ two.pc = "running"
    BY <1>1, <2>3 DEF StageRec
  <2> HIDE DEF one, two
  <2> QED
    BY <1>1, <2>1, <2>4, <2>5, RunsOn
<1>3. CASE WriteItem(i)
  <2> DEFINE less == IF stage[i].left > 0 THEN stage[i].left - 1 ELSE 0
             new == [stage[i] EXCEPT !.left = less, !.hand = FALSE]
  <2>1. (Wrote(i) /\ UNCHANGED fd) \/ Ends(i, 128 + 13)
    BY <1>3 DEF WriteItem
  <2>2. less \in Nat
    BY <1>1 DEF StageRec
  <2>3. Wrote(i) => stage' = [stage EXCEPT ![i] = new]
    BY DEF Wrote, IndInv, TypeOK
  <2> HIDE DEF less
  <2>4. new \in StageRec /\ new.pc = "running"
    BY <1>1, <2>2 DEF StageRec
  <2> HIDE DEF new
  <2>5. 128 + 13 \in Int
    OBVIOUS
  <2>6. CASE Wrote(i) /\ UNCHANGED fd
    BY <1>1, <2>3, <2>4, <2>6, RunsOn
  <2>7. CASE Ends(i, 128 + 13)
    BY <1>1, <2>5, <2>7, EndsInv
  <2> QED
    BY <2>1, <2>6, <2>7
<1>4. CASE Finish(i)
  <2>1. Ends(i, 0) /\ 0 \in Int
    BY <1>4 DEF Finish
  <2> QED
    BY <1>1, <2>1, EndsInv
<1> QED
  BY <1>2, <1>3, <1>4 DEF ProgramStep

LEMMA StutterInv ==
  ASSUME IndInv, UNCHANGED vars
  PROVE  IndInv'
<1>1. /\ UNCHANGED pipelineVars /\ UNCHANGED <<loop, aliases, env, code>>
  BY DEF vars, pipelineVars
<1> QED
  BY <1>1, Frame DEF IndInv, TypeOK

\* The descriptor tables of the shell and of its children, through every
\* session, pipeline, failed call and signal.
THEOREM Invariance == Spec => []IndInv
<1>1. Init => IndInv
  BY InitInv
<1>2. IndInv /\ [Next]_vars => IndInv'
  <2> SUFFICES ASSUME IndInv, [Next]_vars PROVE IndInv'
    OBVIOUS
  <2>1. CASE StartSession
    BY <2>1, StartSessionInv
  <2>2. CASE ReadLine
    BY <2>2, ReadLineInv
  <2>3. CASE EndOfInput \/ Kill
    BY <2>3, LoopInv
  <2>4. CASE RunPipeline
    BY <2>4, RunPipelineInv
  <2>5. ASSUME NEW i \in Stages, Process(i) PROVE IndInv'
    BY <2>5, WireUpInv, CloseChildEndsInv, ApplyRedirectInv, ExecInv, ProgramStepInv
       DEF Process, ChildStep
  <2>6. CASE Interrupt /\ UNCHANGED <<sessionVars, code>>
    BY <2>6, InterruptInv
  <2>7. CASE UNCHANGED vars
    BY <2>7, StutterInv
  <2> QED
    BY <2>1, <2>2, <2>3, <2>4, <2>5, <2>6, <2>7 DEF Next
<1> QED
  BY <1>1, <1>2, PTL DEF Spec

(* What the invariant says of a program that starts, and of the prompt. *)

LEMMA WiredHere == IndInv => StagesWired
<1> SUFFICES ASSUME IndInv, NEW i \in Stages, stage[i].pc = "running"
             PROVE  LET all == Len(commands[i].redirects) + 1
                        OutAt(j) == LET r == LastRedirect(i, 1, j) IN
                                    IF r # 0 THEN File(r) ELSE IF i < n THEN WriteEnd(i) ELSE Term
                        in == LastRedirect(i, 0, all)
                        err == LastRedirect(i, 2, all)
                    IN  /\ fd[i][0] = IF in # 0 THEN File(in)
                                      ELSE IF i > 1 THEN ReadEnd(i - 1) ELSE Term
                        /\ fd[i][1] = OutAt(all)
                        /\ fd[i][2] = IF err = 0 THEN Term
                                      ELSE IF commands[i].redirects[err].op = ErrToOut
                                           THEN OutAt(err)
                                      ELSE File(err)
                        /\ \A d \in Descriptors \ (0 .. 2) : fd[i][d] = Closed
                        /\ sig[i] = "default"
  BY DEF StagesWired
<1> DEFINE rs == commands[i].redirects
<1>1. /\ Standard(rs, i, n, Len(rs) + 1, fd[i]) /\ ClosedAbove(fd[i], 2) /\ sig[i] = "default"
  BY DEF IndInv, LiveInv, Live, Child
<1>2. \A d, j : LastRedirect(i, d, j) = Latest(rs, d, j)
  BY DEF LastRedirect, Latest
<1>3. \A d \in Descriptors \ (0 .. 2) : d > 2
  BY DEF Descriptors
<1>4. \A d \in Descriptors \ (0 .. 2) : fd[i][d] = Closed
  BY <1>1, <1>3 DEF ClosedAbove
<1> HIDE DEF rs
<1> QED
  BY <1>1, <1>2, <1>4 DEF Standard, OutOf, rs

\* A program starts with the descriptors its line asks for and no other, its
\* signal handlers reset.
THEOREM Wiring == Spec => []StagesWired
BY Invariance, WiredHere, PTL

LEMMA CleanHere == IndInv => PromptIsClean
<1> SUFFICES ASSUME IndInv, loop = "prompt", job.pc = "idle"
             PROVE  /\ \A d \in Descriptors : fd[Shell][d].kind \notin {"r", "w"}
                    /\ fd[Shell][0] = Term \/ "pipe" \in failed
                    /\ \A i \in Stages : stage[i].pc \in {"none", "reaped"} \/ "fork" \in failed
  BY DEF PromptIsClean, AtPrompt
<1>1. /\ StdOnly(fd[Shell])
      /\ fd[Shell][0] = Term \/ "pipe" \in failed
      /\ \A i \in Stages : stage[i].pc \in {"none", "reaped"} \/ "fork" \in failed
  BY DEF IndInv, JobInv
<1>2. \A d \in Descriptors : d = 0 \/ d = 1 \/ d = 2 \/ d > 2
  BY DEF Descriptors
<1>3. \A d \in Descriptors : fd[Shell][d] \in {Term, Closed}
  BY <1>1, <1>2 DEF StdOnly, ClosedAbove
<1>4. Term.kind \notin {"r", "w"} /\ Closed.kind \notin {"r", "w"}
  BY DEF Term, Closed
<1> QED
  BY <1>1, <1>3, <1>4

\* Back at the prompt the shell holds no pipe end and has waited for everyone,
\* unless pipe() or fork() failed.
THEOREM CleanPrompt == Spec => []PromptIsClean
BY Invariance, CleanHere, PTL

(***************************************************************************)
(* The history.  At the prompt g_history holds everything that was kept,   *)
(* and everything this session accepted, so a save that is not cut short   *)
(* loses nothing.  A line that follows itself is one of P.                 *)
(***************************************************************************)
Tidy(P) == {h \in Seq(Word) : \A k \in 2 .. Len(h) : h[k] = h[k - 1] => h[k] \in P}

HistoryInv ==
  /\ files \in [Dirs -> Tidy(pieces)] /\ hist \in Tidy(pieces) /\ entered \in Seq(Word)
  /\ kept \subseteq ToSet(files[LoginHome])
  /\ loop = "prompt" => ToSet(entered) \cup kept \subseteq ToSet(hist)

LEMMA TidyGrows ==
  ASSUME NEW P, NEW Q, P \subseteq Q
  PROVE  Tidy(P) \subseteq Tidy(Q)
BY DEF Tidy

LEMMA TidyPrefix ==
  ASSUME NEW P, NEW h \in Tidy(P), NEW k \in 0 .. Len(h) - 1
  PROVE  SubSeq(h, 1, k) \in Tidy(P) /\ Len(SubSeq(h, 1, k)) = k
<1>1. h \in Seq(Word) /\ k \in Nat /\ k <= Len(h) /\ \A i \in 2 .. Len(h) : h[i] = h[i - 1] => h[i] \in P
  BY DEF Tidy
<1>2. \A i \in 1 .. k : h[i] \in Word
  BY <1>1
<1>3. /\ SubSeq(h, 1, k) \in Seq(Word) /\ Len(SubSeq(h, 1, k)) = k
      /\ \A i \in 1 .. k : SubSeq(h, 1, k)[i] = h[i]
  BY <1>1, <1>2
<1>4. ASSUME NEW i \in 2 .. k, SubSeq(h, 1, k)[i] = SubSeq(h, 1, k)[i - 1]
      PROVE  SubSeq(h, 1, k)[i] \in P
  <2>1. i \in 1 .. k /\ i - 1 \in 1 .. k /\ i \in 2 .. Len(h)
    BY <1>1
  <2> QED
    BY <1>1, <1>3, <1>4, <2>1
<1> QED
  BY <1>3, <1>4 DEF Tidy

\* One more line at the end: another than the last, or one of P.
LEMMA TidyAppend ==
  ASSUME NEW P, NEW h \in Tidy(P), NEW line \in Word,
         h = <<>> \/ Last(h) # line \/ line \in P
  PROVE  /\ Append(h, line) \in Tidy(P)
         /\ ToSet(Append(h, line)) = ToSet(h) \cup {line}
<1>1. h \in Seq(Word) /\ Len(h) \in Nat /\ \A i \in 2 .. Len(h) : h[i] = h[i - 1] => h[i] \in P
  BY DEF Tidy
<1>2. PICK more : more = Append(h, line)
  OBVIOUS
<1>3. /\ more \in Seq(Word) /\ Len(more) = Len(h) + 1 /\ more[Len(h) + 1] = line
      /\ \A i \in 1 .. Len(h) : more[i] = h[i]
  BY <1>1, <1>2
<1>4. Len(h) = 0 \/ h[Len(h)] # line \/ line \in P
  BY <1>1 DEF Last
<1>5. ASSUME NEW i \in 2 .. Len(h) + 1, more[i] = more[i - 1] PROVE more[i] \in P
  <2>1. CASE i = Len(h) + 1
    <3>1. i - 1 = Len(h) /\ i - 1 \in 1 .. Len(h) /\ Len(h) # 0
      BY <1>1, <2>1
    <3> QED
      BY <1>3, <1>4, <1>5, <2>1, <3>1
  <2>2. CASE i # Len(h) + 1
    <3>1. i \in 2 .. Len(h) /\ i \in 1 .. Len(h) /\ i - 1 \in 1 .. Len(h)
      BY <1>1, <2>2
    <3> QED
      BY <1>1, <1>3, <1>5, <3>1
  <2> QED
    BY <2>1, <2>2
<1>6. more \in Tidy(P)
  BY <1>3, <1>5 DEF Tidy
<1>7. DOMAIN h = 1 .. Len(h) /\ DOMAIN more = 1 .. Len(h) + 1
  BY <1>1, <1>3
<1>8. \A i \in 1 .. Len(h) : i \in 1 .. Len(h) + 1
  BY <1>1
<1>9. /\ Len(h) + 1 \in 1 .. Len(h) + 1
      /\ \A i \in 1 .. Len(h) + 1 : i = Len(h) + 1 \/ i \in 1 .. Len(h)
  BY <1>1
<1>10. ToSet(more) = ToSet(h) \cup {line}
  <2>1. ToSet(more) \subseteq ToSet(h) \cup {line}
    BY <1>3, <1>7, <1>9 DEF ToSet
  <2>2. ToSet(h) \cup {line} \subseteq ToSet(more)
    BY <1>3, <1>7, <1>8, <1>9 DEF ToSet
  <2> QED
    BY <2>1, <2>2
<1> QED
  BY <1>2, <1>6, <1>10

LEMMA LinesAreWords ==
  ASSUME NEW line \in Lines
  PROVE  line \in Word
<1>1. line \in Seq(ToSet(line))
  BY ShellAssumption
<1>2. ToSet(line) \subseteq Char
  BY DEF Char
<1> QED
  BY <1>1, <1>2 DEF Word

LEMMA HistoryAddTidy ==
  ASSUME NEW line \in Word, hist \in Tidy(pieces), HistoryAdd(line)
  PROVE  hist' \in Tidy(pieces) /\ ToSet(hist) \cup {line} \subseteq ToSet(hist')
<1>1. CASE hist # <<>> /\ Last(hist) = line
  <2>1. hist' = hist
    BY <1>1 DEF HistoryAdd
  <2>2. Len(hist) \in DOMAIN hist /\ hist[Len(hist)] = line
    BY <1>1 DEF Last, Tidy
  <2> QED
    BY <2>1, <2>2 DEF ToSet
<1>2. CASE ~(hist # <<>> /\ Last(hist) = line)
  <2>1. hist' = Append(hist, line)
    BY <1>2 DEF HistoryAdd
  <2> QED
    BY <1>2, <2>1, TidyAppend
<1> QED
  BY <1>1, <1>2

\* The end of a session, however the save goes.
LEMMA HistorySaveKeeps ==
  ASSUME HistoryInv, NEW lines \in Tidy(pieces), NEW new,
         ToSet(new) \cup kept \subseteq ToSet(lines), HistorySave(lines, new)
  PROVE  /\ files' \in [Dirs -> Tidy(pieces')] /\ pieces \subseteq pieces'
         /\ kept' \subseteq ToSet(files'[LoginHome])
<1>1. LoginHome \in Dirs
  BY ShellAssumption
<1>2. files \in [Dirs -> Tidy(pieces)] /\ kept \subseteq ToSet(files[LoginHome])
  BY DEF HistoryInv
<1>3. CASE /\ HistoryDir \in Dirs
           /\ files' = [files EXCEPT ![HistoryDir] = lines]
           /\ kept' = IF HistoryDir = LoginHome THEN kept \cup ToSet(new) ELSE kept
           /\ UNCHANGED pieces
  <2>1. files' \in [Dirs -> Tidy(pieces)]
    BY <1>2, <1>3
  <2>2. kept' \subseteq ToSet(files'[LoginHome])
    BY <1>1, <1>2, <1>3
  <2> QED
    BY <1>3, <2>1, <2>2
<1>4. ASSUME NEW k \in 0 .. Len(lines) - 1, NEW j \in 0 .. MaxPiece, j < Len(lines[k + 1]),
             HistoryDir \in Dirs,
             NEW whole, whole = SubSeq(lines, 1, k),
             NEW rest, rest = IF j = 0 THEN <<>> ELSE <<SubSeq(lines[k + 1], 1, j)>>,
             files' = [files EXCEPT ![HistoryDir] = whole \o rest],
             kept' = IF HistoryDir = LoginHome THEN kept \cap ToSet(whole) ELSE kept,
             pieces' = pieces \cup ToSet(rest)
      PROVE  /\ files' \in [Dirs -> Tidy(pieces')] /\ pieces \subseteq pieces'
             /\ kept' \subseteq ToSet(files'[LoginHome])
  <2>1. whole \in Tidy(pieces) /\ whole \in Tidy(pieces')
    BY <1>4, TidyPrefix, TidyGrows
  <2>2. whole \o rest \in Tidy(pieces') /\ ToSet(whole) \subseteq ToSet(whole \o rest)
    <3>1. whole \in Seq(Word)
      BY <2>1 DEF Tidy
    <3>2. CASE j = 0
      <4>1. whole \o rest = whole
        BY <1>4, <3>1, <3>2
      <4> QED
        BY <2>1, <4>1
    <3>3. CASE j # 0
      <4>1. PICK piece : piece = SubSeq(lines[k + 1], 1, j)
        OBVIOUS
      <4>2. rest = <<piece>> /\ whole \o rest = Append(whole, piece)
        <5>1. rest = <<piece>>
          BY <1>4, <3>3, <4>1
        <5>2. \A x : \A h \in Seq(Word) : h \o <<x>> = Append(h, x)
          OBVIOUS
        <5> QED
          BY <3>1, <5>1, <5>2
      <4>3. piece \in Word
        <5>1. lines \in Seq(Word) /\ k + 1 \in 1 .. Len(lines)
          BY DEF Tidy
        <5>2. lines[k + 1] \in Seq(Char)
          BY <5>1 DEF Word
        <5>3. j \in Nat /\ j <= Len(lines[k + 1])
          BY <1>4, <5>2, ShellAssumption
        <5>4. \A i \in 1 .. j : lines[k + 1][i] \in Char
          BY <5>2, <5>3
        <5> QED
          BY <4>1, <5>2, <5>3, <5>4, SubSeqProperties DEF Word
      <4>4. piece \in pieces'
        <5>1. 1 \in DOMAIN rest /\ rest[1] = piece
          BY <4>2
        <5> QED
          BY <1>4, <5>1 DEF ToSet
      <4>5. /\ Append(whole, piece) \in Tidy(pieces')
            /\ ToSet(Append(whole, piece)) = ToSet(whole) \cup {piece}
        <5>1. \A P : \A h \in Tidy(P) : \A word \in Word :
                (h = <<>> \/ Last(h) # word \/ word \in P)
                  => /\ Append(h, word) \in Tidy(P)
                     /\ ToSet(Append(h, word)) = ToSet(h) \cup {word}
          BY TidyAppend
        <5> QED
          BY <2>1, <4>3, <4>4, <5>1
      <4>6. ToSet(whole) \subseteq ToSet(Append(whole, piece))
        BY <4>5
      <4> QED
        BY <4>2, <4>5, <4>6
    <3> QED
      BY <3>2, <3>3
  <2>3. files \in [Dirs -> Tidy(pieces')] /\ pieces \subseteq pieces'
    BY <1>2, <1>4, TidyGrows
  <2>4. files' \in [Dirs -> Tidy(pieces')]
    BY <1>4, <2>2, <2>3
  <2>5. kept' \subseteq ToSet(files'[LoginHome])
    BY <1>1, <1>2, <1>4, <2>2
  <2> QED
    BY <2>3, <2>4, <2>5
<1>5. CASE UNCHANGED <<files, kept, pieces>>
  BY <1>2, <1>5
<1> QED
  BY <1>3, <1>4, <1>5 DEF HistorySave

\* A line that is accepted is in g_history from then on.
LEMMA AcceptKeeps ==
  ASSUME HistoryInv, loop = "prompt", NEW line \in Word, NEW p, Accept(line, p)
  PROVE  /\ hist' \in Tidy(pieces) /\ entered' \in Seq(Word)
         /\ ToSet(entered') \cup kept \subseteq ToSet(hist')
<1>1. HistoryAdd(line) /\ entered' = Append(entered, line)
  BY DEF Accept
<1>2. hist' \in Tidy(pieces) /\ ToSet(hist) \cup {line} \subseteq ToSet(hist')
  BY <1>1, HistoryAddTidy DEF HistoryInv
<1>3. entered \in Seq(Word) /\ ToSet(entered) \cup kept \subseteq ToSet(hist)
  BY DEF HistoryInv
<1>4. entered' \in Seq(Word) /\ ToSet(entered') = ToSet(entered) \cup {line}
  BY <1>1, <1>3 DEF ToSet
<1> QED
  BY <1>2, <1>3, <1>4

LEMMA ReadLineKeeps ==
  ASSUME HistoryInv, ReadLine
  PROVE  HistoryInv'
<1>1. loop = "prompt"
  BY DEF ReadLine, AtPrompt
<1>2. PICK line \in Lines :
        LET p == ParsePipeline(ExpandAlias(line)) IN
        IgnoreLine(p) \/ ExitLine(line, p) \/ BuiltinLine(line, p) \/ PipelineLine(line, p)
  BY DEF ReadLine
<1> DEFINE p == ParsePipeline(ExpandAlias(line))
<1>3. IgnoreLine(p) \/ ExitLine(line, p) \/ BuiltinLine(line, p) \/ PipelineLine(line, p)
  BY <1>2
<1>w. line \in Word
  BY LinesAreWords
<1> HIDE DEF p
<1>4. CASE IgnoreLine(p)
  BY <1>4 DEF IgnoreLine, HistoryInv
<1>5. CASE ExitLine(line, p)
  <2>1. Accept(line, p) /\ HistorySave(hist', entered') /\ loop' = "ended"
    BY <1>5 DEF ExitLine
  <2>2. /\ hist' \in Tidy(pieces) /\ entered' \in Seq(Word)
        /\ ToSet(entered') \cup kept \subseteq ToSet(hist')
    BY <1>1, <1>w, <2>1, AcceptKeeps
  <2>3. /\ files' \in [Dirs -> Tidy(pieces')] /\ pieces \subseteq pieces'
        /\ kept' \subseteq ToSet(files'[LoginHome])
    BY <2>1, <2>2, HistorySaveKeeps
  <2>4. hist' \in Tidy(pieces')
    BY <2>2, <2>3, TidyGrows
  <2> QED
    BY <2>1, <2>2, <2>3, <2>4 DEF HistoryInv
<1>6. CASE BuiltinLine(line, p) \/ PipelineLine(line, p)
  <2>1. Accept(line, p) /\ UNCHANGED <<files, kept, pieces>>
    BY <1>6 DEF BuiltinLine, PipelineLine
  <2>2. /\ hist' \in Tidy(pieces) /\ entered' \in Seq(Word)
        /\ ToSet(entered') \cup kept \subseteq ToSet(hist')
    BY <1>1, <1>w, <2>1, AcceptKeeps
  <2> QED
    BY <2>1, <2>2 DEF HistoryInv
<1> QED
  BY <1>3, <1>4, <1>5, <1>6

LEMMA NothingWritten ==
  ASSUME HistoryInv, UNCHANGED <<files, hist, entered, kept, pieces>>,
         loop' = "prompt" => loop = "prompt"
  PROVE  HistoryInv'
BY DEF HistoryInv

\* Through every session and every way a save can fail, what was saved is in the
\* file until a save is cut short, and a line follows itself only if it is what such
\* a save left of one.
THEOREM HistoryStays == Spec => []HistoryKept
<1>1. Init => HistoryInv
  <2> SUFFICES ASSUME Init PROVE HistoryInv
    OBVIOUS
  <2>1. <<>> \in Tidy({}) /\ <<>> \in Seq(Word) /\ {} \subseteq ToSet(<<>>)
    BY DEF Tidy
  <2>2. /\ loop = "off" /\ hist = <<>> /\ files = [d \in Dirs |-> <<>>] /\ entered = <<>>
        /\ kept = {} /\ pieces = {}
    BY DEF Init
  <2> QED
    BY <2>1, <2>2 DEF HistoryInv
<1>2. HistoryInv /\ [Next]_vars => HistoryInv'
  <2> SUFFICES ASSUME HistoryInv, [Next]_vars PROVE HistoryInv'
    OBVIOUS
  <2>1. CASE StartSession
    <3>1. hist' = files[LoginHome] /\ entered' = <<>> /\ UNCHANGED <<files, kept, pieces>>
      BY <2>1 DEF StartSession, HistoryLoad
    <3>2. entered' \in Seq(Word) /\ ToSet(entered') = {}
      BY <3>1 DEF ToSet
    <3>3. LoginHome \in Dirs
      BY ShellAssumption
    <3> QED
      BY <3>1, <3>2, <3>3 DEF HistoryInv
  <2>2. CASE ReadLine
    BY <2>2, ReadLineKeeps
  <2>3. CASE EndOfInput
    <3>1. /\ loop = "prompt" /\ loop' = "ended" /\ HistorySave(hist, entered)
          /\ UNCHANGED <<hist, entered>>
      BY <2>3 DEF EndOfInput, AtPrompt
    <3>2. /\ files' \in [Dirs -> Tidy(pieces')] /\ pieces \subseteq pieces'
          /\ kept' \subseteq ToSet(files'[LoginHome])
      BY <3>1, HistorySaveKeeps DEF HistoryInv
    <3>3. hist' \in Tidy(pieces')
      BY <3>1, <3>2, TidyGrows DEF HistoryInv
    <3>4. entered' \in Seq(Word)
      BY <3>1 DEF HistoryInv
    <3> QED
      BY <3>1, <3>2, <3>3, <3>4 DEF HistoryInv
  <2>4. CASE Kill
    BY <2>4, NothingWritten DEF Kill
  <2>5. CASE RunPipeline
    BY <2>5, NothingWritten DEF RunPipeline, sessionVars
  <2>6. ASSUME NEW i \in Stages, Process(i) PROVE HistoryInv'
    BY <2>6, NothingWritten DEF Process, sessionVars
  <2>7. CASE Interrupt /\ UNCHANGED <<sessionVars, code>>
    BY <2>7, NothingWritten DEF sessionVars
  <2>8. CASE UNCHANGED vars
    BY <2>8, NothingWritten DEF vars
  <2> QED
    BY <2>1, <2>2, <2>3, <2>4, <2>5, <2>6, <2>7, <2>8 DEF Next
<1>3. HistoryInv => HistoryKept
  BY DEF HistoryInv, HistoryKept, Tidy
<1> QED
  BY <1>1, <1>2, <1>3, PTL DEF Spec
=============================================================================
