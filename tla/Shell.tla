-------------------------------- MODULE Shell --------------------------------
(***************************************************************************)
(* The main loop of demo-shell (main.cpp) with its builtins, aliases and   *)
(* history (builtins.cpp), on top of Pipeline.  A session reads lines      *)
(* until exit, quit or the end of its input, then writes the history file; *)
(* kill -9 ends it without.  Sessions follow one another and share the     *)
(* history files, one per directory HOME may name.                         *)
(***************************************************************************)
EXTENDS Pipeline

CONSTANTS
  Lines,        \* what the user may type
  Dirs,         \* directories that exist
  WordsToQuote, \* words the tokenizer is checked on
  LoginHome,    \* HOME at the start of a session
  StartDir,     \* working directory at the start of a session
  MaxLines,     \* bound: lines typed over all sessions
  MaxSessions,  \* bound: sessions
  MaxPiece      \* bound: how much of a line a save that is cut inside it leaves

ASSUME ShellAssumption ==
  /\ {LoginHome, StartDir} \subseteq Dirs
  /\ \A line \in Lines : line \in Seq(ToSet(line))
  /\ MaxPiece \in Nat

VARIABLES
  loop,       \* "off", "prompt", "ended", "killed"
  hist,       \* g_history
  aliases,    \* g_aliases
  env,        \* environment variables
  cwd,
  code,       \* what the last command returned
  files,      \* history file of each directory
  typed,      \* number of lines typed
  sessions,   \* number of sessions
  entered,    \* history: lines accepted in this session
  kept,       \* history: lines written to LoginHome and not lost in a save cut short
  pieces      \* history: what such saves left of a line

vars == <<commands, job, pipes, fd, sig, stage, buf, interrupts, failed,
          loop, hist, aliases, env, cwd, code, files, typed, sessions, entered, kept,
          pieces>>
sessionVars == <<loop, hist, aliases, env, cwd, files, typed, sessions, entered, kept, pieces>>

Home == <<"HOME">>
Bind(f, key, val) == [w \in DOMAIN f \cup {key} |-> IF w = key THEN val ELSE f[w]]
EqAt(w) == SelectInSeq(w, LAMBDA c : c = "=")
Key(w) == SubSeq(w, 1, EqAt(w) - 1)
Value(w) == SubSeq(w, EqAt(w) + 1, Len(w))

Init ==
  /\ InitPipeline
  /\ loop = "off" /\ hist = <<>> /\ aliases = <<>> /\ env = <<>> /\ cwd = StartDir /\ code = 0
  /\ files = [d \in Dirs |-> <<>>]
  /\ typed = 0 /\ sessions = 0 /\ entered = <<>> /\ kept = {} /\ pieces = {}
----------------------------------------------------------------------------
(* Builtins: what they leave in [env, aliases, cwd] and return. *)

Cd(argv, st) ==
  LET target == IF Len(argv) > 1 THEN argv[2] ELSE st.env[Home]
  IN  IF (Len(argv) > 1 \/ Home \in DOMAIN st.env) /\ target \in Dirs
      THEN [st EXCEPT !.cwd = target, !.code = 0]
      ELSE [st EXCEPT !.code = 1]

\* KEY=VALUE one after the other; the first bad one ends it, the others stay set.
Export(argv, st) ==
  LET Step(s, w) == IF s.code # 0 THEN s
                    ELSE IF EqAt(w) > 1 THEN [s EXCEPT !.env = Bind(@, Key(w), Value(w))]
                    ELSE [s EXCEPT !.code = 1]
  IN  FoldLeft(Step, [st EXCEPT !.code = IF Len(argv) < 2 THEN 1 ELSE 0], Tail(argv))

\* unsetenv refuses an empty name and one with "=" in it.
Unset(argv, st) ==
  LET Step(s, w) == IF s.code # 0 THEN s
                    ELSE IF w # <<>> /\ EqAt(w) = 0
                    THEN [s EXCEPT !.env = [v \in DOMAIN @ \ {w} |-> @[v]]]
                    ELSE [s EXCEPT !.code = 1]
  IN  FoldLeft(Step, [st EXCEPT !.code = 0], Tail(argv))

\* An unknown name is reported and the next argument is looked at.
Alias(argv, st) ==
  LET Step(s, w) == IF EqAt(w) > 0 THEN [s EXCEPT !.aliases = Bind(@, Key(w), Value(w))]
                    ELSE IF w \in DOMAIN s.aliases THEN s ELSE [s EXCEPT !.code = 1]
  IN  FoldLeft(Step, [st EXCEPT !.code = 0], Tail(argv))

Unalias(argv, st) ==
  [st EXCEPT !.aliases = [w \in DOMAIN @ \ ToSet(Tail(argv)) |-> @[w]], !.code = 0]

BuiltinNames == {<<"cd">>, <<"pwd">>, <<"export">>, <<"unset">>, <<"history">>, <<"echo">>,
                 <<"type">>, <<"alias">>, <<"unalias">>}
ExitNames == {<<"exit">>, <<"quit">>}

\* The programs of Behaviour are those that type finds on PATH.
Type(argv, st) ==
  LET known == BuiltinNames \cup ExitNames \cup DOMAIN Behaviour
  IN  [st EXCEPT !.code = IF Len(argv) > 1 /\ ToSet(Tail(argv)) \subseteq known THEN 0 ELSE 1]

\* pwd, history and echo only print.
TryBuiltin(argv, st) ==
  CASE argv[1] = <<"cd">> -> Cd(argv, st)
    [] argv[1] = <<"export">> -> Export(argv, st)
    [] argv[1] = <<"unset">> -> Unset(argv, st)
    [] argv[1] = <<"alias">> -> Alias(argv, st)
    [] argv[1] = <<"unalias">> -> Unalias(argv, st)
    [] argv[1] = <<"type">> -> Type(argv, st)
    [] argv[1] \in {<<"pwd">>, <<"history">>, <<"echo">>} -> [st EXCEPT !.code = 0]

\* The first word only, and once: the replacement is not looked up again.
ExpandAlias(line) ==
  LET start == SelectInSeq(line, LAMBDA c : c # Blank)
      rest == IF start = 0 THEN <<>> ELSE SubSeq(line, start, Len(line))
      end == SelectInSeq(rest, LAMBDA c : c = Blank)
      first == IF end = 0 THEN rest ELSE SubSeq(rest, 1, end - 1)
  IN  IF start # 0 /\ first \in DOMAIN aliases
      THEN aliases[first] \o SubSeq(rest, Len(first) + 1, Len(rest)) ELSE line
----------------------------------------------------------------------------
(* History. *)

\* Slip for HistoryAdd: the file's last line is not compared with.
HistoryAddInSession(line) ==
  hist' = IF entered # <<>> /\ Last(entered) = line THEN hist ELSE Append(hist, line)

HistoryAdd(line) ==
  hist' = IF hist # <<>> /\ Last(hist) = line THEN hist ELSE Append(hist, line)

\* Where history_path() points now: HOME, or the working directory without it.
HistoryDir == IF Home \in DOMAIN env THEN env[Home] ELSE cwd

\* The file is emptied and written anew.  If it cannot be opened it stays as it is;
\* a full disk or kill -9 on the way leaves its first lines, and maybe the beginning
\* of the next, which will be read as a line.
HistorySave(lines, new) ==
  \/ /\ HistoryDir \in Dirs
     /\ files' = [files EXCEPT ![HistoryDir] = lines]
     /\ kept' = IF HistoryDir = LoginHome THEN kept \cup ToSet(new) ELSE kept
     /\ UNCHANGED pieces
  \/ \E k \in 0 .. Len(lines) - 1, j \in 0 .. MaxPiece :
       LET whole == SubSeq(lines, 1, k)
           rest == IF j = 0 THEN <<>> ELSE <<SubSeq(lines[k + 1], 1, j)>>
       IN  /\ HistoryDir \in Dirs /\ j < Len(lines[k + 1])
           /\ files' = [files EXCEPT ![HistoryDir] = whole \o rest]
           /\ kept' = IF HistoryDir = LoginHome THEN kept \cap ToSet(whole) ELSE kept
           /\ pieces' = pieces \cup ToSet(rest)
  \/ UNCHANGED <<files, kept, pieces>>

\* No line in the file is empty.
HistoryLoad(dir) == files[dir]

\* SIGINT, SIGQUIT and SIGPIPE.
InstallShellSignalHandlers == sig' = [sig EXCEPT ![Shell] = "ignored"]

StartSession ==
  /\ loop \in {"off", "ended", "killed"} /\ sessions < MaxSessions
  /\ \A i \in Stages : ~Live(i)    \* bound: orphans of the last session are gone
  /\ sessions' = sessions + 1
  /\ loop' = "prompt"
  /\ InstallShellSignalHandlers
  /\ fd' = [fd EXCEPT ![Shell] = [AllClosed EXCEPT ![0] = Term, ![1] = Term, ![2] = Term]]
  /\ job' = [pc |-> "idle", i |-> 0, status |-> 0]
  /\ stage' = [i \in Stages |-> NoStage] /\ commands' = <<>>
  /\ env' = Bind(<<>>, Home, LoginHome) /\ cwd' = StartDir /\ aliases' = <<>>
  /\ hist' = HistoryLoad(LoginHome)
  /\ entered' = <<>> /\ code' = 0 /\ failed' = {} /\ pipes' = <<>> /\ buf' = <<>>
  /\ UNCHANGED <<interrupts, files, typed, kept, pieces>>
----------------------------------------------------------------------------
(* The loop. *)

AtPrompt == loop = "prompt" /\ job.pc = "idle"

\* p is the line, its alias expanded, as parse_pipeline leaves it.
\* Rejected or empty: back to the prompt, and not into the history.
IgnoreLine(p) ==
  /\ ~p.ok \/ p.commands = <<>>
  /\ UNCHANGED <<loop, hist, aliases, env, cwd, code, files, entered, kept, pieces>>
  /\ UNCHANGED pipelineVars

Accept(line, p) ==
  /\ p.ok /\ p.commands # <<>>
  /\ HistoryAdd(line)
  /\ entered' = Append(entered, line)

\* exit and quit count in front of a bar or a redirection as well.
ExitLine(line, p) ==
  /\ Accept(line, p)
  /\ p.commands[1].argv[1] \in ExitNames
  /\ loop' = "ended" /\ HistorySave(hist', entered')
  /\ UNCHANGED <<aliases, env, cwd, code>>
  /\ UNCHANGED pipelineVars

Bare(cs) == Len(cs) = 1 /\ cs[1].redirects = <<>> /\ cs[1].argv[1] \in BuiltinNames

BuiltinLine(line, p) ==
  LET after == TryBuiltin(p.commands[1].argv, [env |-> env, aliases |-> aliases,
                                               cwd |-> cwd, code |-> code])
  IN  /\ Accept(line, p) /\ Bare(p.commands)
      /\ env' = after.env /\ aliases' = after.aliases /\ cwd' = after.cwd
      /\ code' = after.code
      /\ UNCHANGED <<loop, files, kept, pieces>>
      /\ UNCHANGED pipelineVars

PipelineLine(line, p) ==
  /\ Accept(line, p) /\ ~Bare(p.commands) /\ p.commands[1].argv[1] \notin ExitNames
  /\ Len(p.commands) <= MaxStages
  /\ \A i \in Stages : ~Live(i)    \* bound: orphans of a failed fork are gone
  /\ StartPipeline(p.commands)
  /\ UNCHANGED <<loop, aliases, env, cwd, code, files, kept, pieces>>

ReadLine ==
  /\ AtPrompt /\ fd[Shell][0] = Term /\ typed < MaxLines
  /\ typed' = typed + 1 /\ UNCHANGED sessions
  /\ \E line \in Lines :
       LET p == ParsePipeline(ExpandAlias(line)) IN
       \/ IgnoreLine(p) \/ ExitLine(line, p) \/ BuiltinLine(line, p) \/ PipelineLine(line, p)

\* getline fails: Ctrl+D, or the shell's descriptor 0 is closed.
EndOfInput ==
  /\ AtPrompt
  /\ loop' = "ended" /\ HistorySave(hist, entered)
  /\ UNCHANGED <<hist, aliases, env, cwd, code, typed, sessions, entered>>
  /\ UNCHANGED pipelineVars

Kill ==
  /\ loop = "prompt"
  /\ loop' = "killed"
  /\ fd' = [fd EXCEPT ![Shell] = AllClosed]
  /\ job' = [job EXCEPT !.pc = "killed"]
  /\ UNCHANGED <<commands, pipes, sig, stage, buf, interrupts, failed,
                 hist, aliases, env, cwd, code, files, typed, sessions, entered, kept, pieces>>

\* A step of run_pipeline; its result is what the loop prints.
RunPipeline ==
  /\ loop = "prompt" /\ ShellStep
  /\ code' = IF job'.pc = "idle" THEN job'.status ELSE code
  /\ UNCHANGED sessionVars

Process(i) == i \in Stages /\ (ChildStep(i) \/ ProgramStep(i)) /\ UNCHANGED <<sessionVars, code>>

Next ==
  \/ StartSession \/ ReadLine \/ EndOfInput \/ Kill \/ RunPipeline
  \/ \E i \in Stages : Process(i)
  \/ Interrupt /\ UNCHANGED <<sessionVars, code>>

(***************************************************************************)
(* The kernel runs every process that can run.  The user owes nothing: not *)
(* a line, not Ctrl+C, not the end of the session.                         *)
(***************************************************************************)
Fairness == WF_vars(RunPipeline) /\ \A i \in Stages : WF_vars(Process(i))

Spec == Init /\ [][Next]_vars /\ Fairness
----------------------------------------------------------------------------

\* The last redirection of command i on descriptor d before the j-th; 0 is none.
LastRedirect(i, d, j) ==
  SelectLastInSeq(SubSeq(commands[i].redirects, 1, j - 1), LAMBDA r : TargetOf(r.op) = d)

(***************************************************************************)
(* When a program starts, each of its standard descriptors is its last     *)
(* redirection, or else its neighbour's pipe, or else the terminal; 2>&1   *)
(* is what standard output was at that point of the line.  It has no other *)
(* descriptor: a pipe end left open anywhere would keep end of file from a *)
(* reader (pipeline.cpp:197-213).                                          *)
(***************************************************************************)
StagesWired ==
  \A i \in Stages : stage[i].pc = "running" =>
    LET all == Len(commands[i].redirects) + 1
        OutAt(j) == LET r == LastRedirect(i, 1, j) IN
                    IF r # 0 THEN File(r) ELSE IF i < n THEN WriteEnd(i) ELSE Term
        in == LastRedirect(i, 0, all)
        err == LastRedirect(i, 2, all)
    IN  /\ fd[i][0] = IF in # 0 THEN File(in) ELSE IF i > 1 THEN ReadEnd(i - 1) ELSE Term
        /\ fd[i][1] = OutAt(all)
        /\ fd[i][2] = IF err = 0 THEN Term
                      ELSE IF commands[i].redirects[err].op = ErrToOut THEN OutAt(err)
                      ELSE File(err)
        /\ \A d \in Descriptors \ (0 .. 2) : fd[i][d] = Closed
        /\ sig[i] = "default"

(***************************************************************************)
(* Back at the prompt the shell holds no pipe end, still reads the         *)
(* terminal, and has waited for every child (pipeline.cpp:221-235;         *)
(* signals.cpp:17-18 has no SIGCHLD handler because of that).  After       *)
(* pipe() failed descriptor 0 is closed, and after fork() failed there are *)
(* children nobody waits for; nothing else excuses the shell.              *)
(***************************************************************************)
PromptIsClean ==
  AtPrompt =>
    /\ \A d \in Descriptors : fd[Shell][d].kind \notin {"r", "w"}
    /\ fd[Shell][0] = Term \/ "pipe" \in failed
    /\ \A i \in Stages : stage[i].pc \in {"none", "reaped"} \/ "fork" \in failed

(***************************************************************************)
(* What was saved is in the file until a save is cut short, and a line     *)
(* follows itself only if a save that was cut inside a line left it there: *)
(* no session adds a line it finds at the end (builtins.cpp:244-265).      *)
(***************************************************************************)
HistoryKept ==
  /\ kept \subseteq ToSet(files[LoginHome])
  /\ \A k \in 2 .. Len(hist) : hist[k] = hist[k - 1] => hist[k] \in pieces

(***************************************************************************)
(* A word in single quotes, or with every character escaped, comes back as *)
(* it was (exec_runner.h:10-13).  As an argument it stays one word too,    *)
(* unless it spells an operator: the pipeline sees the word only.  Looked  *)
(* at in the first state, since it is about the parser alone.              *)
(***************************************************************************)
QuotingKeepsWords ==
  loop = "off" => \A w \in WordsToQuote :
    LET quoted == <<Quote1>> \o w \o <<Quote1>>
        escaped == FlattenSeq([k \in DOMAIN w |-> <<Escape, w[k]>>])
    IN  /\ Tokenize(quoted) = [ok |-> TRUE, words |-> <<w>>]
        /\ Tokenize(escaped) = [ok |-> TRUE, words |-> <<w>>]
        /\ w \notin ToSet(Operators) =>
             ParsePipeline(<<"echo", " ">> \o quoted) =
               [ok |-> TRUE, commands |-> << [argv |-> << <<"echo">>, w >>,
                                              redirects |-> <<>>] >>]

(***************************************************************************)
(* A pipeline whose programs do not wait for a signal comes to its end and *)
(* the prompt is back: no reader waits for a writer that is only a         *)
(* forgotten descriptor, and an endless writer dies with its reader        *)
(* (pipeline.cpp:206, 221; signals.cpp:21-30).                             *)
(***************************************************************************)
NeedsSignal(i) == /\ Live(i)
                  /\ \/ Kind(i) = "sleep"
                     \/ Kind(i) = "endless" /\ (i = n \/ commands[i].redirects # <<>>)

PipelineFinishes ==
  (job.pc # "idle") ~> (job.pc = "idle" \/ loop = "killed"
                        \/ \E i \in 1 .. n : NeedsSignal(i))
=============================================================================
