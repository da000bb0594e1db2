------------------------------ MODULE Pipeline ------------------------------
(***************************************************************************)
(* run_pipeline of demo-shell (pipeline.cpp): the shell makes the pipes,   *)
(* forks one process per command, closes its own pipe ends and waits for   *)
(* each child in turn, while the children put their ends onto descriptors  *)
(* 0 and 1, close the rest, apply their redirections and exec.             *)
(*                                                                         *)
(* Every process has a descriptor table; process 0 is the shell, process i *)
(* runs command i.  What the kernel does with a pipe (a bounded buffer,    *)
(* end of file without writers, SIGPIPE without readers) and how the       *)
(* programs behave are modelled as the environment of that code.           *)
(***************************************************************************)
EXTENDS ShellParser, Integers, FiniteSets, FiniteSetsExt

CONSTANTS
  MaxStages,      \* bound: commands in one pipeline
  PipeCap,        \* items a pipe holds before its writer blocks
  SourceItems,    \* items a "source" program writes
  MaxInterrupts,  \* bound: times the user presses Ctrl+C
  Behaviour       \* what the programs on PATH do: "source" writes SourceItems items,
                  \* "endless" writes for ever, "filter" copies until end of file,
                  \* "head" takes one item, "sleep" ends by a signal only

ASSUME PipelineAssumption ==
  /\ MaxStages \in Nat \ {0} /\ PipeCap \in Nat \ {0} /\ SourceItems \in Nat
  /\ MaxInterrupts \in Nat

VARIABLES
  commands,    \* the pipeline that runs, or ran last
  job,         \* run_pipeline's progress in the shell
  pipes,       \* its array of descriptor pairs, zero-initialised
  fd,          \* descriptor tables
  sig,         \* SIGINT, SIGQUIT and SIGPIPE of a process: "default" or "ignored"
  stage,       \* the child processes
  buf,         \* items in each pipe
  interrupts,  \* times Ctrl+C was pressed
  failed       \* history: the calls that failed since the shell started

pipelineVars == <<commands, job, pipes, fd, sig, stage, buf, interrupts, failed>>

Shell == 0
Stages == 1 .. MaxStages
Descriptors == 0 .. 2 * MaxStages
n == Len(commands)

Term == [kind |-> "tty", of |-> 0]
Closed == [kind |-> "none", of |-> 0]
ReadEnd(k) == [kind |-> "r", of |-> k]
WriteEnd(k) == [kind |-> "w", of |-> k]
File(j) == [kind |-> "file", of |-> j]   \* the target of the j-th redirection
AllClosed == [d \in Descriptors |-> Closed]

Program(c) == IF c.argv[1] \in DOMAIN Behaviour THEN Behaviour[c.argv[1]] ELSE "missing"

NoStage == [pc |-> "none", redirect |-> 0, left |-> 0, hand |-> FALSE, eof |-> FALSE,
            exit |-> 0]
Live(i) == stage[i].pc \in {"forked", "wired", "redirect", "running"}

Holders(obj) == {p \in {Shell} \cup Stages : \E d \in Descriptors : fd[p][d] = obj}

InitPipeline ==
  /\ commands = <<>> /\ pipes = <<>> /\ buf = <<>> /\ interrupts = 0 /\ failed = {}
  /\ job = [pc |-> "idle", i |-> 0, status |-> 0]
  /\ fd = [p \in {Shell} \cup Stages |-> AllClosed]
  /\ sig = [p \in {Shell} \cup Stages |-> "default"]
  /\ stage = [i \in Stages |-> NoStage]
----------------------------------------------------------------------------
(* The shell's side. *)

\* Slip for CloseAllPipes: the loop closes the reading ends only.
CloseReadEnds(table) ==
  [d \in Descriptors |-> IF \E k \in DOMAIN pipes : d = pipes[k][1]
                         THEN Closed ELSE table[d]]

CloseAllPipes(table) ==
  [d \in Descriptors |-> IF \E k \in DOMAIN pipes : d \in {pipes[k][1], pipes[k][2]}
                         THEN Closed ELSE table[d]]

StartPipeline(cs) ==
  /\ commands' = cs
  /\ job' = [pc |-> IF Len(cs) = 1 THEN "fork" ELSE "pipe", i |-> 1, status |-> 0]
  /\ pipes' = [k \in 1 .. Len(cs) - 1 |-> <<0, 0>>]
  /\ buf' = [k \in 1 .. Len(cs) - 1 |-> 0]
  /\ stage' = [i \in Stages |-> NoStage]
  /\ UNCHANGED <<fd, sig, interrupts, failed>>

Return(status) == job' = [pc |-> "idle", i |-> 0, status |-> status]

MakePipe ==
  LET free == {d \in Descriptors : fd[Shell][d] = Closed}
      r == Min(free)
      w == Min(free \ {r})
  IN  /\ job.pc = "pipe"
      /\ fd' = [fd EXCEPT ![Shell][r] = ReadEnd(job.i), ![Shell][w] = WriteEnd(job.i)]
      /\ pipes' = [pipes EXCEPT ![job.i] = <<r, w>>]
      /\ job' = IF job.i < n - 1 THEN [job EXCEPT !.i = @ + 1]
                ELSE [job EXCEPT !.pc = "fork", !.i = 1]
      /\ UNCHANGED <<commands, sig, stage, buf, interrupts, failed>>

\* The pairs not made yet are <<0, 0>>: the cleanup closes descriptor 0.
PipeFails ==
  /\ job.pc = "pipe"
  /\ fd' = [fd EXCEPT ![Shell] = CloseAllPipes(@)]
  /\ Return(-1)
  /\ failed' = failed \cup {"pipe"}
  /\ UNCHANGED <<commands, pipes, sig, stage, buf, interrupts>>

Fork ==
  /\ job.pc = "fork"
  /\ fd' = [fd EXCEPT ![job.i] = fd[Shell]]
  /\ sig' = [sig EXCEPT ![job.i] = sig[Shell]]
  /\ stage' = [stage EXCEPT ![job.i] = [NoStage EXCEPT !.pc = "forked", !.left = SourceItems]]
  /\ job' = IF job.i < n THEN [job EXCEPT !.i = @ + 1] ELSE [job EXCEPT !.pc = "close"]
  /\ UNCHANGED <<commands, pipes, buf, interrupts, failed>>

\* The children already forked are neither killed nor waited for.
ForkFails ==
  /\ job.pc = "fork"
  /\ fd' = [fd EXCEPT ![Shell] = CloseAllPipes(@)]
  /\ Return(-1)
  /\ failed' = failed \cup {"fork"}
  /\ UNCHANGED <<commands, pipes, sig, stage, buf, interrupts>>

CloseParentEnds ==
  /\ job.pc = "close"
  /\ fd' = [fd EXCEPT ![Shell] = CloseAllPipes(@)]
  /\ job' = [job EXCEPT !.pc = "wait", !.i = 1]
  /\ UNCHANGED <<commands, pipes, sig, stage, buf, interrupts, failed>>

Wait ==
  /\ job.pc = "wait"
  /\ stage[job.i].pc = "exited"
  /\ stage' = [stage EXCEPT ![job.i].pc = "reaped"]
  /\ IF job.i < n THEN job' = [job EXCEPT !.i = @ + 1] ELSE Return(stage[job.i].exit)
  /\ UNCHANGED <<commands, pipes, fd, sig, buf, interrupts, failed>>

ShellStep == MakePipe \/ PipeFails \/ Fork \/ ForkFails \/ CloseParentEnds \/ Wait
----------------------------------------------------------------------------
(* A child, until exec. *)

Ends(i, code) ==
  /\ stage' = [stage EXCEPT ![i] = [NoStage EXCEPT !.pc = "exited", !.exit = code]]
  /\ fd' = [fd EXCEPT ![i] = AllClosed]

RestoreDefaultSignalHandlers(i) == sig' = [sig EXCEPT ![i] = "default"]

\* The handlers and the two dup2.
WireUp(i) ==
  /\ stage[i].pc = "forked"
  /\ stage' = [stage EXCEPT ![i].pc = "wired"]
  /\ RestoreDefaultSignalHandlers(i)
  /\ fd' = [fd EXCEPT ![i] = [d \in Descriptors |->
              CASE d = 0 /\ i > 1 -> @[pipes[i - 1][1]]
                [] d = 1 /\ i < n -> @[pipes[i][2]]
                [] OTHER -> @[d]]]
  /\ UNCHANGED <<commands, job, pipes, buf, interrupts, failed>>

\* Slip for CloseChildEnds: the child keeps what it did not need.
CloseNothing(i) ==
  /\ stage[i].pc = "wired"
  /\ stage' = [stage EXCEPT ![i].pc = "redirect", ![i].redirect = 1]
  /\ UNCHANGED <<commands, job, pipes, fd, sig, buf, interrupts, failed>>

CloseChildEnds(i) ==
  /\ stage[i].pc = "wired"
  /\ stage' = [stage EXCEPT ![i].pc = "redirect", ![i].redirect = 1]
  /\ fd' = [fd EXCEPT ![i] = CloseAllPipes(@)]
  /\ UNCHANGED <<commands, job, pipes, sig, buf, interrupts, failed>>

TargetOf(op) == CASE op = Input -> 0
                  [] op \in {Output, Append2} -> 1
                  [] op \in {ErrOutput, ErrAppend, ErrToOut} -> 2

\* Slip for ApplyRedirect: the output file does not replace a pipe.
RedirectUnlessPiped(i) ==
  LET j == stage[i].redirect
      t == TargetOf(commands[i].redirects[j].op)
  IN  /\ stage[i].pc = "redirect"
      /\ j \in DOMAIN commands[i].redirects
      /\ fd' = [fd EXCEPT ![i][t] = IF @ = Term THEN File(j) ELSE @]
      /\ stage' = [stage EXCEPT ![i].redirect = j + 1]
      /\ UNCHANGED <<commands, job, pipes, sig, buf, interrupts, failed>>

\* One turn of apply_redirects; open may fail, and the child ends with 1.
ApplyRedirect(i) ==
  LET j == stage[i].redirect
      op == commands[i].redirects[j].op
  IN  /\ stage[i].pc = "redirect"
      /\ j \in DOMAIN commands[i].redirects
      /\ \/ /\ fd' = [fd EXCEPT ![i][TargetOf(op)] =
                         IF op = ErrToOut THEN fd[i][1] ELSE File(j)]
            /\ stage' = [stage EXCEPT ![i].redirect = j + 1]
         \/ op # ErrToOut /\ Ends(i, 1)
      /\ UNCHANGED <<commands, job, pipes, sig, buf, interrupts, failed>>

Exec(i) ==
  /\ stage[i].pc = "redirect"
  /\ stage[i].redirect > Len(commands[i].redirects)
  /\ \/ /\ Program(commands[i]) # "missing"
        /\ stage' = [stage EXCEPT ![i].pc = "running"]
        /\ UNCHANGED fd
     \/ /\ Program(commands[i]) = "missing"
        /\ Ends(i, 127)
  /\ UNCHANGED <<commands, job, pipes, sig, buf, interrupts, failed>>

ChildStep(i) == WireUp(i) \/ CloseChildEnds(i) \/ ApplyRedirect(i) \/ Exec(i)
----------------------------------------------------------------------------
(* The programs, and the kernel's pipes. *)

Kind(i) == Program(commands[i])

ReadItem(i) ==
  LET in == fd[i][0] IN
  /\ stage[i].pc = "running" /\ ~stage[i].hand /\ ~stage[i].eof
  /\ Kind(i) \in {"filter", "head"}
  /\ \/ /\ in.kind = "r" /\ buf[in.of] > 0
        /\ buf' = [buf EXCEPT ![in.of] = @ - 1]
        /\ stage' = [stage EXCEPT ![i].hand = TRUE, ![i].eof = Kind(i) = "head"]
     \/ /\ in.kind = "r" => buf[in.of] = 0 /\ Holders(WriteEnd(in.of)) = {}
        /\ stage' = [stage EXCEPT ![i].eof = TRUE]
        /\ UNCHANGED buf
  /\ UNCHANGED <<commands, job, pipes, fd, sig, interrupts, failed>>

HasItem(i) == \/ Kind(i) = "source" /\ stage[i].left > 0
              \/ Kind(i) = "endless"
              \/ Kind(i) \in {"filter", "head"} /\ stage[i].hand

Wrote(i) == stage' = [stage EXCEPT ![i].left = IF @ > 0 THEN @ - 1 ELSE 0, ![i].hand = FALSE]

WriteItem(i) ==
  LET out == fd[i][1]
      unread == out.kind = "w" /\ Holders(ReadEnd(out.of)) = {}
  IN  /\ stage[i].pc = "running" /\ HasItem(i)
      /\ \/ /\ out.kind = "w" /\ ~unread /\ buf[out.of] < PipeCap
            /\ buf' = [buf EXCEPT ![out.of] = @ + 1]
            /\ Wrote(i) /\ UNCHANGED fd
         \/ unread /\ sig[i] = "default" /\ Ends(i, 128 + 13) /\ UNCHANGED buf
         \/ /\ out.kind = "w" => unread /\ sig[i] = "ignored"   \* EPIPE, not looked at
            /\ Wrote(i) /\ UNCHANGED <<fd, buf>>
      /\ UNCHANGED <<commands, job, pipes, sig, interrupts, failed>>

Finish(i) ==
  /\ stage[i].pc = "running" /\ ~HasItem(i)
  /\ Kind(i) = "source" \/ stage[i].eof
  /\ Ends(i, 0)
  /\ UNCHANGED <<commands, job, pipes, sig, buf, interrupts, failed>>

ProgramStep(i) == ReadItem(i) \/ WriteItem(i) \/ Finish(i)

(***************************************************************************)
(* Ctrl+C goes to the whole foreground group, the shell included.  A child *)
(* that still has the shell's handlers ignores it.                         *)
(***************************************************************************)
Interrupt ==
  LET hit == {i \in Stages : Live(i) /\ sig[i] = "default"} IN
  /\ interrupts < MaxInterrupts
  /\ job.pc # "idle" \/ \E i \in Stages : Live(i)
  /\ interrupts' = interrupts + 1
  /\ stage' = [i \in Stages |-> IF i \in hit
                                THEN [NoStage EXCEPT !.pc = "exited", !.exit = 128 + 2]
                                ELSE stage[i]]
  /\ fd' = [p \in DOMAIN fd |-> IF p \in hit THEN AllClosed ELSE fd[p]]
  /\ job' = IF sig[Shell] = "default" THEN [job EXCEPT !.pc = "killed"] ELSE job
  /\ UNCHANGED <<commands, pipes, sig, buf, failed>>
=============================================================================
