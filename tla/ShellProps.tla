------------------------------ MODULE ShellProps ------------------------------
(***************************************************************************)
(* What is required of Shell.                                              *)
(***************************************************************************)
EXTENDS Shell

(***************************************************************************)
(* uart.c 43-52: one thread at a time waits for a key.  There is one       *)
(* readchar: of two readers each would get a part of what is typed.        *)
(***************************************************************************)
Reads(t) == IF t = 0 THEN step = "read" ELSE task[t].at = "type"

OneReader == \A t, u \in Threads : Reads(t) /\ Reads(u) => t = u

(***************************************************************************)
(* shell.c 90, hello.c 5-9, echo.c 4-9: through create_thread, the copy of *)
(* the line, preemption, the end of the command and join_thread, each line *)
(* is answered as Repl says.                                               *)
(***************************************************************************)
Busy == step \in {"create", "undefined"} \/ task[tid].at \in {"start", "type"}

Phase ==
  IF step \in {"prompt", "read"} THEN step ELSE IF Busy THEN "busy" ELSE "answered"

Reply ==
  IF step \in {"prompt", "read", "create", "undefined"} THEN 0
  ELSE IF task[tid].at # "none" THEN task[tid].reply % ByteMod
  ELSE retval[tid]

ReadEvalPrint ==
  INSTANCE Repl WITH phase <- Phase, reply <- Reply,
                     Decimal <- LAMBDA num : Reverse(IntToChar(num))
ReplSpec == ReadEvalPrint!Spec

(***************************************************************************)
(* shell.c 21: the shell prompts again, unless it has run out of threads,  *)
(* or a command waits for a key.                                           *)
(***************************************************************************)
PromptReturns ==
  step \in {"create", "resume", "join", "store"} ~>
    step \in {"prompt", "undefined"} \/ \E t \in Threads : Reads(t)

(***************************************************************************)
(* testing/ms2.c 37, "Shell replaces '$?' with previous result": the code  *)
(* that the shell keeps is what the command returned.                      *)
(***************************************************************************)
CodeKept == [][step = "store" /\ step' = "prompt" => code' = retval[tid]]_allVars

\* The same of the digits: a line with `$?' shows the code, of three digits too.
CodeShown ==
  [][task[tid].at = "start" /\ task'[tid].at = "done" /\ Head(line) = "echo"
       => shown' = ReadEvalPrint!Answer(line)]_allVars

\* create.c 30-31: there is a thread for every command.
AlwaysServed == step # "undefined"
=============================================================================
