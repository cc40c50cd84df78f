-------------------------------- MODULE Shell --------------------------------
(***************************************************************************)
(* The shell of app/shell.c and its commands hello.c and echo.c, as the    *)
(* threads of Kernel and Traps that run them: thread 0 reads a line and    *)
(* calls create_thread, resume_thread and join_thread, the thread created  *)
(* works on its copy of the line and ends.                                 *)
(*                                                                         *)
(* A line is in `buffer' by characters, except that the word it begins     *)
(* with takes one place only: place n is buffer[n + 3] behind "echo" and   *)
(* buffer[n + 4] behind "hello".                                           *)
(***************************************************************************)
EXTENDS Traps, Printf

CONSTANTS
  MAX,          \* the places in a buffer
  Lines,        \* the lines that are typed, a word and the text behind it
  Base,         \* 10
  ByteMod,      \* 256, the values of a byte
  Typed,        \* how many characters a line typed for echo has
  MaxLetters    \* bound on the characters typed for one echo

Words == {"hello", "echo", "other"}

\* The line fits into the buffer, which shell() does not look at, and holds no
\* conversion: hello and echo give what was typed to printf as the format.
ASSUME LinesAssumption ==
  MAX \in Nat /\ \A l \in Lines :
    /\ l \in Seq(STRING) \ {<<>>}
    /\ Head(l) \in Words /\ Len(l) + 2 <= MAX
    /\ \A i \in 2 .. Len(l) : l[i] \notin {NUL, "%", "%d", "%x", "%s"}
ASSUME CodesAssumption ==
  Base \in 2 .. 16 /\ ByteMod \in 2 .. Base^3 /\ RetVals = 0 .. ByteMod - 1
ASSUME TypedAssumption == Typed \subseteq Nat /\ 0 \in Typed /\ MaxLetters \in Nat

Places0 == 0 .. MAX - 1

VARIABLES
  step,     \* where shell() is
  line,     \* what is typed into its buffer
  code,     \* returnCode
  tid,      \* what its last call of create_thread returned
  task,     \* what each command's thread is doing: where it is, its `arg', and
            \* what it will return, or how many letters it has counted
  shown     \* history: what was printed for the last line; uart_getc repeats
            \* each key besides

shell   == <<step, line, code, tid, task, shown>>
allVars == <<vars, trap, shell>>

NoTask == [at |-> "none", arg |-> <<>>, reply |-> 0]

ShellInit ==
  /\ TrapInit
  /\ step = "prompt" /\ line = <<>> /\ code = 0 /\ tid = 0
  /\ task = [t \in Threads |-> NoTask]
  /\ shown = <<>>

-----------------------------------------------------------------------------
(***************************************************************************)
(* The line buffer                                                         *)
(***************************************************************************)
Buffer(l) == [j \in Places0 |-> IF j < Len(l) THEN l[j + 1] ELSE NUL]

\* intToChar: the digits from the last one on.
IntToChar(num) == IF num = 0 THEN <<"0">> ELSE Backwards(num, Base)

MutPut(buffer, j, digits) ==                 \* mutant: not turned round
  [n \in Places0 |-> IF n - j \in 0 .. Len(digits) - 1 THEN digits[n - j + 1]
                     ELSE buffer[n]]
Put(buffer, j, digits) ==
  [n \in Places0 |-> IF n - j \in 0 .. Len(digits) - 1 THEN digits[Len(digits) - (n - j)]
                     ELSE buffer[n]]

\* shell.c 79-84: places j + length to i - 1 are filled one after the other
\* from those behind the `$?'.  With three digits the place that is read was
\* written one turn before, so the last digit is all that comes through.
ClosedUp(buffer, j, length, i) ==
  LET filled[k \in Places0] ==
        LET next == k - length + 2 IN
        IF k \notin j + length .. i - 1 THEN buffer[k]
        ELSE IF next < k THEN filled[next] ELSE buffer[next]
      last == IF i > j + length THEN j + 2 + (i - (j + length)) ELSE j + 2
  IN [filled EXCEPT ![last] = NUL]

Marked(buffer, j) == buffer[j] = "$" /\ buffer[j + 1] = "?"

\* The loop over j.
Substituted(buffer, i, num) ==
  LET digits == IntToChar(num)
      after[j \in 0 .. i] ==
        IF j = 0 THEN buffer
        ELSE LET before == after[j - 1] IN
             IF Marked(before, j - 1)
               THEN ClosedUp(Put(before, j - 1, digits), j - 1, Len(digits), i)
               ELSE before
  IN after[i]

\* What create_thread copies to the new thread's stack: i characters and NULs.
\* "hello" alone looks one byte past them, into the next stack's unused end.
Copied(buffer, i) == [j \in Places0 |-> IF j < i THEN buffer[j] ELSE NUL]

Argument ==
  LET i == Len(line) IN
  Copied(IF Head(line) = "echo" THEN Substituted(Buffer(line), i, code) ELSE Buffer(line), i)

-----------------------------------------------------------------------------
(***************************************************************************)
(* shell()                                                                 *)
(***************************************************************************)
InShell(s) == InOwnCode /\ current = 0 /\ pc[0] = "user" /\ step = s

Prompt ==
  /\ InShell("prompt")
  /\ step' = "read" /\ line' = <<>> /\ shown' = <<>>
  /\ UNCHANGED <<vars, trap, code, tid, task>>

ReadLine(l) ==
  /\ InShell("read")
  /\ line' = l
  /\ IF Head(l) = "other"
       THEN /\ step' = "prompt"
            /\ shown' = Printed(<<"Unknown command", "\n">>, <<>>)
       ELSE step' = "create" /\ UNCHANGED shown
  /\ UNCHANGED <<vars, trap, code, tid, task>>

CreateThread ==
  /\ InShell("create")
  /\ Quiet(Create)
  /\ \E i \in Threads :
       /\ FirstFree(i)
       /\ tid' = i
       /\ task' = [task EXCEPT ![i] = [at |-> "start", arg |-> Argument, reply |-> 0]]
  /\ step' = "resume"
  /\ UNCHANGED <<line, code, shown>>

\* create_thread returns -1 and resume_thread takes it for an index: whatever
\* it finds there, the behaviour ends here.
CreateFails ==
  /\ InShell("create")
  /\ Quiet(CreateRefused)
  /\ step' = "undefined"
  /\ UNCHANGED <<line, code, tid, task, shown>>

ResumeThread ==
  /\ InShell("resume")
  /\ Raising(Resume(tid))
  /\ step' = "join"
  /\ UNCHANGED <<line, code, tid, task, shown>>

MutJoinThread ==                             \* mutant: does not wait for the command
  /\ InShell("join")
  /\ step' = "store"
  /\ UNCHANGED <<vars, trap, line, code, tid, task, shown>>

JoinThread ==
  /\ InShell("join")
  /\ Quiet(Join(tid) \/ JoinBegin(tid))
  /\ step' = "store"
  /\ UNCHANGED <<line, code, tid, task, shown>>

JoinGoesOn ==
  /\ current = 0
  /\ Raising(JoinWaits) \/ Quiet(JoinEnds \/ JoinFails)
  /\ UNCHANGED shell

Store ==
  /\ InShell("store")
  /\ code' = result[0] % ByteMod
  /\ step' = "prompt"
  /\ UNCHANGED <<vars, trap, line, tid, task, shown>>

-----------------------------------------------------------------------------
(***************************************************************************)
(* builtin_hello and builtin_echo                                          *)
(***************************************************************************)
InTask(p, word) ==
  InOwnCode /\ current # 0 /\ task[current].at = p /\ task[current].arg[0] = word

\* The string that begins at place n of arg.
StringAt(arg, n) == StrPrint([k \in 1 .. MAX - n |-> arg[n + k - 1]])

Replies(r) == task' = [task EXCEPT ![current].at = "done", ![current].reply = r]

\* hello.c 12 looks at arg[6]: one character is no name.
NoName(arg) == arg[2] = NUL

Hello ==
  LET arg == task[current].arg IN
  /\ InTask("start", "hello")
  /\ IF NoName(arg)
       THEN shown' = Printed(<<"Error - bad argument", "\n">>, <<>>) /\ Replies(1)
       ELSE /\ shown' = Printed(<<"Hello,">>, <<>>) \o Printed(StringAt(arg, 1), <<>>)
                          \o Printed(<<"!", "\n">>, <<>>)
            /\ Replies(0)
  /\ UNCHANGED <<vars, trap, step, line, code, tid>>

Echo ==
  LET arg == task[current].arg IN
  /\ InTask("start", "echo")
  /\ IF arg[1] = " "
       THEN /\ shown' = Printed(StringAt(arg, 2), <<>>) \o Printed(<<"\n">>, <<>>)
            /\ Replies(0)
       ELSE /\ task' = [task EXCEPT ![current].at = "type"]
            /\ UNCHANGED shown
  /\ UNCHANGED <<vars, trap, step, line, code, tid>>

\* getEchoText, of a line of n characters: they are repeated and counted.
EchoText(n) ==
  /\ InTask("type", "echo")
  /\ task[current].reply + n <= MaxLetters
  /\ IF n = 0
       THEN Replies(task[current].reply % ByteMod) /\ UNCHANGED shown
       ELSE /\ shown' = [k \in 1 .. n |-> "a"] \o <<"\n">>
            /\ task' = [task EXCEPT ![current].reply = @ + n]
  /\ UNCHANGED <<vars, trap, step, line, code, tid>>

\* The command returns to wrapper.
EndTask ==
  /\ \E word \in Words : InTask("done", word)
  /\ Killing(Ends(task[current].reply))
  /\ task' = [task EXCEPT ![current] = NoTask]
  /\ UNCHANGED <<step, line, code, tid, shown>>

-----------------------------------------------------------------------------
ShellSteps ==
  \/ Prompt \/ CreateThread \/ CreateFails \/ ResumeThread \/ JoinThread
  \/ JoinGoesOn \/ Store

TaskSteps == Hello \/ Echo \/ EndTask \/ (KillGoesOn /\ UNCHANGED shell)

Keyboard == (\E l \in Lines : ReadLine(l)) \/ \E n \in Typed : EchoText(n)

System == (Quiet(Boot) \/ TimerSwitch) /\ UNCHANGED shell

ShellNext == ShellSteps \/ TaskSteps \/ Keyboard \/ System

ShellSpec == ShellInit /\ [][ShellNext]_allVars

(***************************************************************************)
(* The processor executes the current thread, and a command's thread that  *)
(* is given it again and again gets a step done (timer.c 14: a turn is a   *)
(* hundred thousand ticks of the clock).  Nobody has to type.              *)
(***************************************************************************)
FairShell == ShellSpec /\ WF_allVars(ShellSteps \/ TaskSteps) /\ SF_allVars(TaskSteps)
=============================================================================
