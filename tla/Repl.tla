--------------------------------- MODULE Repl ---------------------------------
(***************************************************************************)
(* What the shell promises, without threads: one line after the other is   *)
(* read and answered, with `$?' standing for the code of the last command. *)
(* A line is the word it begins with and its text, character by character. *)
(*                                                                         *)
(* Two things the code does not do are left open: a code of three digits   *)
(* may appear as anything, and the code of a command that the shell had to *)
(* wait for may be lost (both under known departures in the README).       *)
(***************************************************************************)
EXTENDS Integers, Sequences

CONSTANTS
  Lines,            \* the lines that are typed
  ByteMod,          \* the number of codes, 256
  Decimal(_)        \* a code in digits

VARIABLES phase, line, code, shown, reply

vars == <<phase, line, code, shown, reply>>

NoLine == <<>>

Init == phase = "prompt" /\ line = NoLine /\ code = 0 /\ shown = <<>> /\ reply = 0

Known(l) == Head(l) \in {"hello", "echo"}

\* An echo with nothing to print repeats what is typed until that is nothing.
Interactive(l) == Head(l) = "echo" /\ (Len(l) = 1 \/ l[2] # " ")

\* The text with each `$?', from the left, replaced.
Replaced(text, digits) ==
  LET from[i \in 1 .. Len(text) + 2] ==
        IF i > Len(text) THEN <<>>
        ELSE IF i < Len(text) /\ text[i] = "$" /\ text[i + 1] = "?"
          THEN digits \o from[i + 2]
          ELSE <<text[i]>> \o from[i + 1]
  IN from[1]

Settled(l) ==
  \/ Head(l) = "hello"
  \/ Len(Decimal(code)) < 3
  \/ ~\E i \in 1 .. Len(l) - 1 : l[i] = "$" /\ l[i + 1] = "?"

\* One character is not a name.
Answer(l) ==
  IF Head(l) = "echo"
    THEN Replaced(SubSeq(l, 3, Len(l)), Decimal(code)) \o <<"\n">>
  ELSE IF Len(l) < 3 THEN <<"Error - bad argument", "\n">>
  ELSE <<"Hello,">> \o Tail(l) \o <<"!", "\n">>

Prompt ==
  /\ phase = "prompt"
  /\ phase' = "read" /\ line' = NoLine /\ shown' = <<>> /\ reply' = 0
  /\ UNCHANGED code

Enter(l) ==
  /\ phase = "read"
  /\ line' = l
  /\ IF Known(l) THEN phase' = "busy" /\ UNCHANGED shown
                 ELSE phase' = "prompt" /\ shown' = <<"Unknown command", "\n">>
  /\ UNCHANGED <<code, reply>>

Respond ==
  /\ phase = "busy" /\ ~Interactive(line)
  /\ phase' = "answered"
  /\ Settled(line) => shown' = Answer(line)
  /\ reply' = IF Head(line) = "hello" /\ Len(line) < 3 THEN 1 ELSE 0
  /\ UNCHANGED <<line, code>>

Repeat ==
  /\ phase = "busy" /\ Interactive(line)
  /\ shown' # <<>> /\ shown'[Len(shown')] = "\n"
  /\ reply' = (reply + Len(shown') - 1) % ByteMod
  /\ UNCHANGED <<phase, line, code>>

Stop ==
  /\ phase = "busy" /\ Interactive(line)
  /\ phase' = "answered"
  /\ UNCHANGED <<line, code, shown, reply>>

Finish ==
  /\ phase = "answered"
  /\ phase' = "prompt"
  /\ code' \in {reply, 0}
  /\ reply' = 0
  /\ UNCHANGED <<line, shown>>

Next == Prompt \/ (\E l \in Lines : Enter(l)) \/ Respond \/ Repeat \/ Stop \/ Finish

Spec == Init /\ [][Next]_vars
=============================================================================
