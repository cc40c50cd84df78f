------------------------------- MODULE MCShell -------------------------------
\* ShellProps with the lines that TLC types: no name, too short a name and a
\* name, echo with nothing to print, `$?' in the middle and at the end, two of
\* them, one inside another, and a word that is no command.
EXTENDS ShellProps

MCLines == {
  <<"hello">>, <<"hello", "a">>, <<"hello", " ", "$", "?">>,
  <<"echo">>, <<"echo", " ", "$", "?", "a", "b">>,
  <<"echo", " ", "$", "?", "$", "?">>, <<"echo", " ", "$", "$", "?", "?">>,
  <<"other">> }
=============================================================================
