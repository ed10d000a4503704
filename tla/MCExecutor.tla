---------------------------- MODULE MCExecutor ----------------------------
(* TLC instances of Executor: which commands meet which in one program. *)
EXTENDS Executor

Statements == {"ok", "fail", "fatal"}

\* Requests crossing loops, functions and the other compounds.
Requests == {
  Statements \cup {"break", "continue", "while", "for", "function"},
  Statements \cup {"break", "exit", "until", "case", "if"},
  Statements \cup {"return", "function", "source", "if", "cfor"},
  Statements \cup {"return", "exit", "io", "subshell", "function", "case"},
  Statements \cup {"break", "continue", "cfor", "select", "brace", "subshell"} }

\* Handlers, interrupts and errexit.
Handlers == {
  Statements \cup {"trapERR", "set-e", "exit", "function", "brace"},
  Statements \cup {"trapERR", "return", "function", "eval"},
  Statements \cup {"trapERR", "break", "while"},
  Statements \cup {"trapINT", "SIGINT", "break", "while"},
  Statements \cup {"SIGINT", "continue", "for", "cfor"},
  {"ok", "fatal", "SIGINT", "continue", "while", "select"},
  Statements \cup {"trapINT", "SIGINT", "return", "function", "background"},
  Statements \cup {"trapEXIT", "exit", "set-e", "eval", "case"} }

AllPrograms == Requests \cup Handlers
=============================================================================
