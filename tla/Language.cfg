\* Patterns of up to three elements and texts of up to three letters; words of up
\* to three segments; expressions two operators deep in four bits, conditions of
\* up to three tests; reads cut anywhere; texts of up to four characters; command
\* trees three deep; invocations, keys, searches, lines shown and redirections of
\* up to three parts.  One variable (the bindings of different names never meet),
\* two shells that share a history, the substitutions of one line.
SPECIFICATION LanguageSpec
CONSTANTS
  Names = {n1}
  Vals = {Empty}
  NoVal = NoVal
  Empty = Empty
  None = None
  MaxCalls = 1
CONSTRAINT Unbroken
CHECK_DEADLOCK FALSE
INVARIANTS
  PatternsAgree
  FieldsFollowQuoting
  ExpressionsAgree
  TextReadAgain
  CommandsReadBack
  RoutersAgree
  KeysSurviveReads
  SearchNarrows
  OutputShownOnce
  RedirectionsAgree
  RecentCommandsKept
  SubstitutionsKept
  ChildEnvironment
  NoEscape
PROPERTY ImplementsScopes
