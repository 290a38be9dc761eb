------------------------------- MODULE MCUser -------------------------------
(* Pipes, user programs, string routines and directory entries, for TLC.     *)
(* The parts share no state in these models: a behaviour runs one of them    *)
(* and leaves the others in their initial states.                            *)
EXTENDS Pipe, Umalloc, Shell, Grep, Strings, Names, TLC

VARIABLE part

\* The step A of one part while the rest stays as it is.
Of(which, rest, A) == part = which /\ A /\ UNCHANGED <<part, rest>>

MCInit ==
  /\ part \in {"pipe", "heap", "shell", "grep", "strings", "names"}
  /\ PipeInit /\ HeapInit /\ ShInit /\ GrepInit /\ StrInit /\ NamesInit
  /\ part # "pipe" => data = [k \in 0..(PIPESIZE - 1) |-> CHOOSE c \in Byte : TRUE]
  /\ part # "grep" => pat = <<>>
  /\ part # "names" => name = [k \in 1..DIRSIZ |-> NUL]

MCNext ==
  \/ Of("pipe", <<heapVars, shVars, grepVars, call, nameVars>>, PipeNext)
  \/ Of("heap", <<pipeVars, shVars, grepVars, call, nameVars>>, HeapNext)
  \/ Of("shell", <<pipeVars, heapVars, grepVars, call, nameVars>>, ShNext)
  \/ Of("grep", <<pipeVars, heapVars, shVars, call, nameVars>>, GrepNext)
  \/ Of("strings", <<pipeVars, heapVars, shVars, grepVars, nameVars>>, StrNext)
  \/ Of("names", <<pipeVars, heapVars, shVars, grepVars, call>>, NamesNext)

MCSpec == MCInit /\ [][MCNext]_<<part, pipeVars, heapVars, shVars, grepVars, call, nameVars>>

\* Every character that means something to the shell, and one that does not.
MCChars == Symbols \cup {Space, "a"}
MCMissing == <<"a", "a">>

\* Patterns of up to three characters, and anchored ones.
MCBodies(len) == UNION {[1..k -> {"a", ".", "*", "$"}] : k \in 0..len}
MCPatterns == MCBodies(3) \cup {<<"^">> \o p : p \in MCBodies(2)}

\* With DIRSIZ 3: short, full and cut names, with and without extra slashes.
MCPaths == {<<"a">>, <<"b", "/">>, <<"/", "a", "b", "a">>, <<"a", "b", "a", "a", "/", "b">>, <<"/", "/", "b", "b">>, <<"/">>}

\* Nothing tells one writer from another.
MCSymmetry == Permutations(Writers)
=============================================================================
