------------------------------ MODULE Terminal ------------------------------
(* What a reader of the console sees: a line under edit, the characters      *)
(* committed to readers, and what the current read() has got.  No ring, no   *)
(* index, no lock.                                                           *)
EXTENDS Naturals, Sequences

CONSTANTS
  Reader,
  Room     \* characters the terminal holds at most

VARIABLES editing, committed, got

terminalVars == <<editing, committed, got>>

TerminalInit == editing = <<>> /\ committed = <<>> /\ got = [p \in Reader |-> <<>>]

\* A character is echoed and kept only if there is room; the end of a line,
\* the end of the file, or a full terminal commits what was typed.
Type(c) ==
  /\ Len(editing) + Len(committed) < Room
  /\ LET line == Append(editing, c)
     IN  IF c \in {"newline", "eof"} \/ Len(line) + Len(committed) = Room
         THEN editing' = <<>> /\ committed' = committed \o line
         ELSE editing' = line /\ UNCHANGED committed
  /\ UNCHANGED got

Erase ==
  /\ editing # <<>>
  /\ editing' = SubSeq(editing, 1, Len(editing) - 1)
  /\ UNCHANGED <<committed, got>>

KillLine == editing' = <<>> /\ UNCHANGED <<committed, got>>

\* A read gets committed characters in order and never goes past a newline.
Get(p) ==
  /\ committed # <<>> /\ Head(committed) # "eof"
  /\ got[p] = <<>> \/ got[p][Len(got[p])] # "newline"
  /\ committed' = Tail(committed)
  /\ got' = [got EXCEPT ![p] = Append(@, Head(committed))]
  /\ UNCHANGED editing

\* A character is lost when the reader gave a bad address.
Spill == committed # <<>> /\ Head(committed) # "eof" /\ committed' = Tail(committed) /\ UNCHANGED <<editing, got>>

\* The end of the file is consumed by a read that returns nothing.
EndOfFile(p) ==
  /\ committed # <<>> /\ Head(committed) = "eof" /\ got[p] = <<>>
  /\ committed' = Tail(committed)
  /\ UNCHANGED <<editing, got>>

Return(p) == got' = [got EXCEPT ![p] = <<>>] /\ UNCHANGED <<editing, committed>>

TerminalNext ==
  /\ terminalVars' # terminalVars
  /\ \/ \E c \in {"char", "newline", "eof"} : Type(c)
     \/ Erase \/ KillLine \/ Spill
     \/ \E p \in Reader : Get(p) \/ EndOfFile(p) \/ Return(p)

TerminalSpec == TerminalInit /\ [][TerminalNext]_terminalVars
=============================================================================
