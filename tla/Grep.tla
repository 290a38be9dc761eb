-------------------------------- MODULE Grep --------------------------------
(* grep (user/grep.c): the loop that cuts its input into lines whatever the  *)
(* pieces in which read() returns it, and the pattern matcher.  Texts and    *)
(* patterns are sequences of characters; the end of one is the NUL.          *)
EXTENDS Naturals, Sequences, SequencesExt, FiniteSets, FiniteSetsExt

CONSTANTS
  Pattern, Letter,
  MaxInput,    \* bound on the length of the input
  BUFSIZE      \* sizeof(buf)

VARIABLES
  pat, whole,  \* argv[1] and the whole input
  input,       \* what read() has not returned yet
  buf,         \* the first m bytes of buf
  out          \* what grep wrote

grepVars == <<pat, whole, input, buf, out>>

NL == "\n"

ASSUME GrepAssumption == BUFSIZE > 1 /\ NL \notin Letter

----------------------------------------------------------------------------
(* The matcher *)

\* Mutant: a star takes at least one character.
AfterOne(k) == k > 0

AfterAny(k) == k >= 0

\* matchstar(c, re, text) tries matchhere(re, ...) after each k characters.
RECURSIVE matchhere(_, _)
matchstar(c, re, text) ==
  \E k \in 0..Len(text) :
    /\ AfterAny(k)
    /\ \A j \in 1..k : text[j] = c \/ c = "."
    /\ matchhere(re, SubSeq(text, k + 1, Len(text)))

matchhere(re, text) ==
  IF re = <<>> THEN TRUE
  ELSE IF Len(re) > 1 /\ re[2] = "*" THEN matchstar(re[1], SubSeq(re, 3, Len(re)), text)
  ELSE IF re = <<"$">> THEN text = <<>>
  ELSE text # <<>> /\ (re[1] = "." \/ re[1] = text[1]) /\ matchhere(Tail(re), Tail(text))

match(re, text) ==
  IF re # <<>> /\ re[1] = "^" THEN matchhere(Tail(re), text)
  ELSE \E k \in 0..Len(text) : matchhere(re, SubSeq(text, k + 1, Len(text)))

----------------------------------------------------------------------------
(* grep() *)

GrepInit ==
  /\ pat \in Pattern
  /\ whole = <<>> /\ input = <<>> /\ buf = <<>> /\ out = <<>>

\* The writer on the other side of descriptor 0 adds a byte.
Feed ==
  /\ Len(whole) < MaxInput
  /\ \E c \in Letter \cup {NL} : whole' = Append(whole, c) /\ input' = Append(input, c)
  /\ UNCHANGED <<pat, buf, out>>

Breaks(b) == {k \in DOMAIN b : b[k] = NL}

\* The lines of b that end, each with its NL.
LinesOf(b) ==
  LET ends == <<0>> \o SetToSortSeq(Breaks(b), LAMBDA x, y : x < y)
  IN  [k \in 1..(Len(ends) - 1) |-> SubSeq(b, ends[k] + 1, ends[k + 1])]

\* What the inner loop writes for them.
Matching(b) == FlattenSeq(SelectSeq(LinesOf(b), LAMBDA l : match(pat, Front(l))))

\* memmove(buf, p, m): what stays in the buffer.
Partial(b) == SubSeq(b, Max(Breaks(b) \cup {0}) + 1, Len(b))

\* One turn of the loop; with a full buffer read() is asked for no bytes.
ReadSome ==
  /\ input # <<>> /\ Len(buf) < BUFSIZE - 1
  /\ \E n \in 1..Min({Len(input), BUFSIZE - Len(buf) - 1}) :
       LET b == buf \o SubSeq(input, 1, n)
       IN  /\ input' = SubSeq(input, n + 1, Len(input))
           /\ out' = out \o Matching(b)
           /\ buf' = Partial(b)
  /\ UNCHANGED <<pat, whole>>

\* End of file, or a line that fills the buffer: the loop ends, and the last
\* line is forgotten unless an NL ends it.  Then the next grep starts.
GrepDone ==
  /\ (input = <<>> /\ Len(whole) = MaxInput) \/ Len(buf) = BUFSIZE - 1
  /\ UNCHANGED grepVars

GrepNext == Feed \/ ReadSome \/ GrepDone

GrepSpec == GrepInit /\ [][GrepNext]_grepVars

----------------------------------------------------------------------------
(* Properties *)

GrepTypeOK == pat \in Pattern /\ Len(buf) < BUFSIZE /\ Len(input) <= Len(whole)

\* The meaning of a pattern: a list of characters, starred or not, that covers
\* the text by consecutive segments, between the two ends it is anchored to.
Denotes(re, text) ==
  LET bol == re # <<>> /\ re[1] = "^"
      body == IF bol THEN Tail(re) ELSE re
      RECURSIVE heads(_)
      heads(k) == IF k > Len(body) THEN <<>> ELSE <<k>> \o heads(IF k < Len(body) /\ body[k + 1] = "*" THEN k + 2 ELSE k + 1)
      all == heads(1)
      star(k) == k < Len(body) /\ body[k + 1] = "*"
      eol == all # <<>> /\ body[Last(all)] = "$" /\ ~star(Last(all))
      items == IF eol THEN Front(all) ELSE all
      fits(k, seg) == (star(k) \/ Len(seg) = 1) /\ \A j \in DOMAIN seg : body[k] \in {".", seg[j]}
  IN  \E cut \in [0..Len(items) -> 0..Len(text)] :
        /\ bol => cut[0] = 0
        /\ eol => cut[Len(items)] = Len(text)
        /\ \A j \in 1..Len(items) : cut[j - 1] <= cut[j] /\ fits(items[j], SubSeq(text, cut[j - 1] + 1, cut[j]))

\* grep has written exactly the complete lines of the input read so far that
\* the pattern denotes, in order, however the input was cut by read().
GrepExact ==
  LET seen == SubSeq(whole, 1, Len(whole) - Len(input))
  IN  /\ GrepTypeOK
      /\ out = FlattenSeq(SelectSeq(LinesOf(seen), LAMBDA l : Denotes(pat, Front(l))))
      /\ buf = SubSeq(seen, Len(seen) - Len(buf) + 1, Len(seen)) /\ NL \notin ToSet(buf)
=============================================================================
