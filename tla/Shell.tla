------------------------------- MODULE Shell --------------------------------
(* The shell (user/sh.c): gettoken(), the recursive-descent parser, and      *)
(* runcmd() with the descriptors it moves.  A line is a sequence of          *)
(* characters: letters, one kind of white space, and the symbols.  A parser  *)
(* operator takes the tokens left and returns the command and the tokens     *)
(* after it; its command is Bad where the code calls panic().  A process of  *)
(* runcmd() is the record of the program it becomes and its descriptors.     *)
EXTENDS Naturals, Sequences, SequencesExt, FiniteSets, FiniteSetsExt, Functions

CONSTANTS
  Char,      \* the characters of a line
  MaxLine,   \* the length of buf[] in main()
  MAXARGS,
  NoFileName \* the file name whose open() fails

VARIABLES
  line, cmd, procs  \* the line, the parsed command, the processes started

shVars == <<line, cmd, procs>>

Symbols == {"<", "|", ">", "&", ";", "(", ")"}
Space == " "
Bad == [type |-> "panic"]
Unparsed == [type |-> "none"]

----------------------------------------------------------------------------
(* Tokens *)

Tok(t, w) == [t |-> t, w |-> w]
Rest(s, n) == SubSeq(s, n + 1, Len(s))

\* Mutant: ">>" is read as two tokens.
WidthOne(s) == 1

\* How many characters a symbol at the head of s takes.
SymbolWidth(s) == IF Len(s) > 1 /\ s[1] = ">" /\ s[2] = ">" THEN 2 ELSE 1

\* Length of the word at the head of s.
WordLen(s) ==
  LET ends == {k \in DOMAIN s : s[k] \in Symbols \cup {Space}} IN IF ends = {} THEN Len(s) ELSE Min(ends) - 1

\* All the tokens that gettoken() takes from s, in order.
RECURSIVE gettokens(_)
gettokens(s) ==
  IF s = <<>> THEN <<>>
  ELSE IF s[1] = Space THEN gettokens(Tail(s))
  ELSE IF s[1] \in Symbols
  THEN <<Tok(IF SymbolWidth(s) = 2 THEN "+" ELSE s[1], <<>>)>> \o gettokens(Rest(s, SymbolWidth(s)))
  ELSE <<Tok("a", SubSeq(s, 1, WordLen(s)))>> \o gettokens(Rest(s, WordLen(s)))

peek(ts, toks) == ts # <<>> /\ ts[1].t \in toks

----------------------------------------------------------------------------
(* Commands *)

execcmd(argv) == [type |-> "EXEC", argv |-> argv]
redircmd(c, tok, file) == [type |-> "REDIR", cmd |-> c, mode |-> tok, file |-> file, fd |-> IF tok = "<" THEN 0 ELSE 1]
pipecmd(l, r) == [type |-> "PIPE", left |-> l, right |-> r]
listcmd(l, r) == [type |-> "LIST", left |-> l, right |-> r]
backcmd(c) == [type |-> "BACK", cmd |-> c]

Got(c, ts) == [ok |-> TRUE, cmd |-> c, ts |-> ts]
Fail == [ok |-> FALSE, cmd |-> Bad, ts |-> <<>>]
IsBad(r) == ~r.ok

\* parseredirs(): wrap Wrap's command in the redirections at the head of ts.
RECURSIVE parseredirs(_, _)
parseredirs(redirs, ts) ==
  IF ~peek(ts, {"<", ">", "+"}) THEN Got(redirs, ts)
  ELSE IF Len(ts) < 2 \/ ts[2].t # "a" THEN Fail
  ELSE parseredirs(Append(redirs, [tok |-> ts[1].t, file |-> ts[2].w]), Rest(ts, 2))

\* The command c inside the redirections, the last one outermost.
Wrap(c, redirs) == FoldLeft(LAMBDA x, r : redircmd(x, r.tok, r.file), c, redirs)

TooMany(argc) == argc >= MAXARGS

\* The loop of parseexec(), with the words and redirections so far.
RECURSIVE Args(_, _, _)
Args(argv, redirs, ts) ==
  IF ts = <<>> \/ peek(ts, {"|", ")", "&", ";"}) THEN Got(Wrap(execcmd(argv), redirs), ts)
  ELSE IF ts[1].t # "a" \/ TooMany(Len(argv) + 1) THEN Fail
  ELSE LET r == parseredirs(redirs, Tail(ts)) IN IF IsBad(r) THEN Fail ELSE Args(Append(argv, ts[1].w), r.cmd, r.ts)

RECURSIVE parseline(_)

\* parseblock(), after its "(".
parseblock(ts) ==
  LET l == parseline(Tail(ts))
      r == parseredirs(<<>>, Tail(l.ts))
  IN  IF IsBad(l) \/ ~peek(l.ts, {")"}) THEN Fail
      ELSE IF IsBad(r) THEN Fail ELSE Got(Wrap(l.cmd, r.cmd), r.ts)

parseexec(ts) ==
  IF peek(ts, {"("}) THEN parseblock(ts)
  ELSE LET r == parseredirs(<<>>, ts) IN IF IsBad(r) THEN Fail ELSE Args(<<>>, r.cmd, r.ts)

RECURSIVE parsepipe(_)
parsepipe(ts) ==
  LET l == parseexec(ts)
      r == parsepipe(Tail(l.ts))
  IN  IF IsBad(l) \/ ~peek(l.ts, {"|"}) THEN l
      ELSE IF IsBad(r) THEN Fail ELSE Got(pipecmd(l.cmd, r.cmd), r.ts)

\* The while loop of parseline().
RECURSIVE Ampersands(_)
Ampersands(r) == IF ~IsBad(r) /\ peek(r.ts, {"&"}) THEN Ampersands(Got(backcmd(r.cmd), Tail(r.ts))) ELSE r

parseline(ts) ==
  LET l == Ampersands(parsepipe(ts))
      r == parseline(Tail(l.ts))
  IN  IF IsBad(l) \/ ~peek(l.ts, {";"}) THEN l
      ELSE IF IsBad(r) THEN Fail ELSE Got(listcmd(l.cmd, r.cmd), r.ts)

parsecmd(s) == LET r == parseline(gettokens(s)) IN IF IsBad(r) \/ r.ts # <<>> THEN Bad ELSE r.cmd

----------------------------------------------------------------------------
(* runcmd() *)

Lowest(fds) == Min((0..(Cardinality(DOMAIN fds))) \ DOMAIN fds)
CloseFds(fds, S) == Restrict(fds, DOMAIN fds \ S)
Opened(fds, x) == [f \in DOMAIN fds \cup {Lowest(fds)} |-> IF f \in DOMAIN fds THEN fds[f] ELSE x]

\* Mutant: the parent of a pipeline keeps the ends it made.
ParentKeeps(fds, p) == fds

\* close(p[0]); close(p[1]) in the parent.
ParentEnds(fds, p) == CloseFds(fds, p)

\* One end of a pipe in place of descriptor fd, and the pipe's own closed.
Onto(fds, fd, end, p) == CloseFds(Opened(CloseFds(fds, {fd}), fds[end]), p)

Started(prog, fds) == {[prog |-> prog, fds |-> fds]}

\* The processes that runcmd(c) becomes and starts; k names the pipe, by the
\* path in the command tree.  The program <<>> is the shell itself, which
\* waits.
RECURSIVE runcmd(_, _, _)
runcmd(c, fds, k) ==
  CASE c.type = "EXEC" -> IF c.argv = <<>> THEN {} ELSE Started(c.argv, fds)
    [] c.type = "REDIR" ->
         IF c.file = NoFileName THEN {}
         ELSE runcmd(c.cmd, Opened(CloseFds(fds, {c.fd}), <<c.mode, c.file>>), k)
    [] c.type = "LIST" -> Started(<<>>, fds) \cup runcmd(c.left, fds, k \o <<0>>) \cup runcmd(c.right, fds, k \o <<1>>)
    [] c.type = "PIPE" ->
         LET p0 == Lowest(fds)
             f0 == Opened(fds, <<"read", k>>)
             p1 == Lowest(f0)
             f1 == Opened(f0, <<"write", k>>)
             p == {p0, p1}
         IN  Started(<<>>, ParentEnds(f1, p))
             \cup runcmd(c.left, Onto(f1, 1, p1, p), k \o <<0>>)
             \cup runcmd(c.right, Onto(f1, 0, p0, p), k \o <<1>>)
    [] c.type = "BACK" -> runcmd(c.cmd, fds, k \o <<0>>)

----------------------------------------------------------------------------
(* The loop of main(): a child parses and runs each line *)

Console == [f \in 0..2 |-> <<"console">>]

Prompt == [type |-> "prompt"]

ShInit == line = <<>> /\ cmd = Prompt /\ procs = {}

\* gets() reads characters up to the end of the line, or of the buffer.
gets == cmd = Prompt /\ Len(line) < MaxLine /\ (\E c \in Char : line' = Append(line, c)) /\ UNCHANGED <<cmd, procs>>

getcmd == cmd = Prompt /\ cmd' = Unparsed /\ UNCHANGED <<line, procs>>

Parse == cmd = Unparsed /\ cmd' = parsecmd(line) /\ UNCHANGED <<line, procs>>

Run ==
  /\ cmd \notin {Prompt, Unparsed, Bad} /\ procs = {}
  /\ procs' = runcmd(cmd, Console, <<>>) \cup Started(<<>>, Console)
  /\ UNCHANGED <<line, cmd>>

\* The child is gone and wait() returns.
Waited ==
  /\ procs # {} \/ cmd = Bad
  /\ line' = <<>> /\ cmd' = Prompt /\ procs' = {}

ShNext == gets \/ getcmd \/ Parse \/ Run \/ Waited

ShSpec == ShInit /\ [][ShNext]_shVars

----------------------------------------------------------------------------
(* Properties *)

ShTypeOK == line \in Seq(Char) /\ Len(line) <= MaxLine /\ cmd.type \in {"prompt", "none", "panic", "EXEC", "REDIR", "PIPE", "LIST", "BACK"}

\* The tokens of a line by where they start: at a symbol, except the second
\* of two ">", and at a letter that follows none.
Tokens(s) ==
  LET letter(k) == k \in DOMAIN s /\ s[k] \notin Symbols \cup {Space}
      gts(k) == Max({n \in 0..(k - 1) : \A m \in (k - n)..(k - 1) : s[m] = ">"})
      starts == {k \in DOMAIN s : IF s[k] = ">" THEN gts(k) % 2 = 0
                                  ELSE s[k] \in Symbols \/ (letter(k) /\ ~letter(k - 1))}
      word(k) == SubSeq(s, k, Max({m \in k..Len(s) : \A x \in k..m : letter(x)}))
      one(k) == IF letter(k) THEN Tok("a", word(k))
                ELSE IF s[k] = ">" /\ k < Len(s) /\ s[k + 1] = ">" THEN Tok("+", <<>>) ELSE Tok(s[k], <<>>)
      order == SetToSortSeq(starts, LAMBDA a, b : a < b)
  IN  [k \in DOMAIN order |-> one(order[k])]

\* The grammar, as the set of commands that a sequence of tokens can stand
\* for: every way to cut it is tried, nothing is scanned from left to right.
Cuts(ts, sym) == {k \in DOMAIN ts : ts[k].t = sym}
Before(ts, k) == SubSeq(ts, 1, k - 1)

\* Words and redirections in any order, fewer than MAXARGS words.
Simple(ts) ==
  LET isFile(k) == k > 1 /\ ts[k - 1].t \in {"<", ">", "+"}
      args == {k \in DOMAIN ts : ts[k].t = "a" /\ ~isFile(k)}
      ops == {k \in DOMAIN ts : ts[k].t \in {"<", ">", "+"}}
      At(S) == SetToSortSeq(S, LAMBDA a, b : a < b)
  IN  IF /\ \A k \in DOMAIN ts : ts[k].t \in {"a", "<", ">", "+"}
         /\ \A k \in ops : k < Len(ts) /\ ts[k + 1].t = "a"
         /\ Cardinality(args) < MAXARGS
      THEN {[argv |-> [j \in 1..Cardinality(args) |-> ts[At(args)[j]].w],
             redirs |-> [j \in 1..Cardinality(ops) |-> [tok |-> ts[At(ops)[j]].t, file |-> ts[At(ops)[j] + 1].w]]]}
      ELSE {}

RECURSIVE Lines(_)

\* ( line ) and redirections, or a simple command.
Commands(ts) ==
  {Wrap(execcmd(s.argv), s.redirs) : s \in Simple(ts)}
  \cup (IF ts = <<>> \/ ts[1].t # "(" THEN {}
        ELSE UNION {{Wrap(c, s.redirs) : c \in Lines(Tail(Before(ts, k))), s \in {x \in Simple(Rest(ts, k)) : x.argv = <<>>}}
                    : k \in Cuts(ts, ")")})

RECURSIVE Pipelines(_)
Pipelines(ts) ==
  Commands(ts) \cup UNION {{pipecmd(l, r) : l \in Commands(Before(ts, k)), r \in Pipelines(Rest(ts, k))} : k \in Cuts(ts, "|")}

RECURSIVE Jobs(_)
Jobs(ts) == Pipelines(ts) \cup (IF ts # <<>> /\ Last(ts).t = "&" THEN {backcmd(c) : c \in Jobs(Front(ts))} ELSE {})

Lines(ts) == Jobs(ts) \cup UNION {{listcmd(l, r) : l \in Jobs(Before(ts, k)), r \in Lines(Rest(ts, k))} : k \in Cuts(ts, ";")}

\* The parser accepts exactly the lines of the grammar, and what it builds is
\* the one command that the grammar gives: it takes every token, in order.
ParserExact ==
  /\ ShTypeOK
  /\ cmd \notin {Prompt, Unparsed} => LET all == Lines(Tokens(line)) IN all = IF cmd = Bad THEN {} ELSE {cmd}

\* Every process that runcmd() starts has the descriptors 0, 1, 2 and no other:
\* no stray end of a pipe is left that would keep its reader from end of file.
\* A pipe has readers only on descriptor 0 and writers only on descriptor 1.
NoStrayEnds ==
  \A p \in procs :
    /\ DOMAIN p.fds = 0..2
    /\ \A f \in 0..2 : (p.fds[f][1] = "read" => f = 0) /\ (p.fds[f][1] = "write" => f = 1)
=============================================================================
