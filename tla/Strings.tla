------------------------------ MODULE Strings -------------------------------
(* Small algorithms on bytes, each as the loop its code runs and beside it   *)
(* the result it stands for: memmove() and safestrcpy() (kernel/string.c),   *)
(* the memmove() and atoi() of user/ulib.c, printint() (kernel/printf.c,     *)
(* user/printf.c) and copyinstr() (kernel/vm.c).  A state is one call with   *)
(* its arguments and its result.                                             *)
EXTENDS Integers, Sequences, SequencesExt, FiniteSets, FiniteSetsExt

CONSTANTS
  MemSize,   \* bytes of the memory that the calls work on
  StrPage,   \* PGSIZE
  IntBits,   \* width of int
  Base

VARIABLE call

NoCallYet == [fn |-> "none"]
Nul == 0
MinusSign == -1
Addresses == 0..(MemSize - 1)
IntMod == 2^IntBits
Ints == (-(2^(IntBits - 1)))..(2^(IntBits - 1) - 1)

ASSUME StringsAssumption == MemSize \in Nat \ {0} /\ StrPage \in Nat \ {0} /\ IntBits \in Nat \ {0} /\ Base > 1

UpTo(n) == [k \in 1..n |-> k - 1]
DownFrom(n) == [k \in 1..n |-> n - k]


\* When memmove() of the kernel copies from the end.
Overlap(d, s, n) == s < d /\ s + n > d

\* n bytes, one at a time, in the given order.
CopyBytes(m, d, s, order) == FoldLeft(LAMBDA x, k : [x EXCEPT ![d + k] = x[s + k]], m, order)

memmove(m, d, s, n) == CopyBytes(m, d, s, IF Overlap(d, s, n) THEN DownFrom(n) ELSE UpTo(n))
ulib_memmove(m, d, s, n) == CopyBytes(m, d, s, IF s > d THEN UpTo(n) ELSE DownFrom(n))

\* The turns that the loop of safestrcpy() takes at most.
Turns(n) == n - 1

\* safestrcpy(s, t, n) into an array of n bytes and one more.
safestrcpy(t, n) ==
  LET Step(x, k) == IF x.end THEN x ELSE [s |-> [x.s EXCEPT ![k] = t[k]], at |-> k + 1, end |-> t[k] = Nul]
      fresh == [s |-> [k \in 1..(n + 1) |-> 9], at |-> 1, end |-> FALSE]
      loop == FoldLeft(Step, fresh, [k \in 1..Turns(n) |-> k])
  IN  IF n <= 0 THEN fresh.s ELSE [loop.s EXCEPT ![loop.at] = Nul]

\* x as the uint that printint() divides.
Unsigned(x) == x % IntMod

\* The digits of x, least significant first, by the do loop.
Digits(x) ==
  LET q[k \in 0..IntBits] == IF k = 0 THEN x ELSE q[k - 1] \div Base
      n == Min({k \in 1..IntBits : q[k] = 0})
  IN  [k \in 1..n |-> q[k - 1] % Base]

printint(xx, sign) ==
  LET neg == sign /\ xx < 0
  IN  (IF neg THEN <<MinusSign>> ELSE <<>>) \o Reverse(Digits(Unsigned(IF neg THEN -xx ELSE xx)))

atoi(s) == FoldLeft(LAMBDA n, d : n * Base + d, 0, s)

\* n of copyinstr(): to the end of the page, or max.
Piece(va, max) == Min({StrPage - (va % StrPage), max})

\* copyinstr() from va, page by page: the bytes before the NUL, or -1.
RECURSIVE copyinstr(_, _, _, _)
copyinstr(m, mapped, va, max) ==
  LET n == Piece(va, max)
      seg == [k \in 1..n |-> m[(va + k - 1) % MemSize]]
      nuls == {k \in 1..n : seg[k] = Nul}
      more == copyinstr(m, mapped, va + n, max - n)
  IN  IF max <= 0 \/ (va \div StrPage) \notin mapped THEN <<-1>>
      ELSE IF nuls # {} THEN SubSeq(seg, 1, Min(nuls) - 1)
      ELSE IF more = <<-1>> THEN <<-1>> ELSE seg \o more

----------------------------------------------------------------------------

Memory0 == [a \in Addresses |-> a]
Texts == [Addresses -> {Nul, 1}]

Call(c) == call = NoCallYet /\ call' = c

Moves ==
  \E d, s \in Addresses : \E n \in 0..(MemSize - Max({d, s})) :
    \/ Call([fn |-> "memmove", d |-> d, s |-> s, n |-> n, r |-> memmove(Memory0, d, s, n)])
    \/ Call([fn |-> "memmove", d |-> d, s |-> s, n |-> n, r |-> ulib_memmove(Memory0, d, s, n)])

SafeCopies ==
  \E len \in 0..3 : \E t \in [1..len -> {1, 2}], n \in 0..4 :
    Call([fn |-> "safestrcpy", t |-> t, n |-> n, r |-> safestrcpy(Append(t, Nul), n)])

Prints == \E x \in Ints, sign \in BOOLEAN : Call([fn |-> "printint", x |-> x, sign |-> sign, r |-> printint(x, sign)])

CopyIns ==
  \E m \in Texts, mapped \in SUBSET (0..((MemSize - 1) \div StrPage)), va \in 0..(StrPage - 1), max \in 0..MemSize :
    Call([fn |-> "copyinstr", m |-> m, mapped |-> mapped, va |-> va, max |-> max, r |-> copyinstr(m, mapped, va, max)])

Returned == call # NoCallYet /\ call' = NoCallYet

StrInit == call = NoCallYet
StrNext == Moves \/ SafeCopies \/ Prints \/ CopyIns \/ Returned
StrSpec == StrInit /\ [][StrNext]_call

----------------------------------------------------------------------------
(* Properties *)

\* Either memmove() gives the destination the bytes that the source had before
\* the call, however the two overlap, and touches nothing else.
MemmoveCopies ==
  call.fn = "memmove" =>
    call.r = [a \in Addresses |-> IF a \in call.d..(call.d + call.n - 1) THEN a - call.d + call.s ELSE a]

\* safestrcpy() leaves a NUL-terminated prefix of the source, as long as fits,
\* within the n bytes of the destination.
SafeCopyEnds ==
  call.fn = "safestrcpy" =>
    LET len == Min({Len(call.t), call.n - 1})
    IN  /\ call.r[call.n + 1] = 9
        /\ call.n > 0 => SubSeq(call.r, 1, len + 1) = Append(SubSeq(call.t, 1, len), Nul)

\* printint() writes the value, the least int included: the digits evaluate
\* to it, none leads in vain, and atoi() reads a printed number back.
PrintsValue ==
  call.fn = "printint" =>
    LET digits == SelectSeq(call.r, LAMBDA c : c # MinusSign)
        value == atoi(digits)
    IN  /\ (IF call.r[1] = MinusSign THEN -value ELSE value) = IF call.sign THEN call.x ELSE call.x % IntMod
        /\ digits[1] # 0 \/ Len(digits) = 1

\* copyinstr() succeeds exactly when a NUL is among the first max bytes and
\* every page up to it is mapped, and then returns the bytes before the NUL.
StringCopied ==
  call.fn = "copyinstr" =>
    LET good == {k \in 0..(call.max - 1) :
                   /\ call.m[(call.va + k) % MemSize] = Nul
                   /\ \A j \in 0..k : (call.va + j) \div StrPage \in call.mapped}
    IN  call.r = IF good = {} THEN <<-1>> ELSE [k \in 1..Min(good) |-> call.m[(call.va + k - 1) % MemSize]]

=============================================================================
