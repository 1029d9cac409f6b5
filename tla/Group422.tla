------------------------------ MODULE Group422 ------------------------------
(***************************************************************************)
(* The plug-ins of group 422 (src/plugins/group422_*.c), and how a command *)
(* is offered to them in the order of their ranks (plugin_execute in       *)
(* src/esh.c). int has Width bits. A word is kept as the number it is or   *)
(* as its characters, whichever the plug-in makes of it.                   *)
(***************************************************************************)
EXTENDS SequencesExt, Integers

CONSTANTS
  Width,     \* the bits of int
  MaxWord    \* BOUND: the characters of a word

ASSUME Group422Assumption == Width \in Nat /\ Width > 1 /\ MaxWord \in Nat

\* 1, b, b * b, ...
Powers(b) == LET p[k \in Nat] == IF k = 0 THEN 1 ELSE b * p[k - 1] IN p

MaxInt  == Powers(2)[Width - 1] - 1
CInt    == (-MaxInt - 1)..MaxInt   \* int
wrap(x) == ((x + MaxInt + 1) % (2 * (MaxInt + 1))) - MaxInt - 1
half(x) == IF x >= 0 THEN x \div 2 ELSE -((-x) \div 2)

Names == <<"cd", "convertDegrees", "sum", "reverse", "binHex">>   \* by rank
Char  == {"digit", ".", "-", "letter", "%"}
Word  == BoundedSeq(Char, MaxWord) \ {<<>>}
Dir   == {"~", "~/dir", "~name", "dir"}

\* A command with argc arguments; the fields its plug-in does not look at are fixed.
Typed(name, argc, no1, no2, word, dir) ==
  [name : {name}, argc : argc, no1 : no1, no2 : no2, word : word, dir : dir]
Commands ==
       Typed("sum", 0..2, CInt, CInt, {<<>>}, {"~"})
  \cup Typed("binHex", 0..1, 0..(4 * (MaxInt + 1)), {0}, {<<"digit">>, <<"letter">>}, {"~"})
  \cup Typed("reverse", 0..1, {0}, {0}, Word, {"~"})
  \cup Typed("convertDegrees", 0..2, {0}, {0}, Word, {"~"})
  \cup Typed("cd", 0..1, {0}, {0}, {<<>>}, Dir)
  \cup Typed("ls", 0..1, {0}, {0}, {<<>>}, {"~"})

VARIABLES
  cmd,         \* the command that was typed
  rank,        \* the plug-in it is offered to
  isPlugin,
  pc,          \* "offer", the loop of a plug-in, or the end
  number, tmp, base, arr,   \* binHex's locals
  word, i,     \* argv[1], which reverse reverses in place, and its counter
  cwd,         \* the shell's directory
  printed      \* what was printed: sequences of digits, numbers or characters

conversion == <<number, tmp, base, arr>>
reversal   == <<word, i>>
vars == <<cmd, rank, isPlugin, pc, conversion, reversal, cwd, printed>>

TypeOK ==
  /\ cmd \in Commands
  /\ rank \in 1..(Len(Names) + 1) /\ isPlugin \in BOOLEAN
  /\ pc \in {"offer", "digits", "swap", "crashed"}
  /\ {number, tmp} \subseteq CInt /\ base \in {2, 16}
  /\ arr \in Seq(0..15) /\ Len(arr) < Width
  /\ word \in Seq(Char) /\ i \in 0..MaxWord
  /\ cwd \in Dir \cup {"start"}

Init ==
  /\ cmd \in Commands
  /\ rank = 1 /\ isPlugin = FALSE /\ pc = "offer"
  /\ number = 0 /\ tmp = 0 /\ base = 2 /\ arr = <<>>
  /\ word = cmd.word /\ i = 0
  /\ cwd = "start" /\ printed = <<>>

\* plugin_execute goes on to the next plug-in, also when one has taken the command.
taken   == pc' = "offer" /\ rank' = rank + 1 /\ isPlugin' = TRUE
enters(l) == pc' = l /\ UNCHANGED <<rank, isPlugin, printed>>
prints(x) == printed' = Append(printed, x)
Offered(name) == pc = "offer" /\ rank <= Len(Names) /\ Names[rank] = name /\ cmd.name = name
With(name) == Offered(name) /\ cmd.argc > 0
Plain(w) == ~Contains(w, "%")

not_mine ==
  /\ pc = "offer" /\ rank <= Len(Names) /\ Names[rank] # cmd.name
  /\ rank' = rank + 1
  /\ UNCHANGED <<cmd, isPlugin, pc, conversion, reversal, cwd, printed>>

-----------------------------------------------------------------------------

\* A directory that is named in full is looked at and nothing more. What begins with ~ is
\* put together in tmp: strcpy crashes on the null pointer of a user without an entry (chdir
\* of a null pointer only fails), and so may a name that is longer than tmp.
chdir_builtin ==
  /\ Offered("cd")
  /\ \/ /\ taken
        /\ \/ cwd' = IF cmd.argc = 0 THEN "~" ELSE IF cmd.dir = "dir" THEN cwd ELSE cmd.dir
           \/ UNCHANGED cwd          \* chdir fails
     \/ /\ cmd.argc > 0 /\ cmd.dir \in {"~/dir", "~name"}
        /\ pc' = "crashed" /\ UNCHANGED <<rank, isPlugin, cwd>>
  /\ UNCHANGED <<cmd, conversion, reversal, printed>>

\* argv[1] is a null pointer. Only binHex looks; atoi and strlen crash, and printf, to
\* which reverse gives it, fails in one way or another.
missing_argument ==
  /\ \E name \in {"convertDegrees", "sum", "reverse", "binHex"} : Offered(name)
  /\ cmd.argc = 0
  /\ \/ cmd.name = "binHex" /\ taken /\ prints("Invalid input")
     \/ cmd.name # "binHex" /\ pc' = "crashed" /\ UNCHANGED <<rank, isPlugin, printed>>
     \/ cmd.name = "reverse" /\ taken /\ UNCHANGED printed
  /\ UNCHANGED <<cmd, conversion, reversal, cwd>>

\* What passes for a number has no other characters and no second point. The arithmetic is
\* done in double and left out.
converter_builtin ==
  /\ With("convertDegrees")
  /\ taken
  /\ prints(IF ~Plain(word) \/ Contains(word, "letter") \/ Len(SelectSeq(word, LAMBDA c : c = ".")) > 1
               \/ cmd.argc = 1 THEN "Invalid input" ELSE "degrees")
  /\ UNCHANGED <<cmd, conversion, reversal, cwd>>

\* The number is halved before it is multiplied.
gauss_HalfFirst(n) == wrap(half(n) * wrap(n + 1))
\* int arithmetic, with wraparound.
gauss(n) == half(wrap(n * wrap(n + 1)))

summation_builtin ==
  /\ With("sum")
  /\ taken
  /\ prints(IF cmd.argc = 2 THEN wrap(cmd.no1 + cmd.no2) ELSE gauss(cmd.no1))
  /\ UNCHANGED <<cmd, conversion, reversal, cwd>>

reverseString_builtin ==
  /\ With("reverse")
  /\ enters("swap")
  /\ UNCHANGED <<cmd, conversion, reversal, cwd>>

\* The loop runs over the whole word and puts it back in order.
swaps_Whole == Len(word)
swaps == Len(word) \div 2

swap ==
  /\ pc = "swap" /\ i < swaps
  /\ word' = [word EXCEPT ![i + 1] = word[Len(word) - i], ![Len(word) - i] = word[i + 1]]
  /\ i' = i + 1
  /\ UNCHANGED <<cmd, rank, isPlugin, pc, conversion, cwd, printed>>

\* The word is handed to printf as its format. With a conversion in it, printf takes arguments
\* that were never given: it prints something or crashes. (What %n may overwrite is left out.)
swap_End ==
  /\ pc = "swap" /\ i >= swaps
  /\ \/ Plain(word) /\ taken /\ prints(word)
     \/ ~Plain(word) /\ taken /\ prints("formatted")
     \/ ~Plain(word) /\ pc' = "crashed" /\ UNCHANGED <<rank, isPlugin, printed>>
  /\ UNCHANGED <<cmd, conversion, reversal, cwd>>

\* Only digits are accepted; atoi keeps the low bits of a number that is too large.
binHex_builtin ==
  /\ With("binHex")
  /\ IF word # <<"digit">> THEN taken /\ prints("Invalid input") /\ UNCHANGED conversion
     ELSE /\ enters("digits")
          /\ number' = wrap(cmd.no1) /\ tmp' = number' /\ base' = 2 /\ arr' = <<>>
  /\ UNCHANGED <<cmd, reversal, cwd>>

digit ==
  /\ pc = "digits" /\ tmp > 0
  /\ arr' = Append(arr, tmp % base) /\ tmp' = tmp \div base
  /\ UNCHANGED <<cmd, rank, isPlugin, pc, number, base, reversal, cwd, printed>>

\* n = 0 is forgotten behind the binary number.
restart_KeepsDigits == tmp' = number /\ base' = 16 /\ arr' = arr
restart == tmp' = number /\ base' = 16 /\ arr' = <<>>

digits_End ==
  /\ pc = "digits" /\ tmp <= 0
  /\ prints(Reverse(arr))
  /\ IF base = 2 THEN restart /\ UNCHANGED <<rank, isPlugin, pc>>
     ELSE taken /\ UNCHANGED <<tmp, base, arr>>
  /\ UNCHANGED <<cmd, number, reversal, cwd>>

Done == (pc = "crashed" \/ rank > Len(Names)) /\ UNCHANGED vars

Next ==
  \/ not_mine
  \/ missing_argument \/ chdir_builtin \/ converter_builtin \/ summation_builtin
  \/ reverseString_builtin \/ swap \/ swap_End
  \/ binHex_builtin \/ digit \/ digits_End
  \/ Done

Spec == Init /\ [][Next]_vars

-----------------------------------------------------------------------------
(***************************************************************************)
(* Properties.                                                             *)
(***************************************************************************)

Handled(name) == rank > Len(Names) /\ cmd.name = name /\ cmd.argc > 0

\* What the last k digits of ds are worth in base b, and all of them; 1 + ... + n.
Worth(ds, b) ==
  LET v[k \in 0..Len(ds)] ==
        IF k = 0 THEN 0 ELSE v[k - 1] + ds[Len(ds) + 1 - k] * Powers(b)[k - 1]
  IN  v
Value(ds, b) == Worth(ds, b)[Len(ds)]
Sums[n \in Nat] == IF n = 0 THEN 0 ELSE Sums[n - 1] + n

\* The way to write a number in base b: 0 alone has a 0 in front.
Writes(ds, x, b) ==
  /\ ds \in Seq(0..(b - 1)) /\ ds # <<>> /\ (Head(ds) # 0 \/ Len(ds) = 1)
  /\ Value(ds, b) = x

\* At each turn of the loop what is left of the number and the digits so far make up the
\* number, and of a positive number that fits an int both results are its digits, with no leading
\* zero and at most one digit per bit (arr has room for 40); larger numbers lose their high bits.
\* 0, the first number of the range in group422_binHex_readme.txt, is left out: for it the loops
\* make no turn and both lines stay empty.
BinHexExact ==
  /\ pc = "digits" /\ number > 0 =>
       number = tmp * Powers(base)[Len(arr)] + Value(Reverse(arr), base) /\ Len(arr) < Width
  /\ Handled("binHex") /\ cmd.word = <<"digit">> /\ cmd.no1 \in 1..MaxInt =>
       Writes(printed[1], cmd.no1, 2) /\ Writes(printed[2], cmd.no1, 16)

\* sum n is 1 + ... + n as long as n * (n + 1), before it is halved, fits; with two numbers the
\* sum is right when it fits.
SumExact ==
  Handled("sum") =>
    IF cmd.argc = 2 THEN cmd.no1 + cmd.no2 \in CInt => printed = <<cmd.no1 + cmd.no2>>
    ELSE cmd.no1 >= 0 /\ cmd.no1 * (cmd.no1 + 1) <= MaxInt => printed = <<Sums[cmd.no1]>>

\* The swaps in place reverse the word, of odd and of even length, and never lose a character:
\* argv[1] is what the plug-ins behind it and the end of the line are left with. What is printed
\* is the word reversed if it has no %, against "any word" in group422_reverseString_readme.txt.
ReversesInPlace ==
  /\ \E f \in Bijection(DOMAIN cmd.word, DOMAIN cmd.word) : word = [k \in DOMAIN f |-> cmd.word[f[k]]]
  /\ Handled("reverse") => word = Reverse(cmd.word)
  /\ Handled("reverse") /\ Plain(cmd.word) => printed = <<Reverse(cmd.word)>>

\* The inductive invariant behind it: i characters at each end have changed places, none
\* before the loop and all behind it, and the loop runs for reverse only.
Swapped(k) == k <= i \/ k > Len(cmd.word) - i
Mirror(k)  == Len(cmd.word) + 1 - k

TurnedInv ==
  /\ cmd.word \in Seq(Char) /\ i \in 0..(Len(cmd.word) \div 2)
  /\ word = [k \in DOMAIN cmd.word |-> cmd.word[IF Swapped(k) THEN Mirror(k) ELSE k]]

HasReversed == i = Len(cmd.word) \div 2 /\ (Plain(word) => printed = <<word>>)

OfferInv ==
  /\ rank \in 1..(Len(Names) + 1) /\ pc \in {"offer", "digits", "swap", "crashed"}
  /\ pc = "digits" => rank = 5 /\ cmd.name = "binHex"
  /\ pc = "swap" => rank = 4 /\ cmd.name = "reverse"
  /\ rank <= 4 /\ cmd.name = "reverse" => printed = <<>>
  /\ rank > 4 /\ cmd.name = "reverse" /\ cmd.argc > 0 => HasReversed

ReversalInv == TurnedInv /\ OfferInv

\* The inductive invariant behind the results of sum and of binHex. Nothing is printed before
\* the plug-in is asked. A positive number gives binHex its digits, the last of which is not 0;
\* any other gives it none. The binary result stays in printed while the hexadecimal digits
\* are taken.
Result == IF cmd.argc = 2 THEN wrap(cmd.no1 + cmd.no2) ELSE gauss(cmd.no1)
Right(ds, b) == number > 0 => Writes(ds, number, b)

LoopInv ==
  /\ number = wrap(cmd.no1)
  /\ IF number > 0
     THEN tmp >= 0 /\ arr \in Seq(0..(base - 1)) /\ (tmp = 0 => Last(arr) # 0 /\ arr # <<>>)
     ELSE tmp = number /\ arr = <<>>
  /\ IF base = 2 THEN printed = <<>> ELSE printed = <<printed[1]>> /\ Right(printed[1], 2)

ResultInv ==
  /\ cmd.name # "reverse" => word = cmd.word
  /\ cmd.name = "sum" /\ rank <= 3 => printed = <<>>
  /\ cmd.name = "sum" /\ rank > 3 /\ cmd.argc > 0 => printed = <<Result>>
  /\ cmd.name = "binHex" /\ rank <= 5 /\ pc = "offer" => printed = <<>>
  /\ pc = "digits" => LoopInv
  /\ Handled("binHex") /\ cmd.word = <<"digit">> =>
       number = wrap(cmd.no1) /\ Right(printed[1], 2) /\ Right(printed[2], 16)

Group422Inv == TypeOK /\ ReversalInv /\ BinHexExact /\ ResultInv
=============================================================================
