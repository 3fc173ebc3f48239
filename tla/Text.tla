--------------------------------- MODULE Text ---------------------------------
(***************************************************************************)
(* The string algorithms: itoa (klibc/src/algo/conv.c), the formatter      *)
(* (klibc/src/algo/format.c) and str_vformat and str_split                 *)
(* (klibc/src/mem/str.c), and vfs_path_normalize (libs/vfs/src/path.c).    *)
(* A string is a sequence of characters, numbers have Bits bits.  The user *)
(* library has the same code.                                              *)
(***************************************************************************)
EXTENDS Integers, Sequences, FiniteSets, SequencesExt

CONSTANTS Bits,           \* of an integer, 64 in the code
          VFS_PATH_MAX    \* characters a path has room for

ASSUME TextAssumption == Bits \in Nat \ {0} /\ VFS_PATH_MAX \in Nat \ {0, 1}

UMax == 2^Bits - 1
IMin == -(2^(Bits - 1))

\* What a call that fails an assertion returns.
Stopped == << "stopped" >>
-----------------------------------------------------------------------------
(* Numbers                                                                 *)

alphabet == << "0", "1", "2", "3", "4", "5", "6", "7", "8", "9", "a", "b", "c", "d", "e", "f" >>

\* The digits as the division loop produces them, the lowest first.
lowest_first(n, base) ==
  LET digits[k \in 0..n] == IF k = 0 THEN << >> ELSE <<alphabet[(k % base) + 1]>> \o digits[k \div base]
  IN  digits[n]

\* Mutant: the swap loop stops one pair early.
swap_short(s) ==
  [i \in 1..Len(s) |-> IF i < Len(s) \div 2 \/ i > Len(s) - Len(s) \div 2 + 1 THEN s[Len(s) + 1 - i] ELSE s[i]]

\* The loop that swaps digits from both ends up to the middle.
swap(s) ==
  [i \in 1..Len(s) |-> IF i <= Len(s) \div 2 \/ i > Len(s) - Len(s) \div 2 THEN s[Len(s) + 1 - i] ELSE s[i]]

\* The formatter's buffer has room for Bits digits and one more.
itoa(n, base) ==
  LET digits == lowest_first(n, base)
  IN  IF n = 0 THEN <<"0">> ELSE IF Len(digits) > Bits + 1 THEN Stopped ELSE swap(digits)

\* The negation of the lowest number overflows: it wraps to itself, which read
\* as unsigned is its magnitude, or stops a build with the sanitizer.
negate(i) == (-i) % 2^Bits
-----------------------------------------------------------------------------
(* The formatter                                                           *)

\* The characters after a "%" that read an argument.
conversions == {"d", "u", "b", "p", "x", "X", "s", "c"}

\* formatter_apply_v: the chunks it hands to its consumer.  Arguments are read
\* from the front of args.
RECURSIVE formatter_apply_v(_, _)
formatter_apply_v(fmt, args) ==
  IF fmt = << >> THEN << >>
  ELSE IF Head(fmt) # "%" THEN << <<Head(fmt)>> >> \o formatter_apply_v(Tail(fmt), args)
  ELSE IF Len(fmt) = 1 THEN << <<"%">> >>
  ELSE LET c    == fmt[2]
           rest == formatter_apply_v(Tail(Tail(fmt)), IF c \in conversions THEN Tail(args) ELSE args)
           arg  == Head(args)
       IN  CASE c = "d" -> (IF arg < 0 THEN << <<"-">>, itoa(negate(arg), 10) >> ELSE << itoa(arg, 10) >>) \o rest
             [] c = "u" -> << itoa(arg, 10) >> \o rest
             [] c = "b" -> << <<"0", "b">>, itoa(arg, 2) >> \o rest
             [] c \in {"x", "X"} -> << <<"0", "x">>, itoa(arg, 16) >> \o rest
             [] c = "p" -> << <<"*">>, <<"0", "x">>, itoa(arg, 16) >> \o rest
             [] c = "s" -> << arg >> \o rest
             [] c = "c" -> << <<arg>> >> \o rest
             [] c = "%" -> << <<"%">> >> \o rest
             [] OTHER   -> << <<"%">>, <<c>> >> \o rest

\* A string of no length and no data: memcpy's assertion refuses it.
str_null == << "null" >>

len_formatter(chunk) == IF chunk = str_null THEN 0 ELSE Len(chunk)

\* str_vformat: one pass for the length, an allocation of exactly that, which
\* must not be empty, and a pass that checks the room left and copies.
str_vformat(fmt, args) ==
  LET chunks   == formatter_apply_v(fmt, args)
      capacity == FoldLeft(LAMBDA n, chunk : n + len_formatter(chunk), 0, chunks)
      copied   == FoldLeft(LAMBDA s, chunk :
                             IF s = Stopped \/ capacity - Len(s) < len_formatter(chunk) \/ chunk = str_null
                             THEN Stopped ELSE s \o chunk, << >>, chunks)
  IN  IF capacity = 0 THEN Stopped ELSE copied

\* Reference: a piece of a format, its argument and the text it stands for.
\* A number's text has the digit of weight base^j at the j-th place from the
\* right and no leading zero.
Numeral(n, base) ==
  LET k == CHOOSE k \in 1..(Bits + 1) : n < base^k /\ (k > 1 => n >= base^(k - 1))
  IN  [i \in 1..k |-> alphabet[((n \div base^(k - i)) % base) + 1]]

\* Nothing can be made of no text, nor with a piece that stops the copy.
Printed(text) == IF text = << >> \/ "stopped" \in ToSet(text) THEN Stopped ELSE text

Piece(fmt, args, text) == [fmt |-> fmt, args |-> args, text |-> text]

Pieces ==
  { Piece(<<"z">>, << >>, <<"z">>), Piece(<<"%", "%">>, << >>, <<"%">>), Piece(<<"%", "z">>, << >>, <<"%", "z">>),
    Piece(<<"%", "s">>, << << >> >>, << >>), Piece(<<"%", "s">>, << <<"z", "%">> >>, <<"z", "%">>),
    Piece(<<"%", "s">>, <<str_null>>, Stopped), Piece(<<"%", "c">>, <<"d">>, <<"d">>) }
  \cup { Piece(<<"%", "d">>, <<i>>, IF i < 0 THEN <<"-">> \o Numeral(-i, 10) ELSE Numeral(i, 10))
         : i \in IMin..(-IMin - 1) }
  \cup { Piece(<<"%", "u">>, <<n>>, Numeral(n, 10)) : n \in 0..UMax }
  \cup { Piece(<<"%", "b">>, <<n>>, <<"0", "b">> \o Numeral(n, 2)) : n \in 0..UMax }
  \cup { Piece(<<"%", "x">>, <<n>>, <<"0", "x">> \o Numeral(n, 16)) : n \in 0..UMax }
  \cup { Piece(<<"%", "p">>, <<n>>, <<"*", "0", "x">> \o Numeral(n, 16)) : n \in 0..UMax }
-----------------------------------------------------------------------------
(* Splitting                                                               *)

Matches(s, d, i) == SubSeq(s, i + 1, i + Len(d)) = d

\* The wrapped length of a slice that ends before it starts.
Wrapped == << "wrapped" >>

str_slice(s, start, length) ==
  IF length < 0 THEN Wrapped
  ELSE IF start + length > Len(s) THEN Stopped
  ELSE SubSeq(s, start + 1, start + length)

last_match(s, d) == Len(s) - Len(d)

\* Every position is looked at, those inside a delimiter just found too.
str_split(s, d) ==
  LET found == FoldLeft(
        LAMBDA acc, i :
          IF Matches(s, d, i)
          THEN [start |-> i + Len(d), items |-> Append(acc.items, str_slice(s, acc.start, i - acc.start))]
          ELSE acc,
        [start |-> 0, items |-> << >>],
        [k \in 1..(last_match(s, d) + 1) |-> k - 1])
  IN  IF s = << >> \/ d = << >> THEN << >>
      ELSE IF found.start <= Len(s)
           THEN Append(found.items, str_slice(s, found.start, Len(s) - found.start))
           ELSE found.items

\* Two occurrences of the delimiter can share characters.
SelfOverlaps(d) == \E k \in 1..(Len(d) - 1) : SubSeq(d, 1, k) = SubSeq(d, Len(d) - k + 1, Len(d))

Joined(items, d) == FoldLeft(LAMBDA s, item : s \o d \o item, Head(items), Tail(items))
-----------------------------------------------------------------------------
(* Paths                                                                   *)

\* vfs_path_null
NoPath == << >>

\* Mutant: the parent is popped without its own slash being looked for.
pop_one(out) == IF Len(out) > 1 THEN Front(out) ELSE out

\* "..": back over the slash, then over the component before it.
pop(out) ==
  LET back[w \in 1..Len(out)] == IF w > 1 /\ out[w] # "/" THEN back[w - 1] ELSE w
  IN  IF Len(out) > 1 THEN SubSeq(out, 1, back[Len(out) - 1]) ELSE out

finish(out) ==
  LET stripped == IF Len(out) > 1 /\ Last(out) = "/" THEN Front(out) ELSE out
  IN  IF stripped = << >> THEN <<"/">> ELSE stripped

\* What is compared with ".." is not the path but what vfs_path_as_str answers:
\* a pointer into its own copy of the path, which has ended by then.  Whatever
\* it holds, any component of two characters may compare equal, or not.  The
\* outcomes of all the comparisons: the components, by their first position,
\* that are taken for "..".
vfs_path_as_str(path) ==
  SUBSET { r \in 2..(Len(path) - 1) :
             /\ path[r - 1] = "/" /\ path[r] # "/" /\ path[r + 1] # "/"
             /\ r + 1 < Len(path) => path[r + 2] = "/" }

\* The main loop, from position r on, with what has been written so far.
RECURSIVE normalize_from(_, _, _, _)
normalize_from(path, parents, r, out) ==
  LET slash == IF Last(out) = "/" THEN out ELSE Append(out, "/")
      end   == CHOOSE k \in r..Len(path) : /\ \A j \in r..k : path[j] # "/"
                                           /\ (k = Len(path) \/ path[k + 1] = "/")
      name  == SubSeq(path, r, end)
  IN  IF r > Len(path) THEN finish(out)
      ELSE IF path[r] = "/" THEN
        IF out # << >> /\ Last(out) = "/" THEN normalize_from(path, parents, r + 1, out)
        ELSE IF Len(out) >= VFS_PATH_MAX - 1 THEN NoPath
        ELSE normalize_from(path, parents, r + 1, Append(out, "/"))
      ELSE IF name = <<".">> THEN normalize_from(path, parents, end + 1, out)
      ELSE IF r \in parents THEN normalize_from(path, parents, end + 1, pop(out))
      ELSE IF slash # out /\ Len(out) >= VFS_PATH_MAX - 1 THEN NoPath
      ELSE IF Len(slash) + Len(name) >= VFS_PATH_MAX THEN NoPath
      ELSE normalize_from(path, parents, end + 1, slash \o name)

vfs_path_normalize(path, parents) == normalize_from(path, parents, 1, << >>)

\* Reference: the names left when every component in parents has taken the one
\* before it away.
Resolved(path, parents) ==
  LET ends  == SelectSeq([i \in 1..(Len(path) + 1) |-> i], LAMBDA i : i > Len(path) \/ path[i] = "/")
      names == [k \in 1..(Len(ends) - 1) |->
                  [name |-> SubSeq(path, ends[k] + 1, ends[k + 1] - 1), up |-> ends[k] + 1 \in parents]]
  IN  FoldLeft(LAMBDA stack, n :
                 IF n.name \in {<< >>, <<".">>} \/ (n.up /\ stack = << >>) THEN stack
                 ELSE IF n.up THEN Front(stack) ELSE Append(stack, n.name), << >>, names)

Absolute(names) == IF names = << >> THEN <<"/">> ELSE FoldLeft(LAMBDA s, name : s \o <<"/">> \o name, << >>, names)
=============================================================================
