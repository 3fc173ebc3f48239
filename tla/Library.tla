------------------------------- MODULE Library --------------------------------
(***************************************************************************)
(* The library under the kernel as its callers meet it: single calls of    *)
(* the string, path and start-up algorithms on enumerated inputs, or any   *)
(* sequence of calls on heap blocks, or on the linked lists.               *)
(***************************************************************************)
EXTENDS Text, Blocks, Startup, Links

CONSTANTS MaxSplit,     \* length of a string that is split
          MaxPieces,    \* pieces of a format
          MaxPath       \* length of a path

VARIABLE call           \* the one call made, with its inputs and its result

vars == <<call, started, bvars, lvars>>

None == [fn |-> "none"]

Strings(chars, n)  == UNION { [1..k -> chars] : k \in 0..n }
Concat(seqs)       == FoldLeft(LAMBDA s, t : s \o t, << >>, seqs)
Field(pieces, f)   == Concat([k \in 1..Len(pieces) |-> pieces[k][f]])

\* Calls are made, and lists used, before any block exists: they share nothing.
Fresh == call = None /\ started = NotYet /\ regions = {} /\ \A a \in DOMAIN mem : mem[a] = Junk

split ==
  \E s \in Strings({"a", "b"}, MaxSplit), d \in Strings({"a", "b"}, 2) :
    call' = [fn |-> "split", s |-> s, d |-> d, items |-> str_split(s, d)]

format ==
  \E pieces \in Strings(Pieces, MaxPieces) :
    call' = [fn |-> "format", text |-> Field(pieces, "text"),
             out |-> str_vformat(Field(pieces, "fmt"), Field(pieces, "args"))]

\* Paths start with a slash, which vfs_path_normalize asserts.
normalize ==
  \E tail \in Strings({"/", ".", "a"}, MaxPath - 1) :
    LET path == <<"/">> \o tail
    IN  \E parents \in vfs_path_as_str(path) :
          call' = [fn |-> "normalize", path |-> path, parents |-> parents,
                   out |-> vfs_path_normalize(path, parents)]

Init == call = None /\ SInit /\ BInit /\ LInit

Next ==
  \/ Fresh /\ use = "none" /\ (split \/ format \/ normalize) /\ UNCHANGED <<started, bvars, lvars>>
  \/ Fresh /\ use = "none" /\ startup /\ UNCHANGED <<call, bvars, lvars>>
  \/ call = None /\ started = NotYet /\ use = "none" /\ BNext /\ UNCHANGED <<call, started, lvars>>
  \/ Fresh /\ LNext /\ UNCHANGED <<call, started, bvars>>

Spec == Init /\ [][Next]_vars
-----------------------------------------------------------------------------
\* str_split cuts a string exactly at its delimiters: joining the items with the
\* delimiter gives the string back and no item holds a delimiter.  A delimiter
\* that overlaps itself is outside what the loop handles: the code only splits
\* at a space.
SplitExact(s, d, items) ==
  (s # << >> /\ d # << >> /\ ~SelfOverlaps(d)) =>
    /\ Joined(items, d) = s
    /\ \A k \in 1..Len(items) : \A i \in 0..(Len(items[k]) - Len(d)) :
         ~Matches(items[k], d, i)

\* Strings come out as they went in.  The two passes of str_vformat agree on the
\* length and produce the text of every piece of the format in order, for all
\* numbers, the lowest one too (an empty text fails allocate's assertion, and a
\* string without data memcpy's, even with text around it); and str_split, which lets delimiters touch and end the string, loses nothing.
StringsExact ==
  /\ call.fn = "format" => call.out = Printed(call.text)
  /\ call.fn = "split"  => SplitExact(call.s, call.d, call.items)

\* Whatever the comparisons of vfs_path_normalize with ".." read (path.c:51), it
\* returns a path in normal form within the room: empty and "." components are
\* gone, the components taken for ".." have each removed the component before
\* them and none has gone above the root, and the others are kept, a ".." that
\* was read as something else among them.  It gives up only on a path that fills
\* all the room a path has.
NormalizeExact ==
  call.fn = "normalize" =>
    \/ call.out = Absolute(Resolved(call.path, call.parents)) /\ Len(call.out) < VFS_PATH_MAX
    \/ call.out = NoPath /\ Len(call.path) >= VFS_PATH_MAX
=============================================================================
