---------------------------- MODULE PluginOrder ----------------------------
(***************************************************************************)
(* The order in which "gpud custom-plugins" executes plugin specs          *)
(* (src/cmd/gpud/custom-plugins/command.go:67-74).  The specs are sorted   *)
(* with sort.Slice and a less function that puts "init" specs first and,   *)
(* for two "init" specs, compares their positions, i < j, in the slice as *)
(* it is being sorted.  For slices of at most 12 elements Go's sort.Slice  *)
(* (pdqsort) runs an insertion sort that calls less(j, j-1) on adjacent    *)
(* positions and swaps while it holds; SortSpecs follows it.  A spec is a  *)
(* record of its position in the file and its type.                        *)
(***************************************************************************)
EXTENDS Naturals, Sequences

\* Mutation: two "init" specs compare their positions the other way round.
LessSwapped(s, i, j) ==
  IF s[i].type = "init" /\ s[j].type = "init" THEN j < i ELSE s[i].type = "init"

\* The less function given to sort.Slice.
Less(s, i, j) ==
  IF s[i].type = "init" /\ s[j].type = "init" THEN i < j ELSE s[i].type = "init"

SwapAt(s, i, j) == [s EXCEPT ![i] = s[j], ![j] = s[i]]

\* The inner loop of the insertion sort: for j := i; j > a && less(j, j-1);
\* j-- { swap(j, j-1) }, with positions from 1.
RECURSIVE Sift(_, _)
Sift(s, j) == IF j > 1 /\ Less(s, j, j - 1) THEN Sift(SwapAt(s, j, j - 1), j - 1) ELSE s

\* The outer loop: for i := a + 1; i < b; i++.
RECURSIVE InsertFrom(_, _)
InsertFrom(s, i) == IF i > Len(s) THEN s ELSE InsertFrom(Sift(s, i), i + 1)

\* sort.Slice(specs, less) for len(specs) <= 12.
SortSpecs(s) == InsertFrom(s, 2)

IsInit(sp) == sp.type = "init"
NotInit(sp) == ~IsInit(sp)

\* What the comment "execute init type plugins first" and ExecuteInOrder
\* ask for: the "init" specs, then the others, each in the file's order.
InitFirst(s) == SelectSeq(s, IsInit) \o SelectSeq(s, NotInit)
=============================================================================
