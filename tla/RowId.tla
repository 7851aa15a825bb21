-------------------------------- MODULE RowId --------------------------------
(***************************************************************************)
(* The key that getPrefix (numprefix.cpp) chooses for a new row.  A key is *)
(* the text "SRV" and nine digits; it is modelled by its number.  Nine     *)
(* zero-padded digits sort as text the way the numbers sort, so ORDER BY   *)
(* is the order of Nat.  S is the set of numbers of the table's SRV keys.  *)
(***************************************************************************)
EXTENDS Integers, FiniteSetsExt

\* Value of the counter numNum while the cursor stands on row x.
Position(S, x) == Cardinality({y \in S : y <= x})

\* Rows at which "value > numNum" stops the loop.
GapRows(S) == {x \in S : x > Position(S, x)}

\* Mutation: the number of rows decides, not their keys.
getPrefixCounts(S) == Cardinality(S) + 1

\* Mutation: gaps are not looked for.
getPrefixAfterLast(S) == IF S = {} THEN 1 ELSE Max(S) + 1

\* Mutation: the counter is incremented once more after the loop.
getPrefixSkips(S) == IF S = {} THEN 1 ELSE Max(S) + 2

\* Mutation: the numbers start at zero.
getPrefixFromZero(S) == IF S = {} THEN 0 ELSE Max(S) + 1

\* The number at the first gap, otherwise one more than the last row's.
getPrefix(S) == IF GapRows(S) # {} THEN Position(S, Min(GapRows(S)))
                ELSE IF S = {} THEN 1
                ELSE Max(S) + 1
=============================================================================
