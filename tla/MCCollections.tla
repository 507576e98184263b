--------------------------- MODULE MCCollections ---------------------------
(* Small instances of Collections for TLC. *)
EXTENDS Collections

CONSTANTS c, e, s, k, r1, x, y

MCKindOf == [i \in Items |-> CASE i = c -> "contact"
                               [] i = e -> "event"
                               [] OTHER -> "script"]
MCCalendarOf == [i \in Items \cap {e} |-> k]
MCOrder == SetToSeq(Items)
Symmetric == Permutations(Contents)
=============================================================================
