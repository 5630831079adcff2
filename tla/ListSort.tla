------------------------------ MODULE ListSort ------------------------------
(***************************************************************************)
(* Python's list.sort(key=...) and list.sort(key=..., reverse=True) on    *)
(* integer keys.  Both are stable: elements with equal keys keep their    *)
(* input order (reverse=True does not reverse ties).  An element's place  *)
(* in the result is one plus the number of elements that must precede    *)
(* it: those with a smaller (larger, descending) key, and those with an   *)
(* equal key earlier in the input.                                        *)
(***************************************************************************)
EXTENDS Naturals, Sequences, FiniteSets

LOCAL Place(s, Key(_), Before(_, _), i) ==
  Cardinality({j \in DOMAIN s : Before(Key(s[j]), Key(s[i]))})
    + Cardinality({j \in 1..i : Key(s[j]) = Key(s[i])})

LOCAL SortWith(s, Key(_), Before(_, _)) ==
  [k \in DOMAIN s |-> s[CHOOSE i \in DOMAIN s : Place(s, Key, Before, i) = k]]

\* list.sort(key=Key)
SortAscending(s, Key(_)) == SortWith(s, Key, LAMBDA a, b : a < b)

\* list.sort(key=Key, reverse=True)
SortDescending(s, Key(_)) == SortWith(s, Key, LAMBDA a, b : a > b)
=============================================================================
