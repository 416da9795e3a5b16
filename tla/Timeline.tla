------------------------------ MODULE Timeline ------------------------------
(***************************************************************************)
(* Python's list.sort, which keeps equal elements in their order, and its  *)
(* list comprehensions: what the parser and the HTML fallback do with the  *)
(* events of a shipment.                                                   *)
(***************************************************************************)
EXTENDS Integers, Sequences, FiniteSets, FiniteSetsExt

(* The elements of s at I, in ascending order of the keys of their places.  *)
Precedes(key, i, j) == key[i] < key[j] \/ (key[i] = key[j] /\ i < j)

Arranged(s, I, key) ==
  LET place(i) == Cardinality({j \in I : Precedes(key, j, i)}) + 1
  IN [k \in 1..Cardinality(I) |-> s[CHOOSE i \in I : place(i) = k]]

Sorted(s, key) == Arranged(s, DOMAIN s, key)

(* The elements of s at I, in their order.                                  *)
Chosen(s, I) == Arranged(s, I, [i \in I |-> i])
=============================================================================
