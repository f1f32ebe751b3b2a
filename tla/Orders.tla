------------------------------- MODULE Orders -------------------------------
(***************************************************************************)
(* std::sort by what it returns, and the order of std::vector.             *)
(***************************************************************************)
EXTENDS Integers, Sequences, SequencesExt

(* The elements of a set as a sequence, by a total order.                  *)
InOrder(set, Less(_, _)) ==
  [n \in 1..Cardinality(set) |->
     CHOOSE x \in set : Cardinality({y \in set : Less(y, x)}) = n - 1]

(* The elements of a sequence, sorted; those that compare equal stay in    *)
(* their order.                                                            *)
SortedBy(list, Less(_, _)) ==
  LET place == [i \in DOMAIN list |->
                  1 + Cardinality({j \in DOMAIN list :
                        \/ Less(list[j], list[i])
                        \/ ~Less(list[i], list[j]) /\ j < i})]
  IN  [n \in DOMAIN list |-> list[CHOOSE i \in DOMAIN list : place[i] = n]]

(* operator< of std::vector                                                *)
Before(a, b) ==
  \/ \E n \in DOMAIN a \cap DOMAIN b :
       a[n] < b[n] /\ \A m \in 1..(n - 1) : a[m] = b[m]
  \/ IsStrictPrefix(a, b)

(* The first elements of the sorted set, as many as fit a width.           *)
FirstOf(set, Less(_, _), width) ==
  SubSeq(InOrder(set, Less), 1, Min({width, Cardinality(set)}))

=============================================================================
