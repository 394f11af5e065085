---------------------------- MODULE Subsequences ----------------------------
(***************************************************************************)
(* The part of a sequence at some of its places, in its order: what a list *)
(* comprehension with a condition and a query with WHERE and ORDER BY keep *)
(* of a list of rows.  (SelectSeq is a recursive definition, of which the  *)
(* provers can show nothing.)                                              *)
(***************************************************************************)
EXTENDS Integers, SequencesExt

Rank(J, i) == Cardinality({j \in J : j <= i})
Nth(J, k)  == CHOOSE i \in J : Rank(J, i) = k

Kept(s, I) ==
    LET J == I \cap DOMAIN s IN [k \in 1..Cardinality(J) |-> s[Nth(J, k)]]
=============================================================================
