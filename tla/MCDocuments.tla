----------------------------- MODULE MCDocuments ------------------------------
(* Two documents, of a text that the chunker cuts into two and of none, and    *)
(* the chunker itself on all texts of up to seven tokens.                      *)
EXTENDS Documents, Chunker

CONSTANTS d1, d2

Length == [d \in {d1, d2} |-> IF d = d1 THEN 4 ELSE 0]

Empty ==
    {d \in {d1, d2} :
        chunk(Length[d], 0 .. Length[d] - 1, [target |-> 3, overlap |-> 1]) = {}}

ASSUME ChunkerSound ==
    \A n \in 0 .. 7, target \in 1 .. 4 : \A overlap \in 0 .. target - 1 :
        LET size == [target |-> target, overlap |-> overlap]
        IN  /\ size \in Sizes
            /\ \A ink \in SUBSET (0 .. n - 1) : Covered(n, ink, size)
            /\ NoneContained(n, size)
===============================================================================
