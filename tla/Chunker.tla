------------------------------- MODULE Chunker --------------------------------
(* How ingestion/chunker.py cuts a text of n tokens, numbered from 0, into     *)
(* windows of `target` tokens of which consecutive ones share `overlap`.       *)
(* A window is known by its first token.                                       *)
EXTENDS Integers

(* target_tokens > 0 and overlap_tokens in [0, target_tokens).                 *)
Sizes == {s \in [target : Nat, overlap : Nat] : s.overlap < s.target}

stride(size) == size.target - size.overlap

(* tokens[start : start + target_tokens]                                       *)
Window(start, n, size) == {p \in start .. start + size.target - 1 : p < n}

(* range(0, n, stride), left after the first window that has the last token.   *)
Starts(n, size) ==
    {i * stride(size) : i \in {j \in 0 .. n :
        /\ j * stride(size) < n
        /\ j = 0 \/ (j - 1) * stride(size) + size.target < n}}

(* `ink` are the tokens that are not white space: a window without any is not  *)
(* kept.  A stripped text that is not empty begins and ends with ink.          *)
chunk(n, ink, size) == {s \in Starts(n, size) : Window(s, n, size) \cap ink # {}}

-------------------------------------------------------------------------------
(* Every token of the text that is not white space is in a chunk.              *)
Covered(n, ink, size) ==
    \A p \in ink : \E s \in chunk(n, ink, size) : p \in Window(s, n, size)

(* No chunk lies within another one (chunker.py:66).                           *)
NoneContained(n, size) ==
    \A s, t \in Starts(n, size) :
        s # t => ~ (Window(t, n, size) \subseteq Window(s, n, size))
===============================================================================
