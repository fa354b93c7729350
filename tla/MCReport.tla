------------------------------- MODULE MCReport -------------------------------
(* Two web hits that share a src_id, a document chunk, and a src_id no hit has. *)
(* A draft cites what may be known and what may not; the other has brackets    *)
(* that close where the next citation does.                                    *)
EXTENDS Report

CONSTANTS a, b, c, h1, h2, d1, t1, t2

TopK == [t \in {t1, t2} |-> IF t = t1 THEN 2 ELSE 1]

Digest == [h \in {h1, h2, d1} |-> IF h = d1 THEN b ELSE a]

Cite(s) == Token(<<s>>)

Open(s) == <<"[", "^", s>>

Written == {Cite(b) \o Cite(c) \o Cite(c),
            Open(c) \o Cite(c) \o Cite(a) \o Cite(c) \o Open(c) \o Cite(a)}
===============================================================================
