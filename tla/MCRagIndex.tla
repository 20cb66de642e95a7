----------------------------- MODULE MCRagIndex -----------------------------
(* Instances of RagIndex for TLC: two connections of which only one has      *)
(* tables, or that share a name as two clones of one database do.            *)
EXTENDS RagIndex, TLC

CONSTANTS c1, c2, a, b

MCConns == {c1, c2}
MCTables == {a, b}
Single == c1 :> {a, b} @@ c2 :> {}
Shared == c1 :> {a, b} @@ c2 :> {a}
=============================================================================
