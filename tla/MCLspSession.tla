----------------------------- MODULE MCLspSession -----------------------------
(* Small instances of LspSession for TLC.                                    *)
EXTENDS LspSession, TLC

\* No document is special, nor any of the texts that can be sent.
Symmetry == Permutations(Uris) \cup Permutations(Encodable)
===============================================================================
