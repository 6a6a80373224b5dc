------------------------- MODULE MCMerkleBlobAccess -------------------------
(* Model-checking instance of MerkleBlobAccess: one digest naming a two-  *)
(* byte blob, uploads and corrupt values of up to three bytes (so longer, *)
(* shorter and same-size-wrong-bytes streams all occur), reads of at most *)
(* two bytes so a blob arrives in several chunks, two concurrent RPCs.    *)
EXTENDS MerkleBlobAccess, TLC

CONSTANTS d1, b0, b1, c1, c2

MCDigests == {d1}
MCBytes == {b0, b1}
MCContent == [d \in MCDigests |-> <<b0, b1>>]
MCClients == {c1, c2}

\* A same-size blob with a wrong byte, a short one and a long one.
MCGarbage == {<<b1, b1>>, <<b0>>, <<b0, b1, b1>>}

MCSymmetry == Permutations(MCClients)
=============================================================================
