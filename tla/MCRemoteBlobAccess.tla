-------------------------- MODULE MCRemoteBlobAccess --------------------------
(* Two digests: a FindMissing request can list both, in either order, or   *)
(* one twice.                                                              *)
EXTENDS RemoteBlobAccess, TLC

CONSTANTS d1, d2

MCDigests == {d1, d2}
=============================================================================
