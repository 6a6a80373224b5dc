------------------------- MODULE MCShardingBlobAccess -------------------------
(* Three slots, slot 2 drained, hashInitialization the FNV offset basis.   *)
(* Digest keys in the hash:size form: "0:0" hashes to 1 mod 3 (first      *)
(* candidate the drained slot 2, so it falls through to slot 3), "c:1" to  *)
(* 0 (slot 1) and "a:1" to 2 (slot 3), so a request can span two back ends *)
(* and one back end can serve two digests.                                 *)
EXTENDS ShardingBlobAccess, TLC

CONSTANTS dA, dB, dC

MCDigests == {dA, dB, dC}
MCKeyOf == [d \in MCDigests |-> CASE d = dA -> <<48, 58, 48>>
                                  [] d = dB -> <<99, 58, 49>>
                                  [] d = dC -> <<97, 58, 49>>]
MCHashInit == OffsetBasis
MCDrained == {2}
=============================================================================
