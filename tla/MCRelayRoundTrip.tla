--------------------------- MODULE MCRelayRoundTrip ---------------------------
(* Sources of zero to four bytes over two byte values: the empty blob,     *)
(* one that fits every chunk and buffer, and longer ones that the relay's  *)
(* chunks, the server's Put buffers, the server's read chunks and the      *)
(* consumer's buffers all cut differently.  Digests: no instance, an       *)
(* instance "a", and instances spelled like the fixed words; hashes of one *)
(* and two hex characters (both recognized lengths here); sizes 0, 1, 10   *)
(* and 11.                                                                 *)
EXTENDS RelayRoundTrip, TLC

CONSTANTS b0, b1

MCInstances == {<<>>, <<"a">>, <<"blobs">>, <<"uploads">>}
MCHashes == {<<"a">>, <<"0", "1">>}
MCSizes == {0, 1, 10, 11}
MCUuids == {<<"a", "-", "1">>}
MCHashLengths == {1, 2}

MCBlobs == {<<>>, <<b0>>, <<b1, b0>>, <<b0, b1, b1>>, <<b1, b0, b0, b1>>}
=============================================================================
