---------------------------- MODULE MCResourceName ----------------------------
(* Relay digests: no instance, an instance "a", and instances spelled      *)
(* like the fixed words; hashes of one and two hex characters (both        *)
(* recognized lengths here); sizes 0, 1, 10 and 11.                        *)
EXTENDS ResourceName, TLC

MCInstances == {<<>>, <<"a">>, <<"blobs">>, <<"uploads">>}
MCHashes == {<<"a">>, <<"0", "1">>}
MCSizes == {0, 1, 10, 11}
MCUuids == {<<"a", "-", "1">>}
MCHashLengths == {1, 2}
=============================================================================
