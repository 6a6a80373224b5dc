---------------------------- MODULE MCShardRouting ----------------------------
(* The hash of getBackend over every digest key of at most MaxKeyLen      *)
(* characters of the key alphabet: the FNV-1a limb arithmetic is checked  *)
(* on every such key against a reference formulation.  Then the           *)
(* FindMissing fan-out of ShardingBlobAccess runs on the configured    *)
(* shape: the two stages share one run and do not multiply their states.  *)
EXTENDS MCShardingBlobAccess

CONSTANTS
    KeyBytes,   \* byte values keys are made of
    MaxKeyLen   \* longest key enumerated

MCKeyBytes == (48..58) \cup (97..102)

VARIABLES key, stage

RoutingInit ==
    /\ Init
    /\ key = <<>>
    /\ stage = "route"

ExtendKey ==
    /\ Len(key) < MaxKeyLen
    /\ \E c \in KeyBytes : key' = Append(key, c)

\* The routing stage ends; the store runs with the key reset.
BeginStore ==
    /\ stage' = "store"
    /\ key' = <<>>
    /\ UNCHANGED vars

RoutingNext ==
    \/ stage = "route" /\ ExtendKey /\ UNCHANGED <<vars, stage>>
    \/ stage = "route" /\ BeginStore
    \/ stage = "store" /\ Next /\ UNCHANGED <<key, stage>>

KeyHash == Fnv1a(HashInit, key)

allvars == <<vars, key, stage>>

\* The routing stage is followed by the store stage, in which the
\* fan-out's goroutines and join run (ShardingBlobAccess's Fairness).
RoutingSpec ==
    /\ RoutingInit /\ [][RoutingNext]_allvars
    /\ WF_allvars(stage = "route" /\ BeginStore)
    /\ \A s \in Slots : WF_allvars(stage = "store" /\ Goroutine(s) /\ UNCHANGED <<key, stage>>)
    /\ WF_allvars(stage = "store" /\ Receive /\ UNCHANGED <<key, stage>>)

\* The limb arithmetic computes FNV-1a modulo 2^64 as getBackend's loop
\* does: on every key the hash is a 64-bit word (eight 8-bit limbs) equal
\* to the shift-and-add formulation, and the published FNV-1a 64 values of
\* "a" (0xaf63dc4c8601ec8c) and "foobar" (0x85944171f73967e8), which
\* exercise the wrap-around of h *= 1099511628211, come out.
HashMatchesReference ==
    /\ KeyHash \in Word
    /\ KeyHash = RefFnv1a(HashInit, key)
    /\ Fnv1a(OffsetBasis, <<97>>) = Word16(\hec8c, \h8601, \hdc4c, \haf63)
    /\ Fnv1a(OffsetBasis, <<102, 111, 111, 98, 97, 114>>)
           = Word16(\h67e8, \hf739, \h4171, \h8594)

=============================================================================
