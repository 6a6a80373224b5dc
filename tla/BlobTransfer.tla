----------------------------- MODULE BlobTransfer -----------------------------
(***************************************************************************)
(* What a ByteStream transfer promises the side that consumes it (spec     *)
(* 4.9, 8): the bytes handed over are a growing prefix of the blob; the    *)
(* transfer succeeds only once the whole blob has been handed over, and    *)
(* may fail at any point before.  Chunk boundaries are invisible here:     *)
(* one step hands over any number of further bytes, and the last bytes     *)
(* may come with the end of the transfer.                                  *)
(***************************************************************************)
EXTENDS Naturals, Sequences

CONSTANT Blobs

VARIABLES
    data,       \* the blob being transferred
    out,        \* the bytes handed over so far
    result      \* "open", "ok" or "error"

Init ==
    /\ data \in Blobs
    /\ out = <<>>
    /\ result = "open"

\* The prefixes of the blob that extend what was handed over.
Further == {SubSeq(data, 1, n) : n \in Len(out)..Len(data)}

Deliver ==
    /\ result = "open"
    /\ out' \in Further \ {out}
    /\ UNCHANGED <<data, result>>

Complete ==
    /\ result = "open"
    /\ out' = data
    /\ result' = "ok"
    /\ UNCHANGED data

Fail ==
    /\ result = "open"
    /\ out' \in Further
    /\ result' = "error"
    /\ UNCHANGED data

Next == Deliver \/ Complete \/ Fail

Spec == Init /\ [][Next]_<<data, out, result>>
=============================================================================
