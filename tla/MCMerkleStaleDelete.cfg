\* A leaf with a working Delete: a stale invalidation removes a good upload.
CONSTANTS
    d1 = d1
    b0 = b0
    b1 = b1
    c1 = c1
    c2 = c2
    Absent = Absent
    Malformed = Malformed
    Digests <- MCDigests
    Bytes <- MCBytes
    Content <- MCContent
    Clients <- MCClients
    Garbage <- MCGarbage
    MaxLen = 3
    ReadChunkSize = 2
    MaxCorruptions = 2
    LeafDeletes = TRUE

SPECIFICATION Spec
SYMMETRY MCSymmetry
INVARIANT UploadedBlobsStay
