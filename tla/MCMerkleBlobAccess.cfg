\* Leaf with a working Delete (the in-memory and on-disk back ends of the
\* spec): the integrity layer's guarantees.
CONSTANTS
    d1 = d1
    b0 = b0
    b1 = b1
    c1 = c1
    c2 = c2
    Absent = Absent
    Malformed = Malformed
    Digests <- MCDigests
    Bytes <- MCBytes
    Content <- MCContent
    Clients <- MCClients
    Garbage <- MCGarbage
    MaxLen = 3
    ReadChunkSize = 2
    MaxCorruptions = 2
    LeafDeletes = TRUE

SPECIFICATION Spec
SYMMETRY MCSymmetry
INVARIANT TypeOK
INVARIANT IntegrityVerdict
INVARIANT StoredBlobsVerified
