\* The back ends in the source tree: remoteBlobAccess and
\* contentAddressableStorageBlobAccess answer Delete with Unimplemented.
CONSTANTS
    d1 = d1
    b0 = b0
    b1 = b1
    c1 = c1
    c2 = c2
    Absent = Absent
    Malformed = Malformed
    Digests <- MCDigests
    Bytes <- MCBytes
    Content <- MCContent
    Clients <- MCClients
    Garbage <- MCGarbage
    MaxLen = 3
    ReadChunkSize = 2
    MaxCorruptions = 2
    LeafDeletes = FALSE

SPECIFICATION Spec
SYMMETRY MCSymmetry
PROPERTY CorruptBlobReportedMissing
