CONSTANTS
    b0 = b0
    b1 = b1
    Blobs <- MCBlobs
    ChunkSize = 2
    ServerBuf = 2
    ReadChunkSize = 3
    ClientBuf = 2
    Instances <- MCInstances
    Hashes <- MCHashes
    Sizes <- MCSizes
    Uuids <- MCUuids
    HashLengths <- MCHashLengths
SPECIFICATION Spec
INVARIANT TypeOK
INVARIANT NamesRoundTrip
INVARIANT RelayWriteFaithful
PROPERTY WriteImplementsTransfer
PROPERTY ReadImplementsTransfer
PROPERTY RoundTripTerminates
\* A round trip ends: every process stops once both streams are over.
CHECK_DEADLOCK FALSE
