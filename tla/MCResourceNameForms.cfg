CONSTANTS
    Instances <- MCInstances
    Hashes <- MCHashes
    Sizes <- MCSizes
    Uuids <- MCUuids
    HashLengths <- MCHashLengths
    MaxName = 6
INIT Init
NEXT Next

INVARIANT DocumentedFormsOnly
\* Each name is parsed once; the run ends there.
CHECK_DEADLOCK FALSE
