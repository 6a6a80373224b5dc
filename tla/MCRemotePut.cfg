CONSTANTS
    d1 = d1
    d2 = d2
    Digests <- MCDigests
SPECIFICATION Spec

INVARIANT PutOkMeansStored
