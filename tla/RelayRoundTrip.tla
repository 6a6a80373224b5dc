---------------------------- MODULE RelayRoundTrip ----------------------------
(***************************************************************************)
(* The gRPC CAS relay writing a blob to a ByteStream server and reading it *)
(* back: one ByteStreamWrite, and once both sides report success, one     *)
(* ByteStreamRead of what the server's Put stored.  Each transfer is       *)
(* shown to implement BlobTransfer, the read with the blob the relay       *)
(* wrote as its data, so the round trip hands back exactly what was        *)
(* written or fails.  The relay names the digest in both requests with    *)
(* the resource-name formats, which the server parses back.               *)
(***************************************************************************)
EXTENDS Naturals, Sequences

CONSTANTS Blobs, ChunkSize, ServerBuf, ReadChunkSize, ClientBuf,
          Instances, Hashes, Sizes, Uuids, HashLengths

VARIABLES
    stage,                                              \* "write" or "read"
    digest, uuid,                                       \* the request's digest
    src, cpos, coff, wcphase, wwire, closed, cancelled, \* the write
    sphase, soff, sdata, room, wgot,
    blob, spos, status, rwire, rcphase, partial, rgot   \* the read

wvars == <<src, cpos, coff, wcphase, wwire, closed, cancelled, sphase, soff,
           sdata, room, wgot>>
rvars == <<blob, spos, status, rwire, rcphase, partial, rgot>>
vars == <<stage, digest, uuid, wvars, rvars>>

W == INSTANCE ByteStreamWrite WITH cphase <- wcphase, wire <- wwire, got <- wgot
R == INSTANCE ByteStreamRead WITH wire <- rwire, cphase <- rcphase, got <- rgot
N == INSTANCE ResourceNameFormat

Init ==
    /\ stage = "write"
    /\ digest \in [instance : Instances, hash : Hashes, size : Sizes]
    /\ uuid \in Uuids
    /\ W!Init
    /\ blob = <<>> /\ spos = 0 /\ status = "none" /\ rwire = <<>>
    /\ rcphase = "get" /\ partial = <<>> /\ rgot = <<>>

WriteStep(A) == stage = "write" /\ A /\ UNCHANGED <<stage, digest, uuid, rvars>>
ReadStep(A) == stage = "read" /\ A /\ UNCHANGED <<stage, digest, uuid, wvars>>

\* The relay's caller reads the digest back after its Put returned nil;
\* the server reads what its Put stored.
BeginRead ==
    /\ stage = "write" /\ wcphase = "ok"
    /\ stage' = "read"
    /\ blob' = wgot
    /\ UNCHANGED <<digest, uuid, wvars, spos, status, rwire, rcphase, partial, rgot>>

Next ==
    \/ WriteStep(W!ClientSend \/ W!ClientRecv \/ W!Cancel \/ W!ServerWrite
                 \/ W!StartRead \/ W!ReaderStep)
    \/ BeginRead
    \/ ReadStep(R!ServerRead \/ R!ClientGet \/ R!ClientRead)

\* The fairness of ByteStreamWrite and ByteStreamRead, and the caller
\* goes on to read.
Spec == Init /\ [][Next]_vars
        /\ WF_vars(WriteStep(W!ClientSend)) /\ WF_vars(WriteStep(W!ClientRecv))
        /\ WF_vars(WriteStep(W!Cancel)) /\ WF_vars(WriteStep(W!ServerWrite))
        /\ WF_vars(WriteStep(W!StartRead)) /\ WF_vars(WriteStep(W!ReaderStep))
        /\ WF_vars(BeginRead)
        /\ WF_vars(ReadStep(R!ServerRead)) /\ WF_vars(ReadStep(R!ClientGet))
        /\ WF_vars(ReadStep(R!ClientRead))

-----------------------------------------------------------------------------
(* Refinement mappings.                                                    *)

\* The write as the server's Put sees it: the bytes Put has read, and Put's
\* outcome (io.EOF after the half-close stores the blob).
WriteResult == CASE sphase = "ok" -> "ok"
                 [] sphase \in {"error", "offset"} -> "error"
                 [] OTHER -> "open"

\* The read as the relay's consumer sees it: the bytes Read returned, and
\* io.EOF or an error; a panicking Get hands over nothing more.
ReadResult == CASE rcphase = "eof" -> "ok"
                [] rcphase \in {"failed", "getfailed"} -> "error"
                [] OTHER -> "open"

WriteTransfer == INSTANCE BlobTransfer WITH data <- src, out <- wgot, result <- WriteResult
ReadTransfer == INSTANCE BlobTransfer WITH data <- src, out <- rgot, result <- ReadResult

-----------------------------------------------------------------------------
\* The names the relay sends (part_002 Put and Get) and what the server's
\* parsers make of them (part_000).
WriteDigest == N!ParseWrite(N!WriteName(digest.instance, uuid, digest.hash, digest.size))
ReadDigest == N!ParseRead(N!ReadName(digest.instance, digest.hash, digest.size))

TypeOK ==
    /\ stage \in {"write", "read"}
    /\ W!TypeOK
    /\ R!TypeOK

\* The server's Put reads the relay's source as a stream that grows by
\* whole prefixes, however the relay's source and the server's buffers cut
\* it, and stores only the whole source.
WriteImplementsTransfer == WriteTransfer!Spec

\* What the relay's consumer reads back is a growing prefix of the blob the
\* relay wrote, and io.EOF comes only once all of it was read: the blob
\* survives Put's reader, the server's read chunks and the relay's eager
\* first Recv and partial buffer.
ReadImplementsTransfer == ReadTransfer!Spec

\* Both requests of the round trip name the same blob to the server: the
\* write name and the read name the relay formats for a valid digest
\* (instance without "/", lower-case hex hash of a recognized length,
\* size >= 0) parse back to that digest and pass validateDigest.
NamesRoundTrip ==
    /\ WriteDigest = digest /\ N!ValidDigest(WriteDigest)
    /\ ReadDigest = digest /\ N!ValidDigest(ReadDigest)

\* No offset mismatch, and the relay's Put succeeds only if the server's did.
RelayWriteFaithful == W!RelayWriteFaithful

\* Every round trip ends: the write fails on one side or the other, or the
\* read reaches io.EOF, an error or a failed Get.
RoundTripTerminates ==
    <>(\/ W!Terminated /\ wcphase # "ok"
       \/ rcphase \in R!Terminal)

\* The relay's Get of a blob it has just written never dereferences a nil
\* chunk (spec 8, scenario 1: the empty blob reads back as 0 bytes).
GetNeverPanics == R!GetNeverPanics
=============================================================================
