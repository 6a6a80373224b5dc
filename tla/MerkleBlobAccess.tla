--------------------------- MODULE MerkleBlobAccess ---------------------------
(***************************************************************************)
(* The integrity adapter (pkg/blobstore/merkle_blob_access.go) between the *)
(* ByteStream edge (byteStreamServer.Read/Write) and a leaf back end.       *)
(*                                                                         *)
(* Each client runs one RPC at a time.  A Get opens the leaf (which         *)
(* snapshots the stored value, as redisBlobAccess.Get does with           *)
(* Get(key).Bytes()) and then pulls it through a checksumValidatingReader  *)
(* one Read at a time, forwarding every chunk to the ByteStream client.    *)
(* A Put streams the client's bytes through the same reader into the       *)
(* leaf, which buffers them (ioutil.ReadAll) and stores them only if no    *)
(* Read failed.  Data corruption in the leaf is an environment step.       *)
(*                                                                         *)
(* A blob is a short sequence of byte values.  The expected checksum of a  *)
(* digest d is represented by the blob Content[d] it names: SHA-256 is     *)
(* treated as collision free, so "the running hash equals the expected    *)
(* hash" is "the bytes read equal Content[d]".                             *)
(***************************************************************************)
EXTENDS Integers, Sequences, SequencesExt

CONSTANTS
    Digests,        \* digests clients use; all pass validateDigest
    Bytes,          \* byte values
    Content,        \* Content[d]: the blob whose SHA-256 and size form d
    MaxLen,         \* longest blob a leaf or an uploader can hold
    Garbage,        \* wrong values a client may upload or a leaf may hold
    ReadChunkSize,  \* byteStreamServer.readChunkSize
    Clients,        \* concurrent RPCs (one outstanding RPC per client)
    MaxCorruptions, \* bound on corruption events in the leaf
    LeafDeletes,    \* TRUE iff the leaf implements Delete
    Absent,         \* model value: no blob stored under the key
    Malformed       \* model value: a digest validateDigest rejects

ASSUME /\ Content \in [Digests -> BoundedSeq(Bytes, MaxLen)]
       /\ Garbage \subseteq BoundedSeq(Bytes, MaxLen)
       /\ \A d \in Digests : Content[d] \notin Garbage
       /\ ReadChunkSize \in Nat \ {0}
       /\ MaxCorruptions \in Nat
       /\ LeafDeletes \in BOOLEAN

\* The values that can be streamed or stored under a key.
Blobs == {Content[d] : d \in Digests} \cup Garbage

\* digest.SizeBytes
Size(d) == Len(Content[d])

VARIABLES
    stored,       \* the leaf: key -> value
    pc,           \* per client: "idle", "get" or "put"
    rd,           \* per client: the checksumValidatingReader of its RPC
    last,         \* per client: outcome of its last completed RPC
    corruptions,  \* corruption events so far
    rotten,       \* ghost: digests whose stored value was corrupted in place
    flagged,      \* ghost: digests a Get found corrupt, not re-uploaded since
    durable       \* ghost: digests last written by a successful Put

vars == <<stored, pc, rd, last, corruptions, rotten, flagged, durable>>

Reader == [d : Digests, src : Blobs \cup {Absent}, pos : 0..MaxLen,
           sizeLeft : 0..MaxLen]

Outcome == [op : {"none", "get", "put", "findmissing", "delete"},
            d : Digests \cup {Malformed},
            status : {"none", "OK", "NotFound", "Internal", "InvalidArgument",
                      "missing", "present", "Unimplemented", "Unavailable"},
            data : Blobs \cup {Absent}]

TypeOK ==
    /\ stored \in [Digests -> Blobs \cup {Absent}]
    /\ pc \in [Clients -> {"idle", "get", "put"}]
    /\ rd \in [Clients -> Reader]
    /\ last \in [Clients -> Outcome]
    /\ corruptions \in 0..MaxCorruptions
    /\ rotten \subseteq Digests
    /\ flagged \subseteq Digests
    /\ durable \subseteq Digests

-----------------------------------------------------------------------------
(* The wrapped reader.  One Read(p) of the leaf's stream returns n bytes   *)
(* and possibly io.EOF: EOF only once the rest of the value has been       *)
(* returned, and a Read that is not at EOF returns at least one byte.      *)
(* bytes.Buffer returns the last bytes and EOF separately, an HTTP body    *)
(* may return them together; both are allowed.                              *)
UnderlyingReads(r, limit) ==
    LET rem == Len(r.src) - r.pos
    IN {<<n, eof>> \in (0..IF limit < rem THEN limit ELSE rem) \X BOOLEAN :
            /\ eof => n = rem
            /\ ~eof => n >= 1}

\* Mutant: the size check of a Read lets one byte too many through.
ChecksumVerdictOffByOne(r, n, eof) ==
    CASE n > r.sizeLeft + 1 -> "longer"
      [] eof /\ r.sizeLeft - n > 0 -> "shorter"
      [] eof /\ SubSeq(r.src, 1, r.pos + n) # Content[r.d] -> "checksum"
      [] OTHER -> "ok"

\* Mutant: the final checksum comparison is left out.
ChecksumVerdictNoHash(r, n, eof) ==
    CASE n > r.sizeLeft -> "longer"
      [] eof /\ r.sizeLeft - n # 0 -> "shorter"
      [] OTHER -> "ok"

\* checksumValidatingReader.Read: the checks made on a Read that returned n
\* bytes; anything but "ok" calls the invalidator and fails the Read.
ChecksumVerdict(r, n, eof) ==
    CASE n > r.sizeLeft -> "longer"
      [] eof /\ r.sizeLeft - n # 0 -> "shorter"
      [] eof /\ SubSeq(r.src, 1, r.pos + n) # Content[r.d] -> "checksum"
      [] OTHER -> "ok"

\* The reader after a successful Read of n bytes: sizeLeft -= nLen.
Advance(r, n) == [r EXCEPT !.pos = @ + n, !.sizeLeft = @ - n]

NewReader(d, src) == [d |-> d, src |-> src, pos |-> 0, sizeLeft |-> Size(d)]

NoReader == NewReader(CHOOSE d \in Digests : TRUE, Absent)

\* The RPC of client c returns; its reader is closed and dropped.
Finish(c, op, d, status, data) ==
    /\ pc' = [pc EXCEPT ![c] = "idle"]
    /\ rd' = [rd EXCEPT ![c] = NoReader]
    /\ last' = [last EXCEPT ![c] = [op |-> op, d |-> d, status |-> status,
                                    data |-> data]]

-----------------------------------------------------------------------------
(* Back-end Delete, called by the read-side invalidator and by Delete.     *)

\* The invalidator closure of merkleBlobAccess.Get: ba.blobAccess.Delete of
\* the digest, whatever the key holds now.  remoteBlobAccess.Delete and
\* contentAddressableStorageBlobAccess.Delete return Unimplemented and
\* change nothing; an in-memory or on-disk leaf removes the key.
Invalidate(d) ==
    IF LeafDeletes
    THEN /\ stored' = [stored EXCEPT ![d] = Absent]
         /\ rotten' = rotten \ {d}
    ELSE UNCHANGED <<stored, rotten>>

-----------------------------------------------------------------------------
(* ByteStream Read of digest d: merkleBlobAccess.Get wraps the leaf's      *)
(* reader, whose value is fixed when the leaf is opened.                   *)
StartGet(c, d) ==
    /\ pc[c] = "idle"
    /\ pc' = [pc EXCEPT ![c] = "get"]
    /\ rd' = [rd EXCEPT ![c] = NewReader(d, stored[d])]
    /\ UNCHANGED <<stored, last, corruptions, rotten, flagged, durable>>

\* The leaf returned an errorReader (NotFound): the first Read fails and
\* byteStreamServer.Read returns the error.
GetNotFound(c) ==
    /\ pc[c] = "get"
    /\ rd[c].src = Absent
    /\ Finish(c, "get", rd[c].d, "NotFound", Absent)
    /\ UNCHANGED <<stored, corruptions, rotten, flagged, durable>>

\* The leaf's Get fails with an error other than redis.Nil (the Redis
\* server unreachable or timing out): the errorReader's first Read fails
\* and byteStreamServer.Read returns that error.
GetUnavailable(c, d) ==
    /\ pc[c] = "idle"
    /\ Finish(c, "get", d, "Unavailable", Absent)
    /\ UNCHANGED <<stored, corruptions, rotten, flagged, durable>>

\* One iteration of the loop in byteStreamServer.Read: r.Read(readBuf),
\* which is checksumValidatingReader.Read over the leaf's reader, then
\* Send of the n bytes read, then return on EOF.  The bytes sent are the
\* bytes read, so they are not kept separately.
GetRead(c) ==
    LET r == rd[c] IN
    /\ pc[c] = "get"
    /\ r.src # Absent
    /\ \E nr \in UnderlyingReads(r, ReadChunkSize) :
        LET n == nr[1]
            eof == nr[2]
            verdict == ChecksumVerdict(r, n, eof)
        IN
        CASE verdict # "ok" ->
                /\ Invalidate(r.d)
                /\ flagged' = flagged \cup {r.d}
                /\ Finish(c, "get", r.d, "Internal", r.src)
                /\ UNCHANGED <<corruptions, durable>>
          [] eof ->
                /\ Finish(c, "get", r.d, "OK", r.src)
                /\ UNCHANGED <<stored, corruptions, rotten, flagged, durable>>
          [] OTHER ->
                /\ rd' = [rd EXCEPT ![c] = Advance(r, n)]
                /\ UNCHANGED <<stored, pc, last, corruptions, rotten, flagged,
                               durable>>

-----------------------------------------------------------------------------
(* ByteStream Write of digest d carrying the bytes data: merkleBlobAccess   *)
(* .Put wraps the request stream in a checksumValidatingReader whose       *)
(* invalidator does nothing, and hands it to the leaf.                     *)
StartPut(c, d) ==
    /\ pc[c] = "idle"
    /\ \E data \in Blobs :
        /\ pc' = [pc EXCEPT ![c] = "put"]
        /\ rd' = [rd EXCEPT ![c] = NewReader(d, data)]
    /\ UNCHANGED <<stored, last, corruptions, rotten, flagged, durable>>

\* Redis applies the Set of the buffered value under key d.
Set(d, v) ==
    /\ stored' = [stored EXCEPT ![d] = v]
    /\ rotten' = rotten \ {d}
    /\ flagged' = flagged \ {d}

\* A Set whose reply reached Put: the Put succeeds.
Store(d, v) == Set(d, v) /\ durable' = durable \cup {d}

\* Mutant: the leaf stores what it buffered even when a Read failed.
PutReadIgnoringError(c) ==
    LET r == rd[c] IN
    /\ pc[c] = "put"
    /\ \E nr \in UnderlyingReads(r, MaxLen) :
        CASE ChecksumVerdict(r, nr[1], nr[2]) # "ok" \/ nr[2] ->
                /\ Store(r.d, r.src)
                /\ Finish(c, "put", r.d, "OK", r.src)
                /\ UNCHANGED corruptions
          [] OTHER ->
                /\ rd' = [rd EXCEPT ![c] = Advance(r, nr[1])]
                /\ UNCHANGED <<stored, pc, last, corruptions, rotten,
                               flagged, durable>>

\* One Read made by ioutil.ReadAll inside redisBlobAccess.Put.  A failed
\* Read makes Put return the error and nothing is stored; at EOF the value
\* is stored with Set, whose error Put returns: the connection may fail
\* before Redis applied the Set or after, so a failed Put may have stored.
PutRead(c) ==
    LET r == rd[c] IN
    /\ pc[c] = "put"
    /\ \E nr \in UnderlyingReads(r, MaxLen) :
        LET n == nr[1]
            eof == nr[2]
            verdict == ChecksumVerdict(r, n, eof)
        IN
        CASE verdict # "ok" ->
                /\ Finish(c, "put", r.d, "InvalidArgument", r.src)
                /\ UNCHANGED <<stored, corruptions, rotten, flagged, durable>>
          [] eof ->
                \/ /\ Store(r.d, r.src)
                   /\ Finish(c, "put", r.d, "OK", r.src)
                   /\ UNCHANGED corruptions
                \/ /\ Finish(c, "put", r.d, "Unavailable", r.src)
                   /\ \/ Set(r.d, r.src) /\ UNCHANGED durable
                      \/ UNCHANGED <<stored, rotten, flagged, durable>>
                   /\ UNCHANGED corruptions
          [] OTHER ->
                /\ rd' = [rd EXCEPT ![c] = Advance(r, n)]
                /\ UNCHANGED <<stored, pc, last, corruptions, rotten,
                               flagged, durable>>

-----------------------------------------------------------------------------
(* Delete of digest d: merkleBlobAccess.Delete validates the digest (every *)
(* digest of the model is valid) and returns the leaf's Delete, whose      *)
(* effect is the invalidator's.  A removed blob is no longer a successful  *)
(* upload.                                                                 *)
Delete(c, d) ==
    /\ pc[c] = "idle"
    /\ Invalidate(d)
    /\ Finish(c, "delete", d, IF LeafDeletes THEN "OK" ELSE "Unimplemented", Absent)
    /\ durable' = IF LeafDeletes THEN durable \ {d} ELSE durable
    /\ UNCHANGED <<corruptions, flagged>>

-----------------------------------------------------------------------------
(* FindMissing of one digest: merkleBlobAccess.FindMissing validates it    *)
(* and asks the leaf, whose pipelined EXISTS reports the keys it does not  *)
(* hold, or fails as a whole.                                              *)
FindMissing(c, d) ==
    /\ pc[c] = "idle"
    /\ \/ Finish(c, "findmissing", d,
                 IF stored[d] = Absent THEN "missing" ELSE "present", stored[d])
       \/ Finish(c, "findmissing", d, "Unavailable", Absent)
    /\ UNCHANGED <<stored, corruptions, rotten, flagged, durable>>

\* An RPC on a digest that fails validateDigest (hash length, upper-case
\* or non-hex characters, negative size): Get returns an errorReader whose
\* first Read fails, Put closes the stream and returns, Delete and
\* FindMissing return the error; the leaf is never called.
Rejected(c, op) ==
    /\ pc[c] = "idle"
    /\ Finish(c, op, Malformed, "InvalidArgument", Absent)
    /\ UNCHANGED <<stored, corruptions, rotten, flagged, durable>>

\* The leaf's copy of d changes under its key (media or transport
\* corruption, or a back end returning the wrong object).
Corrupt(d) ==
    /\ stored[d] # Absent
    /\ corruptions < MaxCorruptions
    /\ \E v \in Garbage \ {stored[d]} : stored' = [stored EXCEPT ![d] = v]
    /\ corruptions' = corruptions + 1
    /\ rotten' = rotten \cup {d}
    /\ durable' = durable \ {d}
    /\ UNCHANGED <<pc, rd, last, flagged>>

-----------------------------------------------------------------------------
Init ==
    /\ stored = [d \in Digests |-> Absent]
    /\ pc = [c \in Clients |-> "idle"]
    /\ rd = [c \in Clients |-> NoReader]
    /\ last = [c \in Clients |-> [op |-> "none", d |-> CHOOSE d \in Digests : TRUE,
                                  status |-> "none", data |-> Absent]]
    /\ corruptions = 0
    /\ rotten = {}
    /\ flagged = {}
    /\ durable = {}

Next ==
    \/ \E c \in Clients :
        \/ \E d \in Digests : StartGet(c, d) \/ StartPut(c, d) \/ FindMissing(c, d)
                           \/ Delete(c, d)
                           \/ GetUnavailable(c, d)
        \/ \E op \in {"get", "put", "findmissing", "delete"} : Rejected(c, op)
        \/ GetNotFound(c)
        \/ GetRead(c)
        \/ PutRead(c)
    \/ \E d \in Digests : Corrupt(d)

Spec == Init /\ [][Next]_vars

-----------------------------------------------------------------------------
(* Properties                                                              *)

\* The verdict of the integrity layer is exact, for reads and for writes:
\* an RPC that streamed a value succeeds iff the value is the blob the
\* digest names (a successful ByteStream Read has sent the client all of
\* it).  (checksumValidatingReader.Read's size and checksum
\* checks, over every way the leaf and the client can chunk the stream.)
IntegrityVerdict ==
    \A c \in Clients :
        LET o == last[c] IN
        o.op \in {"get", "put"} /\ o.d # Malformed
          /\ o.status \in {"OK", "Internal", "InvalidArgument"}
            => (o.status = "OK" <=> o.data = Content[o.d])

\* Every value in the leaf that differs from the blob its digest names was
\* put there by corruption in the leaf, never by a Put: the leaf only
\* stores what passed merkleBlobAccess.Put's checks.
StoredBlobsVerified ==
    \A d \in Digests :
        stored[d] \notin {Absent, Content[d]} => d \in rotten

\* Once a Get has detected that d is corrupt, FindMissing never reports d
\* as present until a good copy is uploaded again: the invalidator's Delete
\* is what makes clients re-upload (comment in merkleBlobAccess.Get).
CorruptBlobReportedMissing ==
    [][\A c \in Clients, d \in Digests :
          FindMissing(c, d) /\ d \in flagged => last'[c].status # "present"]_vars

\* A blob whose upload succeeded stays readable until the leaf itself
\* corrupts or evicts it (spec section 8: a successful Put(D, B) is
\* followed by Gets yielding B).
UploadedBlobsStay ==
    \A d \in durable : stored[d] = Content[d]

=============================================================================
