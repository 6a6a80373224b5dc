# TLA+ models of the bazel-buildbarn blob storage core

This directory holds TLA+ modules, TLC configurations and a manifest
(`PROJECT.json`) for the blob-storage core of bazel-buildbarn: the stack of
`BlobAccess` decorators that every CAS and Action Cache request goes through.
Every definition is translated from the Go source under `src/`; `PROJECT.json`
"map" names the lines each definition stands for.

## 1. Inventory

### Components, their state and operations

| Component | Source | State | Operations |
|---|---|---|---|
| Integrity (Merkle) adapter | `pkg/blobstore/merkle_blob_access.go` | none of its own; per stream a `checksumValidatingReader` (running hash, `sizeLeft`, invalidator, error code) | `validateDigest`, `Get`, `Put`, `Delete`, `FindMissing`, `checksumValidatingReader.Read` |
| ByteStream server (gRPC edge) | `src/unnamed/part_000` | per Write stream a `byteStreamWriteServerReader` (expected write offset, leftover chunk) | `parseResourceNameRead/Write`, `Read` (read-send loop), `Write`, `QueryWriteStatus` (Unimplemented) |
| Redis back end | `src/unnamed/part_001` | the Redis key space | `Get` (loads the whole value), `Put` (ReadAll, then Set), `FindMissing` (pipelined EXISTS) |
| gRPC CAS relay back end | `src/unnamed/part_002` | per Get stream the leftover of the last chunk | `Get` (eager first Recv), `Put` (chunked Send with write offsets, FinishWrite), `Delete` (Unimplemented), `FindMissing` (one instance per request) |
| HTTP remote-cache back end | `pkg/blobstore/remote_blob_access.go` | the remote cache | `Get` (GET), `Put` (PUT with Content-Length, streamed), `Delete` (Unimplemented), `FindMissing` (one HEAD per digest, first error aborts) |
| Sharding adapter | `pkg/blobstore/sharding/sharding_blob_access.go` | immutable back-end list with drained (nil) slots | `getBackend` (FNV-1a 64 over the digest key, selector with drained skip), `Get/Put/Delete` routed, `FindMissing` fan-out with one goroutine per back end and a join keeping the last error |
| Action cache over blob access | `cmd/bbb_runner/main.go` (third file) | none (modelled in `WorkerLoop`) | `GetActionResult` (ReadAll, Unmarshal), `PutActionResult` (Marshal, Put) |
| Worker wiring and action loop | `cmd/bbb_runner/main.go` (second file) | per worker a batched writer and flusher | composes the stack; each worker loops `subscribeAndExecute` with a 3 s retry |
| Runner process | `cmd/bbb_runner/main.go` (first file) | build directory | serves the runner gRPC service |

### How they interact

A Bazel client talks to the ByteStream server. `Read` parses the resource name,
calls `Get` on the integrity adapter, and loops: `Read` a chunk from the stream,
`Send` it, stop at EOF or on an error. The integrity adapter wraps the leaf's
reader in a `checksumValidatingReader` that hashes and counts every byte; on a
size or checksum mismatch it calls its invalidator, which for reads is a
`Delete` of the digest on the wrapped store. `Write` hands the request stream,
wrapped in `byteStreamWriteServerReader` (which checks write offsets), to `Put`;
the integrity adapter wraps it in a `checksumValidatingReader` with a no-op
invalidator and passes it to the leaf, which pulls it to EOF. The sharding
adapter sits between the integrity adapter and several leaves and routes each
digest to one of them; its `FindMissing` asks all relevant leaves concurrently.
The gRPC CAS relay leaf is itself a ByteStream client of another server running
this same code.

### What is hard

* **Streams.** Bytes arrive in chunks of any size; EOF may come with the last
  bytes or on a separate Read. The integrity verdict must not depend on it.
* **Concurrency.** Many RPCs on the same digest run at once: a Get may stream a
  copy that a concurrent Put or Delete has already replaced; the invalidator's
  Delete runs long after its Get opened the leaf.
* **Failures.** Corruption in a leaf; back ends that do not implement Delete;
  one shard of a fan-out failing while others succeed; a Put that fails
  half-way.
* **Arithmetic edges.** FNV-1a wraps modulo 2^64; sizes at zero and at the
  exact expected size; zero-length streams between relay and server.

### Properties that make each component correct

* Integrity adapter: a read or write succeeds iff the bytes are exactly the blob
  the digest names; the leaf only ever holds verified blobs (or blobs that
  rotted in place); a detected corruption makes FindMissing report the digest
  missing so clients re-upload; a good upload is not lost to a stale
  invalidation.
* Sharding: FNV-1a computes the published function (which slot a drained
  slot's digests move to is the selector's, not in the source tree);
  FindMissing's join reports an error
  whenever a shard failed and otherwise exactly the absent digests.
* ByteStream and relay: every stream the relay client produces is accepted by
  the server's offset checks; a relay read of any blob, the empty blob
  included, completes; resource names parse exactly the two documented forms;
  a written blob reads back unchanged.
* Worker loop: no action is lost or duplicated across stream failures and
  crashes, and every action is eventually answered. (A restarted worker
  must not trust files a crashed one left in its cache directory; main does
  this with one RemoveAllChildren call, modelled in `Start`, and no
  property is spent on restating it.)
* Action cache: a result in the action cache, and a successful response,
  only names outputs the CAS holds.

## 2. Plan

Modules, in the order they were built (most important behaviour first):

1. `MerkleBlobAccess` (done): integrity adapter between the ByteStream
   Read/Write handlers and a leaf, with concurrent clients, leaf corruption,
   client Delete and the invalidator.
2. `Fnv1a` (done, pure): FNV-1a 64 on 8-bit limbs, checked against a second
   formulation and the published test vectors.
3. `ShardingBlobAccess` (done): `getBackend` and the `FindMissing` fan-out.
4. `ByteStreamRead`, `ByteStreamWrite` (done): the CAS relay client
   (`part_002`) and the ByteStream server (`part_000`) over ordered gRPC
   streams.
5. `ResourceNameFormat`, `ResourceName` (done): the resource-name formats and
   parsers, and `validateDigest`.
6. `RemoteBlobAccess` (done): the HTTP back end.
7. `BlobTransfer` and `RelayRoundTrip` (done): an abstract specification of
   a blob transfer, and the composition of a relay Put followed by a relay
   Get of the same digest, each shown to implement it.
8. `WorkerLoop` (done): the worker's action loop against the scheduler, with
   transport failures, retries and crashes of the process, and the
   executor chain of `main.go` (local execution into the batched writer,
   action-cache publication, flush) as steps of each `Execute`.
9. Open: the hardlinking pool's single-flight fetch, the batched writer's
   capacity; the relay's mixed-instance check.

## 3. Modules and runs

### MerkleBlobAccess

State: `stored` (the leaf's key space), per client `pc`, `rd` (the
`checksumValidatingReader`: digest, the value being streamed, bytes consumed,
`sizeLeft`) and `last` (the outcome of its last RPC), and ghost variables
`rotten` (keys corrupted in place), `flagged` (keys a Get found corrupt and
not re-uploaded since) and `durable` (keys last written by a successful Put).

Actions: `StartGet` (merkleBlobAccess.Get opening the leaf, which snapshots
the value as redisBlobAccess.Get does), `GetNotFound`, `GetRead` (one
iteration of byteStreamServer.Read's loop, i.e. one
`checksumValidatingReader.Read` followed by Send), `StartPut`
(byteStreamServer.Write and merkleBlobAccess.Put), `PutRead` (one Read of
ioutil.ReadAll inside redisBlobAccess.Put, storing at EOF), `Delete`
(merkleBlobAccess.Delete: the leaf's Delete, OK or Unimplemented by
`LeafDeletes`), `FindMissing`, `GetUnavailable` (the Redis transport
failing a Get), `Rejected` (any of the four RPCs on a digest that
`validateDigest` rejects: InvalidArgument, the leaf untouched), and the environment step `Corrupt`. Redis answers every
command over a network: a Get, Put or FindMissing may end `Unavailable`,
and a Put's Set may fail after Redis applied it (the reply is lost), so a
Put that returns an error may or may not have stored the blob. `Set` is
Redis applying the Set; `Store` is a Set whose reply reached Put, which
then succeeds and makes the digest `durable`. `ChecksumVerdict` is the body of
`checksumValidatingReader.Read`; `Invalidate` is the read-side invalidator.

A blob is a short sequence of byte values. SHA-256 is treated as collision
free: the expected checksum of digest d is represented by the blob
`Content[d]`, and "hash of the bytes read equals the expected hash" is "the
bytes read equal `Content[d]`".

Runs (`MCMerkleBlobAccess` instantiates one digest naming a two-byte blob;
`Garbage` holds a same-size wrong blob, a one-byte and a three-byte blob; reads
of at most two bytes; two concurrent clients, symmetric; at most two
corruptions):

* `merkle_integrity` (pass, 1,303,963 states): leaf with a working Delete
  (the spec's in-memory and disk back ends). `IntegrityVerdict` and
  `StoredBlobsVerified` hold, including Puts whose Set was applied but
  whose reply was lost.
* `merkle_no_delete` (violation): the source tree's back ends answer Delete
  with Unimplemented; `CorruptBlobReportedMissing` fails: once a Get has found
  the blob corrupt, FindMissing still reports it present, so nobody re-uploads.
* `merkle_stale_delete` (violation): `UploadedBlobsStay` fails: a Get that
  opened a corrupt copy before a concurrent re-upload finished deletes the
  good copy.

Bounds: two clients are the fewest that can race a read against a re-upload;
blobs of up to three bytes with a two-byte read buffer give multi-chunk reads,
reads that overrun the expected size, short reads and same-size wrong reads;
two corruptions let a re-uploaded blob rot again.

Fairness: none; all properties of this module are safety properties.

### Fnv1a (pure)

`Fnv1a` holds the hash of `getBackend` (lines 31-36) as operators: a uint64
is eight 8-bit limbs, least significant first (TLC integers are 32-bit);
`XorByte` is `h ^= c`, `MulWord` (schoolbook product with `Normalize`
dropping the carry out of the top limb) is `h *= 1099511628211`, `Fnv1a`
folds `Fnv1aStep` over the key. `WordMod` reduces a hash modulo a small
number for the selector. It is checked in the `sharding` run
(`MCShardRouting`, which enumerates every key of up to two characters of the
digest-key alphabet, hex digits and `:`): `HashMatchesReference` says every
hash is a 64-bit word equal to a second formulation (the prime is
2^40 + 2^8 + 0xb3, so the product is a sum of shifted copies), and the
published FNV-1a 64 values of "a" and "foobar" come out.

### ShardingBlobAccess, MCShardingBlobAccess, MCShardRouting

State: `present[s]` (the digests back end s holds), the FindMissing caller's
`phase`, `req`, `pending` (goroutines not yet sent), `chan` (`resultsChan`),
`recv` (the join's `i`), `missing`, `err`, and ghosts `failed` (back ends
whose call failed) and `touched` (digests Put or Deleted since the call
began). Actions: `Put`, `Delete` (routed by `Home`, i.e. `getBackend` on the
configured shape), `StartFindMissing` (grouping, channel, goroutine start; an
empty request returns at once), `Goroutine(s)` (one `callFindMissing`, then a
send), `Receive` (one join iteration; the last one returns). The back ends
are relays, so the call's outcome is `BackendFindMissing`, the relay's
FindMissing (`part_002`): the requested digests the back end lacks, or an
error. `Route` is the selector loop of
`getBackend`; the ShardSelector is not in the source tree, so `Candidates`
(a deterministic probe from `h mod N`) is modelled from the spec.

`MCShardingBlobAccess`: three slots with slot 2 drained and three digests
whose FNV-1a keys (`0:0`, `c:1`, `a:1`) fall on slots 2 (skipped to 3), 1
and 3, so a request spans two back ends and one back end serves two digests.
`MCShardRouting` extends it with two stages: first it enumerates every key
of up to two characters (`stage = "route"`), then `BeginStore` clears the
key and the FindMissing protocol runs on the configured shape (`stage = "store"`), so the two
state spaces add instead of multiplying.

* `sharding` (pass, 10,229 states): `HashMatchesReference`; `JoinReportsFailure`
  (FindMissing errs iff some back end's call failed, in any arrival order),
  `FindMissingExact` (a requested digest untouched since the call began is
  reported missing iff its back end's call succeeded and the back end lacks
  it), and `FindMissingReturns` (every FindMissing that reaches the join
  returns: the join reads exactly one result per back end and every
  goroutine sends one). `TypeOK` includes the channel accounting: received
  + buffered + unsent = number of back ends.

Fairness: weak fairness of each goroutine and of `Receive` (they are
goroutines that run; the channel is buffered so no send blocks), and of
`BeginStore`. `Put` and `Delete` by other callers are not fair.

### ByteStreamRead, ByteStreamWrite, BlobTransfer and RelayRoundTrip

The relay back end (`part_002`) is a ByteStream client of
`byteStreamServer` (`part_000`) in another process; the gRPC stream is an
ordered, reliable sequence of messages ending in a status.

`ByteStreamWrite`: `ClientSend` is one iteration of the relay Put's loop
(a chunk at `writeOffset`, the FinishWrite chunk then half-close, or a
source error that abandons the stream); `ClientRecv` is CloseAndRecv;
`Cancel` is the caller's context ending after its Put failed; `ServerWrite`
is the server's first Recv; `StartRead` and `ReaderStep` (with
`ReaderReturn`, `ReaderRecv`) are one iteration of
`byteStreamWriteServerReader.Read`'s loop. A Read that must Recv while the
stream is empty and open blocks (the step is not enabled).

`ByteStreamRead`: `ServerRead` is one iteration of the server's Read loop
(its blob reader returns bytes, the rest with EOF, or an error); `ClientGet`
is the relay Get's eager first Recv; `ClientRead` is
`byteStreamBlobReader.Read` into a buffer of 1..`ClientBuf` bytes.

`BlobTransfer` is the abstract specification of one transfer of a blob
`data`: the receiver's view `out` only grows by prefixes of `data`, and the
transfer ends once, either `ok` with `out = data` or `error` with a prefix.
`RelayRoundTrip` composes one write and, after the relay's Put returned nil
(`BeginRead`), one read of what the server's Put stored. A `stage` variable
selects the active transfer; `WriteStep`/`ReadStep` keep the other's
variables unchanged. Refinement mappings: the write is a `BlobTransfer` of
the relay's source, seen through what the server's Put has read (`wgot`)
and Put's outcome (`WriteResult`); the read is a `BlobTransfer` of the same
source, seen through what the relay's consumer has read (`rgot`) and its
EOF or error (`ReadResult`). `N` instantiates `ResourceNameFormat` for the
names the relay sends.

`MCRelayRoundTrip`: sources of 0 to 4 bytes, relay chunks of 2, server
buffers of 2, server read chunks of 3, client buffers of 2 (so chunks are
split and joined on both legs); digests over instances none, `a`, `blobs`,
`uploads`, hashes `a` and `01`, sizes 0, 1, 10, 11.

* `relay_roundtrip` (pass, 33,984 states): `WriteImplementsTransfer` and
  `ReadImplementsTransfer` (the abstract `Spec` as PROPERTY under the two
  mappings: what the round trip hands back is exactly what was written, or
  it fails); `RelayWriteFaithful` (no offset is ever rejected; the relay
  succeeds only if the server did); `NamesRoundTrip` (the relay's write and
  read names parse back to the digest and validate); `RoundTripTerminates`;
  `TypeOK` includes conservation of bytes across buffers and wires.
* `relay_empty_blob` (violation): `GetNeverPanics` fails: for the empty blob
  the server sends no message, Recv returns (nil, io.EOF), Get lets EOF
  through and dereferences `chunk.Data` on the nil chunk (`part_002:85`).

Fairness: weak fairness of every step of both processes, and of
`BeginRead`. gRPC delivers messages of a live stream and both sides are
goroutines that run; the consumer of a reader keeps calling Read until EOF
or an error (ReadAll and the integrity adapter do). `Cancel` is weakly fair:
the relay's caller returns when its Put fails and its context (an RPC's)
then ends; without that, a server whose client abandoned the stream waits
in Recv for ever.

### ResourceNameFormat (pure), ResourceName and MCResourceName

Names are sequences of atoms (`/`, `blobs`, `uploads`, `a`, `A`, `0`, `1`,
`+`, `-`); `Fields` is `strings.FieldsFunc`, `IsInt`/`IntValue` are
`strconv.ParseInt`, `ParseRead`/`ParseWrite` the two parsers (Go's
`fields[i]` is `f[i+1]`), `ValidDigest` is `validateDigest` (hash length in
`HashLengths`, lower-case hex, size >= 0), `ReadName`/`WriteName` the relay's
`Sprintf` formats. These operators are `ResourceNameFormat`; `ResourceName`
adds a state machine that sends one name, either the relay's for a digest or
another client's built atom by atom, and the server parses it.

* `resource_name_forms` (violation, names up to 6 atoms):
  `DocumentedFormsOnly` fails: `/blobs/0/0` is accepted because FieldsFunc
  drops empty segments (a '+' sign on the size is accepted the same way).

### WorkerLoop and MCWorkerLoop

`WorkerLoop` models the worker's `main` and `subscribeAndExecute`
(`cmd/bbb_runner/main.go`, second file). State: per goroutine `pc` and the
request `req` it holds; the scheduler's `queue`, the actions left with
ended streams (`orphan`) and the `answered` ones; `failures`; the process
(`up`, `crashes`) and the cache directory (`disk`, which survives a crash)
against the hardlinking pool's in-memory view (`known`). Actions:
`GetWork`, `Recv`, `Parse` (browserURL.Parse; a failure returns from
`subscribeAndExecute`), `Execute`, `Publish`, `Flush`, `Send`, `Sleep` (the 3 s retry),
`GetActionResult` (a Bazel client's lookup of the action cache; a hit
records in the ghost `dangling` whether the CAS lacked one of its outputs),
`Crash`, `Start` (main clears the cache directory and starts the
goroutines). The scheduler is not in the source tree: it is modelled from
the spec as a FIFO queue whose `Requeue` puts back an action whose stream
ended without its response. The hardlinking pool is modelled from the spec
as one link-or-fetch of an input file per `Execute`.

The executor is the decorator chain `main` builds (`main.go:157-174`):
`NewStorageFlushingBuildExecutor(NewCachingBuildExecutor(NewLocalBuildExecutor(...)))`.
`Layers` lists the steps of one `Execute` call in the order the chain runs
them, and `After(p)` is the step that follows `p`: the local executor runs
the action and writes its outputs into the batched CAS writer (`batch`),
the caching executor then stores a successful result in the action cache
(`Publish`, `ac`), and only then does the outermost flusher write the batch
to the CAS (`Flush`, `cas`); a flush that stores only part of the batch
turns the response into an error. `resp` is the response being built and
`okay` the actions answered with success. The batched writer and the
flusher are not in the source tree and are modelled from the spec
(`Flush` is spec-modelled). `Out[a]` is the set of output blobs of action
`a`.
`MCWorkerLoop`: two goroutines, three actions of which one (`p1`) has an
instance name that does not parse, two input files, two output blobs
(`a1` writes `o1`, `a2` writes `o1` and `o2`, so the batch of one goroutine
can hold blobs another needs), at most two transport failures and one
crash.

* `worker_loop` (pass, 517,804 states): `ActionsAccounted` (every action is
  in exactly one place across stream failures and crashes: queued once,
  held, orphaned or answered); `ValidActionsAnswered`
  (every action whose URL parses is eventually answered);
  `SuccessfulResponsesStored` (an action answered with success has all its
  outputs in the CAS, across partial flushes and crashes).
* `worker_poison_action` (violation): `EveryActionAnswered` fails: an
  action whose URL does not parse makes `subscribeAndExecute` return after
  it was received (`main.go:207`); the stream ends, the scheduler requeues
  it, and the next worker to receive it fails the same way, for ever.
* `worker_publish_before_flush` (violation): `ActionResultsUsable` (a
  client's `GetActionResult` never returns a result whose outputs the CAS
  lacks) fails in 7 states: `Execute` then `Publish` put `a1` in the action
  cache while its output is still only in the batch, and a client's
  lookup hits. The same happens after a flush that failed or a crash that
  lost the batch, for good. A model
  with the two decorators swapped (flush inside, publish outside) satisfies
  the property.
Fairness: weak fairness of every goroutine step (each goroutine loops for
ever, `main` never stops them), of `Requeue` (the scheduler notices every
ended stream) and of `Start` (a crashed worker is restarted). Transport
failures and crashes are bounded, so they cannot starve progress.

### RemoteBlobAccess and MCRemoteBlobAccess

The remote cache is `cache`, a set of digests; `RemoteStore`/`RemoteEvict`
are other clients and the cache's own eviction. `Get` and `Put` are one HTTP
exchange each, with every outcome the code distinguishes (transport error,
404, 200, another status; for PUT the cache may store or refuse). FindMissing
is `StartFindMissing`, then one `HeadStep` per digest of the request in
order (a transport error or another status ends it with an error, 404
appends, 200 continues), or `FindNone` for an empty request. `last` is a
ghost holding what the caller got back; `touched` the digests changed by
others since FindMissing began. Two digests as model values; requests are
all lists of up to two digests (so a digest may be asked twice).

`Delete` answers Unimplemented without a request and only sets `last`.

* `http_findmissing` (pass, 5,685 states): `FindMissingExact`: a successful
  FindMissing lists exactly the requested, untouched digests the cache lacks.
* `http_put_refused` (violation): `PutOkMeansStored`: Put returns nil for a
  refused PUT because `ctxhttp.Do`'s response is discarded (line 62).

## 4. Not modelled

* Context cancellation of the leaves in `MerkleBlobAccess` (the relay's
  cancellation is in `ByteStreamWrite`); Redis transport errors are modelled.
* The relay's mixed-instance check in FindMissing (its one request is
  `BackendFindMissing` in `ShardingBlobAccess`).
* The batched writer's capacity and deduplication.
* Response bodies of `RemoteBlobAccess` that are never closed
  (`remote_blob_access.go:45`): a connection leak, a resource TLC does not
  count.
* Instance names containing `/` (the spec does not say whether they are
  allowed; the relay would format names the server rejects).
* The adapters wired in `main.go` but absent from the source tree (batched
  store, existence precondition, directory caching, read/write decoupling,
  metrics): only the spec describes them.
* The runner process (opens a directory and serves a gRPC service), the
  action cache's serialization (ReadAll+Unmarshal, Marshal+Put of one blob,
  no state of its own), the build executor's internals, build files and
  protos.
* Memory use: the Redis back end loads and buffers whole blobs (`part_001:37`,
  `:51`), contrary to the spec's streaming requirement; TLC does not measure
  memory.
