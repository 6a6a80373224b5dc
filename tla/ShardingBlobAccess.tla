-------------------------- MODULE ShardingBlobAccess --------------------------
(***************************************************************************)
(* shardingBlobAccess (pkg/blobstore/sharding/sharding_blob_access.go):    *)
(* getBackend hashes the digest key with FNV-1a and asks the ShardSelector *)
(* for candidate slots until one is not drained; Put and Delete are routed *)
(* to that back end; FindMissing groups the request by back end, starts    *)
(* one goroutine per back end that sends its result on a channel buffered  *)
(* to the number of back ends, and joins by receiving that many results,   *)
(* appending the missing digests of every successful call and keeping the  *)
(* last error.  Back ends are sets of digests; a FindMissing call on one   *)
(* may fail.  Other clients Put and Delete concurrently with a FindMissing.*)
(***************************************************************************)
EXTENDS Fnv1a, FiniteSets, FiniteSetsExt

CONSTANTS
    Digests,    \* digests clients use
    KeyOf,      \* KeyOf[d]: the bytes of digest.GetKey(digestKeyFormat)
    HashInit,   \* hashInitialization, a Word
    NumSlots,   \* len(backends)
    Drained,    \* slots whose backends[i] is nil
    Nil         \* the nil back end

Slots == 1..NumSlots

ASSUME /\ Drained \subseteq Slots
       /\ \A d \in Digests : KeyOf[d] \in Seq(Limb)

-----------------------------------------------------------------------------
(* Routing.                                                                *)

\* The ShardSelector is not in the source tree.  Modelled from the spec: a
\* deterministic probe that offers the slots in the order h mod N, h mod N
\* + 1, ... and stops at the first one the predicate accepts.
Candidates(h) == [i \in Slots |-> ((WordMod(h, NumSlots) + i - 1) % NumSlots) + 1]

\* FNV-1a of every digest key, computed once.
Hash == [d \in Digests |-> Fnv1a(HashInit, KeyOf[d])]

\* The selector loop of getBackend: the callback records backends[index]
\* and asks for another candidate while it is nil; the last recorded back
\* end is returned (nil if every candidate was drained).
Route(h, drained) ==
    LET c == Candidates(h)
        live == {i \in Slots : c[i] \notin drained}
    IN IF live = {} THEN Nil ELSE c[Min(live)]

GetBackend(d, drained) == Route(Hash[d], drained)

Home == [d \in Digests |-> GetBackend(d, Drained)]

-----------------------------------------------------------------------------
VARIABLES
    present,    \* present[s]: digests back end s holds
    phase,      \* "idle" or "joining": the FindMissing caller
    req,        \* its request
    pending,    \* back ends whose goroutine has not sent yet
    chan,       \* resultsChan: results sent and not yet received
    recv,       \* i of the join loop
    missing,    \* missingDigests
    err,        \* err is non-nil
    failed,     \* ghost: back ends whose call failed in this FindMissing
    touched     \* ghost: digests Put or Deleted since this FindMissing began

vars == <<present, phase, req, pending, chan, recv, missing, err,
          failed, touched>>

\* digestsPerBackend for a request: its keys and the digests of each.
BackendsOf(ds) == {Home[d] : d \in ds}
Group(ds, s) == {d \in ds : Home[d] = s}

Init ==
    /\ present = [s \in Slots |-> {}]
    /\ phase = "idle"
    /\ req = {}
    /\ pending = {}
    /\ chan = <<>>
    /\ recv = 0
    /\ missing = {}
    /\ err = FALSE
    /\ failed = {}
    /\ touched = {}

\* Put and Delete on the back end getBackend picks (lines 51-57); the
\* back end stores or drops the digest.
Put(d) ==
    /\ present' = [present EXCEPT ![Home[d]] = @ \cup {d}]
    /\ touched' = touched \cup {d}
    /\ UNCHANGED <<phase, req, pending, chan, recv, missing, err, failed>>

Delete(d) ==
    /\ present' = [present EXCEPT ![Home[d]] = @ \ {d}]
    /\ touched' = touched \cup {d}
    /\ UNCHANGED <<phase, req, pending, chan, recv, missing, err, failed>>

\* FindMissing returning (missingDigests, err): the join loop has run
\* len(digestsPerBackend) times.  missing and err stay as the values the
\* caller received, with req, failed and touched, until the next call.
Return(m, e) ==
    /\ phase' = "idle"
    /\ missing' = m
    /\ err' = e
    /\ recv' = 0
    /\ chan' = <<>>
    /\ UNCHANGED <<pending, failed, touched, req>>

\* FindMissing up to the join: group by back end, make the channel, start
\* the goroutines.  With no back end to contact the loop does not run and
\* FindMissing returns (nil, nil) at once.
StartFindMissing(ds) ==
    /\ phase = "idle"
    /\ req' = ds
    /\ pending' = BackendsOf(ds)
    /\ phase' = IF BackendsOf(ds) = {} THEN "idle" ELSE "joining"
    /\ missing' = {}
    /\ err' = FALSE
    /\ failed' = {}
    /\ touched' = {}
    /\ UNCHANGED <<present, chan, recv>>

\* What a back end's FindMissing of the digests ds can return, for the gRPC
\* CAS relay (part_002): one FindMissingBlobsRequest for the instance of
\* the digests (all of one instance here), whose error, or an error
\* converting a returned digest, is returned with no list; otherwise the
\* digests the remote server lacks.  An empty ds is never sent here.
BackendFindMissing(ds, held) ==
    {[missing |-> ds \ held, err |-> FALSE], [missing |-> {}, err |-> TRUE]}

\* Mutant: the goroutine passes the whole request to its back end.
GoroutineWholeRequest(s) ==
    /\ s \in pending
    /\ Len(chan) < Cardinality(BackendsOf(req))
    /\ \E r \in BackendFindMissing(req, present[s]) :
         /\ chan' = Append(chan, r)
         /\ failed' = IF r.err THEN failed \cup {s} ELSE failed
    /\ pending' = pending \ {s}
    /\ UNCHANGED <<present, phase, req, recv, missing, err, touched>>

\* Mutant: the goroutine for a back end is started again after sending
\* (the loop over digestsPerBackend visiting a back end twice).
GoroutineTwice(s) ==
    /\ s \in pending
    /\ Len(chan) < Cardinality(BackendsOf(req))
    /\ \E r \in BackendFindMissing(Group(req, s), present[s]) :
         /\ chan' = Append(chan, r)
         /\ failed' = IF r.err THEN failed \cup {s} ELSE failed
    /\ UNCHANGED <<present, phase, req, pending, recv, missing, err, touched>>

\* One goroutine: callFindMissing on back end s with its group, which
\* answers the digests it lacks or fails; the result is sent on the
\* buffered channel (never blocks: capacity is the number of back ends).
Goroutine(s) ==
    /\ s \in pending
    /\ Len(chan) < Cardinality(BackendsOf(req))
    /\ \E r \in BackendFindMissing(Group(req, s), present[s]) :
         /\ chan' = Append(chan, r)
         /\ failed' = IF r.err THEN failed \cup {s} ELSE failed
    /\ pending' = pending \ {s}
    /\ UNCHANGED <<present, phase, req, recv, missing, err, touched>>

\* Mutant: the join assigns err from every result, clearing an earlier
\* error when a later back end succeeds.
ReceiveLastOutcome ==
    /\ phase = "joining"
    /\ chan # <<>>
    /\ LET r == Head(chan)
           m == IF r.err THEN missing ELSE missing \cup r.missing
       IN IF recv + 1 = Cardinality(BackendsOf(req))
            THEN /\ Return(m, r.err)
                 /\ UNCHANGED present
            ELSE /\ chan' = Tail(chan)
                 /\ recv' = recv + 1
                 /\ missing' = m
                 /\ err' = r.err
                 /\ UNCHANGED <<present, phase, req, pending, failed, touched>>

\* Mutant: the join loop runs once more than there are back ends
\* (i <= len(digestsPerBackend)).
ReceiveOneTooMany ==
    /\ phase = "joining"
    /\ chan # <<>>
    /\ LET r == Head(chan)
           m == IF r.err THEN missing ELSE missing \cup r.missing
           e == r.err \/ err
       IN IF recv = Cardinality(BackendsOf(req))
            THEN /\ Return(m, e)
                 /\ UNCHANGED present
            ELSE /\ chan' = Tail(chan)
                 /\ recv' = recv + 1
                 /\ missing' = m
                 /\ err' = e
                 /\ UNCHANGED <<present, phase, req, pending, failed, touched>>

\* One iteration of the join loop: receive a result; append its missing
\* digests if it succeeded, else keep its error.
Receive ==
    /\ phase = "joining"
    /\ chan # <<>>
    /\ LET r == Head(chan)
           m == IF r.err THEN missing ELSE missing \cup r.missing
           e == r.err \/ err
       IN IF recv + 1 = Cardinality(BackendsOf(req))
            THEN /\ Return(m, e)
                 /\ UNCHANGED present
            ELSE /\ chan' = Tail(chan)
                 /\ recv' = recv + 1
                 /\ missing' = m
                 /\ err' = e
                 /\ UNCHANGED <<present, phase, req, pending, failed, touched>>

Next ==
    \/ \E d \in Digests : Put(d) \/ Delete(d)
    \/ \E ds \in SUBSET Digests : StartFindMissing(ds)
    \/ \E s \in Slots : Goroutine(s)
    \/ Receive

Spec == Init /\ [][Next]_vars

-----------------------------------------------------------------------------
TypeOK ==
    /\ present \in [Slots -> SUBSET Digests]
    /\ phase \in {"idle", "joining"}
    /\ pending \subseteq BackendsOf(req)
    /\ chan \in Seq([missing : SUBSET Digests, err : BOOLEAN])
    /\ phase = "joining" =>
         recv + Len(chan) + Cardinality(pending) = Cardinality(BackendsOf(req))
    /\ missing \subseteq req
    /\ err \in BOOLEAN
    /\ failed \subseteq BackendsOf(req)
    /\ touched \subseteq Digests

\* The join's error policy (spec 4.3, lines 86-96): FindMissing returns an
\* error exactly when the call on some back end failed, whatever the order
\* in which the goroutines' results reach the channel.
JoinReportsFailure == phase = "idle" => (err <=> failed # {})

\* The joined missing list (lines 71-96): once FindMissing has returned, a
\* requested digest that nobody has Put or Deleted since the call began is
\* in the list exactly when its back end's call succeeded and that back end
\* lacks it; the digests of a failed back end are left out (partial answer).
FindMissingExact ==
    phase = "idle" =>
      \A d \in req \ touched :
         d \in missing <=> (Home[d] \notin failed /\ d \notin present[Home[d]])

\* FindMissing always returns (lines 79-96): every goroutine can send
\* without blocking on the channel buffered to the number of back ends,
\* and the join receives exactly that many results, whatever the order of
\* the results and the failures of the back ends.
FindMissingReturns == phase = "joining" ~> phase = "idle"
=============================================================================
