--------------------------- MODULE RemoteBlobAccess ---------------------------
(***************************************************************************)
(* remoteBlobAccess (pkg/blobstore/remote_blob_access.go): a blob store    *)
(* over a Bazel HTTP cache.  Get is one GET, Put one PUT, FindMissing one  *)
(* HEAD per digest in order, returning at the first transport error or     *)
(* unexpected status.  The remote cache is a set of digests that other     *)
(* clients also write to and that may evict; every HTTP exchange may fail  *)
(* in transport, a GET or HEAD may answer an unexpected status, and a PUT  *)
(* may be refused (e.g. 403, 413, 507) without storing.                    *)
(***************************************************************************)
EXTENDS Naturals, Sequences, SequencesExt, FiniteSets

CONSTANTS
    Digests     \* digests (the URL is address/prefix/hash)

VARIABLES
    cache,      \* digests the remote cache holds
    phase,      \* the caller: "idle" or "finding"
    todo,       \* FindMissing: digests not yet asked, in request order
    req,        \* FindMissing: the request
    missing,    \* FindMissing: the missing list so far
    touched,    \* ghost: digests stored or evicted since FindMissing began
    last        \* ghost: the outcome of the caller's last operation

vars == <<cache, phase, todo, req, missing, touched, last>>

Outcome == [op : {"none", "get", "put", "delete", "findmissing"}, d : Digests \cup {"none"},
            status : {"ok", "notfound", "error"}, stored : BOOLEAN,
            missing : SUBSET Digests]

None == [op |-> "none", d |-> "none", status |-> "ok", stored |-> FALSE,
         missing |-> {}]

\* The requests FindMissing may be given: digest lists up to |Digests| long.
Requests == UNION {[1..n -> Digests] : n \in 0..Cardinality(Digests)}

Init ==
    /\ cache = {}
    /\ phase = "idle"
    /\ todo = <<>> /\ req = {} /\ missing = {}
    /\ touched = {}
    /\ last = None

\* Get: a transport error, 404 (NotFound), 200 (the body) or another
\* status (Unknown).
Get(d) ==
    /\ phase = "idle"
    /\ \E r \in {"transport", "status"} \cup (IF d \in cache THEN {"200"} ELSE {"404"}) :
         last' = [None EXCEPT !.op = "get", !.d = d,
                   !.status = CASE r = "200" -> "ok" [] r = "404" -> "notfound"
                                [] OTHER -> "error"]
    /\ UNCHANGED <<cache, phase, todo, req, missing, touched>>

\* Put: PUT with Content-Length; only ctxhttp.Do's error is returned, the
\* response status is not looked at.
Put(d) ==
    /\ phase = "idle"
    /\ \E r \in {"transport", "refused", "stored"} :
         /\ cache' = IF r = "stored" THEN cache \cup {d} ELSE cache
         /\ last' = [None EXCEPT !.op = "put", !.d = d, !.stored = (r = "stored"),
                                 !.status = IF r = "transport" THEN "error" ELSE "ok"]
    /\ UNCHANGED <<phase, todo, req, missing, touched>>

\* Delete: the HTTP caching protocol has no deletion; Unimplemented,
\* without a request.
Delete(d) ==
    /\ phase = "idle"
    /\ last' = [None EXCEPT !.op = "delete", !.d = d, !.status = "error"]
    /\ UNCHANGED <<cache, phase, todo, req, missing, touched>>

\* Mutant: the missing list of the previous call is not cleared.
StartFindMissingKeepingMissing(ds) ==
    /\ phase = "idle"
    /\ phase' = "finding"
    /\ todo' = ds /\ req' = ToSet(ds) /\ touched' = {}
    /\ UNCHANGED <<cache, last, missing>>

\* FindMissing begins: var missing, nothing asked yet.
StartFindMissing(ds) ==
    /\ phase = "idle"
    /\ phase' = "finding"
    /\ todo' = ds /\ req' = ToSet(ds) /\ missing' = {} /\ touched' = {}
    /\ UNCHANGED <<cache, last>>

Finish(status, m) ==
    /\ phase' = "idle"
    /\ todo' = <<>>
    /\ last' = [None EXCEPT !.op = "findmissing", !.status = status, !.missing = m]

\* Mutant: an unexpected status counts the digest as missing.
HeadTreatingErrorsAsMissing ==
    /\ phase = "finding" /\ todo # <<>>
    /\ LET d == Head(todo)
       IN \E r \in {"transport", "status"} \cup (IF d \in cache THEN {"200"} ELSE {"404"}) :
            LET m == IF r \in {"404", "status"} THEN missing \cup {d} ELSE missing
            IN IF r = "transport" THEN Finish("error", {}) /\ UNCHANGED missing
               ELSE IF Len(todo) = 1 THEN Finish("ok", m) /\ missing' = m
               ELSE /\ todo' = Tail(todo) /\ missing' = m
                    /\ UNCHANGED <<phase, last>>
    /\ UNCHANGED <<cache, req, touched>>

\* One iteration of FindMissing's loop: HEAD the next digest; 404 appends
\* it, 200 continues, a transport error or another status returns (nil,
\* err); after the last digest the list is returned.
HeadStep ==
    /\ phase = "finding" /\ todo # <<>>
    /\ LET d == Head(todo)
       IN \E r \in {"transport", "status"} \cup (IF d \in cache THEN {"200"} ELSE {"404"}) :
            LET m == IF r = "404" THEN missing \cup {d} ELSE missing
            IN IF r \in {"transport", "status"} THEN Finish("error", {}) /\ UNCHANGED missing
               ELSE IF Len(todo) = 1 THEN Finish("ok", m) /\ missing' = m
               ELSE /\ todo' = Tail(todo) /\ missing' = m
                    /\ UNCHANGED <<phase, last>>
    /\ UNCHANGED <<cache, req, touched>>

\* FindMissing of no digests returns (nil, nil) without a request.
FindNone ==
    /\ phase = "finding" /\ todo = <<>>
    /\ Finish("ok", {})
    /\ UNCHANGED <<cache, req, missing, touched>>

\* Other clients of the remote cache store blobs; the cache evicts them.
RemoteStore(d) ==
    /\ cache' = cache \cup {d}
    /\ touched' = touched \cup {d}
    /\ UNCHANGED <<phase, todo, req, missing, last>>

RemoteEvict(d) ==
    /\ cache' = cache \ {d}
    /\ touched' = touched \cup {d}
    /\ UNCHANGED <<phase, todo, req, missing, last>>

Next ==
    \/ \E d \in Digests : Get(d) \/ Put(d) \/ Delete(d) \/ RemoteStore(d) \/ RemoteEvict(d)
    \/ \E ds \in Requests : StartFindMissing(ds)
    \/ HeadStep \/ FindNone

Spec == Init /\ [][Next]_vars

-----------------------------------------------------------------------------
TypeOK ==
    /\ cache \subseteq Digests
    /\ phase \in {"idle", "finding"}
    /\ todo \in Requests
    /\ missing \subseteq req
    /\ last \in Outcome

\* FindMissing (lines 70-90) over a cache other clients change: when it
\* returns without error, a requested digest nobody stored or evicted since
\* the call began is in the list exactly when the cache lacks it.
FindMissingExact ==
    phase = "idle" /\ last.op = "findmissing" /\ last.status = "ok" =>
        \A d \in req \ touched : d \in last.missing <=> d \notin cache

\* Spec 6: a status other than 200 or 404 is an error (Unknown).  A Put
\* that returns success has had its blob stored by the remote cache.
PutOkMeansStored ==
    last.op = "put" /\ last.status = "ok" => last.stored
=============================================================================
