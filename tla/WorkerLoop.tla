------------------------------ MODULE WorkerLoop ------------------------------
(***************************************************************************)
(* The worker's action loop (main and subscribeAndExecute of the worker):  *)
(* concurrency goroutines, each repeatedly opening a GetWork stream to the *)
(* scheduler, receiving requests on it, logging the action's browser URL,  *)
(* executing it and sending the response back.  Any error ends            *)
(* subscribeAndExecute (the deferred CloseSend ends the stream); the       *)
(* goroutine sleeps and subscribes again.  The scheduler is not in the     *)
(* source tree: it is modelled as a FIFO queue of actions that hands the   *)
(* head to a worker waiting in Recv and puts an action back at the tail    *)
(* when the stream it was sent on ends without a response.  Transport      *)
(* failures of GetWork, Recv and Send happen at most MaxFailures times.    *)
(* The whole worker process may crash (at most MaxCrashes times) and is    *)
(* started again; main then clears the cache directory, the pool of input  *)
(* files that Execute links from (the hardlinking CAS is not in the source *)
(* tree and is modelled from the spec as one step per input file).        *)
(* buildExecutor is the stack main wires per goroutine: the local build    *)
(* runs the action and Puts its outputs into the goroutine's batched CAS   *)
(* writer; the caching executor around it publishes a successful result    *)
(* to the action cache; the storage-flushing executor around both flushes *)
(* the batched writer last.  The batched store is not in the source tree   *)
(* and is modelled from the spec (section 4.4): an in-memory set of        *)
(* pending outputs that Flush writes to the CAS, each write possibly       *)
(* failing, the first error making the response an error.                 *)
(***************************************************************************)
EXTENDS Naturals, Sequences, SequencesExt

CONSTANTS
    Workers,        \* the goroutines started by the concurrency loop
    Actions,        \* the actions clients submit
    Poison,         \* actions whose instance name browserURL.Parse rejects
    MaxFailures,    \* bound on transport failures
    MaxCrashes,     \* bound on crashes of the worker process
    Files,          \* input files actions need
    Outputs,        \* output blobs actions produce
    Out,            \* Out[a]: the outputs of action a
    None            \* no request held

ASSUME /\ Poison \subseteq Actions /\ MaxFailures \in Nat /\ MaxCrashes \in Nat
       /\ Out \in [Actions -> SUBSET Outputs]

VARIABLES
    pc,         \* pc[w]: "getwork", "recv", "parse", "execute", "send", "sleep"
    req,        \* req[w]: the request worker w holds, or None
    queue,      \* the scheduler's queue
    orphan,     \* actions sent on a stream that ended without their response
    answered,   \* actions whose ExecuteResponse the scheduler received
    failures,   \* transport failures so far
    up,         \* the worker process is running
    crashes,    \* crashes so far
    disk,       \* files in the cache directory (survive a crash)
    known,      \* files the running process's pool has put there
    batch,      \* batch[w]: outputs in w's batched writer, not yet flushed
    cas,        \* outputs stored in the CAS
    ac,         \* actions whose result is in the action cache
    resp,       \* resp[w]: the ExecuteResponse w holds: "none", "ok", "failed", "error"
    okay,       \* ghost: actions answered with a successful response
    dangling    \* ghost: a client's GetActionResult returned a result whose
                \* outputs were not all in the CAS

vars == <<pc, req, queue, orphan, answered, failures, up, crashes, disk, known,
          batch, cas, ac, resp, okay, dangling>>
proc == <<up, crashes, disk, known>>
store == <<batch, cas, ac, resp, okay, dangling>>

Init ==
    /\ pc = [w \in Workers |-> "getwork"]
    /\ req = [w \in Workers |-> None]
    /\ queue \in SetToSeqs(Actions)
    /\ orphan = {}
    /\ answered = {}
    /\ failures = 0
    /\ up = TRUE /\ crashes = 0
    /\ disk = {} /\ known = {}
    /\ batch = [w \in Workers |-> {}] /\ cas = {} /\ ac = {}
    /\ resp = [w \in Workers |-> "none"] /\ okay = {}
    /\ dangling = FALSE

\* subscribeAndExecute returns an error: the goroutine logs it and sleeps;
\* the request it held, if any, is left with the ended stream.
Fail(w) ==
    /\ pc' = [pc EXCEPT ![w] = "sleep"]
    /\ req' = [req EXCEPT ![w] = None]
    /\ orphan' = IF req[w] = None THEN orphan ELSE orphan \cup {req[w]}
    /\ resp' = [resp EXCEPT ![w] = "none"]

TransportFailure(w) ==
    /\ failures < MaxFailures
    /\ failures' = failures + 1
    /\ Fail(w)
    /\ UNCHANGED <<queue, answered, proc, batch, cas, ac, okay, dangling>>

\* schedulerClient.GetWork: the stream opens, or the call fails.
GetWork(w) ==
    /\ pc[w] = "getwork"
    /\ \/ /\ pc' = [pc EXCEPT ![w] = "recv"]
          /\ UNCHANGED <<req, queue, orphan, answered, failures, proc, store>>
       \/ TransportFailure(w)

\* stream.Recv: the scheduler sends the head of its queue, or the stream
\* breaks.  With an empty queue and a healthy stream Recv blocks.
Recv(w) ==
    /\ pc[w] = "recv"
    /\ \/ /\ queue # <<>>
          /\ req' = [req EXCEPT ![w] = Head(queue)]
          /\ queue' = Tail(queue)
          /\ pc' = [pc EXCEPT ![w] = "parse"]
          /\ UNCHANGED <<orphan, answered, failures, proc, store>>
       \/ TransportFailure(w)

\* Mutant: a request whose URL does not parse is logged and skipped, and
\* the loop receives the next one on the same stream.
ParseSkipping(w) ==
    /\ pc[w] = "parse"
    /\ IF req[w] \in Poison
         THEN /\ pc' = [pc EXCEPT ![w] = "recv"]
              /\ req' = [req EXCEPT ![w] = None]
              /\ UNCHANGED <<orphan, resp>>
         ELSE /\ pc' = [pc EXCEPT ![w] = "execute"]
              /\ UNCHANGED <<req, orphan, resp>>
    /\ UNCHANGED <<queue, answered, failures, proc, batch, cas, ac, okay, dangling>>

\* browserURL.Parse of "/action/<instance>/<hash>/<size>/": an instance
\* name with an invalid %-escape makes it fail and subscribeAndExecute
\* returns the error; otherwise the URL is logged.
Parse(w) ==
    /\ pc[w] = "parse"
    /\ IF req[w] \in Poison
         THEN Fail(w)
         ELSE /\ pc' = [pc EXCEPT ![w] = "execute"]
              /\ UNCHANGED <<req, orphan, resp>>
    /\ UNCHANGED <<queue, answered, failures, proc, batch, cas, ac, okay, dangling>>

\* The order in which the layers main wraps around each other (lines
\* 157-174) do their work on one request: a decorator's work follows its
\* inner executor's, so the local build comes first, then the caching
\* executor's, then the storage-flushing executor's; the response is sent
\* last.  After(p) is the step that follows step p.
Layers == <<"execute", "publish", "flush", "send">>

After(p) == Layers[(CHOOSE i \in 1..Len(Layers) - 1 : Layers[i] = p) + 1]

\* buildExecutor.Execute, innermost layer: the local build links its input
\* file from the pool (which fetches it into the cache directory first if
\* it does not have it), runs the action, which succeeds or fails, and Puts
\* its outputs into the goroutine's batched writer, which keeps them.
Execute(w) ==
    /\ pc[w] = "execute"
    /\ pc' = [pc EXCEPT ![w] = After("execute")]
    /\ \E f \in Files : disk' = disk \cup {f} /\ known' = known \cup {f}
    /\ batch' = [batch EXCEPT ![w] = @ \cup Out[req[w]]]
    /\ \E r \in {"ok", "failed"} : resp' = [resp EXCEPT ![w] = r]
    /\ UNCHANGED <<req, queue, orphan, answered, failures, up, crashes, cas, ac, okay, dangling>>

\* The caching executor around it: a successful result is written to the
\* action cache under the action's digest (PutActionResult: Marshal, then
\* Put on the action cache's blob access, not through the batched writer).
Publish(w) ==
    /\ pc[w] = "publish"
    /\ pc' = [pc EXCEPT ![w] = After("publish")]
    /\ ac' = IF resp[w] = "ok" THEN ac \cup {req[w]} ELSE ac
    /\ UNCHANGED <<req, queue, orphan, answered, failures, proc, batch, cas, resp, okay, dangling>>

\* A Bazel client's GetActionResult for action a (blobAccessActionCache:
\* Get of the action digest on the action cache's blob access, ReadAll,
\* Unmarshal).  A result that is not there, or a Get or ReadAll that fails,
\* is an error the client treats as a miss and changes nothing, so only a
\* hit is a step.  The client then downloads the result's outputs from the
\* CAS; the ghost records a hit whose outputs are not all there.
GetActionResult(a) ==
    /\ a \in ac
    /\ dangling' = (dangling \/ ~(Out[a] \subseteq cas))
    /\ UNCHANGED <<pc, req, queue, orphan, answered, failures, proc, batch, cas, ac,
                   resp, okay>>

\* Mutant: the flusher's error is dropped and the response kept.
FlushIgnoringErrors(w) ==
    /\ pc[w] = "flush"
    /\ pc' = [pc EXCEPT ![w] = After("flush")]
    /\ \E done \in SUBSET batch[w] : cas' = cas \cup done
    /\ batch' = [batch EXCEPT ![w] = {}]
    /\ UNCHANGED <<req, queue, orphan, answered, failures, proc, ac, resp, okay, dangling>>

\* The storage-flushing executor, outermost: Flush writes every pending
\* output to the CAS, each write succeeding or failing and all of them
\* attempted; the first error turns the response into an error.
Flush(w) ==
    /\ pc[w] = "flush"
    /\ pc' = [pc EXCEPT ![w] = After("flush")]
    /\ \E done \in SUBSET batch[w] :
         /\ cas' = cas \cup done
         /\ resp' = [resp EXCEPT ![w] = IF done = batch[w] THEN @ ELSE "error"]
    /\ batch' = [batch EXCEPT ![w] = {}]
    /\ UNCHANGED <<req, queue, orphan, answered, failures, proc, ac, okay, dangling>>

\* Mutant: the request is not cleared after its response is sent.
SendKeepingRequest(w) ==
    /\ pc[w] = "send"
    /\ \/ /\ answered' = answered \cup {req[w]}
          /\ okay' = IF resp[w] = "ok" THEN okay \cup {req[w]} ELSE okay
          /\ pc' = [pc EXCEPT ![w] = "recv"]
          /\ resp' = [resp EXCEPT ![w] = "none"]
          /\ UNCHANGED <<req, queue, orphan, failures, proc, batch, cas, ac, dangling>>
       \/ TransportFailure(w)

\* stream.Send of the response: the scheduler has the answer and the loop
\* receives again, or the stream breaks.
Send(w) ==
    /\ pc[w] = "send"
    /\ \/ /\ answered' = answered \cup {req[w]}
          /\ okay' = IF resp[w] = "ok" THEN okay \cup {req[w]} ELSE okay
          /\ req' = [req EXCEPT ![w] = None]
          /\ pc' = [pc EXCEPT ![w] = "recv"]
          /\ resp' = [resp EXCEPT ![w] = "none"]
          /\ UNCHANGED <<queue, orphan, failures, proc, batch, cas, ac, dangling>>
       \/ TransportFailure(w)

\* Mutant: the goroutine returns after subscribeAndExecute fails.
SleepExiting(w) ==
    /\ pc[w] = "sleep"
    /\ pc' = [pc EXCEPT ![w] = "exited"]
    /\ UNCHANGED <<req, queue, orphan, answered, failures, proc, store>>

\* time.Sleep(3 s), then the for loop subscribes again.
Sleep(w) ==
    /\ pc[w] = "sleep"
    /\ pc' = [pc EXCEPT ![w] = "getwork"]
    /\ UNCHANGED <<req, queue, orphan, answered, failures, proc, store>>

\* The scheduler sees the stream end and queues the action again.
Requeue(a) ==
    /\ a \in orphan
    /\ queue' = Append(queue, a)
    /\ orphan' = orphan \ {a}
    /\ UNCHANGED <<pc, req, answered, failures, proc, store>>

\* The worker process dies: every goroutine and stream ends with it, and so
\* does the pool's in-memory state and every batched writer's pending
\* outputs; the cache directory stays on disk, the CAS and the action
\* cache are remote.
Crash ==
    /\ up /\ crashes < MaxCrashes
    /\ up' = FALSE
    /\ crashes' = crashes + 1
    /\ pc' = [w \in Workers |-> "down"]
    /\ req' = [w \in Workers |-> None]
    /\ orphan' = orphan \cup ({req[w] : w \in Workers} \ {None})
    /\ known' = {}
    /\ batch' = [w \in Workers |-> {}]
    /\ resp' = [w \in Workers |-> "none"]
    /\ UNCHANGED <<queue, answered, failures, disk, cas, ac, okay, dangling>>

\* The process is started again: main opens the directories, empties the
\* cache directory (RemoveAllChildren; any failure is log.Fatal, which
\* leaves the process down), dials the scheduler and starts the goroutines.
Start ==
    /\ ~up
    /\ up' = TRUE
    /\ disk' = {}
    /\ pc' = [w \in Workers |-> "getwork"]
    /\ UNCHANGED <<req, queue, orphan, answered, failures, crashes, known, store>>

Next ==
    \/ \E w \in Workers :
          \/ GetWork(w) \/ Recv(w) \/ Parse(w) \/ Execute(w)
          \/ Publish(w) \/ Flush(w) \/ Send(w) \/ Sleep(w)
    \/ \E a \in Actions : Requeue(a) \/ GetActionResult(a)
    \/ Crash \/ Start

\* Each goroutine runs its loop forever, the scheduler reacts to every
\* ended stream, and a crashed worker process is started again.
Spec == Init /\ [][Next]_vars
        /\ \A w \in Workers : WF_vars(GetWork(w)) /\ WF_vars(Recv(w))
                              /\ WF_vars(Parse(w)) /\ WF_vars(Execute(w))
                              /\ WF_vars(Publish(w)) /\ WF_vars(Flush(w))
                              /\ WF_vars(Send(w)) /\ WF_vars(Sleep(w))
        /\ \A a \in Actions : WF_vars(Requeue(a))
        /\ WF_vars(Start)

-----------------------------------------------------------------------------
\* Types; a worker holds a request exactly between Recv and the end of
\* Send, and the goroutines run exactly while the process does.
TypeOK ==
    /\ pc \in [Workers -> {"getwork", "recv", "parse", "execute", "publish", "flush",
                           "send", "sleep", "down"}]
    /\ \A w \in Workers : pc[w] = "down" <=> ~up
    /\ \A w \in Workers :
         (req[w] # None) <=> pc[w] \in {"parse", "execute", "publish", "flush", "send"}
    /\ \A w \in Workers : (resp[w] # "none") <=> pc[w] \in {"publish", "flush", "send"}
    /\ \A w \in Workers : batch[w] \subseteq Outputs
    /\ cas \subseteq Outputs /\ ac \subseteq Actions
    /\ failures \in 0..MaxFailures
    /\ known \subseteq Files
    /\ dangling \in BOOLEAN

\* No action is lost or doubled across stream failures: every action is in
\* exactly one place, queued once, held by one worker, left with an ended
\* stream, or answered.
ActionsAccounted ==
    \A a \in Actions :
        LET queued == {i \in DOMAIN queue : queue[i] = a}
            holders == {w \in Workers : req[w] = a}
        IN Cardinality(queued) + Cardinality(holders)
             + (IF a \in orphan THEN 1 ELSE 0) + (IF a \in answered THEN 1 ELSE 0) = 1

\* The storage-flushing executor keeps its promise to the scheduler: an
\* action answered with a successful response has every output in the CAS,
\* however its flush's writes failed and whatever crashed meanwhile.
SuccessfulResponsesStored == \A a \in okay : Out[a] \subseteq cas

\* A client that finds an action's result in the action cache can download
\* every output it names: GetActionResult never returns a result whose
\* outputs the CAS lacks (spec 4.4: the batched writer must be flushed
\* before the action result is published, otherwise uploads may be lost).
ActionResultsUsable == ~dangling

\* Every action whose browser URL parses is eventually answered, however
\* the streams fail and whatever the poisoned actions do to the workers.
ValidActionsAnswered == <>(Actions \ Poison \subseteq answered)

\* Every action is eventually answered (spec 7: the worker supervisor
\* retries its action loop, so no error ends the processing of an action).
EveryActionAnswered == <>(Actions \subseteq answered)
=============================================================================
