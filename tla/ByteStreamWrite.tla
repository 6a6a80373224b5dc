--------------------------- MODULE ByteStreamWrite ---------------------------
(***************************************************************************)
(* A blob written through the gRPC CAS relay: the relay's Put (part_002)   *)
(* reads its source in chunks of at most ChunkSize and sends each as a     *)
(* WriteRequest at the running write offset, the last with FinishWrite,    *)
(* then CloseAndRecv.  On the other process byteStreamServer.Write         *)
(* (part_000) takes the first request, wraps the stream in a               *)
(* byteStreamWriteServerReader that checks every later offset, and hands   *)
(* it to Put, which reads it to EOF into buffers of up to ServerBuf bytes. *)
(* A failing source makes the relay return without closing the stream;    *)
(* the caller's context then ends, which cancels the stream.               *)
(***************************************************************************)
EXTENDS Naturals, Sequences, SequencesExt

CONSTANTS
    Blobs,      \* the blobs the relay's source may yield
    ChunkSize,  \* the relay's readChunkSize
    ServerBuf   \* largest buffer the server's Put reads into

ASSUME ChunkSize \in Nat \ {0} /\ ServerBuf \in Nat \ {0}

VARIABLES
    src,        \* the blob the relay's source yields
    cpos,       \* bytes read from the source
    coff,       \* the relay's writeOffset
    cphase,     \* "sending", "closing" (in CloseAndRecv), "ok", "error", "failed"
    wire,       \* WriteRequests sent and not yet received
    closed,     \* the relay has half-closed the stream
    cancelled,  \* the relay's caller's context has ended
    sphase,     \* server: "first", "put", "ok", "error", "offset"
    soff,       \* byteStreamWriteServerReader.writeOffset
    sdata,      \* byteStreamWriteServerReader.data
    room,       \* room left in p while a Read is in its loop (0: no Read)
    got         \* bytes the reader has copied out to Put

vars == <<src, cpos, coff, cphase, wire, closed, cancelled, sphase, soff,
          sdata, room, got>>

Min2(a, b) == IF a < b THEN a ELSE b

Request(off, data, fin) == [off |-> off, data |-> data, fin |-> fin]

Init ==
    /\ src \in Blobs
    /\ cpos = 0 /\ coff = 0
    /\ cphase = "sending"
    /\ wire = <<>>
    /\ closed = FALSE /\ cancelled = FALSE
    /\ sphase = "first"
    /\ soff = 0 /\ sdata = <<>>
    /\ room = 0
    /\ got = <<>>

\* Mutant: the write offset is not advanced after a chunk.
ClientSendStuckOffset ==
    /\ cphase = "sending"
    /\ LET rem == Len(src) - cpos
       IN \/ \E n \in 1..Min2(ChunkSize, rem) :
               /\ wire' = Append(wire, Request(coff, SubSeq(src, cpos + 1, cpos + n), FALSE))
               /\ cpos' = cpos + n
               /\ UNCHANGED <<coff, cphase, closed>>
          \/ /\ rem <= ChunkSize
             /\ wire' = Append(wire, Request(coff, SubSeq(src, cpos + 1, Len(src)), TRUE))
             /\ cpos' = Len(src) /\ coff' = coff + rem
             /\ cphase' = "closing" /\ closed' = TRUE
          \/ /\ cphase' = "failed"
             /\ UNCHANGED <<wire, cpos, coff, closed>>
    /\ UNCHANGED <<src, cancelled, sphase, soff, sdata, room, got>>

\* One iteration of the relay Put's loop.  The source returns n bytes with
\* nil (a chunk sent at coff), the rest with io.EOF (the FinishWrite chunk,
\* then CloseAndRecv half-closes), or an error: Put returns it and leaves
\* the stream open.
ClientSend ==
    /\ cphase = "sending"
    /\ LET rem == Len(src) - cpos
       IN \/ \E n \in 1..Min2(ChunkSize, rem) :
               /\ wire' = Append(wire, Request(coff, SubSeq(src, cpos + 1, cpos + n), FALSE))
               /\ cpos' = cpos + n /\ coff' = coff + n
               /\ UNCHANGED <<cphase, closed>>
          \/ /\ rem <= ChunkSize
             /\ wire' = Append(wire, Request(coff, SubSeq(src, cpos + 1, Len(src)), TRUE))
             /\ cpos' = Len(src) /\ coff' = coff + rem
             /\ cphase' = "closing" /\ closed' = TRUE
          \/ /\ cphase' = "failed"
             /\ UNCHANGED <<wire, cpos, coff, closed>>
    /\ UNCHANGED <<src, cancelled, sphase, soff, sdata, room, got>>

\* CloseAndRecv returns the status the server's Write returned.
ClientRecv ==
    /\ cphase = "closing"
    /\ sphase \in {"ok", "error", "offset"}
    /\ cphase' = IF sphase = "ok" THEN "ok" ELSE "error"
    /\ UNCHANGED <<src, cpos, coff, wire, closed, cancelled, sphase, soff,
                   sdata, room, got>>

\* The relay's caller returns after Put failed; its context ends.
Cancel ==
    /\ cphase = "failed" /\ ~cancelled
    /\ cancelled' = TRUE
    /\ UNCHANGED <<src, cpos, coff, cphase, wire, closed, sphase, soff,
                   sdata, room, got>>

\* What stream.Recv can return now: a request, io.EOF after the half-close,
\* or an error once the stream is cancelled; nothing (it blocks) otherwise.
CanRecv == wire # <<>> \/ closed \/ cancelled
RecvError == cancelled \/ (wire = <<>> /\ closed)

\* byteStreamServer.Write: the first Recv (its error is returned); the
\* resource name is the relay's, which parses; the reader starts with the
\* first request's data at writeOffset len(data) and Put begins.
ServerWrite ==
    /\ sphase = "first" /\ CanRecv
    /\ IF RecvError
         THEN sphase' = "error" /\ UNCHANGED <<wire, soff, sdata>>
         ELSE /\ sphase' = "put"
              /\ soff' = Len(Head(wire).data)
              /\ sdata' = Head(wire).data
              /\ wire' = Tail(wire)
    /\ UNCHANGED <<src, cpos, coff, cphase, closed, cancelled, room, got>>

\* Put calls Read with a buffer of k bytes.
StartRead ==
    /\ sphase = "put" /\ room = 0
    /\ \E k \in 1..ServerBuf : room' = k
    /\ UNCHANGED <<src, cpos, coff, cphase, wire, closed, cancelled, sphase,
                   soff, sdata, got>>

\* Mutant: r.data = r.data[c:] missing; the copied bytes stay in data.
ReaderReturnKeepingCopied(c) ==
    /\ room' = 0
    /\ UNCHANGED <<wire, sphase, soff, sdata>>

\* Read returning (n, nil) with p full: the copied bytes leave data.
ReaderReturn(c) ==
    /\ room' = 0
    /\ sdata' = SubSeq(sdata, c + 1, Len(sdata))
    /\ UNCHANGED <<wire, sphase, soff>>

\* Mutant: a Recv error ends the Read with (n, nil), so Put reads on.
ReaderRecvIgnoringError(c) ==
    /\ CanRecv
    /\ IF RecvError
         THEN /\ room' = 0
              /\ sdata' = <<>>
              /\ UNCHANGED <<wire, sphase, soff>>
         ELSE IF Head(wire).off # soff
         THEN /\ sphase' = "offset"
              /\ room' = 0
              /\ sdata' = <<>>
              /\ UNCHANGED <<wire, soff>>
         ELSE /\ soff' = soff + Len(Head(wire).data)
              /\ sdata' = Head(wire).data
              /\ wire' = Tail(wire)
              /\ room' = room - c
              /\ UNCHANGED sphase

\* p not full after copying c bytes: Recv.  io.EOF after the half-close
\* ends Put's read and Put stores what it read; a cancelled stream's error
\* fails Put; a request at another offset than expected fails the Read;
\* otherwise writeOffset advances and the loop goes on with its data.
ReaderRecv(c) ==
    /\ CanRecv
    /\ IF RecvError
         THEN /\ sphase' = IF cancelled THEN "error" ELSE "ok"
              /\ room' = 0
              /\ sdata' = <<>>
              /\ UNCHANGED <<wire, soff>>
         ELSE IF Head(wire).off # soff
         THEN /\ sphase' = "offset"
              /\ room' = 0
              /\ sdata' = <<>>
              /\ UNCHANGED <<wire, soff>>
         ELSE /\ soff' = soff + Len(Head(wire).data)
              /\ sdata' = Head(wire).data
              /\ wire' = Tail(wire)
              /\ room' = room - c
              /\ UNCHANGED sphase

\* One iteration of byteStreamWriteServerReader.Read's loop, with Put's
\* reaction when the Read returns: copy what fits from data, then return
\* if p is full, else Recv.
ReaderStep ==
    /\ sphase = "put" /\ room > 0
    /\ LET c == Min2(room, Len(sdata))
       IN /\ got' = got \o SubSeq(sdata, 1, c)
          /\ IF room = c THEN ReaderReturn(c) ELSE ReaderRecv(c)
    /\ UNCHANGED <<src, cpos, coff, cphase, closed, cancelled>>

Next ==
    \/ ClientSend \/ ClientRecv \/ Cancel
    \/ ServerWrite \/ StartRead \/ ReaderStep

\* Both processes are scheduled fairly; Put keeps reading until an error
\* or io.EOF; the context of a caller whose Put failed eventually ends.
Spec == Init /\ [][Next]_vars
        /\ WF_vars(ClientSend) /\ WF_vars(ClientRecv) /\ WF_vars(Cancel)
        /\ WF_vars(ServerWrite) /\ WF_vars(StartRead) /\ WF_vars(ReaderStep)

\* Both sides have stopped.
Terminated == sphase \in {"ok", "error", "offset"} /\ cphase \in {"ok", "error", "failed"}

-----------------------------------------------------------------------------
WireData == FoldLeft(LAMBDA acc, r : acc \o r.data, <<>>, wire)

\* Types, and while Put reads, every byte the relay read from its source is
\* exactly once in what Put got, in the reader's data, or in flight.
TypeOK ==
    /\ src \in Blobs
    /\ cphase \in {"sending", "closing", "ok", "error", "failed"}
    /\ sphase \in {"first", "put", "ok", "error", "offset"}
    /\ room \in 0..ServerBuf
    /\ sphase = "put" => got \o sdata \o WireData = SubSeq(src, 1, cpos)

\* The server accepts every stream the relay produces: no request is at an
\* unexpected offset, whatever chunk sizes the relay's source and the
\* server's Put use; what the server's Put read to EOF is the relay's
\* whole source; the relay's Put succeeds only if the server's did.
RelayWriteFaithful ==
    /\ sphase # "offset"
    /\ sphase = "ok" => got = src
    /\ cphase = "ok" => sphase = "ok"
=============================================================================
