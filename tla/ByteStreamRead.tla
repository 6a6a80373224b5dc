---------------------------- MODULE ByteStreamRead ----------------------------
(***************************************************************************)
(* A blob read through the gRPC CAS relay: the relay's Get (part_002) is a *)
(* ByteStream client of byteStreamServer.Read (part_000) on another        *)
(* process.  The server reads its own blob access in chunks of at most     *)
(* ReadChunkSize and sends every non-empty chunk; at EOF it ends the       *)
(* stream with OK, on a read error with that error.  The relay's Get does  *)
(* one Recv eagerly to detect errors, and byteStreamBlobReader hands the   *)
(* received chunks to its consumer through buffers of any size up to       *)
(* ClientBuf.  The gRPC stream is ordered and reliable: a sequence of data *)
(* messages followed by a final status.                                    *)
(***************************************************************************)
EXTENDS Naturals, Sequences, SequencesExt

CONSTANTS
    Blobs,          \* the blobs the server may hold under the digest
    ReadChunkSize,  \* the server's readChunkSize
    ClientBuf       \* largest buffer the relay's consumer reads into

ASSUME ReadChunkSize \in Nat \ {0} /\ ClientBuf \in Nat \ {0}

VARIABLES
    blob,       \* the blob the server streams
    spos,       \* bytes the server's blob reader has delivered
    status,     \* the stream's final status: "none" (open), "ok" or "error"
    wire,       \* ReadResponse messages sent and not yet received
    cphase,     \* the relay: "get", "reading", "getfailed", "eof", "failed", "panic"
    partial,    \* byteStreamBlobReader.partial
    got         \* bytes byteStreamBlobReader.Read returned to its consumer

vars == <<blob, spos, status, wire, cphase, partial, got>>

Min2(a, b) == IF a < b THEN a ELSE b

Init ==
    /\ blob \in Blobs
    /\ spos = 0
    /\ status = "none"
    /\ wire = <<>>
    /\ cphase = "get"
    /\ partial = <<>>
    /\ got = <<>>

\* One iteration of byteStreamServer.Read's loop.  The blob reader returns
\* n bytes with nil, the last bytes (possibly none) with io.EOF, or an
\* error, in which case Read returns it without sending what came with it.
ServerRead ==
    /\ status = "none"
    /\ LET rem == Len(blob) - spos
       IN \/ /\ status' = "error"
             /\ UNCHANGED <<spos, wire>>
          \/ \E n \in 0..Min2(ReadChunkSize, rem), eof \in BOOLEAN :
               /\ eof <=> n = rem
               /\ n > 0 \/ eof
               /\ wire' = IF n > 0 THEN Append(wire, SubSeq(blob, spos + 1, spos + n))
                          ELSE wire
               /\ spos' = spos + n
               /\ status' = IF eof THEN "ok" ELSE "none"
    /\ UNCHANGED <<blob, cphase, partial, got>>

\* Mutant: the eagerly received first chunk is not kept.
GetDroppingFirstChunk ==
    /\ cphase = "get"
    /\ \/ /\ wire # <<>>
          /\ wire' = Tail(wire)
          /\ cphase' = "reading"
          /\ UNCHANGED partial
       \/ /\ wire = <<>> /\ status = "error"
          /\ cphase' = "getfailed"
          /\ UNCHANGED <<wire, partial>>
       \/ /\ wire = <<>> /\ status = "ok"
          /\ cphase' = "panic"
          /\ UNCHANGED <<wire, partial>>
    /\ UNCHANGED <<blob, spos, status, got>>

\* contentAddressableStorageBlobAccess.Get after opening the stream: the
\* first Recv.  A message becomes partial; an error status fails Get; the
\* OK status with no message is (nil, io.EOF), which passes the error check,
\* and chunk.Data then dereferences the nil chunk.
ClientGet ==
    /\ cphase = "get"
    /\ \/ /\ wire # <<>>
          /\ partial' = Head(wire)
          /\ wire' = Tail(wire)
          /\ cphase' = "reading"
       \/ /\ wire = <<>> /\ status = "error"
          /\ cphase' = "getfailed"
          /\ UNCHANGED <<wire, partial>>
       \/ /\ wire = <<>> /\ status = "ok"
          /\ cphase' = "panic"
          /\ UNCHANGED <<wire, partial>>
    /\ UNCHANGED <<blob, spos, status, got>>

\* Mutant: a Recv'd chunk is copied into p and the rest of it dropped.
ClientReadDroppingRest ==
    /\ cphase = "reading"
    /\ \E k \in 1..ClientBuf :
         \/ /\ partial # <<>>
            /\ got' = got \o SubSeq(partial, 1, Min2(k, Len(partial)))
            /\ partial' = SubSeq(partial, Min2(k, Len(partial)) + 1, Len(partial))
            /\ UNCHANGED <<wire, cphase>>
         \/ /\ partial = <<>> /\ wire # <<>>
            /\ got' = got \o SubSeq(Head(wire), 1, Min2(k, Len(Head(wire))))
            /\ wire' = Tail(wire)
            /\ UNCHANGED <<partial, cphase>>
         \/ /\ partial = <<>> /\ wire = <<>> /\ status # "none"
            /\ cphase' = IF status = "ok" THEN "eof" ELSE "failed"
            /\ UNCHANGED <<wire, partial, got>>
    /\ UNCHANGED <<blob, spos, status>>

\* byteStreamBlobReader.Read into a buffer of k bytes: serve from partial
\* if it is not empty; else Recv, copy what fits and keep the rest; a
\* Recv error (io.EOF after OK, or the server's error) is returned.
ClientRead ==
    /\ cphase = "reading"
    /\ \E k \in 1..ClientBuf :
         \/ /\ partial # <<>>
            /\ got' = got \o SubSeq(partial, 1, Min2(k, Len(partial)))
            /\ partial' = SubSeq(partial, Min2(k, Len(partial)) + 1, Len(partial))
            /\ UNCHANGED <<wire, cphase>>
         \/ /\ partial = <<>> /\ wire # <<>>
            /\ got' = got \o SubSeq(Head(wire), 1, Min2(k, Len(Head(wire))))
            /\ partial' = SubSeq(Head(wire), Min2(k, Len(Head(wire))) + 1, Len(Head(wire)))
            /\ wire' = Tail(wire)
            /\ UNCHANGED cphase
         \/ /\ partial = <<>> /\ wire = <<>> /\ status # "none"
            /\ cphase' = IF status = "ok" THEN "eof" ELSE "failed"
            /\ UNCHANGED <<wire, partial, got>>
    /\ UNCHANGED <<blob, spos, status>>

Next == ServerRead \/ ClientGet \/ ClientRead

\* The server and the relay's reader are scheduled fairly; the consumer
\* (ReadAll, or the integrity adapter's reader) keeps calling Read until
\* it sees an error or io.EOF.
Spec == Init /\ [][Next]_vars /\ WF_vars(ServerRead) /\ WF_vars(ClientGet)
            /\ WF_vars(ClientRead)

Terminal == {"getfailed", "eof", "failed", "panic"}

-----------------------------------------------------------------------------
\* Types, and no byte is lost or duplicated between the server's reader and
\* the relay's consumer: read, buffered in partial, or in flight.
TypeOK ==
    /\ blob \in Blobs
    /\ spos \in 0..Len(blob)
    /\ status \in {"none", "ok", "error"}
    /\ cphase \in {"get", "reading"} \cup Terminal
    /\ got \o partial \o FlattenSeq(wire) = SubSeq(blob, 1, spos)

\* The relay's Get never dereferences a nil chunk, whatever the blob.
GetNeverPanics == cphase # "panic"
=============================================================================
