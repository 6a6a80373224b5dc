----------------------------- MODULE ResourceName -----------------------------
(***************************************************************************)
(* One resource name reaching byteStreamServer: the relay formats it for a *)
(* digest, or another client sends any name, one atom at a time up to     *)
(* MaxName atoms; the server parses it and validates the digest.           *)
(***************************************************************************)
EXTENDS ResourceNameFormat

CONSTANT MaxName     \* longest name another client sends

VARIABLES
    name,       \* the resource name being sent
    form,       \* "read" (ReadRequest) or "write" (first WriteRequest)
    sender,     \* "none", "client" or "relay"
    origin,     \* the digest the relay formatted the name for
    phase,      \* "compose", "sent", "parsed"
    parsed,     \* what the server's parser returned
    accepted    \* the parse and validateDigest both succeeded

vars == <<name, form, sender, origin, phase, parsed, accepted>>

Init ==
    /\ name = <<>> /\ form = "read" /\ sender = "none" /\ origin = Nil
    /\ phase = "compose" /\ parsed = Nil /\ accepted = FALSE

\* contentAddressableStorageBlobAccess.Get: the ReadRequest's name.
RelayGet(i, h, sz) ==
    /\ phase = "compose" /\ sender = "none"
    /\ name' = ReadName(i, h, sz)
    /\ sender' = "relay"
    /\ form' = "read"
    /\ origin' = [instance |-> i, hash |-> h, size |-> sz]
    /\ phase' = "sent"
    /\ UNCHANGED <<parsed, accepted>>

\* contentAddressableStorageBlobAccess.Put: the first WriteRequest's name.
RelayPut(i, u, h, sz) ==
    /\ phase = "compose" /\ sender = "none"
    /\ name' = WriteName(i, u, h, sz)
    /\ sender' = "relay"
    /\ form' = "write"
    /\ origin' = [instance |-> i, hash |-> h, size |-> sz]
    /\ phase' = "sent"
    /\ UNCHANGED <<parsed, accepted>>

\* Another client writes any name, one atom at a time, and sends it.
ClientAppend(c) ==
    /\ phase = "compose" /\ sender \in {"none", "client"}
    /\ Len(name) < MaxName
    /\ name' = Append(name, c)
    /\ sender' = "client"
    /\ UNCHANGED <<form, origin, phase, parsed, accepted>>

ClientSend(f) ==
    /\ phase = "compose" /\ sender = "client"
    /\ form' = f
    /\ phase' = "sent"
    /\ UNCHANGED <<name, sender, origin, parsed, accepted>>

\* byteStreamServer.Read / Write up to the blob access: parse the name
\* (InvalidArgument on nil), then merkleBlobAccess.Get / Put validate the
\* digest (InvalidArgument on failure).
ServerParse ==
    /\ phase = "sent"
    /\ LET d == IF form = "read" THEN ParseRead(name) ELSE ParseWrite(name)
       IN /\ parsed' = d
          /\ accepted' = (d # Nil /\ ValidDigest(d))
    /\ phase' = "parsed"
    /\ UNCHANGED <<name, form, sender, origin>>

Next ==
    \/ \E i \in Instances, h \in Hashes, sz \in Sizes :
          \/ RelayGet(i, h, sz)
          \/ \E u \in Uuids : RelayPut(i, u, h, sz)
    \/ \E c \in Atoms : ClientAppend(c)
    \/ \E f \in {"read", "write"} : ClientSend(f)
    \/ ServerParse

-----------------------------------------------------------------------------
\* A name the server parses yields non-empty hash and size fields and
\* fields without separators.
TypeOK ==
    /\ name \in Seq(Atoms)
    /\ phase \in {"compose", "sent", "parsed"}
    /\ parsed # Nil =>
         /\ parsed \in Digest
         /\ parsed.hash # <<>>
         /\ "/" \notin ToSet(parsed.hash) \cup ToSet(parsed.instance)

\* Spec 4.9 and 8: the server accepts exactly the two documented forms; any
\* other name is rejected with InvalidArgument (by the parser or by
\* validateDigest).
DocumentedFormsOnly ==
    phase = "parsed" /\ accepted =>
        IF form = "read" THEN DocumentedRead(name) ELSE DocumentedWrite(name)
=============================================================================
