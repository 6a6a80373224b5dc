----------------------------- MODULE ResourceNameFormat -------------------------
(***************************************************************************)
(* ByteStream resource names: how the gRPC CAS relay (part_002) builds     *)
(* them with fmt.Sprintf, how byteStreamServer (part_000) parses them with *)
(* strings.FieldsFunc and strconv.ParseInt, and how the integrity adapter  *)
(* then validates the digest (validateDigest).  A name is a sequence of    *)
(* atoms: "/" and a few characters and words; a field is a non-empty run   *)
(* of atoms other than "/".                                                *)
(***************************************************************************)
EXTENDS Integers, Sequences, SequencesExt

CONSTANTS
    Instances,      \* instance names the relay's digests carry (words)
    Hashes,         \* lower-case hex hashes of the relay's digests
    Sizes,          \* sizes of the relay's digests
    Uuids,          \* uuid.NewRandom() strings
    HashLengths     \* hash lengths util.DigestFormatFromLength recognizes

Atoms == {"/", "blobs", "uploads", "a", "A", "0", "1", "+", "-"}
Digits == {"0", "1"}
LowerHex == {"0", "1", "a"}
CharLen(c) == CASE c = "blobs" -> 5 [] c = "uploads" -> 7 [] OTHER -> 1

Nil == [nil |-> TRUE]
Digest == [instance : Seq(Atoms), hash : Seq(Atoms), size : Int]

-----------------------------------------------------------------------------
(* Conversions.                                                            *)

\* strings.FieldsFunc(s, r == '/'): the maximal runs of non-separators.
RECURSIVE FieldsFrom(_, _)
FieldsFrom(s, cur) ==
    IF s = <<>> THEN (IF cur = <<>> THEN <<>> ELSE <<cur>>)
    ELSE IF Head(s) = "/"
         THEN (IF cur = <<>> THEN <<>> ELSE <<cur>>) \o FieldsFrom(Tail(s), <<>>)
         ELSE FieldsFrom(Tail(s), Append(cur, Head(s)))

\* Mutant: strings.Split(s, "/"), which keeps empty fields.
RECURSIVE SplitFrom(_, _)
SplitFrom(s, cur) ==
    IF s = <<>> THEN <<cur>>
    ELSE IF Head(s) = "/" THEN <<cur>> \o SplitFrom(Tail(s), <<>>)
         ELSE SplitFrom(Tail(s), Append(cur, Head(s)))

Split(s) == SplitFrom(s, <<>>)

Fields(s) == FieldsFrom(s, <<>>)

\* Joining fields with "/", as the Sprintf formats do.
Join(fs) == FoldLeft(LAMBDA acc, f : IF acc = <<>> THEN f ELSE acc \o <<"/">> \o f,
                     <<>>, fs)

DigitsValue(ds) == FoldLeft(LAMBDA acc, c : acc * 10 + (IF c = "1" THEN 1 ELSE 0), 0, ds)

\* strconv.ParseInt(f, 10, 64) succeeds: an optional sign and at least one
\* decimal digit (the bounded names never reach the 64-bit range).
IsInt(f) ==
    \/ f # <<>> /\ ToSet(f) \subseteq Digits
    \/ Len(f) > 1 /\ Head(f) \in {"+", "-"} /\ ToSet(Tail(f)) \subseteq Digits

IntValue(f) ==
    CASE Head(f) = "-" -> -DigitsValue(Tail(f))
      [] Head(f) = "+" -> DigitsValue(Tail(f))
      [] OTHER -> DigitsValue(f)

\* %d: the decimal digits of a non-negative size.
RECURSIVE Decimal(_)
Decimal(n) == IF n < 10 THEN <<IF n = 1 THEN "1" ELSE "0">>
              ELSE Decimal(n \div 10) \o Decimal(n % 10)

-----------------------------------------------------------------------------
(* parseResourceNameRead / parseResourceNameWrite.  Go's fields[i] is      *)
(* f[i + 1].                                                               *)

ParseRead(s) ==
    LET f == Fields(s)
        l == Len(f)
    IN IF (l # 3 /\ l # 4) \/ f[l - 2] # <<"blobs">> THEN Nil
       ELSE IF ~IsInt(f[l]) THEN Nil
       ELSE [instance |-> IF l = 4 THEN f[1] ELSE <<>>,
             hash |-> f[l - 1], size |-> IntValue(f[l])]

\* Mutant: the instance test copied from the read parser (l == 4).
ParseWriteInstanceFromRead(s) ==
    LET f == Fields(s)
        l == Len(f)
    IN IF (l # 5 /\ l # 6) \/ f[l - 4] # <<"uploads">> \/ f[l - 2] # <<"blobs">> THEN Nil
       ELSE IF ~IsInt(f[l]) THEN Nil
       ELSE [instance |-> IF l = 4 THEN f[1] ELSE <<>>,
             hash |-> f[l - 1], size |-> IntValue(f[l])]

ParseWrite(s) ==
    LET f == Fields(s)
        l == Len(f)
    IN IF (l # 5 /\ l # 6) \/ f[l - 4] # <<"uploads">> \/ f[l - 2] # <<"blobs">> THEN Nil
       ELSE IF ~IsInt(f[l]) THEN Nil
       ELSE [instance |-> IF l = 6 THEN f[1] ELSE <<>>,
             hash |-> f[l - 1], size |-> IntValue(f[l])]

\* validateDigest: a recognized hash length, lower-case hex only, size >= 0.
ValidDigest(d) ==
    /\ FoldLeft(LAMBDA n, c : n + CharLen(c), 0, d.hash) \in HashLengths
    /\ ToSet(d.hash) \subseteq LowerHex
    /\ d.size >= 0

\* The relay's names (Get and Put).
ReadName(inst, hash, size) ==
    Join((IF inst = <<>> THEN <<>> ELSE <<inst>>) \o <<<<"blobs">>, hash, Decimal(size)>>)

WriteName(inst, uuid, hash, size) ==
    Join((IF inst = <<>> THEN <<>> ELSE <<inst>>)
         \o <<<<"uploads">>, uuid, <<"blobs">>, hash, Decimal(size)>>)

\* The forms the spec documents: no empty segment, fixed words at their
\* positions from the tail, and an unsigned decimal size.
DocumentedRead(s) ==
    LET f == Fields(s)
        l == Len(f)
    IN /\ Join(f) = s
       /\ l \in {3, 4} /\ f[l - 2] = <<"blobs">>
       /\ f[l] # <<>> /\ ToSet(f[l]) \subseteq Digits

DocumentedWrite(s) ==
    LET f == Fields(s)
        l == Len(f)
    IN /\ Join(f) = s
       /\ l \in {5, 6} /\ f[l - 4] = <<"uploads">> /\ f[l - 2] = <<"blobs">>
       /\ f[l] # <<>> /\ ToSet(f[l]) \subseteq Digits
=============================================================================
