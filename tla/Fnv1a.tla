-------------------------------- MODULE Fnv1a --------------------------------
(***************************************************************************)
(* FNV-1a over a digest key, as shardingBlobAccess.getBackend computes it: *)
(*                                                                         *)
(*     h := hashInitialization                                             *)
(*     for each byte c of the key: h ^= c; h *= 1099511628211              *)
(*                                                                         *)
(* on a Go uint64, i.e. modulo 2^64.  TLC integers are 32-bit, so a        *)
(* uint64 is a sequence of 8 limbs of 8 bits, least significant first.     *)
(* MCShardRouting checks this against a second formulation (shift-and-add *)
(* multiplication) and against published test vectors.                    *)
(***************************************************************************)
EXTENDS Naturals, Sequences, SequencesExt, Bitwise

Limb == 0..255
Word == [1..8 -> Limb]

\* The Word whose 16-bit quarters are w0 (least significant) to w3.
Word16(w0, w1, w2, w3) ==
    LET q == <<w0, w1, w2, w3>>
    IN [i \in 1..8 |-> IF i % 2 = 1 THEN q[(i + 1) \div 2] % 256
                      ELSE q[i \div 2] \div 256]

\* The FNV-64 offset basis 0xcbf29ce484222325 and prime 0x100000001b3.
OffsetBasis == Word16(\h2325, \h8422, \h9ce4, \hcbf2)
FnvPrime == Word16(\h01b3, \h0000, \h0100, \h0000)

\* Mutant: the carry out of the top limb is kept instead of dropped.
RECURSIVE NormalizeNoWrap(_, _)
NormalizeNoWrap(cols, carry) ==
    IF Len(cols) = 1 THEN <<Head(cols) + carry>>
    ELSE LET v == Head(cols) + carry
         IN <<v % 256>> \o NormalizeNoWrap(Tail(cols), v \div 256)

\* Propagate carries over column sums, least significant first; what
\* carries out of limb 8 is dropped (wrap-around modulo 2^64).
RECURSIVE Normalize(_, _)
Normalize(cols, carry) ==
    IF cols = <<>> THEN <<>>
    ELSE LET v == Head(cols) + carry
         IN <<v % 256>> \o Normalize(Tail(cols), v \div 256)

\* a * b modulo 2^64, schoolbook on limbs.
MulWord(a, b) ==
    Normalize([k \in 1..8 |-> LET terms == {<<i, k + 1 - i>> : i \in 1..k}
                              IN FoldSet(LAMBDA t, acc : acc + a[t[1]] * b[t[2]], 0, terms)],
              0)

\* h ^= uint64(c): only the low limb changes, c is one byte.
XorByte(h, c) == [h EXCEPT ![1] = @ ^^ c]

\* Mutant: FNV-1 (multiply, then xor) instead of FNV-1a.
Fnv1Step(h, c) == XorByte(MulWord(h, FnvPrime), c)

\* The loop body of getBackend's hash: xor, then multiply by the prime.
Fnv1aStep(h, c) == MulWord(XorByte(h, c), FnvPrime)

\* The hash of a key from the initialization constant.
Fnv1a(init, k) == FoldLeft(Fnv1aStep, init, k)

\* The hash as a residue modulo m (m small), most significant limb first.
WordMod(h, m) == FoldRight(LAMBDA l, r : (r * 256 + l) % m, h, 0)

-----------------------------------------------------------------------------
(* Reference: the FNV prime is 2^40 + 2^8 + 0xb3, so h * prime is the sum  *)
(* of h shifted by five limbs, h shifted by one limb and h * 0xb3.         *)

ShiftLimbs(h, k) == [i \in 1..8 |-> IF i > k THEN h[i - k] ELSE 0]

AddWord(a, b) == Normalize([i \in 1..8 |-> a[i] + b[i]], 0)

ScaleWord(h, m) == Normalize([i \in 1..8 |-> h[i] * m], 0)

RefStep(h, c) ==
    LET x == [h EXCEPT ![1] = (@ ^^ c)]
    IN AddWord(AddWord(ShiftLimbs(x, 5), ShiftLimbs(x, 1)), ScaleWord(x, 179))

RECURSIVE RefFnv1a(_, _)
RefFnv1a(init, k) ==
    IF k = <<>> THEN init ELSE RefFnv1a(RefStep(init, Head(k)), Tail(k))

=============================================================================
