-------------------------------- MODULE SoftDes --------------------------------
(* DES as des.cpp computes it, and the sensitive value of its crypto instance  *)
(* crypto_des_hd_r0.cpp.  A word of n bits is [0 .. n-1 -> {0, 1}], bit 0 the  *)
(* lowest one; convert_bytes makes it the first bit of a text.                 *)
EXTENDS Integers, Sequences

CONSTANTS
    DesTexts   \* pairs [key, pt, ct]: texts of 64 bits that belong together

VARIABLES
    pc,        \* "start", "schedule", "rounds" or "done"
    job,       \* the key and the text, and whether it is decrypted
    cd,        \* l and r of the key schedule, 28 bits each
    sk,        \* the subkeys
    l_n, r_n, round,
    halves,    \* history: l_n and r_n before each round and after the last
    result

vars == <<pc, job, cd, sk, l_n, r_n, round, halves, result>>

Bits(n) == 0..(n - 1)

-----------------------------------------------------------------------------
(* Tables. *)
ip == <<
    58, 50, 42, 34, 26, 18, 10,  2, 60, 52, 44, 36, 28, 20, 12,  4,
    62, 54, 46, 38, 30, 22, 14,  6, 64, 56, 48, 40, 32, 24, 16,  8,
    57, 49, 41, 33, 25, 17,  9,  1, 59, 51, 43, 35, 27, 19, 11,  3,
    61, 53, 45, 37, 29, 21, 13,  5, 63, 55, 47, 39, 31, 23, 15,  7 >>
e == <<
    32,  1,  2,  3,  4,  5,  4,  5,  6,  7,  8,  9,  8,  9, 10, 11,
    12, 13, 12, 13, 14, 15, 16, 17, 16, 17, 18, 19, 20, 21, 20, 21,
    22, 23, 24, 25, 24, 25, 26, 27, 28, 29, 28, 29, 30, 31, 32,  1 >>
p == <<
    16,  7, 20, 21, 29, 12, 28, 17,  1, 15, 23, 26,  5, 18, 31, 10,
     2,  8, 24, 14, 32, 27,  3,  9, 19, 13, 30,  6, 22, 11,  4, 25 >>
pc1 == <<
    57, 49, 41, 33, 25, 17,  9,  1, 58, 50, 42, 34, 26, 18,
    10,  2, 59, 51, 43, 35, 27, 19, 11,  3, 60, 52, 44, 36,
    63, 55, 47, 39, 31, 23, 15,  7, 62, 54, 46, 38, 30, 22,
    14,  6, 61, 53, 45, 37, 29, 21, 13,  5, 28, 20, 12,  4 >>
pc2 == <<
    14, 17, 11, 24,  1,  5,  3, 28, 15,  6, 21, 10,
    23, 19, 12,  4, 26,  8, 16,  7, 27, 20, 13,  2,
    41, 52, 31, 37, 47, 55, 30, 40, 51, 45, 33, 48,
    44, 49, 39, 56, 34, 53, 46, 42, 50, 36, 29, 32 >>
rot == << 1, 1, 2, 2, 2, 2, 2, 2, 1, 2, 2, 2, 2, 2, 2, 1 >>
ps == << 5, 4, 3, 2, 6, 1 >>
sbox == <<
  << 14,  4, 13,  1,  2, 15, 11,  8,  3, 10,  6, 12,  5,  9,  0,  7,
     0, 15,  7,  4, 14,  2, 13,  1, 10,  6, 12, 11,  9,  5,  3,  8,
     4,  1, 14,  8, 13,  6,  2, 11, 15, 12,  9,  7,  3, 10,  5,  0,
    15, 12,  8,  2,  4,  9,  1,  7,  5, 11,  3, 14, 10,  0,  6, 13 >>,
  << 15,  1,  8, 14,  6, 11,  3,  4,  9,  7,  2, 13, 12,  0,  5, 10,
     3, 13,  4,  7, 15,  2,  8, 14, 12,  0,  1, 10,  6,  9, 11,  5,
     0, 14,  7, 11, 10,  4, 13,  1,  5,  8, 12,  6,  9,  3,  2, 15,
    13,  8, 10,  1,  3, 15,  4,  2, 11,  6,  7, 12,  0,  5, 14,  9 >>,
  << 10,  0,  9, 14,  6,  3, 15,  5,  1, 13, 12,  7, 11,  4,  2,  8,
    13,  7,  0,  9,  3,  4,  6, 10,  2,  8,  5, 14, 12, 11, 15,  1,
    13,  6,  4,  9,  8, 15,  3,  0, 11,  1,  2, 12,  5, 10, 14,  7,
     1, 10, 13,  0,  6,  9,  8,  7,  4, 15, 14,  3, 11,  5,  2, 12 >>,
  << 7, 13, 14,  3,  0,  6,  9, 10,  1,  2,  8,  5, 11, 12,  4, 15,
    13,  8, 11,  5,  6, 15,  0,  3,  4,  7,  2, 12,  1, 10, 14,  9,
    10,  6,  9,  0, 12, 11,  7, 13, 15,  1,  3, 14,  5,  2,  8,  4,
     3, 15,  0,  6, 10,  1, 13,  8,  9,  4,  5, 11, 12,  7,  2, 14 >>,
  << 2, 12,  4,  1,  7, 10, 11,  6,  8,  5,  3, 15, 13,  0, 14,  9,
    14, 11,  2, 12,  4,  7, 13,  1,  5,  0, 15, 10,  3,  9,  8,  6,
     4,  2,  1, 11, 10, 13,  7,  8, 15,  9, 12,  5,  6,  3,  0, 14,
    11,  8, 12,  7,  1, 14,  2, 13,  6, 15,  0,  9, 10,  4,  5,  3 >>,
  << 12,  1, 10, 15,  9,  2,  6,  8,  0, 13,  3,  4, 14,  7,  5, 11,
    10, 15,  4,  2,  7, 12,  9,  5,  6,  1, 13, 14,  0, 11,  3,  8,
     9, 14, 15,  5,  2,  8, 12,  3,  7,  0,  4, 10,  1, 13, 11,  6,
     4,  3,  2, 12,  9,  5, 15, 10, 11, 14,  1,  7,  6,  0,  8, 13 >>,
  << 4, 11,  2, 14, 15,  0,  8, 13,  3, 12,  9,  7,  5, 10,  6,  1,
    13,  0, 11,  7,  4,  9,  1, 10, 14,  3,  5, 12,  2, 15,  8,  6,
     1,  4, 11, 13, 12,  3,  7, 14, 10, 15,  6,  8,  0,  5,  9,  2,
     6, 11, 13,  8,  1,  4, 10,  7,  9,  5,  0, 15, 14,  2,  3, 12 >>,
  << 13,  2,  8,  4,  6, 15, 11,  1, 10,  9,  3, 14,  5,  0, 12,  7,
     1, 15, 13,  8, 10,  3,  7,  4, 12,  5,  6, 11,  0, 14,  9,  2,
     7, 11,  4,  1,  9, 12, 14,  2,  0,  6, 10, 13, 15,  3,  5,  8,
     2,  1, 14,  7,  4, 10,  8, 13, 15, 12,  9,  0,  3,  5,  6, 11 >> >>

-----------------------------------------------------------------------------
(* des.h, utility.h *)

permute(lut, in) == [i \in Bits(Len(lut)) |-> in[lut[i + 1] - 1]]

permute_inv(lut, in) ==
    [b \in Bits(Len(lut)) |-> in[CHOOSE i \in Bits(Len(lut)) : lut[i + 1] = b + 1]]

XorBits(x, y) == [b \in DOMAIN x |-> (x[b] + y[b]) % 2]

\* (in >> n * size) & (2^size - 1)
Chunk(in, n, size) == [b \in Bits(size) |-> in[n * size + b]]
revb(in, n) == [b \in Bits(n) |-> in[n - 1 - b]]

Number(in) == in[0] + 2 * in[1] + 4 * in[2] + 8 * in[3] + 16 * in[4] + 32 * in[5]
Nibble(v) == [b \in Bits(4) |-> (v \div 2^b) % 2]

\* The 4 bits that table n gives for 6 bits of input.
S(n, in) == revb(Nibble(sbox[n + 1][Number(permute(ps, in)) + 1]), 4)

\* The round function, before and after its permutation.
Boxes(r, k) ==
    LET x == XorBits(permute(e, r), k)
    IN  [b \in Bits(32) |-> S(b \div 4, Chunk(x, b \div 4, 6))[b % 4]]

f(r, k) == permute(p, Boxes(r, k))

-----------------------------------------------------------------------------
Blank(n) == [b \in Bits(n) |-> 0]

Init ==
    /\ pc = "start" /\ job = [key |-> Blank(64), in |-> Blank(64), decrypt |-> FALSE]
    /\ cd = [l |-> Blank(28), r |-> Blank(28)] /\ sk = <<>>
    /\ l_n = Blank(32) /\ r_n = Blank(32) /\ round = 0 /\ halves = <<>>
    /\ result = Blank(64)

\* key_schedule
SetKey(key, in, decrypt) ==
    /\ pc = "start" /\ pc' = "schedule"
    /\ job' = [key |-> key, in |-> in, decrypt |-> decrypt]
    /\ LET x == permute(pc1, key) IN cd' = [l |-> Chunk(x, 0, 28), r |-> Chunk(x, 1, 28)]
    /\ UNCHANGED <<sk, l_n, r_n, round, halves, result>>

Rotated(in, n) == [b \in Bits(28) |-> in[(b + n) % 28]]

Subkey ==
    /\ pc = "schedule" /\ Len(sk) < 16
    /\ LET n == rot[Len(sk) + 1] IN cd' = [l |-> Rotated(cd.l, n), r |-> Rotated(cd.r, n)]
    /\ sk' = Append(sk, permute(pc2, [b \in Bits(56) |->
                                        IF b < 28 THEN cd'.l[b] ELSE cd'.r[b - 28]]))
    /\ UNCHANGED <<pc, job, l_n, r_n, round, halves, result>>

\* encrypt, and decrypt with the subkeys in the other order
RoundKey(n) == IF job.decrypt THEN sk[17 - n] ELSE sk[n]

InitialPermutation ==
    /\ pc = "schedule" /\ Len(sk) = 16 /\ pc' = "rounds"
    /\ LET x == permute(ip, job.in) IN
        /\ l_n' = Chunk(x, 0, 32) /\ r_n' = Chunk(x, 1, 32)
        /\ halves' = << <<Chunk(x, 0, 32), Chunk(x, 1, 32)>> >>
    /\ UNCHANGED <<job, cd, sk, round, result>>

Round ==
    /\ pc = "rounds" /\ round < 16
    /\ round' = round + 1
    /\ l_n' = r_n
    /\ r_n' = XorBits(l_n, f(r_n, RoundKey(round + 1)))
    /\ halves' = Append(halves, <<l_n', r_n'>>)
    /\ UNCHANGED <<pc, job, cd, sk, result>>

FinalPermutation ==
    /\ pc = "rounds" /\ round = 16 /\ pc' = "done"
    /\ result' = permute_inv(ip, [b \in Bits(64) |-> IF b < 32 THEN r_n[b] ELSE l_n[b - 32]])
    /\ UNCHANGED <<job, cd, sk, l_n, r_n, round, halves>>

Next == \/ \E t \in DesTexts : SetKey(t.key, t.pt, FALSE) \/ SetKey(t.key, t.ct, TRUE)
        \/ Subkey \/ InitialPermutation \/ Round \/ FinalPermutation

-----------------------------------------------------------------------------
(* crypto_des_hd_r0: the key is the first subkey, each guess six of its bits,  *)
(* the first of them the highest.                                              *)

set_key(subkey) == [n \in Bits(8) |-> revb(Chunk(subkey, n, 6), 6)]

compute(text, n, k) ==
    LET x  == permute(ip, text)
        l0 == Chunk(x, 0, 32)
        r0 == Chunk(x, 1, 32)
        e0 == Chunk(permute(e, r0), n, 6)
    IN  XorBits(S(n, XorBits(e0, revb(k, 6))),
                Chunk(permute_inv(p, XorBits(l0, r0)), n, 4))

-----------------------------------------------------------------------------
TypeOK ==
    /\ pc \in {"start", "schedule", "rounds", "done"}
    /\ round \in 0..16 /\ Len(sk) <= 16 /\ Len(halves) <= 17
    /\ l_n \in [Bits(32) -> 0..1] /\ r_n \in [Bits(32) -> 0..1]
    /\ result \in [Bits(64) -> 0..1]

\* Both directions give the other text.
CiphersAgree ==
    pc = "done" => \A t \in DesTexts :
        IF job.decrypt THEN job.key = t.key /\ job.in = t.ct => result = t.pt
                       ELSE job.key = t.key /\ job.in = t.pt => result = t.ct

\* With the right six bits, the sensitive value is the change of four bits of
\* the right half in the first round, in the order of the substitution tables.
TargetsAreTransitions ==
    (pc = "done" /\ ~job.decrypt) => \A n \in Bits(8) :
        compute(job.in, n, set_key(sk[1])[n])
            = Chunk(permute_inv(p, XorBits(halves[1][2], halves[2][2])), n, 4)
===============================================================================
