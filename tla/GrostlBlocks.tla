----------------------------- MODULE GrostlBlocks -----------------------------
(* The functions on Grostl's blocks that grostl.cpp is built from, and the     *)
(* sensitive values of its crypto instances, whose message is the block and    *)
(* whose key is the chaining value.                                            *)
(*                                                                             *)
(* A block is [0..63 -> Byte], column after column.                            *)
EXTENDS AesTables

Place == 0..63
ZeroBlock == [i \in Place |-> 0]
NoMasks == [imask |-> ZeroBlock, omask |-> ZeroBlock]

xor_bytes(in, mask) == [i \in Place |-> Xor8(in[i], mask[i])]

\* How many columns a row is moved by in each permutation.
Moved(perm, row) ==
    IF perm = "p" THEN row ELSE IF row < 4 THEN 2 * row + 1 ELSE 2 * row - 8

shift_p(i) == (i + 8 * Moved("p", i % 8)) % 64
shift_q(i) == (i + 8 * Moved("q", i % 8)) % 64
shift_inv_p(i) == (i + 64 - 8 * Moved("p", i % 8)) % 64

shift_bytes(perm, in) == [i \in Place |-> in[IF perm = "p" THEN shift_p(i) ELSE shift_q(i)]]

\* add_round_const_p changes the first row, add_round_const_q the last row and
\* complements every byte.
add_round_const(perm, in, r) ==
    [i \in Place |->
        LET const == Xor8(16 * (i \div 8), r) IN
        IF perm = "p" THEN IF i % 8 = 0 THEN Xor8(in[i], const) ELSE in[i]
                      ELSE Xor8(IF i % 8 = 7 THEN Xor8(in[i], const) ELSE in[i], 255)]

\* sub_bytes_masked; with masks of zero, sub_bytes
sub_bytes(in, m) == [i \in Place |-> Xor8(sbox[Xor8(in[i], m.imask[i])], m.omask[i])]

mix_bytes(in) ==
    [i \in Place |->
        LET below(n) == in[8 * (i \div 8) + ((i + n) % 8)] IN
        Xor8(Xor8(Xor8(Times2[below(0)], Times2[below(1)]), Xor8(Times3[below(2)], Times4[below(3)])),
             Xor8(Xor8(Times5[below(4)], Times3[below(5)]), Xor8(Times5[below(6)], Times7[below(7)])))]

\* x4: from the mask after the mixing to that of the input
Remask(perm, m) == xor_bytes(mix_bytes(shift_bytes(perm, m.omask)), m.imask)

\* The body of the loops of permute_p, permute_q and the masked compress
Turn(perm, in, m, r) ==
    xor_bytes(mix_bytes(shift_bytes(perm, sub_bytes(add_round_const(perm, in, r), m))),
              Remask(perm, m))

-----------------------------------------------------------------------------
\* One register for each byte holds the substituted byte of q, then that of p.
dp512_hd_r0(m, n, k) ==
    Xor8(sbox[add_round_const("q", m, 0)[n]],
         sbox[Xor8(IF n % 8 = 0 THEN Xor8(m[n], 2 * n) ELSE m[n], k)])

\* Bytes share registers by their place after the shift.
dp64_hd_r0(m, n, k) ==
    Xor8(sbox[add_round_const("q", m, 0)[shift_q(shift_inv_p(n))]],
         sbox[Xor8(IF n % 8 = 0 THEN Xor8(m[n], 2 * n) ELSE m[n], k)])
===============================================================================
