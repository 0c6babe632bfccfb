------------------------------ MODULE AesBytes ------------------------------
(***************************************************************************)
(* Bytes as vectors of bits, with the operations AES is built from: the    *)
(* exclusive or, the shift, and the products by 2 and 3 in GF(2^8) that    *)
(* aes.h defines as macros.                                                *)
(***************************************************************************)
EXTENDS Integers

Byte == [0 .. 7 -> BOOLEAN]

Zero == [b \in 0 .. 7 |-> FALSE]
Poly == [b \in 0 .. 7 |-> b \in {0, 1, 3, 4}]    \* 0x1B

Xor(x, y) == [b \in 0 .. 7 |-> x[b] # y[b]]

\* x << 1, cut to eight bits when it is stored
Shl(x) == [b \in 0 .. 7 |-> IF b = 0 THEN FALSE ELSE x[b - 1]]

GF_2(x) == IF x[7] THEN Xor(Shl(x), Poly) ELSE Shl(x)
GF_3(x) == Xor(GF_2(x), x)

\* A block of 16 bytes, column by column.
Index == 0 .. 15
Block == [Index -> Byte]
Blank == [k \in Index |-> Zero]

=============================================================================
