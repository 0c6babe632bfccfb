------------------------------- MODULE AesTables -------------------------------
(* Bytes as integers, and the tables of aes.cpp.  attack_last_round.cpp has    *)
(* its own copies of the inverse substitution and of the row shift, aes.c of   *)
(* dpacontest_v2 one of the substitution.                                      *)
EXTENDS Integers

LOCAL INSTANCE Bitwise

Byte == 0..255
Index == 0..15

\* x ^ y on bytes, by the exclusive or of their halves
NibbleXor == [x \in Index |-> [y \in Index |-> x ^^ y]]
Xor8(x, y) == 16 * NibbleXor[x \div 16][y \div 16] + NibbleXor[x % 16][y % 16]

\* popcnt and hw
Bit(x, b) == (x \div 2^b) % 2
popcnt == [x \in Byte |-> Bit(x, 0) + Bit(x, 1) + Bit(x, 2) + Bit(x, 3)
                          + Bit(x, 4) + Bit(x, 5) + Bit(x, 6) + Bit(x, 7)]

\* The entry for 0 is the first.
sbox_entries == <<
     99, 124, 119, 123, 242, 107, 111, 197,  48,   1, 103,  43, 254, 215, 171, 118,
    202, 130, 201, 125, 250,  89,  71, 240, 173, 212, 162, 175, 156, 164, 114, 192,
    183, 253, 147,  38,  54,  63, 247, 204,  52, 165, 229, 241, 113, 216,  49,  21,
      4, 199,  35, 195,  24, 150,   5, 154,   7,  18, 128, 226, 235,  39, 178, 117,
      9, 131,  44,  26,  27, 110,  90, 160,  82,  59, 214, 179,  41, 227,  47, 132,
     83, 209,   0, 237,  32, 252, 177,  91, 106, 203, 190,  57,  74,  76,  88, 207,
    208, 239, 170, 251,  67,  77,  51, 133,  69, 249,   2, 127,  80,  60, 159, 168,
     81, 163,  64, 143, 146, 157,  56, 245, 188, 182, 218,  33,  16, 255, 243, 210,
    205,  12,  19, 236,  95, 151,  68,  23, 196, 167, 126,  61, 100,  93,  25, 115,
     96, 129,  79, 220,  34,  42, 144, 136,  70, 238, 184,  20, 222,  94,  11, 219,
    224,  50,  58,  10,  73,   6,  36,  92, 194, 211, 172,  98, 145, 149, 228, 121,
    231, 200,  55, 109, 141, 213,  78, 169, 108,  86, 244, 234, 101, 122, 174,   8,
    186, 120,  37,  46,  28, 166, 180, 198, 232, 221, 116,  31,  75, 189, 139, 138,
    112,  62, 181, 102,  72,   3, 246,  14,  97,  53,  87, 185, 134, 193,  29, 158,
    225, 248, 152,  17, 105, 217, 142, 148, 155,  30, 135, 233, 206,  85,  40, 223,
    140, 161, 137,  13, 191, 230,  66, 104,  65, 153,  45,  15, 176,  84, 187,  22 >>

sbox_inv_entries == <<
     82,   9, 106, 213,  48,  54, 165,  56, 191,  64, 163, 158, 129, 243, 215, 251,
    124, 227,  57, 130, 155,  47, 255, 135,  52, 142,  67,  68, 196, 222, 233, 203,
     84, 123, 148,  50, 166, 194,  35,  61, 238,  76, 149,  11,  66, 250, 195,  78,
      8,  46, 161, 102,  40, 217,  36, 178, 118,  91, 162,  73, 109, 139, 209,  37,
    114, 248, 246, 100, 134, 104, 152,  22, 212, 164,  92, 204,  93, 101, 182, 146,
    108, 112,  72,  80, 253, 237, 185, 218,  94,  21,  70,  87, 167, 141, 157, 132,
    144, 216, 171,   0, 140, 188, 211,  10, 247, 228,  88,   5, 184, 179,  69,   6,
    208,  44,  30, 143, 202,  63,  15,   2, 193, 175, 189,   3,   1,  19, 138, 107,
     58, 145,  17,  65,  79, 103, 220, 234, 151, 242, 207, 206, 240, 180, 230, 115,
    150, 172, 116,  34, 231, 173,  53, 133, 226, 249,  55, 232,  28, 117, 223, 110,
     71, 241,  26, 113,  29,  41, 197, 137, 111, 183,  98,  14, 170,  24, 190,  27,
    252,  86,  62,  75, 198, 210, 121,  32, 154, 219, 192, 254, 120, 205,  90, 244,
     31, 221, 168,  51, 136,   7, 199,  49, 177,  18,  16,  89,  39, 128, 236,  95,
     96,  81, 127, 169,  25, 181,  74,  13,  45, 229, 122, 159, 147, 201, 156, 239,
    160, 224,  59,  77, 174,  42, 245, 176, 200, 235, 187,  60, 131,  83, 153,  97,
     23,  43,   4, 126, 186, 119, 214,  38, 225, 105,  20,  99,  85,  33,  12, 125 >>

sbox == [x \in Byte |-> sbox_entries[x + 1]]
sbox_inv == [x \in Byte |-> sbox_inv_entries[x + 1]]

rcon == <<1, 2, 4, 8, 16, 32, 64, 128, 27, 54>>

\* Byte k comes from byte shift(k): the row k % 4 moves by as many columns.
shift(k) == (5 * k) % 16
shift_inv(k) == (13 * k) % 16

-------------------------------------------------------------------------------
(* GF_1 .. GF_F.  The macros leave more than eight bits, but no higher bit     *)
(* comes down again, so cutting each product is cutting the last one.          *)

GF_2(x) == IF x >= 128 THEN Xor8((2 * x) % 256, 27) ELSE 2 * x
GF_4(x) == GF_2(GF_2(x))
GF_8(x) == GF_2(GF_4(x))
GF_3(x) == Xor8(GF_2(x), x)
GF_9(x) == Xor8(GF_8(x), x)
GF_B(x) == Xor8(GF_9(x), GF_2(x))
GF_D(x) == Xor8(GF_9(x), GF_4(x))
GF_E(x) == Xor8(GF_8(x), Xor8(GF_4(x), GF_2(x)))
GF_5(x) == Xor8(GF_4(x), x)
GF_7(x) == Xor8(GF_4(x), GF_3(x))

\* The products, tabulated.
Times1 == [x \in Byte |-> x]
Times2 == [x \in Byte |-> GF_2(x)]
Times3 == [x \in Byte |-> GF_3(x)]
Times9 == [x \in Byte |-> GF_9(x)]
TimesB == [x \in Byte |-> GF_B(x)]
TimesD == [x \in Byte |-> GF_D(x)]
TimesE == [x \in Byte |-> GF_E(x)]
Times4 == [x \in Byte |-> GF_4(x)]
Times5 == [x \in Byte |-> GF_5(x)]
Times7 == [x \in Byte |-> GF_7(x)]
===============================================================================
