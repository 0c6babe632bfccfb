-------------------------- MODULE MCAesEncryptUnit --------------------------
(***************************************************************************)
(* The encryption unit with its substitution table and its key, and three  *)
(* messages: the one of the FIPS-197 example under masks and in the clear, *)
(* as the plain unit takes it, and another one whose two masks are equal.  *)
(***************************************************************************)
EXTENDS AesEncryptUnit, Sequences

ByteOf(n) == [b \in 0 .. 7 |-> (n \div (2^b)) % 2 = 1]

Value(x) == LET bit(b) == IF x[b] THEN 2^b ELSE 0
            IN  bit(0) + bit(1) + bit(2) + bit(3) + bit(4) + bit(5) + bit(6) + bit(7)

\* aes_sbox_lut.sv, the same table as in aes.cpp
SBoxTable == <<
     99, 124, 119, 123, 242, 107, 111, 197,  48,   1, 103,  43, 254, 215, 171, 118,
    202, 130, 201, 125, 250,  89,  71, 240, 173, 212, 162, 175, 156, 164, 114, 192,
    183, 253, 147,  38,  54,  63, 247, 204,  52, 165, 229, 241, 113, 216,  49,  21,
      4, 199,  35, 195,  24, 150,   5, 154,   7,  18, 128, 226, 235,  39, 178, 117,
      9, 131,  44,  26,  27, 110,  90, 160,  82,  59, 214, 179,  41, 227,  47, 132,
     83, 209,   0, 237,  32, 252, 177,  91, 106, 203, 190,  57,  74,  76,  88, 207,
    208, 239, 170, 251,  67,  77,  51, 133,  69, 249,   2, 127,  80,  60, 159, 168,
     81, 163,  64, 143, 146, 157,  56, 245, 188, 182, 218,  33,  16, 255, 243, 210,
    205,  12,  19, 236,  95, 151,  68,  23, 196, 167, 126,  61, 100,  93,  25, 115,
     96, 129,  79, 220,  34,  42, 144, 136,  70, 238, 184,  20, 222,  94,  11, 219,
    224,  50,  58,  10,  73,   6,  36,  92, 194, 211, 172,  98, 145, 149, 228, 121,
    231, 200,  55, 109, 141, 213,  78, 169, 108,  86, 244, 234, 101, 122, 174,   8,
    186, 120,  37,  46,  28, 166, 180, 198, 232, 221, 116,  31,  75, 189, 139, 138,
    112,  62, 181, 102,  72,   3, 246,  14,  97,  53,  87, 185, 134, 193,  29, 158,
    225, 248, 152,  17, 105, 217, 142, 148, 155,  30, 135, 233, 206,  85,  40, 223,
    140, 161, 137,  13, 191, 230,  66, 104,  65, 153,  45,  15, 176,  84, 187,  22 >>

\* aes_key_mem.sv: the key 000102 .. 0F expanded
KeyTable == <<
      0,   1,   2,   3,   4,   5,   6,   7,   8,   9,  10,  11,  12,  13,  14,  15,
    214, 170, 116, 253, 210, 175, 114, 250, 218, 166, 120, 241, 214, 171, 118, 254,
    182, 146, 207,  11, 100,  61, 189, 241, 190, 155, 197,   0, 104,  48, 179, 254,
    182, 255, 116,  78, 210, 194, 201, 191, 108,  89,  12, 191,   4, 105, 191,  65,
     71, 247, 247, 188, 149,  53,  62,   3, 249, 108,  50, 188, 253,   5, 141, 253,
     60, 170, 163, 232, 169, 159, 157, 235,  80, 243, 175,  87, 173, 246,  34, 170,
     94,  57,  15, 125, 247, 166, 146, 150, 167,  85,  61, 193,  10, 163,  31, 107,
     20, 249, 112,  26, 227,  95, 226, 140,  68,  10, 223,  77,  78, 169, 192,  38,
     71,  67, 135,  53, 164,  28, 101, 185, 224,  22, 186, 244, 174, 191, 122, 210,
     84, 153,  50, 209, 240, 133,  87, 104,  16, 147, 237, 156, 190,  44, 151,  78,
     19,  17,  29, 127, 227, 148,  74,  23, 243,   7, 167, 139,  77,  43,  48, 197 >>

MCsbox == [x \in Byte |-> ByteOf(SBoxTable[Value(x) + 1])]
MCsk == [n \in 0 .. 175 |-> ByteOf(KeyTable[n + 1])]

\* A known-answer pair of aes_test_vectors.cpp for this key:
\* 00112233445566778899AABBCCDDEEFF gives 69C4E0D86A7B0430D8CDB78070B4C55A.
KnownText == [k \in Index |-> ByteOf(17 * k)]
KnownCipherTable == <<
    105, 196, 224, 216, 106, 123,   4,  48, 216, 205, 183, 128, 112, 180, 197,  90 >>
KnownCipher == [k \in Index |-> ByteOf(KnownCipherTable[k + 1])]

OtherText == [k \in Index |-> ByteOf(((37 * k) + 90) % 256)]

MCRequests == { <<KnownText, ByteOf(90), ByteOf(195)>>,
                <<KnownText, Zero, Zero>>,
                <<OtherText, ByteOf(129), ByteOf(129)>> }
MCPowerUp == {0, 255}
MCJunk == ByteOf(222)

\* With masks or without, the unit returns the known ciphertext in the clear,
\* byte by byte.
KnownAnswer ==
    (valid_output /\ text = KnownText) => data_out = KnownCipher[count]

=============================================================================
