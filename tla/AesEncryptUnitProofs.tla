-------------------------- MODULE AesEncryptUnitProofs --------------------------
(* The hardware unit for every substitution table, key schedule, message, pair *)
(* of masks and contents at power-up, and however often it is reset: its types, *)
(* and that it implements the software cipher.  The first needs only that bytes *)
(* stay bytes and counters in their ranges; the second an invariant that says   *)
(* which half of the memories holds what while a stage is under way, and the    *)
(* laws by which masks pass through the products.                               *)
EXTENDS AesEncryptUnit, TLAPS

-----------------------------------------------------------------------------
(* Bytes. *)

\* The exclusive or of two bytes is a byte, and so is a shifted byte.
LEMMA XorByte == ASSUME NEW x, NEW y PROVE Xor(x, y) \in Byte
  BY DEF Xor, Byte

LEMMA ShlByte == ASSUME NEW x \in Byte PROVE Shl(x) \in Byte
  BY DEF Shl, Byte

LEMMA ZeroByte == Zero \in Byte /\ Blank \in Block
  BY DEF Zero, Byte, Blank, Block

-----------------------------------------------------------------------------
(* Addresses. *)

\* The counter addresses a row and a column of the lower half.
LEMMA CounterRange ==
    ASSUME count \in 0 .. 15
    PROVE  row \in Row /\ col \in 0 .. 3
  BY DEF row, col, Row

\* Both column addresses are those of an existing column.
LEMMA AddressRange ==
    ASSUME count \in 0 .. 15
    PROVE  rd_col \in Column /\ wr_col \in Column
<1>1. row \in 0 .. 3 /\ col \in 0 .. 3
  BY CounterRange DEF Row
<1>2. rd_col \in Column
  BY <1>1 DEF rd_col, Column
<1>3. (col - row) % 4 \in 0 .. 3
  BY <1>1
<1>4. wr_col \in Column
  BY <1>1, <1>3 DEF wr_col, Column
<1> QED
  BY <1>2, <1>4

\* Whatever the stage, what is written to the memories is a byte.
LEMMA WrittenByte ==
    ASSUME TypeOK
    PROVE  wr_data \in Byte
<1>1. row \in Row /\ rd_col \in Column
  BY CounterRange, AddressRange DEF TypeOK
<1>2. state \in Byte
  BY <1>1 DEF state, TypeOK
<1>3. sb_out \in Byte /\ ak_wr \in Byte
  BY XorByte DEF sb_out, ak_wr, ak_out
<1>4. mc_out \in Byte
  BY XorByte DEF mc_out
<1>5. buffer \in Byte
  BY DEF TypeOK
<1> QED
  BY <1>2, <1>3, <1>4, <1>5 DEF wr_data

\* A half of the memories is a block.
LEMMA HalfIsBlock ==
    ASSUME NEW mem \in [Row -> [Column -> Byte]], NEW half \in {0, 4}
    PROVE  BlockOf(mem, half) \in Block
<1>1. ASSUME NEW k \in Index PROVE k % 4 \in Row /\ half + (k \div 4) \in Column
  <2>1. k \in 0 .. 15 /\ k % 4 \in 0 .. 3 /\ k \div 4 \in 0 .. 3
    BY DEF Index
  <2> QED BY <2>1 DEF Row, Column
<1>2. ASSUME NEW k \in Index PROVE mem[k % 4][half + (k \div 4)] \in Byte
  BY <1>1
<1> QED
  BY <1>2 DEF BlockOf, Block

-----------------------------------------------------------------------------
(* A clock edge. *)

\* The state machine goes to one of its states, from IDLE only to LOADT.
LEMMA NextStage ==
    ASSUME cs \in Stage
    PROVE  ns \in Stage
  BY DEF ns, Stage, after_addkey

\* The counters stay in range; a message that is accepted starts them at 0, so
\* whatever they held at power-up is gone when they are first used.
LEMMA ControlTypes ==
    ASSUME TypeOK, Control
    PROVE  /\ cs' \in Stage /\ count' \in 0 .. 15 /\ round' \in 0 .. 15
           /\ key_address' \in 0 .. 255
           /\ cs' # "IDLE" => round' \in 0 .. 10 /\ key_address' \in 0 .. 175
<1>1. cs' \in Stage
  BY NextStage DEF TypeOK, Control, Stage
<1>2. count' \in 0 .. 15
  BY DEF TypeOK, Control
<1>3. CASE cs = "IDLE"
  <2>1. round' = 0 /\ key_address' = 0
    BY <1>3 DEF Control
  <2> QED BY <1>1, <1>2, <2>1
<1>4. CASE cs # "IDLE"
  <2>1. round \in 0 .. 10 /\ key_address \in 0 .. 175
    BY <1>4 DEF TypeOK
  <2>2. round' \in 0 .. 10
    BY <1>4, <2>1 DEF Control
  <2>3. key_address' \in 0 .. 175
    BY <1>4, <2>1 DEF Control, next_key
  <2> QED BY <1>1, <1>2, <2>2, <2>3
<1> QED
  BY <1>3, <1>4

\* The memories and the buffer take bytes.
LEMMA MemoryTypes ==
    ASSUME TypeOK, Memory
    PROVE  ram' \in [Row -> [Column -> Byte]] /\ held' \in Block /\ buffer' \in Byte
<1>1. row \in Row /\ wr_col \in Column /\ wr_data \in Byte
  BY CounterRange, AddressRange, WrittenByte DEF TypeOK
<1>2. ram' \in [Row -> [Column -> Byte]]
  BY <1>1 DEF Memory, TypeOK
<1>3. BlockOf(ram', written) \in Block
  BY <1>2, HalfIsBlock DEF written
<1>4. held' \in Block
  BY <1>3 DEF Memory, TypeOK
<1>5. buffer' \in Byte
  BY DEF Memory, TypeOK
<1> QED
  BY <1>2, <1>4, <1>5

\* At power-up the counters hold anything, but the unit is in reset.
LEMMA InitTypes == Init => TypeOK
<1> SUFFICES ASSUME Init PROVE TypeOK
  OBVIOUS
<1>1. PICK n \in PowerUp : count = n % 16 /\ round = n % 16 /\ key_address = n
  BY DEF Init
<1>2. n \in 0 .. 255 /\ n % 16 \in 0 .. 15
  BY UnitAssumption
<1>3. Junk \in Byte /\ 0 \in 0 .. MaxResets
  BY UnitAssumption
<1>4. ram \in [Row -> [Column -> Byte]]
  BY <1>3 DEF Init
<1>5. /\ cs = "IDLE" /\ cs \in Stage /\ count \in 0 .. 15 /\ round \in 0 .. 15
      /\ key_address \in 0 .. 255
  BY <1>1, <1>2 DEF Init, Stage
<1>6. {data_in, imask, omask, buffer} \subseteq Byte
  <2>1. data_in = Zero /\ imask = Zero /\ omask = Zero /\ buffer = Junk
    BY DEF Init
  <2>2. data_in \in Byte /\ imask \in Byte /\ omask \in Byte /\ buffer \in Byte
    BY <2>1, <1>3, ZeroByte
  <2> QED BY <2>2, Zenon
<1>7. {reset, valid_input} \subseteq BOOLEAN
  <2>1. reset = TRUE /\ valid_input = FALSE
    BY Zenon DEF Init
  <2> QED BY <2>1, Zenon
<1>8. text \in Block /\ held \in Block
  BY ZeroByte DEF Init
<1>9. fed \in 0 .. 16 /\ resets \in 0 .. MaxResets
  BY <1>3 DEF Init
<1> QED
  BY <1>4, <1>5, <1>6, <1>7, <1>8, <1>9, Zenon DEF TypeOK

\* The bench sets its inputs to bytes of a request.
LEMMA BenchBytes ==
    ASSUME TypeOK, Next
    PROVE  {data_in', imask', omask'} \subseteq Byte /\ text' \in Block
<1>1. data_in \in Byte /\ imask \in Byte /\ omask \in Byte /\ text \in Block
  BY Zenon DEF TypeOK
<1>2. CASE AssertReset \/ Wait
  <2>1. UNCHANGED <<data_in, imask, omask, text>>
    BY <1>2, Zenon DEF AssertReset, Wait
  <2> QED BY <1>1, <2>1
<1>3. CASE Start
  <2>1. PICK r \in Requests : /\ text' = r[1] /\ imask' = r[2] /\ omask' = r[3]
                              /\ data_in' = r[1][0]
    BY <1>3, Zenon DEF Start
  <2>2. r[1] \in Block /\ r[2] \in Byte /\ r[3] \in Byte
    BY UnitAssumption
  <2>3. r[1][0] \in Byte
    BY <2>2 DEF Block, Index
  <2> QED BY <2>1, <2>2, <2>3
<1>4. CASE Feed
  <2>1. /\ data_in' = text[fed] /\ fed \in 1 .. 15
        /\ UNCHANGED <<imask, omask, text>>
    BY <1>4, Zenon DEF Feed
  <2>2. text[fed] \in Byte
    BY <1>1, <2>1 DEF Block, Index
  <2> QED BY <1>1, <2>1, <2>2
<1> QED
  BY <1>2, <1>3, <1>4, Zenon DEF Next

\* The lines it drives are set or clear.
LEMMA BenchLines ==
    ASSUME TypeOK, Next
    PROVE  {reset', valid_input'} \subseteq BOOLEAN
<1>1. reset' = TRUE \/ reset' = FALSE
  BY Zenon DEF Next, AssertReset, Start, Feed, Wait
<1>2. valid_input' = TRUE \/ valid_input' = FALSE \/ valid_input' = valid_input
  BY Zenon DEF Next, AssertReset, Start, Feed, Wait
<1>3. valid_input \in BOOLEAN
  BY Zenon DEF TypeOK
<1>4. reset' \in BOOLEAN /\ valid_input' \in BOOLEAN
  BY <1>1, <1>2, <1>3, Zenon
<1> QED
  BY <1>4, Zenon

\* It counts the bytes of one message.
LEMMA BenchCounts ==
    ASSUME TypeOK, Next
    PROVE  fed' \in 0 .. 16 /\ resets' \in 0 .. MaxResets
<1>1. fed \in 0 .. 16 /\ resets \in 0 .. MaxResets /\ MaxResets \in Nat
  BY UnitAssumption, Zenon DEF TypeOK
<1>2. \/ fed' \in {0, 1, fed}
      \/ fed \in 1 .. 15 /\ fed' = fed + 1
  <2>1. CASE AssertReset
    BY <2>1 DEF AssertReset
  <2>2. CASE Start
    BY <2>2 DEF Start
  <2>3. CASE Feed
    BY <2>3 DEF Feed
  <2>4. CASE Wait
    <3>1. fed' = IF valid_output /\ last THEN 0 ELSE fed
      BY <2>4, Zenon DEF Wait
    <3> QED BY <3>1
  <2> QED BY <2>1, <2>2, <2>3, <2>4, Zenon DEF Next
<1>3. \/ resets' = resets
      \/ resets < MaxResets /\ resets' = resets + 1
  BY Zenon DEF Next, AssertReset, Start, Feed, Wait
<1> QED
  BY <1>1, <1>2, <1>3

\* Every edge keeps the types.
LEMMA NextTypes == TypeOK /\ [Next]_vars => TypeOK'
<1> SUFFICES ASSUME TypeOK, [Next]_vars PROVE TypeOK'
  OBVIOUS
<1>1. CASE Next
  <2>1. Control /\ Memory
    BY <1>1 DEF Next, AssertReset, Start, Feed, Wait, Clock
  <2>2. {data_in', imask', omask', buffer'} \subseteq Byte
    BY <1>1, <2>1, MemoryTypes, BenchBytes
  <2> QED BY <1>1, <2>1, <2>2, ControlTypes, MemoryTypes, BenchBytes, BenchLines,
             BenchCounts, Zenon DEF TypeOK
<1>2. CASE UNCHANGED vars
  BY <1>2 DEF TypeOK, vars, inputs, bench
<1> QED
  BY <1>1, <1>2

\* aes_encrypt_control and aes_key_mem: from the moment a message is accepted,
\* the round is one of AES-128's and the key address one of the ROM's.
THEOREM UnitTypes == Spec => []TypeOK
  BY InitTypes, NextTypes, PTL DEF Spec

-----------------------------------------------------------------------------
(* The laws of the exclusive or, and that of the products. *)

\* Bytes are equal if their bits are.
LEMMA SameBits ==
    ASSUME NEW x \in Byte, NEW y \in Byte, \A b \in 0 .. 7 : x[b] = y[b]
    PROVE  x = y
  BY DEF Byte

LEMMA XorBit ==
    ASSUME NEW x \in Byte, NEW y \in Byte, NEW b \in 0 .. 7
    PROVE  Xor(x, y)[b] = (x[b] # y[b]) /\ x[b] \in BOOLEAN
  BY DEF Xor, Byte

LEMMA XorZero == ASSUME NEW x \in Byte PROVE Xor(x, Zero) = x
<1>1. \A b \in 0 .. 7 : x[b] \in BOOLEAN /\ Zero[b] = FALSE
  BY DEF Byte, Zero
<1>2. ASSUME NEW b \in 0 .. 7 PROVE Xor(x, Zero)[b] = x[b]
  <2>1. Xor(x, Zero)[b] = (x[b] # Zero[b])
    BY XorBit, ZeroByte
  <2> QED BY <2>1, <1>1, Zenon
<1> QED
  BY <1>2, XorByte, ZeroByte, SameBits

LEMMA XorSelf == ASSUME NEW x \in Byte PROVE Xor(x, x) = Zero
<1>1. ASSUME NEW b \in 0 .. 7 PROVE Xor(x, x)[b] = Zero[b]
  BY XorBit DEF Zero
<1> QED
  BY <1>1, XorByte, ZeroByte, SameBits

LEMMA XorCommutes == ASSUME NEW x \in Byte, NEW y \in Byte PROVE Xor(x, y) = Xor(y, x)
<1>1. ASSUME NEW b \in 0 .. 7 PROVE Xor(x, y)[b] = Xor(y, x)[b]
  <2>1. Xor(x, y)[b] = (x[b] # y[b]) /\ Xor(y, x)[b] = (y[b] # x[b])
    BY XorBit
  <2> QED BY <2>1
<1> QED
  BY <1>1, XorByte, SameBits

LEMMA XorAssociates ==
    ASSUME NEW x \in Byte, NEW y \in Byte, NEW z \in Byte
    PROVE  Xor(Xor(x, y), z) = Xor(x, Xor(y, z))
<1>1. ASSUME NEW b \in 0 .. 7 PROVE Xor(Xor(x, y), z)[b] = Xor(x, Xor(y, z))[b]
  <2>1. x[b] \in BOOLEAN /\ y[b] \in BOOLEAN /\ z[b] \in BOOLEAN
    BY DEF Byte
  <2>2. Xor(Xor(x, y), z)[b] = ((x[b] # y[b]) # z[b])
    <3>1. Xor(Xor(x, y), z)[b] = (Xor(x, y)[b] # z[b]) /\ Xor(x, y)[b] = (x[b] # y[b])
      BY XorBit, XorByte
    <3> QED BY <3>1, Zenon
  <2>3. Xor(x, Xor(y, z))[b] = (x[b] # (y[b] # z[b]))
    <3>1. Xor(x, Xor(y, z))[b] = (x[b] # Xor(y, z)[b]) /\ Xor(y, z)[b] = (y[b] # z[b])
      BY XorBit, XorByte
    <3> QED BY <3>1, Zenon
  <2> QED BY <2>1, <2>2, <2>3
<1> QED
  BY <1>1, XorByte, SameBits

\* A mask that is added twice is gone.
LEMMA XorTwice == ASSUME NEW x \in Byte, NEW m \in Byte PROVE Xor(Xor(x, m), m) = x
  BY XorAssociates, XorSelf, XorZero

\* The terms of a sum of two sums may be exchanged.
LEMMA XorInterchange ==
    ASSUME NEW w \in Byte, NEW x \in Byte, NEW y \in Byte, NEW z \in Byte
    PROVE  Xor(Xor(w, x), Xor(y, z)) = Xor(Xor(w, y), Xor(x, z))
<1>1. Xor(Xor(w, x), Xor(y, z)) = Xor(w, Xor(x, Xor(y, z)))
  BY XorAssociates, XorByte
<1>2. Xor(x, Xor(y, z)) = Xor(y, Xor(x, z))
  <2>1. Xor(x, Xor(y, z)) = Xor(Xor(x, y), z)
    BY XorAssociates
  <2>2. Xor(y, Xor(x, z)) = Xor(Xor(y, x), z)
    BY XorAssociates
  <2> QED BY <2>1, <2>2, XorCommutes
<1>3. Xor(Xor(w, y), Xor(x, z)) = Xor(w, Xor(y, Xor(x, z)))
  BY XorAssociates, XorByte
<1> QED BY <1>1, <1>2, <1>3

Sum4(w, x, y, z) == Xor(Xor(w, x), Xor(y, z))

LEMMA Sum4Turns ==
    ASSUME NEW w \in Byte, NEW x \in Byte, NEW y \in Byte, NEW z \in Byte
    PROVE  Sum4(w, x, y, z) = Sum4(x, y, z, w) /\ Sum4(w, x, y, z) \in Byte
<1>1. Xor(Xor(x, y), Xor(z, w)) = Xor(Xor(y, x), Xor(w, z))
  BY XorCommutes
<1>2. Xor(Xor(x, y), Xor(z, w)) = Xor(Xor(z, w), Xor(x, y))
  BY XorCommutes, XorByte
<1>3. Xor(Xor(z, w), Xor(x, y)) = Xor(Xor(w, z), Xor(x, y))
  BY XorCommutes
<1>4. Xor(Xor(w, z), Xor(x, y)) = Xor(Xor(w, x), Xor(z, y))
  BY XorInterchange
<1>5. Xor(z, y) = Xor(y, z)
  BY XorCommutes
<1> QED BY <1>2, <1>3, <1>4, <1>5, XorByte DEF Sum4

-----------------------------------------------------------------------------
(* Products. *)

\* What a carry out of the top bit adds to a product.
Reduction(c) == IF c THEN Poly ELSE Zero

LEMMA ReductionByte == ASSUME NEW c PROVE Reduction(c) \in Byte /\ Poly \in Byte
  BY ZeroByte DEF Reduction, Poly, Byte

LEMMA ReductionAdds ==
    ASSUME NEW c \in BOOLEAN, NEW d \in BOOLEAN
    PROVE  Xor(Reduction(c), Reduction(d)) = Reduction(c # d)
<1>1. Xor(Poly, Poly) = Zero /\ Xor(Zero, Zero) = Zero
      /\ Xor(Poly, Zero) = Poly /\ Xor(Zero, Poly) = Poly
  BY XorSelf, XorZero, XorCommutes, ReductionByte, ZeroByte
<1>2. CASE c /\ d
  BY <1>1, <1>2 DEF Reduction
<1>3. CASE c /\ ~d
  BY <1>1, <1>3 DEF Reduction
<1>4. CASE ~c /\ d
  BY <1>1, <1>4 DEF Reduction
<1>5. CASE ~c /\ ~d
  BY <1>1, <1>5 DEF Reduction
<1> QED BY <1>2, <1>3, <1>4, <1>5

LEMMA GF_2Split ==
    ASSUME NEW x \in Byte
    PROVE  GF_2(x) = Xor(Shl(x), Reduction(x[7])) /\ GF_2(x) \in Byte
           /\ x[7] \in BOOLEAN
<1>1. x[7] \in BOOLEAN
  BY DEF Byte
<1>2. CASE x[7]
  BY <1>1, <1>2, XorByte DEF GF_2, Reduction
<1>3. CASE ~x[7]
  BY <1>1, <1>3, XorZero, ShlByte DEF GF_2, Reduction
<1> QED BY <1>1, <1>2, <1>3

LEMMA ShlAdds ==
    ASSUME NEW x \in Byte, NEW y \in Byte
    PROVE  Shl(Xor(x, y)) = Xor(Shl(x), Shl(y))
<1>1. ASSUME NEW b \in 0 .. 7 PROVE Shl(Xor(x, y))[b] = Xor(Shl(x), Shl(y))[b]
  <2>1. CASE b = 0
    <3>1. Shl(Xor(x, y))[0] = FALSE /\ Shl(x)[0] = FALSE /\ Shl(y)[0] = FALSE
      BY DEF Shl
    <3>2. Xor(Shl(x), Shl(y))[0] = (Shl(x)[0] # Shl(y)[0])
      BY XorBit, ShlByte
    <3> QED BY <2>1, <3>1, <3>2
  <2>2. CASE b # 0
    <3>1. b - 1 \in 0 .. 7
      BY <2>2
    <3>2. Shl(Xor(x, y))[b] = Xor(x, y)[b - 1] /\ Shl(x)[b] = x[b - 1] /\ Shl(y)[b] = y[b - 1]
      BY <2>2 DEF Shl
    <3>3. Xor(x, y)[b - 1] = (x[b - 1] # y[b - 1])
      BY <3>1, XorBit
    <3>4. Xor(Shl(x), Shl(y))[b] = (Shl(x)[b] # Shl(y)[b])
      BY XorBit, ShlByte
    <3> QED BY <3>2, <3>3, <3>4, Zenon
  <2> QED BY <2>1, <2>2
<1> QED
  BY <1>1, XorByte, ShlByte, SameBits

LEMMA GF_2Adds ==
    ASSUME NEW x \in Byte, NEW y \in Byte
    PROVE  GF_2(Xor(x, y)) = Xor(GF_2(x), GF_2(y))
<1>1. Xor(x, y)[7] = (x[7] # y[7])
  BY XorBit
<1>2. GF_2(Xor(x, y)) = Xor(Xor(Shl(x), Shl(y)), Xor(Reduction(x[7]), Reduction(y[7])))
  <2>1. Reduction(Xor(x, y)[7]) = Xor(Reduction(x[7]), Reduction(y[7]))
    BY <1>1, ReductionAdds, GF_2Split
  <2> QED BY <2>1, GF_2Split, ShlAdds, XorByte
<1>3. Xor(GF_2(x), GF_2(y)) =
        Xor(Xor(Shl(x), Reduction(x[7])), Xor(Shl(y), Reduction(y[7])))
  BY GF_2Split
<1> QED BY <1>2, <1>3, XorInterchange, ShlByte, ReductionByte

LEMMA GF_3Adds ==
    ASSUME NEW x \in Byte, NEW y \in Byte
    PROVE  GF_3(Xor(x, y)) = Xor(GF_3(x), GF_3(y)) /\ GF_3(x) \in Byte
<1>1. GF_2(x) \in Byte /\ GF_2(y) \in Byte
  BY GF_2Split
<1>2. Xor(Xor(GF_2(x), GF_2(y)), Xor(x, y)) = Xor(Xor(GF_2(x), x), Xor(GF_2(y), y))
  BY <1>1, XorInterchange
<1> QED BY <1>2, GF_2Adds, XorByte DEF GF_3

\* The coefficients of a row add up to 1: a mask that is on all bytes of a
\* column is on the result.
LEMMA MaskPasses ==
    ASSUME NEW w \in Byte, NEW x \in Byte, NEW y \in Byte, NEW z \in Byte, NEW m \in Byte
    PROVE  Sum4(GF_2(Xor(w, m)), GF_3(Xor(x, m)), Xor(y, m), Xor(z, m)) =
             Xor(Sum4(GF_2(w), GF_3(x), y, z), m)
<1>1. Sum4(GF_2(m), GF_3(m), m, m) = m
  <2>1. Xor(GF_2(m), Xor(GF_2(m), m)) = m
    <3>1. Xor(GF_2(m), Xor(GF_2(m), m)) = Xor(Xor(GF_2(m), GF_2(m)), m)
      BY XorAssociates, GF_2Split
    <3>2. Xor(Zero, m) = m
      BY XorCommutes, XorZero, ZeroByte
    <3> QED BY <3>1, <3>2, XorSelf, GF_2Split
  <2> QED BY <2>1, XorSelf, XorZero DEF Sum4, GF_3
<1>2. /\ GF_2(Xor(w, m)) = Xor(GF_2(w), GF_2(m)) /\ GF_3(Xor(x, m)) = Xor(GF_3(x), GF_3(m))
      /\ GF_2(w) \in Byte /\ GF_2(m) \in Byte /\ GF_3(x) \in Byte /\ GF_3(m) \in Byte
  BY GF_2Adds, GF_3Adds, GF_2Split
<1> DEFINE a == GF_2(w)
           b == GF_3(x)
           c == GF_2(m)
           d == GF_3(m)
<1>3. a \in Byte /\ b \in Byte /\ c \in Byte /\ d \in Byte
  BY <1>2
<1> HIDE DEF a, b, c, d
<1>4. Xor(Xor(a, c), Xor(b, d)) = Xor(Xor(a, b), Xor(c, d))
  BY <1>3, XorInterchange
<1>5. Xor(Xor(y, m), Xor(z, m)) = Xor(Xor(y, z), Xor(m, m))
  BY XorInterchange
<1>6. Sum4(Xor(a, c), Xor(b, d), Xor(y, m), Xor(z, m)) = Xor(Sum4(a, b, y, z), Sum4(c, d, m, m))
  <2> DEFINE e == Xor(a, b)
             f == Xor(c, d)
             g == Xor(y, z)
             h == Xor(m, m)
  <2>1. e \in Byte /\ f \in Byte /\ g \in Byte /\ h \in Byte
    BY XorByte
  <2> HIDE DEF e, f, g, h
  <2>2. Xor(Xor(e, f), Xor(g, h)) = Xor(Xor(e, g), Xor(f, h))
    BY <2>1, XorInterchange
  <2> QED BY <2>2, <1>4, <1>5 DEF Sum4, e, f, g, h
<1> QED BY <1>1, <1>2, <1>6 DEF a, b, c, d

-----------------------------------------------------------------------------
(* aes_mix_columns: reducing the sum of the products once is the same as        *)
(* reducing each of them.                                                      *)

\* Reduced, product r is the one that coefficient(r) asks for.
Reduced(r) == Xor(product(r), Reduction(carry(r)))

LEMMA ReducedProduct ==
    ASSUME NEW r \in Row, ram[r][rd_col] \in Byte
    PROVE  /\ product(r) \in Byte /\ carry(r) \in BOOLEAN
           /\ coefficient(r) = 1 => Reduced(r) = ram[r][rd_col]
           /\ coefficient(r) = 2 => Reduced(r) = GF_2(ram[r][rd_col])
           /\ coefficient(r) = 3 => Reduced(r) = GF_3(ram[r][rd_col])
<1> DEFINE x == ram[r][rd_col]
<1>1. x \in Byte /\ Shl(x) \in Byte /\ x[7] \in BOOLEAN
  BY ShlByte, GF_2Split
<1>2. coefficient(r) \in {1, 2, 3}
  BY DEF coefficient
<1>3. carry(r) = (x[7] /\ coefficient(r) # 1)
  BY DEF carry
<1>4. CASE coefficient(r) = 1
  <2>1. product(r) = x
    BY <1>4 DEF product
  <2>2. ~carry(r)
    BY <1>4 DEF carry
  <2>3. Reduction(carry(r)) = Zero /\ carry(r) \in BOOLEAN
    BY <1>3, <2>2 DEF Reduction
  <2>4. Reduced(r) = x
    BY <1>1, <2>1, <2>3, XorZero DEF Reduced
  <2> QED BY <1>1, <1>4, <2>1, <2>3, <2>4
<1>5. CASE coefficient(r) = 2
  <2>1. product(r) = Shl(x) /\ carry(r) = x[7]
    BY <1>1, <1>3, <1>5 DEF product
  <2> QED BY <1>1, <1>5, <2>1, GF_2Split DEF Reduced
<1>6. CASE coefficient(r) = 3
  <2>1. product(r) = Xor(Shl(x), x) /\ carry(r) = x[7]
    BY <1>1, <1>3, <1>6 DEF product
  <2> DEFINE d == Reduction(x[7])
  <2>2. d \in Byte
    BY ReductionByte
  <2> HIDE DEF x, d
  <2>3. Xor(Xor(Shl(x), x), d) = Xor(Xor(Shl(x), d), x)
    BY <1>1, <2>2, XorAssociates, XorCommutes
  <2>4. GF_3(x) = Xor(Xor(Shl(x), d), x)
    BY <1>1, GF_2Split DEF GF_3, d
  <2> QED BY <1>1, <1>6, <2>1, <2>3, <2>4, XorByte DEF Reduced, x, d
<1> QED BY <1>2, <1>4, <1>5, <1>6

\* The sum that is reduced once is the sum of the reduced products.
LEMMA ReducedOnce ==
    ASSUME \A r \in Row : ram[r][rd_col] \in Byte
    PROVE  mc_out = Sum4(Reduced(0), Reduced(1), Reduced(2), Reduced(3))
<1> DEFINE p0 == product(0)
           p1 == product(1)
           p2 == product(2)
           p3 == product(3)
           d0 == Reduction(carry(0))
           d1 == Reduction(carry(1))
           d2 == Reduction(carry(2))
           d3 == Reduction(carry(3))
           once == Reduction((carry(0) # carry(1)) # (carry(2) # carry(3)))
<1>1. /\ p0 \in Byte /\ p1 \in Byte /\ p2 \in Byte /\ p3 \in Byte
      /\ d0 \in Byte /\ d1 \in Byte /\ d2 \in Byte /\ d3 \in Byte
      /\ carry(0) \in BOOLEAN /\ carry(1) \in BOOLEAN /\ carry(2) \in BOOLEAN /\ carry(3) \in BOOLEAN
  BY ReducedProduct, ReductionByte DEF Row
<1>2. once = Xor(Xor(d0, d1), Xor(d2, d3))
  <2>1. Xor(d0, d1) = Reduction(carry(0) # carry(1)) /\ Xor(d2, d3) = Reduction(carry(2) # carry(3))
    BY <1>1, ReductionAdds
  <2>2. (carry(0) # carry(1)) \in BOOLEAN /\ (carry(2) # carry(3)) \in BOOLEAN
    BY Zenon
  <2> QED BY <2>1, <2>2, ReductionAdds
<1>3. mc_out = Xor(Sum4(p0, p1, p2, p3), once)
  <2>1. CASE (carry(0) # carry(1)) # (carry(2) # carry(3))
    BY <2>1 DEF mc_out, Reduction, Sum4
  <2>2. CASE ~((carry(0) # carry(1)) # (carry(2) # carry(3)))
    <3>1. Sum4(p0, p1, p2, p3) \in Byte
      BY XorByte DEF Sum4
    <3> QED BY <2>2, <3>1, XorZero DEF mc_out, Reduction, Sum4
  <2> QED BY <2>1, <2>2
<1>4. Reduced(0) = Xor(p0, d0) /\ Reduced(1) = Xor(p1, d1) /\ Reduced(2) = Xor(p2, d2) /\ Reduced(3) = Xor(p3, d3)
  BY DEF Reduced
<1> HIDE DEF p0, p1, p2, p3, d0, d1, d2, d3, once
<1>5. /\ Xor(Xor(p0, d0), Xor(p1, d1)) = Xor(Xor(p0, p1), Xor(d0, d1))
      /\ Xor(Xor(p2, d2), Xor(p3, d3)) = Xor(Xor(p2, p3), Xor(d2, d3))
  BY <1>1, XorInterchange
<1>6. Xor(Xor(Xor(p0, p1), Xor(d0, d1)), Xor(Xor(p2, p3), Xor(d2, d3))) =
        Xor(Xor(Xor(p0, p1), Xor(p2, p3)), Xor(Xor(d0, d1), Xor(d2, d3)))
  <2> DEFINE e == Xor(p0, p1)
             f == Xor(d0, d1)
             g == Xor(p2, p3)
             h == Xor(d2, d3)
  <2>1. e \in Byte /\ f \in Byte /\ g \in Byte /\ h \in Byte
    BY XorByte
  <2> HIDE DEF e, f, g, h
  <2>2. Xor(Xor(e, f), Xor(g, h)) = Xor(Xor(e, g), Xor(f, h))
    BY <2>1, XorInterchange
  <2> QED BY <2>2 DEF e, f, g, h
<1> QED BY <1>2, <1>3, <1>4, <1>5, <1>6 DEF Sum4

\* So it is the column's product with the row of the matrix, whichever row.
LEMMA MixedByRow ==
    ASSUME count \in 0 .. 15, \A r \in Row : ram[r][rd_col] \in Byte
    PROVE  LET below(n) == ram[(row + n) % 4][rd_col]
           IN  mc_out = Sum4(GF_2(below(0)), GF_3(below(1)), below(2), below(3))
<1> DEFINE x(r) == ram[r][rd_col]
<1>1. row \in 0 .. 3
  BY CounterRange DEF Row
<1>2. \A r \in Row : x(r) \in Byte /\ GF_2(x(r)) \in Byte /\ GF_3(x(r)) \in Byte
  BY GF_2Split, GF_3Adds
<1>0. /\ x(0) \in Byte /\ x(1) \in Byte /\ x(2) \in Byte /\ x(3) \in Byte
      /\ \A n \in Row : GF_2(x(n)) \in Byte /\ GF_3(x(n)) \in Byte
      /\ \A a, b, c, d \in Byte : Sum4(a, b, c, d) = Sum4(b, c, d, a)
  BY <1>2, Sum4Turns DEF Row
<1>3. \A r \in Row : /\ coefficient(r) = 1 => Reduced(r) = x(r)
                     /\ coefficient(r) = 2 => Reduced(r) = GF_2(x(r))
                     /\ coefficient(r) = 3 => Reduced(r) = GF_3(x(r))
  BY ReducedProduct
<1>4. CASE row = 0
  <2>1. coefficient(0) = 2 /\ coefficient(1) = 3 /\ coefficient(2) = 1 /\ coefficient(3) = 1
    BY <1>4 DEF coefficient
  <2>2. mc_out = Sum4(GF_2(x(0)), GF_3(x(1)), x(2), x(3))
    BY <1>3, <2>1, ReducedOnce DEF Row
  <2>3. (row + 0) % 4 = 0 /\ (row + 1) % 4 = 1 /\ (row + 2) % 4 = 2 /\ (row + 3) % 4 = 3
    BY <1>4
  <2> QED BY <2>2, <2>3
<1>5. CASE row = 1
  <2>1. coefficient(0) = 1 /\ coefficient(1) = 2 /\ coefficient(2) = 3 /\ coefficient(3) = 1
    BY <1>5 DEF coefficient
  <2>2. mc_out = Sum4(x(0), GF_2(x(1)), GF_3(x(2)), x(3))
    BY <1>3, <2>1, ReducedOnce DEF Row
  <2>3. (row + 0) % 4 = 1 /\ (row + 1) % 4 = 2 /\ (row + 2) % 4 = 3 /\ (row + 3) % 4 = 0
    BY <1>5
  <2>4. Sum4(x(0), GF_2(x(1)), GF_3(x(2)), x(3)) = Sum4(GF_2(x(1)), GF_3(x(2)), x(3), x(0))
    <3>1. GF_2(x(1)) \in Byte /\ GF_3(x(2)) \in Byte
      BY <1>0 DEF Row
    <3> HIDE DEF x
    <3> QED BY <1>0, <3>1
  <2> QED BY <2>2, <2>3, <2>4
<1>6. CASE row = 2
  <2>1. coefficient(0) = 1 /\ coefficient(1) = 1 /\ coefficient(2) = 2 /\ coefficient(3) = 3
    BY <1>6 DEF coefficient
  <2>2. mc_out = Sum4(x(0), x(1), GF_2(x(2)), GF_3(x(3)))
    BY <1>3, <2>1, ReducedOnce DEF Row
  <2>3. (row + 0) % 4 = 2 /\ (row + 1) % 4 = 3 /\ (row + 2) % 4 = 0 /\ (row + 3) % 4 = 1
    BY <1>6
  <2>4. /\ Sum4(x(0), x(1), GF_2(x(2)), GF_3(x(3))) = Sum4(x(1), GF_2(x(2)), GF_3(x(3)), x(0))
        /\ Sum4(x(1), GF_2(x(2)), GF_3(x(3)), x(0)) = Sum4(GF_2(x(2)), GF_3(x(3)), x(0), x(1))
    <3>1. GF_2(x(2)) \in Byte /\ GF_3(x(3)) \in Byte
      BY <1>0 DEF Row
    <3> HIDE DEF x
    <3> QED BY <1>0, <3>1
  <2> QED BY <2>2, <2>3, <2>4
<1>7. CASE row = 3
  <2>1. coefficient(0) = 3 /\ coefficient(1) = 1 /\ coefficient(2) = 1 /\ coefficient(3) = 2
    BY <1>7 DEF coefficient
  <2>2. mc_out = Sum4(GF_3(x(0)), x(1), x(2), GF_2(x(3)))
    BY <1>3, <2>1, ReducedOnce DEF Row
  <2>3. (row + 0) % 4 = 3 /\ (row + 1) % 4 = 0 /\ (row + 2) % 4 = 1 /\ (row + 3) % 4 = 2
    BY <1>7
  <2>4. Sum4(GF_2(x(3)), GF_3(x(0)), x(1), x(2)) = Sum4(GF_3(x(0)), x(1), x(2), GF_2(x(3)))
    <3>1. GF_2(x(3)) \in Byte /\ GF_3(x(0)) \in Byte
      BY <1>0 DEF Row
    <3> HIDE DEF x
    <3> QED BY <1>0, <3>1
  <2> QED BY <2>2, <2>3, <2>4
<1> QED BY <1>1, <1>4, <1>5, <1>6, <1>7

-----------------------------------------------------------------------------
(* The inductive invariant. *)

\* Entry k of a half of the memories.
At(half, k) == ram[k % 4][half + (k \div 4)]

\* The half a stage reads.
reading == IF cs = "MIXCOLS" \/ (cs = "ADDKEY" /\ round = 10) THEN 4 ELSE 0

\* Where entry k goes in a row shift.
Shifted(k) == (4 * (((k \div 4) - (k % 4)) % 4)) + (k % 4)

\* Where a stage puts what it computes from entry k.
To(k) == IF cs = "SHIFTROWS" THEN Shifted(k) ELSE k

\* Entry k of the product of a block and the matrix of the cipher.
Mixed(b, k) == LET below(n) == b[(4 * (k \div 4)) + ((k + n) % 4)]
               IN  Sum4(GF_2(below(0)), GF_3(below(1)), below(2), below(3))

\* The key addition, with the mask that it puts on or changes.
Keyed(b, k) == IF round = 0 THEN Xor(Xor(b[k], imask), sk[k])
               ELSE Xor(Xor(Xor(b[k], sk[(16 * round) + k]), imask), omask)

\* What a stage makes of entry k of the block.
Result(k) == CASE cs = "BYTESUB"   -> Xor(sbox[Xor(held[k], imask)], omask)
               [] cs = "SHIFTROWS" -> held[k]
               [] cs = "MIXCOLS"   -> Mixed(held, k)
               [] cs = "ADDKEY"    -> Keyed(held, k)
               [] OTHER            -> text[k]

\* The bench is one byte ahead of the buffer, the buffer one of the memories.
BenchInv ==
    /\ fed # 0 => \E r \in Requests : text = r[1]
    /\ cs # "IDLE" => ~reset
    /\ cs = "IDLE" => /\ fed \in {0, 1} /\ (valid_input <=> fed = 1)
                      /\ fed = 1 => data_in = text[0] /\ ~reset
    /\ cs = "LOADT" => /\ fed = IF count = 15 THEN 16 ELSE count + 2
                       /\ buffer = text[count]
                       /\ count # 15 => data_in = text[count + 1]
    /\ Busy => fed = 16

\* The key address is that of the byte to be added next.
CountInv ==
    /\ cs = "LOADT" => round = 0 /\ key_address = 0
    /\ cs \in {"BYTESUB", "SHIFTROWS", "MIXCOLS"} =>
         round \in 1 .. 10 /\ key_address = 16 * round
    /\ cs = "MIXCOLS" => round # 10
    /\ cs = "ADDKEY" => key_address = (16 * round) + count
    /\ cs = "STORET" => round = 10

\* Up to the counter the half that is written holds the stage's results, and
\* from the counter on the half that is read holds the block the stage works on.
WrittenInv == writing => \A k \in Index : k < count => At(written, To(k)) = Result(k)
UnreadInv  == Busy => \A k \in Index :
                (k >= count \/ reading # written \/ ~writing) => At(reading, k) = held[k]

UnitInv == TypeOK /\ BenchInv /\ CountInv /\ WrittenInv /\ UnreadInv

-----------------------------------------------------------------------------
(* Addresses. *)

LEMMA Coordinates ==
    ASSUME NEW k \in Index
    PROVE  /\ k % 4 \in Row /\ k \div 4 \in 0 .. 3 /\ k = (4 * (k \div 4)) + (k % 4)
           /\ \A c \in Index : k % 4 = c % 4 /\ k \div 4 = c \div 4 => k = c
  BY DEF Index, Row

\* The row shift moves entry k within its row, and is undone by the software's
\* table.
LEMMA ShiftedPlace ==
    ASSUME NEW k \in Index
    PROVE  /\ Shifted(k) \in Index /\ Shifted(k) % 4 = k % 4
           /\ Shifted(k) \div 4 = ((k \div 4) - (k % 4)) % 4
           /\ (5 * k) % 16 \in Index /\ Shifted((5 * k) % 16) = k
           /\ (5 * Shifted(k)) % 16 = k
  BY DEF Index, Shifted

LEMMA ToPlace ==
    ASSUME NEW k \in Index
    PROVE  To(k) \in Index /\ \A c \in Index : To(k) = To(c) => k = c
  BY ShiftedPlace DEF To

\* The byte that an edge writes is the one for the entry the counter names;
\* all other entries stay.
LEMMA OneWrite ==
    ASSUME TypeOK, writing, Memory, NEW half \in {0, 4}, NEW k \in Index
    PROVE  At(half, k)' = IF half = written /\ k = To(count) THEN wr_data ELSE At(half, k)
<1>1. count \in Index /\ To(count) \in Index /\ written \in {0, 4}
  BY ToPlace DEF TypeOK, Index, written
<1>2. row = To(count) % 4 /\ wr_col = written + (To(count) \div 4)
  <2>1. CASE cs = "SHIFTROWS"
    <3>1. To(count) = Shifted(count) /\ written = 4
      BY <2>1 DEF To, written
    <3>2. Shifted(count) % 4 = count % 4 /\ Shifted(count) \div 4 = ((count \div 4) - (count % 4)) % 4
      BY <1>1, ShiftedPlace
    <3> QED BY <2>1, <3>1, <3>2 DEF row, wr_col, col
  <2>2. CASE cs # "SHIFTROWS"
    <3>1. To(count) = count /\ written = 0
      BY <2>2 DEF To, written
    <3> QED BY <1>1, <2>2, <3>1 DEF row, wr_col, col, Index
  <2> QED BY <2>1, <2>2
<1>3. /\ row \in Row /\ wr_col \in Column /\ k % 4 \in Row /\ half + (k \div 4) \in Column
      /\ k \div 4 \in 0 .. 3 /\ To(count) \div 4 \in 0 .. 3
  <2>1. count \in 0 .. 15
    BY DEF TypeOK
  <2>2. k \div 4 \in 0 .. 3 /\ To(count) \div 4 \in 0 .. 3 /\ k % 4 \in Row
    BY <1>1, Coordinates
  <2> QED BY <2>1, <2>2, CounterRange, AddressRange DEF Column
<1>4. ram' = [ram EXCEPT ![row][wr_col] = wr_data]
  BY DEF Memory
<1>5. ram'[k % 4][half + (k \div 4)] =
        IF k % 4 = row /\ half + (k \div 4) = wr_col THEN wr_data ELSE ram[k % 4][half + (k \div 4)]
  BY <1>3, <1>4 DEF TypeOK
<1>6. (k % 4 = row /\ half + (k \div 4) = wr_col) <=> (half = written /\ k = To(count))
  <2>1. ASSUME k % 4 = row, half + (k \div 4) = wr_col PROVE half = written /\ k = To(count)
    <3>1. half = written /\ k \div 4 = To(count) \div 4
      BY <1>1, <1>2, <1>3, <2>1
    <3> QED BY <1>1, <1>2, <2>1, <3>1, Coordinates
  <2> QED BY <1>2, <2>1
<1> QED BY <1>5, <1>6 DEF At

-----------------------------------------------------------------------------
(* What a stage computes. *)

\* The byte that is read is the one of the block that the counter names.
LEMMA ReadsHeld ==
    ASSUME UnitInv, Busy
    PROVE  /\ state = held[count]
           /\ cs = "MIXCOLS" => \A n \in 0 .. 3 :
                ram[(row + n) % 4][rd_col] = held[(4 * (count \div 4)) + ((count + n) % 4)]
<1>1. count \in Index /\ rd_col = reading + (count \div 4) /\ row = count % 4
  BY DEF UnitInv, TypeOK, Index, rd_col, reading, col, row
<1>2. At(reading, count) = held[count]
  BY <1>1 DEF UnitInv, UnreadInv, Index
<1>3. ASSUME cs = "MIXCOLS", NEW n \in 0 .. 3
      PROVE  ram[(row + n) % 4][rd_col] = held[(4 * (count \div 4)) + ((count + n) % 4)]
  <2> DEFINE k == (4 * (count \div 4)) + ((count + n) % 4)
  <2>1. k \in Index /\ k % 4 = (row + n) % 4 /\ k \div 4 = count \div 4
    BY <1>1 DEF Index
  <2>2. reading = 4 /\ written = 0
    BY <1>3 DEF reading, written
  <2>3. At(reading, k) = held[k]
    BY <2>1, <2>2 DEF UnitInv, UnreadInv
  <2> QED BY <1>1, <2>1, <2>3 DEF At
<1> QED BY <1>1, <1>2, <1>3 DEF state, At

LEMMA WritesResult ==
    ASSUME UnitInv, writing
    PROVE  wr_data = Result(count)
<1>1. count \in 0 .. 15 /\ cs \in Stage
  BY DEF UnitInv, TypeOK
<1>2. CASE cs = "LOADT"
  BY <1>2 DEF wr_data, Result, UnitInv, BenchInv
<1>3. CASE cs = "BYTESUB"
  <2>1. state = held[count]
    BY <1>3, ReadsHeld DEF Busy
  <2> QED BY <1>3, <2>1 DEF wr_data, Result, sb_out
<1>4. CASE cs = "SHIFTROWS"
  <2>1. state = held[count]
    BY <1>4, ReadsHeld DEF Busy
  <2> QED BY <1>4, <2>1 DEF wr_data, Result
<1>5. CASE cs = "MIXCOLS"
  <2>1. \A r \in Row : ram[r][rd_col] \in Byte
    BY <1>1, AddressRange DEF UnitInv, TypeOK
  <2>2. LET below(n) == ram[(row + n) % 4][rd_col]
        IN  mc_out = Sum4(GF_2(below(0)), GF_3(below(1)), below(2), below(3))
    BY <1>1, <2>1, MixedByRow
  <2>3. \A n \in 0 .. 3 :
          ram[(row + n) % 4][rd_col] = held[(4 * (count \div 4)) + ((count + n) % 4)]
    BY <1>5, ReadsHeld DEF Busy
  <2>4. mc_out = Mixed(held, count)
    BY <2>2, <2>3 DEF Mixed
  <2> QED BY <1>5, <2>4 DEF wr_data, Result
<1>6. CASE cs = "ADDKEY"
  <2>1. state = held[count]
    BY <1>6, ReadsHeld DEF Busy
  <2>2. key = sk[(16 * round) + count] /\ round \in 0 .. 10
    BY <1>6 DEF key, UnitInv, CountInv, TypeOK
  <2>3. round = 0 => (16 * round) + count = count
    BY <1>1
  <2>4. ak_wr = Keyed(held, count)
    BY <2>1, <2>2, <2>3 DEF ak_wr, ak_out, ak_in, Keyed
  <2> QED BY <1>6, <2>4 DEF wr_data, Result
<1> QED BY <1>1, <1>2, <1>3, <1>4, <1>5, <1>6 DEF Stage, writing

-----------------------------------------------------------------------------
(* A clock edge. *)

\* From the first byte on the bench leaves the message alone, and only a reset
\* interferes with the control.
LEMMA Running ==
    ASSUME UnitInv, Next, cs # "IDLE"
    PROVE  /\ UNCHANGED <<text, imask, omask>> /\ Control /\ Memory
           /\ \/ cs' = "IDLE" /\ AssertReset
              \/ cs' = ns /\ ~reset' /\ (Feed \/ Wait)
<1>1. ~reset /\ fed \in 1 .. 16
  <2>1. cs = "LOADT" \/ Busy
    BY DEF Busy
  <2> QED BY <2>1 DEF UnitInv, BenchInv, TypeOK
<1>2. ~Start
  BY <1>1 DEF Start
<1>3. CASE AssertReset
  <2>1. Control /\ Memory /\ UNCHANGED <<text, imask, omask>>
    BY <1>3 DEF AssertReset, Clock
  <2>2. cs' = "IDLE"
    BY <1>3, <2>1 DEF AssertReset, Control
  <2> QED BY <1>3, <2>1, <2>2
<1>4. CASE Feed \/ Wait
  <2>1. ~reset' /\ Control /\ Memory /\ UNCHANGED <<text, imask, omask>>
    BY <1>4 DEF Feed, Wait, Clock
  <2> QED BY <1>1, <1>4, <2>1 DEF Control
<1> QED BY <1>2, <1>3, <1>4 DEF Next

\* The next state, stage by stage.
LEMMA NextOf ==
    ASSUME cs \in Stage, cs # "IDLE"
    PROVE  /\ ~last => ns = cs
           /\ last => /\ cs = "LOADT" => ns = "ADDKEY"
                      /\ cs = "BYTESUB" => ns = "SHIFTROWS"
                      /\ cs = "SHIFTROWS" => ns = IF round = 10 THEN "ADDKEY" ELSE "MIXCOLS"
                      /\ cs = "MIXCOLS" => ns = "ADDKEY"
                      /\ cs = "ADDKEY" => ns = IF round = 10 THEN "STORET" ELSE "BYTESUB"
                      /\ cs = "STORET" => ns = "IDLE"
  BY DEF ns, Stage, after_addkey

LEMMA BenchKept ==
    ASSUME UnitInv, Next
    PROVE  BenchInv'
<1>1. cs \in Stage /\ count \in 0 .. 15 /\ fed \in 0 .. 16 /\ text \in Block
  BY DEF UnitInv, TypeOK
<1>2. CASE AssertReset
  <2>1. cs' = "IDLE" /\ fed' = 0 /\ ~valid_input'
    BY <1>2 DEF AssertReset, Clock, Control
  <2> QED BY <2>1 DEF BenchInv, Busy
<1>3. CASE Start
  <2>1. cs' = "IDLE" /\ fed' = 1 /\ valid_input' /\ ~reset'
    BY <1>3 DEF Start, Clock, Control
  <2>2. \E r \in Requests : text' = r[1] /\ data_in' = r[1][0]
    BY <1>3, Zenon DEF Start
  <2> QED BY <2>1, <2>2 DEF BenchInv, Busy
<1>4. CASE (Feed \/ Wait) /\ cs = "IDLE"
  <2>1. /\ fed \in {0, 1} /\ (valid_input <=> fed = 1) /\ (fed = 1 => data_in = text[0] /\ ~reset)
        /\ fed # 0 => \E r \in Requests : text = r[1]
    BY <1>4 DEF UnitInv, BenchInv
  <2>2. ~reset' /\ count' = 0 /\ buffer' = data_in /\ text' = text
    BY <1>4 DEF Feed, Wait, Clock, Control, Memory
  <2>3. CASE fed = 1
    <3>1. Feed /\ fed' = 2 /\ data_in' = text[1]
      BY <1>4, <2>3 DEF Feed, Wait
    <3>2. cs' = "LOADT"
      <4>1. ns = "LOADT"
        BY <1>4, <2>1, <2>3 DEF ns
      <4> QED BY <2>1, <2>2, <2>3, <3>1, <4>1 DEF Feed, Clock, Control
    <3> QED BY <2>1, <2>2, <2>3, <3>1, <3>2 DEF BenchInv, Busy
  <2>4. CASE fed = 0
    <3>1. Wait /\ fed' = 0 /\ ~valid_input'
      BY <1>4, <2>4 DEF Feed, Wait
    <3>2. cs' = "IDLE"
      <4>1. ns = "IDLE"
        BY <1>4, <2>1, <2>4 DEF ns
      <4> QED BY <3>1, <4>1 DEF Wait, Clock, Control
    <3> QED BY <3>1, <3>2 DEF BenchInv, Busy
  <2> QED BY <2>1, <2>3, <2>4
<1>5. CASE (Feed \/ Wait) /\ cs = "LOADT"
  <2>1. /\ fed = IF count = 15 THEN 16 ELSE count + 2
        /\ buffer = text[count] /\ (count # 15 => data_in = text[count + 1])
        /\ fed # 0 => \E r \in Requests : text = r[1]
    BY <1>5 DEF UnitInv, BenchInv
  <2>2. /\ cs' = ns /\ ~reset' /\ text' = text /\ buffer' = data_in
        /\ count' = (count + 1) % 16
    <3>1. ~reset' /\ Control /\ Memory
      BY <1>5 DEF Feed, Wait, Clock
    <3> QED BY <1>5, <3>1, Running DEF AssertReset, Control, Memory
  <2>3. fed' # 0 => \E r \in Requests : text' = r[1]
    BY <1>1, <2>1, <2>2
  <2>4. CASE count = 15
    <3>1. cs' = "ADDKEY"
      BY <1>1, <1>5, <2>2, <2>4, NextOf DEF last
    <3>2. fed' = 16
      BY <1>5, <2>1, <2>4 DEF Feed, Wait, valid_output
    <3> QED BY <2>2, <2>3, <3>1, <3>2 DEF BenchInv, Busy
  <2>5. CASE count # 15
    <3>1. cs' = "LOADT" /\ count' = count + 1
      BY <1>1, <1>5, <2>2, <2>5, NextOf DEF last
    <3>2. fed' = IF count' = 15 THEN 16 ELSE count' + 2
      BY <1>1, <1>5, <2>1, <2>5, <3>1 DEF Feed, Wait, valid_output
    <3>3. count' # 15 => data_in' = text[count' + 1]
      <4>1. ASSUME count' # 15 PROVE Feed /\ fed = count' + 1
        BY <1>1, <1>5, <2>1, <2>5, <3>1, <4>1 DEF Feed, Wait
      <4> QED BY <4>1 DEF Feed
    <3> QED BY <2>1, <2>2, <2>3, <2>5, <3>1, <3>2, <3>3 DEF BenchInv, Busy
  <2> QED BY <2>4, <2>5
<1>6. CASE (Feed \/ Wait) /\ Busy
  <2>1. fed = 16 /\ \E r \in Requests : text = r[1]
    BY <1>6 DEF UnitInv, BenchInv
  <2>2. Wait /\ cs' = ns /\ ~reset' /\ text' = text
    <3>1. Wait /\ ~reset'
      BY <1>6, <2>1 DEF Feed, Wait
    <3>2. ~AssertReset
      BY <3>1 DEF AssertReset
    <3> QED BY <1>6, <3>1, <3>2, Running DEF Busy
  <2>3. fed' = (IF cs = "STORET" /\ last THEN 0 ELSE 16) /\ ~valid_input'
    BY <2>1, <2>2 DEF Wait, valid_output
  <2>4. CASE cs = "STORET" /\ last
    <3>1. cs' = "IDLE"
      BY <1>1, <1>6, <2>2, <2>4, NextOf
    <3> QED BY <2>3, <2>4, <3>1 DEF BenchInv, Busy
  <2>5. CASE ~(cs = "STORET" /\ last)
    <3>1. Busy'
      BY <1>1, <1>6, <2>2, <2>5, NextOf DEF Busy, Stage
    <3> QED BY <2>1, <2>2, <2>3, <2>5, <3>1 DEF BenchInv, Busy
  <2> QED BY <2>4, <2>5
<1> QED BY <1>2, <1>3, <1>4, <1>5, <1>6 DEF Next, Busy

LEMMA CountKept ==
    ASSUME UnitInv, Next
    PROVE  CountInv'
<1>1. cs \in Stage /\ count \in 0 .. 15 /\ round \in 0 .. 15 /\ CountInv
  BY DEF UnitInv, TypeOK
<1>2. Control
  BY DEF Next, AssertReset, Start, Feed, Wait, Clock
<1>3. CASE cs = "IDLE"
  <2>1. cs' \in {"IDLE", "LOADT"} /\ round' = 0 /\ key_address' = 0
    BY <1>2, <1>3 DEF Control, ns
  <2> QED BY <2>1 DEF CountInv
<1>4. CASE cs # "IDLE"
  <2>1. CASE cs' = "IDLE"
    BY <2>1 DEF CountInv
  <2>2. CASE cs' = ns
    <3>1. round \in 0 .. 10 /\ count' = (count + 1) % 16
      BY <1>2, <1>4 DEF UnitInv, TypeOK, Control
    <3>2. CASE ~last
      <4>1. cs' = cs /\ count' = count + 1 /\ round' = round
        BY <1>1, <1>2, <1>4, <2>2, <3>1, <3>2, NextOf DEF Control, last
      <4>2. cs # "ADDKEY" => key_address' = key_address
        BY <1>2, <1>4 DEF Control
      <4>3. cs = "ADDKEY" => key_address' = (16 * round) + count + 1
        <5>1. ASSUME cs = "ADDKEY" PROVE key_address = (16 * round) + count /\ key_address # 175
          BY <1>1, <3>1, <3>2, <5>1 DEF CountInv, last
        <5> QED BY <1>1, <1>2, <1>4, <3>1, <5>1 DEF Control, next_key
      <4> QED BY <1>1, <3>1, <4>1, <4>2, <4>3 DEF CountInv
    <3>3. CASE last
      <4>1. count = 15 /\ count' = 0
        BY <3>1, <3>3 DEF last
      <4>2. CASE cs = "ADDKEY"
        <5>1. key_address = (16 * round) + 15
          BY <1>1, <4>1, <4>2 DEF CountInv
        <5>2. CASE round = 10
          <6>1. cs' = "STORET" /\ round' = 10
            BY <1>1, <1>2, <2>2, <3>3, <4>2, <5>2, NextOf DEF Control
          <6> QED BY <6>1 DEF CountInv
        <5>3. CASE round # 10
          <6>1. cs' = "BYTESUB" /\ round' = round + 1
            BY <1>1, <1>2, <2>2, <3>3, <4>2, <5>3, NextOf DEF Control
          <6>2. key_address' = key_address + 1
            BY <1>2, <3>1, <4>2, <5>1, <5>3 DEF Control, next_key
          <6> QED BY <3>1, <5>1, <5>3, <6>1, <6>2 DEF CountInv
        <5> QED BY <5>2, <5>3
      <4>3. CASE cs # "ADDKEY"
        <5>1. round' = round /\ key_address' = key_address
          BY <1>2, <1>4, <4>3 DEF Control
        <5>2. cs = "STORET" => cs' = "IDLE"
          BY <1>1, <2>2, <3>3, NextOf
        <5>3. cs = "LOADT" => cs' = "ADDKEY"
          BY <1>1, <2>2, <3>3, NextOf
        <5>4. cs = "BYTESUB" => cs' = "SHIFTROWS"
          BY <1>1, <2>2, <3>3, NextOf
        <5>5. cs = "SHIFTROWS" => cs' = IF round = 10 THEN "ADDKEY" ELSE "MIXCOLS"
          BY <1>1, <2>2, <3>3, NextOf
        <5>6. cs = "MIXCOLS" => cs' = "ADDKEY"
          BY <1>1, <2>2, <3>3, NextOf
        <5> QED BY <1>1, <1>4, <4>1, <4>3, <5>1, <5>2, <5>3, <5>4, <5>5, <5>6 DEF CountInv, Stage
      <4> QED BY <4>2, <4>3
    <3> QED BY <3>2, <3>3
  <2> QED BY <1>4, <2>1, <2>2, Running
<1> QED BY <1>3, <1>4

-----------------------------------------------------------------------------
(* The memories. *)

\* Within a stage each edge adds one byte; none is read that is overwritten.
LEMMA Advances ==
    ASSUME UnitInv, writing, Memory, UNCHANGED <<text, imask, omask>>, ~last,
           cs' = cs, round' = round, count' = count + 1
    PROVE  WrittenInv' /\ UnreadInv'
<1>1. /\ written' = written /\ reading' = reading /\ held' = held
      /\ \A k : To(k)' = To(k) /\ Result(k)' = Result(k)
  BY DEF written, reading, To, Result, Keyed, Memory
<1>2. count \in Index /\ written \in {0, 4} /\ reading \in {0, 4} /\ TypeOK
  BY DEF UnitInv, TypeOK, Index, written, reading
<1>3. \A half \in {0, 4}, k \in Index :
        At(half, k)' = IF half = written /\ k = To(count) THEN Result(count) ELSE At(half, k)
  BY <1>2, OneWrite, WritesResult
<1>4. ASSUME NEW k \in Index, k < count' PROVE At(written, To(k))' = Result(k)'
  <2>1. To(k) \in Index /\ (To(k) = To(count) => k = count)
    BY <1>2, ToPlace
  <2>2. CASE k = count
    BY <1>1, <1>2, <1>3, <2>1, <2>2
  <2>3. CASE k # count
    <3>1. k < count
      BY <1>2, <1>4, <2>3 DEF Index
    <3>2. At(written, To(k)) = Result(k)
      BY <3>1 DEF UnitInv, WrittenInv
    <3> QED BY <1>1, <1>2, <1>3, <2>1, <2>3, <3>2
  <2> QED BY <2>2, <2>3
<1>5. ASSUME Busy, NEW k \in Index, k >= count' \/ reading # written
      PROVE  At(reading, k)' = held[k]
  <2>1. At(reading, k) = held[k]
    BY <1>2, <1>5 DEF UnitInv, UnreadInv, Index
  <2>2. reading = written => To(count) = count /\ k # count
    BY <1>2, <1>5 DEF reading, written, To, Index
  <2> QED BY <1>1, <1>2, <1>3, <2>1, <2>2
<1> QED
  BY <1>1, <1>4, <1>5 DEF WrittenInv, UnreadInv, writing, Busy

\* The last edge of a stage completes its half.
LEMMA Completes ==
    ASSUME UnitInv, writing, Memory, last
    PROVE  /\ \A k \in Index : held'[To(k)] = Result(k)
           /\ held' = BlockOf(ram', written)
<1>1. count = 15 /\ count \in Index /\ written \in {0, 4} /\ TypeOK
  BY DEF UnitInv, TypeOK, Index, written, last
<1>2. held' = BlockOf(ram', written)
  BY DEF Memory
<1>3. PICK half \in {0, 4} : half = written
  BY <1>1
<1>4. \A k \in Index : At(half, k)' = held'[k]
  BY <1>2, <1>3 DEF At, BlockOf
<1>5. ASSUME NEW k \in Index PROVE held'[To(k)] = Result(k)
  <2>0. PICK to \in Index : to = To(k)
    BY ToPlace
  <2>1. to \in Index /\ (to = To(count) => k = count)
    BY <1>1, <2>0, ToPlace
  <2>2. k # count => At(half, to) = Result(k)
    BY <1>1, <1>3, <2>0 DEF UnitInv, WrittenInv, Index
  <2>3. k = count => to = To(count)
    BY <2>0
  <2>4. At(half, to)' = IF to = To(count) THEN Result(count) ELSE At(half, to)
    BY <1>1, <1>3, <2>1, OneWrite, WritesResult
  <2>5. held'[to] = Result(k)
    BY <1>4, <2>1, <2>2, <2>3, <2>4
  <2> QED BY <2>0, <2>5
<1> QED BY <1>2, <1>5

LEMMA MemoryKept ==
    ASSUME UnitInv, Next
    PROVE  WrittenInv' /\ UnreadInv'
<1>1. cs \in Stage /\ count \in 0 .. 15 /\ round \in 0 .. 15
  BY DEF UnitInv, TypeOK
<1>2. CASE cs = "IDLE"
  <2>1. cs' \in {"IDLE", "LOADT"} /\ count' = 0
    BY <1>2 DEF Next, AssertReset, Start, Feed, Wait, Clock, Control, ns
  <2> QED BY <2>1 DEF WrittenInv, UnreadInv, writing, Busy, Index
<1>3. CASE cs # "IDLE" /\ cs' = "IDLE"
  BY <1>3 DEF WrittenInv, UnreadInv, writing, Busy
<1>4. CASE cs # "IDLE" /\ cs' = ns /\ cs' # "IDLE"
  <2>1. /\ UNCHANGED <<text, imask, omask>> /\ Control /\ Memory
        /\ count' = (count + 1) % 16
    BY <1>4, Running DEF Control
  <2>2. CASE ~last
    <3>1. cs' = cs /\ round' = round /\ count' = count + 1
      BY <1>1, <1>4, <2>1, <2>2, NextOf DEF Control, last
    <3>2. CASE writing
      BY <2>1, <2>2, <3>1, <3>2, Advances
    <3>3. CASE ~writing
      <4>1. cs = "STORET" /\ ram' = ram /\ held' = held
        BY <1>4, <2>1, <3>3 DEF writing, Memory
      <4>2. reading = 0 /\ reading' = 0
        BY <3>1, <4>1 DEF reading
      <4>3. \A k \in Index : At(0, k) = held[k]
        BY <3>3, <4>1, <4>2 DEF UnitInv, UnreadInv, Busy
      <4>4. \A k \in Index : At(0, k)' = held'[k]
        BY <4>1, <4>3 DEF At
      <4> QED BY <3>1, <3>3, <4>1, <4>2, <4>4 DEF WrittenInv, UnreadInv, writing, Busy
    <3> QED BY <3>2, <3>3
  <2>3. CASE last
    <3>1. count' = 0
      BY <2>1, <2>3 DEF last
    <3>2. writing
      BY <1>1, <1>4, <2>3, NextOf DEF writing
    <3>3. held' = BlockOf(ram', written)
      BY <2>1, <2>3, <3>2, Completes
    <3>4. reading' = written
      <4>1. CASE cs = "SHIFTROWS"
        <5>1. cs' = (IF round = 10 THEN "ADDKEY" ELSE "MIXCOLS") /\ round' = round
          BY <1>1, <1>4, <2>1, <2>3, <4>1, NextOf DEF Control
        <5> QED BY <4>1, <5>1 DEF reading, written
      <4>2. CASE cs = "ADDKEY"
        <5>1. cs' \in {"BYTESUB", "STORET"}
          BY <1>1, <1>4, <2>3, <4>2, NextOf
        <5> QED BY <4>2, <5>1 DEF reading, written
      <4>3. CASE cs \in {"LOADT", "MIXCOLS", "BYTESUB"}
        <5>1. /\ cs' = IF cs = "BYTESUB" THEN "SHIFTROWS" ELSE "ADDKEY"
              /\ round' = round
          BY <1>1, <1>4, <2>1, <2>3, <4>3, NextOf DEF Control
        <5>2. cs # "BYTESUB" => round # 10
          BY <4>3 DEF UnitInv, CountInv
        <5> QED BY <4>3, <5>1, <5>2 DEF reading, written
      <4> QED BY <1>1, <3>2, <4>1, <4>2, <4>3 DEF Stage, writing
    <3>5. \A k \in Index : At(reading, k)' = held'[k]
      BY <3>3, <3>4 DEF At, BlockOf
    <3> QED BY <3>1, <3>5 DEF WrittenInv, UnreadInv, Index
  <2> QED BY <2>2, <2>3
<1> QED BY <1>2, <1>3, <1>4, Running

\* The invariant is inductive.
LEMMA UnitInvInit == Init => UnitInv
<1> SUFFICES ASSUME Init PROVE UnitInv
  OBVIOUS
<1>1. cs = "IDLE" /\ fed = 0 /\ ~valid_input
  BY DEF Init
<1>2. BenchInv /\ CountInv /\ WrittenInv /\ UnreadInv
  BY <1>1 DEF BenchInv, CountInv, WrittenInv, UnreadInv, writing, Busy
<1> QED BY <1>2, InitTypes DEF UnitInv

LEMMA UnitInvKept == UnitInv /\ [Next]_vars => UnitInv'
<1> SUFFICES ASSUME UnitInv, [Next]_vars PROVE UnitInv'
  OBVIOUS
<1>1. TypeOK'
  BY NextTypes DEF UnitInv
<1>2. CASE Next
  BY <1>1, <1>2, BenchKept, CountKept, MemoryKept DEF UnitInv
<1>3. CASE UNCHANGED vars
  <2>1. UNCHANGED <<reset, valid_input, data_in, imask, omask, cs, count, round,
                    key_address, ram, buffer, text, fed, resets, held>>
    BY <1>3 DEF vars, inputs, bench
  <2>2. BenchInv'
    BY <2>1 DEF UnitInv, BenchInv, Busy
  <2>3. CountInv'
    BY <2>1 DEF UnitInv, CountInv
  <2>4. WrittenInv' /\ UnreadInv'
    <3>1. /\ written' = written /\ reading' = reading
          /\ \A k : To(k)' = To(k) /\ Result(k)' = Result(k)
          /\ \A half, k : At(half, k)' = At(half, k)
      BY <2>1 DEF written, reading, To, Result, Keyed, At
    <3> QED BY <2>1, <3>1 DEF UnitInv, WrittenInv, UnreadInv, writing, Busy
  <2> QED BY <1>1, <2>2, <2>3, <2>4 DEF UnitInv
<1> QED BY <1>2, <1>3

LEMMA UnitInvariant == Spec => []UnitInv
  BY UnitInvInit, UnitInvKept, PTL DEF Spec

-----------------------------------------------------------------------------
(* The output. *)

\* aes_encrypt: the bytes that appear while valid_output is set are those of
\* the block that the last stage left, in order and without the mask.
THEOREM BytesInOrder == Spec => []OutputIsBlock
<1>1. UnitInv => OutputIsBlock
  <2> SUFFICES ASSUME UnitInv, valid_output PROVE data_out = Unmasked[count]
    BY DEF OutputIsBlock
  <2>1. cs = "STORET" /\ count \in Index
    BY DEF valid_output, UnitInv, TypeOK, Index
  <2>2. state = held[count] /\ Mask = imask
    BY <2>1, ReadsHeld DEF Busy, Mask
  <2> QED BY <2>1, <2>2 DEF data_out, Unmasked
<1> QED BY <1>1, UnitInvariant, PTL

-----------------------------------------------------------------------------
(* Each stage is a call of the software cipher. *)

\* The types of what a stage computes with.
LEMMA StageTypes ==
    ASSUME TypeOK
    PROVE  /\ imask \in Byte /\ omask \in Byte /\ Mask \in Byte
           /\ \A k \in Index : held[k] \in Byte /\ text[k] \in Byte
           /\ \A x \in Byte : sbox[x] \in Byte
           /\ \A n \in 0 .. 175 : sk[n] \in Byte
<1>1. imask \in Byte /\ omask \in Byte /\ held \in Block /\ text \in Block
  BY DEF TypeOK
<1> QED BY <1>1, ZeroByte, UnitAssumption DEF Mask, Block

\* Two masks are taken off whatever their order.
LEMMA MaskChanged ==
    ASSUME NEW x \in Byte, NEW s \in Byte, NEW m \in Byte, NEW n \in Byte
    PROVE  /\ Xor(Xor(Xor(Xor(x, s), m), n), m) = Xor(Xor(x, n), s)
           /\ Xor(Xor(Xor(x, m), s), m) = Xor(x, s)
<1> DEFINE y == Xor(x, s)
<1>1. y \in Byte
  BY XorByte
<1>2. Xor(Xor(x, n), s) = Xor(y, n)
  BY XorAssociates, XorCommutes
<1>3. Xor(Xor(x, m), s) = Xor(y, m)
  BY XorAssociates, XorCommutes
<1> HIDE DEF y
<1>4. Xor(Xor(Xor(y, m), n), m) = Xor(y, n)
  <2>1. Xor(Xor(y, m), n) = Xor(Xor(y, n), m)
    BY <1>1, XorAssociates, XorCommutes
  <2>2. Xor(y, n) \in Byte
    BY XorByte
  <2> DEFINE z == Xor(y, n)
  <2> HIDE DEF z
  <2>3. Xor(Xor(z, m), m) = z
    BY <2>2, XorTwice DEF z
  <2> QED BY <2>1, <2>3 DEF z
<1>5. Xor(Xor(y, m), m) = y
  BY <1>1, XorTwice
<1> QED BY <1>2, <1>3, <1>4, <1>5 DEF y

\* Between the edges that complete a stage nothing changes for the cipher.
LEMMA StageGoesOn ==
    ASSUME UnitInv, Next, Busy, ~last, cs' = ns
    PROVE  UNCHANGED <<Plaintext, CipherState, CipherRound, CipherCall>>
<1>1. cs \in Stage /\ cs # "IDLE" /\ count \in 0 .. 15
  BY DEF UnitInv, TypeOK, Busy
<1>2. cs' = cs /\ UNCHANGED <<text, imask, omask>> /\ Control /\ Memory
  BY <1>1, Running, NextOf
<1>3. round' = round /\ held' = held
  BY <1>1, <1>2 DEF Control, Memory
<1>4. Mask' = Mask /\ Busy' = Busy
  BY <1>2, <1>3 DEF Mask, Busy
<1>5. Unmasked' = Unmasked
  BY <1>3, <1>4 DEF Unmasked
<1> QED BY <1>2, <1>3, <1>4, <1>5 DEF Plaintext, CipherState, CipherRound, CipherCall

\* What all completed stages share.
LEMMA StageEnds ==
    ASSUME UnitInv, Next, cs # "IDLE", cs # "STORET", last, cs' = ns
    PROVE  /\ UNCHANGED <<text, imask, omask>> /\ Busy' /\ TypeOK'
           /\ round' = IF cs = "ADDKEY" /\ round # 10 THEN round + 1 ELSE round
           /\ \A k \in Index : held'[To(k)] = Result(k)
<1>1. cs \in Stage /\ writing
  BY DEF UnitInv, TypeOK, writing
<1>2. UNCHANGED <<text, imask, omask>> /\ Control /\ Memory
  BY Running
<1>3. Busy'
  BY <1>1, NextOf DEF Busy, Stage
<1> QED BY <1>1, <1>2, <1>3, Completes, UnitInvKept DEF Control, UnitInv

\* The two modules have the same bytes.
LEMMA SameBytes ==
    /\ Cipher!Index = Index /\ Cipher!Blank = Blank
    /\ \A x, y : Cipher!Xor(x, y) = Xor(x, y)
    /\ \A x : Cipher!GF_2(x) = GF_2(x) /\ Cipher!GF_3(x) = GF_3(x)
<1>1. \A x, y : Cipher!Xor(x, y) = Xor(x, y)
  BY DEF Cipher!Xor, Xor
<1>2. \A x : Cipher!GF_2(x) = GF_2(x)
  BY <1>1 DEF Cipher!GF_2, GF_2, Cipher!Shl, Shl, Cipher!Poly, Poly
<1> QED BY <1>1, <1>2 DEF Cipher!GF_3, GF_3, Cipher!Index, Index, Cipher!Blank, Blank,
                          Cipher!Zero, Zero

\* The message is in: the call of encrypt.
LEMMA LoadedStarts ==
    ASSUME UnitInv, Next, cs = "LOADT", last, cs' = ns
    PROVE  \E t \in {r[1] : r \in Requests} : Cipher!Start(t)
<1>1. /\ text' = text /\ Busy' /\ TypeOK' /\ round' = round
      /\ \A k \in Index : held'[To(k)] = Result(k)
  BY StageEnds
<1>2. cs' = "ADDKEY" /\ round = 0 /\ ~Busy
  BY NextOf DEF Stage, UnitInv, CountInv, Busy
<1>3. ASSUME NEW k \in Index PROVE held'[k] = text[k] /\ Xor(held'[k], Mask') = text[k]
  <2>1. held'[k] = text[k]
    BY <1>1 DEF To, Result
  <2>2. Mask' = Zero
    BY <1>1, <1>2 DEF Mask
  <2>3. text[k] \in Byte
    BY StageTypes DEF UnitInv
  <2> QED BY <2>1, <2>2, <2>3, XorZero
<1>4. Unmasked' = text
  BY <1>3 DEF Unmasked, UnitInv, TypeOK, Block
<1>5. text \in {r[1] : r \in Requests}
  <2>1. fed = 16
    BY DEF UnitInv, BenchInv, last
  <2> QED BY <2>1 DEF UnitInv, BenchInv
<1>6. /\ CipherCall = "idle" /\ CipherCall' = "add_round_key"
      /\ Plaintext' = text /\ CipherState' = text /\ CipherRound' = 0
  BY <1>1, <1>2, <1>4 DEF CipherCall, Plaintext, CipherState, CipherRound
<1>7. Cipher!Start(text)
  BY <1>6 DEF Cipher!Start
<1> QED BY <1>5, <1>7

LEMMA AddKeyCall ==
    ASSUME UnitInv, Next, cs = "ADDKEY", last, cs' = ns
    PROVE  Cipher!AddRoundKey
<1>1. /\ UNCHANGED <<text, imask, omask>> /\ Busy /\ Busy' /\ TypeOK
      /\ round' = IF round # 10 THEN round + 1 ELSE round
      /\ \A k \in Index : held'[To(k)] = Result(k)
  BY StageEnds DEF Busy, UnitInv
<1>2. cs' = IF round = 10 THEN "STORET" ELSE "BYTESUB"
  BY NextOf DEF Stage
<1>3. round \in 0 .. 10
  BY DEF UnitInv, TypeOK
<1>4. Mask' = imask /\ Mask = IF round # 0 THEN omask ELSE Zero
  BY <1>1, <1>2 DEF Mask
<1>5. ASSUME NEW k \in Index
      PROVE  Xor(held'[k], Mask') = Xor(Xor(held[k], Mask), sk[(16 * round) + k])
  <2>1. (16 * round) + k \in 0 .. 175
    BY <1>3 DEF Index
  <2>2. held[k] \in Byte /\ imask \in Byte /\ omask \in Byte /\ sk[(16 * round) + k] \in Byte
    BY <1>1, <2>1, StageTypes
  <2>3. held'[k] = Keyed(held, k)
    BY <1>1 DEF To, Result
  <2>4. CASE round = 0
    <3>1. (16 * round) + k = k
      BY <2>4 DEF Index
    <3>2. held'[k] = Xor(Xor(held[k], imask), sk[(16 * round) + k])
      BY <2>3, <2>4, <3>1 DEF Keyed
    <3>3. Xor(held[k], Mask) = held[k]
      BY <1>4, <2>2, <2>4, XorZero
    <3> QED BY <1>4, <2>2, <3>2, <3>3, MaskChanged
  <2>5. CASE round # 0
    <3>1. held'[k] = Xor(Xor(Xor(held[k], sk[(16 * round) + k]), imask), omask)
      BY <2>3, <2>5 DEF Keyed
    <3> QED BY <1>4, <2>2, <2>5, <3>1, MaskChanged
  <2> QED BY <2>4, <2>5
<1>6. CipherState' = Cipher!add_round_key(CipherState, CipherRound)
  <2>1. CipherState = Unmasked /\ CipherState' = Unmasked' /\ CipherRound = round
    BY <1>1 DEF CipherState, CipherRound
  <2>2. Unmasked' = [k \in Index |-> Xor(held'[k], Mask')]
    BY DEF Unmasked
  <2>3. \A k \in Index : Unmasked[k] = Xor(held[k], Mask)
    BY DEF Unmasked
  <2>4. Cipher!add_round_key(Unmasked, round) = [k \in Index |-> Xor(Unmasked[k], sk[(16 * round) + k])]
    BY SameBytes DEF Cipher!add_round_key
  <2> QED BY <1>5, <2>1, <2>2, <2>3, <2>4
<1>7. /\ CipherCall = "add_round_key" /\ CipherRound = round /\ CipherRound' = round'
      /\ CipherCall' = IF round = 10 THEN "done" ELSE "sub_bytes"
      /\ Plaintext' = Plaintext
  BY <1>1, <1>2 DEF CipherCall, Plaintext, CipherRound
<1> QED BY <1>1, <1>6, <1>7 DEF Cipher!AddRoundKey

LEMMA SubBytesCall ==
    ASSUME UnitInv, Next, cs = "BYTESUB", last, cs' = ns
    PROVE  Cipher!SubBytes
<1>1. /\ UNCHANGED <<text, imask, omask>> /\ Busy /\ Busy' /\ TypeOK /\ round' = round
      /\ \A k \in Index : held'[To(k)] = Result(k)
  BY StageEnds DEF Busy, UnitInv
<1>2. cs' = "SHIFTROWS" /\ Mask = imask /\ Mask' = omask
  BY <1>1, NextOf DEF Stage, Mask
<1>3. ASSUME NEW k \in Index PROVE Xor(held'[k], Mask') = sbox[Xor(held[k], Mask)]
  <2>1. held'[k] = Xor(sbox[Xor(held[k], imask)], omask)
    BY <1>1 DEF To, Result
  <2>2. sbox[Xor(held[k], imask)] \in Byte /\ omask \in Byte
    BY <1>1, StageTypes, XorByte
  <2> QED BY <1>2, <2>1, <2>2, XorTwice
<1>4. CipherState' = Cipher!sub_bytes(CipherState)
  <2>1. CipherState = Unmasked /\ CipherState' = Unmasked'
    BY <1>1 DEF CipherState
  <2>2. Unmasked' = [k \in Index |-> Xor(held'[k], Mask')]
    BY DEF Unmasked
  <2>3. \A k \in Index : Unmasked[k] = Xor(held[k], Mask)
    BY DEF Unmasked
  <2>4. Cipher!sub_bytes(Unmasked) = [k \in Index |-> sbox[Unmasked[k]]]
    BY SameBytes DEF Cipher!sub_bytes
  <2> QED BY <1>3, <2>1, <2>2, <2>3, <2>4
<1>5. /\ CipherCall = "sub_bytes" /\ CipherCall' = "shift_rows"
      /\ Plaintext' = Plaintext /\ CipherRound' = CipherRound
  BY <1>1, <1>2 DEF CipherCall, Plaintext, CipherRound
<1> QED BY <1>4, <1>5 DEF Cipher!SubBytes

LEMMA ShiftRowsCall ==
    ASSUME UnitInv, Next, cs = "SHIFTROWS", last, cs' = ns
    PROVE  Cipher!ShiftRows
<1>1. /\ UNCHANGED <<text, imask, omask>> /\ Busy /\ Busy' /\ TypeOK /\ round' = round
      /\ \A k \in Index : held'[To(k)] = Result(k)
  BY StageEnds DEF Busy, UnitInv
<1>2. cs' = IF round = 10 THEN "ADDKEY" ELSE "MIXCOLS"
  BY NextOf DEF Stage
<1>3. Mask = omask /\ Mask' = omask
  <2>1. round # 0
    BY DEF UnitInv, CountInv
  <2> QED BY <1>1, <1>2, <2>1 DEF Mask
<1>4. ASSUME NEW k \in Index PROVE held'[k] = held[(5 * k) % 16] /\ (5 * k) % 16 \in Index
  <2>1. (5 * k) % 16 \in Index /\ Shifted((5 * k) % 16) = k
    BY ShiftedPlace
  <2> QED BY <1>1, <2>1 DEF To, Result
<1>5. CipherState' = Cipher!shift_rows(CipherState)
  <2>1. CipherState = Unmasked /\ CipherState' = Unmasked'
    BY <1>1 DEF CipherState
  <2>2. Unmasked' = [k \in Index |-> Xor(held'[k], omask)]
    BY <1>3 DEF Unmasked
  <2>3. \A k \in Index : Unmasked[k] = Xor(held[k], omask)
    BY <1>3 DEF Unmasked
  <2>4. Cipher!shift_rows(Unmasked) = [k \in Index |-> Unmasked[(5 * k) % 16]]
    BY SameBytes DEF Cipher!shift_rows, Cipher!shift
  <2> QED BY <1>4, <2>1, <2>2, <2>3, <2>4
<1>6. /\ CipherCall = "shift_rows"
      /\ CipherCall' = IF CipherRound = 10 THEN "add_round_key" ELSE "mix_columns"
      /\ Plaintext' = Plaintext /\ CipherRound' = CipherRound
  BY <1>1, <1>2 DEF CipherCall, Plaintext, CipherRound
<1> QED BY <1>5, <1>6 DEF Cipher!ShiftRows

LEMMA MixColumnsCall ==
    ASSUME UnitInv, Next, cs = "MIXCOLS", last, cs' = ns
    PROVE  Cipher!MixColumns
<1>1. /\ UNCHANGED <<text, imask, omask>> /\ Busy /\ Busy' /\ TypeOK /\ round' = round
      /\ \A k \in Index : held'[To(k)] = Result(k)
  BY StageEnds DEF Busy, UnitInv
<1>2. cs' = "ADDKEY"
  BY NextOf DEF Stage
<1>3. Mask = omask /\ Mask' = omask
  <2>1. round # 0
    BY DEF UnitInv, CountInv
  <2> QED BY <1>1, <1>2, <2>1 DEF Mask
<1>4. ASSUME NEW k \in Index
      PROVE  LET below(n) == Unmasked[(4 * (k \div 4)) + ((k + n) % 4)]
             IN  Xor(held'[k], Mask') = Xor(Xor(GF_2(below(0)), GF_3(below(1))), Xor(below(2), below(3)))
  <2> DEFINE i(n) == (4 * (k \div 4)) + ((k + n) % 4)
             b(n) == held[i(n)]
  <2>1. \A n \in 0 .. 3 : i(n) \in Index
    BY DEF Index
  <2>2. \A n \in 0 .. 3 : b(n) \in Byte /\ Unmasked[i(n)] = Xor(b(n), omask)
    BY <1>1, <1>3, <2>1, StageTypes DEF Unmasked
  <2>3. held'[k] = Sum4(GF_2(b(0)), GF_3(b(1)), b(2), b(3))
    BY <1>1 DEF To, Result, Mixed
  <2>4. omask \in Byte
    BY <1>1, StageTypes
  <2>5. b(0) \in Byte /\ b(1) \in Byte /\ b(2) \in Byte /\ b(3) \in Byte
    BY <2>2
  <2>6. Unmasked[i(0)] = Xor(b(0), omask) /\ Unmasked[i(1)] = Xor(b(1), omask)
        /\ Unmasked[i(2)] = Xor(b(2), omask) /\ Unmasked[i(3)] = Xor(b(3), omask)
    BY <2>2
  <2> HIDE DEF b
  <2>7. Xor(held'[k], omask) = Sum4(GF_2(Xor(b(0), omask)), GF_3(Xor(b(1), omask)), Xor(b(2), omask), Xor(b(3), omask))
    BY <2>3, <2>4, <2>5, MaskPasses
  <2>8. Xor(held'[k], omask) = Sum4(GF_2(Unmasked[i(0)]), GF_3(Unmasked[i(1)]), Unmasked[i(2)], Unmasked[i(3)])
    BY <2>6, <2>7
  <2> QED BY <1>3, <2>8 DEF Sum4
<1>5. CipherState' = Cipher!mix_columns(CipherState)
  <2>1. CipherState = Unmasked /\ CipherState' = Unmasked'
    BY <1>1 DEF CipherState
  <2>2. Unmasked' = [k \in Index |-> Xor(held'[k], Mask')]
    BY DEF Unmasked
  <2>3. Cipher!mix_columns(Unmasked) =
          [k \in Index |->
             LET below(n) == Unmasked[(4 * (k \div 4)) + ((k + n) % 4)]
             IN  Xor(Xor(GF_2(below(0)), GF_3(below(1))), Xor(below(2), below(3)))]
    BY SameBytes DEF Cipher!mix_columns
  <2> QED BY <1>4, <2>1, <2>2, <2>3
<1>6. /\ CipherCall = "mix_columns" /\ CipherCall' = "add_round_key"
      /\ Plaintext' = Plaintext /\ CipherRound' = CipherRound
  BY <1>1, <1>2 DEF CipherCall, Plaintext, CipherRound
<1> QED BY <1>5, <1>6 DEF Cipher!MixColumns

\* The last byte is out, or the bench resets the unit.
LEMMA MessageOver ==
    ASSUME UnitInv, Busy, ~Busy', cs' = "IDLE"
    PROVE  Cipher!Stop
<1>1. /\ CipherCall # "idle" /\ CipherCall' = "idle"
      /\ Plaintext' = Blank /\ CipherState' = Blank /\ CipherRound' = 0
  BY DEF UnitInv, TypeOK, Stage, Busy, CipherCall, Plaintext, CipherState, CipherRound
<1> QED BY <1>1, SameBytes DEF Cipher!Stop

LEMMA EdgeIsCall ==
    ASSUME UnitInv, [Next]_vars
    PROVE  [Cipher!Next]_Cipher!vars
<1>1. cs \in Stage
  BY DEF UnitInv, TypeOK
<1>2. CASE UNCHANGED vars
  <2>1. UNCHANGED <<cs, round, text, imask, omask, held>>
    BY <1>2 DEF vars, inputs, bench
  <2>2. UNCHANGED <<Plaintext, CipherState, CipherRound, CipherCall>>
    BY <2>1 DEF Plaintext, CipherState, CipherRound, CipherCall, Busy, Unmasked, Mask
  <2> QED BY <2>2 DEF Cipher!vars
<1>3. CASE Next /\ ~Busy /\ ~Busy'
  <2>1. UNCHANGED <<Plaintext, CipherState, CipherRound>>
    BY <1>3 DEF Plaintext, CipherState, CipherRound, Blank, Zero
  <2>2. CipherCall = "idle" /\ CipherCall' = "idle"
    BY <1>3 DEF CipherCall, Busy
  <2> QED BY <2>1, <2>2 DEF Cipher!vars
<1>4. CASE Next /\ ~Busy /\ Busy'
  <2>1. cs # "IDLE"
    <3>1. cs = "IDLE" => cs' \in {"IDLE", "LOADT"}
      BY <1>4 DEF Next, AssertReset, Start, Feed, Wait, Clock, Control, ns
    <3> QED BY <1>4, <3>1 DEF Busy
  <2>2. cs = "LOADT" /\ cs' = ns
    BY <1>4, <2>1, Running DEF Busy
  <2>3. last
    BY <1>1, <1>4, <2>1, <2>2, NextOf DEF Busy
  <2> QED BY <1>4, <2>2, <2>3, LoadedStarts DEF Cipher!Next
<1>5. CASE Next /\ Busy /\ cs' = "IDLE"
  BY <1>5, MessageOver DEF Cipher!Next, Busy
<1>6. CASE Next /\ Busy /\ cs' # "IDLE"
  <2>1. cs # "IDLE" /\ cs # "LOADT" /\ cs' = ns
    BY <1>6, Running DEF Busy
  <2>2. CASE ~last
    BY <1>6, <2>1, <2>2, StageGoesOn DEF Cipher!vars
  <2>3. CASE last
    <3>1. cs # "STORET"
      BY <1>1, <1>6, <2>1, <2>3, NextOf
    <3> QED BY <1>1, <1>6, <2>1, <2>3, <3>1, AddKeyCall, SubBytesCall, ShiftRowsCall, MixColumnsCall
            DEF Stage, Cipher!Next
  <2> QED BY <2>2, <2>3
<1> QED BY <1>2, <1>3, <1>4, <1>5, <1>6 DEF Busy

\* The iterative encryption unit, plain or masked, implements aes::encrypt for
\* every substitution table, key schedule, message and pair of masks, whatever
\* its memories hold and wherever a reset cuts a message off: one stage does
\* one call, and the masks cancel.
THEOREM UnitImplementsCipher == Spec => CipherSpec
<1>1. Init => Cipher!Init
  <2> SUFFICES ASSUME Init PROVE Cipher!Init
    OBVIOUS
  <2>1. ~Busy /\ cs = "IDLE"
    BY DEF Init, Busy
  <2> QED BY <2>1, SameBytes DEF Cipher!Init, CipherCall, Plaintext, CipherState, CipherRound
<1>2. UnitInv /\ [Next]_vars => [Cipher!Next]_Cipher!vars
  BY EdgeIsCall
<1> QED BY <1>1, <1>2, UnitInvariant, PTL DEF Spec, CipherSpec, Cipher!Spec

=================================================================================
