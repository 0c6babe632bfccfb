------------------------------ MODULE GrostlUnits ------------------------------
(* The compression units of designs/grostl_dp512 (parallel; serial, whose path *)
(* is a block wide) and designs/grostl_dp64 (serial, a column wide), with      *)
(* their test benches, one clock edge at a time.                               *)
(*                                                                             *)
(* The serial units compute both permutations on one path of two stages: while *)
(* Q is in the first, P is in the second.  There is no controller: the bench   *)
(* drives every select and write enable.  It assigns them in the instant of    *)
(* the edge at which the unit samples them, and the simulator may run either   *)
(* first.  A unit without mask ports is the masked one with masks of zero.     *)
EXTENDS GrostlBlocks

CONSTANTS
    RoundCounts,    \* max_rounds: 10 for the compress benches, 2 for the hmac
    UnitTexts,      \* records with msg and chain
    UnitMasks,      \* pairs [imask, omask] of blocks
    Junk,           \* what an undriven bus or a register at power-up holds
    MaxBlocks       \* bound: iterations of the bench

VARIABLES
    unit,           \* "parallel", "serial512" or "serial64"
    runs_first,     \* "unit" or "bench": which the simulator runs at an edge
    max_rounds,
    asked,          \* msg and chain of this iteration, and its masks
    fed,            \* iterations begun
    edge,           \* edges of this iteration so far
    pins,           \* what the bench drives
    m_reg, h_reg, p_reg, q_reg, mask_reg,
    dout,           \* what the bench writes down at the end of an iteration
    sampled,        \* history: the pins at the last edge
    p_before,       \* history: p_reg before it
    ref             \* history: the permutations by software, a round each edge

unit_vars == <<unit, runs_first, max_rounds, asked, fed, edge, pins, m_reg, h_reg, p_reg,
               q_reg, mask_reg, dout, sampled, p_before, ref>>

\* The outputs of drive(); data is whether m_in, h_in and the masks are driven.
Drive(rnd, col, wr_m, wr_h, sel_m, sel_h, sel_d, sel_pq, data) ==
    [rnd |-> rnd, col |-> col, wr_m |-> wr_m, wr_h |-> wr_h, sel_m |-> sel_m,
     sel_h |-> sel_h, sel_d |-> sel_d, sel_pq |-> sel_pq, wr |-> 0, data |-> data]

Quiet == Drive(0, 0, 0, 0, 0, 0, 0, 0, TRUE)

Init ==
    /\ unit \in {"parallel", "serial512", "serial64"} /\ runs_first \in {"unit", "bench"}
    /\ max_rounds \in RoundCounts
    /\ asked = [msg |-> Junk, chain |-> Junk, masks |-> NoMasks]
    /\ fed = 0 /\ edge = 0 /\ pins = Quiet /\ sampled = Quiet
    /\ m_reg = Junk /\ h_reg = Junk /\ p_reg = Junk /\ q_reg = Junk /\ p_before = Junk
    /\ mask_reg = [imask |-> Junk, omask |-> Junk]
    /\ dout = Junk /\ ref = [p |-> Junk, q |-> Junk, done |-> 0]

-----------------------------------------------------------------------------
(* The benches *)

\* The edges from one stage to the next of the same permutation, in one round
Columns == IF unit = "serial64" THEN 8 ELSE 1

Edges == IF unit = "parallel" THEN max_rounds + 2 ELSE 2 * Columns * max_rounds + 4

\* The serial benches' calls of drive.  Turns alternate between Q and P; a
\* round's first turn of each takes the state shifted.
SerialDrive(k) ==
    LET turn == (k - 1) \div 2
        Turns == 2 * Columns * max_rounds IN
    CASE k = 0             -> Drive(0, 0, 1, 1, 0, 0, 1, 0, TRUE)
      [] k = 1             -> Drive(0, 0, 1, 0, 2, 0, 1, 1, FALSE)
      [] k \in 2..Turns    -> Drive(turn \div Columns, turn % Columns, 1, 0, 1, 0,
                                    IF turn % Columns = 0 THEN 1 ELSE 0, k % 2, FALSE)
      [] k = Turns + 1     -> Drive(0, 7, 1, 1, 1, 1, 0, 1, FALSE)
      [] k = Turns + 2     -> Drive(0, 0, 1, 1, 2, 1, 0, 0, FALSE)
      [] OTHER             -> pins

ParallelDrive(k) ==
    IF k <= max_rounds THEN [pins EXCEPT !.wr = IF k = 0 THEN 1 ELSE 0, !.rnd = k] ELSE pins

Drives(k) == IF unit = "parallel" THEN ParallelDrive(k) ELSE SerialDrive(k)

\* dp64 takes masks of one column, dp512 of a block; the parallel unit none.
Widened(mask) == [i \in Place |-> IF unit = "serial64" THEN mask[i % 8] ELSE mask[i]]

-----------------------------------------------------------------------------
(* The serial units *)

\* h_in stays driven in the hmac benches, but nothing takes it after the latch.
M_in(p) == IF p.data THEN asked.msg ELSE Junk
H_in(p) == IF p.data THEN asked.chain ELSE Junk
Masks_in(p) == IF p.data THEN asked.masks ELSE [imask |-> Junk, omask |-> Junk]

Stage1(p) == IF p.sel_pq = 1 THEN "q" ELSE "p"
Stage2(p) == IF p.sel_pq = 1 THEN "p" ELSE "q"

\* P is computed on masked bytes, Q in the clear.
SboxMasks(p) == IF p.sel_pq = 1 THEN NoMasks ELSE mask_reg
x4(p) == IF p.sel_pq = 1 THEN Remask("p", mask_reg) ELSE ZeroBlock

\* dp512: constant and S-box, the pipeline register, shift and mixing
WideSub(p) == sub_bytes(add_round_const(Stage1(p), m_reg, p.rnd), SboxMasks(p))
WideMix(p) == xor_bytes(mix_bytes(shift_bytes(Stage2(p), p_reg)), x4(p))

\* Mutant: the last row's constant is that of the column it was moved to.
AddConstant_unmoved(perm, byte, row, rnd, col) ==
    LET const == Xor8(16 * col, rnd) IN
    IF perm = "p" THEN IF row = 0 THEN Xor8(byte, const) ELSE byte
    ELSE Xor8(IF row = 7 THEN Xor8(byte, const) ELSE byte, 255)

\* dp64: the constant of column col of the shifted state.  The last row comes
\* from six columns on.
grostl_add_constant(perm, byte, row, rnd, col) ==
    LET const(c) == Xor8(16 * (c % 8), rnd) IN
    IF perm = "p" THEN IF row = 0 THEN Xor8(byte, const(col)) ELSE byte
    ELSE Xor8(IF row = 7 THEN Xor8(byte, const(col + 6)) ELSE byte, 255)

\* dp64: the state shifted at the start of a round, the first column through
\* constant and S-box; then the columns rotated, the first one mixed.
d_val(p) == IF p.sel_d = 1 THEN shift_bytes(Stage1(p), m_reg) ELSE m_reg

ColumnSub(p) ==
    LET d == d_val(p) IN
    [i \in Place |->
        IF i < 8 THEN Xor8(sbox[Xor8(grostl_add_constant(Stage1(p), d[i], i, p.rnd, p.col),
                                     SboxMasks(p).imask[i])], SboxMasks(p).omask[i])
        ELSE d[i]]

ColumnMix(p) ==
    LET mixed == xor_bytes(mix_bytes(p_reg), x4(p)) IN
    [i \in Place |-> IF i < 56 THEN p_reg[i + 8] ELSE mixed[i - 56]]

ClockSerial(p) ==
    LET mhxor == xor_bytes(m_reg, h_reg)
        round_output == IF unit = "serial64" THEN ColumnMix(p) ELSE WideMix(p)
        m_val == CASE p.sel_m = 0 -> M_in(p) [] p.sel_m = 1 -> round_output [] OTHER -> mhxor
        h_val == IF p.sel_h = 0 THEN xor_bytes(H_in(p), Masks_in(p).imask) ELSE mhxor
    IN  /\ m_reg' = IF p.wr_m = 1 THEN m_val ELSE m_reg
        /\ h_reg' = IF p.wr_h = 1 THEN h_val ELSE h_reg
        /\ p_reg' = IF unit = "serial64" THEN ColumnSub(p) ELSE WideSub(p)
        /\ mask_reg' = IF p.sel_m = 0 THEN Masks_in(p) ELSE mask_reg
        /\ UNCHANGED q_reg

-----------------------------------------------------------------------------
(* The parallel unit: a round of each permutation at each edge *)

ClockParallel(p) ==
    LET p_in == IF p.wr = 0 THEN p_reg ELSE xor_bytes(asked.msg, asked.chain)
        q_in == IF p.wr = 0 THEN q_reg ELSE asked.msg
    IN  /\ p_reg' = Turn("p", p_in, NoMasks, p.rnd)
        /\ q_reg' = Turn("q", q_in, NoMasks, p.rnd)
        /\ UNCHANGED <<m_reg, h_reg, mask_reg>>

-----------------------------------------------------------------------------
(* The actions *)

\* The bench begins an iteration with a new text.
Feed(t, m) ==
    /\ fed < MaxBlocks /\ (fed > 0 => edge = Edges)
    /\ fed' = fed + 1 /\ edge' = 0
    /\ asked' = [msg |-> t.msg, chain |-> t.chain,
                 masks |-> [imask |-> Widened(m.imask), omask |-> Widened(m.omask)]]
    /\ pins' = [pins EXCEPT !.data = TRUE, !.rnd = IF unit = "parallel" THEN 0 ELSE @]
    /\ ref' = [p |-> xor_bytes(t.msg, t.chain), q |-> t.msg, done |-> 0]
    /\ UNCHANGED <<unit, runs_first, max_rounds, m_reg, h_reg, p_reg, q_reg, mask_reg, dout,
                   sampled, p_before>>

SoftwareRound ==
    ref' = IF ref.done = max_rounds THEN ref
           ELSE [p |-> Turn("p", ref.p, NoMasks, ref.done),
                 q |-> Turn("q", ref.q, NoMasks, ref.done), done |-> ref.done + 1]

\* A rising edge of the clock.  The serial benches write the result down at the
\* falling edge after the last one, the parallel bench at the last one, before
\* the registers have taken their new values.
ClockEdge ==
    /\ fed > 0 /\ edge < Edges
    /\ edge' = edge + 1
    /\ pins' = Drives(edge)
    /\ sampled' = IF runs_first = "unit" THEN pins ELSE pins'
    /\ p_before' = p_reg
    /\ IF unit = "parallel" THEN ClockParallel(sampled') ELSE ClockSerial(sampled')
    /\ dout' = IF edge' < Edges THEN dout
               ELSE IF unit = "parallel" THEN xor_bytes(asked.chain, xor_bytes(p_reg, q_reg))
               ELSE m_reg'
    /\ SoftwareRound
    /\ UNCHANGED <<unit, runs_first, max_rounds, asked, fed>>

Next == \/ \E t \in UnitTexts, m \in UnitMasks \union {NoMasks} :
              (unit = "parallel" => m = NoMasks) /\ Feed(t, m)
        \/ ClockEdge

Spec == Init /\ [][Next]_unit_vars

-----------------------------------------------------------------------------
TypeOK ==
    /\ {m_reg, h_reg, p_reg, q_reg, dout} \subseteq [Place -> Byte]
    /\ fed \in 0..MaxBlocks /\ edge \in 0..Edges /\ pins.rnd \in 0..10 /\ pins.col \in 0..7

\* The bench writes down the compression of its text, whatever the masks and
\* whatever the iteration before left in the registers, if the simulator lets
\* the unit sample before the bench assigns; otherwise it never does.
UnitsCompress ==
    fed > 0 /\ edge = Edges =>
        (runs_first = "unit" <=> dout = xor_bytes(asked.chain, xor_bytes(ref.p, ref.q)))

\* In round 0, the pipeline register of an unmasked serial unit goes from a byte
\* of Q to one of P, and the bits that change are those that the unit's crypto
\* instance predicts from the message and the right byte of the chaining value.
TargetsAreTransitions ==
    (/\ unit # "parallel" /\ asked.masks = NoMasks
     /\ fed > 0 /\ edge \in 3..Edges - 1
     /\ sampled.sel_m = 1 /\ sampled.sel_pq = 0 /\ sampled.rnd = 0) =>
        \A i \in 0..(IF unit = "serial64" THEN 7 ELSE 63) :
            LET place == 8 * sampled.col + i IN
            Xor8(p_before[i], p_reg[i]) =
                IF unit = "serial64"
                THEN dp64_hd_r0(asked.msg, shift_p(place), asked.chain[shift_p(place)])
                ELSE dp512_hd_r0(asked.msg, place, asked.chain[place])
===============================================================================
