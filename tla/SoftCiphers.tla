------------------------------ MODULE SoftCiphers ------------------------------
(* The software AES of aes.cpp: the key schedule, encryption and decryption,   *)
(* and their masked variants; with it the key schedule of dpacontest_v2's      *)
(* aes.c and the sensitive values that the AES crypto instances compute from   *)
(* a message and a guess of a key byte.                                        *)
(*                                                                             *)
(* A block is [0..15 -> Byte].  A step is one turn of a loop of the code.      *)
EXTENDS AesTables, Sequences

CONSTANTS
    Keys,        \* the keys
    Messages,    \* of each key, the pairs [pt, ct] to be computed
    Masks,       \* pairs [x0, x1] of blocks, what rand() may return
    ByteMasks    \* pairs [imask, omask] of bytes

VARIABLES
    pc,          \* "start", "expand", "rounds" or "done"
    key,
    sk,          \* the bytes of the schedule so far
    words,       \* key[0..3] of AES_key_schedule after as many rounds
    mode, text,  \* the function that is called, and its argument
    masks,       \* its masks: the block that blinds its input, the one that
                 \*   blinds the output of the substitution
    round, s0,
    clear,       \* history: the block of the unmasked function
    before,      \* history: clear at the start of the last round
    out

vars == <<pc, key, sk, words, mode, text, masks, round, s0, clear, before, out>>
schedule == <<key, sk, words>>

Zeros == [k \in Index |-> 0]

Init ==
    /\ pc = "start"
    /\ key = Zeros /\ sk = <<>> /\ words = <<>>
    /\ mode = "none" /\ text = Zeros /\ masks = [x0 |-> Zeros, x1 |-> Zeros]
    /\ round = 0 /\ s0 = Zeros /\ clear = Zeros /\ before = Zeros /\ out = Zeros

-----------------------------------------------------------------------------
(* The functions on blocks. *)

xor_state(in, mask) == [k \in Index |-> Xor8(in[k], mask[k])]
Subkey(n) == [k \in Index |-> sk[16 * n + k]]
add_round_key(in, n) == xor_state(in, Subkey(n))

shift_rows(in) == [k \in Index |-> in[shift(k)]]
shift_rows_inv(in) == [k \in Index |-> in[shift_inv(k)]]

\* Entry k of a column: the coefficients apply from its row downwards.
Column(in, k, a, b, c, d) ==
    LET below(n) == in[4 * (k \div 4) + ((k + n) % 4)]
    IN  Xor8(Xor8(a[below(0)], b[below(1)]), Xor8(c[below(2)], d[below(3)]))

mix_columns(in) == [k \in Index |-> Column(in, k, Times2, Times3, Times1, Times1)]
mix_columns_inv(in) == [k \in Index |-> Column(in, k, TimesE, TimesB, TimesD, Times9)]

\* mask_sbox fills sbox_out[i ^ m_in] with sbox_in[i] ^ m_out.
mask_sbox(table, m_in, m_out) == [x \in Byte |-> Xor8(table[Xor8(x, m_in)], m_out)]

\* sub_bytes_masked: byte k by the table that is masked for it; sub_bytes uses
\* one table for all, and without masks the masks are zero.
sub_bytes(table, in, m) == [k \in Index |-> mask_sbox(table, m.x0[k], m.x1[k])[in[k]]]

-----------------------------------------------------------------------------
(* The key schedules: a turn makes one subkey. *)

SetKey(k) ==
    /\ pc = "start" /\ pc' = "expand" /\ round' = 0
    /\ key' = k
    /\ sk' = k
    /\ words' = [w \in 0..3 |-> [b \in 0..3 |-> k[4 * w + b]]]
    /\ UNCHANGED <<mode, text, masks, s0, clear, before, out>>

\* key_schedule: byte b of column c of the next subkey
Next4(c, b) ==
    LET old(j) == sk[16 * round + 4 * j + b]
        top == Xor8(Xor8(sbox[sk[16 * round + 12 + ((b + 1) % 4)]], old(0)),
                   IF b = 0 THEN rcon[round + 1] ELSE 0)
    IN  CASE c = 0 -> top
          [] c = 1 -> Xor8(top, old(1))
          [] c = 2 -> Xor8(Xor8(top, old(1)), old(2))
          [] c = 3 -> Xor8(Xor8(top, old(1)), Xor8(old(2), old(3)))

\* AES_key_schedule: its words, most significant byte first
XorWord(v, w) == [b \in 0..3 |-> Xor8(v[b], w[b])]
rot_word(w) == [b \in 0..3 |-> w[(b + 1) % 4]]
sub_word(w) == [b \in 0..3 |-> sbox[w[b]]]
Rcon(r) == [b \in 0..3 |-> IF b = 0 THEN rcon[r + 1] ELSE 0]

Expand ==
    /\ pc = "expand" /\ round < 10
    /\ round' = round + 1
    /\ sk' = [n \in 0..(16 * round + 31) |->
                IF n \in DOMAIN sk THEN sk[n] ELSE Next4((n % 16) \div 4, n % 4)]
    /\ LET k0 == XorWord(words[0], XorWord(sub_word(rot_word(words[3])), Rcon(round)))
           k1 == XorWord(words[1], k0)
           k2 == XorWord(words[2], k1)
       IN  words' = [w \in 0..3 |-> CASE w = 0 -> k0 [] w = 1 -> k1 [] w = 2 -> k2
                                      [] w = 3 -> XorWord(words[3], k2)]
    /\ UNCHANGED <<pc, key, mode, text, masks, s0, clear, before, out>>

-----------------------------------------------------------------------------
(* The five functions. *)

NoMask == [x0 |-> Zeros, x1 |-> Zeros]
Full(b) == [k \in Index |-> b]
Decrypts == mode \in {"decrypt", "decrypt_mask_simple"}

\* The masks each function may use.
MasksOf(fn) ==
    CASE fn \in {"encrypt", "decrypt"} -> {NoMask}
      [] fn \in {"encrypt_mask_simple", "decrypt_mask_simple"} ->
            { [x0 |-> Full(m.imask), x1 |-> Full(m.omask)] : m \in ByteMasks }
      [] fn = "encrypt_mask_full" -> Masks

\* The function fn is called on the block in once the schedule is complete.
Start(fn, in, m) ==
    /\ pc' = "rounds"
    /\ mode' = fn /\ text' = in /\ masks' = m
    /\ LET n == IF fn \in {"decrypt", "decrypt_mask_simple"} THEN 10 ELSE 0 IN
        /\ s0' = add_round_key(xor_state(in, m.x0), n)
        /\ clear' = add_round_key(in, n)
        /\ round' = IF n = 10 THEN 9 ELSE 1
    /\ UNCHANGED <<schedule, before, out>>

\* Mutant: the mask of the next round's input without the columns' mixing.
Remask_unmixed(m) ==
    IF mode = "encrypt_mask_full" THEN xor_state(shift_rows(m.x1), m.x0)
                                  ELSE xor_state(m.x1, m.x0)

\* x4, or imask ^ omask: from the mask after the mixing to that of the input
Remask(m) ==
    IF mode = "encrypt_mask_full" THEN xor_state(mix_columns(shift_rows(m.x1)), m.x0)
                                  ELSE xor_state(m.x1, m.x0)

\* The body of the loop of encrypt..., and that of decrypt...
Turn(s, m) ==
    xor_state(IF Decrypts
                THEN mix_columns_inv(add_round_key(sub_bytes(sbox_inv, shift_rows_inv(s), m), round))
                ELSE add_round_key(mix_columns(shift_rows(sub_bytes(sbox, s, m))), round),
              Remask(m))

Round ==
    /\ pc = "rounds" /\ round \in 1..9
    /\ s0' = Turn(s0, masks) /\ clear' = Turn(clear, NoMask)
    /\ round' = IF Decrypts THEN round - 1 ELSE round + 1
    /\ UNCHANGED <<pc, schedule, mode, text, masks, before, out>>

\* x2, or omask: what is left on the result
Unmask == IF mode = "encrypt_mask_full" THEN shift_rows(masks.x1) ELSE masks.x1

LastRound ==
    /\ pc = "rounds" /\ round \in {0, 10}
    /\ pc' = "done"
    /\ before' = clear
    /\ out' = xor_state(IF Decrypts
                          THEN add_round_key(sub_bytes(sbox_inv, shift_rows_inv(s0), masks), 0)
                          ELSE add_round_key(shift_rows(sub_bytes(sbox, s0, masks)), 10),
                        Unmask)
    /\ UNCHANGED <<schedule, mode, text, masks, round, s0, clear>>

Functions == {"encrypt", "decrypt", "encrypt_mask_simple", "decrypt_mask_simple",
              "encrypt_mask_full"}

Input(fn, m) == IF fn \in {"decrypt", "decrypt_mask_simple"} THEN m.ct ELSE m.pt

Next == \/ \E k \in Keys : SetKey(k)
        \/ Expand
        \/ /\ pc = "expand" /\ round = 10
           /\ \E fn \in Functions : \E m \in Messages[key], x \in MasksOf(fn) :
                    Start(fn, Input(fn, m), x)
        \/ Round \/ LastRound

-----------------------------------------------------------------------------
(* The crypto instances: compute(n, k) is the value that is taken to leak if    *)
(* byte n of the key is k, extract_estimate(n) the k of a known key.           *)

extract_estimate(known, n) == known[n]

hd_r0(m, n, k) == Xor8(Xor8(m[n], k), sbox[Xor8(m[n], k)])
hw_r0(m, n, k) == sbox[Xor8(m[n], k)]
hw_r10(m, n, k) == sbox_inv[Xor8(m[shift_inv(n)], k)]

\* Mutant: the register of the other direction.
hd_r10_unshifted(m, n, k) == Xor8(sbox_inv[Xor8(m[n], k)], m[shift_inv(n)])

hd_r10(m, n, k) == Xor8(sbox_inv[Xor8(m[n], k)], m[shift(n)])

-----------------------------------------------------------------------------
TypeOK ==
    /\ pc \in {"start", "expand", "rounds", "done"}
    /\ round \in 0..10
    /\ pc # "start" => sk \in [0..(IF pc = "expand" THEN 16 * round + 15 ELSE 175) -> Byte]
    /\ {s0, clear, before, out} \subseteq [Index -> Byte]

\* Both key schedules give the same subkeys at every round; the masked block is
\* at each turn the unmasked one under the input mask, neither more nor less;
\* and every function, under any masks, gives the known answer.
CiphersAgree ==
    /\ pc = "expand" => \A k \in Index : words[k \div 4][k % 4] = sk[16 * round + k]
    /\ pc = "rounds" => s0 = xor_state(clear, masks.x0)
    /\ pc = "done" => \A m \in Messages[key] :
        IF Decrypts THEN text = m.ct => out = m.pt ELSE text = m.pt => out = m.ct

\* With the byte that extract_estimate gives of the right subkey, the sensitive
\* values are what the registers of the cipher do: in round 1 the change of a
\* state byte by the substitution and its result, in round 10 the change of the
\* register byte that ciphertext byte n is written to.  aes_hw_r10 computes from
\* ciphertext byte shift_inv[n], but its extract_estimate(n) gives the subkey's
\* byte n (attack_manager.h:35 knows no such difference): its value is one of the
\* cipher only in the row that is not shifted, and no more is said of it.
TargetsAreTransitions ==
    (pc = "done" /\ ~Decrypts) => \A n \in Index :
        LET first == add_round_key(text, 0)
            after == sub_bytes(sbox, first, NoMask)
            k0 == extract_estimate(Subkey(0), n)
            k10 == extract_estimate(Subkey(10), n) IN
        /\ hd_r0(text, n, k0) = Xor8(first[n], after[n])
        /\ hw_r0(text, n, k0) = after[n]
        /\ hd_r10(out, n, k10) = Xor8(before[shift(n)], out[shift(n)])
        /\ shift_inv(n) = n => hw_r10(out, n, k10) = before[n]
===============================================================================
