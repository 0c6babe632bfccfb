----------------------------- MODULE AesCipher -----------------------------
(***************************************************************************)
(* AES-128 as aes::encrypt computes it: one step for each of its calls on  *)
(* the state block, in the order of its loop.  This is what the hardware   *)
(* unit of AesEncryptUnit is to implement.                                 *)
(***************************************************************************)
EXTENDS AesBytes

CONSTANTS
    sbox,     \* the substitution table: [Byte -> Byte]
    sk,       \* the key schedule: 11 subkeys of 16 bytes, [0 .. 175 -> Byte]
    Texts     \* the plaintexts considered

VARIABLES
    pt,       \* the plaintext
    state,    \* s0 or s1: the block computed so far
    round,    \* the round whose subkey is the next to be added
    call      \* the next call of encrypt, "idle" before and "done" after it

vars == <<pt, state, round, call>>

-----------------------------------------------------------------------------
(* The functions of aes.cpp. *)

add_round_key(in, n) == [k \in Index |-> Xor(in[k], sk[(16 * n) + k])]

sub_bytes(in) == [k \in Index |-> sbox[in[k]]]

\* shift[16] = {0, 5, 10, 15, 4, 9, ...}
shift(k) == (5 * k) % 16

shift_rows(in) == [k \in Index |-> in[shift(k)]]

\* Entry k is in row k % 4 of its column; the coefficients 2, 3, 1, 1 apply
\* from that row downwards.
mix_columns(in) ==
    [k \in Index |->
        LET below(n) == in[4 * (k \div 4) + ((k + n) % 4)]
        IN  Xor(Xor(GF_2(below(0)), GF_3(below(1))), Xor(below(2), below(3)))]

-----------------------------------------------------------------------------
(* encrypt *)

Init ==
    /\ call = "idle"
    /\ pt = Blank /\ state = Blank /\ round = 0

Start(text) ==
    /\ call = "idle"
    /\ call' = "add_round_key"
    /\ pt' = text /\ state' = text /\ round' = 0

AddRoundKey ==
    /\ call = "add_round_key"
    /\ \/ round = 10 /\ call' = "done" /\ round' = round
       \/ round # 10 /\ call' = "sub_bytes" /\ round' = round + 1
    /\ state' = add_round_key(state, round)
    /\ UNCHANGED pt

SubBytes ==
    /\ call = "sub_bytes"
    /\ call' = "shift_rows"
    /\ state' = sub_bytes(state)
    /\ UNCHANGED <<pt, round>>

ShiftRows ==
    /\ call = "shift_rows"
    /\ call' = IF round = 10 THEN "add_round_key" ELSE "mix_columns"
    /\ state' = shift_rows(state)
    /\ UNCHANGED <<pt, round>>

MixColumns ==
    /\ call = "mix_columns"
    /\ call' = "add_round_key"
    /\ state' = mix_columns(state)
    /\ UNCHANGED <<pt, round>>

\* The result is returned, or the encryption is given up.
Stop ==
    /\ call # "idle"
    /\ call' = "idle"
    /\ pt' = Blank /\ state' = Blank /\ round' = 0

Next == \/ \E text \in Texts : Start(text)
        \/ AddRoundKey \/ SubBytes \/ ShiftRows \/ MixColumns \/ Stop

Spec == Init /\ [][Next]_vars

=============================================================================
