---------------------------- MODULE AttackLastRound ----------------------------
(* attack_last_round.cpp, the reference attack of the DPA contest: from the    *)
(* ciphertexts and the samples of the traces seen so far it ranks the guesses  *)
(* of each byte of the last round key by the correlation of the samples with   *)
(* the Hamming distance of a state register in that round.                     *)
(*                                                                             *)
(* Numbers are exact: a coefficient is [cov, tv, hv], the covariance and both  *)
(* variances times the square of the number of traces.                         *)
EXTENDS AesTables, FiniteSetsExt, SequencesExt

CONSTANTS
    Blocks,      \* states that may enter the last round
    RoundKey,    \* the last round key of the device
    Attacked,    \* bound: the bytes whose guesses are followed, 0..15 in the code
    LeakyByte,   \* the device leaks the register that this byte's guess predicts
    MaxTraces    \* bound: the calls of attack_last_round

VARIABLES
    step,        \* of a call: "sums", "waves" or "rank"
    traces,      \* history: the blocks of the traces
    n, t, t2,    \* the number of calls, and the sums of the samples
    w, w2, tw,   \* the weights' sums and the weighted sums, for byte and guess
    cpa_wave,    \* of each byte, guess and sample: the coefficient
    locus        \* of each byte: the sample at which its guesses are compared

sums == <<traces, n, t, t2, w, w2, tw>>
vars == <<step, sums, cpa_wave, locus>>

Guesses == Byte
Points == 1..3

-----------------------------------------------------------------------------
(* The device: the last round of AES on a block, and samples that follow the   *)
(* number of bits its register changes.                                        *)

Cipher(block) == [k \in Index |-> Xor8(sbox[block[shift(k)]], RoundKey[k])]

Transition(block) ==
    LET reg == shift(LeakyByte) IN popcnt[Xor8(block[reg], Cipher(block)[reg])]

Samples(block) == <<3, Transition(block), Transition(block) + 1>>

-----------------------------------------------------------------------------
\* Mutant: the rows move the other way.
get_previous_location_inverse(x9) == shift_inv(x9)

get_previous_location(x9) == shift(x9)

\* sensitive_transition, less its mean
Weight(ciphertext, byte, kguess) ==
    popcnt[Xor8(sbox_inv[Xor8(ciphertext[byte], kguess)], ciphertext[get_previous_location(byte)])] - 4

Init ==
    /\ step = "sums" /\ traces = <<>> /\ n = 0
    /\ t = [s \in Points |-> 0] /\ t2 = t
    /\ w = [b \in Attacked |-> [k \in Guesses |-> 0]] /\ w2 = w
    /\ tw = [b \in Attacked |-> [k \in Guesses |-> [s \in Points |-> 0]]]
    /\ cpa_wave = <<>> /\ locus = [b \in Attacked |-> 0]

\* cpa_wave: zero where a variance is
Coefficient(b, k, s) ==
    LET tv == n * t2[s] - t[s] * t[s]
        hv == n * w2[b][k] - w[b][k] * w[b][k]
    IN  [cov |-> IF tv = 0 \/ hv = 0 THEN 0 ELSE n * tw[b][k][s] - w[b][k] * t[s],
         tv |-> tv, hv |-> hv]

\* c is a larger coefficient than d.
Larger(c, d) ==
    LET square(x) == IF x.cov < 0 THEN -(x.cov * x.cov) ELSE x.cov * x.cov
    IN  CASE c.cov <= 0 /\ d.cov >= 0 -> FALSE
          [] c.cov > 0 /\ d.cov <= 0  -> TRUE
          [] OTHER -> square(c) * d.tv * d.hv > square(d) * c.tv * c.hv

\* A call goes through these three steps, for all bytes at once.
Accumulate(block) ==
    LET points == Samples(block)
        ciphertext == Cipher(block)
        weight(b, k) == Weight(ciphertext, b, k) IN
    /\ step = "sums" /\ n < MaxTraces
    /\ step' = "waves"
    /\ traces' = Append(traces, block)
    /\ n' = n + 1
    /\ t' = [s \in Points |-> t[s] + points[s]]
    /\ t2' = [s \in Points |-> t2[s] + points[s] * points[s]]
    /\ w' = [b \in Attacked |-> [k \in Guesses |-> w[b][k] + weight(b, k)]]
    /\ w2' = [b \in Attacked |-> [k \in Guesses |-> w2[b][k] + weight(b, k) * weight(b, k)]]
    /\ tw' = [b \in Attacked |-> [k \in Guesses |-> [s \in Points |->
                    tw[b][k][s] + points[s] * weight(b, k)]]]
    /\ UNCHANGED <<cpa_wave, locus>>

ComputeWaves ==
    /\ step = "waves" /\ step' = "rank"
    /\ cpa_wave' = [b \in Attacked |-> [k \in Guesses |-> [s \in Points |-> Coefficient(b, k, s)]]]
    /\ UNCHANGED <<sums, locus>>

\* The search goes through the guesses and keeps the first of equal peaks.
TheLocus(wave) ==
    LET peaks == { c \in Guesses \X Points :
                    \A k \in Guesses, s \in Points : ~Larger(wave[k][s], wave[c[1]][c[2]]) }
        guess == Min({ c[1] : c \in peaks })
    IN  Min({ c[2] : c \in { d \in peaks : d[1] = guess } })

\* The guesses are sorted by their coefficients at the_locus, those of equal
\* ones in any order.
Rank ==
    /\ step = "rank" /\ step' = "sums"
    /\ locus' = [b \in Attacked |-> TheLocus(cpa_wave[b])]
    /\ UNCHANGED <<sums, cpa_wave>>

Score(b, k) == cpa_wave[b][k][locus[b]]

Next == \/ \E block \in Blocks : Accumulate(block)
        \/ ComputeWaves \/ Rank

-----------------------------------------------------------------------------
TypeOK ==
    /\ step \in {"sums", "waves", "rank"}
    /\ n \in 0..MaxTraces /\ n = Len(traces)
    /\ locus \in [Attacked -> {0} \union Points]

\* With a device that leaks exactly the register that a guess is about, the
\* right guess correlates fully at the sample where all guesses are compared:
\* nothing is ranked before it, from the first two traces that differ in their
\* leak, whatever the constant sample and the other bytes look like.
LastRoundFindsKey ==
    (step = "sums" /\ Cardinality({ Transition(traces[i]) : i \in DOMAIN traces }) > 1) =>
        LET right == Score(LeakyByte, RoundKey[LeakyByte]) IN
        /\ right.cov > 0 /\ right.cov * right.cov = right.tv * right.hv
        /\ \A k \in Guesses : ~Larger(Score(LeakyByte, k), right)
===============================================================================
