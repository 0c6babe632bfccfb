----------------------------- MODULE MCAlgorithms -----------------------------
(* The sequential computations for TLC: one of seven machines runs, the other   *)
(* variables keep the value Unused.                                            *)
(*   results    ContestResults on up to five files of three iterations         *)
(*   aes        SoftCiphers on two known answers, with masks                   *)
(*   des        SoftDes on one known answer, in both directions                *)
(*   grostl     Grostl on three known answers, one of them with masks          *)
(*   units      GrostlUnits, two blocks for each unit, bench and order         *)
(*   sums       AttackSums with two workers, three traces and two reports      *)
(*   lastround  AttackLastRound on three states of AES with all its tables     *)
EXTENDS Integers, Sequences

CONSTANTS MaxFiles, MaxTraces, MaxReports

VARIABLES
    part,
    pc, parsed, num_experiments, num_iterations, pge_acc, psr_acc, gsr_acc, iter, first, stable,
    key, sk, words, mode, text, masks, round, s0, clear, before, out,
    call, blocks, chain, blind, state, plain, p_out, digest,
    unit, runs_first, max_rounds, asked, fed, edge, pins, m_reg, h_reg, p_reg, q_reg,
    mask_reg, dout, sampled, p_before, ref,
    job, cd, l_n, r_n, halves, result,
    processed, cpa, dpa, pscc, relpow, maxes, merged,
    step, traces, n, t, t2, w, w2, tw, cpa_wave, locus

results_vars   == <<parsed, num_experiments, num_iterations, pge_acc, psr_acc, gsr_acc, iter,
                    first, stable>>
aes_vars       == <<key, words, mode, text, masks, s0, clear, before, out>>
des_vars       == <<job, cd, l_n, r_n, halves, result>>
grostl_vars    == <<call, blocks, chain, blind, state, plain, p_out, digest>>
units_vars     == <<unit, runs_first, max_rounds, asked, fed, edge, pins, m_reg, h_reg, p_reg,
                    q_reg, mask_reg, dout, sampled, p_before, ref>>
sums_vars      == <<processed, cpa, dpa, pscc, relpow, maxes, merged>>
lastround_vars == <<step, traces, n, t, t2, w, w2, tw, cpa_wave, locus>>
allVars == <<part, pc, sk, round, results_vars, aes_vars, des_vars, grostl_vars, units_vars, sums_vars,
            lastround_vars>>

Unused == "unused"

-----------------------------------------------------------------------------
(* results: curves that pass, fall and pass again, a byte missing from the     *)
(* list, and files that are refused. *)
SubkeyBytes == {0, 1}
Worst == 256
Curve(a, b, c) == [version |-> 1, iterations |-> 3, places |->
                    << [i \in SubkeyBytes |-> a[i + 1]], [i \in SubkeyBytes |-> b[i + 1]],
                       [i \in SubkeyBytes |-> c[i + 1]] >>]
Rising  == Curve(<<0, 12>>, <<1, 9>>, <<1, 1>>)
Falling == Curve(<<1, 1>>, <<1, 2>>, <<1, 1>>)
Uneven  == Curve(<<2, 1>>, <<1, 1>>, <<0, 1>>)
Files == { Rising, Falling, Uneven, [Rising EXCEPT !.version = 2],
           [Falling EXCEPT !.places = SubSeq(@, 1, 2)],
           [Falling EXCEPT !.iterations = 2, !.places = SubSeq(@, 1, 2)] }

Results == INSTANCE ContestResults

ASSUME ResultsAssumption == Results!ResultsWellFormed

-----------------------------------------------------------------------------
(* aes: two of the known answers of aes_test_vectors.cpp *)
BlockOf(bytes) == [k \in 0..15 |-> bytes[k + 1]]
Fips == [k \in 0..15 |-> k]
Nist == BlockOf(<<43, 126, 21, 22, 40, 174, 210, 166, 171, 247, 21, 136, 9, 207, 79, 60>>)
Keys == {Fips, Nist}
Messages == [k \in Keys |-> IF k = Fips
    THEN { [pt |-> [b \in 0..15 |-> 17 * b],
            ct |-> BlockOf(<<105, 196, 224, 216, 106, 123, 4, 48, 216, 205, 183, 128, 112, 180, 197, 90>>)] }
    ELSE { [pt |-> BlockOf(<<107, 193, 190, 226, 46, 64, 159, 150, 233, 61, 126, 17, 115, 147, 23, 42>>),
            ct |-> BlockOf(<<58, 215, 123, 180, 13, 122, 54, 96, 168, 158, 202, 243, 36, 102, 239, 151>>)] }]
Masks == { [x0 |-> [k \in 0..15 |-> (37 * k + 11) % 256], x1 |-> [k \in 0..15 |-> (91 * k + 200) % 256]] }
ByteMasks == { [imask |-> 90, omask |-> 195], [imask |-> 7, omask |-> 7] }

Aes == INSTANCE SoftCiphers

-----------------------------------------------------------------------------
(* des: texts as convert_bytes reads them; 133457799BBCDFF1 encrypts           *)
(* 0123456789ABCDEF to 85E813540F0AB405. *)
convert_bytes(bytes) == [b \in 0..63 |-> (bytes[b \div 8 + 1] \div 2^(7 - (b % 8))) % 2]
DesTexts == { [key |-> convert_bytes(<<19, 52, 87, 121, 155, 188, 223, 241>>),
               pt  |-> convert_bytes(<<1, 35, 69, 103, 137, 171, 205, 239>>),
               ct  |-> convert_bytes(<<133, 232, 19, 84, 15, 10, 180, 5>>)] }

Des == INSTANCE SoftDes

-----------------------------------------------------------------------------
(* grostl: both hashes and a compression of grostl_test_vectors.cpp; the second *)
(* message is as long as makes the padding start a block of its own. *)
HashTexts ==
    { [in |-> <<97, 98, 99>>,
       digest |-> <<243, 193, 187, 25, 192, 72, 128, 19, 38, 167, 239, 188, 241, 110, 61, 120,
          135, 68, 98, 73, 130, 156, 55, 158, 24, 64, 209, 163, 161, 231, 212, 210>>],
      [in |-> <<97, 98, 99, 100, 98, 99, 100, 101, 99, 100, 101, 102, 100, 101, 102, 103,
          101, 102, 103, 104, 102, 103, 104, 105, 103, 104, 105, 106, 104, 105, 106, 107,
          105, 106, 107, 108, 106, 107, 108, 109, 107, 108, 109, 110, 108, 109, 110, 111,
          109, 110, 111, 112, 110, 111, 112, 113>>,
       digest |-> <<34, 194, 59, 22, 14, 86, 31, 128, 146, 77, 68, 242, 204, 89, 116, 205,
          90, 29, 54, 246, 147, 36, 33, 24, 97, 230, 59, 155, 108, 183, 151, 76>>] }

Block64(bytes) == [k \in 0..63 |-> bytes[k + 1]]
CompressTexts ==
    { [msg |-> Block64(
          <<210, 28, 5, 135, 212, 232, 183, 163, 240, 139, 172, 19, 132, 157, 22, 58,
          36, 201, 214, 39, 30, 145, 218, 162, 221, 212, 47, 212, 212, 231, 60, 214,
          63, 158, 223, 118, 88, 105, 150, 114, 10, 193, 10, 53, 5, 77, 12, 244,
          80, 187, 200, 128, 185, 119, 139, 180, 219, 53, 151, 205, 166, 207, 214, 105>>),
       chain |-> Block64(
          <<250, 58, 57, 74, 177, 111, 245, 56, 255, 252, 170, 168, 164, 48, 208, 196,
          211, 98, 214, 84, 91, 133, 1, 30, 80, 137, 61, 95, 153, 139, 32, 150,
          47, 137, 36, 120, 0, 161, 220, 222, 63, 198, 199, 140, 62, 104, 21, 132,
          254, 48, 253, 74, 61, 166, 225, 149, 25, 47, 250, 30, 61, 171, 181, 198>>),
       out |-> Block64(
          <<167, 160, 134, 222, 74, 48, 152, 136, 58, 33, 78, 46, 71, 220, 48, 189,
          133, 150, 51, 156, 104, 19, 45, 159, 223, 188, 67, 88, 175, 176, 38, 112,
          176, 76, 248, 111, 243, 192, 14, 36, 168, 56, 209, 98, 211, 243, 88, 3,
          147, 9, 233, 23, 111, 86, 161, 104, 26, 99, 134, 21, 160, 186, 115, 103>>)] }
BlockMasks == { [imask |-> [k \in 0..63 |-> (37 * k + 11) % 256],
                 omask |-> [k \in 0..63 |-> (91 * k + 200) % 256]] }

GrostlHash == INSTANCE Grostl

-----------------------------------------------------------------------------
(* units: the text of grostl_test_vectors.cpp, and the chaining value of the   *)
(* hmac benches *)
RoundCounts == {2, 10}
UnitTexts == { [msg |-> c.msg, chain |-> c.chain] : c \in CompressTexts }
             \union { [msg |-> [k \in 0..63 |-> (29 * k + 5) % 256], chain |-> [k \in 0..63 |-> k]] }
UnitMasks == BlockMasks
Junk == [k \in 0..63 |-> (77 * k + 222) % 256]
MaxBlocks == 2

Units == INSTANCE GrostlUnits

-----------------------------------------------------------------------------
(* sums: targets of four bits for four guesses, negative and equal samples *)
m_nevents == 2
Guesses == 0..3
compute == [m \in 1..3 |-> [b \in 0..1 |-> [k \in Guesses |->
              LET target == (5 * m + 3 * k * k + 7 * b * m) % 16
              IN  { bit \in 0..3 : (target \div 2^bit) % 2 = 1 }]]]
AttackedByte == 0
KnownKey == [b \in 0..1 |-> 2 * b]
EstimateBits == 4
Offset == 1
TargetBits == 3
Thresh == 2
Samples == { [message |-> m, power |-> <<(3 * m) % 5, 2>>] : m \in 1..3 }
            \union { [message |-> 2, power |-> <<-1, -3>>] }

Sums == INSTANCE AttackSums

ASSUME SumsAssumption == Sums!SumsWellFormed

-----------------------------------------------------------------------------
(* lastround: the last subkey of the FIPS-197 key *)
RoundKey == BlockOf(<<19, 17, 29, 127, 227, 148, 74, 23, 243, 7, 167, 139, 77, 43, 48, 197>>)
Blocks == { [k \in 0..15 |-> (37 * k * j + 11 * j * j) % 256] : j \in 1..3 }
Attacked == {1, 6}
LeakyByte == 1

LastRound == INSTANCE AttackLastRound

-----------------------------------------------------------------------------
ResultsIdle ==
    /\ parsed = Unused /\ num_experiments = Unused /\ num_iterations = Unused
    /\ pge_acc = Unused /\ psr_acc = Unused /\ gsr_acc = Unused
    /\ iter = Unused /\ first = Unused /\ stable = Unused
AesIdle ==
    /\ key = Unused /\ words = Unused /\ mode = Unused
    /\ text = Unused /\ masks = Unused /\ s0 = Unused
    /\ clear = Unused /\ before = Unused /\ out = Unused
DesIdle ==
    /\ job = Unused /\ cd = Unused /\ l_n = Unused
    /\ r_n = Unused /\ halves = Unused /\ result = Unused
GrostlIdle ==
    /\ call = Unused /\ blocks = Unused /\ chain = Unused
    /\ blind = Unused /\ state = Unused /\ plain = Unused
    /\ p_out = Unused /\ digest = Unused
UnitsIdle ==
    /\ unit = Unused /\ runs_first = Unused /\ max_rounds = Unused
    /\ asked = Unused /\ fed = Unused /\ edge = Unused /\ pins = Unused
    /\ m_reg = Unused /\ h_reg = Unused /\ p_reg = Unused /\ q_reg = Unused
    /\ mask_reg = Unused /\ dout = Unused /\ sampled = Unused
    /\ p_before = Unused /\ ref = Unused
SumsIdle ==
    /\ processed = Unused /\ cpa = Unused /\ dpa = Unused
    /\ pscc = Unused /\ relpow = Unused /\ maxes = Unused
    /\ merged = Unused
LastRoundIdle ==
    /\ step = Unused /\ traces = Unused /\ n = Unused
    /\ t = Unused /\ t2 = Unused /\ w = Unused
    /\ w2 = Unused /\ tw = Unused /\ cpa_wave = Unused
    /\ locus = Unused

AnyInit ==
    \/ /\ part = "results" /\ Results!Init /\ sk = Unused /\ round = Unused
       /\ AesIdle /\ DesIdle /\ GrostlIdle /\ UnitsIdle /\ SumsIdle /\ LastRoundIdle
    \/ /\ part = "aes" /\ Aes!Init
       /\ ResultsIdle /\ DesIdle /\ GrostlIdle /\ UnitsIdle /\ SumsIdle /\ LastRoundIdle
    \/ /\ part = "des" /\ Des!Init
       /\ ResultsIdle /\ AesIdle /\ GrostlIdle /\ UnitsIdle /\ SumsIdle /\ LastRoundIdle
    \/ /\ part = "grostl" /\ GrostlHash!Init /\ sk = Unused
       /\ ResultsIdle /\ AesIdle /\ DesIdle /\ UnitsIdle /\ SumsIdle /\ LastRoundIdle
    \/ /\ part = "units" /\ Units!Init /\ pc = Unused /\ sk = Unused /\ round = Unused
       /\ ResultsIdle /\ AesIdle /\ DesIdle /\ GrostlIdle /\ SumsIdle /\ LastRoundIdle
    \/ /\ part = "sums" /\ Sums!Init /\ pc = Unused /\ sk = Unused /\ round = Unused
       /\ ResultsIdle /\ AesIdle /\ DesIdle /\ GrostlIdle /\ UnitsIdle /\ LastRoundIdle
    \/ /\ part = "lastround" /\ LastRound!Init /\ pc = Unused /\ sk = Unused /\ round = Unused
       /\ ResultsIdle /\ AesIdle /\ DesIdle /\ GrostlIdle /\ UnitsIdle /\ SumsIdle

AnyNext ==
    /\ UNCHANGED part
    /\ \/ /\ part = "results" /\ Results!Next
          /\ UNCHANGED <<sk, round, aes_vars, des_vars, grostl_vars, units_vars, sums_vars, lastround_vars>>
       \/ /\ part = "aes" /\ Aes!Next
          /\ UNCHANGED <<results_vars, des_vars, grostl_vars, units_vars, sums_vars, lastround_vars>>
       \/ /\ part = "des" /\ Des!Next
          /\ UNCHANGED <<results_vars, aes_vars, grostl_vars, units_vars, sums_vars, lastround_vars>>
       \/ /\ part = "grostl" /\ GrostlHash!Next
          /\ UNCHANGED <<sk, results_vars, aes_vars, des_vars, units_vars, sums_vars, lastround_vars>>
       \/ /\ part = "units" /\ Units!Next
          /\ UNCHANGED <<pc, sk, round, results_vars, aes_vars, des_vars, grostl_vars, sums_vars, lastround_vars>>
       \/ /\ part = "sums" /\ Sums!Next
          /\ UNCHANGED <<pc, sk, round, results_vars, aes_vars, des_vars, grostl_vars, units_vars, lastround_vars>>
       \/ /\ part = "lastround" /\ LastRound!Next
          /\ UNCHANGED <<pc, sk, round, results_vars, aes_vars, des_vars, grostl_vars, units_vars, sums_vars>>

AnySpec == AnyInit /\ [][AnyNext]_allVars

-----------------------------------------------------------------------------
\* Each machine keeps its types.
TypeOK == CASE part = "results"   -> Results!TypeOK
            [] part = "aes"       -> Aes!TypeOK
            [] part = "des"       -> Des!TypeOK
            [] part = "grostl"    -> GrostlHash!TypeOK
            [] part = "units"     -> Units!TypeOK
            [] part = "sums"      -> Sums!TypeOK
            [] part = "lastround" -> LastRound!TypeOK

\* The iterations reported for the thresholds are those of the curves.
StableFromEnd == part = "results" => Results!StableFromEnd

\* Success rates and guessing entropies tell one story.
RatesFollowRanks == part = "results" => Results!RatesFollowRanks

\* The software ciphers give the known answers, masked or not, round by round,
\* and in both directions.
CiphersAgree ==
    /\ part = "aes" => Aes!CiphersAgree
    /\ part = "des" => Des!CiphersAgree
    /\ part = "grostl" => GrostlHash!CiphersAgree

\* The crypto instances predict what the registers of the ciphers do.
TargetsAreTransitions ==
    /\ part = "aes" => Aes!TargetsAreTransitions
    /\ part = "des" => Des!TargetsAreTransitions
    /\ part = "units" => Units!TargetsAreTransitions


\* Each Grostl unit gives the compression of its text exactly if it samples its
\* inputs before the bench changes them.
UnitsCompress == part = "units" => Units!UnitsCompress

\* Merged partial sums give the textbook's differentials.
MergedIsTextbook == part = "sums" => Sums!MergedIsTextbook

\* The reference attack ranks the right guess first when its register leaks.
LastRoundFindsKey == part = "lastround" => LastRound!LastRoundFindsKey
=============================================================================
