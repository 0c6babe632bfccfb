--------------------------- MODULE AesEncryptUnit ---------------------------
(***************************************************************************)
(* The iterative AES-128 encryption units, plain and masked, clock edge by *)
(* clock edge: the control state machine, the four row memories with their *)
(* two halves, the multiplexers and the byte-wide data path between them,  *)
(* and the test bench that resets a unit and feeds it.  The plain unit is  *)
(* the masked one with both masks zero.                                    *)
(*                                                                         *)
(* A step is one rising clock edge.  The registers see the inputs as they  *)
(* were before the edge; the bench changes its inputs after it.            *)
(***************************************************************************)
EXTENDS AesBytes

CONSTANTS
    sbox,        \* the substitution table
    sk,          \* the contents of aes_key_mem: 11 subkeys of 16 bytes
    Requests,    \* what the bench may ask for: <<text, imask, omask>>
    PowerUp,     \* what the counting registers may hold when power comes on
    Junk,        \* the byte the memories and the buffer then hold
    MaxResets    \* bound on the resets after the first

ASSUME UnitAssumption ==
    /\ sbox \in [Byte -> Byte]
    /\ sk \in [0 .. 175 -> Byte]
    /\ Requests \subseteq Block \X Byte \X Byte
    /\ PowerUp \subseteq 0 .. 255
    /\ Junk \in Byte
    /\ MaxResets \in Nat

VARIABLES
    reset, valid_input, data_in, imask, omask,  \* the inputs of the unit
    cs, count, round, key_address,              \* aes_encrypt_control
    ram,            \* the row memories: ram[row][0 .. 3] and ram[row][4 .. 7]
    buffer,         \* aes_write_mux: the input byte of the last edge
    text, fed,      \* the bench: the message, and how many of its bytes it set
    resets,         \* how often it reset the unit again
    held            \* history: the block as the last finished stage left it

inputs == <<reset, valid_input, data_in, imask, omask>>
bench == <<text, fed, resets>>
vars == <<inputs, cs, count, round, key_address, ram, buffer, bench, held>>

Stage == {"IDLE", "LOADT", "BYTESUB", "SHIFTROWS", "MIXCOLS", "ADDKEY", "STORET"}
Row == 0 .. 3
Column == 0 .. 7

-----------------------------------------------------------------------------
(* Combinational logic of the control. *)

\* Mutant: the comparison is with a value the four bits never reach.
last_16 == count = 16

last == count = 15

after_addkey == IF round = 10 THEN "STORET" ELSE "BYTESUB"

\* next state control logic
ns == CASE cs = "IDLE"      /\ valid_input     -> "LOADT"
        [] cs = "LOADT"     /\ last            -> "ADDKEY"
        [] cs = "BYTESUB"   /\ last            -> "SHIFTROWS"
        [] cs = "SHIFTROWS" /\ last            -> IF round = 10 THEN "ADDKEY"
                                                                ELSE "MIXCOLS"
        [] cs = "MIXCOLS"   /\ last            -> "ADDKEY"
        [] cs = "ADDKEY"    /\ last            -> after_addkey
        [] cs = "STORET"    /\ last            -> "IDLE"
        [] OTHER                               -> cs

valid_output == cs = "STORET"

row == count % 4           \* rd_row; dest_row is its one-hot form
col == count \div 4

\* Mutant: the upper halves are read in the whole last round.
rd_col_round_10 == IF cs = "MIXCOLS" \/ round = 10 THEN col + 4 ELSE col

\* The upper halves are read after SHIFTROWS has filled them.
rd_col == IF cs = "MIXCOLS" \/ (cs = "ADDKEY" /\ round = 10) THEN col + 4 ELSE col

\* Mutant: the rows are shifted to the right.
wr_col_other_way == IF cs = "SHIFTROWS" THEN 4 + ((col + row) % 4) ELSE col

\* shift_addr: entry r of column c goes to column c - r of the upper half.
wr_col == IF cs = "SHIFTROWS" THEN 4 + ((col - row) % 4) ELSE col

writing == cs \notin {"IDLE", "STORET"}

-----------------------------------------------------------------------------
(* The data path. *)

state == ram[row][rd_col]

\* bSbox, and aes_sbox_lut when the masks are zero
sb_out == Xor(sbox[Xor(state, imask)], omask)

\* aes_mix_columns: the products are not reduced one by one; the carries out
\* of the top bit are summed and reduce the sum of products once.
coefficient(r) == CASE r = row -> 2 [] r = (row + 1) % 4 -> 3 [] OTHER -> 1

product(r) == LET x == ram[r][rd_col]
              IN  CASE coefficient(r) = 1 -> x
                    [] coefficient(r) = 2 -> Shl(x)
                    [] coefficient(r) = 3 -> Xor(Shl(x), x)

carry(r) == ram[r][rd_col][7] /\ coefficient(r) # 1

mc_out ==
    LET pa == Xor(Xor(product(0), product(1)), Xor(product(2), product(3)))
        ca == (carry(0) # carry(1)) # (carry(2) # carry(3))
    IN  IF ca THEN Xor(pa, Poly) ELSE pa

key == sk[key_address]
ak_in == IF round = 0 THEN Xor(state, imask) ELSE state
ak_out == Xor(ak_in, key)
\* Mutant: the mask is changed in round 0 too.
ak_wr_always == Xor(Xor(ak_out, imask), omask)
ak_wr == IF round # 0 THEN Xor(Xor(ak_out, imask), omask) ELSE ak_out

\* aes_write_mux
wr_data == CASE cs = "BYTESUB"   -> sb_out
             [] cs = "SHIFTROWS" -> state
             [] cs = "MIXCOLS"   -> mc_out
             [] cs = "ADDKEY"    -> ak_wr
             [] OTHER            -> buffer

data_out == Xor(state, imask)

-----------------------------------------------------------------------------
(* A rising edge of the clock. *)

\* The half that the stage writes, as a block.
written == IF cs = "SHIFTROWS" THEN 4 ELSE 0
BlockOf(mem, half) == [k \in Index |-> mem[k % 4][half + (k \div 4)]]

\* Mutant: the key address does not stop at the last entry of the ROM.
next_key_unbounded == key_address + 1
next_key == IF key_address # 175 THEN key_address + 1 ELSE key_address

\* The reset of the state register is asynchronous.
Control ==
    /\ cs' = IF reset \/ reset' THEN "IDLE" ELSE ns
    /\ count' = IF cs = "IDLE" THEN 0 ELSE (count + 1) % 16
    /\ round' = CASE cs = "IDLE" -> 0
                  [] cs = "ADDKEY" /\ last /\ round # 10 -> round + 1
                  [] OTHER -> round
    /\ key_address' = CASE cs = "IDLE" -> 0
                        [] cs = "ADDKEY" -> next_key
                        [] OTHER -> key_address

Memory ==
    /\ ram' = IF writing THEN [ram EXCEPT ![row][wr_col] = wr_data] ELSE ram
    /\ buffer' = data_in
    /\ held' = IF writing /\ last THEN BlockOf(ram', written) ELSE held

Clock == Control /\ Memory

-----------------------------------------------------------------------------
(* The bench. *)

Init ==
    /\ reset = TRUE /\ cs = "IDLE"
    /\ valid_input = FALSE
    /\ data_in = Zero /\ imask = Zero /\ omask = Zero
    /\ \E n \in PowerUp : count = n % 16 /\ round = n % 16 /\ key_address = n
    /\ ram = [r \in Row |-> [c \in Column |-> Junk]]
    /\ buffer = Junk
    /\ text = Blank /\ fed = 0 /\ resets = 0
    /\ held = Blank

\* "assert and de-assert the reset signal": the bench gives up the message it
\* was feeding or waiting for.
AssertReset ==
    /\ resets < MaxResets
    /\ reset' = TRUE
    /\ valid_input' = FALSE
    /\ resets' = resets + 1
    /\ fed' = 0
    /\ Clock
    /\ UNCHANGED <<data_in, imask, omask, text>>

\* The bench begins a message only when the unit waits for one.
Start ==
    /\ ~reset /\ ns = "IDLE" /\ fed = 0
    /\ \E r \in Requests :
          /\ text' = r[1] /\ imask' = r[2] /\ omask' = r[3]
          /\ data_in' = r[1][0]
    /\ valid_input' = TRUE /\ reset' = FALSE
    /\ fed' = 1
    /\ Clock
    /\ UNCHANGED resets

Feed ==
    /\ fed \in 1 .. 15
    /\ data_in' = text[fed]
    /\ fed' = fed + 1
    /\ reset' = FALSE
    /\ Clock
    /\ UNCHANGED <<valid_input, imask, omask, text, resets>>

\* All bytes are in, or there is no message: the bench waits.  It is done with
\* a message when the unit has returned the last byte.
Wait ==
    /\ fed \in {0, 16}
    /\ valid_input' = FALSE /\ reset' = FALSE
    /\ fed' = IF valid_output /\ last THEN 0 ELSE fed
    /\ Clock
    /\ UNCHANGED <<data_in, imask, omask, text, resets>>

Next == AssertReset \/ Start \/ Feed \/ Wait

\* The clock never stops.
Spec == Init /\ [][Next]_vars /\ WF_vars(Next)

-----------------------------------------------------------------------------
(* Properties. *)

\* The registers have their types, and from the moment a message is accepted
\* the round is one of AES-128's and the key address one of the ROM's, which
\* has no entry 176 to read after the last subkey.
TypeOK ==
    /\ cs \in Stage /\ count \in 0 .. 15 /\ round \in 0 .. 15
    /\ key_address \in 0 .. 255
    /\ cs # "IDLE" => round \in 0 .. 10 /\ key_address \in 0 .. 175
    /\ ram \in [Row -> [Column -> Byte]] /\ held \in Block
    /\ {data_in, imask, omask, buffer} \subseteq Byte
    /\ {reset, valid_input} \subseteq BOOLEAN
    /\ text \in Block /\ fed \in 0 .. 16 /\ resets \in 0 .. MaxResets

\* The mask on the block while the unit is in a stage.
Mask == CASE cs \in {"BYTESUB", "STORET"} -> imask
          [] cs \in {"SHIFTROWS", "MIXCOLS"} -> omask
          [] cs = "ADDKEY" /\ round # 0 -> omask
          [] OTHER -> Zero

Unmasked == [k \in Index |-> Xor(held[k], Mask)]

Busy == cs \notin {"IDLE", "LOADT"}

\* The variables of the software cipher: how far the unit has come with it.
Plaintext     == IF Busy THEN text ELSE Blank
CipherState   == IF Busy THEN Unmasked ELSE Blank
CipherRound   == IF Busy THEN round ELSE 0
CipherCall    == CASE cs = "BYTESUB"   -> "sub_bytes"
                   [] cs = "SHIFTROWS" -> "shift_rows"
                   [] cs = "MIXCOLS"   -> "mix_columns"
                   [] cs = "ADDKEY"    -> "add_round_key"
                   [] cs = "STORET"    -> "done"
                   [] OTHER            -> "idle"

Cipher == INSTANCE AesCipher WITH
    Texts <- {r[1] : r \in Requests},
    pt    <- Plaintext,   state <- CipherState,
    round <- CipherRound, call  <- CipherCall

\* Whatever the memories held before and wherever a reset cut the message
\* before it off, the unit goes through the calls of aes::encrypt, one stage for
\* one call, each with the result of the software; no stage reads a byte that
\* the same stage has overwritten, and the masks cancel.
CipherSpec == Cipher!Spec

\* The bytes that appear at the output while valid_output is set are the block
\* that the last stage left, without its mask, in order.
OutputIsBlock == valid_output => data_out = Unmasked[count]

\* A message that the bench has fed completely is answered to its last byte,
\* unless the bench resets the unit.
Answered == (fed = 16) ~> ((valid_output /\ last) \/ reset)

=============================================================================
