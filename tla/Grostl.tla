-------------------------------- MODULE Grostl --------------------------------
(* Grostl-256 as grostl.cpp computes it: the two permutations, the compression *)
(* with and without masks, the padding and the hash.  A step is one round of a *)
(* permutation, or what is done before or after its rounds.                    *)
EXTENDS GrostlBlocks, Sequences

CONSTANTS
    HashTexts,      \* pairs [in, digest]: a sequence of bytes and 32 bytes
    CompressTexts,  \* triples [msg, chain, out] of blocks
    BlockMasks      \* pairs [imask, omask] of blocks

VARIABLES
    pc,             \* "start", "next", "p", "q", "transform" or "done"
    call,           \* the function that was called, and its arguments
    blocks,         \* the blocks still to be compressed
    chain,
    blind,          \* the masks; those of the unmasked function are zero
    round, state,   \* out, p or q of the code
    plain,          \* history: the block of the unmasked function
    p_out,          \* p once it is complete
    digest

vars == <<pc, call, blocks, chain, blind, round, state, plain, p_out, digest>>

Init ==
    /\ pc = "start" /\ call = [fn |-> "none"] /\ blocks = <<>>
    /\ chain = ZeroBlock /\ blind = NoMasks /\ round = 0
    /\ state = ZeroBlock /\ plain = ZeroBlock /\ p_out = ZeroBlock /\ digest = <<>>

-----------------------------------------------------------------------------
(* pad_message: for messages of fewer than 2^24 blocks *)

Padded(msg) ==
    LET N == 8 * Len(msg)
        w == (-N - 65) % 512
        r == (N + w + 65) \div 512
    IN  msg \o [i \in 1..((w + 1) \div 8) |-> IF i = 1 THEN 128 ELSE 0]
            \o <<0, 0, 0, 0, 0, r \div 65536, (r \div 256) % 256, r % 256>>

BlocksOf(bytes) == [n \in 1..(Len(bytes) \div 64) |-> [i \in Place |-> bytes[64 * (n - 1) + i + 1]]]

CallHash(t) ==
    /\ pc = "start" /\ pc' = "next"
    /\ call' = [fn |-> "hash", in |-> t.in]
    /\ blocks' = BlocksOf(Padded(t.in))
    /\ chain' = [ZeroBlock EXCEPT ![62] = 1]
    /\ UNCHANGED <<blind, round, state, plain, p_out, digest>>

CallCompress(t, m) ==
    /\ pc = "start" /\ pc' = "next"
    /\ call' = [fn |-> "compress", msg |-> t.msg, chain |-> t.chain]
    /\ blocks' = <<t.msg>> /\ chain' = t.chain /\ blind' = m
    /\ UNCHANGED <<round, state, plain, p_out, digest>>

\* A permutation begins on a block.
Begin(perm, in) ==
    /\ pc' = perm /\ round' = 0
    /\ state' = xor_bytes(in, blind.imask) /\ plain' = in

Compress ==
    /\ pc = "next" /\ blocks # <<>>
    /\ Begin("p", xor_bytes(Head(blocks), chain))
    /\ UNCHANGED <<call, blocks, chain, blind, p_out, digest>>

Round ==
    /\ pc \in {"p", "q", "transform"} /\ round < 10
    /\ LET perm == IF pc = "q" THEN "q" ELSE "p" IN
        /\ state' = Turn(perm, state, blind, round)
        /\ plain' = Turn(perm, plain, NoMasks, round)
    /\ round' = round + 1
    /\ UNCHANGED <<pc, call, blocks, chain, blind, p_out, digest>>

SecondHalf ==
    /\ pc = "p" /\ round = 10
    /\ p_out' = state
    /\ Begin("q", Head(blocks))
    /\ UNCHANGED <<call, blocks, chain, blind, digest>>

\* The masks of p and q are the same and cancel.
Chain ==
    /\ pc = "q" /\ round = 10
    /\ chain' = xor_bytes(chain, xor_bytes(p_out, state))
    /\ blocks' = Tail(blocks)
    /\ pc' = IF call.fn = "compress" THEN "done" ELSE "next"
    /\ UNCHANGED <<call, blind, round, state, plain, p_out, digest>>

\* output_transform
OutputTransform ==
    /\ pc = "next" /\ blocks = <<>>
    /\ Begin("transform", chain)
    /\ UNCHANGED <<call, blocks, chain, blind, p_out, digest>>

Digest ==
    /\ pc = "transform" /\ round = 10 /\ pc' = "done"
    /\ digest' = [i \in 1..32 |-> Xor8(chain[i + 31], state[i + 31])]
    /\ UNCHANGED <<call, blocks, chain, blind, round, state, plain, p_out>>

Next == \/ \E t \in HashTexts : CallHash(t)
        \/ \E t \in CompressTexts, m \in BlockMasks \union {NoMasks} : CallCompress(t, m)
        \/ Compress \/ Round \/ SecondHalf \/ Chain \/ OutputTransform \/ Digest

-----------------------------------------------------------------------------
TypeOK ==
    /\ pc \in {"start", "next", "p", "q", "transform", "done"}
    /\ round \in 0..10
    /\ {chain, state, plain, p_out} \subseteq [Place -> Byte]

\* The masked block is at each round the unmasked one under the input mask, and
\* every call, whatever its masks, gives the known answer.
CiphersAgree ==
    /\ pc \in {"p", "q", "transform"} => state = xor_bytes(plain, blind.imask)
    /\ pc = "done" =>
        /\ \A t \in HashTexts : call = [fn |-> "hash", in |-> t.in] => digest = t.digest
        /\ \A t \in CompressTexts :
            call = [fn |-> "compress", msg |-> t.msg, chain |-> t.chain] => chain = t.out
===============================================================================
