\* One further reset, at any moment of either message.
SPECIFICATION Spec
CONSTANTS
    sbox <- MCsbox
    sk <- MCsk
    Requests <- MCRequests
    PowerUp <- MCPowerUp
    Junk <- MCJunk
    MaxResets = 1
INVARIANTS
    TypeOK
    OutputIsBlock
    KnownAnswer
PROPERTIES
    CipherSpec
    Answered
