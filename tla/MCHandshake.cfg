\* A handshake between all kinds of sides, with and without a send buffer.
SPECIFICATION LiveSpec
CONSTANT Configs <- Mixed
INVARIANTS TypeOK  SecureReadsEncrypted
PROPERTIES TemporaryEnds  HandshakeCompletes
CHECK_DEADLOCK FALSE
