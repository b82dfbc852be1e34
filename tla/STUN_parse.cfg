SPECIFICATION FairSpec
CONSTANTS
    Datagram <- MCDatagram
    TxID <- Tx
    MaxSize = 65535
INVARIANTS TypeOK Inside NoPanic ParsedIsSent
PROPERTIES Terminates
CHECK_DEADLOCK FALSE
