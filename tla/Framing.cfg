SPECIFICATION Spec
CONSTANTS
    Header = 2
    Bodies <- MCBodies
    Stray <- MCStray
    MaxLinks = 2
    MaxSent = 3
INVARIANT TypeOK
PROPERTIES
    ClientReadsMessages
    ServerReadsMessages
    ClientReceives
    ServerHears
    Reconnects
CHECK_DEADLOCK FALSE
