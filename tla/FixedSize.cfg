CONSTANTS
    Exchanges <- UnionKeyExchanges
SPECIFICATION CdrSpec
CHECK_DEADLOCK FALSE
INVARIANT KeyIsWritten
