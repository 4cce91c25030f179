\* Bytes of 3 bits, up to four symbols, and moves by -4, -1 and 2.
CONSTANTS
    NoSymbol = NoSymbol
    ByteBits = 3
    NumberBits = 4
    MaxSymbols = 4
    MaxPast = 1
    Bytes <- MCBytes
    Symbols <- MCSymbols
    Moves <- MCMoves
SPECIFICATION BitSpec
INVARIANTS NoStartCode SymbolsReturn ReaderIsThere
\* the symbols are read
CHECK_DEADLOCK FALSE
