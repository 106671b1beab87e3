SPECIFICATION ParseSpec
CONSTANTS
    HUFF_LENGTH_COUNT = 3
    DC_LENGTHS = 2
    DC_WORDS = 2
    AC_WORDS = 4
    DQT_TABLE_ENTRIES = 2
    MAX_VALUES = 8
    HUFF_NO_CODE = 65535
    HUFF_NO_PTR = 255
    Headers <- MCHeaders
    Cuts = {0, 5, 6, 7, 8, 9, 10, 11, 12, 13, 14, 15, 16, 17, 20, 23, 27, 38}
INVARIANTS ParsedAsWritten PlanesHoldPicture TablesInPlace ScanStartsAtEcs
CHECK_DEADLOCK FALSE
