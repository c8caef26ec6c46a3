CONSTANTS
    Writers = {w1, w2}
    Readers = {r1, r2}
    NoOne = NoOne
    Bytes = {0, 1}
    Length = 3
    MaxLen = 2
SPECIFICATION Spec
INVARIANT ReaderInStoredCell
PROPERTIES StoredBytesStable ImplementsFifo
