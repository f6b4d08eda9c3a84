\* Two requests with one key and one body.
SPECIFICATION IdempotencySpec
CONSTANTS
    Attempts = {a1, a2}
    Keys = {k}
    Bodies = {b}
    NoKey = NoKey
    LongKey = LongKey
    NoRecord = NoRecord
INVARIANT ExecutedOnce
CHECK_DEADLOCK FALSE
