\* Every designation of up to four bytes over digits, a letter, a blank,
\* the colon and a punctuation byte.
CONSTANTS
    Alphabet = {"1", "2", "a", " ", ":", "-"}
    MaxLen = 4
SPECIFICATION Spec
\* The enumeration ends at MaxLen bytes.
CHECK_DEADLOCK FALSE
INVARIANT ProfileNamePopulated
