\* A slice of 2 slots that doubles to 4 and then grows by ten percent, rounded
\* up, to 5 and 6; heads and tails at every offset.  Heaps of up to 5 tasks
\* with any of three deadlines.
CONSTANTS
    Values = {0, 1, 2}
    Zero = Zero
    RingMin = 2
    RingExp = 3
    Size = 0
    MaxLength = 5
SPECIFICATION Spec
INVARIANTS
    IterationsAgree
    HeapIsSet
PROPERTIES
    FifoSpec
