--------------------------- MODULE ResultDivider ---------------------------
(***************************************************************************)
(* How the counts of a combined circuit are divided among the circuits it  *)
(* was combined from (multiprog/manual/resultdivider).  A bit string is a  *)
(* sequence of 0 and 1 written the way the gateway writes it, bit 0 last.  *)
(* Counts are functions from bit strings of one length to numbers, and a   *)
(* virtual-physical mapping is a function from virtual to physical qubits  *)
(* (the code's maps).  Errors are predicates beside the value: the callers *)
(* look at the value only when there is no error.                          *)
(***************************************************************************)
EXTENDS Integers, Sequences, FiniteSets, FiniteSetsExt

Bits == {0, 1}

\* The bit of string s for qubit, or classical bit, number q.
BitAt(s, q) == s[Len(s) - q]

\* The string whose bit number q is bit[q], for q in 0 .. n - 1.
FromBits(n, bit) == [k \in 1 .. n |-> bit[n - k]]

Sum(lengths) ==
    LET upTo[i \in 0 .. Len(lengths)] ==
            IF i = 0 THEN 0 ELSE upTo[i - 1] + lengths[i]
    IN  upTo[Len(lengths)]

-----------------------------------------------------------------------------
(* From physical to virtual qubits.                                        *)

\* The number of digits of any key; all keys of one result have as many.
NumCbits(counts) == IF DOMAIN counts = {} THEN 0
                    ELSE Len(CHOOSE s \in DOMAIN counts : TRUE)

extractVirtualPhysicalMapping(counts, vpm) ==
    IF NumCbits(counts) < Cardinality(DOMAIN vpm)
    THEN [v \in {w \in DOMAIN vpm : w < NumCbits(counts)} |-> vpm[v]]
    ELSE vpm

\* The bits of s belong to the physical qubits of the mapping in ascending
\* order; the physical qubits below the largest that are missing get a 0.
fillMissingDigits(s, physicals) ==
    FromBits(Max(physicals \cup {0}) + 1,
             [q \in 0 .. Max(physicals \cup {0}) |->
                IF q \in physicals
                THEN BitAt(s, Cardinality({p \in physicals : p < q}))
                ELSE 0])

\* Relocate every physical bit to the virtual qubit that it was laid out from.
SwapKey(s, vpm) ==
    LET filled == fillMissingDigits(s, {vpm[v] : v \in DOMAIN vpm})
    IN  FromBits(Len(s), [v \in 0 .. Len(s) - 1 |-> BitAt(filled, vpm[v])])

\* Mutated form of SwapFails: the whole mapping is compared, unmeasured qubits
\* included.
SwapFailsUnextracted(counts, vpm) ==
    /\ DOMAIN vpm # {}
    /\ \E s \in DOMAIN counts : Cardinality(DOMAIN vpm) # Len(s)

\* The list of physical qubits must be as long as the bit string, and every
\* virtual qubit must have a place in it.
SwapFails(counts, vpm) ==
    LET m == extractVirtualPhysicalMapping(counts, vpm)
    IN  /\ DOMAIN vpm # {}
        /\ \E s \in DOMAIN counts :
              \/ Cardinality(DOMAIN m) # Len(s)
              \/ \E v \in DOMAIN m : v >= Len(s)

\* Without a mapping the counts stay as they are.
swapVirtualPhysical(counts, vpm) ==
    IF DOMAIN vpm = {} THEN counts
    ELSE LET m == extractVirtualPhysicalMapping(counts, vpm)
         IN  [t \in {SwapKey(s, m) : s \in DOMAIN counts} |->
                counts[CHOOSE s \in DOMAIN counts : SwapKey(s, m) = t]]

-----------------------------------------------------------------------------
(* From one string to the strings of the circuits.                         *)

divideStringByLengths(s, lengths) ==
    [i \in DOMAIN lengths |->
        LET start == Sum(SubSeq(lengths, 1, i - 1))
        IN  SubSeq(s, start + 1, start + lengths[i])]

DivideFails(counts, lengths) ==
    \E s \in DOMAIN counts : Sum(lengths) # Len(s)

\* The counts of several strings, added up.
TotalCount(counts, strings) == MapThenSumSet(LAMBDA s : counts[s], strings)

\* The part at position i of the list belongs to circuit Len(lengths) - i;
\* strings with the same part are added up.
DividedCounts(counts, lengths) ==
    [c \in 0 .. Len(lengths) - 1 |->
        LET part(s) == divideStringByLengths(s, lengths)[Len(lengths) - c]
        IN  [p \in {part(s) : s \in DOMAIN counts} |->
                TotalCount(counts, {s \in DOMAIN counts : part(s) = p})]]

\* No counts, a mapping that does not fit the counts, or lengths that do not.
DivideResultFails(counts, vpm, lengths) ==
    \/ DOMAIN counts = {}
    \/ SwapFails(counts, vpm)
    \/ DivideFails(swapVirtualPhysical(counts, vpm), lengths)
=============================================================================
