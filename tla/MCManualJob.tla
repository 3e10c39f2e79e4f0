---------------------------- MODULE MCManualJob ----------------------------
(***************************************************************************)
(* Instances of ManualJob.  A circuit is given by its numbers of qubits    *)
(* and classical bits.                                                     *)
(***************************************************************************)
EXTENDS ManualJob, TLC

\* The examples in the comments of result_divider.go, and one of its tests in
\* which the last of four virtual qubits is not measured.
ASSUME FillExample ==
    fillMissingDigits(<<1, 1, 1>>, {0, 2, 4}) = <<1, 0, 1, 0, 1>>

ASSUME SwapExample ==
    swapVirtualPhysical((<<0, 1, 0>> :> 10) @@ (<<1, 0, 1>> :> 30),
                        (0 :> 1) @@ (1 :> 0) @@ (2 :> 2))
        = (<<0, 0, 1>> :> 10) @@ (<<1, 1, 0>> :> 30)

ASSUME UnmeasuredExample ==
    swapVirtualPhysical((<<0, 1, 0>> :> 1) @@ (<<1, 1, 1>> :> 2),
                        (0 :> 0) @@ (3 :> 2) @@ (2 :> 3) @@ (1 :> 5))
        = (<<1, 0, 0>> :> 1) @@ (<<1, 1, 1>> :> 2)

ASSUME DivideExample ==
    divideStringByLengths(<<1, 0, 1, 0, 1, 1, 0, 1, 1>>, <<2, 3, 4>>)
        = <<<<1, 0>>, <<1, 0, 1>>, <<1, 0, 1, 1>>>>

Circuit(q, c) == [qubits |-> q, clbits |-> c]

\* The last circuit, or the first, leaves qubits unmeasured; the list of four
\* circuits is too large for the device.
Lists ==
    {<<Circuit(2, 2), Circuit(1, 1)>>,
     <<Circuit(1, 1), Circuit(2, 1)>>,
     <<Circuit(2, 1), Circuit(1, 1)>>,
     <<Circuit(1, 1), Circuit(1, 1), Circuit(1, 1)>>,
     <<Circuit(1, 1), Circuit(2, 2), Circuit(1, 0)>>,
     <<Circuit(1, 1), Circuit(1, 1), Circuit(1, 1), Circuit(2, 2)>>}

OneOfEach == {"noLib", "nullLib", "notAString"}
=============================================================================
