-------------------------------- MODULE Kernel --------------------------------
(***************************************************************************)
(* The AVX2 kernel l2_distance() (core/distance.cpp), and with it the loop *)
(* of sq8_asymmetric_l2() (core/sq8.cpp), which is the same: blocks of     *)
(* eight terms summed in the eight lanes of a register, the lanes added by *)
(* halves and then by pairs, and the terms that fill no block one by one.  *)
(*                                                                         *)
(* The term of dimension i is the number i; a sum is the sequence of the   *)
(* terms in it.  Floating-point addition rounds, so another order of the   *)
(* terms is another number: only which terms are added is compared.        *)
(***************************************************************************)
EXTENDS Integers, Sequences

CONSTANT DimWidth    \* the number of values of the type Dim

ASSUME DimAssumption == DimWidth \in Nat \ {0}

Block == 8

\* Mutant of MoreBlocks: the last block need not be full.
MoreBlocksPartial(i, dim) == i < dim

\* i + 8 <= dim, in the arithmetic of Dim.
MoreBlocks(i, dim) == (i + Block) % DimWidth <= dim

\* The loop over blocks: two loads, a subtraction, a fused multiply and add.
\* It ends after no more than dim rounds as long as i + 8 does not wrap.
AddBlocks(dim) ==
    LET block[n \in 0 .. dim] ==
            IF n = 0 THEN [i |-> 0, sum |-> [lane \in 0 .. Block - 1 |-> <<>>]]
            ELSE LET before == block[n - 1]
                 IN  IF ~MoreBlocks(before.i, dim) THEN before
                     ELSE [i   |-> (before.i + Block) % DimWidth,
                           sum |-> [lane \in 0 .. Block - 1 |->
                                       Append(before.sum[lane], before.i + lane)]]
    IN  block[dim]

\* _mm_add_ps(lo, hi)
AddHalves(sum) == [lane \in 0 .. 3 |-> sum[lane] \o sum[lane + 4]]

\* _mm_hadd_ps
HorizontalAdd(a, b) ==
    [lane \in 0 .. 3 |-> IF lane < 2 THEN a[2 * lane] \o a[2 * lane + 1]
                                     ELSE b[2 * lane - 4] \o b[2 * lane - 3]]

\* The loop over the dimensions that are left.
AddTail(i, dim, result) == result \o [n \in 1 .. dim - i |-> i + n - 1]

L2Terms(dim) ==
    LET blocks == AddBlocks(dim)
        half == AddHalves(blocks.sum)
        pairs == HorizontalAdd(half, half)
        quarters == HorizontalAdd(pairs, pairs)
    IN  AddTail(blocks.i, dim, quarters[0])

=============================================================================
