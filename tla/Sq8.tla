--------------------------------- MODULE Sq8 ----------------------------------
(***************************************************************************)
(* Scalar quantisation (core/sq8.cpp): sq8_compute_params() scans the      *)
(* vectors it is trained on, sq8_encode() and sq8_decode() then turn each  *)
(* component into one of a few codes and back.                             *)
(*                                                                         *)
(* Components are integers, in a unit that makes 1.0f equal to One; a      *)
(* decoded component is kept as a fraction over Steps.  The rounding of    *)
(* floating-point arithmetic is left out, that of the code is not.         *)
(***************************************************************************)
EXTENDS Integers, Sequences, FiniteSetsExt

CONSTANTS
    Steps,      \* the largest code, 255
    One,        \* 1.0f
    Tiny        \* 1e-10f, so small that what is less gets the code 0 of scale 1

ASSUME Sq8Assumption ==
    /\ {Steps, One, Tiny} \subseteq Nat \ {0}
    /\ 2 * (Tiny * Steps) <= One

\* std::numeric_limits<float>::max() and ::lowest()
Highest == 1000000
Lowest == -Highest

\* The scan: the least and the greatest component of dimension d.
Seen(vectors, d) ==
    LET seen[n \in 0 .. Len(vectors)] ==
            IF n = 0 THEN [low |-> Highest, high |-> Lowest]
            ELSE [low  |-> Min({seen[n - 1].low, vectors[n][d]}),
                  high |-> Max({seen[n - 1].high, vectors[n][d]})]
    IN  seen[Len(vectors)]

\* A dimension that hardly extends counts as constant and gets the scale 1.
Scale(seen) == IF seen.high - seen.low < Tiny THEN One ELSE seen.high - seen.low

\* sq8_compute_params() for vectors of the given number of dimensions; no
\* vectors throw.
Sq8Params(vectors, dim) ==
    [min   |-> [d \in 1 .. dim |-> Seen(vectors, d).low],
     scale |-> [d \in 1 .. dim |-> Scale(Seen(vectors, d))]]

\* Mutant of Clamp: what lies outside is left there.
ClampNot(x, scale) == x

\* normalized, times scale: between 0 and 1.
Clamp(x, scale) == Max({0, Min({scale, x})})

\* std::round(x / y) for what is not negative: halves go up.
Round(x, y) == (2 * x + y) \div (2 * y)

\* The code of a component of dimension d is a byte.
Encode(x, d, params) ==
    Round(Clamp(x - params.min[d], params.scale[d]) * Steps, params.scale[d]) % (Steps + 1)

\* The decoded component, times Steps.
Decode(code, d, params) == code * params.scale[d] + params.min[d] * Steps

=============================================================================
