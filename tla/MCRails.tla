-------------------------------- MODULE MCRails --------------------------------
(* A converter of 7 bits, with what a supply looks like to it.              *)
EXTENDS Rails

Of(p5, p12, m12) == [r \in Rail |-> CASE r = 0 -> p5 [] r = 1 -> p12 [] r = 2 -> m12]

MCSupplies == { Of(0, 0, 92),       \* USB only, -12 V leaking at -5.1 V
                Of(97, 108, 64),    \* 5.0 V, 12.1 V, -11.8 V
                Of(97, 62, 90) }    \* soft start: +12 V and -12 V half way

(* The decay of an average from full scale.                                 *)
MCLeft[k \in 0 .. Samples] ==
    IF k = 0 THEN AdcMax ELSE (MCLeft[k - 1] * (Weight - 1)) \div Weight
===============================================================================
