--------------------------- MODULE MCWideArithmetic ---------------------------
(* Two-byte numbers around the nibble, sign and byte boundaries. *)
EXTENDS WideArithmetic

MCBytes == {0, 1, 15, 16, 127, 128, 255}
MCOperands == {<<lo, hi>> : lo \in MCBytes, hi \in MCBytes}

MCChains == {<<"add", "adc">>, <<"inc", "icc">>, <<"xor", "adc">>, <<"not", "adc">>}

\* The subtractions of the claim that is violated.
MCSubtractions == {<<"sub", "sbb">>}
=============================================================================
