----------------------------- MODULE MCOidValue -----------------------------
(* Small words: 3-bit and 7-bit instead of 32-bit and 64-bit integers, and *)
(* floats of 4 bits, which hold every integer up to 16, then every second, *)
(* fourth, eighth one.                                                     *)
EXTENDS OidValue

MCLowest == -6

Nearest(n, step) == step * ((n + step \div 2) \div step)

MCFloat ==
    [n \in Numbers |->
        IF n <= 16 THEN n
        ELSE IF n <= 32 THEN Nearest(n, 2)
        ELSE IF n <= 64 THEN Nearest(n, 4)
        ELSE Nearest(n, 8)]
=============================================================================
