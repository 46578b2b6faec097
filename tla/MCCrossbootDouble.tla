------------------------- MODULE MCCrossbootDouble -------------------------
(* Doubles of five bits with exponents from -5 to 6: every encoding, and   *)
(* every text of up to two digits before and behind the point.              *)
EXTENDS CrossbootDouble

Digits(base, n) == UNION {[1..k -> 0..(base - 1)] : k \in 0..n}
Texts(fn, base, n, exps) ==
    {t \in [fn : {fn}, int : Digits(base, n), frac : Digits(base, n),
            exp : exps] : t.int \o t.frac # <<>>}
MCCalls ==
    Texts("strtod", 10, 2, -4..2)
        \cup [fn : {"hex"}, int : {<<0>>, <<1>>, <<9>>, <<1, 10>>},
              frac : Digits(16, 2) \cup [1..3 -> {0, 1, 8, 15}], exp : -4..3]
        \cup [fn : {"strtoll"}, int : Digits(10, 3) \cup {<<0, 5, 1, 1, 9>>},
              base : {10, 16},
              neg : BOOLEAN]
        \cup [fn : {"%e", "%f", "%g"}, bits : Doubles, prec : 0..4]
        \cup [fn : {"round", "floor", "ceil"}, bits : Doubles, neg : BOOLEAN]
        \cup [fn : {"pow"}, bits : Doubles, n : -4..4]
============================================================================
