-------------------------- MODULE CrossbootDouble --------------------------
(***************************************************************************)
(* strtod, strtoll, the rendering of doubles and the exact part of Math,   *)
(* of the bare-metal C library, where a program boots without a host's     *)
(* libm or printf.  The big numbers of the code are natural numbers here,  *)
(* and the format of a double is a parameter, so that every text over a    *)
(* small format can be compared with exact rational arithmetic.  The sign  *)
(* of a double is left out of reading and printing, which take it off      *)
(* first and put it back last.                                             *)
(***************************************************************************)
EXTENDS Integers, Sequences, SequencesExt

CONSTANTS P,            \* bits of precision (53)
          EMax,         \* largest exponent (1023)
          Word,         \* bits of a machine word (64)
          MaxDigits,    \* decimal digits taken in (1100)
          ExpClamp,     \* decimal exponents are cut to this (1500)
          Far,          \* binary exponents beyond are not looked at (2000)
          Calls         \* the calls made, records with a field fn

ASSUME FormatAssumption ==
    /\ P \in Nat \ {0, 1} /\ EMax \in Nat \ {0} /\ Word >= P + 4
    /\ MaxDigits \in Nat /\ ExpClamp \in Nat /\ Far > EMax

VARIABLES call, answer
vars == <<call, answer>>

EMin == 1 - EMax
MinExp == EMin - (P - 1)        \* of the least positive double
Keep == P + 3                   \* bits of a quotient that are computed

\* A double is named by its encoding, whose order is that of the values.
Inf == (2 * EMax + 1) * 2^(P - 1)
Doubles == 0..(Inf - 1)

Value(digits, base) == FoldLeft(LAMBDA n, d : base * n + d, 0, digits)
BitLen(n) == CHOOSE k \in 0..30 : n < 2^k /\ (k = 0 \/ n >= 2^(k-1))
ShiftLeft(n, k) == n * 2^k
Shift(n, k) == IF k >= 0 THEN ShiftLeft(n, k) ELSE n \div 2^(-k)
Power5(k) == 5^k
Lower(a, b) == IF a < b THEN a ELSE b
Higher(a, b) == IF a < b THEN b ELSE a

----------------------------------------------------------------------------
(* Exact arithmetic on n / d, the value in units of the least positive     *)
(* double.                                                                 *)

Mant(b) == LET f == b % 2^(P-1) IN IF b < 2^(P-1) THEN f ELSE f + 2^(P-1)
Exp2(b) == IF b < 2^(P-1) THEN MinExp ELSE b \div 2^(P-1) - (EMax + P - 1)
Units(b) == Mant(b) * 2^(Exp2(b) - MinExp)      \* of a double; also of Inf
Gap(b, n, d) == LET g == n - Units(b) * d IN IF g < 0 THEN -g ELSE g

\* b is a nearest double to n / d, the even one of two.
Nearest(b, n, d) ==
    \A c \in {b - 1, b + 1} \cap 0..Inf :
        \/ Gap(b, n, d) < Gap(c, n, d)
        \/ Gap(b, n, d) = Gap(c, n, d) /\ b % 2 = 0

\* What the hardware makes of n / d.
Rounded(n, d) == CHOOSE b \in 0..Inf : Nearest(b, n, d)

----------------------------------------------------------------------------
(* Rounding.  The value is between q and q + 1 times 2^(e2 - blq), and is  *)
(* not q when sticky; blq is the length of q.                              *)

RoundBits(q, sticky, blq, e2) ==
    LET bits == IF e2 - 1 >= EMin THEN P
                ELSE Higher(P - (EMin - (e2 - 1)), 1)
        drop == blq - (bits + 1)
        kept == Shift(q, -drop)
        tail == sticky \/ (drop > 0 /\ q % 2^drop # 0)
        m == kept \div 2
        near == IF kept % 2 = 1 /\ (tail \/ m % 2 = 1) THEN m + 1 ELSE m
        carry == bits = P /\ near >= 2^P
        frac == IF carry THEN near \div 2 ELSE near
        e == IF carry THEN e2 + 1 ELSE e2
    IN  CASE q = 0                         -> 0
          [] e2 - 1 > EMax                 -> Inf
          [] q # 0 /\ e2 <= MinExp         ->
                 IF e2 = MinExp /\ q > 2^(blq - 1) THEN 1 ELSE 0
          [] OTHER ->
                 IF e - 1 > EMax THEN Inf
                 ELSE IF e - 1 >= EMin
                 THEN (e - 1 + EMax) * 2^(P-1) + (frac % 2^(P-1))
                 ELSE IF frac >= 2^P THEN 2^(P-1) ELSE frac

\* The value is n * 2^s.
RoundProduct(n, s) ==
    LET bl == BitLen(n)
        e2 == bl + s
    IN  IF n = 0 THEN 0
        ELSE IF e2 - 1 > Far \/ e2 < -Far - 60
        THEN IF e2 - 1 > EMax THEN Inf ELSE 0
        ELSE RoundBits(Shift(n, Keep - bl), bl > Keep /\ n % 2^(bl - Keep) # 0,
                       Keep, e2)

\* Faulty: what is left of the dividend is forgotten.
RoundQuotientExact(n, d, s) ==
    LET bl == BitLen(n)
        Fed(t) == Shift(n, t - bl)
        Enough(t) == BitLen(Fed(t) \div d) = Keep \/ t = bl + BitLen(d) + Word
        t == CHOOSE u \in 0..(bl + BitLen(d) + Word) :
                 Enough(u) /\ \A w \in 0..(u-1) : ~Enough(w)
        q == Fed(t) \div d
    IN  RoundBits(q, FALSE, BitLen(q), BitLen(q) + bl - t + s)

\* The value is n / d * 2^s: bits of n and then zeros are fed from the top
\* until the quotient has Keep bits.
RoundQuotient(n, d, s) ==
    LET bl == BitLen(n)
        Fed(t) == Shift(n, t - bl)
        Enough(t) == BitLen(Fed(t) \div d) = Keep \/ t = bl + BitLen(d) + Word
        t == CHOOSE u \in 0..(bl + BitLen(d) + Word) :
                 Enough(u) /\ \A w \in 0..(u-1) : ~Enough(w)
        q == Fed(t) \div d
        unfed == t < bl /\ n % 2^(bl - t) # 0
    IN  IF n = 0 \/ q = 0 THEN 0
        ELSE RoundBits(q, Fed(t) % d # 0 \/ unfed, BitLen(q),
                       BitLen(q) + bl - t + s)

----------------------------------------------------------------------------
(* Reading.                                                                *)

\* Digits past the first MaxDigits are dropped; only a fraction digit that
\* was taken in moves the point.
Mantissa(c) ==
    LET taken == Lower(Len(c.int) + Len(c.frac), MaxDigits)
    IN  [n |-> Value(SubSeq(c.int \o c.frac, 1, taken), 10),
         e |-> c.exp - Higher(taken - Len(c.int), 0)]

Clamped(e) == Lower(Higher(e, -ExpClamp), ExpClamp)

Strtod(c) ==
    LET m == Mantissa(c)
        e == Clamped(m.e)
    IN  IF m.n = 0 THEN 0
        ELSE IF e >= 0 THEN RoundProduct(m.n * Power5(e), e)
        ELSE RoundQuotient(m.n, Power5(-e), e)

\* Takes one hexadecimal digit into a word; a digit that does not fit is only
\* remembered as sticky.  The digit stands before or behind the point.
TakeHex(h, d, behind) ==
    IF h.n < 2^(Word - 4)
    THEN [h EXCEPT !.n = 16 * @ + d, !.e = IF behind THEN @ - 4 ELSE @]
    ELSE [h EXCEPT !.sticky = (@ \/ d # 0), !.e = IF behind THEN @ ELSE @ + 4]

\* Rounds to P bits by itself and then again for the exponent.
HexFloat(c) ==
    LET whole == FoldLeft(LAMBDA h, d : TakeHex(h, d, FALSE),
                          [n |-> 0, e |-> c.exp, sticky |-> FALSE], c.int)
        h == FoldLeft(LAMBDA g, d : TakeHex(g, d, TRUE), whole, c.frac)
        bl == BitLen(h.n)
        w == Shift(h.n, Word - bl)
        drop == Word - P
        m == w \div 2^drop
        half == (w \div 2^(drop - 1)) % 2 = 1
        tail == h.sticky \/ w % 2^(drop - 1) # 0
        near == IF half /\ (tail \/ m % 2 = 1) THEN m + 1 ELSE m
        over == near >= 2^P
    IN  IF h.n = 0 THEN 0
        ELSE RoundBits(IF over THEN near \div 2 ELSE near, FALSE, P,
                       h.e + bl + (IF over THEN 1 ELSE 0))

\* Takes one digit of an integer into a word that saturates.
TakeDigit(acc, d, base) ==
    IF acc > (2^Word - 1 - d) \div base THEN 2^Word - 1 ELSE acc * base + d

\* strtoll: the word read as a signed number; a sign is applied to the word.
Strtoll(c) ==
    LET acc == FoldLeft(LAMBDA a, d : TakeDigit(a, d, c.base), 0, c.int)
        word == IF c.neg THEN (2^Word - acc) % 2^Word ELSE acc
    IN  IF word < 2^(Word - 1) THEN word ELSE word - 2^Word

----------------------------------------------------------------------------
(* Printing.                                                               *)

\* Long division, one bit of the dividend at a time from the top.  Every
\* caller has the quotient overwrite the dividend, so what is left of a
\* dividend shorter than the divisor is lost.
DivMod(n, d) ==
    LET Bring(s, i) ==
            LET r == 2 * s.r + ((n \div 2^i) % 2)
            IN  IF r >= d THEN [q |-> s.q + 2^i, r |-> r - d]
                ELSE [s EXCEPT !.r = r]
    IN  IF BitLen(n) < BitLen(d) THEN [q |-> 0, r |-> 0]
        ELSE FoldLeft(Bring, [q |-> 0, r |-> 0],
                      [i \in 1..BitLen(n) |-> BitLen(n) - i])
Times(m, n) == m * n

\* Is m * 2^e2 at least 10^x?
GePow10(m, e2, x) ==
    IF x > 0 THEN IF e2 >= x THEN ShiftLeft(m, e2 - x) >= Power5(x)
                  ELSE m >= ShiftLeft(Power5(x), x - e2)
    ELSE e2 >= x \/ Times(m, Power5(-x)) >= ShiftLeft(1, x - e2)

Pow10(b) == CHOOSE x \in -ExpClamp..ExpClamp :
                GePow10(Mant(b), Exp2(b), x) /\ ~GePow10(Mant(b), Exp2(b), x+1)

\* m * 2^e2 * 10^s rounded to an integer, a half to even.
RoundPow10(m, e2, s) ==
    LET a == Power5(IF s < 0 THEN -s ELSE s)
        b == Higher(-(e2 + s), 0)
        shifted == ShiftLeft(m, Higher(e2 + s, 0))
        whole == IF s < 0 THEN DivMod(shifted, a).q ELSE Times(shifted, a)
        left == IF s < 0 THEN DivMod(shifted, a).r ELSE 0
        q == whole \div 2^b
        low == whole % 2^b
        twice == 2 * (Times(low, a) + left)
        one == ShiftLeft(a, b)
    IN  IF twice > one \/ (twice = one /\ q % 2 = 1) THEN q + 1 ELSE q

FormatZero == [digits |-> 0, x |-> 0]

\* Faulty: a carry into a new digit does not move the exponent.
FormatEInPlace(b, prec) ==
    LET x == Pow10(b)
        q == RoundPow10(Mant(b), Exp2(b), prec - x)
    IN  IF Mant(b) = 0 THEN FormatZero
        ELSE [digits |-> IF q >= 10^(prec + 1) THEN q \div 10 ELSE q, x |-> x]

\* %e with prec digits behind the point: the digits as a number, and the
\* exponent of the first.  A carry into a new digit moves the exponent and
\* leaves the last digit out.
FormatE(b, prec) ==
    LET x == Pow10(b)
        q == RoundPow10(Mant(b), Exp2(b), prec - x)
    IN  IF Mant(b) = 0 THEN FormatZero
        ELSE IF q >= 10^(prec + 1) THEN [digits |-> q \div 10, x |-> x + 1]
        ELSE [digits |-> q, x |-> x]

\* %f: the number of units of the last digit.
FormatF(b, prec) == RoundPow10(Mant(b), Exp2(b), prec)

\* The n digits of q, and a number without its trailing zeros.
DigitSeq(q, n) == [i \in 1..n |-> (q \div 10^(n - i)) % 10]
Stripped(digits) ==
    LET last == CHOOSE i \in DOMAIN digits :
                    /\ i = 1 \/ digits[i] # 0
                    /\ \A j \in (i+1)..Len(digits) : digits[j] = 0
    IN  SubSeq(digits, 1, last)
Zeros(n) == [i \in 1..n |-> 0]

\* Faulty: one zero too few behind the point of a small number.
TextTight(c, r) ==
    LET digits == IF c.fn = "%e" THEN DigitSeq(r.digits, c.prec + 1)
                  ELSE Stripped(DigitSeq(r.digits, c.prec + 1))
        all == digits \o Zeros(Higher(r.x + 1 - Len(digits), 0))
    IN  IF c.fn = "%e" \/ r.x < -4 \/ r.x > c.prec
        THEN [int |-> <<Head(digits)>>, frac |-> Tail(digits), exp |-> r.x]
        ELSE IF r.x >= 0
        THEN [int |-> SubSeq(all, 1, r.x + 1),
              frac |-> SubSeq(all, r.x + 2, Len(all)), exp |-> 0]
        ELSE [int |-> <<0>>, frac |-> Zeros(-r.x - 2) \o digits, exp |-> 0]

\* The text of %e and of %g.  %g leaves trailing zeros out and writes an
\* exponent only for a number that is small or has more digits than asked.
Text(c, r) ==
    LET digits == IF c.fn = "%e" THEN DigitSeq(r.digits, c.prec + 1)
                  ELSE Stripped(DigitSeq(r.digits, c.prec + 1))
        all == digits \o Zeros(Higher(r.x + 1 - Len(digits), 0))
    IN  IF c.fn = "%e" \/ r.x < -4 \/ r.x > c.prec
        THEN [int |-> <<Head(digits)>>, frac |-> Tail(digits), exp |-> r.x]
        ELSE IF r.x >= 0
        THEN [int |-> SubSeq(all, 1, r.x + 1),
              frac |-> SubSeq(all, r.x + 2, Len(all)), exp |-> 0]
        ELSE [int |-> <<0>>, frac |-> Zeros(-r.x - 1) \o digits, exp |-> 0]

----------------------------------------------------------------------------
(* Math: whole numbers near a double, of either sign, and powers.          *)

One == EMax * 2^(P-1)
Unit == 2^(-MinExp)                                     \* one, in units
Integral(b) == Units(b) % Unit = 0
Whole(b) == Units(b) \div Unit                          \* the cast to i64
Large(b) == Whole(b) >= 2^P
Signed(neg, n) == IF neg THEN -n ELSE n

RoundWhole(c) ==
    LET moved == Rounded(Units(c.bits) + (Unit \div 2), 1)
    IN  Signed(c.neg, IF Large(c.bits) THEN Whole(c.bits) ELSE Whole(moved))

\* The cast goes towards zero.
FloorWhole(c) ==
    LET t == Signed(c.neg, Whole(c.bits))
    IN  IF c.neg /\ ~Large(c.bits) /\ ~Integral(c.bits) THEN t - 1 ELSE t
CeilWhole(c) ==
    LET t == Signed(c.neg, Whole(c.bits))
    IN  IF ~c.neg /\ ~Large(c.bits) /\ ~Integral(c.bits) THEN t + 1 ELSE t

\* The hardware's product and quotient.
Product(a, b) ==
    IF Inf \in {a, b} \/ (b # 0 /\ Units(a) > 2^30 \div Units(b)) THEN Inf
    ELSE Rounded(Units(a) * Units(b), Unit)
Reciprocal(b) == CASE b = 0   -> Inf
                [] b = Inf -> 0
                [] OTHER   -> Rounded(Unit * Unit, Units(b))

\* Repeated squaring: the bits of n from the lowest.
Squaring(x, n) ==
    LET Bit(s, i) ==
            [acc  |-> IF (n \div 2^i) % 2 = 1 THEN Product(s.acc, s.base)
                      ELSE s.acc,
             base |-> IF 2^(i+1) <= n THEN Product(s.base, s.base) ELSE s.base]
    IN  FoldLeft(Bit, [acc |-> One, base |-> x],
                 [i \in 1..BitLen(n) |-> i - 1]).acc

\* Faulty: the inverse is taken of the base.
PowOfInverse(c) ==
    IF c.n >= 0 THEN Squaring(c.bits, c.n)
    ELSE Squaring(Reciprocal(c.bits), -c.n)

\* pow with a whole exponent: the inverse is taken last.
Pow(c) ==
    IF c.n >= 0 THEN Squaring(c.bits, c.n)
    ELSE Reciprocal(Squaring(c.bits, -c.n))

----------------------------------------------------------------------------
\* answer is empty until the function has returned.
Init == call \in Calls /\ answer = <<>>
Returned == answer # <<>>
Result == answer[1]

Return(result) == answer = <<>> /\ answer' = <<result>> /\ UNCHANGED call

ReadDecimal == call.fn = "strtod" /\ Return(Strtod(call))
ReadHex == call.fn = "hex" /\ Return(HexFloat(call))
ReadInteger == call.fn = "strtoll" /\ Return(Strtoll(call))
PrintE == call.fn \in {"%e", "%g"} /\ Return(FormatE(call.bits, call.prec))
PrintF == call.fn = "%f" /\ Return(FormatF(call.bits, call.prec))

MathRound == call.fn = "round" /\ Return(RoundWhole(call))
MathFloor == call.fn = "floor" /\ Return(FloorWhole(call))
MathCeil == call.fn = "ceil" /\ Return(CeilWhole(call))
MathPow == call.fn = "pow" /\ Return(Pow(call))

Next == \/ ReadDecimal \/ ReadHex \/ ReadInteger \/ PrintE \/ PrintF
        \/ MathRound \/ MathFloor \/ MathCeil \/ MathPow
Spec == Init /\ [][Next]_vars

----------------------------------------------------------------------------
(* Properties.                                                             *)

\* Just above half of the least double: the bits of the quotient that would
\* tell it from a half are below the Keep computed ones.
JustAboveHalf(n, d) == n < d /\ 2 * n > d /\ n * 2^Keep < d * (2^(Keep-1) + 1)

Exact(e) == IF e >= 0 THEN <<10^e, 1>> ELSE <<1, 10^(-e)>>
DecimalNearest(c) ==
    LET n == Value(c.int \o c.frac, 10) * 2^(-MinExp)
        e == c.exp - Len(c.frac)
    IN  IF n # 0 /\ e > 2 THEN Result = Inf
        ELSE LET x == Exact(e) IN
             JustAboveHalf(n * x[1], x[2]) \/ Nearest(Result, n * x[1], x[2])

HexNearest(c) ==
    LET n == Value(c.int \o c.frac, 16)
        e == c.exp - 4 * Len(c.frac) - MinExp
        num == n * 2^Higher(e, 0)
        den == 2^Higher(-e, 0)
    IN  num < 2^(P-1) * den \/ Nearest(Result, num, den)

\* strtod: every text of at most MaxDigits digits is read as the nearest
\* double, a tie as the even one, through multiplication, division, the
\* binades of the denormals and the step to infinity; the one exception is a
\* value a hair above half of the least double, which is read as zero.  A
\* hexadecimal text is read so when its value is normal.
ReadsNearest ==
    Returned =>
        /\ call.fn = "strtod" /\ Len(call.int) + Len(call.frac) <= MaxDigits
               => DecimalNearest(call)
        /\ call.fn = "hex" => HexNearest(call)

\* strtoll: a number that fits the signed word is read as that number, in any
\* base and of either sign.
IntegersExact ==
    (Returned /\ call.fn = "strtoll") =>
        LET v == Value(call.int, call.base)
        IN  /\ v < 2^(Word - 1) /\ ~call.neg => Result = v
            /\ v <= 2^(Word - 1) /\ call.neg => Result = -v

\* floor and ceil give the whole number next to the value on their side.  round
\* gives a nearest one, the outer of two, whenever the value moved by a half is
\* a double; what it makes of the others is not promised.
WholesExact ==
    (Returned /\ call.fn \in {"floor", "ceil", "round"}) =>
        LET x == Signed(call.neg, Units(call.bits))
            r == Result * Unit
            half == Units(call.bits) + (Unit \div 2)
        IN  /\ call.fn = "floor" => r <= x /\ x < r + Unit
            /\ call.fn = "ceil" => r >= x /\ x > r - Unit
            /\ (call.fn = "round" /\ Units(Rounded(half, 1)) = half) =>
                   /\ 2 * (r - x) <= Unit /\ 2 * (x - r) <= Unit
                   /\ 2 * (r - x) = Unit => ~call.neg
                   /\ 2 * (x - r) = Unit => call.neg

\* pow with a whole base and exponent, what Math.Round with digits asks of it:
\* a power that is a double is exact, and its inverse is the nearest double.
PowersExact ==
    (Returned /\ call.fn = "pow" /\ Integral(call.bits) /\ call.bits # 0) =>
        LET v == Whole(call.bits)^(IF call.n < 0 THEN -call.n ELSE call.n)
        IN  \A d \in Doubles : (Integral(d) /\ Whole(d) = v) =>
                IF call.n >= 0 THEN Result = d
                ELSE Nearest(Result, Unit, v)

\* strtoll, floor, ceil, round and pow: where the answer is a double or a word,
\* it is that answer.
ArithmeticExact == IntegersExact /\ WholesExact /\ PowersExact

\* %e and %f: what is printed is the nearest number of that many digits, a
\* tie to even, with one digit before the point, whatever carry the rounding
\* makes.
PrintsNearest ==
    Returned =>
        LET Near(digits, s) ==      \* digits * 10^-s against the value
                LET e == Exact(-s)
                    unit == e[1] * 2^(-MinExp)
                    g == 2 * (digits * unit - Units(call.bits) * e[2])
                IN  /\ g <= unit /\ -g <= unit
                    /\ (g = unit \/ -g = unit) => digits % 2 = 0
        IN  /\ call.fn = "%f" => Near(Result, call.prec)
            /\ call.fn \in {"%e", "%g"} /\ call.bits # 0 =>
                   /\ Result.digits \in 10^call.prec..(10^(call.prec+1) - 1)
                   /\ Near(Result.digits, call.prec - Result.x)

\* A double printed by %e or %g with as many digits as it takes to tell
\* doubles apart is read back by strtod as itself.
RoundTrips ==
    (Returned /\ call.fn \in {"%e", "%g"} /\ 10^call.prec > 2^P) =>
        LET t == Text(call, Result)
        IN  Len(t.int) + Len(t.frac) <= MaxDigits => Strtod(t) = call.bits

\* What the code says of strtod: exact, rounded once, to nearest even.
RoundedOnce ==
    (call.fn = "strtod" /\ Returned
        /\ Len(call.int) + Len(call.frac) <= MaxDigits
        /\ call.exp - Len(call.frac) <= 2) =>
        LET x == Exact(call.exp - Len(call.frac))
        IN  Nearest(Result, Value(call.int \o call.frac, 10) * 2^(-MinExp) * x[1],
                    x[2])
============================================================================
