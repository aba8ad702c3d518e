------------------------ MODULE PropertyValue_proofs ------------------------
(***************************************************************************)
(* PropertyValue for every base, every property and every value: what      *)
(* validate_manifest lets through can be encoded, and rounding neither     *)
(* leaves the half step nor drifts.                                        *)
(***************************************************************************)
EXTENDS PropertyValue, TLAPS

-----------------------------------------------------------------------------
(* Integers.                                                               *)

Positive == {n \in Int : n > 0}

\* Division with remainder.
LEMMA DivMod ==
  ASSUME NEW n \in Int, NEW d \in Positive
  PROVE  /\ n \div d \in Int
         /\ n % d \in Int
         /\ n = d * (n \div d) + (n % d)
         /\ 0 <= n % d
         /\ n % d < d
BY SMT DEF Positive

\* A product with a positive factor has the sign of the other factor.
LEMMA Sign ==
  ASSUME NEW d \in Positive, NEW k \in Int
  PROVE  /\ d * k \in Int
         /\ d * k >= 0 <=> k >= 0
         /\ d * k > 0 <=> k > 0
         /\ k > 0 => d * k >= d
         /\ k < 0 => d * k <= - d
BY SMT DEF Positive

\* Two quotients for the same dividend are equal.
LEMMA OneQuotient ==
  ASSUME NEW d \in Positive, NEW q \in Int, NEW k \in Int, NEW r \in Int,
         d * k = d * q + r, 0 <= r, r < d
  PROVE  k = q /\ r = 0
<1>1. k - q \in Int
  OBVIOUS
<1>2. d * (k - q) = r
  BY SMT DEF Positive
<1>3. ~ (k - q > 0)
  BY <1>1, <1>2, Sign, SMT DEF Positive
<1>4. ~ (k - q < 0)
  BY <1>1, <1>2, Sign, SMT DEF Positive
<1>5. k = q
  BY <1>1, <1>3, <1>4, SMT
<1> QED
  BY <1>2, <1>5, SMT DEF Positive

\* Rounded is within half a divisor.
LEMMA RoundedClose ==
  ASSUME NEW n \in Int, NEW d \in Positive
  PROVE  /\ Rounded(n, d) \in Int
         /\ 2 * (d * Rounded(n, d) - n) <= d
         /\ - d <= 2 * (d * Rounded(n, d) - n)
<1> DEFINE q == n \div d
           r == n % d
<1>1. /\ q \in Int /\ r \in Int
      /\ n = d * q + r /\ 0 <= r /\ r < d
  BY DivMod
<1>2. d \in Int /\ d > 0 /\ d * q \in Int /\ d * (q + 1) = d * q + d
  BY <1>1, SMT DEF Positive
<1>3. CASE 2 * r < d \/ (2 * r = d /\ q % 2 = 0)
  <2>1. Rounded(n, d) = q
    BY <1>3 DEF Rounded
  <2> QED
    BY <1>1, <1>2, <1>3, <2>1, SMT
<1>4. CASE ~ (2 * r < d \/ (2 * r = d /\ q % 2 = 0))
  <2>1. Rounded(n, d) = q + 1
    BY <1>4 DEF Rounded
  <2>2. 2 * r >= d
    BY <1>1, <1>2, <1>4, SMT
  <2> QED
    BY <1>1, <1>2, <2>1, <2>2, SMT
<1> QED
  BY <1>3, <1>4

\* Rounded of a multiple.
LEMMA RoundedExact ==
  ASSUME NEW k \in Int, NEW d \in Positive
  PROVE  Rounded(k * d, d) = k
<1> DEFINE q == (k * d) \div d
           r == (k * d) % d
<1>1. k * d \in Int /\ k * d = d * k
  BY SMT DEF Positive
<1>2. /\ q \in Int /\ r \in Int
      /\ k * d = d * q + r /\ 0 <= r /\ r < d
  BY <1>1, DivMod
<1>3. k = q /\ r = 0
  <2> HIDE DEF q, r
  <2> QED
    BY <1>1, <1>2, OneQuotient
<1>4. 2 * r < d
  BY <1>3, SMT DEF Positive
<1> QED
  BY <1>3, <1>4 DEF Rounded

\* Rounded stays between zero and a quotient that is whole.
LEMMA RoundedBetween ==
  ASSUME NEW n \in Int, NEW d \in Positive, NEW m \in Int, 0 <= n, n <= d * m
  PROVE  Rounded(n, d) \in 0..m
<1> DEFINE R == Rounded(n, d)
<1>1. /\ R \in Int
      /\ 2 * (d * R - n) <= d
      /\ - d <= 2 * (d * R - n)
  BY RoundedClose
<1> HIDE DEF R
<1>2. /\ d \in Int /\ d > 0 /\ d * R \in Int /\ d * m \in Int
      /\ d * (m - R) = d * m - d * R
      /\ R \in Int /\ m - R \in Int
  BY <1>1, SMT DEF Positive
<1>3. 0 <= R
  <2>1. ~ (R < 0)
    BY <1>1, <1>2, Sign, SMT
  <2> QED
    BY <2>1, <1>2, SMT
<1>4. R <= m
  <2>1. ~ (m - R < 0)
    BY <1>1, <1>2, Sign, SMT
  <2> QED
    BY <2>1, <1>2, SMT
<1> QED
  BY <1>2, <1>3, <1>4, SMT DEF R

-----------------------------------------------------------------------------
(* The bytes of a raw value.                                               *)

LEMMA SpanFacts ==
  /\ Base \in Positive /\ Base >= 2
  /\ \A width \in {1, 2, 4} : Span(width) \in Nat /\ Span(width) >= 2
  /\ \A type \in PropertyType : Width(type) \in {1, 2, 4}
<1>1. Base \in Positive /\ Base >= 2
  BY ValueAssumption, SMT DEF Positive
<1>2. Base * Base \in Nat /\ Base * Base >= 2
  BY <1>1, SMT DEF Positive
<1>3. (Base * Base) * (Base * Base) \in Nat /\ (Base * Base) * (Base * Base) >= 2
  <2> DEFINE B2 == Base * Base
  <2> HIDE DEF B2
  <2>1. B2 \in Nat /\ B2 >= 2
    BY <1>2 DEF B2
  <2>2. B2 * B2 \in Nat /\ B2 * B2 >= 2
    BY <2>1, SMT
  <2> QED
    BY <2>2 DEF B2
<1>4. \A width \in {1, 2, 4} : Span(width) \in Nat /\ Span(width) >= 2
  BY <1>1, <1>2, <1>3, SMT DEF Span, Positive
<1>5. \A type \in PropertyType : Width(type) \in {1, 2, 4}
  BY SMT DEF Width, PropertyType, UnsignedType, SignedType
<1> QED
  BY <1>1, <1>4, <1>5

\* A quotient is below m when the dividend is below m divisors.
LEMMA QuotientBelow ==
  ASSUME NEW n \in Nat, NEW m \in Nat, n < Base * m
  PROVE  /\ n \div Base \in Nat
         /\ n \div Base < m
         /\ n % Base \in Byte
         /\ n = (n % Base) + Base * (n \div Base)
<1> DEFINE q == n \div Base
           r == n % Base
<1>1. /\ q \in Int /\ r \in Int
      /\ n = Base * q + r /\ 0 <= r /\ r < Base
      /\ Base \in Positive /\ Base \in Int
  BY SpanFacts, DivMod DEF Positive
<1>2. r \in Byte
  BY <1>1, SMT DEF Byte
<1> HIDE DEF q, r
<1>3. /\ Base * (m - q) = Base * m - Base * q
      /\ Base * (q + 1) = Base * q + Base
      /\ Base * q \in Int /\ Base * m \in Int
      /\ m - q \in Int /\ q + 1 \in Int
  BY <1>1, SMT
<1>4. m - q > 0
  BY <1>1, <1>3, Sign, SMT
<1>5. q + 1 > 0
  BY <1>1, <1>3, Sign, SMT
<1>6. q \in Nat /\ q < m /\ n = r + Base * q
  BY <1>1, <1>3, <1>4, <1>5, SMT
<1> QED
  BY <1>2, <1>6 DEF q, r

\* to_bytes and from_bytes are inverse for a raw value that fits.
LEMMA BytesComeBack ==
  ASSUME NEW width \in {1, 2, 4}, NEW raw \in 0..Span(width) - 1
  PROVE  /\ ToBytes(raw, width) \in [1..width -> Byte]
         /\ FromBytes(ToBytes(raw, width)) = raw
<1>0. raw \in Nat /\ raw < Span(width) /\ Base \in Nat
  BY SpanFacts, SMT DEF Positive
<1>1. CASE width = 1
  <2>1. raw \in Byte /\ Span(width) = Base
    BY <1>0, <1>1, SMT DEF Span, Byte
  <2> QED
    BY <1>1, <2>1, SMT DEF ToBytes, FromBytes
<1>2. CASE width = 2
  <2>1. Span(width) = Base * Base
    BY <1>2, SMT DEF Span
  <2>2. /\ raw \div Base \in Nat /\ raw \div Base < Base
        /\ raw % Base \in Byte
        /\ raw = (raw % Base) + Base * (raw \div Base)
    BY <1>0, <2>1, QuotientBelow
  <2>3. raw \div Base \in Byte
    BY <1>0, <2>2, SMT DEF Byte
  <2>4. ToBytes(raw, width) = <<raw % Base, raw \div Base>>
    BY <1>2, SMT DEF ToBytes
  <2> QED
    BY <1>2, <2>2, <2>3, <2>4, SMT DEF FromBytes
<1>3. CASE width = 4
  <2> DEFINE r1 == raw \div Base
             r2 == r1 \div Base
             r3 == r2 \div Base
  <2>1. /\ Base * Base \in Nat
        /\ Base * (Base * Base) \in Nat
        /\ Span(width) = Base * (Base * (Base * Base))
    <3>1. Span(width) = (Base * Base) * (Base * Base)
      BY <1>3, SMT DEF Span
    <3> QED
      BY <1>0, <3>1, SMT
  <2>2. /\ r1 \in Nat /\ r1 < Base * (Base * Base)
        /\ raw % Base \in Byte
        /\ raw = (raw % Base) + Base * r1
    BY <1>0, <2>1, QuotientBelow
  <2> HIDE DEF r1
  <2>3. /\ r2 \in Nat /\ r2 < Base * Base
        /\ r1 % Base \in Byte
        /\ r1 = (r1 % Base) + Base * r2
    BY <2>1, <2>2, QuotientBelow
  <2> HIDE DEF r2
  <2>4. /\ r3 \in Nat /\ r3 < Base
        /\ r2 % Base \in Byte
        /\ r2 = (r2 % Base) + Base * r3
    BY <1>0, <2>3, QuotientBelow
  <2> HIDE DEF r3
  <2>5. r3 \in Byte
    BY <1>0, <2>4, SMT DEF Byte
  <2>6. ToBytes(raw, width) = <<raw % Base, r1 % Base, r2 % Base, r3>>
    BY <1>3, SMT DEF ToBytes, r1, r2, r3
  <2>7. FromBytes(ToBytes(raw, width))
          = (raw % Base) + Base * ((r1 % Base) + Base * ((r2 % Base) + Base * r3))
    BY <2>6, SMT DEF FromBytes
  <2>8. FromBytes(ToBytes(raw, width)) = raw
    BY <2>2, <2>3, <2>4, <2>7
  <2>9. ToBytes(raw, width) \in [1..width -> Byte]
    BY <1>3, <2>2, <2>3, <2>4, <2>5, <2>6, SMT
  <2> QED
    BY <2>8, <2>9
<1> QED
  BY <1>1, <1>2, <1>3

-----------------------------------------------------------------------------
(* encode_value and decode_value.                                          *)

LEMMA PropertyFacts ==
  ASSUME NEW p \in PropertyRecord
  PROVE  /\ p.type \in PropertyType
         /\ p.offset \in Int /\ p.scale \in Int /\ p.min \in Int /\ p.max \in Int
         /\ p.scale # 0 => Magnitude(p.scale) \in Positive
BY SMT DEF PropertyRecord, Magnitude, Positive

\* The raw value of v is a whole number, and means v to half a step.
LEMMA RawClose ==
  ASSUME NEW p \in PropertyRecord, NEW v \in Int, p.scale # 0
  PROVE  /\ Raw(p, v) \in Int
         /\ Physical(p, Raw(p, v)) \in Int
         /\ 2 * Magnitude(Physical(p, Raw(p, v)) - v) <= Magnitude(p.scale)
<1> DEFINE o == p.offset
           s == p.scale
<1>0. o \in Int /\ s \in Int
  BY PropertyFacts
<1>1. CASE s > 0
  <2> DEFINE R == Rounded(v - o, s)
  <2>1. s \in Positive /\ v - o \in Int
    BY <1>0, <1>1, SMT DEF Positive
  <2>2. R \in Int /\ 2 * (s * R - (v - o)) <= s /\ - s <= 2 * (s * R - (v - o))
    BY <2>1, RoundedClose
  <2>3. Raw(p, v) = R
    BY <1>1 DEF Raw
  <2> HIDE DEF R
  <2>4. o + R * s \in Int /\ (o + R * s) - v = s * R - (v - o) /\ s * R \in Int
    BY <1>0, <2>2, SMT
  <2>5. 2 * Magnitude((o + R * s) - v) <= Magnitude(s)
    BY <1>0, <1>1, <2>2, <2>4, SMT DEF Magnitude
  <2> QED
    BY <2>2, <2>3, <2>4, <2>5 DEF Physical
<1>2. CASE ~ (s > 0)
  <2> DEFINE d == - s
             R == Rounded(o - v, d)
  <2>1. d \in Positive /\ o - v \in Int
    BY <1>0, <1>2, SMT DEF Positive
  <2>2. R \in Int /\ 2 * (d * R - (o - v)) <= d /\ - d <= 2 * (d * R - (o - v))
    BY <2>1, RoundedClose
  <2>3. Raw(p, v) = R
    BY <1>2 DEF Raw
  <2> HIDE DEF R
  <2>4. /\ o + R * s \in Int /\ d * R \in Int /\ d * R = - (R * s)
        /\ (o + R * s) - v = - (d * R - (o - v))
    BY <1>0, <2>2, SMT
  <2>5. 2 * Magnitude((o + R * s) - v) <= Magnitude(s)
    BY <1>0, <1>2, <2>2, <2>4, SMT DEF Magnitude
  <2> QED
    BY <2>2, <2>3, <2>4, <2>5 DEF Physical
<1> QED
  BY <1>1, <1>2

\* The raw value of what a raw value means is that raw value.
LEMMA RawExact ==
  ASSUME NEW p \in PropertyRecord, NEW raw \in Int, p.scale # 0
  PROVE  Raw(p, Physical(p, raw)) = raw
<1> DEFINE o == p.offset
           s == p.scale
<1>0. o \in Int /\ s \in Int
  BY PropertyFacts
<1>1. CASE s > 0
  <2>1. s \in Positive /\ (o + raw * s) - o = raw * s
    BY <1>0, <1>1, SMT DEF Positive
  <2>2. Rounded(raw * s, s) = raw
    BY <2>1, RoundedExact
  <2> QED
    BY <1>1, <2>1, <2>2 DEF Raw, Physical
<1>2. CASE ~ (s > 0)
  <2>1. - s \in Positive /\ o - (o + raw * s) = raw * (- s)
    BY <1>0, <1>2, SMT DEF Positive
  <2>2. Rounded(raw * (- s), - s) = raw
    BY <2>1, RoundedExact
  <2> QED
    BY <1>2, <2>1, <2>2 DEF Raw, Physical
<1> QED
  BY <1>1, <1>2

\* A scale below zero turns the ends of the type around, so that no limits
\* pass both comparisons: the scale of a valid property is positive.
LEMMA ValidScale ==
  ASSUME NEW p \in PropertyRecord, Errors(p) = {}
  PROVE  /\ p.scale \in Positive
         /\ p.offset + Lowest(p.type) * p.scale <= p.min
         /\ p.max <= p.offset + Highest(p.type) * p.scale
<1> DEFINE o == p.offset
           s == p.scale
           lo == Lowest(p.type)
           hi == Highest(p.type)
<1>1. \A c \in Complaint : ~ Holds(p, c)
  BY DEF Errors
<1>2. /\ ~ (p.min < o + lo * s)
      /\ ~ (p.max > o + hi * s)
      /\ ~ (p.min >= p.max)
  BY <1>1 DEF Complaint, Holds, MinValue, MaxValue
<1>3. o \in Int /\ s \in Int /\ p.min \in Int /\ p.max \in Int
  BY PropertyFacts
<1>4. lo \in Int /\ hi \in Int /\ hi - lo > 0
  <2> DEFINE span == Span(Width(p.type))
  <2>1. span \in Nat /\ span >= 2
    BY PropertyFacts, SpanFacts
  <2> HIDE DEF span
  <2>2. lo \in Int
    <3>1. span \div 2 \in Int
      BY <2>1, SMT
    <3> QED
      BY <3>1, SMT DEF Lowest, span
  <2>3. hi = lo + span - 1
    BY DEF Highest, span
  <2> HIDE DEF lo, hi
  <2> QED
    BY <2>1, <2>2, <2>3, SMT
<1> HIDE DEF lo, hi
<1>5. lo * s \in Int /\ hi * s \in Int /\ (hi - lo) * s = hi * s - lo * s
  BY <1>3, <1>4, SMT
<1>6. (hi - lo) * s > 0
  BY <1>2, <1>3, <1>5, SMT
<1>7. s \in Positive
  <2>1. hi - lo \in Positive
    BY <1>4, SMT DEF Positive
  <2> QED
    BY <1>3, <1>6, <2>1, Sign, SMT DEF Positive
<1>8. o + lo * s <= p.min /\ p.max <= o + hi * s
  BY <1>2, <1>3, <1>5, SMT
<1> QED
  BY <1>7, <1>8 DEF lo, hi

\* encode_value neither overflows nor divides by zero for a valid property.
LEMMA ValidEncodes ==
  ASSUME NEW p \in PropertyRecord, NEW v \in Int, Errors(p) = {}
  PROVE  Refusal(p, v) \notin {"zero", "overflow"}
<1> DEFINE o == p.offset
           s == p.scale
<1>1. p.scale \in Positive /\ p.scale # 0 /\ p.scale > 0
  BY ValidScale, SMT DEF Positive
<1>2. ASSUME InRange(p, v), p.type \in UnsignedType
      PROVE  FitsType(p, Raw(p, v))
  <2> DEFINE span == Span(Width(p.type))
  <2>1. span \in Nat
    BY PropertyFacts, SpanFacts
  <2>2. Lowest(p.type) = 0 /\ Highest(p.type) = 0 + span - 1
    <3>1. p.type \notin SignedType
      BY <1>2 DEF UnsignedType, SignedType
    <3> QED
      BY <3>1 DEF Lowest, Highest
  <2> HIDE DEF span
  <2>3. /\ o \in Int /\ s \in Int /\ p.min \in Int /\ p.max \in Int
        /\ o + 0 * s <= p.min /\ p.max <= o + (0 + span - 1) * s
        /\ p.min <= v /\ v <= p.max
    BY <1>2, <2>2, PropertyFacts, ValidScale DEF InRange
  <2>4. v - o \in Int /\ span - 1 \in Int /\ 0 <= v - o /\ v - o <= s * (span - 1)
    BY <2>1, <2>3, SMT
  <2>5. Rounded(v - o, s) \in 0..span - 1
    BY <1>1, <2>4, RoundedBetween
  <2> QED
    BY <1>1, <2>5 DEF Raw, FitsType, span
<1>3. Refusal(p, v) \in {"range", "unsupported", "none"}
  <2>1. p.type \in SignedType \/ p.type \in UnsignedType
    BY PropertyFacts DEF PropertyType
  <2>2. CASE ~ InRange(p, v)
    BY <2>2 DEF Refusal
  <2>3. CASE InRange(p, v) /\ p.type \in SignedType
    BY <1>1, <2>3, SMT DEF Refusal, SignedType, UnsignedType
  <2>4. CASE InRange(p, v) /\ p.type \in UnsignedType
    BY <1>1, <1>2, <2>4, SMT DEF Refusal, SignedType, UnsignedType
  <2> QED
    BY <2>1, <2>2, <2>3, <2>4
<1> QED
  BY <1>3

\* What a call of encode_value that raises nothing knows.
LEMMA NotRefused ==
  ASSUME NEW p \in PropertyRecord, NEW v \in Int, Refusal(p, v) = "none"
  PROVE  p.scale # 0 /\ InRange(p, v) /\ FitsType(p, Raw(p, v))
<1>1. p.type \in SignedType \/ p.type \in UnsignedType
  BY PropertyFacts DEF PropertyType
<1>2. InRange(p, v)
  BY DEF Refusal
<1>3. p.scale # 0
  BY <1>2 DEF Refusal
<1>4. p.type \in UnsignedType
  BY <1>1, <1>2, <1>3, SMT DEF Refusal, SignedType, UnsignedType
<1>5. FitsType(p, Raw(p, v))
  BY <1>2, <1>3, <1>4, SMT DEF Refusal, SignedType, UnsignedType
<1> QED
  BY <1>2, <1>3, <1>5

\* What lies within half a step of a value has not passed a limit that is on
\* a step, when the value has not.
LEMMA LimitsHold ==
  ASSUME NEW p \in PropertyRecord, NEW v \in Int, NEW raw \in Int, NEW limit \in Int,
         p.scale # 0, OnAStep(p, limit),
         2 * Magnitude(Physical(p, raw) - v) <= Magnitude(p.scale)
  PROVE  /\ v <= limit => Physical(p, raw) <= limit
         /\ limit <= v => limit <= Physical(p, raw)
<1> DEFINE o == p.offset
           s == p.scale
           d == Magnitude(s)
           w == Physical(p, raw)
           k == (limit - o) \div d
<1>1. o \in Int /\ s \in Int /\ d \in Positive
  BY PropertyFacts
<1>2. w \in Int /\ w = o + raw * s
  BY <1>1, SMT DEF Physical
<1>3. k \in Int /\ limit - o = d * k
  <2>1. limit - o \in Int /\ (limit - o) % d = 0
    BY <1>1, SMT DEF OnAStep
  <2> QED
    BY <1>1, <2>1, DivMod, SMT DEF Positive
<1>4. PICK n \in Int : raw * s = d * n
  <2>1. CASE s > 0
    <3>1. raw * s = d * raw
      BY <1>1, <2>1, SMT DEF Magnitude
    <3> QED
      BY <3>1
  <2>2. CASE ~ (s > 0)
    <3>1. d = - s /\ - raw \in Int
      BY <1>1, <2>2, SMT DEF Magnitude
    <3>2. raw * s = d * (- raw)
      BY <1>1, <3>1, SMT
    <3> QED
      BY <3>1, <3>2
  <2> QED
    BY <2>1, <2>2
<1>5. d \in Int /\ 0 < d
  BY <1>1, SMT DEF Positive
<1>6. n - k \in Int /\ d * (n - k) \in Int /\ w - limit = d * (n - k)
  <2>1. w - limit = raw * s - (limit - o) /\ raw * s \in Int
    BY <1>1, <1>2, SMT
  <2> HIDE DEF d, w, k
  <2>2. d * (n - k) = d * n - d * k /\ d * (n - k) \in Int
    BY <1>3, <1>5, SMT
  <2> QED
    BY <1>3, <1>4, <2>1, <2>2, SMT
<1>7. /\ n - k > 0 => d * (n - k) >= d
      /\ n - k < 0 => d * (n - k) <= - d
      /\ n - k = 0 => d * (n - k) = 0
  BY <1>1, <1>5, <1>6, Sign, SMT
<1>8. 2 * (w - v) <= d /\ - d <= 2 * (w - v)
  <2> HIDE DEF d, w
  <2>1. 2 * Magnitude(w - v) <= d
    BY DEF d, w
  <2> QED
    BY <1>2, <1>5, <2>1, SMT DEF Magnitude
<1> HIDE DEF d, w, k
<1> DEFINE steps == d * (n - k)
<1> HIDE DEF steps
<1>9. steps >= d \/ steps <= - d \/ steps = 0
  BY <1>6, <1>7, SMT DEF steps
<1>10. steps \in Int /\ w - limit = steps
  BY <1>6 DEF steps
<1>11. v <= limit => w <= limit
  BY <1>2, <1>5, <1>8, <1>9, <1>10, SMT
<1>12. limit <= v => limit <= w
  BY <1>2, <1>5, <1>8, <1>9, <1>10, SMT
<1> QED
  BY <1>11, <1>12 DEF w

\* The same of both limits of a property, for a value inside of them.
LEMMA StaysInside ==
  ASSUME NEW p \in PropertyRecord, NEW v \in Int, NEW raw \in Int,
         p.scale # 0, InRange(p, v),
         2 * Magnitude(Physical(p, raw) - v) <= Magnitude(p.scale)
  PROVE  /\ OnAStep(p, p.min) => p.min <= Physical(p, raw)
         /\ OnAStep(p, p.max) => Physical(p, raw) <= p.max
<1>1. p.min \in Int /\ p.max \in Int /\ p.min <= v /\ v <= p.max
  BY PropertyFacts DEF InRange
<1>2. ASSUME OnAStep(p, p.min) PROVE p.min <= Physical(p, raw)
  BY <1>1, <1>2, LimitsHold
<1>3. ASSUME OnAStep(p, p.max) PROVE Physical(p, raw) <= p.max
  BY <1>1, <1>3, LimitsHold
<1> QED
  BY <1>2, <1>3

LEMMA RefusalType ==
  ASSUME NEW p \in PropertyRecord, NEW v \in Int
  PROVE  Refusal(p, v) \in {"none", "range", "zero", "unsupported", "overflow"}
<1>1. p.type \in SignedType \/ p.type \in UnsignedType
  BY PropertyFacts DEF PropertyType
<1> QED
  BY <1>1, SMT DEF Refusal, SignedType, UnsignedType

-----------------------------------------------------------------------------
(* The invariant: the device stores the bytes of a raw value, and while    *)
(* nobody else has written, that raw value means what was asked for.       *)

StoresARawValue ==
  \E raw \in 0..Span(Width(property.type)) - 1 :
    value = ToBytes(raw, Width(property.type))

KeepsWhatWasAsked ==
  \A v \in asked : 2 * Magnitude(Decoded(property, value) - v) <= Magnitude(property.scale)

AskedIsInRange ==
  \A v \in asked : property.scale # 0 /\ InRange(property, v)

IInv ==
  /\ TypeOK
  /\ StoresARawValue
  /\ KeepsWhatWasAsked
  /\ AskedIsInRange
  /\ SetIsClose
  /\ OnlyBetweenStepsIsOutside
  /\ ValidIsEncodable

\* What IInv says without a prime, for the steps below.
LEMMA Context ==
  ASSUME TypeOK
  PROVE  /\ property \in PropertyRecord
         /\ Width(property.type) \in {1, 2, 4}
         /\ Span(Width(property.type)) \in Nat
         /\ Span(Width(property.type)) >= 2
BY ValueAssumption, PropertyFacts, SpanFacts DEF TypeOK

\* A device that stores the bytes of raw is read as the meaning of raw.
LEMMA ReadsBack ==
  ASSUME NEW p \in PropertyRecord, NEW raw \in 0..Span(Width(p.type)) - 1
  PROVE  /\ ToBytes(raw, Width(p.type)) \in [1..Width(p.type) -> Byte]
         /\ Decoded(p, ToBytes(raw, Width(p.type))) = Physical(p, raw)
         /\ Decoded(p, ToBytes(raw, Width(p.type))) \in Int
<1> DEFINE w == Width(p.type)
<1>1. w \in {1, 2, 4} /\ Span(w) \in Nat
  BY PropertyFacts, SpanFacts
<1>2. ToBytes(raw, w) \in [1..w -> Byte] /\ FromBytes(ToBytes(raw, w)) = raw
  BY <1>1, BytesComeBack
<1>3. Physical(p, raw) \in Int
  BY <1>1, PropertyFacts, SMT DEF Physical
<1> QED
  BY <1>2, <1>3 DEF Decoded

LEMMA InitIInv == Init => IInv
<1> SUFFICES ASSUME Init PROVE IInv
  OBVIOUS
<1>1. /\ property \in PropertyRecord
      /\ Span(Width(property.type)) \in Nat /\ Span(Width(property.type)) >= 2
  BY ValueAssumption, PropertyFacts, SpanFacts DEF Init
<1>2. 0 \in 0..Span(Width(property.type)) - 1
  BY <1>1, SMT
<1>3. value \in [1..Width(property.type) -> Byte]
  BY <1>1, <1>2, ReadsBack DEF Init
<1>4. TypeOK
  BY <1>3 DEF Init, TypeOK
<1>5. StoresARawValue
  BY <1>2 DEF Init, StoresARawValue
<1>6. KeepsWhatWasAsked /\ AskedIsInRange /\ SetIsClose /\ OnlyBetweenStepsIsOutside
      /\ ValidIsEncodable
  BY DEF Init, KeepsWhatWasAsked, AskedIsInRange, SetIsClose, OnlyBetweenStepsIsOutside,
         ValidIsEncodable
<1> QED
  BY <1>4, <1>5, <1>6 DEF IInv

LEMMA SetKeeps ==
  ASSUME IInv, NEW v \in Typed, SetProperty(v)
  PROVE  IInv'
<1>1. TypeOK /\ property' = property /\ property \in Properties
  BY DEF IInv, SetProperty, TypeOK
<1>2. property \in PropertyRecord /\ v \in Int
  BY <1>1, Context, ValueAssumption
<1>3. /\ outcome' = Refusal(property, v)
      /\ outcome' \in {"none", "range", "zero", "unsupported", "overflow"}
  BY <1>2, RefusalType DEF SetProperty
<1>4. ValidIsEncodable'
  BY <1>1, <1>2, <1>3, ValidEncodes DEF ValidIsEncodable
<1>5. CASE outcome' = "none"
  <2> DEFINE raw == Raw(property, v)
             w == Width(property.type)
  <2>1. /\ value' = ToBytes(raw, w)
        /\ asked' = {v}
        /\ shown' = {Decoded(property, value')}
    BY <1>5 DEF SetProperty, Encoded
  <2>2. property.scale # 0 /\ InRange(property, v) /\ raw \in 0..Span(w) - 1
    BY <1>2, <1>3, <1>5, NotRefused DEF FitsType
  <2>3. raw \in Int /\ 2 * Magnitude(Physical(property, raw) - v) <= Magnitude(property.scale)
    BY <1>2, <2>2, RawClose
  <2> HIDE DEF raw
  <2>4. /\ value' \in [1..w -> Byte]
        /\ Decoded(property, value') = Physical(property, raw)
        /\ Decoded(property, value') \in Int
    BY <1>2, <2>1, <2>2, ReadsBack
  <2>5. TypeOK'
    BY <1>1, <1>3, <2>1, <2>4 DEF TypeOK
  <2>6. StoresARawValue'
    BY <1>1, <2>1, <2>2 DEF StoresARawValue
  <2>7. KeepsWhatWasAsked' /\ SetIsClose'
    BY <1>1, <2>1, <2>3, <2>4 DEF KeepsWhatWasAsked, SetIsClose
  <2>8. AskedIsInRange'
    BY <1>1, <2>1, <2>2 DEF AskedIsInRange
  <2>9. /\ OnAStep(property, property.min) => property.min <= Physical(property, raw)
        /\ OnAStep(property, property.max) => Physical(property, raw) <= property.max
    BY <1>2, <2>2, <2>3, StaysInside
  <2>10. OnlyBetweenStepsIsOutside'
    BY <1>1, <2>1, <2>4, <2>9 DEF OnlyBetweenStepsIsOutside
  <2> QED
    BY <1>4, <2>5, <2>6, <2>7, <2>8, <2>10 DEF IInv
<1>6. CASE outcome' # "none"
  <2>1. value' = value /\ asked' = asked /\ shown' = shown
    BY <1>6 DEF SetProperty
  <2>2. TypeOK'
    BY <1>1, <1>3, <2>1 DEF TypeOK
  <2>3. StoresARawValue' /\ KeepsWhatWasAsked' /\ AskedIsInRange' /\ SetIsClose'
        /\ OnlyBetweenStepsIsOutside'
    BY <1>1, <2>1 DEF IInv, StoresARawValue, KeepsWhatWasAsked, AskedIsInRange, SetIsClose,
                      OnlyBetweenStepsIsOutside
  <2> QED
    BY <1>4, <2>2, <2>3 DEF IInv
<1> QED
  BY <1>5, <1>6

LEMMA GetKeeps ==
  ASSUME IInv, GetProperty
  PROVE  IInv'
<1>0. PICK raw \in 0..Span(Width(property.type)) - 1 :
        value = ToBytes(raw, Width(property.type))
  BY DEF IInv, StoresARawValue
<1>1. /\ TypeOK /\ property' = property /\ property \in PropertyRecord
      /\ value' = value /\ asked' = asked
  BY Context DEF IInv, GetProperty
<1>2. outcome' \in {"none", "unsupported"}
  BY DEF GetProperty
<1>3. shown' \in {shown, shown \cup {Decoded(property, value)}}
  BY DEF GetProperty
<1>4. Decoded(property, value) = Physical(property, raw) /\ Decoded(property, value) \in Int
  BY <1>0, <1>1, ReadsBack
<1>5. TypeOK'
  BY <1>1, <1>2, <1>3, <1>4 DEF TypeOK
<1>6. SetIsClose'
  BY <1>1, <1>3 DEF IInv, SetIsClose, KeepsWhatWasAsked
<1>7. StoresARawValue' /\ KeepsWhatWasAsked' /\ AskedIsInRange' /\ ValidIsEncodable'
  BY <1>1, <1>2 DEF IInv, StoresARawValue, KeepsWhatWasAsked, AskedIsInRange,
                    ValidIsEncodable
<1>8. OnlyBetweenStepsIsOutside'
  <2>1. ASSUME NEW v \in asked
        PROVE  /\ OnAStep(property, property.min) => property.min <= Decoded(property, value)
               /\ OnAStep(property, property.max) => Decoded(property, value) <= property.max
    <3>1. v \in Int /\ raw \in Int
      BY <1>1, Context, ValueAssumption, SMT DEF TypeOK
    <3>2. /\ property.scale # 0 /\ InRange(property, v)
          /\ 2 * Magnitude(Physical(property, raw) - v) <= Magnitude(property.scale)
      BY <1>4 DEF IInv, KeepsWhatWasAsked, AskedIsInRange
    <3> QED
      BY <1>1, <1>4, <3>1, <3>2, StaysInside
  <2> QED
    BY <1>1, <1>3, <2>1 DEF IInv, OnlyBetweenStepsIsOutside
<1> QED
  BY <1>5, <1>6, <1>7, <1>8 DEF IInv

LEMMA ChangeKeeps ==
  ASSUME IInv, Change
  PROVE  IInv'
<1>1. /\ TypeOK /\ property' = property /\ property \in PropertyRecord
      /\ outcome' = outcome /\ asked' = {} /\ shown' = {}
      /\ Span(Width(property.type)) \in Nat
  BY Context DEF IInv, Change
<1>2. PICK raw \in Written :
        raw < Span(Width(property.type)) /\ value' = ToBytes(raw, Width(property.type))
  BY DEF Change
<1>3. raw \in 0..Span(Width(property.type)) - 1
  <2>1. raw \in Nat
    BY ValueAssumption
  <2> QED
    BY <1>1, <1>2, <2>1, SMT
<1>4. value' \in [1..Width(property.type) -> Byte]
  BY <1>1, <1>2, <1>3, ReadsBack
<1>5. TypeOK'
  BY <1>1, <1>4 DEF TypeOK
<1>6. StoresARawValue'
  BY <1>1, <1>2, <1>3 DEF StoresARawValue
<1>7. KeepsWhatWasAsked' /\ AskedIsInRange' /\ SetIsClose' /\ OnlyBetweenStepsIsOutside'
      /\ ValidIsEncodable'
  BY <1>1 DEF IInv, KeepsWhatWasAsked, AskedIsInRange, SetIsClose,
              OnlyBetweenStepsIsOutside, ValidIsEncodable
<1> QED
  BY <1>5, <1>6, <1>7 DEF IInv

LEMMA NextIInv == IInv /\ [Next]_vars => IInv'
<1> SUFFICES ASSUME IInv, [Next]_vars PROVE IInv'
  OBVIOUS
<1>1. ASSUME NEW v \in Typed, SetProperty(v) PROVE IInv'
  BY <1>1, SetKeeps
<1>2. CASE GetProperty
  BY <1>2, GetKeeps
<1>3. CASE Change
  BY <1>3, ChangeKeeps
<1>4. CASE UNCHANGED vars
  BY <1>4 DEF vars, IInv, TypeOK, StoresARawValue, KeepsWhatWasAsked, AskedIsInRange,
              SetIsClose, OnlyBetweenStepsIsOutside, ValidIsEncodable
<1> QED
  BY <1>1, <1>2, <1>3, <1>4 DEF Next

LEMMA Invariance == Spec => []IInv
  BY InitIInv, NextIInv, PTL DEF Spec

\* The property, the bytes the device stores and what calls return are well
\* formed, for every base, every set of properties and of values.
THEOREM ValueTypeCorrect == Spec => []TypeOK
<1>1. IInv => TypeOK
  BY DEF IInv
<1> QED
  BY <1>1, Invariance, PTL

\* validate_manifest (manifest.py) is strict enough for encode_value
\* (property.py): a valid property of a supported type has no value inside
\* its limits that does not encode.
THEOREM ValidManifestsEncode == Spec => []ValidIsEncodable
<1>1. IInv => ValidIsEncodable
  BY DEF IInv
<1> QED
  BY <1>1, Invariance, PTL

\* A value written comes back, at once and later, to half a step of the
\* scale: encode_value and decode_value (property.py) use the same grid.
THEOREM WritesReadBackClose == Spec => []SetIsClose
<1>1. IInv => SetIsClose
  BY DEF IInv
<1> QED
  BY <1>1, Invariance, PTL

\* The range check of encode_value, made before the rounding, holds after it
\* wherever the limits are on steps of the scale, whatever its sign.
THEOREM LimitsSurviveRounding == Spec => []OnlyBetweenStepsIsOutside
<1>1. IInv => OnlyBetweenStepsIsOutside
  BY DEF IInv
<1> QED
  BY <1>1, Invariance, PTL

\* Writing what was read leaves the device as it is (encode_value after
\* decode_value), whatever the scale and whoever wrote the value.
THEOREM NoDrift == Spec => []WriteBackIsNeutral
<1>1. IInv => WriteBackIsNeutral
  <2> SUFFICES ASSUME IInv, Refusal(property, Decoded(property, value)) = "none"
               PROVE  Encoded(property, Decoded(property, value)) = value
    BY DEF WriteBackIsNeutral
  <2> DEFINE w == Width(property.type)
  <2>1. PICK raw \in 0..Span(w) - 1 : value = ToBytes(raw, w)
    BY DEF IInv, StoresARawValue
  <2>2. property \in PropertyRecord /\ Span(w) \in Nat
    BY Context DEF IInv
  <2>3. Decoded(property, value) = Physical(property, raw) /\ Decoded(property, value) \in Int
    BY <2>1, <2>2, ReadsBack
  <2>4. property.scale # 0
    BY <2>2, <2>3, NotRefused
  <2>5. raw \in Int
    BY <2>2, SMT
  <2>6. Raw(property, Decoded(property, value)) = raw
    BY <2>2, <2>3, <2>4, <2>5, RawExact
  <2> QED
    BY <2>1, <2>6 DEF Encoded
<1> QED
  BY <1>1, Invariance, PTL

=============================================================================
