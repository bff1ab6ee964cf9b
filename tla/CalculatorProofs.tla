--------------------------- MODULE CalculatorProofs --------------------------
(***************************************************************************)
(* The calculator never overflows the result it replies with, for operands *)
(* of any width.                                                           *)
(***************************************************************************)
EXTENDS CalculatorUse, TLAPS

\* The absolute value of a natural number bound carries over to a product.
LEMMA ProductBound ==
    ASSUME NEW h \in Nat, NEW a \in 0 .. h, NEW b \in 0 .. h
    PROVE  a * b \in 0 .. h * h
<1>1. a * b <= h * b
  <2>1. PICK d \in Nat : h = a + d
    <3>1. h - a \in Nat /\ h = a + (h - a)
      OBVIOUS
    <3> QED
      BY <3>1
  <2>2. h * b = a * b + d * b
    BY <2>1
  <2>3. d * b \in Nat
    BY <2>1
  <2> QED
    BY <2>2, <2>3
<1>2. h * b <= h * h
  <2>1. PICK d \in Nat : h = b + d
    <3>1. h - b \in Nat /\ h = b + (h - b)
      OBVIOUS
    <3> QED
      BY <3>1
  <2>2. h * h = h * b + h * d
    BY <2>1
  <2>3. h * d \in Nat
    BY <2>1
  <2> QED
    BY <2>2, <2>3
<1>3. a * b \in Nat
  OBVIOUS
<1>4. h * b \in Nat /\ h * h \in Nat
  OBVIOUS
<1> QED
  BY <1>1, <1>2, <1>3, <1>4

\* The absolute value of an operand is at most Half.
LEMMA AbsShort ==
    ASSUME NEW x \in Short
    PROVE  Abs(x) \in 0 .. Half /\ (x = Abs(x) \/ x = -Abs(x))
BY HalfAssumption DEF Short, Abs

\* C++ division never increases the absolute value.
LEMMA QuotientBound ==
    ASSUME NEW x \in Short, NEW y \in Short, y # 0
    PROVE  Quotient(x, y) \in -Half .. Half
<1> DEFINE q == Abs(x) \div Abs(y)
<1>1. Abs(x) \in 0 .. Half /\ Abs(y) \in 1 .. Half
  BY HalfAssumption DEF Short, Abs
<1>2. q \in 0 .. Half
  <2>1. /\ q \in Int
        /\ Abs(y) * q <= Abs(x)
        /\ Abs(x) < Abs(y) * q + Abs(y)
    BY <1>1, HalfAssumption
  <2> HIDE DEF q
  <2>2. q >= 0
    <3> SUFFICES ASSUME q <= -1 PROVE FALSE
      BY <2>1
    <3>1. Abs(y) * q + Abs(y) = Abs(y) * (q + 1)
      BY <2>1, <1>1
    <3>2. -(q + 1) \in Nat
      BY <2>1
    <3>3. Abs(y) * (-(q + 1)) \in Nat
      BY <3>2, <1>1
    <3>4. Abs(y) * (q + 1) = -(Abs(y) * (-(q + 1)))
      BY <2>1, <1>1
    <3> QED
      BY <3>1, <3>3, <3>4, <2>1, <1>1
  <2>3. q <= Abs(y) * q
    <3>1. Abs(y) - 1 \in Nat
      BY <1>1
    <3>2. (Abs(y) - 1) * q \in Nat
      BY <3>1, <2>1, <2>2
    <3>3. Abs(y) * q = q + (Abs(y) - 1) * q
      BY <2>1, <1>1
    <3>4. Abs(y) * q \in Int
      BY <2>1, <1>1
    <3> QED
      BY <3>2, <3>3, <3>4, <2>1
  <2>4. Abs(y) * q \in Int
    BY <2>1, <1>1
  <2> QED
    BY <2>1, <2>2, <2>3, <2>4, <1>1, HalfAssumption
<1> HIDE DEF q
<1>3. Quotient(x, y) = q \/ Quotient(x, y) = -q
  BY DEF Quotient, q
<1> QED
  BY <1>2, <1>3, HalfAssumption

\* Half fits in a long, with room for the sum of two operands.
LEMMA LongRoom ==
    /\ Half * Half \in Nat
    /\ Half <= Half * Half
    /\ 2 * Half * Half = Half * Half + Half * Half
    /\ 1 <= Half * Half
<1>1. PICK k \in Nat : Half = k + 1
  <2>1. Half - 1 \in Nat /\ Half = (Half - 1) + 1
    BY HalfAssumption
  <2> QED
    BY <2>1
<1>2. Half * Half = k * Half + Half
  BY <1>1, HalfAssumption
<1>3. k * Half \in Nat
  BY <1>1, HalfAssumption
<1> QED
  BY <1>2, <1>3, HalfAssumption

\* Every result a server calculates from 16-bit operands is a 32-bit integer.
LEMMA CalculateFits ==
    ASSUME NEW r, r.x \in Short, r.y \in Short, CanCalculate(r)
    PROVE  Calculate(r) \in Long
<1> DEFINE x == r.x
           y == r.y
           H == Half * Half
<1>1. x \in Short /\ y \in Short
  OBVIOUS
<1>2. /\ H \in Nat /\ Half <= H /\ 1 <= H
      /\ Long = -(H + H) .. (H + H - 1)
  BY LongRoom DEF Long
<1> HIDE DEF H
<1>3. CASE r.operation = "ADDITION"
  <2>1. Calculate(r) = x + y
    BY <1>3 DEF Calculate
  <2> QED
    BY <2>1, <1>1, <1>2, HalfAssumption DEF Short
<1>4. CASE r.operation = "SUBTRACTION"
  <2>1. Calculate(r) = x - y
    BY <1>4 DEF Calculate
  <2> QED
    BY <2>1, <1>1, <1>2, HalfAssumption DEF Short
<1>5. CASE r.operation = "MULTIPLICATION"
  <2>1. Calculate(r) = x * y
    BY <1>5 DEF Calculate
  <2>2. Abs(x) * Abs(y) \in 0 .. H
    BY AbsShort, ProductBound, HalfAssumption, <1>1 DEF H
  <2>3. x * y = Abs(x) * Abs(y) \/ x * y = -(Abs(x) * Abs(y))
    <3>1. Abs(x) \in Int /\ Abs(y) \in Int
      BY AbsShort, <1>1
    <3>2. (x = Abs(x) \/ x = -Abs(x)) /\ (y = Abs(y) \/ y = -Abs(y))
      BY AbsShort, <1>1
    <3>3. \A a, b \in Int : (-a) * b = -(a * b) /\ a * (-b) = -(a * b) /\ (-a) * (-b) = a * b
      OBVIOUS
    <3> QED
      BY <3>1, <3>2, <3>3
  <2> QED
    BY <2>1, <2>2, <2>3, <1>2
<1>6. CASE r.operation = "DIVISION"
  <2>1. Calculate(r) = Quotient(x, y)
    BY <1>6 DEF Calculate
  <2>2. y # 0
    BY <1>6 DEF CanCalculate
  <2>3. Quotient(x, y) \in -Half .. Half
    BY <2>2, <1>1, QuotientBound
  <2> QED
    BY <2>1, <2>3, <1>2, HalfAssumption
<1> QED
  BY <1>3, <1>4, <1>5, <1>6 DEF CanCalculate, OperationKinds

-----------------------------------------------------------------------------

\* The operands of every request a client sends are shorts: the range check
\* of consume_int16_argument lets nothing else through.
THEOREM TypeCorrect == Spec => []TypeOK
<1>1. Init => TypeOK
  BY HalfAssumption DEF Init, TypeOK, Short
<1>2. TypeOK /\ [Next]_vars => TypeOK'
  <2> SUFFICES ASSUME TypeOK, [Next]_vars PROVE TypeOK'
    OBVIOUS
  <2>1. CASE UNCHANGED vars
    BY <2>1 DEF TypeOK, vars
  <2>2. CASE Next
    <3>1. PICK operation \in OperationKinds \cup {UnknownOperation}, x \in Inputs, y \in Inputs :
            Ask(operation, x, y)
      BY <2>2 DEF Next
    <3>2. x \in Short /\ y \in Short
      BY <3>1, InputsAssumption, HalfAssumption DEF Ask, AcceptedArgument, Short
    <3>3. request' = [operation |-> operation, x |-> x, y |-> y]
      BY <3>1 DEF Ask
    <3>4. CanCalculate(request') => result' \in Int
      <4>1. request'.x \in Short /\ request'.y \in Short
        BY <3>2, <3>3
      <4>2. CanCalculate(request') => result' \in Long
        BY <4>1, <3>1, CalculateFits DEF Ask
      <4> QED
        BY <4>2, LongRoom DEF Long
    <3>5. ~CanCalculate(request') => result' = result
      BY <3>1 DEF Ask
    <3> QED
      BY <3>2, <3>3, <3>4, <3>5 DEF TypeOK
  <2> QED
    BY <2>1, <2>2
<1> QED
  BY <1>1, <1>2, PTL DEF Spec

\* No calculation overflows: every result is an IDL long, for every width of
\* the operands (calculate, with consume_int16_argument).
THEOREM NoOverflow == Spec => []ResultFits
<1>1. Init => ResultFits
  BY LongRoom DEF Init, ResultFits, Long
<1>2. TypeOK /\ TypeOK' /\ ResultFits /\ [Next]_vars => ResultFits'
  <2> SUFFICES ASSUME TypeOK', ResultFits, [Next]_vars PROVE ResultFits'
    OBVIOUS
  <2>1. CASE UNCHANGED vars
    BY <2>1 DEF ResultFits, vars
  <2>2. CASE Next
    <3>1. result' = IF CanCalculate(request') THEN Calculate(request') ELSE result
      BY <2>2 DEF Next, Ask
    <3>2. request'.x \in Short /\ request'.y \in Short
      BY DEF TypeOK
    <3> QED
      BY <3>1, <3>2, CalculateFits DEF ResultFits
  <2> QED
    BY <2>1, <2>2
<1> QED
  BY <1>1, <1>2, TypeCorrect, PTL DEF Spec
-----------------------------------------------------------------------------
(* Division truncates.                                                     *)

\* Euclid's division of natural numbers.
LEMMA NaturalDivision ==
    ASSUME NEW a \in Nat, NEW b \in Nat \ {0}
    PROVE  /\ a \div b \in Int
           /\ (a \div b) * b \in Int
           /\ a - (a \div b) * b \in 0 .. (b - 1)
<1> DEFINE q == a \div b
<1>1. q \in Int /\ b * q <= a /\ a < b * q + b
  OBVIOUS
<1>2. b * q \in Int /\ q * b = b * q
  BY <1>1
<1> HIDE DEF q
<1>3. a - q * b \in 0 .. (b - 1)
  BY <1>1, <1>2
<1> QED
  BY <1>1, <1>2, <1>3 DEF q

\* Multiplied back, the quotient leaves a remainder smaller than the divisor
\* and of the dividend's sign.
LEMMA QuotientTruncates ==
    ASSUME NEW x \in Int, NEW y \in Int, y # 0
    PROVE  LET remainder == x - Quotient(x, y) * y
           IN  /\ Abs(remainder) < Abs(y)
               /\ remainder # 0 => (remainder < 0) = (x < 0)
<1> DEFINE a == Abs(x)
           b == Abs(y)
           q == a \div b
           r == a - q * b
<1>1. a \in Nat /\ b \in Nat \ {0}
  BY DEF Abs
<1>2. q \in Int /\ q * b \in Int /\ r \in 0 .. (b - 1)
  BY <1>1, NaturalDivision
<1>3. \A m, n \in Int : (-m) * n = -(m * n) /\ m * (-n) = -(m * n) /\ (-m) * (-n) = m * n
  OBVIOUS
<1>4. CASE x >= 0 /\ y > 0
  <2>1. Quotient(x, y) = q /\ a = x /\ b = y
    BY <1>4 DEF Quotient, Abs
  <2>2. x - Quotient(x, y) * y = r
    BY <2>1
  <2> QED
    BY <2>1, <2>2, <1>2, <1>4 DEF Abs
<1>5. CASE x < 0 /\ y < 0
  <2>1. Quotient(x, y) = q /\ x = -a /\ y = -b
    BY <1>5 DEF Quotient, Abs
  <2>2. Quotient(x, y) * y = -(q * b)
    BY <2>1, <1>1, <1>2, <1>3
  <2>3. x - Quotient(x, y) * y = -r
    BY <2>1, <2>2, <1>1, <1>2
  <2> QED
    BY <2>1, <2>3, <1>1, <1>2, <1>5 DEF Abs
<1>6. CASE x < 0 /\ y > 0
  <2>1. Quotient(x, y) = -q /\ x = -a /\ y = b
    BY <1>6 DEF Quotient, Abs
  <2>2. Quotient(x, y) * y = -(q * b)
    BY <2>1, <1>1, <1>2, <1>3
  <2>3. x - Quotient(x, y) * y = -r
    BY <2>1, <2>2, <1>1, <1>2
  <2> QED
    BY <2>1, <2>3, <1>1, <1>2, <1>6 DEF Abs
<1>7. CASE x >= 0 /\ y < 0
  <2>1. Quotient(x, y) = -q /\ x = a /\ y = -b
    BY <1>7 DEF Quotient, Abs
  <2>2. Quotient(x, y) * y = q * b
    BY <2>1, <1>1, <1>2, <1>3
  <2>3. x - Quotient(x, y) * y = r
    BY <2>1, <2>2, <1>1, <1>2
  <2> QED
    BY <2>1, <2>3, <1>1, <1>2, <1>7 DEF Abs
<1> QED
  BY <1>4, <1>5, <1>6, <1>7

\* The quotient a server replies with truncates toward zero, for operands of
\* every width and sign (calculate, case DIVISION).
THEOREM QuotientCorrect == Spec => []DivisionTruncates
<1>1. Init => DivisionTruncates
  BY DEF Init, DivisionTruncates, UnknownOperation
<1>2. TypeOK /\ TypeOK' /\ DivisionTruncates /\ [Next]_vars => DivisionTruncates'
  <2> SUFFICES ASSUME TypeOK', DivisionTruncates, [Next]_vars PROVE DivisionTruncates'
    OBVIOUS
  <2>1. CASE UNCHANGED vars
    BY <2>1 DEF DivisionTruncates, vars
  <2>2. CASE Next
    <3> SUFFICES ASSUME request'.operation = "DIVISION", CanCalculate(request')
                 PROVE  DivisionTruncates'
      BY DEF DivisionTruncates
    <3> DEFINE x == request'.x
               y == request'.y
    <3>1. result' = Quotient(x, y)
      BY <2>2 DEF Next, Ask, Calculate
    <3>2. x \in Int /\ y \in Int /\ y # 0
      BY HalfAssumption DEF TypeOK, Short, CanCalculate
    <3> HIDE DEF x, y
    <3>3. /\ Abs(x - result' * y) < Abs(y)
          /\ x - result' * y # 0 => (x - result' * y < 0) = (x < 0)
      BY <3>1, <3>2, QuotientTruncates
    <3> QED
      BY <3>3 DEF DivisionTruncates, x, y
  <2> QED
    BY <2>1, <2>2
<1> QED
  BY <1>1, <1>2, TypeCorrect, PTL DEF Spec
=============================================================================
