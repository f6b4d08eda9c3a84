----------------------------- MODULE PlansProofs -----------------------------
(***************************************************************************)
(* Theorems about CreditPlans and Collections: what a plan says, what its  *)
(* sale owes and what the lists and the statement show agree, whatever the *)
(* number of sales and of requests under way, the prices, the plans and    *)
(* the edits of them.  PlansInv is the inductive invariant; all that comes *)
(* before it is arithmetic of a single plan: its calendar, its due dates,  *)
(* what payments cover and what is left.                                   *)
(***************************************************************************)
EXTENDS Collections, Sums, TLAPS

-----------------------------------------------------------------------------
(* The calendar.                                                           *)

Months == 1..12

LEMMA MonthStartsSpaced ==
    /\ \A k \in Months : MonthStarts[k] \in Nat /\ MonthStarts[k] <= 334
                         /\ 28 * (k - 1) <= MonthStarts[k]
    /\ \A j, k \in Months : j < k => MonthStarts[j] + 28 <= MonthStarts[k]
<1>1. /\ MonthStarts[1] = 0 /\ MonthStarts[2] = 31 /\ MonthStarts[3] = 59
      /\ MonthStarts[4] = 90 /\ MonthStarts[5] = 120 /\ MonthStarts[6] = 151
      /\ MonthStarts[7] = 181 /\ MonthStarts[8] = 212 /\ MonthStarts[9] = 243
      /\ MonthStarts[10] = 273 /\ MonthStarts[11] = 304 /\ MonthStarts[12] = 334
  BY DEF MonthStarts
<1>2. \A k \in Months : k = 1 \/ k = 2 \/ k = 3 \/ k = 4 \/ k = 5 \/ k = 6 \/ k = 7 \/ k = 8
                        \/ k = 9 \/ k = 10 \/ k = 11 \/ k = 12
  BY DEF Months
<1>3. \A k \in Months : MonthStarts[k] \in Nat /\ MonthStarts[k] <= 334
                        /\ 28 * (k - 1) <= MonthStarts[k]
  BY <1>1, <1>2
<1>4. ASSUME NEW k \in 1..11 PROVE MonthStarts[k] + 28 <= MonthStarts[k + 1]
  <2>1. k = 1 \/ k = 2 \/ k = 3 \/ k = 4 \/ k = 5 \/ k = 6 \/ k = 7 \/ k = 8
        \/ k = 9 \/ k = 10 \/ k = 11
    OBVIOUS
  <2> QED
    BY <1>1, <2>1
<1>5. ASSUME NEW j \in Months, NEW k \in Months, j < k
      PROVE  MonthStarts[j] + 28 <= MonthStarts[k]
  BY <1>1, <1>2, <1>5, SMTT(30)
<1> QED
  BY <1>3, <1>5

\* Year, month and days of the months that have passed.
LEMMA MonthParts ==
    ASSUME NEW m \in Nat \ {0}
    PROVE  \E y \in Nat, k \in Months, leap \in {0, 1} :
               /\ m = 12 * y + k
               /\ leap = IF k > 2 /\ y % 4 = 2 THEN 1 ELSE 0
               /\ DaysBefore(m) = 365 * y + ((y + 1) \div 4) + MonthStarts[k] + leap
<1> DEFINE y == (m - 1) \div 12
           k == 1 + ((m - 1) % 12)
           leap == IF k > 2 /\ y % 4 = 2 THEN 1 ELSE 0
<1>1. y \in Nat /\ k \in Months /\ m = 12 * y + k
  BY DEF Months
<1>2. leap \in {0, 1}
  OBVIOUS
<1>3. DaysBefore(m) = 365 * y + ((y + 1) \div 4) + MonthStarts[k] + leap
  BY DEF DaysBefore
<1> HIDE DEF y, k, leap
<1>4. leap = IF k > 2 /\ y % 4 = 2 THEN 1 ELSE 0
  BY DEF leap
<1> QED
  BY <1>1, <1>2, <1>3, <1>4

LEMMA DaysBeforeNat ==
    /\ DaysBefore(1) = 0
    /\ \A m \in Nat \ {0} : DaysBefore(m) \in Nat /\ 28 * (m - 1) <= DaysBefore(m)
<1>1. DaysBefore(1) = 0
  BY DEF DaysBefore, MonthStarts
<1>2. ASSUME NEW m \in Nat \ {0} PROVE DaysBefore(m) \in Nat /\ 28 * (m - 1) <= DaysBefore(m)
  <2>1. PICK y \in Nat, k \in Months, leap \in {0, 1} :
            /\ m = 12 * y + k
            /\ leap = IF k > 2 /\ y % 4 = 2 THEN 1 ELSE 0
            /\ DaysBefore(m) = 365 * y + ((y + 1) \div 4) + MonthStarts[k] + leap
    BY MonthParts
  <2>2. (y + 1) \div 4 \in Nat
    OBVIOUS
  <2>3. k \in Nat /\ MonthStarts[k] \in Nat /\ 28 * (k - 1) <= MonthStarts[k]
    BY MonthStartsSpaced DEF Months
  <2>4. PICK d \in Nat : d = MonthStarts[k]
    BY <2>3
  <2>5. PICK q \in Nat : q = (y + 1) \div 4
    BY <2>2
  <2> QED
    BY <2>1, <2>3, <2>4, <2>5
<1> QED
  BY <1>1, <1>2

\* A month has at least 28 days.
LEMMA MonthsApart ==
    ASSUME NEW m \in Nat \ {0}, NEW n \in Nat \ {0}, m < n
    PROVE  DaysBefore(m) + 28 <= DaysBefore(n)
<1>1. PICK y \in Nat, k \in Months, leap \in {0, 1} :
          /\ m = 12 * y + k
          /\ leap = IF k > 2 /\ y % 4 = 2 THEN 1 ELSE 0
          /\ DaysBefore(m) = 365 * y + ((y + 1) \div 4) + MonthStarts[k] + leap
  BY MonthParts
<1>2. PICK z \in Nat, l \in Months, late \in {0, 1} :
          /\ n = 12 * z + l
          /\ late = IF l > 2 /\ z % 4 = 2 THEN 1 ELSE 0
          /\ DaysBefore(n) = 365 * z + ((z + 1) \div 4) + MonthStarts[l] + late
  BY MonthParts
<1>3. PICK a \in Nat : a = MonthStarts[k] /\ a <= 334
  BY MonthStartsSpaced
<1>4. PICK b \in Nat : b = MonthStarts[l] /\ (y = z => a + 28 <= b)
  <2>1. y = z => k < l
    BY <1>1, <1>2 DEF Months
  <2> QED
    BY <1>3, <2>1, MonthStartsSpaced
<1>5. y <= z
  BY <1>1, <1>2 DEF Months
<1>6. PICK p \in Nat, q \in Nat : p = (y + 1) \div 4 /\ q = (z + 1) \div 4 /\ p <= q
  <2>1. (y + 1) \div 4 \in Nat /\ (z + 1) \div 4 \in Nat /\ (y + 1) \div 4 <= (z + 1) \div 4
    BY <1>5
  <2> QED
    BY <2>1
<1>7. CASE y = z
  <2>1. leap <= late
    <3>1. k < l /\ k \in Nat /\ l \in Nat
      BY <1>1, <1>2, <1>7 DEF Months
    <3> QED
      BY <1>1, <1>2, <1>7, <3>1
  <2> QED
    BY <1>1, <1>2, <1>3, <1>4, <1>6, <1>7, <2>1
<1>8. CASE y < z
  BY <1>1, <1>2, <1>3, <1>4, <1>6, <1>8
<1> QED
  BY <1>5, <1>7, <1>8

\* Every day is in a month.
LEMMA MonthFound ==
    ASSUME NEW d \in Nat \ {0}
    PROVE  /\ MonthOf(d) \in Nat \ {0}
           /\ DaysBefore(MonthOf(d)) < d /\ d <= DaysBefore(MonthOf(d) + 1)
<1> DEFINE R == {m \in 1..d : d <= DaysBefore(m + 1)}
<1>1. d \in R
  <2>1. 28 * d <= DaysBefore(d + 1) /\ DaysBefore(d + 1) \in Nat
    BY DaysBeforeNat
  <2> QED
    BY <2>1
<1>2. PICK m \in R : \A j \in R : m <= j
  <2>1. R \in SUBSET (1..d) /\ R # {} /\ d \in Nat
    BY <1>1
  <2> HIDE DEF R
  <2> QED
    BY <2>1, LeastIndex
<1>3. DaysBefore(m) < d
  <2>1. CASE m = 1
    BY <2>1, DaysBeforeNat
  <2>2. CASE m # 1
    <3>1. m - 1 \in 1..d /\ (m - 1) + 1 = m
      BY <2>2
    <3>2. m - 1 \notin R
      BY <1>2, <3>1
    <3>3. DaysBefore(m) \in Nat
      BY DaysBeforeNat
    <3> QED
      BY <3>1, <3>2, <3>3
  <2> QED
    BY <2>1, <2>2
<1>4. \E n \in 1..d : DaysBefore(n) < d /\ d <= DaysBefore(n + 1)
  BY <1>2, <1>3
<1>5. MonthOf(d) \in 1..d /\ DaysBefore(MonthOf(d)) < d /\ d <= DaysBefore(MonthOf(d) + 1)
  BY <1>4 DEF MonthOf
<1> QED
  BY <1>5

-----------------------------------------------------------------------------
(* The k-th element of a finite set of numbers.                            *)

LEMMA NthIs ==
    ASSUME NEW S \in SUBSET Nat, IsFiniteSet(S), NEW k \in 1..Cardinality(S)
    PROVE  Nth(S, k) \in S /\ Cardinality({y \in S : y <= Nth(S, k)}) = k
<1> DEFINE Below(x) == {y \in S : y <= x}
           n == Cardinality(S)
           f == [x \in S |-> Cardinality(Below(x))]
<1>1. \A x \in S : IsFiniteSet(Below(x)) /\ Cardinality(Below(x)) \in 1..n
  <2> SUFFICES ASSUME NEW x \in S
               PROVE  IsFiniteSet(Below(x)) /\ Cardinality(Below(x)) \in 1..n
    OBVIOUS
  <2>1. Below(x) \in SUBSET S /\ x \in Below(x)
    OBVIOUS
  <2> HIDE DEF Below
  <2>2. IsFiniteSet(Below(x)) /\ Cardinality(Below(x)) <= n
    BY <2>1, FS_Subset
  <2>3. Cardinality(Below(x)) \in Nat /\ n \in Nat
    BY <2>2, FS_CardinalityType
  <2>4. Cardinality(Below(x)) # 0
    BY <2>1, <2>2, FS_EmptySet
  <2> HIDE DEF n
  <2> QED
    BY <2>2, <2>3, <2>4
<1>2. ASSUME NEW x \in S, NEW z \in S, x < z
      PROVE  Cardinality(Below(x)) < Cardinality(Below(z))
  <2>0. x \in Nat /\ z \in Nat /\ (\A y \in S : y \in Nat)
    OBVIOUS
  <2>a. \A y \in S : y <= x => y <= z
    BY <1>2, <2>0
  <2>b. z <= z /\ ~(z <= x)
    BY <1>2, <2>0
  <2>1. Below(x) \in SUBSET Below(z) /\ z \in Below(z) /\ z \notin Below(x)
    BY <2>a, <2>b
  <2>2. IsFiniteSet(Below(x)) /\ IsFiniteSet(Below(z))
    BY <1>1
  <2> HIDE DEF Below
  <2>3. /\ Cardinality(Below(x)) <= Cardinality(Below(z))
        /\ Cardinality(Below(x)) # Cardinality(Below(z))
    BY <2>1, <2>2, FS_Subset
  <2>4. Cardinality(Below(x)) \in Nat /\ Cardinality(Below(z)) \in Nat
    BY <2>2, FS_CardinalityType
  <2> QED
    BY <2>3, <2>4
<1>3. f \in [S -> 1..n]
  BY <1>1
<1>4. \A x, z \in S : f[x] = f[z] => x = z
  <2> SUFFICES ASSUME NEW x \in S, NEW z \in S, x # z PROVE f[x] # f[z]
    OBVIOUS
  <2>1. x < z \/ z < x
    OBVIOUS
  <2>2. f[x] = Cardinality(Below(x)) /\ f[z] = Cardinality(Below(z))
    OBVIOUS
  <2>3. f[x] \in Nat /\ f[z] \in Nat
    BY <1>1, <2>2
  <2> HIDE DEF f, Below
  <2> QED
    BY <1>2, <2>1, <2>2, <2>3
<1>5. f \in Injection(S, 1..n)
  <2> HIDE DEF f
  <2> QED
    BY <1>3, <1>4 DEF Injection, IsInjective
<1>6. IsFiniteSet(1..n) /\ Cardinality(1..n) = n
  <2>1. n \in Nat
    BY FS_CardinalityType
  <2> HIDE DEF n
  <2> QED
    BY <2>1, FS_Interval
<1>7. f \in Surjection(S, 1..n)
  <2> HIDE DEF f
  <2>1. Cardinality(S) = Cardinality(1..n)
    BY <1>6
  <2> QED
    BY <1>5, <1>6, <2>1, FS_Injection
<1>8. \E x \in S : f[x] = k
  <2> HIDE DEF f
  <2> QED
    BY <1>7 DEF Surjection
<1>9. \E x \in S : Cardinality(Below(x)) = k
  BY <1>8
<1> QED
  BY <1>9 DEF Nth

LEMMA NthGrows ==
    ASSUME NEW S \in SUBSET Nat, IsFiniteSet(S),
           NEW j \in 1..Cardinality(S), NEW k \in 1..Cardinality(S), j < k
    PROVE  Nth(S, j) < Nth(S, k)
<1> DEFINE Below(x) == {y \in S : y <= x}
<1>1. PICK a \in S : a = Nth(S, j) /\ Cardinality(Below(a)) = j
  BY NthIs
<1>2. PICK b \in S : b = Nth(S, k) /\ Cardinality(Below(b)) = k
  BY NthIs
<1>3. CASE b <= a
  <2>0. a \in Nat /\ b \in Nat /\ (\A y \in S : y \in Nat)
    OBVIOUS
  <2>a. \A y \in S : y <= b => y <= a
    BY <1>3, <2>0
  <2>1. Below(b) \in SUBSET Below(a) /\ Below(a) \in SUBSET S
    BY <2>a
  <2> HIDE DEF Below
  <2>2. Cardinality(Below(b)) <= Cardinality(Below(a))
    BY <2>1, FS_Subset
  <2>3. j \in Int /\ k \in Int
    OBVIOUS
  <2> QED
    BY <1>1, <1>2, <2>2, <2>3
<1> QED
  BY <1>1, <1>2, <1>3

-----------------------------------------------------------------------------
(* The dates on which instalments fall due.                                *)

\* Days of a month as they take turns: one of them or two.
DaysInTurn(days) == /\ Len(days) \in {1, 2}
                    /\ \A r \in 1..Len(days) : days[r] \in Nat

KeptTurns(days, after, count) ==
    {turn \in 0..(Len(days) * (count + 2) - 1) : DayOfTurn(days, MonthOf(after), turn) > after}

LEMMA TurnParts ==
    ASSUME NEW days, DaysInTurn(days), NEW first \in Nat \ {0}, NEW turn \in Nat
    PROVE  \E m \in Nat, r \in 1..Len(days) :
               /\ turn = Len(days) * m + (r - 1)
               /\ DayOfTurn(days, first, turn) = DaysBefore(first + m) + days[r]
<1>1. PICK n \in {1, 2} : n = Len(days)
  BY DEF DaysInTurn
<1>2. turn \div n \in Nat /\ 1 + (turn % n) \in 1..n /\ turn = n * (turn \div n) + (turn % n)
  <2>1. CASE n = 1
    BY <2>1
  <2>2. CASE n = 2
    BY <2>2
  <2> QED
    BY <2>1, <2>2
<1>3. PICK m \in Nat, r \in 1..n : m = turn \div n /\ r = 1 + (turn % n)
  BY <1>2
<1>4. turn = n * m + (r - 1)
  <2>1. turn % n \in Int
    BY <1>2
  <2> QED
    BY <1>2, <1>3, <2>1
<1>5. DayOfTurn(days, first, turn) = DaysBefore(first + m) + days[r]
  BY <1>1, <1>3 DEF DayOfTurn
<1> QED
  BY <1>1, <1>3, <1>4, <1>5

\* After the second month every turn falls after the sale.
LEMMA KeptEnough ==
    ASSUME NEW days, DaysInTurn(days), NEW after \in Nat \ {0}, NEW count \in Nat
    PROVE  /\ KeptTurns(days, after, count) \in SUBSET Nat
           /\ IsFiniteSet(KeptTurns(days, after, count))
           /\ 1..count \subseteq 1..Cardinality(KeptTurns(days, after, count))
<1> DEFINE K == KeptTurns(days, after, count)
<1>1. PICK n \in {1, 2} : n = Len(days)
  BY DEF DaysInTurn
<1>2. PICK first \in Nat \ {0} : /\ first = MonthOf(after)
                                 /\ after <= DaysBefore(first + 1)
  BY MonthFound
<1>3. K = {turn \in 0..(n * (count + 2) - 1) : DayOfTurn(days, first, turn) > after}
  BY <1>1, <1>2 DEF KeptTurns
<1>4. K \in SUBSET Nat /\ IsFiniteSet(K)
  <2>1. n * (count + 2) - 1 \in Int
    BY SMT
  <2>2. IsFiniteSet(0..(n * (count + 2) - 1))
    BY <2>1, FS_Interval
  <2>3. K \in SUBSET (0..(n * (count + 2) - 1)) /\ K \in SUBSET Nat
    BY <1>3, <2>1
  <2> HIDE DEF K
  <2> QED
    BY <2>2, <2>3, FS_Subset
<1> DEFINE J == (2 * n)..(n * (count + 2) - 1)
<1>5. ASSUME NEW turn \in J PROVE turn \in K
  <2>1. turn \in Nat /\ turn \in 0..(n * (count + 2) - 1) /\ 2 * n <= turn
    <3>1. CASE n = 1
      BY <1>5, <3>1
    <3>2. CASE n = 2
      BY <1>5, <3>2
    <3> QED
      BY <3>1, <3>2
  <2>a. \E m \in Nat, r \in 1..Len(days) :
            /\ turn = Len(days) * m + (r - 1)
            /\ DayOfTurn(days, first, turn) = DaysBefore(first + m) + days[r]
    BY ZenonT(30), <2>1, TurnParts
  <2>2. PICK m \in Nat, r \in 1..n :
            /\ turn = n * m + (r - 1)
            /\ DayOfTurn(days, first, turn) = DaysBefore(first + m) + days[r]
    BY Zenon, <1>1, <2>a
  <2>3. 2 <= m
    <3>1. CASE n = 1
      BY <2>1, <2>2, <3>1
    <3>2. CASE n = 2
      BY <2>1, <2>2, <3>2
    <3> QED
      BY <3>1, <3>2
  <2>4. days[r] \in Nat
    BY <1>1 DEF DaysInTurn
  <2>5. /\ first + 1 \in Nat \ {0} /\ first + m \in Nat \ {0} /\ first + 1 < first + m
        /\ DaysBefore(first + 1) \in Nat /\ DaysBefore(first + m) \in Nat
    <3>1. first + 1 \in Nat \ {0} /\ first + m \in Nat \ {0} /\ first + 1 < first + m
      BY <2>3
    <3> QED
      BY <3>1, DaysBeforeNat
  <2>6. DaysBefore(first + 1) + 28 <= DaysBefore(first + m)
    BY <2>5, MonthsApart
  <2>7. DayOfTurn(days, first, turn) > after
    BY <1>2, <2>2, <2>4, <2>5, <2>6
  <2> QED
    BY <1>3, <2>1, <2>7
<1>6. count <= Cardinality(K) /\ Cardinality(K) \in Nat
  <2>1. J \in SUBSET K
    BY <1>5
  <2>2. Cardinality(J) \in Nat /\ count <= Cardinality(J)
    <3>1. CASE n = 1
      <4>1. J = 2..(count + 1)
        BY <3>1
      <4>2. Cardinality(2..(count + 1)) = IF 2 > count + 1 THEN 0 ELSE (count + 1) - 2 + 1
        BY FS_Interval
      <4> QED
        BY <4>1, <4>2
    <3>2. CASE n = 2
      <4>1. J = 4..(2 * count + 3)
        BY <3>2
      <4>2. Cardinality(4..(2 * count + 3)) = IF 4 > 2 * count + 3 THEN 0
                                             ELSE (2 * count + 3) - 4 + 1
        BY FS_Interval
      <4> QED
        BY <4>1, <4>2
    <3> QED
      BY <3>1, <3>2
  <2> HIDE DEF J, K
  <2>3. Cardinality(J) <= Cardinality(K) /\ Cardinality(K) \in Nat
    BY <1>4, <2>1, FS_Subset, FS_CardinalityType
  <2> QED
    BY <2>2, <2>3
<1> HIDE DEF K
<1>7. 1..count \subseteq 1..Cardinality(K)
  BY <1>6
<1> QED
  BY <1>4, <1>7 DEF K

LEMMA TurnsGrow ==
    ASSUME NEW days, DaysInTurn(days), NEW first \in Nat \ {0},
           \A r \in 1..Len(days) : days[r] \in 1..28,
           Len(days) = 2 => days[1] < days[2],
           NEW t \in Nat, NEW u \in Nat, t < u
    PROVE  DayOfTurn(days, first, t) < DayOfTurn(days, first, u)
<1>1. PICK n \in {1, 2} : n = Len(days)
  BY DEF DaysInTurn
<1>2. PICK m \in Nat, r \in 1..n :
          /\ t = n * m + (r - 1)
          /\ DayOfTurn(days, first, t) = DaysBefore(first + m) + days[r]
  <2>1. \E m \in Nat, r \in 1..Len(days) :
            /\ t = Len(days) * m + (r - 1)
            /\ DayOfTurn(days, first, t) = DaysBefore(first + m) + days[r]
    BY ZenonT(30), TurnParts
  <2> QED
    BY Zenon, <1>1, <2>1
<1>3. PICK l \in Nat, q \in 1..n :
          /\ u = n * l + (q - 1)
          /\ DayOfTurn(days, first, u) = DaysBefore(first + l) + days[q]
  <2>1. \E l \in Nat, q \in 1..Len(days) :
            /\ u = Len(days) * l + (q - 1)
            /\ DayOfTurn(days, first, u) = DaysBefore(first + l) + days[q]
    BY ZenonT(30), TurnParts
  <2> QED
    BY Zenon, <1>1, <2>1
<1>4. PICK a \in 1..28 : a = days[r]
  BY <1>1
<1>5. PICK b \in 1..28 : b = days[q]
  BY <1>1
<1>6. m < l \/ (m = l /\ r = 1 /\ q = 2 /\ n = 2)
  <2>1. CASE n = 1
    BY <1>2, <1>3, <2>1
  <2>2. CASE n = 2
    BY <1>2, <1>3, <2>2
  <2> QED
    BY <2>1, <2>2
<1>7. first + m \in Nat \ {0} /\ first + l \in Nat \ {0}
  OBVIOUS
<1>8. DaysBefore(first + m) \in Nat /\ DaysBefore(first + l) \in Nat
  BY <1>7, DaysBeforeNat
<1>9. CASE m < l
  <2>1. first + m < first + l
    BY <1>9
  <2>2. DaysBefore(first + m) + 28 <= DaysBefore(first + l)
    BY <1>7, <2>1, MonthsApart
  <2>3. PICK x \in Nat, y \in Nat : x = DaysBefore(first + m) /\ y = DaysBefore(first + l)
    BY <1>8
  <2>4. DayOfTurn(days, first, t) = x + a /\ DayOfTurn(days, first, u) = y + b
    BY <1>2, <1>3, <1>4, <1>5, <2>3
  <2>5. x + 28 <= y
    BY <2>2, <2>3
  <2> QED
    BY <2>4, <2>5
<1>10. CASE m = l /\ r = 1 /\ q = 2 /\ n = 2
  <2>1. a < b
    BY <1>1, <1>4, <1>5, <1>10
  <2> QED
    BY <1>2, <1>3, <1>4, <1>5, <1>8, <1>10, <2>1
<1> QED
  BY <1>6, <1>9, <1>10

LEMMA MonthlyDatesInOrder ==
    ASSUME NEW days, DaysInTurn(days), NEW after \in Nat \ {0}, NEW count \in Nat
    PROVE  LET due == MonthlyDates(days, after, count) IN
           /\ \A i \in 1..count : due[i] \in Int /\ due[i] > after
           /\ (\A r \in 1..Len(days) : days[r] \in 1..28) /\ (Len(days) = 2 => days[1] < days[2]) =>
                  \A i, j \in 1..count : i < j => due[i] < due[j]
<1> DEFINE due == MonthlyDates(days, after, count)
           K == KeptTurns(days, after, count)
<1>1. PICK first \in Nat \ {0} : first = MonthOf(after)
  BY MonthFound
<1>2. due = [k \in 1..count |-> DayOfTurn(days, first, Nth(K, k))]
  BY <1>1 DEF MonthlyDates, KeptTurns
<1>3. /\ K \in SUBSET Nat /\ IsFiniteSet(K)
      /\ \A i \in 1..count : i \in 1..Cardinality(K)
  BY KeptEnough
<1>4. \A k \in K : k \in Nat /\ DayOfTurn(days, first, k) > after
  BY <1>1, <1>3 DEF KeptTurns
<1> HIDE DEF K, due
<1>5. ASSUME NEW i \in 1..count
      PROVE  Nth(K, i) \in K /\ Nth(K, i) \in Nat /\ due[i] = DayOfTurn(days, first, Nth(K, i))
  BY <1>2, <1>3, NthIs
<1>6. ASSUME NEW i \in 1..count PROVE due[i] \in Int /\ due[i] > after
  <2>1. PICK k \in Nat : k \in K /\ k = Nth(K, i)
    BY <1>5
  <2>2. PICK m \in Nat, r \in 1..Len(days) :
            /\ k = Len(days) * m + (r - 1)
            /\ DayOfTurn(days, first, k) = DaysBefore(first + m) + days[r]
    BY ZenonT(30), <2>1, TurnParts
  <2>3. first + m \in Nat \ {0} /\ DaysBefore(first + m) \in Nat /\ days[r] \in Nat
    BY DaysBeforeNat DEF DaysInTurn
  <2>4. due[i] = DayOfTurn(days, first, k)
    BY Zenon, <1>5, <2>1
  <2>5. DayOfTurn(days, first, k) > after
    BY Zenon, <1>4, <2>1
  <2>6. PICK x \in Nat, y \in Nat : x = DaysBefore(first + m) /\ y = days[r]
    BY <2>3
  <2>7. due[i] = x + y
    BY Zenon, <2>2, <2>4, <2>6
  <2> QED
    BY <2>4, <2>5, <2>7
<1>7. ASSUME \A r \in 1..Len(days) : days[r] \in 1..28,
             Len(days) = 2 => days[1] < days[2],
             NEW i \in 1..count, NEW j \in 1..count, i < j
      PROVE  due[i] < due[j]
  <2>1. Nth(K, i) < Nth(K, j)
    <3>1. i \in 1..Cardinality(K) /\ j \in 1..Cardinality(K)
      BY <1>3
    <3> QED
      BY <1>3, <1>7, <3>1, NthGrows
  <2>2. DayOfTurn(days, first, Nth(K, i)) < DayOfTurn(days, first, Nth(K, j))
    BY <1>5, <1>7, <2>1, TurnsGrow
  <2> QED
    BY <1>5, <2>2
<1> QED
  BY <1>6, <1>7 DEF due

LEMMA WeeklyDatesInOrder ==
    ASSUME NEW day \in 1..7, NEW after \in Nat \ {0}, NEW count \in Nat
    PROVE  LET due == WeeklyDates(day, after, count) IN
           /\ \A i \in 1..count : due[i] \in Int /\ due[i] > after
           /\ \A i, j \in 1..count : i < j => due[i] < due[j]
<1> DEFINE P(d) == Weekday(d) = IF day = 7 THEN 0 ELSE day
           first == CHOOSE d \in (after + 1)..(after + 7) : P(d)
<1>1. \E d \in (after + 1)..(after + 7) : P(d)
  <2>1. PICK target \in 0..6 : target = IF day = 7 THEN 0 ELSE day
    OBVIOUS
  <2>2. PICK r \in 0..6, q \in Nat : after + 4 = 7 * q + r
    <3>1. (after + 4) % 7 \in 0..6 /\ (after + 4) \div 7 \in Nat
          /\ after + 4 = 7 * ((after + 4) \div 7) + ((after + 4) % 7)
      OBVIOUS
    <3> QED
      BY <3>1
  <2>3. PICK k \in 0..6 : r + k = target \/ r + k = target + 7
    <3>1. CASE r <= target
      <4>1. target - r \in 0..6 /\ r + (target - r) = target
        BY <3>1
      <4> QED
        BY <4>1
    <3>2. CASE r > target
      <4>1. target - r + 7 \in 0..6 /\ r + (target - r + 7) = target + 7
        BY <3>2
      <4> QED
        BY <4>1
    <3> QED
      BY <3>1, <3>2
  <2>4. (after + 1 + k) + 3 = 7 * q + (r + k)
    BY <2>2
  <2>5. ((after + 1 + k) + 3) % 7 = target
    BY <2>3, <2>4
  <2>6. after + 1 + k \in (after + 1)..(after + 7)
    OBVIOUS
  <2> QED
    BY <2>1, <2>5, <2>6 DEF Weekday
<1>2. first \in (after + 1)..(after + 7)
  <2> HIDE DEF P
  <2> QED
    BY <1>1
<1>3. WeeklyDates(day, after, count) = [k \in 1..count |-> first + 7 * (k - 1)]
  BY DEF WeeklyDates
<1> HIDE DEF first
<1> QED
  BY <1>2, <1>3

\* A plan whose dates can be laid out.
Datable(p) == /\ p.day \in 0..31 /\ p.day2 \in 0..31
              /\ p.soldOn \in Nat \ {0} /\ p.count \in Nat

LEMMA DatesInOrder ==
    ASSUME NEW p, Datable(p), LaidOut(p)
    PROVE  /\ \A i \in 1..p.count : DueDates(p)[i] \in Int /\ DueDates(p)[i] > p.soldOn
           /\ p.frequency = "WEEKLY" \/ CommonDays(p) =>
                  \A i, j \in 1..p.count : i < j => DueDates(p)[i] < DueDates(p)[j]
<1>1. CASE p.frequency = "WEEKLY"
  <2>1. WeekdayOf(p) \in 1..7 /\ DueDates(p) = WeeklyDates(WeekdayOf(p), p.soldOn, p.count)
    BY <1>1 DEF LaidOut, DueDates
  <2> QED
    BY <2>1, WeeklyDatesInOrder DEF Datable
<1>2. CASE p.frequency # "WEEKLY"
  <2> DEFINE days == CollectionDays(p)
  <2>1. DueDates(p) = MonthlyDates(days, p.soldOn, p.count)
    BY <1>2 DEF DueDates
  <2>2. DaysInTurn(days)
    BY DEF DaysInTurn, CollectionDays, Datable
  <2>3. CommonDays(p) => /\ \A r \in 1..Len(days) : days[r] \in 1..28
                         /\ Len(days) = 2 => days[1] < days[2]
    BY DEF CommonDays, CollectionDays, Datable, Null
  <2> HIDE DEF days
  <2> QED
    BY <1>2, <2>1, <2>2, <2>3, MonthlyDatesInOrder DEF Datable
<1> QED
  BY <1>1, <1>2

-----------------------------------------------------------------------------
(* How the payments cover the instalments.                                 *)

LEMMA MaxOfTwo ==
    ASSUME NEW a \in Int, NEW b \in Int
    PROVE  Max({a, b}) = IF a >= b THEN a ELSE b
<1>1. \E x \in {a, b} : \A y \in {a, b} : x >= y
  OBVIOUS
<1>2. Max({a, b}) \in {a, b} /\ \A y \in {a, b} : Max({a, b}) >= y
  BY <1>1 DEF Max
<1> QED
  BY <1>2

LEMMA MinOfTwo ==
    ASSUME NEW a \in Int, NEW b \in Int
    PROVE  Min({a, b}) = IF a <= b THEN a ELSE b
<1>1. \E x \in {a, b} : \A y \in {a, b} : x <= y
  OBVIOUS
<1>2. Min({a, b}) \in {a, b} /\ \A y \in {a, b} : Min({a, b}) <= y
  BY <1>1 DEF Min
<1> QED
  BY <1>2

LEMMA Quotient ==
    ASSUME NEW v \in Nat, NEW a \in Nat \ {0}
    PROVE  /\ v \div a \in Nat
           /\ (v \div a) * a <= v /\ v < (v \div a) * a + a
  BY SMT

\* What has been paid beyond the initial payment covers full instalments, and
\* what is left over is less than one, or one when a quotient fell short.
Covers(n, a, v, full) ==
    /\ full \in 0..n
    /\ full * a <= v
    /\ full < n => v <= full * a + a

CountsFor(p, received) == IF p.amount = 0 THEN {p.count} ELSE FullPaid(p, received)

LEMMA CountsCover ==
    ASSUME NEW p, NEW received \in Nat, p.amount \in Nat, p.count \in Nat \ {0},
           p.initial \in Nat, NEW full \in CountsFor(p, received)
    PROVE  /\ Available(p, received) \in Nat
           /\ Covers(p.count, p.amount, Available(p, received), full)
           /\ full < p.count /\ Available(p, received) = full * p.amount + p.amount =>
                  full < Max(CountsFor(p, received))
           /\ p.amount = 0 => full = p.count
<1>1. PICK v \in Nat : v = Available(p, received)
  <2>1. received - p.initial \in Int
    OBVIOUS
  <2>2. Max({0, received - p.initial}) \in Nat
    BY <2>1, MaxOfTwo
  <2> QED
    BY <2>2 DEF Available
<1>2. PICK a \in Nat, n \in Nat \ {0} : a = p.amount /\ n = p.count
  OBVIOUS
<1>3. CASE a = 0
  <2>1. full = n
    BY <1>2, <1>3 DEF CountsFor
  <2>2. full * a = 0 /\ full * a <= v
    BY <1>1, <1>3, <2>1
  <2> QED
    BY <1>1, <1>2, <2>1, <2>2 DEF Covers
<1>4. CASE a # 0
  <2>1. PICK w \in Nat : w = v \div a /\ w * a <= v /\ v < w * a + a
    BY <1>4, Quotient
  <2>2. CountsFor(p, received) =
            {Min({w, n})} \cup (IF w > 0 /\ v = w * a THEN {Min({w - 1, n})} ELSE {})
    BY <1>1, <1>2, <1>4, <2>1 DEF CountsFor, FullPaid
  <2>3. Min({w, n}) = (IF w <= n THEN w ELSE n) /\ Min({w - 1, n}) = (IF w - 1 <= n THEN w - 1 ELSE n)
    BY MinOfTwo
  <2>4. CASE full = Min({w, n})
    <3>1. full \in 0..n /\ full <= w /\ (full < n => full = w)
      BY <2>3, <2>4
    <3>2. full * a <= v
      <4>1. full * a <= w * a
        BY <3>1
      <4>2. full * a \in Int /\ w * a \in Int
        BY <3>1
      <4> QED
        BY <2>1, <4>1, <4>2
    <3>3. full < n => v < full * a + a
      BY <2>1, <3>1
    <3>4. full < n => v <= full * a + a /\ v # full * a + a
      <4>1. full * a + a \in Int
        BY <3>1
      <4> QED
        BY <3>3, <4>1
    <3> QED
      BY <1>1, <1>2, <1>4, <3>1, <3>2, <3>4 DEF Covers
  <2>5. CASE full # Min({w, n})
    <3>1. w > 0 /\ v = w * a /\ full = Min({w - 1, n})
      BY <2>2, <2>5
    <3>2. full = w - 1 /\ w <= n
      BY <2>3, <2>5, <3>1
    <3>3. full * a + a = w * a /\ full * a \in Int
      <4>1. (w - 1) * a + a = w * a
        OBVIOUS
      <4> QED
        BY <3>2, <4>1
    <3>4. CountsFor(p, received) = {w, w - 1}
      BY <2>2, <2>3, <3>1, <3>2
    <3>5. full < Max(CountsFor(p, received))
      BY <3>2, <3>4, MaxOfTwo
    <3>6. full \in 0..n
      BY <3>1, <3>2
    <3> QED
      BY <1>1, <1>2, <1>4, <3>1, <3>3, <3>5, <3>6 DEF Covers
  <2> QED
    BY <2>4, <2>5
<1> QED
  BY <1>3, <1>4

\* The instalments that are paid in full, and what the others lack.
PaidUp(p, received, full) == {i \in 1..p.count : PaidOf(p, received, full, i) >= p.amount}

LEMMA PaidOfIs ==
    ASSUME NEW p, NEW received \in Nat, p.amount \in Nat, p.count \in Nat \ {0},
           p.initial \in Nat, NEW full \in CountsFor(p, received)
    PROVE  LET v == Available(p, received)
               last == TakesLeftover(p, full)
           IN /\ \A i \in 1..p.count :
                     /\ PaidOf(p, received, full, i) \in 0..p.amount
                     /\ i <= full => PaidOf(p, received, full, i) = p.amount
                     /\ i > full /\ i # last => PaidOf(p, received, full, i) = 0
              /\ full < p.count =>
                     /\ last \in 1..p.count /\ last > full
                     /\ p.amount > 0
                     /\ PaidOf(p, received, full, last) = v - full * p.amount
<1>1. PICK a \in Nat, n \in Nat \ {0} : a = p.amount /\ n = p.count
  OBVIOUS
<1>2. PICK v \in Nat : v = Available(p, received) /\ Covers(n, a, v, full)
  BY <1>1, CountsCover
<1>3. full \in 0..n /\ (a = 0 => full = n)
  BY <1>1, <1>2, CountsCover DEF Covers
<1>4. PICK last \in 1..n : last = TakesLeftover(p, full) /\ (full < n => last > full)
  BY <1>1, <1>3 DEF TakesLeftover
<1>5. PICK t \in Nat : t = full * a
  BY <1>3
<1>6. t <= v /\ (full < n => v <= t + a)
  BY <1>2, <1>5 DEF Covers
<1>7. ASSUME NEW i \in 1..n
      PROVE  PaidOf(p, received, full, i) = IF a = 0 THEN 0 ELSE IF i <= full THEN a
                                            ELSE IF i = last THEN v - t ELSE 0
  BY <1>1, <1>2, <1>4, <1>5 DEF PaidOf
<1>8. ASSUME NEW i \in 1..n
      PROVE  /\ PaidOf(p, received, full, i) \in 0..a
             /\ i <= full => PaidOf(p, received, full, i) = a
             /\ i > full /\ i # last => PaidOf(p, received, full, i) = 0
  BY <1>3, <1>6, <1>7
<1>9. full < n => a > 0 /\ PaidOf(p, received, full, last) = v - t
  BY <1>3, <1>4, <1>7
<1> QED
  BY <1>1, <1>2, <1>4, <1>5, <1>8, <1>9

LEMMA PaidUpIs ==
    ASSUME NEW p, NEW received \in Nat, p.amount \in Nat, p.count \in Nat \ {0},
           p.initial \in Nat, NEW full \in CountsFor(p, received)
    PROVE  /\ full \in 0..p.count
           /\ \A i \in PaidUp(p, received, full) : PaidOf(p, received, full, i) = p.amount
           /\ \/ PaidUp(p, received, full) = 1..full
              \/ /\ full < p.count /\ full < Max(CountsFor(p, received))
                 /\ PaidUp(p, received, full) = (1..full) \cup {TakesLeftover(p, full)}
<1>1. PICK a \in Nat, n \in Nat \ {0} : a = p.amount /\ n = p.count
  OBVIOUS
<1>2. PICK v \in Nat : v = Available(p, received) /\ Covers(n, a, v, full)
  BY <1>1, CountsCover
<1>3. full \in 0..n
  BY <1>2 DEF Covers
<1>4. PICK last : last = TakesLeftover(p, full)
  OBVIOUS
<1>5. PICK paidOf \in [1..n -> 0..a] :
          /\ \A i \in 1..n : paidOf[i] = PaidOf(p, received, full, i)
          /\ \A i \in 1..n : i <= full => paidOf[i] = a
          /\ \A i \in 1..n : i > full /\ i # last => paidOf[i] = 0
          /\ full < n => last \in 1..n /\ last > full /\ a > 0 /\ paidOf[last] = v - full * a
  <2> DEFINE f == [i \in 1..n |-> PaidOf(p, received, full, i)]
  <2>1. /\ \A i \in 1..n : f[i] \in 0..a
        /\ \A i \in 1..n : i <= full => f[i] = a
        /\ \A i \in 1..n : i > full /\ i # last => f[i] = 0
    BY <1>1, <1>4, PaidOfIs
  <2>2. full < n => last \in 1..n /\ last > full /\ a > 0 /\ f[last] = v - full * a
    BY <1>1, <1>2, <1>4, PaidOfIs
  <2>3. f \in [1..n -> 0..a] /\ \A i \in 1..n : f[i] = PaidOf(p, received, full, i)
    BY <2>1
  <2> HIDE DEF f
  <2> QED
    BY <2>1, <2>2, <2>3
<1>6. PaidUp(p, received, full) = {i \in 1..n : paidOf[i] = a}
  <2>1. \A i \in 1..n : PaidOf(p, received, full, i) >= p.amount <=> paidOf[i] = a
    BY <1>1, <1>5
  <2> QED
    BY <1>1, <2>1 DEF PaidUp
<1>7. \A i \in PaidUp(p, received, full) : PaidOf(p, received, full, i) = p.amount
  BY <1>1, <1>5, <1>6
<1>8. CASE full = n
  <2>1. {i \in 1..n : paidOf[i] = a} = 1..full
    BY <1>3, <1>5, <1>8
  <2> QED
    BY <1>1, <1>3, <1>6, <1>7, <2>1
<1>9. CASE full # n
  <2>1. full < n /\ a > 0 /\ last \in 1..n /\ last > full
    BY <1>3, <1>5, <1>9
  <2>2. CASE paidOf[last] = a
    <3>1. {i \in 1..n : paidOf[i] = a} = (1..full) \cup {last}
      BY <1>3, <1>5, <2>1, <2>2
    <3>2. v - full * a = a
      BY <1>5, <2>1, <2>2
    <3>3. v = full * a + a
      <4>1. full * a \in Int
        BY <1>3
      <4> QED
        BY <3>2, <4>1
    <3>4. full < Max(CountsFor(p, received))
      BY <1>1, <1>2, <2>1, <3>3, CountsCover
    <3> QED
      BY <1>1, <1>3, <1>4, <1>6, <1>7, <2>1, <3>1, <3>4
  <2>3. CASE paidOf[last] # a
    <3>1. {i \in 1..n : paidOf[i] = a} = 1..full
      BY <1>3, <1>5, <2>1, <2>3
    <3> QED
      BY <1>1, <1>3, <1>6, <1>7, <3>1
  <2> QED
    BY <2>2, <2>3
<1> QED
  BY <1>8, <1>9

\* What the instalments lack, all together.
Lacking(p, received, full) ==
    SumFunctionOnSet([i \in 1..p.count |-> p.amount - PaidOf(p, received, full, i)], 1..p.count)

LEMMA LackingIs ==
    ASSUME NEW p, NEW received \in Nat, p.amount \in Nat, p.count \in Nat \ {0},
           p.initial \in Nat, NEW full \in CountsFor(p, received)
    PROVE  Lacking(p, received, full) = IF full = p.count THEN 0
                                        ELSE p.count * p.amount - Available(p, received)
<1>1. PICK a \in Nat, n \in Nat \ {0} : a = p.amount /\ n = p.count
  OBVIOUS
<1>2. PICK v \in Nat : v = Available(p, received) /\ Covers(n, a, v, full)
  BY <1>1, CountsCover
<1>3. full \in 0..n
  BY <1>2 DEF Covers
<1>4. PICK last : last = TakesLeftover(p, full)
  OBVIOUS
<1> DEFINE f == [i \in 1..n |-> a - PaidOf(p, received, full, i)]
<1>5. /\ \A i \in 1..n : f[i] \in Int
      /\ \A i \in 1..n : i <= full => f[i] = 0
      /\ \A i \in 1..n : i > full /\ i # last => f[i] = a
  BY <1>1, <1>4, PaidOfIs
<1>6. full < n => last \in 1..n /\ last > full /\ f[last] = a - (v - full * a)
  BY <1>1, <1>2, <1>4, PaidOfIs
<1>7. Lacking(p, received, full) = SumFunctionOnSet(f, 1..n)
  BY <1>1 DEF Lacking
<1> HIDE DEF f
<1> DEFINE T == (full + 1)..n
<1>8. SumFunctionOnSet(f, 1..n) = SumFunctionOnSet(f, T)
  <2>1. T \in SUBSET (1..n) /\ \A i \in (1..n) \ T : f[i] = 0
    BY <1>3, <1>5
  <2>2. IsFiniteSet(1..n)
    BY FS_Interval
  <2> HIDE DEF T
  <2> QED
    BY <1>5, <2>1, <2>2, SumOutside
<1>9. CASE full = n
  <2>1. T = {}
    BY <1>9
  <2> QED
    BY <1>1, <1>7, <1>8, <1>9, <2>1, SumEmpty
<1>10. CASE full # n
  <2>1. full < n /\ last \in T /\ T \in SUBSET (1..n)
    BY <1>3, <1>6, <1>10
  <2>2. IsFiniteSet(T) /\ Cardinality(T) = n - full
    <3>1. PICK j \in Int : j = full + 1 /\ ~(j > n) /\ n - j + 1 = n - full
      BY <1>3, <2>1
    <3>2. j \in Int /\ n \in Int
      BY <3>1
    <3>3. IsFiniteSet(j..n) /\ Cardinality(j..n) = IF j > n THEN 0 ELSE n - j + 1
      BY Zenon, <3>2, FS_Interval
    <3> QED
      BY <3>1, <3>3
  <2>3. \A i \in T \ {last} : f[i] = a
    BY <1>3, <1>5
  <2>4. \A i \in T : f[i] \in Int
    BY <1>5, <2>1
  <2> HIDE DEF T
  <2>5. IsFiniteSet(T \ {last}) /\ Cardinality(T \ {last}) = n - full - 1
    <3>1. IsFiniteSet(T \ {last}) /\ Cardinality(T \ {last}) = Cardinality(T) - 1
      BY <2>1, <2>2, FS_RemoveElement
    <3> QED
      BY <2>2, <3>1
  <2>6. SumFunctionOnSet(f, T) = f[last] + SumFunctionOnSet(f, T \ {last})
    <3>1. PICK U, g, x : U = T /\ g = f /\ x = last
      OBVIOUS
    <3>2. IsFiniteSet(U) /\ x \in U /\ (\A y \in U : g[y] \in Int)
      BY <2>1, <2>2, <2>4, <3>1
    <3>3. SumFunctionOnSet(g, U) = g[x] + SumFunctionOnSet(g, U \ {x})
      BY <3>2, SumRemove
    <3> QED
      BY <3>1, <3>3
  <2>7. SumFunctionOnSet(f, T \ {last}) = (n - full - 1) * a
    BY <2>3, <2>5, SumConstant
  <2>8. (a - (v - full * a)) + (n - full - 1) * a = n * a - v
    BY <1>3, SMT
  <2> QED
    BY <1>1, <1>2, <1>6, <1>7, <1>8, <1>10, <2>1, <2>6, <2>7, <2>8
<1> QED
  BY <1>9, <1>10

-----------------------------------------------------------------------------
(* Instalments of a rounded quotient.                                      *)

LEMMA Rounded ==
    ASSUME NEW d \in Nat, NEW n \in Nat \ {0}
    PROVE  /\ Instalment(d, n) \in Nat
           /\ 2 * (n * Instalment(d, n)) <= 2 * d + n
           /\ 2 * d < 2 * (n * Instalment(d, n)) + n
<1>1. PICK x \in Nat, y \in Nat \ {0} : x = 2 * d + n /\ y = 2 * n
  OBVIOUS
<1>2. PICK q \in Nat : q = x \div y /\ q * y <= x /\ x < q * y + y
  BY Quotient
<1>3. Instalment(d, n) = q
  BY <1>1, <1>2 DEF Instalment
<1>4. PICK t \in Nat : t = n * q
  OBVIOUS
<1>5. q * y = 2 * t
  BY <1>1, <1>4
<1> QED
  BY <1>1, <1>2, <1>3, <1>4, <1>5

LEMMA LackingNearDebt ==
    ASSUME NEW p, NEW received \in Nat, p.total \in Nat, p.count \in Nat \ {0},
           p.initial \in Nat, p.initial <= p.total,
           p.amount = Instalment(p.total - p.initial, p.count),
           p.initial <= received, received <= p.total,
           NEW full \in CountsFor(p, received)
    PROVE  /\ Lacking(p, received, full) \in Int
           /\ 2 * (Lacking(p, received, full) - (p.total - received)) <= p.count
           /\ 2 * ((p.total - received) - Lacking(p, received, full)) <= p.count
<1>1. PICK a \in Nat, n \in Nat \ {0}, d \in Nat :
          /\ a = p.amount /\ n = p.count /\ d = p.total - p.initial
          /\ 2 * (n * a) <= 2 * d + n /\ 2 * d < 2 * (n * a) + n
  <2>1. p.total - p.initial \in Nat
    OBVIOUS
  <2>2. PICK d \in Nat, n \in Nat \ {0} : d = p.total - p.initial /\ n = p.count
    BY <2>1
  <2>3. p.amount = Instalment(d, n)
    BY <2>2
  <2> QED
    BY <2>2, <2>3, Rounded
<1>2. PICK v \in Nat : v = received - p.initial
  OBVIOUS
<1>3. Available(p, received) = v
  <2>1. Max({0, v}) = v
    BY MaxOfTwo
  <2> QED
    BY <1>2, <2>1 DEF Available
<1>4. Covers(n, a, v, full)
  BY <1>1, <1>3, CountsCover
<1>5. Lacking(p, received, full) = IF full = n THEN 0 ELSE n * a - v
  BY <1>1, <1>3, LackingIs
<1>6. PICK t \in Nat : t = n * a
  OBVIOUS
<1>7. p.total - received = d - v /\ v <= d
  BY <1>1, <1>2
<1>8. full = n => t <= v
  BY <1>4, <1>6 DEF Covers
<1>9. PICK l \in Int : l = Lacking(p, received, full) /\ l = IF full = n THEN 0 ELSE t - v
  <2>1. Lacking(p, received, full) = IF full = n THEN 0 ELSE t - v
    BY <1>5, <1>6
  <2>2. (IF full = n THEN 0 ELSE t - v) \in Int
    OBVIOUS
  <2> QED
    BY Zenon, <2>1, <2>2
<1>10. 2 * t <= 2 * d + n /\ 2 * d < 2 * t + n
  BY <1>1, <1>6
<1>11. 2 * (l - (d - v)) <= n /\ 2 * ((d - v) - l) <= n
  BY <1>7, <1>8, <1>9, <1>10
<1> QED
  BY <1>1, <1>7, <1>9, <1>11

-----------------------------------------------------------------------------
(* The lines of a schedule and what the lists keep of them.                *)

\* A plan that a schedule can be laid out from.
Readable(p) == /\ p.total \in Nat /\ p.initial \in Nat /\ p.amount \in Nat
               /\ Datable(p)

LEMMA CountsOfIs ==
    \A s : CountsOf(s) = CountsFor(plan[s], paid[s])
  BY DEF CountsOf, CountsFor

LEMMA Upto == \A n \in Nat : IsFiniteSet(1..n) /\ Cardinality(1..n) = n
<1> SUFFICES ASSUME NEW n \in Nat PROVE IsFiniteSet(1..n) /\ Cardinality(1..n) = n
  OBVIOUS
<1>1. IsFiniteSet(1..n) /\ Cardinality(1..n) = IF 1 > n THEN 0 ELSE n - 1 + 1
  BY FS_Interval
<1> QED
  BY <1>1

LEMMA ImageCardinality ==
    ASSUME NEW h, NEW S, IsFiniteSet(S), \A x, y \in S : h[x] = h[y] => x = y
    PROVE  /\ IsFiniteSet({h[x] : x \in S})
           /\ Cardinality({h[x] : x \in S}) = Cardinality(S)
<1> DEFINE T == {h[x] : x \in S}
           f == [x \in S |-> h[x]]
<1>1. f \in Bijection(S, T)
  BY DEF Bijection, Injection, Surjection, IsInjective
<1>2. ExistsBijection(S, T)
  BY <1>1 DEF ExistsBijection
<1> HIDE DEF T
<1>3. IsFiniteSet(T) /\ Cardinality(T) = Cardinality(S)
  BY <1>2, FS_Bijection
<1> QED
  BY <1>3 DEF T

\* An unpaid line is one of an instalment that has not been paid in full.
LinesSplit(s, due, full, today) ==
    LET p == plan[s]
        lines == Lines(s, due, full, today)
        h == [i \in 1..p.count |-> Line(s, due, full, i, today)]
        up == PaidUp(p, paid[s], full)
    IN /\ lines = {h[i] : i \in 1..p.count}
       /\ Unpaid(lines) = {h[i] : i \in (1..p.count) \ up}
       /\ lines \ Unpaid(lines) = {h[i] : i \in up}
       /\ \A i \in 1..p.count :
              /\ h[i].index = i /\ h[i].due = due[i]
              /\ h[i].remaining = p.amount - PaidOf(p, paid[s], full, i)
       /\ \A i, j \in 1..p.count : h[i] = h[j] => i = j

LEMMA LinesAre ==
    ASSUME NEW s, NEW due, NEW full, NEW today
    PROVE  LinesSplit(s, due, full, today)
<1> DEFINE p == plan[s]
           lines == Lines(s, due, full, today)
           h == [i \in 1..p.count |-> Line(s, due, full, i, today)]
           up == PaidUp(p, paid[s], full)
<1>1. lines = {h[i] : i \in 1..p.count}
  BY DEF Lines
<1>2. \A i \in 1..p.count :
          /\ h[i].index = i /\ h[i].due = due[i]
          /\ h[i].remaining = p.amount - PaidOf(p, paid[s], full, i)
          /\ h[i].status = InstalmentStatus(p, paid[s], full, i, due[i], today)
  BY DEF Line
<1>3. \A i \in 1..p.count : h[i].status = "PAID" <=> i \in up
  <2> SUFFICES ASSUME NEW i \in 1..p.count PROVE h[i].status = "PAID" <=> i \in up
    OBVIOUS
  <2>1. h[i].status = InstalmentStatus(p, paid[s], full, i, due[i], today)
    BY <1>2
  <2>2. InstalmentStatus(p, paid[s], full, i, due[i], today) = "PAID"
            <=> PaidOf(p, paid[s], full, i) >= p.amount
    BY DEF InstalmentStatus
  <2> HIDE DEF h
  <2> QED
    BY <2>1, <2>2 DEF PaidUp
<1>4. up \subseteq 1..p.count
  BY DEF PaidUp
<1> HIDE DEF h, up, lines
<1>5. \A i, j \in 1..p.count : h[i] = h[j] => i = j
  BY <1>2
<1>6. Unpaid(lines) = {h[i] : i \in (1..p.count) \ up}
  BY <1>1, <1>3 DEF Unpaid
<1>7. lines \ Unpaid(lines) = {h[i] : i \in up}
  BY <1>1, <1>3, <1>4 DEF Unpaid
<1> QED
  BY <1>1, <1>2, <1>5, <1>6, <1>7 DEF LinesSplit, h, up, lines

\* Over all the months the summaries show the lines that are not paid.
LEMMA MonthsShowUnpaid ==
    ASSUME NEW lines
    PROVE  UNION {MonthCollections(lines, m) : m \in MonthsOf(lines)} = Unpaid(lines)
  BY DEF MonthCollections, MonthsOf, DueIn, Unpaid

LEMMA UnpaidComesToLacking ==
    ASSUME NEW s, Readable(plan[s]), plan[s].count # 0, paid[s] \in Nat,
           NEW full \in CountsOf(s), NEW due, NEW today
    PROVE  LET shown == Unpaid(Lines(s, due, full, today)) IN
           SumFunctionOnSet([l \in shown |-> l.remaining], shown)
               = Lacking(plan[s], paid[s], full)
<1> DEFINE p == plan[s]
           received == paid[s]
<1>2. /\ p.amount \in Nat /\ p.count \in Nat \ {0} /\ p.initial \in Nat
      /\ full \in CountsFor(p, received)
  BY CountsOfIs DEF Readable, Datable
<1> DEFINE n == p.count
           h == [i \in 1..n |-> Line(s, due, full, i, today)]
           g == [i \in 1..n |-> p.amount - PaidOf(p, received, full, i)]
           shown == Unpaid(Lines(s, due, full, today))
           U == (1..n) \ PaidUp(p, received, full)
           f == [l \in shown |-> l.remaining]
<1>3. /\ shown = {h[i] : i \in U}
      /\ \A i \in 1..n : h[i].remaining = g[i]
      /\ \A i, j \in 1..n : h[i] = h[j] => i = j
  <2>0. LinesSplit(s, due, full, today)
    BY LinesAre
  <2>1. /\ shown = {h[i] : i \in U}
        /\ \A i, j \in 1..n : h[i] = h[j] => i = j
    BY <2>0 DEF LinesSplit
  <2>2. \A i \in 1..n : h[i].remaining = p.amount - PaidOf(p, received, full, i)
    BY <2>0 DEF LinesSplit
  <2> HIDE DEF h, shown, U, f
  <2>3. \A i \in 1..n : h[i].remaining = g[i]
    BY <2>2
  <2> QED
    BY <2>1, <2>3
<1>4. \A i \in 1..n : g[i] \in Int
  BY <1>2, PaidOfIs
<1>5. \A i \in (1..n) \ U : g[i] = 0
  <2>1. \A i \in PaidUp(p, received, full) : PaidOf(p, received, full, i) = p.amount
    BY <1>2, PaidUpIs
  <2> QED
    BY <1>2, <2>1
<1>6. U \in SUBSET (1..n) /\ IsFiniteSet(1..n) /\ IsFiniteSet(U)
  <2>1. IsFiniteSet(1..n)
    BY <1>2, Upto
  <2>2. U \in SUBSET (1..n)
    OBVIOUS
  <2> HIDE DEF U
  <2> QED
    BY <2>1, <2>2, FS_Subset
<1>7. SumFunctionOnSet(g, 1..n) = Lacking(p, received, full)
  BY DEF Lacking
<1>8. \A i \in U : f[h[i]] = g[i]
  <2> SUFFICES ASSUME NEW i \in U PROVE f[h[i]] = g[i]
    OBVIOUS
  <2>1. h[i] \in shown /\ i \in 1..n
    BY <1>3, <1>6
  <2> HIDE DEF h, g, U, shown
  <2> QED
    BY <1>3, <2>1
<1> HIDE DEF h, g, U, shown, f
<1>9. SumFunctionOnSet(g, 1..n) = SumFunctionOnSet(g, U)
  BY <1>4, <1>5, <1>6, SumOutside
<1>10. SumFunctionOnSet(f, {h[i] : i \in U}) = SumFunctionOnSet(g, U)
  <2>1. \A x, y \in U : h[x] = h[y] => x = y
    BY <1>3, <1>6
  <2>2. \A x \in U : g[x] \in Int /\ f[h[x]] = g[x]
    BY <1>4, <1>6, <1>8
  <2> QED
    <3>1. PICK V, k, v, w : V = U /\ k = h /\ v = g /\ w = f
      OBVIOUS
    <3>2. /\ IsFiniteSet(V) /\ (\A x, y \in V : k[x] = k[y] => x = y)
          /\ \A x \in V : v[x] \in Int /\ w[k[x]] = v[x]
      BY <1>6, <2>1, <2>2, <3>1
    <3>3. SumFunctionOnSet(w, {k[x] : x \in V}) = SumFunctionOnSet(v, V)
      BY <3>2, SumImage
    <3> QED
      BY <3>1, <3>3
<1> QED
  BY <1>3, <1>7, <1>9, <1>10 DEF f, shown

\* The indices of the unpaid lines and how many are paid.
LEMMA NextUnpaid ==
    ASSUME NEW p, NEW received \in Nat, p.amount \in Nat, p.count \in Nat \ {0},
           p.initial \in Nat, NEW full \in CountsFor(p, received)
    PROVE  LET up == PaidUp(p, received, full) IN
           /\ IsFiniteSet(up) /\ up \in SUBSET (1..p.count)
           /\ Cardinality(up) \in 0..p.count
           /\ Cardinality(up) = p.count <=> (1..p.count) \ up = {}
           /\ \A i \in (1..p.count) \ up : (\A j \in (1..p.count) \ up : i <= j) =>
                  \/ i = Cardinality(up) + 1
                  \/ i = Cardinality(up) /\ full < Max(CountsFor(p, received))
<1> DEFINE up == PaidUp(p, received, full)
<1>1. PICK n \in Nat \ {0} : n = p.count
  OBVIOUS
<1>2. IsFiniteSet(1..n) /\ Cardinality(1..n) = n
  BY Upto
<1>3. up \in SUBSET (1..n)
  BY <1>1 DEF PaidUp
<1>4. PICK c \in Nat : c = Cardinality(up) /\ c <= n /\ IsFiniteSet(up) /\ (c = n => up = 1..n)
  <2> HIDE DEF up
  <2>1. IsFiniteSet(up) /\ Cardinality(up) <= n /\ (n = Cardinality(up) => up = 1..n)
    BY <1>2, <1>3, FS_Subset
  <2>2. Cardinality(up) \in Nat
    BY <2>1, FS_CardinalityType
  <2> QED
    BY <2>1, <2>2
<1>5. c = n <=> (1..n) \ up = {}
  <2>1. (1..n) \ up = {} => up = 1..n
    BY <1>3
  <2> HIDE DEF up
  <2> QED
    BY <1>2, <1>4, <2>1
<1>6. full \in 0..n
  BY <1>1, PaidUpIs
<1>7. IsFiniteSet(1..full) /\ Cardinality(1..full) = full
  BY <1>6, Upto
<1>8. ASSUME NEW i \in (1..n) \ up, \A j \in (1..n) \ up : i <= j
      PROVE  \/ i = c + 1
             \/ i = c /\ full < Max(CountsFor(p, received))
  <2>1. CASE up = 1..full
    <3>1. c = full
      BY <1>4, <1>7, <2>1
    <3>2. full + 1 <= i /\ full + 1 \in 1..n
      BY <1>6, <1>8, <2>1
    <3>3. full + 1 \in (1..n) \ up
      BY <1>6, <2>1, <3>2
    <3>4. i <= full + 1
      BY <1>8, <3>3
    <3> QED
      BY <1>6, <3>1, <3>2, <3>4
  <2>2. CASE /\ full < n /\ full < Max(CountsFor(p, received))
             /\ up = (1..full) \cup {TakesLeftover(p, full)}
    <3>1. PICK last \in 1..n : /\ last = TakesLeftover(p, full) /\ last > full
                               /\ last = IF full = 0 THEN 1 ELSE n
      BY <1>1, <1>6, <2>2 DEF TakesLeftover
    <3>2. c = full + 1
      <4>1. last \notin 1..full
        BY <1>6, <3>1
      <4>2. Cardinality((1..full) \cup {last}) = Cardinality(1..full) + 1
        BY <1>7, <4>1, FS_AddElement
      <4> QED
        BY <1>4, <1>7, <2>2, <3>1, <4>2
    <3>3. up = (1..full) \cup {last}
      BY <2>2, <3>1
    <3>4. CASE full = 0
      <4>1. up = {1} /\ c = 1
        BY <3>1, <3>2, <3>3, <3>4
      <4>2. i # 1 /\ 2 <= i /\ 2 <= n
        BY <1>8, <4>1
      <4>3. 2 \in (1..n) \ up
        BY <4>1, <4>2
      <4>4. i <= 2
        BY <1>8, <4>3
      <4> QED
        BY <4>1, <4>2, <4>4
    <3>5. CASE full # 0
      <4>1. last = n /\ up = (1..full) \cup {n}
        BY <3>1, <3>3, <3>5
      <4>2. full + 1 <= i /\ i < n
        BY <1>6, <1>8, <4>1
      <4>3. full + 1 \in (1..n) \ up
        BY <1>6, <4>1, <4>2
      <4>4. i <= full + 1
        BY <1>8, <4>3
      <4> QED
        BY <1>6, <2>2, <3>2, <4>2, <4>4
    <3> QED
      BY <3>4, <3>5
  <2> QED
    BY <1>1, <2>1, <2>2, PaidUpIs
<1> HIDE DEF up
<1> QED
  BY <1>1, <1>3, <1>4, <1>5, <1>8 DEF up

-----------------------------------------------------------------------------
(* The inductive invariant.                                                *)

SellerStates == [pc : {"rest", "sell", "edit"}, sale : CreditSales \cup {NoCreditSale},
                 row : PlanRows, edit : SUBSET EditBodies, seen : SUBSET CreditSales]

PlansTyped ==
    /\ plan \in [CreditSales -> PlanRows] /\ paid \in [CreditSales -> Nat]
    /\ limit \in Limits /\ seller \in [Sellers -> SellerStates]
    /\ planSteps \in 0..MaxPlanSteps
    /\ crossed \in SUBSET CreditSales /\ redated \in SUBSET CreditSales
    /\ strained \in BOOLEAN

\* What the DTOs let into a row, and what no later edit takes away.
GoodRow(p) == /\ p.day \in 0..31 /\ p.day2 \in 0..31
              /\ p.count = 0 <=> p.frequency = "NONE"
              /\ p.total > 0 => p.initial < p.total

\* The instalment is that of the other columns, and a weekly plan has a day
\* of the week.
RowAgrees(p) == p.count > 0 => p.amount = Instalment(p.total - p.initial, p.count)
WeekdayGiven(p) == p.frequency = "WEEKLY" => p.day \in 0..7

SalesKept ==
    \A s \in CreditSales :
        /\ GoodRow(plan[s]) /\ paid[s] <= plan[s].total
        /\ s \notin crossed => RowAgrees(plan[s])
        /\ s \notin redated => WeekdayGiven(plan[s])

Selling(c) ==
    LET p == seller[c].row IN
    /\ seller[c].sale \in CreditSales /\ plan[seller[c].sale].total = 0
    /\ \A d \in Sellers \ {c} : seller[d].sale # seller[c].sale
    /\ p.total > 0 /\ GoodRow(p) /\ RowAgrees(p) /\ WeekdayGiven(p)
    /\ seller[c].seen \subseteq Made
    /\ ~strained /\ seller[c].seen = Made => Balance + p.total <= limit

\* What an edit was checked against when it read the row.
EditChecked(e, p) ==
    /\ EditAccepted(e)
    /\ PlanChanged(e) => Given(e.count, p.count) > 0 /\ Given(e.initial, p.initial) < p.total

Editing(c) ==
    /\ seller[c].sale \in Made
    /\ seller[c].row.total = plan[seller[c].sale].total
    /\ \A e \in seller[c].edit : EditChecked(e, seller[c].row)

SellersKept ==
    \A c \in Sellers :
        /\ seller[c].pc = "sell" => Selling(c)
        /\ seller[c].pc = "edit" => Editing(c)

PlansInv == PlansTyped /\ SalesKept /\ SellersKept /\ LimitKept

-----------------------------------------------------------------------------
(* What the invariant says of the schedules and the lists.                 *)

LEMMA RowsReadable ==
    ASSUME PlansTyped, SalesKept, NEW s \in CreditSales
    PROVE  /\ Readable(plan[s]) /\ paid[s] \in Nat /\ paid[s] <= plan[s].total
           /\ plan[s].total > 0 => plan[s].initial < plan[s].total
           /\ s \notin redated => LaidOut(plan[s])
<1>1. PICK p \in PlanRows : p = plan[s]
  BY DEF PlansTyped
<1>2. GoodRow(p) /\ (s \notin redated => WeekdayGiven(p))
  BY <1>1 DEF SalesKept
<1>3. Readable(p)
  BY <1>2 DEF PlanRows, Readable, Datable, GoodRow
<1>4. s \notin redated => LaidOut(p)
  BY <1>2 DEF WeekdayGiven, LaidOut, WeekdayOf, Null
<1> QED
  BY <1>1, <1>2, <1>3, <1>4 DEF PlansTyped, SalesKept, GoodRow

LEMMA BalanceInt ==
    ASSUME CreditPlansAssumption, PlansTyped
    PROVE  Balance \in Int /\ limit \in Int
<1>1. \A s \in CreditSales : [t \in CreditSales |-> Owed(t)][s] \in Int
  BY DEF PlansTyped, Owed, PlanRows
<1>2. Balance \in Int
  <2> DEFINE f == [t \in CreditSales |-> Owed(t)]
  <2> HIDE DEF f
  <2>1. SumFunctionOnSet(f, CreditSales) \in Int
    BY <1>1, SumInt DEF CreditPlansAssumption, f
  <2> QED
    BY <2>1 DEF Balance, f
<1> QED
  BY <1>2 DEF PlansTyped, CreditPlansAssumption

LEMMA RemainingFollows ==
    ASSUME PlansTyped, SalesKept
    PROVE  RemainingMatchesDebt
<1> SUFFICES ASSUME NEW s \in Collected \ crossed, paid[s] >= plan[s].initial,
                    NEW full \in CountsOf(s)
             PROVE  /\ 2 * (Lacking(plan[s], paid[s], full) - Owed(s)) <= plan[s].count
                    /\ 2 * (Owed(s) - Lacking(plan[s], paid[s], full)) <= plan[s].count
  BY DEF RemainingMatchesDebt, Lacking
<1>1. s \in CreditSales /\ plan[s].total > 0 /\ plan[s].count > 0
  BY DEF Collected, Made
<1>2. PICK p \in PlanRows : p = plan[s]
  BY <1>1 DEF PlansTyped
<1>3. PICK received \in Nat : received = paid[s]
  BY <1>1 DEF PlansTyped
<1>4. /\ p.total \in Nat /\ p.count \in Nat \ {0} /\ p.initial \in Nat /\ p.amount \in Nat
      /\ p.initial <= p.total /\ received <= p.total /\ p.initial <= received
      /\ p.amount = Instalment(p.total - p.initial, p.count)
  BY <1>1, <1>2, <1>3 DEF PlanRows, SalesKept, GoodRow, RowAgrees
<1>5. full \in CountsFor(p, received)
  BY <1>2, <1>3, CountsOfIs
<1>6. /\ 2 * (Lacking(p, received, full) - (p.total - received)) <= p.count
      /\ 2 * ((p.total - received) - Lacking(p, received, full)) <= p.count
  BY <1>4, <1>5, LackingNearDebt
<1> QED
  BY <1>2, <1>3, <1>6 DEF Owed

LEMMA DatesFollow ==
    ASSUME PlansTyped, SalesKept
    PROVE  DueInOrder
<1> SUFFICES ASSUME NEW s \in Collected
             PROVE  LET p == plan[s]
                        due == DueDates(p)
                    IN /\ s \notin redated => LaidOut(p)
                       /\ LaidOut(p) /\ (p.frequency = "WEEKLY" \/ CommonDays(p)) =>
                              /\ \A i \in 1..p.count : due[i] > p.soldOn
                              /\ \A i \in 2..p.count : due[i - 1] < due[i]
                              /\ \A full \in CountsOf(s) \ {p.count} : \A i \in 1..p.count :
                                     InstalmentStatus(p, paid[s], full, i, due[i], due[full + 1])
                                         # "OVERDUE"
  BY DEF DueInOrder
<1>1. s \in CreditSales /\ plan[s].total > 0 /\ plan[s].count > 0
  BY DEF Collected, Made
<1>2. PICK p : p = plan[s]
  OBVIOUS
<1>3. PICK received \in Nat : received = paid[s]
  BY <1>1 DEF PlansTyped
<1>4. Readable(p) /\ p.count \in Nat \ {0} /\ (s \notin redated => LaidOut(p))
  BY <1>1, <1>2, RowsReadable DEF Readable, Datable
<1>5. PICK due : due = DueDates(p)
  OBVIOUS
<1>6. ASSUME LaidOut(p), p.frequency = "WEEKLY" \/ CommonDays(p)
      PROVE  /\ \A i \in 1..p.count : due[i] > p.soldOn
             /\ \A i \in 2..p.count : due[i - 1] < due[i]
             /\ \A full \in CountsOf(s) \ {p.count} : \A i \in 1..p.count :
                    InstalmentStatus(p, received, full, i, due[i], due[full + 1]) # "OVERDUE"
  <2>1. /\ \A i \in 1..p.count : due[i] \in Int /\ due[i] > p.soldOn
        /\ \A i, j \in 1..p.count : i < j => due[i] < due[j]
    BY <1>4, <1>5, <1>6, DatesInOrder DEF Readable
  <2>2. PICK n \in Nat \ {0} : n = p.count
    BY <1>4
  <2>3. \A i \in 2..n : due[i - 1] < due[i]
    <3> SUFFICES ASSUME NEW i \in 2..n PROVE due[i - 1] < due[i]
      OBVIOUS
    <3>1. i - 1 \in 1..n /\ i \in 1..n /\ i - 1 < i
      OBVIOUS
    <3> QED
      BY <2>1, <2>2, <3>1
  <2>4. ASSUME NEW full \in CountsOf(s), full # n, NEW i \in 1..n
        PROVE  InstalmentStatus(p, received, full, i, due[i], due[full + 1]) # "OVERDUE"
    <3>1. full \in CountsFor(p, received)
      BY <1>2, <1>3, CountsOfIs
    <3>2. full \in 0..n
      BY <1>4, <2>2, <3>1, PaidUpIs DEF Readable
    <3>3. CASE i <= full
      <4>1. PaidOf(p, received, full, i) = p.amount
        BY <1>4, <2>2, <3>1, <3>3, PaidOfIs DEF Readable
      <4>2. PaidOf(p, received, full, i) >= p.amount
        BY <1>4, <4>1 DEF Readable
      <4> QED
        BY <4>2 DEF InstalmentStatus
    <3>4. CASE i > full
      <4>1. full + 1 \in 1..n /\ (full + 1 = i \/ full + 1 < i)
        BY <2>4, <3>2, <3>4
      <4>2. PICK x \in Int, y \in Int : x = due[i] /\ y = due[full + 1]
        BY <2>1, <2>2, <4>1
      <4>3. ~(x < y)
        BY <2>1, <2>2, <4>1, <4>2
      <4> QED
        BY <4>2, <4>3 DEF InstalmentStatus
    <3> QED
      BY <3>2, <3>3, <3>4
  <2> QED
    BY <2>1, <2>2, <2>3, <2>4
<1> QED
  BY <1>2, <1>3, <1>4, <1>5, <1>6

LEMMA MonthsFollow ==
    ASSUME PlansTyped, SalesKept
    PROVE  MonthsMatchDebt
<1> SUFFICES ASSUME NEW s \in OnDashboard \ crossed, LaidOut(plan[s]),
                    paid[s] >= plan[s].initial, NEW full \in CountsOf(s)
             PROVE  LET lines == Lines(s, DueDates(plan[s]), full, plan[s].soldOn)
                        shown == UNION {MonthCollections(lines, m) : m \in MonthsOf(lines)}
                        off == SumFunctionOnSet([l \in shown |-> l.remaining], shown) - Owed(s)
                    IN 2 * off <= plan[s].count /\ -2 * off <= plan[s].count
  BY DEF MonthsMatchDebt
<1> DEFINE lines == Lines(s, DueDates(plan[s]), full, plan[s].soldOn)
           shown == UNION {MonthCollections(lines, m) : m \in MonthsOf(lines)}
           sum == SumFunctionOnSet([l \in shown |-> l.remaining], shown)
<1>1. /\ s \in Collected \ crossed /\ s \in CreditSales
      /\ plan[s].total > 0 /\ plan[s].count > 0
  BY DEF OnDashboard, Collected, Made
<1>2. Readable(plan[s]) /\ paid[s] \in Nat /\ paid[s] <= plan[s].total
  BY <1>1, RowsReadable
<1>3. sum = Lacking(plan[s], paid[s], full)
  <2>1. shown = Unpaid(lines)
    BY MonthsShowUnpaid
  <2>2. SumFunctionOnSet([l \in Unpaid(lines) |-> l.remaining], Unpaid(lines))
            = Lacking(plan[s], paid[s], full)
    BY <1>1, <1>2, UnpaidComesToLacking
  <2> HIDE DEF lines
  <2> QED
    BY <2>1, <2>2
<1>4. /\ 2 * (Lacking(plan[s], paid[s], full) - Owed(s)) <= plan[s].count
      /\ 2 * (Owed(s) - Lacking(plan[s], paid[s], full)) <= plan[s].count
  BY <1>1, RemainingFollows DEF RemainingMatchesDebt, Lacking
<1>5. PICK x \in Int : x = Lacking(plan[s], paid[s], full)
  <2>1. /\ plan[s].amount \in Nat /\ plan[s].count \in Nat \ {0} /\ plan[s].initial \in Nat
        /\ full \in CountsFor(plan[s], paid[s])
    BY <1>1, <1>2, CountsOfIs DEF Readable, Datable
  <2>2. /\ Lacking(plan[s], paid[s], full) = IF full = plan[s].count THEN 0
              ELSE plan[s].count * plan[s].amount - Available(plan[s], paid[s])
        /\ Available(plan[s], paid[s]) \in Nat
    BY <1>2, <2>1, LackingIs, CountsCover
  <2>3. Lacking(plan[s], paid[s], full) \in Int
    BY <2>1, <2>2
  <2> QED
    BY <2>3
<1>6. PICK y \in Int, n \in Nat : y = Owed(s) /\ n = plan[s].count
  BY <1>2 DEF Owed, Readable, Datable
<1>7. 2 * (x - y) <= n /\ -2 * (x - y) <= n
  BY <1>4, <1>5, <1>6
<1> HIDE DEF sum
<1>8. 2 * (sum - Owed(s)) <= plan[s].count /\ -2 * (sum - Owed(s)) <= plan[s].count
  BY <1>3, <1>5, <1>6, <1>7
<1> QED
  BY <1>8 DEF sum

\* One line on one day is on the lists that it should be on.
OnItsLists(line, due, today) ==
    LET unpaid == Unpaid(line)
        overdue == {l \in unpaid : l.status = "OVERDUE"}
        later == {l \in unpaid : l.due > today + 30}
        month == MonthOf(due)
    IN /\ unpaid = overdue \cup later \cup Upcoming(line, today)
       /\ Upcoming(line, today) \cap (overdue \cup later) = {}
       /\ MonthCollections(line, month) =
              UNION {CollectionsOf(line, month, x) : x \in {"PENDING", "PARTIAL", "OVERDUE"}}

LEMMA LineShown ==
    ASSUME NEW l, NEW today \in Int, l.due \in Int,
           l.status \in {"PAID", "OVERDUE", "PARTIAL", "PENDING"},
           l.status \in {"PARTIAL", "PENDING"} => today <= l.due
    PROVE  OnItsLists({l}, l.due, today)
<1> USE DEF OnItsLists
<1>1. \A S \in SUBSET {l} : DueIn(S, MonthOf(l.due)) = S
  BY DEF DueIn
<1>2. MonthCollections({l}, MonthOf(l.due)) =
          UNION {CollectionsOf({l}, MonthOf(l.due), x) : x \in {"PENDING", "PARTIAL", "OVERDUE"}}
  <2> DEFINE Of(x) == CollectionsOf({l}, MonthOf(l.due), x)
  <2>1. /\ Of("PENDING") = {k \in {l} : k.status = "PENDING"}
        /\ Of("PARTIAL") = {k \in {l} : k.status = "PARTIAL"}
        /\ Of("OVERDUE") = {k \in {l} : k.status = "OVERDUE"}
    BY <1>1 DEF CollectionsOf
  <2>2. MonthCollections({l}, MonthOf(l.due)) = {k \in {l} : k.status # "PAID"}
    BY <1>1 DEF MonthCollections, Unpaid
  <2>3. UNION {Of(x) : x \in {"PENDING", "PARTIAL", "OVERDUE"}}
            = Of("PENDING") \cup Of("PARTIAL") \cup Of("OVERDUE")
    OBVIOUS
  <2>4. {k \in {l} : k.status # "PAID"} = {k \in {l} : k.status = "PENDING"} \cup
            {k \in {l} : k.status = "PARTIAL"} \cup {k \in {l} : k.status = "OVERDUE"}
    OBVIOUS
  <2> HIDE DEF Of
  <2>5. MonthCollections({l}, MonthOf(l.due))
            = UNION {Of(x) : x \in {"PENDING", "PARTIAL", "OVERDUE"}}
    BY <2>1, <2>2, <2>3, <2>4
  <2> QED
    BY <2>5 DEF Of
<1>3. CASE l.status = "PAID"
  <2>1. Unpaid({l}) = {} /\ Upcoming({l}, today) = {}
    BY <1>3 DEF Unpaid, Upcoming
  <2> QED
    BY <1>2, <2>1
<1>4. CASE l.status = "OVERDUE"
  <2>1. Unpaid({l}) = {l} /\ Upcoming({l}, today) = {}
    BY <1>4 DEF Unpaid, Upcoming
  <2> QED
    BY <1>2, <1>4, <2>1
<1>5. CASE l.status \in {"PARTIAL", "PENDING"}
  <2>1. Unpaid({l}) = {l} /\ l.status # "OVERDUE" /\ today <= l.due
    BY <1>5 DEF Unpaid
  <2>2. CASE l.due > today + 30
    <3>1. Upcoming({l}, today) = {}
      BY <2>2 DEF Upcoming, Ahead
    <3> QED
      BY <1>2, <2>1, <2>2, <3>1
  <2>3. CASE ~(l.due > today + 30)
    <3>1. Upcoming({l}, today) = {l}
      BY <1>5, <2>1, <2>3 DEF Upcoming, Ahead
    <3> QED
      BY <1>2, <2>1, <2>3, <3>1
  <2> QED
    BY <2>2, <2>3
<1> QED
  BY <1>3, <1>4, <1>5

LEMMA ListsFollow ==
    ASSUME PlansTyped, SalesKept
    PROVE  ListsComplete
<1> SUFFICES ASSUME NEW s \in OnDashboard, LaidOut(plan[s]),
                    NEW full \in CountsOf(s), NEW i \in 1..plan[s].count,
                    NEW today \in Around(DueDates(plan[s])[i])
             PROVE  LET due == DueDates(plan[s]) IN
                    OnItsLists({Line(s, due, full, i, today)}, due[i], today)
  BY DEF ListsComplete, OnItsLists
<1>1. s \in CreditSales
  BY DEF OnDashboard, Collected, Made
<1>2. PICK due : due = DueDates(plan[s])
  OBVIOUS
<1>3. due[i] \in Int
  <2>1. Datable(plan[s])
    BY <1>1, RowsReadable DEF Readable
  <2> QED
    BY <1>2, <2>1, DatesInOrder
<1>4. today \in Int
  BY <1>2, <1>3 DEF Around, Ahead
<1>5. PICK l : l = Line(s, due, full, i, today)
  OBVIOUS
<1>6. l.due = due[i] /\ l.status = InstalmentStatus(plan[s], paid[s], full, i, due[i], today)
  BY <1>5 DEF Line
<1>7. /\ l.status \in {"PAID", "OVERDUE", "PARTIAL", "PENDING"}
      /\ l.status \in {"PARTIAL", "PENDING"} => today <= l.due
  <2>1. l.status = IF PaidOf(plan[s], paid[s], full, i) >= plan[s].amount THEN "PAID"
                   ELSE IF due[i] < today THEN "OVERDUE"
                   ELSE IF PaidOf(plan[s], paid[s], full, i) > 0 THEN "PARTIAL" ELSE "PENDING"
    BY <1>6 DEF InstalmentStatus
  <2>2. ~(due[i] < today) => today <= l.due
    BY <1>3, <1>4, <1>6
  <2> QED
    BY <2>1, <2>2
<1>8. l.due \in Int
  BY <1>3, <1>6
<1>9. OnItsLists({l}, l.due, today)
  BY <1>4, <1>7, <1>8, LineShown
<1> QED
  BY <1>2, <1>5, <1>6, <1>9

LEMMA StatementFollows ==
    ASSUME PlansTyped, SalesKept
    PROVE  StatementFollowsSchedule
<1> SUFFICES ASSUME NEW s \in Notified, LaidOut(plan[s]), NEW full \in CountsOf(s)
             PROVE  LET lines == Lines(s, DueDates(plan[s]), full, plan[s].soldOn)
                        told == Statement(lines)
                    IN /\ told.next = {} <=> told.paidCount = plan[s].count
                       /\ \A l \in told.next :
                              /\ \/ l.index = told.paidCount + 1
                                 \/ l.index = told.paidCount /\ full < Max(CountsOf(s))
                              /\ plan[s].frequency = "WEEKLY" \/ CommonDays(plan[s]) =>
                                     \A k \in Unpaid(lines) : l.due <= k.due
  BY DEF StatementFollowsSchedule
<1> DEFINE p == plan[s]
           due == DueDates(p)
           lines == Lines(s, due, full, p.soldOn)
           h == [i \in 1..p.count |-> Line(s, due, full, i, p.soldOn)]
           up == PaidUp(p, paid[s], full)
           told == Statement(lines)
           U == (1..p.count) \ up
<1>1. s \in CreditSales /\ p.count > 0
  BY DEF Notified, Collected, Made
<1>2. Readable(p) /\ paid[s] \in Nat /\ p.count \in Nat \ {0} /\ p.amount \in Nat
      /\ p.initial \in Nat /\ Datable(p)
  BY <1>1, RowsReadable DEF Readable, Datable
<1>3. full \in CountsFor(p, paid[s]) /\ CountsOf(s) = CountsFor(p, paid[s])
  BY CountsOfIs
<1>4. LinesSplit(s, due, full, p.soldOn)
  BY LinesAre
<1>5. /\ Unpaid(lines) = {h[i] : i \in U} /\ lines \ Unpaid(lines) = {h[i] : i \in up}
      /\ \A i, j \in 1..p.count : h[i] = h[j] => i = j
  BY <1>4 DEF LinesSplit
<1>6. \A i \in 1..p.count : h[i].index = i /\ h[i].due = due[i]
  BY <1>4 DEF LinesSplit
<1>7. /\ IsFiniteSet(up) /\ up \in SUBSET (1..p.count)
      /\ Cardinality(up) \in 0..p.count
      /\ Cardinality(up) = p.count <=> U = {}
      /\ \A i \in U : (\A j \in U : i <= j) =>
             \/ i = Cardinality(up) + 1
             \/ i = Cardinality(up) /\ full < Max(CountsFor(p, paid[s]))
  BY <1>2, <1>3, NextUnpaid
<1>8. /\ told.paidCount = Cardinality(lines \ Unpaid(lines))
      /\ told.next = {l \in Unpaid(lines) : \A k \in Unpaid(lines) : l.index <= k.index}
  BY DEF Statement
<1>9. p.frequency = "WEEKLY" \/ CommonDays(p) =>
          \A i, j \in 1..p.count : i <= j => due[i] <= due[j]
  <2>1. /\ \A i \in 1..p.count : due[i] \in Int
        /\ p.frequency = "WEEKLY" \/ CommonDays(p) =>
               \A i, j \in 1..p.count : i < j => due[i] < due[j]
    BY <1>2, DatesInOrder
  <2> HIDE DEF due
  <2> SUFFICES ASSUME p.frequency = "WEEKLY" \/ CommonDays(p),
                      NEW i \in 1..p.count, NEW j \in 1..p.count, i <= j
               PROVE  due[i] <= due[j]
    OBVIOUS
  <2>2. due[i] \in Int /\ due[j] \in Int /\ (i < j => due[i] < due[j])
    BY <2>1
  <2>3. i = j \/ i < j
    BY <1>2
  <2> QED
    BY <2>2, <2>3
<1>10. U \in SUBSET (1..p.count)
  OBVIOUS
<1> HIDE DEF h, up, U, lines, told, due
<1>11. told.paidCount = Cardinality(up)
  <2>1. \A x, y \in up : h[x] = h[y] => x = y
    BY <1>5, <1>7
  <2>2. Cardinality({h[i] : i \in up}) = Cardinality(up)
    <3>1. PICK V, k : V = up /\ k = h
      OBVIOUS
    <3>2. IsFiniteSet(V) /\ (\A x, y \in V : k[x] = k[y] => x = y)
      BY <1>7, <2>1, <3>1
    <3>3. Cardinality({k[x] : x \in V}) = Cardinality(V)
      BY <3>2, ImageCardinality
    <3> QED
      BY <3>1, <3>3
  <2> QED
    BY <1>5, <1>8, <2>2
<1>12. ASSUME NEW l \in told.next
       PROVE  \E i \in U : /\ l = h[i] /\ l.index = i /\ l.due = due[i]
                           /\ \A j \in U : i <= j
  <2>1. l \in Unpaid(lines) /\ \A k \in Unpaid(lines) : l.index <= k.index
    BY <1>8
  <2>2. PICK i \in U : l = h[i]
    BY <1>5, <2>1
  <2>3. l.index = i /\ l.due = due[i]
    BY <1>6, <1>10, <2>2
  <2>4. ASSUME NEW j \in U PROVE i <= j
    <3>1. h[j] \in Unpaid(lines) /\ h[j].index = j
      BY <1>5, <1>6, <1>10
    <3> QED
      BY <2>1, <2>3, <3>1
  <2> QED
    BY <2>2, <2>3, <2>4
<1>13. told.next = {} <=> U = {}
  <2>1. CASE U = {}
    BY <1>12, <2>1
  <2>2. CASE U # {}
    <3>1. PICK n \in Nat : n = p.count
      BY <1>2
    <3>2. PICK i \in U : \A j \in U : i <= j
      BY <1>10, <2>2, <3>1, LeastIndex
    <3>3. h[i] \in Unpaid(lines) /\ h[i].index = i
      BY <1>5, <1>6, <1>10
    <3>4. ASSUME NEW k \in Unpaid(lines) PROVE h[i].index <= k.index
      <4>1. PICK j \in U : k = h[j]
        BY <1>5
      <4>2. k.index = j
        BY <1>6, <1>10, <4>1
      <4> QED
        BY <3>2, <3>3, <4>2
    <3>5. h[i] \in told.next
      BY <1>8, <3>3, <3>4
    <3> QED
      BY <2>2, <3>5
  <2> QED
    BY <2>1, <2>2
<1>14. told.next = {} <=> told.paidCount = p.count
  BY <1>7, <1>11, <1>13
<1>15. ASSUME NEW l \in told.next
       PROVE  /\ \/ l.index = told.paidCount + 1
                 \/ l.index = told.paidCount /\ full < Max(CountsOf(s))
              /\ p.frequency = "WEEKLY" \/ CommonDays(p) =>
                     \A k \in Unpaid(lines) : l.due <= k.due
  <2>1. PICK i \in U : l.index = i /\ l.due = due[i] /\ \A j \in U : i <= j
    BY <1>12
  <2>2. \/ i = Cardinality(up) + 1
        \/ i = Cardinality(up) /\ full < Max(CountsFor(p, paid[s]))
    BY <1>7, <2>1
  <2>3. ASSUME p.frequency = "WEEKLY" \/ CommonDays(p), NEW k \in Unpaid(lines)
        PROVE  l.due <= k.due
    <3>1. PICK j \in U : k = h[j]
      BY <1>5
    <3>2. k.due = due[j] /\ i \in 1..p.count /\ j \in 1..p.count
      BY <1>6, <1>10, <3>1
    <3>3. i <= j
      BY <2>1
    <3> QED
      BY <1>9, <2>1, <2>3, <3>2, <3>3
  <2> QED
    BY <1>3, <1>11, <2>1, <2>2, <2>3
<1> QED
  BY <1>14, <1>15 DEF told, lines, due

LEMMA StatementsFollow ==
    ASSUME CreditPlansAssumption, PlansTyped, LimitKept
    PROVE  StatementsAgree
<1> SUFFICES ASSUME ~strained
             PROVE  PlainStatement.balance + PlainStatement.available = limit
  BY DEF StatementsAgree
<1>1. PICK b \in Int, l \in Int : b = Balance /\ l = limit /\ b <= l
  BY BalanceInt DEF LimitKept
<1>2. Max({0, l - b}) = l - b
  BY <1>1, MaxOfTwo
<1> QED
  BY <1>1, <1>2 DEF PlainStatement

LEMMA InvSaysSound == CreditPlansAssumption /\ PlansInv => PlansSound
  BY RemainingFollows, DatesFollow, MonthsFollow, ListsFollow, StatementFollows, StatementsFollow
     DEF PlansInv, PlansSound

-----------------------------------------------------------------------------
(* The balance.                                                            *)

Debts == [s \in CreditSales |-> Owed(s)]

LEMMA DebtsInt == PlansTyped => \A s \in CreditSales : Debts[s] \in Int /\ Debts[s] = plan[s].total - paid[s]
  BY DEF PlansTyped, Debts, Owed, PlanRows

LEMMA BalanceOfDebts == Balance = SumFunctionOnSet(Debts, CreditSales)
  BY DEF Balance, Debts

\* One sale's debt moves and the balance moves with it.
LEMMA BalanceMoves ==
    ASSUME CreditPlansAssumption, PlansTyped, PlansTyped', NEW s \in CreditSales,
           \A t \in CreditSales \ {s} :
               plan'[t].total = plan[t].total /\ paid'[t] = paid[t]
    PROVE  Balance' = Balance - (plan[s].total - paid[s]) + (plan'[s].total - paid'[s])
<1>1. PICK f, g : f = Debts /\ g = Debts'
  OBVIOUS
<1>2. \A t \in CreditSales : f[t] \in Int /\ f[t] = plan[t].total - paid[t]
  BY <1>1, DebtsInt
<1>3. \A t \in CreditSales : g[t] = plan'[t].total - paid'[t] /\ g[t] \in Int
  BY <1>1 DEF PlansTyped, Debts, Owed, PlanRows
<1>4. \A t \in CreditSales \ {s} : g[t] = f[t]
  BY <1>2, <1>3
<1>5. SumFunctionOnSet(g, CreditSales) = SumFunctionOnSet(f, CreditSales) - f[s] + g[s]
  BY <1>2, <1>3, <1>4, SumChange DEF CreditPlansAssumption
<1>6. Balance = SumFunctionOnSet(f, CreditSales) /\ Balance' = SumFunctionOnSet(g, CreditSales)
  BY <1>1, BalanceOfDebts DEF Balance, Debts
<1> QED
  BY <1>2, <1>3, <1>5, <1>6

LEMMA BalanceStays ==
    ASSUME CreditPlansAssumption, PlansTyped, PlansTyped',
           \A t \in CreditSales : plan'[t].total = plan[t].total /\ paid'[t] = paid[t]
    PROVE  Balance' = Balance
<1>1. PICK f, g : f = Debts /\ g = Debts'
  OBVIOUS
<1>2. \A t \in CreditSales : f[t] = plan[t].total - paid[t]
  BY <1>1, DebtsInt
<1>3. \A t \in CreditSales : g[t] = plan'[t].total - paid'[t]
  BY <1>1 DEF PlansTyped, Debts, Owed, PlanRows
<1>4. \A t \in CreditSales : g[t] = f[t]
  BY <1>2, <1>3
<1>5. SumFunctionOnSet(g, CreditSales) = SumFunctionOnSet(f, CreditSales)
  BY <1>4, SumCongruence DEF CreditPlansAssumption
<1>6. Balance = SumFunctionOnSet(f, CreditSales) /\ Balance' = SumFunctionOnSet(g, CreditSales)
  BY <1>1, BalanceOfDebts DEF Balance, Debts
<1> QED
  BY <1>5, <1>6

LEMMA MadeStays ==
    ASSUME \A t \in CreditSales : plan'[t].total = plan[t].total
    PROVE  Made' = Made
  BY DEF Made

LEMMA InstalmentNat ==
    ASSUME NEW d \in Nat, NEW n \in Nat \ {0}
    PROVE  Instalment(d, n) \in Nat
  BY Rounded

-----------------------------------------------------------------------------
(* The invariant holds at first and every step keeps it.                   *)

LEMMA PlansInvInit ==
    ASSUME CreditPlansAssumption, PlansInit
    PROVE  PlansInv
<1>1. Unplanned \in PlanRows /\ AtCounter \in SellerStates /\ AtCounter.pc = "rest"
  BY DEF Unplanned, AtCounter, PlanRows, SellerStates, Null
<1>2. PlansTyped
  <2>1. plan \in [CreditSales -> PlanRows] /\ seller \in [Sellers -> SellerStates]
    BY <1>1 DEF PlansInit
  <2>2. paid \in [CreditSales -> Nat] /\ limit \in Limits /\ planSteps \in 0..MaxPlanSteps
    BY DEF PlansInit, CreditPlansAssumption
  <2>3. crossed \in SUBSET CreditSales /\ redated \in SUBSET CreditSales /\ strained \in BOOLEAN
    BY DEF PlansInit
  <2> QED
    BY <2>1, <2>2, <2>3 DEF PlansTyped
<1>3. SalesKept
  BY DEF SalesKept, PlansInit, GoodRow, RowAgrees, WeekdayGiven, Unplanned, Null
<1>4. SellersKept
  BY <1>1 DEF SellersKept, PlansInit
<1>5. LimitKept
  <2>1. PICK f : f = Debts
    OBVIOUS
  <2>2. \A s \in CreditSales : f[s] = 0
    BY <2>1 DEF Debts, Owed, PlansInit, Unplanned
  <2>3. SumFunctionOnSet(f, CreditSales) = Cardinality(CreditSales) * 0
    BY <2>2, SumConstant DEF CreditPlansAssumption
  <2>4. Cardinality(CreditSales) \in Nat
    BY FS_CardinalityType DEF CreditPlansAssumption
  <2>5. Balance = 0
    BY <2>1, <2>3, <2>4, BalanceOfDebts
  <2>6. limit \in Nat
    BY DEF PlansInit, CreditPlansAssumption
  <2> QED
    BY <2>5, <2>6 DEF LimitKept
<1> QED
  BY <1>2, <1>3, <1>4, <1>5 DEF PlansInv

\* Steps that begin something leave the rows and the limit alone.
LEMMA RowsUntouched ==
    ASSUME PlansInv, UNCHANGED <<plan, paid, limit, crossed, redated, strained>>
    PROVE  SalesKept' /\ LimitKept' /\ Made' = Made /\ Balance' = Balance
<1>1. Balance' = Balance
  BY DEF Balance, Owed
<1>2. Made' = Made
  BY DEF Made
<1>3. SalesKept'
  BY DEF PlansInv, SalesKept
<1> QED
  BY <1>1, <1>2, <1>3 DEF PlansInv, LimitKept

\* A seller whose request goes on sees the same.
LEMMA SellingGoesOn ==
    ASSUME NEW c \in Sellers, Selling(c), PlansTyped, seller'[c] = seller[c],
           \A d \in Sellers \ {c} : seller'[d].sale \in {seller[d].sale, NoCreditSale}
                                    \/ seller'[d].sale # seller[c].sale,
           NoCreditSale \notin CreditSales,
           plan'[seller[c].sale].total = 0,
           Made \subseteq Made', Made' = Made \/ ~(Made' \subseteq Made),
           strained => strained',
           ~strained' /\ Made' = Made => Balance' - limit' <= Balance - limit,
           Balance \in Int, Balance' \in Int, limit \in Int, limit' \in Int
    PROVE  Selling(c)'
<1>1. PICK r \in SellerStates : r = seller[c] /\ seller'[c] = r
  BY DEF PlansTyped
<1>2. r.sale \in CreditSales /\ r.row.total \in Nat /\ r.row.total > 0
  BY <1>1 DEF Selling, SellerStates, PlanRows
<1>3. \A d \in Sellers \ {c} : seller'[d].sale # r.sale
  BY <1>1, <1>2 DEF Selling
<1>4. r.seen \subseteq Made'
  BY <1>1 DEF Selling
<1>5. ASSUME ~strained', r.seen = Made' PROVE Balance' + r.row.total <= limit'
  <2>1. ~strained /\ r.seen = Made /\ Made' = Made
    BY <1>1, <1>5 DEF Selling
  <2>2. Balance + r.row.total <= limit
    BY <1>1, <2>1 DEF Selling
  <2>3. Balance' - limit' <= Balance - limit
    BY <1>5, <2>1
  <2> QED
    BY <1>2, <2>2, <2>3
<1>6. GoodRow(r.row) /\ RowAgrees(r.row) /\ WeekdayGiven(r.row)
  BY <1>1 DEF Selling
<1>7. plan'[r.sale].total = 0
  BY <1>1
<1> QED
  BY <1>1, <1>2, <1>3, <1>4, <1>5, <1>6, <1>7 DEF Selling

LEMMA EditingGoesOn ==
    ASSUME NEW c \in Sellers, Editing(c), seller'[c] = seller[c],
           \A t \in Made : plan'[t].total = plan[t].total
    PROVE  Editing(c)'
<1>1. PICK r : r = seller[c] /\ seller'[c] = r
  OBVIOUS
<1>2. r.sale \in Made /\ r.row.total = plan[r.sale].total
  BY <1>1 DEF Editing
<1>3. r.sale \in Made' /\ plan'[r.sale].total = plan[r.sale].total
  BY <1>2 DEF Made
<1>4. \A e \in r.edit : EditChecked(e, r.row)
  BY <1>1 DEF Editing
<1> QED
  BY <1>1, <1>2, <1>3, <1>4 DEF Editing

\* The sellers that a step leaves alone, when it moves no row and no limit.
LEMMA OthersGoOn ==
    ASSUME CreditPlansAssumption, PlansInv, PlansTyped',
           UNCHANGED <<plan, paid, limit, crossed, redated, strained>>,
           NEW c \in Sellers, NEW d \in Sellers \ {c},
           \A b \in Sellers \ {c} : seller'[b] = seller[b],
           seller[d].pc = "sell" => seller'[c].sale # seller[d].sale
    PROVE  /\ seller'[d].pc = "sell" => Selling(d)'
           /\ seller'[d].pc = "edit" => Editing(d)'
<1>1. seller'[d] = seller[d]
  OBVIOUS
<1>2. Made' = Made /\ Balance' = Balance
  BY RowsUntouched
<1>3. Balance \in Int /\ limit \in Int /\ Balance' \in Int /\ limit' \in Int
  BY <1>2, BalanceInt DEF PlansInv
<1>4. ASSUME seller[d].pc = "sell" PROVE Selling(d)'
  <2>1. Selling(d)
    BY <1>4 DEF PlansInv, SellersKept
  <2>2. \A b \in Sellers \ {d} : seller'[b].sale \in {seller[b].sale, NoCreditSale}
                                 \/ seller'[b].sale # seller[d].sale
    <3> SUFFICES ASSUME NEW b \in Sellers \ {d}
                 PROVE  seller'[b].sale = seller[b].sale \/ seller'[b].sale # seller[d].sale
      OBVIOUS
    <3>1. CASE b = c
      BY <1>4, <3>1
    <3>2. CASE b # c
      BY <3>2
    <3> QED
      BY <3>1, <3>2
  <2>3. NoCreditSale \notin CreditSales
    BY DEF CreditPlansAssumption
  <2>4. plan'[seller[d].sale].total = 0
    BY <2>1 DEF Selling
  <2>5. Made \subseteq Made' /\ (Made' = Made \/ ~(Made' \subseteq Made)) /\ (strained => strained')
    BY <1>2
  <2>6. ~strained' /\ Made' = Made => Balance' - limit' <= Balance - limit
    BY <1>2, <1>3
  <2>7. PlansTyped
    BY DEF PlansInv
  <2> QED
    BY <1>1, <1>3, <2>1, <2>2, <2>3, <2>4, <2>5, <2>6, <2>7, SellingGoesOn
<1>5. ASSUME seller[d].pc = "edit" PROVE Editing(d)'
  <2>1. Editing(d)
    BY <1>5 DEF PlansInv, SellersKept
  <2>2. \A t \in Made : plan'[t].total = plan[t].total
    OBVIOUS
  <2> QED
    BY <1>1, <2>1, <2>2, EditingGoesOn
<1> QED
  BY <1>1, <1>4, <1>5

LEMMA BeginSaleKeeps ==
    ASSUME CreditPlansAssumption, PlansInv, NEW c \in Sellers, NEW s \in CreditSales,
           NEW o \in Orders, BeginSale(c, s, o)
    PROVE  PlansInv'
<1>1. PICK r : r = seller'[c]
  OBVIOUS
<1> DEFINE row == [o EXCEPT !.amount = IF o.count = 0 THEN 0
                                       ELSE Instalment(o.total - o.initial, o.count)]
           next == [AtCounter EXCEPT !.pc = "sell", !.sale = s, !.seen = Made, !.row = row]
<1>2. /\ seller' = [seller EXCEPT ![c] = next]
      /\ UNCHANGED <<plan, paid, limit, crossed, redated, strained>>
      /\ StepTaken /\ NewRow(s) /\ OrderAccepted(o) /\ limit - Balance >= o.total
      /\ o.initial < o.total /\ seller[c] = AtCounter
  BY DEF BeginSale
<1>3. o \in PlanRows
  BY DEF CreditPlansAssumption
<1>4. PICK a \in Nat : /\ a = IF o.count = 0 THEN 0
                               ELSE Instalment(o.total - o.initial, o.count)
  <2>1. o.count \in Nat /\ o.total - o.initial \in Nat
    BY <1>2, <1>3 DEF PlanRows
  <2> QED
    BY <2>1, InstalmentNat
<1>5. row = [o EXCEPT !.amount = a]
  BY <1>4
<1>6. /\ row \in PlanRows /\ row.total = o.total /\ row.count = o.count /\ row.amount = a
      /\ row.initial = o.initial /\ row.frequency = o.frequency /\ row.day = o.day
      /\ row.day2 = o.day2
  BY <1>3, <1>5 DEF PlanRows
<1> HIDE DEF row
<1>7. /\ next.pc = "sell" /\ next.sale = s /\ next.seen = Made /\ next.row = row
      /\ next \in SellerStates
  <2>1. AtCounter \in SellerStates
    BY DEF AtCounter, SellerStates, Unplanned, PlanRows, Null
  <2>2. Made \in SUBSET CreditSales
    BY DEF Made
  <2> QED
    BY <1>6, <2>1, <2>2 DEF SellerStates
<1> HIDE DEF next
<1>8. /\ seller'[c] = next /\ \A d \in Sellers \ {c} : seller'[d] = seller[d]
      /\ seller' \in [Sellers -> SellerStates]
  BY <1>2, <1>7 DEF PlansInv, PlansTyped
<1>9. PlansTyped'
  BY <1>2, <1>8 DEF PlansInv, PlansTyped, StepTaken
<1>10. SalesKept' /\ LimitKept' /\ Made' = Made /\ Balance' = Balance
  BY <1>2, RowsUntouched
<1>11. plan[s].total = 0 /\ \A d \in Sellers : seller[d].sale # s
  BY <1>2 DEF NewRow, Unsold
<1>12. Selling(c)'
  <2>1. GoodRow(row)
    <3>1. o.frequency \in {"NONE", "WEEKLY", "MONTHLY", "BIWEEKLY"}
      BY <1>3 DEF PlanRows, Frequencies
    <3>2. o.day \in 0..31 /\ o.day2 \in 0..31
      <4>1. DaysAccepted(o)
        BY <1>2 DEF OrderAccepted
      <4>2. CASE o.frequency = "NONE"
        BY <4>1, <4>2 DEF DaysAccepted, Null
      <4>3. CASE o.frequency = "WEEKLY"
        <5>1. o.day \in 0..7 /\ o.day2 = 0
          BY <4>1, <4>3 DEF DaysAccepted, Null
        <5> QED
          BY <5>1
      <4>4. CASE o.frequency = "MONTHLY"
        <5>1. o.day \in 0..31 /\ o.day2 = 0
          BY <4>1, <4>4 DEF DaysAccepted, Null
        <5> QED
          BY <5>1
      <4>5. CASE o.frequency = "BIWEEKLY"
        BY <4>1, <4>5 DEF DaysAccepted
      <4> QED
        BY <3>1, <4>2, <4>3, <4>4, <4>5
    <3>3. o.count = 0 <=> o.frequency = "NONE"
      BY <1>2 DEF OrderAccepted
    <3> QED
      BY <1>2, <1>6, <3>2, <3>3 DEF GoodRow
  <2>2. RowAgrees(row)
    <3>1. o.count > 0 => a = Instalment(o.total - o.initial, o.count)
      BY <1>4
    <3> QED
      BY <1>6, <3>1 DEF RowAgrees
  <2>3. WeekdayGiven(row)
    BY <1>2, <1>6 DEF OrderAccepted, DaysAccepted, WeekdayGiven
  <2>4. Balance' + row.total <= limit'
    <3>1. PICK b \in Int, l \in Int, t \in Nat : b = Balance /\ l = limit /\ t = o.total
      BY <1>3, BalanceInt DEF PlansInv, PlanRows
    <3> QED
      BY <1>2, <1>6, <1>10, <3>1
  <2>5. \A d \in Sellers \ {c} : seller'[d].sale # s
    BY <1>8, <1>11
  <2>6. row.total > 0
    BY <1>2, <1>6 DEF OrderAccepted
  <2>7. next.seen \subseteq Made'
    BY <1>7, <1>10
  <2>8. plan'[s].total = 0
    BY <1>2, <1>11
  <2> QED
    BY <1>7, <1>8, <2>1, <2>2, <2>3, <2>4, <2>5, <2>6, <2>7, <2>8 DEF Selling
<1>13. ASSUME NEW d \in Sellers \ {c}
       PROVE  (seller'[d].pc = "sell" => Selling(d)') /\ (seller'[d].pc = "edit" => Editing(d)')
  <2>1. seller'[c].sale # seller[d].sale
    BY <1>7, <1>8, <1>11
  <2> QED
    BY <1>2, <1>8, <1>9, <2>1, OthersGoOn
<1>14. SellersKept'
  <2>1. seller'[c].pc = "sell"
    BY <1>7, <1>8
  <2> QED
    BY <1>12, <1>13, <2>1 DEF SellersKept
<1> QED
  BY <1>9, <1>10, <1>14 DEF PlansInv

LEMMA BeginEditKeeps ==
    ASSUME CreditPlansAssumption, PlansInv, NEW c \in Sellers, NEW s \in CreditSales,
           NEW e \in Edits, BeginEdit(c, s, e)
    PROVE  PlansInv'
<1> DEFINE next == [AtCounter EXCEPT !.pc = "edit", !.sale = s, !.row = plan[s], !.edit = {e}]
<1>1. /\ seller' = [seller EXCEPT ![c] = next]
      /\ UNCHANGED <<plan, paid, limit, crossed, redated, strained>>
      /\ StepTaken /\ s \in Made /\ EditChecked(e, plan[s])
  BY DEF BeginEdit, EditChecked
<1>2. e \in EditBodies /\ plan[s] \in PlanRows
  BY DEF CreditPlansAssumption, PlansInv, PlansTyped
<1>3. /\ next.pc = "edit" /\ next.sale = s /\ next.row = plan[s] /\ next.edit = {e}
      /\ next \in SellerStates
  <2>1. AtCounter \in SellerStates
    BY DEF AtCounter, SellerStates, Unplanned, PlanRows, Null
  <2> QED
    BY <1>2, <2>1 DEF SellerStates
<1> HIDE DEF next
<1>4. /\ seller'[c] = next /\ \A d \in Sellers \ {c} : seller'[d] = seller[d]
      /\ seller' \in [Sellers -> SellerStates]
  BY <1>1, <1>3 DEF PlansInv, PlansTyped
<1>5. PlansTyped'
  BY <1>1, <1>4 DEF PlansInv, PlansTyped, StepTaken
<1>6. SalesKept' /\ LimitKept' /\ Made' = Made /\ Balance' = Balance
  BY <1>1, RowsUntouched
<1>7. Editing(c)'
  <2>1. s \in Made' /\ plan'[s] = plan[s]
    BY <1>1, <1>6
  <2>2. \A x \in next.edit : EditChecked(x, next.row)
    BY <1>1, <1>3
  <2> QED
    BY <1>3, <1>4, <2>1, <2>2 DEF Editing
<1>8. ASSUME NEW d \in Sellers \ {c}
      PROVE  (seller'[d].pc = "sell" => Selling(d)') /\ (seller'[d].pc = "edit" => Editing(d)')
  <2>1. seller[d].pc = "sell" => seller'[c].sale # seller[d].sale
    <3>1. ASSUME seller[d].pc = "sell" PROVE seller[d].sale # s
      <4>1. plan[seller[d].sale].total = 0
        BY <3>1 DEF PlansInv, SellersKept, Selling
      <4>2. plan[s].total > 0
        BY <1>1 DEF Made
      <4> QED
        BY <4>1, <4>2
    <3> QED
      BY <1>3, <1>4, <3>1
  <2> QED
    BY <1>1, <1>4, <1>5, <2>1, OthersGoOn
<1>9. SellersKept'
  <2>1. seller'[c].pc = "edit"
    BY <1>3, <1>4
  <2> QED
    BY <1>7, <1>8, <2>1 DEF SellersKept
<1> QED
  BY <1>5, <1>6, <1>9 DEF PlansInv

LEMMA PlansStutterKeeps ==
    ASSUME PlansInv, UNCHANGED planVars
    PROVE  PlansInv'
<1>1. UNCHANGED <<plan, paid, limit, crossed, redated, strained>> /\ seller' = seller
      /\ planSteps' = planSteps
  BY DEF planVars
<1>2. SalesKept' /\ LimitKept' /\ Made' = Made /\ Balance' = Balance
  BY <1>1, RowsUntouched
<1>3. PlansTyped'
  BY <1>1 DEF PlansInv, PlansTyped
<1>4. SellersKept'
  <2> SUFFICES ASSUME NEW c \in Sellers
               PROVE  (seller'[c].pc = "sell" => Selling(c)') /\ (seller'[c].pc = "edit" => Editing(c)')
    BY DEF SellersKept
  <2>1. Selling(c) => Selling(c)'
    BY <1>1, <1>2 DEF Selling
  <2>2. Editing(c) => Editing(c)'
    BY <1>1, <1>2 DEF Editing
  <2> QED
    BY <1>1, <2>1, <2>2 DEF PlansInv, SellersKept
<1> QED
  BY <1>2, <1>3, <1>4 DEF PlansInv

LEMMA PayKeeps ==
    ASSUME CreditPlansAssumption, PlansInv, NEW s \in CreditSales, NEW cents \in Amounts,
           Pay(s, cents)
    PROVE  PlansInv'
<1>1. /\ paid' = [paid EXCEPT ![s] = @ + cents] /\ cents <= Owed(s) /\ StepTaken
      /\ UNCHANGED <<plan, limit, seller, crossed, redated, strained>>
  BY DEF Pay
<1>2. cents \in Nat /\ paid \in [CreditSales -> Nat] /\ plan[s].total \in Nat
  BY DEF CreditPlansAssumption, PlansInv, PlansTyped, PlanRows
<1>3. /\ paid' \in [CreditSales -> Nat] /\ paid'[s] = paid[s] + cents
      /\ \A t \in CreditSales \ {s} : paid'[t] = paid[t]
  BY <1>1, <1>2
<1>4. PlansTyped'
  BY <1>1, <1>3 DEF PlansInv, PlansTyped, StepTaken
<1>5. paid'[s] <= plan[s].total
  BY <1>1, <1>2, <1>3 DEF Owed
<1>6. SalesKept'
  BY <1>1, <1>3, <1>5 DEF PlansInv, SalesKept
<1>7. Balance' <= Balance /\ Balance \in Int /\ Balance' \in Int /\ limit \in Int
  <2>1. Balance \in Int /\ limit \in Int
    BY BalanceInt DEF PlansInv
  <2>2. Balance' = Balance - (plan[s].total - paid[s]) + (plan'[s].total - paid'[s])
    <3>1. \A t \in CreditSales \ {s} : plan'[t].total = plan[t].total /\ paid'[t] = paid[t]
      BY <1>1, <1>3
    <3>2. PlansTyped
      BY DEF PlansInv
    <3> QED
      BY <1>4, <3>1, <3>2, BalanceMoves
  <2>3. PICK x \in Nat : x = paid[s]
    BY <1>2
  <2>4. Balance' = Balance - (plan[s].total - x) + (plan[s].total - (x + cents))
    BY <1>1, <1>3, <2>2, <2>3
  <2>5. Balance' = Balance - cents
    BY <1>2, <2>1, <2>4
  <2> QED
    BY <1>2, <2>1, <2>5
<1>8. LimitKept'
  BY <1>1, <1>7 DEF PlansInv, LimitKept
<1>9. Made' = Made
  BY <1>1 DEF Made
<1>10. SellersKept'
  <2> SUFFICES ASSUME NEW c \in Sellers
               PROVE  (seller'[c].pc = "sell" => Selling(c)') /\ (seller'[c].pc = "edit" => Editing(c)')
    BY DEF SellersKept
  <2>1. seller' = seller /\ plan' = plan /\ limit' = limit /\ strained' = strained
    BY <1>1
  <2>2. ASSUME Selling(c) PROVE Selling(c)'
    <3>1. PICK r \in SellerStates : r = seller[c] /\ seller'[c] = r
      BY <2>1 DEF PlansInv, PlansTyped
    <3>2. r.row.total \in Nat
      BY DEF SellerStates, PlanRows
    <3>3. ~strained /\ r.seen = Made => Balance' + r.row.total <= limit
      <4>1. ~strained /\ r.seen = Made => Balance + r.row.total <= limit
        BY <2>2, <3>1 DEF Selling
      <4> QED
        BY <1>7, <3>2, <4>1
    <3> QED
      BY <1>9, <2>1, <2>2, <3>1, <3>3 DEF Selling
  <2>3. Editing(c) => Editing(c)'
    BY <1>9, <2>1 DEF Editing
  <2> QED
    BY <2>1, <2>2, <2>3 DEF PlansInv, SellersKept
<1> QED
  BY <1>4, <1>6, <1>8, <1>10 DEF PlansInv

LEMMA SetLimitKeeps ==
    ASSUME CreditPlansAssumption, PlansInv, NEW l \in Limits, SetLimit(l)
    PROVE  PlansInv'
<1>1. /\ limit' = l /\ strained' = (strained \/ l < limit) /\ StepTaken
      /\ UNCHANGED <<plan, paid, seller, crossed, redated>>
  BY DEF SetLimit
<1>2. PlansTyped'
  <2>1. (strained \/ l < limit) \in BOOLEAN
    OBVIOUS
  <2> QED
    BY <1>1, <2>1 DEF PlansInv, PlansTyped, StepTaken
<1>3. SalesKept'
  BY <1>1 DEF PlansInv, SalesKept
<1>4. Made' = Made /\ Balance' = Balance
  BY <1>1 DEF Made, Balance, Owed
<1>5. Balance \in Int /\ limit \in Int /\ l \in Int
  BY BalanceInt DEF PlansInv, CreditPlansAssumption
<1>6. ~strained' => ~strained /\ limit <= l
  <2>1. ~strained' => ~strained /\ ~(l < limit)
    BY Zenon, <1>1
  <2>2. ~(l < limit) => limit <= l
    BY <1>5
  <2> QED
    BY Zenon, <2>1, <2>2
<1>7. LimitKept'
  BY <1>1, <1>4, <1>5, <1>6 DEF PlansInv, LimitKept
<1>8. SellersKept'
  <2> SUFFICES ASSUME NEW c \in Sellers
               PROVE  (seller'[c].pc = "sell" => Selling(c)') /\ (seller'[c].pc = "edit" => Editing(c)')
    BY DEF SellersKept
  <2>1. seller' = seller /\ plan' = plan
    BY <1>1
  <2>2. ASSUME Selling(c) PROVE Selling(c)'
    <3>1. PICK r \in SellerStates : r = seller[c] /\ seller'[c] = r
      BY <2>1 DEF PlansInv, PlansTyped
    <3>2. r.row.total \in Nat
      BY DEF SellerStates, PlanRows
    <3>3. ~strained' /\ r.seen = Made => Balance + r.row.total <= limit'
      <4>1. ~strained /\ r.seen = Made => Balance + r.row.total <= limit
        BY <2>2, <3>1 DEF Selling
      <4> QED
        BY <1>1, <1>5, <1>6, <3>2, <4>1
    <3> QED
      BY <1>4, <2>1, <2>2, <3>1, <3>3 DEF Selling
  <2>3. Editing(c) => Editing(c)'
    BY <1>4, <2>1 DEF Editing
  <2> QED
    BY <2>1, <2>2, <2>3 DEF PlansInv, SellersKept
<1> QED
  BY <1>2, <1>3, <1>7, <1>8 DEF PlansInv

LEMMA CommitSalePlanKeeps ==
    ASSUME CreditPlansAssumption, PlansInv, NEW c \in Sellers, CommitSalePlan(c)
    PROVE  PlansInv'
<1>1. PICK r \in SellerStates : r = seller[c]
  BY DEF PlansInv, PlansTyped
<1>2. PICK s : s = r.sale
  OBVIOUS
<1>3. /\ r.pc = "sell" /\ plan' = [plan EXCEPT ![s] = r.row]
      /\ strained' = (strained \/ r.seen # Made) /\ seller' = [seller EXCEPT ![c] = AtCounter]
      /\ UNCHANGED <<paid, limit, planSteps, crossed, redated>>
  BY <1>1, <1>2 DEF CommitSalePlan, AtRestAgain
<1>4. Selling(c)
  BY <1>1, <1>3 DEF PlansInv, SellersKept
<1>5. /\ s \in CreditSales /\ plan[s].total = 0 /\ r.row \in PlanRows /\ r.row.total \in Nat
      /\ r.row.total > 0 /\ GoodRow(r.row) /\ RowAgrees(r.row) /\ WeekdayGiven(r.row)
      /\ \A d \in Sellers \ {c} : seller[d].sale # s
      /\ ~strained /\ r.seen = Made => Balance + r.row.total <= limit
  BY <1>1, <1>2, <1>4 DEF Selling, SellerStates, PlanRows
<1>6. /\ plan' \in [CreditSales -> PlanRows] /\ plan'[s] = r.row
      /\ \A t \in CreditSales \ {s} : plan'[t] = plan[t]
  BY <1>3, <1>5 DEF PlansInv, PlansTyped
<1>7. /\ seller' \in [Sellers -> SellerStates] /\ seller'[c] = AtCounter
      /\ \A d \in Sellers \ {c} : seller'[d] = seller[d]
      /\ AtCounter.pc = "rest" /\ AtCounter.sale = NoCreditSale
  <2>1. AtCounter \in SellerStates /\ AtCounter.pc = "rest" /\ AtCounter.sale = NoCreditSale
    BY DEF AtCounter, SellerStates, Unplanned, PlanRows, Null
  <2> QED
    BY <1>3, <2>1 DEF PlansInv, PlansTyped
<1>8. PlansTyped'
  <2>1. (strained \/ r.seen # Made) \in BOOLEAN
    OBVIOUS
  <2> QED
    BY <1>3, <1>6, <1>7, <2>1 DEF PlansInv, PlansTyped
<1>9. paid[s] = 0 /\ paid' = paid
  BY <1>3, <1>5 DEF PlansInv, SalesKept, PlansTyped
<1>10. SalesKept'
  <2> SUFFICES ASSUME NEW t \in CreditSales
               PROVE  /\ GoodRow(plan'[t]) /\ paid'[t] <= plan'[t].total
                      /\ t \notin crossed' => RowAgrees(plan'[t])
                      /\ t \notin redated' => WeekdayGiven(plan'[t])
    BY DEF SalesKept
  <2>1. CASE t = s
    BY <1>5, <1>6, <1>9, <2>1
  <2>2. CASE t # s
    BY <1>3, <1>6, <2>2 DEF PlansInv, SalesKept
  <2> QED
    BY <2>1, <2>2
<1>11. Balance' = Balance + r.row.total /\ Balance \in Int /\ Balance' \in Int /\ limit \in Int
  <2>1. Balance \in Int /\ limit \in Int
    BY BalanceInt DEF PlansInv
  <2>2. Balance' = Balance - (plan[s].total - paid[s]) + (plan'[s].total - paid'[s])
    <3>1. \A t \in CreditSales \ {s} : plan'[t].total = plan[t].total /\ paid'[t] = paid[t]
      BY <1>6, <1>9
    <3>2. PlansTyped
      BY DEF PlansInv
    <3> QED
      BY <1>5, <1>8, <3>1, <3>2, BalanceMoves
  <2>3. Balance' = Balance - (0 - 0) + (r.row.total - 0)
    BY <1>5, <1>6, <1>9, <2>2
  <2> QED
    BY <1>5, <2>1, <2>3
<1>12. LimitKept'
  BY <1>3, <1>5, <1>11 DEF LimitKept
<1>13. Made \subseteq Made' /\ ~(Made' \subseteq Made)
  <2>1. s \in Made' /\ s \notin Made
    BY <1>5, <1>6 DEF Made
  <2>2. \A t \in Made : t \in Made'
    BY <1>6, <2>1 DEF Made
  <2> QED
    BY <2>1, <2>2
<1>14. ASSUME NEW d \in Sellers \ {c}
       PROVE  (seller'[d].pc = "sell" => Selling(d)') /\ (seller'[d].pc = "edit" => Editing(d)')
  <2>1. seller'[d] = seller[d] /\ seller[d].sale # s
    BY <1>5, <1>7
  <2>2. ASSUME seller[d].pc = "sell" PROVE Selling(d)'
    <3>1. Selling(d)
      BY <2>2 DEF PlansInv, SellersKept
    <3>2. \A b \in Sellers \ {d} : seller'[b].sale \in {seller[b].sale, NoCreditSale}
                                   \/ seller'[b].sale # seller[d].sale
      BY <1>7
    <3>3. NoCreditSale \notin CreditSales
      BY DEF CreditPlansAssumption
    <3>4. plan'[seller[d].sale].total = 0
      BY <1>6, <2>1, <3>1 DEF Selling
    <3>5. strained => strained'
      BY <1>3
    <3>6. Made' # Made
      BY <1>13
    <3>7. PlansTyped /\ limit' = limit
      BY <1>3 DEF PlansInv
    <3> QED
      BY <1>11, <1>13, <2>1, <3>1, <3>2, <3>3, <3>4, <3>5, <3>6, <3>7, SellingGoesOn
  <2>3. ASSUME seller[d].pc = "edit" PROVE Editing(d)'
    <3>1. Editing(d)
      BY <2>3 DEF PlansInv, SellersKept
    <3>2. \A t \in Made : plan'[t].total = plan[t].total
      BY <1>5, <1>6 DEF Made
    <3> QED
      BY <2>1, <3>1, <3>2, EditingGoesOn
  <2> QED
    BY <2>1, <2>2, <2>3
<1>15. SellersKept'
  <2>1. seller'[c].pc = "rest"
    BY <1>7
  <2> QED
    BY <1>14, <2>1 DEF SellersKept
<1> QED
  BY <1>8, <1>10, <1>12, <1>15 DEF PlansInv

LEMMA EditedKeeps ==
    ASSUME NEW p \in PlanRows, GoodRow(p), p.total > 0, NEW e \in EditBodies,
           NEW read \in PlanRows, read.total = p.total, EditChecked(e, read)
    PROVE  LET q == Edited(p, e, read) IN
           /\ q \in PlanRows /\ q.total = p.total /\ GoodRow(q)
           /\ p = read /\ RowAgrees(p) => RowAgrees(q)
           /\ WeekdayGiven(p) /\ ~(e.day # Absent /\ p.frequency = "WEEKLY") => WeekdayGiven(q)
<1>1. /\ p.total \in Nat /\ p.count \in Nat /\ p.initial \in Nat /\ p.amount \in Nat
      /\ p.soldOn \in Nat \ {0} /\ p.frequency \in Frequencies \cup {"NONE"}
      /\ p.day \in 0..31 /\ p.day2 \in 0..31 /\ (p.count = 0 <=> p.frequency = "NONE")
      /\ p.initial < p.total
  BY DEF PlanRows, GoodRow
<1>2. /\ e.count \in Nat \cup {-1} /\ e.frequency \in Frequencies \cup {"NONE"}
      /\ e.initial \in Nat \cup {-1} /\ e.soldOn \in (Nat \ {0}) \cup {-1}
      /\ e.day \in -1..31 /\ e.day2 \in -1..31
      /\ (e.count # -1 <=> e.frequency # "NONE") /\ e.count # 0 /\ e.frequency # "WEEKLY"
  BY DEF EditBodies, EditChecked, EditAccepted, Absent
<1>3. PICK count \in Nat : count = Given(e.count, p.count)
  BY <1>1, <1>2 DEF Given, Absent
<1>4. PICK initial \in Nat : initial = Given(e.initial, p.initial)
  BY <1>1, <1>2 DEF Given, Absent
<1>5. PICK frequency \in Frequencies \cup {"NONE"} :
          frequency = IF e.frequency = "NONE" THEN p.frequency ELSE e.frequency
  BY <1>1, <1>2
<1>6. PICK day \in 0..31 : day = Given(e.day, p.day)
  BY <1>1, <1>2 DEF Given, Absent
<1>7. PICK day2 \in 0..31 : day2 = IF e.frequency = "MONTHLY" /\ e.day2 = Absent THEN Null
                                   ELSE Given(e.day2, p.day2)
  BY <1>1, <1>2 DEF Given, Absent, Null
<1>8. PICK soldOn \in Nat \ {0} : soldOn = Given(e.soldOn, p.soldOn)
  BY <1>1, <1>2 DEF Given, Absent
<1>9. PICK amount \in Nat : amount = IF PlanChanged(e) THEN EditedAmount(e, read) ELSE p.amount
  <2>1. CASE PlanChanged(e)
    <3>1. /\ Given(e.count, read.count) > 0 /\ Given(e.initial, read.initial) < read.total
          /\ read.count \in Nat /\ read.initial \in Nat /\ read.total \in Nat
      BY <2>1 DEF EditChecked, PlanRows
    <3>2. Given(e.count, read.count) \in Nat \ {0}
      BY <1>2, <3>1 DEF Given, Absent
    <3>3. Given(e.initial, read.initial) \in Nat
      BY <1>2, <3>1 DEF Given, Absent
    <3>4. read.total - Given(e.initial, read.initial) \in Nat
      BY <3>1, <3>3
    <3>5. EditedAmount(e, read) \in Nat
      BY <3>2, <3>4, InstalmentNat DEF EditedAmount
    <3> QED
      BY <2>1, <3>5
  <2>2. CASE ~PlanChanged(e)
    BY <1>1, <2>2
  <2> QED
    BY <2>1, <2>2
<1>10. PICK q : q = Edited(p, e, read)
  OBVIOUS
<1>11. q = [p EXCEPT !.count = count, !.initial = initial, !.frequency = frequency,
                     !.day = day, !.day2 = day2, !.soldOn = soldOn, !.amount = amount]
  BY <1>3, <1>4, <1>5, <1>6, <1>7, <1>8, <1>9, <1>10 DEF Edited
<1>12. /\ q \in PlanRows /\ q.total = p.total /\ q.count = count /\ q.initial = initial
       /\ q.frequency = frequency /\ q.day = day /\ q.day2 = day2 /\ q.amount = amount
  <2>1. q.total = p.total /\ q.count = count /\ q.initial = initial
    BY <1>11 DEF PlanRows
  <2>2. q.frequency = frequency /\ q.day = day /\ q.day2 = day2 /\ q.amount = amount
    BY <1>11 DEF PlanRows
  <2>3. day \in Int /\ day2 \in Int
    OBVIOUS
  <2>4. q \in PlanRows
    BY <1>11, <2>3 DEF PlanRows
  <2> QED
    BY <2>1, <2>2, <2>4
<1>13. initial < p.total
  <2>1. CASE e.initial = -1
    BY <1>1, <1>4, <2>1 DEF Given, Absent
  <2>2. CASE e.initial # -1
    <3>1. PlanChanged(e) /\ initial = e.initial /\ Given(e.initial, read.initial) = e.initial
      BY <1>4, <2>2 DEF PlanChanged, Given, Absent
    <3>2. e.initial < read.total
      BY <3>1 DEF EditChecked
    <3> QED
      BY <3>1, <3>2
  <2> QED
    BY <2>1, <2>2
<1>14. count = 0 <=> frequency = "NONE"
  <2>1. CASE e.count = -1
    BY <1>1, <1>2, <1>3, <1>5, <2>1 DEF Given, Absent
  <2>2. CASE e.count # -1
    BY <1>1, <1>2, <1>3, <1>5, <2>2 DEF Given, Absent
  <2> QED
    BY <2>1, <2>2
<1>15. GoodRow(q)
  BY <1>12, <1>13, <1>14 DEF GoodRow
<1>16. ASSUME p = read, RowAgrees(p) PROVE RowAgrees(q)
  <2>1. CASE PlanChanged(e)
    <3>1. amount = Instalment(p.total - initial, count)
      BY <1>3, <1>4, <1>9, <1>16, <2>1 DEF EditedAmount
    <3> QED
      BY <1>12, <3>1 DEF RowAgrees
  <2>2. CASE ~PlanChanged(e)
    <3>1. count = p.count /\ initial = p.initial /\ amount = p.amount
      BY <1>3, <1>4, <1>9, <2>2 DEF PlanChanged, Given
    <3> QED
      BY <1>12, <1>16, <3>1 DEF RowAgrees
  <2> QED
    BY <2>1, <2>2
<1>17. ASSUME WeekdayGiven(p), ~(e.day # Absent /\ p.frequency = "WEEKLY") PROVE WeekdayGiven(q)
  <2> SUFFICES ASSUME frequency = "WEEKLY" PROVE day \in 0..7
    BY <1>12 DEF WeekdayGiven
  <2>1. p.frequency = "WEEKLY"
    BY <1>2, <1>5
  <2> QED
    BY <1>6, <1>17, <2>1 DEF WeekdayGiven, Given
<1> QED
  BY <1>10, <1>12, <1>15, <1>16, <1>17

LEMMA CommitEditKeeps ==
    ASSUME CreditPlansAssumption, PlansInv, NEW c \in Sellers, CommitEdit(c)
    PROVE  PlansInv'
<1>1. PICK r \in SellerStates : r = seller[c]
  BY DEF PlansInv, PlansTyped
<1>2. PICK s : s = r.sale
  OBVIOUS
<1>3. r.pc = "edit" /\ Editing(c)
  BY <1>1 DEF CommitEdit, PlansInv, SellersKept
<1>4. PICK e \in r.edit :
          /\ plan' = [plan EXCEPT ![s] = Edited(plan[s], e, r.row)]
          /\ redated' = IF e.day # Absent /\ plan[s].frequency = "WEEKLY" THEN redated \cup {s}
                        ELSE redated
  BY <1>1, <1>2 DEF CommitEdit
<1>5. /\ crossed' = (IF r.row = plan[s] THEN crossed ELSE crossed \cup {s})
      /\ seller' = [seller EXCEPT ![c] = AtCounter]
      /\ UNCHANGED <<paid, limit, planSteps, strained>>
  BY <1>1, <1>2 DEF CommitEdit, AtRestAgain
<1>6. /\ s \in CreditSales /\ plan[s].total > 0 /\ plan[s] \in PlanRows /\ r.row \in PlanRows
      /\ e \in EditBodies /\ r.row.total = plan[s].total /\ EditChecked(e, r.row)
  BY <1>1, <1>2, <1>3 DEF Editing, Made, SellerStates, PlansInv, PlansTyped
<1>7. PICK q : q = Edited(plan[s], e, r.row)
  OBVIOUS
<1>8. GoodRow(plan[s])
  BY <1>6 DEF PlansInv, SalesKept
<1>9. /\ q \in PlanRows /\ q.total = plan[s].total /\ GoodRow(q)
      /\ plan[s] = r.row /\ RowAgrees(plan[s]) => RowAgrees(q)
      /\ WeekdayGiven(plan[s]) /\ ~(e.day # Absent /\ plan[s].frequency = "WEEKLY") =>
             WeekdayGiven(q)
  BY <1>6, <1>7, <1>8, EditedKeeps
<1>10. /\ plan' \in [CreditSales -> PlanRows] /\ plan'[s] = q
       /\ \A t \in CreditSales \ {s} : plan'[t] = plan[t]
  BY <1>4, <1>6, <1>7, <1>9 DEF PlansInv, PlansTyped
<1>11. /\ seller' \in [Sellers -> SellerStates] /\ seller'[c] = AtCounter
       /\ \A d \in Sellers \ {c} : seller'[d] = seller[d]
       /\ AtCounter.pc = "rest" /\ AtCounter.sale = NoCreditSale
  <2>1. AtCounter \in SellerStates /\ AtCounter.pc = "rest" /\ AtCounter.sale = NoCreditSale
    BY DEF AtCounter, SellerStates, Unplanned, PlanRows, Null
  <2> QED
    BY <1>5, <2>1 DEF PlansInv, PlansTyped
<1>12. PlansTyped'
  <2>1. crossed' \in SUBSET CreditSales /\ redated' \in SUBSET CreditSales
    BY <1>4, <1>5, <1>6 DEF PlansInv, PlansTyped
  <2> QED
    BY <1>5, <1>10, <1>11, <2>1 DEF PlansInv, PlansTyped
<1>13. SalesKept'
  <2> SUFFICES ASSUME NEW t \in CreditSales
               PROVE  /\ GoodRow(plan'[t]) /\ paid'[t] <= plan'[t].total
                      /\ t \notin crossed' => RowAgrees(plan'[t])
                      /\ t \notin redated' => WeekdayGiven(plan'[t])
    BY DEF SalesKept
  <2>1. /\ paid' = paid /\ paid[t] <= plan[t].total /\ GoodRow(plan[t])
        /\ t \notin crossed => RowAgrees(plan[t])
        /\ t \notin redated => WeekdayGiven(plan[t])
    BY <1>5 DEF PlansInv, SalesKept
  <2>2. CASE t = s
    <3>1. t \notin crossed' => t \notin crossed /\ r.row = plan[s]
      BY <1>5, <2>2
    <3>2. t \notin redated' => t \notin redated
                               /\ ~(e.day # Absent /\ plan[s].frequency = "WEEKLY")
      BY <1>4, <2>2
    <3> QED
      BY <1>9, <1>10, <2>1, <2>2, <3>1, <3>2
  <2>3. CASE t # s
    <3>1. (t \notin crossed' => t \notin crossed) /\ (t \notin redated' => t \notin redated)
      BY <1>4, <1>5
    <3> QED
      BY <1>10, <2>1, <2>3, <3>1
  <2> QED
    BY <2>2, <2>3
<1>14. \A t \in CreditSales : plan'[t].total = plan[t].total /\ paid'[t] = paid[t]
  BY <1>5, <1>9, <1>10
<1>15. Made' = Made /\ Balance' = Balance /\ Balance \in Int /\ limit \in Int
  BY <1>12, <1>14, MadeStays, BalanceStays, BalanceInt DEF PlansInv
<1>16. LimitKept'
  BY <1>5, <1>15 DEF PlansInv, LimitKept
<1>17. ASSUME NEW d \in Sellers \ {c}
       PROVE  (seller'[d].pc = "sell" => Selling(d)') /\ (seller'[d].pc = "edit" => Editing(d)')
  <2>1. seller'[d] = seller[d]
    BY <1>11
  <2>2. ASSUME seller[d].pc = "sell" PROVE Selling(d)'
    <3>1. Selling(d)
      BY <2>2 DEF PlansInv, SellersKept
    <3>2. \A b \in Sellers \ {d} : seller'[b].sale \in {seller[b].sale, NoCreditSale}
                                   \/ seller'[b].sale # seller[d].sale
      BY <1>11
    <3>3. NoCreditSale \notin CreditSales
      BY DEF CreditPlansAssumption
    <3>4. plan'[seller[d].sale].total = 0
      BY <1>14, <3>1 DEF Selling
    <3>5. strained => strained'
      BY <1>5
    <3>6. PlansTyped /\ limit' = limit
      BY <1>5 DEF PlansInv
    <3>7. ~strained' /\ Made' = Made => Balance' - limit' <= Balance - limit
      BY <1>15, <3>6
    <3>8. Made \subseteq Made' /\ (Made' = Made \/ ~(Made' \subseteq Made))
      BY <1>15
    <3>9. Balance' \in Int /\ limit' \in Int /\ Balance \in Int /\ limit \in Int
      BY <1>15, <3>6
    <3> QED
      BY <2>1, <3>1, <3>2, <3>3, <3>4, <3>5, <3>6, <3>7, <3>8, <3>9, SellingGoesOn
  <2>3. ASSUME seller[d].pc = "edit" PROVE Editing(d)'
    <3>1. Editing(d)
      BY <2>3 DEF PlansInv, SellersKept
    <3>2. \A t \in Made : plan'[t].total = plan[t].total
      BY <1>14 DEF Made
    <3> QED
      BY <2>1, <3>1, <3>2, EditingGoesOn
  <2> QED
    BY <2>1, <2>2, <2>3
<1>18. SellersKept'
  <2>1. seller'[c].pc = "rest"
    BY <1>11
  <2> QED
    BY <1>17, <2>1 DEF SellersKept
<1> QED
  BY <1>12, <1>13, <1>16, <1>18 DEF PlansInv

LEMMA PlansStepKeeps ==
    ASSUME CreditPlansAssumption, PlansInv, [PlansNext]_planVars
    PROVE  PlansInv'
<1>1. CASE UNCHANGED planVars
  BY <1>1, PlansStutterKeeps
<1>2. ASSUME NEW c \in Sellers, NEW s \in CreditSales, NEW o \in Orders, BeginSale(c, s, o)
      PROVE  PlansInv'
  BY <1>2, BeginSaleKeeps
<1>3. ASSUME NEW c \in Sellers, NEW s \in CreditSales, NEW e \in Edits, BeginEdit(c, s, e)
      PROVE  PlansInv'
  BY <1>3, BeginEditKeeps
<1>4. ASSUME NEW c \in Sellers, CommitSalePlan(c) PROVE PlansInv'
  BY <1>4, CommitSalePlanKeeps
<1>5. ASSUME NEW c \in Sellers, CommitEdit(c) PROVE PlansInv'
  BY <1>5, CommitEditKeeps
<1>6. ASSUME NEW s \in CreditSales, NEW cents \in Amounts, Pay(s, cents) PROVE PlansInv'
  BY <1>6, PayKeeps
<1>7. ASSUME NEW l \in Limits, SetLimit(l) PROVE PlansInv'
  BY <1>7, SetLimitKeeps
<1> QED
  BY <1>1, <1>2, <1>3, <1>4, <1>5, <1>6, <1>7 DEF PlansNext

-----------------------------------------------------------------------------
(* The theorem.                                                            *)

\* What a plan says and what its sale owes agree to half a cent for each
\* instalment, its dates follow each other, the client stays within the
\* limit and the lists of staff and the statement show just that, whatever
\* the sales, the clerks, the amounts and the interleaving of their requests.
THEOREM PlansAlwaysSound == PlansSpec => []PlansSound
<1>1. PlansInit => PlansInv
  BY PlansInvInit, CreditPlansAssumption
<1>2. PlansInv /\ [PlansNext]_planVars => PlansInv'
  BY PlansStepKeeps, CreditPlansAssumption
<1>3. PlansInv => PlansSound
  BY InvSaysSound, CreditPlansAssumption
<1> QED
  BY <1>1, <1>2, <1>3, PTL DEF PlansSpec

\* The rows are those of the schema, a sale has a plan just when it has
\* instalments, and no payment takes it below zero.
LEMMA PlansAreTyped == PlansInv => PlansTypeOK
<1> SUFFICES ASSUME PlansInv PROVE PlansTypeOK
  OBVIOUS
<1>1. ASSUME NEW s \in CreditSales
      PROVE  /\ DOMAIN plan[s] = DOMAIN Unplanned
             /\ plan[s].frequency \in Frequencies \cup {"NONE"}
             /\ plan[s].total >= 0 /\ plan[s].amount >= 0 /\ plan[s].initial >= 0
             /\ plan[s].count = 0 <=> plan[s].frequency = "NONE"
             /\ paid[s] \in 0..plan[s].total
  <2>1. plan[s] \in PlanRows /\ paid[s] \in Nat /\ paid[s] <= plan[s].total
    BY DEF PlansInv, PlansTyped, SalesKept
  <2>2. DOMAIN plan[s] = DOMAIN Unplanned
    BY <2>1 DEF PlanRows, Unplanned
  <2>3. plan[s].count = 0 <=> plan[s].frequency = "NONE"
    BY DEF PlansInv, SalesKept, GoodRow
  <2>4. plan[s].total \in Nat /\ plan[s].amount \in Nat /\ plan[s].initial \in Nat
    BY <2>1 DEF PlanRows
  <2>5. plan[s].frequency \in Frequencies \cup {"NONE"}
    BY <2>1 DEF PlanRows
  <2>6. paid[s] \in 0..plan[s].total
    BY <2>1, <2>4
  <2>7. plan[s].total >= 0 /\ plan[s].amount >= 0 /\ plan[s].initial >= 0
    BY <2>4
  <2> QED
    BY <2>2, <2>3, <2>5, <2>6, <2>7
<1>2. ASSUME NEW c \in Sellers PROVE seller[c].pc \in {"rest", "sell", "edit"}
  BY DEF PlansInv, PlansTyped, SellerStates
<1>3. /\ limit \in Limits /\ planSteps \in 0..MaxPlanSteps
      /\ crossed \cup redated \subseteq CreditSales /\ strained \in BOOLEAN
  BY DEF PlansInv, PlansTyped
<1> QED
  BY <1>1, <1>2, <1>3 DEF PlansTypeOK
=============================================================================
