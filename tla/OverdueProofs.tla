--------------------------- MODULE OverdueProofs ---------------------------
(***************************************************************************)
(* The overdue job, its scheduler and the calendar, for any number of      *)
(* fulfillments and runs: what the history and the exceptions say is so    *)
(* whatever statement fails and whenever the process dies.                 *)
(***************************************************************************)
EXTENDS Overdue, FiniteSetTheorems, WellFoundedInduction, TLAPS

(* Induction over the natural numbers, for a set.                            *)
LEMMA SetInduction ==
    ASSUME NEW S, 0 \in S, \A n \in Nat : n \in S => n + 1 \in S
    PROVE  Nat \subseteq S
<1> SUFFICES ASSUME Nat \ S # {} PROVE FALSE
  OBVIOUS
<1> DEFINE R == OpToRel(<, Nat)
<1>1. IsWellFoundedOn(R, Nat)
  BY NatLessThanWellFounded, Zenon
<1>2. \A m, n \in Nat : m < n => <<m, n>> \in R
  BY Zenon DEF OpToRel
<1> HIDE DEF R
<1>3. PICK n \in Nat \ S : \A m \in Nat \ S : ~(<<m, n>> \in R)
  BY <1>1, WFMin
<1>4. n # 0 /\ n - 1 \in Nat /\ n - 1 < n
  OBVIOUS
<1>5. n - 1 \in Nat \ S
  BY <1>4
<1> QED
  BY <1>2, <1>3, <1>4, <1>5

-----------------------------------------------------------------------------
(* Time *)

LEMMA Sizes ==
    /\ DayLength \in Nat \ {0} /\ WeekLength \in Nat \ {0} /\ Need \in Nat \ {0}
    /\ PhysicalSLA \in Nat \ {0}
    /\ LastDay \in Nat /\ ServerOffset \in Nat /\ Window \in Nat
    /\ ServerOffset < DayLength
    /\ NULL \notin Nat
BY CalendarAssumption

LEMMA DivMod ==
    ASSUME NEW t \in Nat, NEW n \in Nat \ {0}
    PROVE  /\ t \div n \in Nat /\ t % n \in Nat /\ t % n < n
           /\ t = (t \div n) * n + (t % n)
OBVIOUS

LEMMA DivUnique ==
    ASSUME NEW q \in Nat, NEW n \in Nat \ {0}, NEW r \in Nat, r < n
    PROVE  (q * n + r) \div n = q /\ (q * n + r) % n = r
OBVIOUS

LEMMA DayType ==
    ASSUME NEW t \in Nat
    PROVE  /\ Day(t) \in Nat
           /\ Day(t) * DayLength <= t /\ t < Day(t) * DayLength + DayLength
           /\ t % DayLength = t - Day(t) * DayLength
BY Sizes, DivMod DEF Day

LEMMA Times ==
    ASSUME NEW q \in Nat, NEW n \in Nat
    PROVE  /\ q * n \in Nat /\ (q + 1) * n = q * n + n
           /\ (q + 2) * n = q * n + n + n
OBVIOUS

LEMMA DayIs ==
    ASSUME NEW q \in Nat, NEW r \in Nat, r < DayLength,
           NEW t, t = q * DayLength + r
    PROVE  Day(t) = q /\ t % DayLength = r
BY Sizes, DivUnique DEF Day

LEMMA DayGrows ==
    ASSUME NEW t \in Nat, NEW u \in Nat, t <= u
    PROVE  Day(t) <= Day(u)
<1>1. /\ Day(t) \in Nat /\ Day(u) \in Nat /\ DayLength \in Nat \ {0}
      /\ Day(t) * DayLength <= t /\ u < Day(u) * DayLength + DayLength
  BY DayType, Sizes
<1> DEFINE a == Day(t) b == Day(u)
<1> SUFFICES ASSUME b + 1 <= a PROVE FALSE
  BY <1>1
<1>2. (b + 1) * DayLength <= a * DayLength
  BY <1>1
<1>3. (b + 1) * DayLength = b * DayLength + DayLength
  BY <1>1
<1> QED
  BY <1>1, <1>2, <1>3

-----------------------------------------------------------------------------
(* Business time *)

IsOpen(cfg, black, u) ==
    /\ IsBusinessDay(cfg, black, Day(u))
    /\ cfg.opens <= u % DayLength
    /\ u % DayLength < cfg.closes

(* The business units from a to b.                                           *)
Passed(cfg, black, a, b) == Cardinality(OpenUnits(cfg, black, a, b))

LEMMA UnitsType ==
    ASSUME NEW cfg, NEW black, NEW a \in Nat, NEW b \in Nat
    PROVE  /\ OpenUnits(cfg, black, a, b) = { u \in a .. b - 1 : IsOpen(cfg, black, u) }
           /\ IsFiniteSet(OpenUnits(cfg, black, a, b))
           /\ Passed(cfg, black, a, b) \in Nat
<1>1. OpenUnits(cfg, black, a, b) = { u \in a .. b - 1 : IsOpen(cfg, black, u) }
  BY DEF OpenUnits, IsOpen
<1>2. IsFiniteSet(OpenUnits(cfg, black, a, b))
  <2> DEFINE I == a .. b - 1
  <2>1. IsFiniteSet(I)
    BY FS_Interval
  <2>2. OpenUnits(cfg, black, a, b) \in SUBSET I
    BY <1>1
  <2> HIDE DEF I
  <2> QED
    BY <2>1, <2>2, FS_Subset
<1> QED
  BY <1>1, <1>2, FS_CardinalityType DEF Passed

LEMMA PassedSplit ==
    ASSUME NEW cfg, NEW black, NEW a \in Nat, NEW b \in Nat, NEW c \in Nat, a <= b, b <= c
    PROVE  Passed(cfg, black, a, c) = Passed(cfg, black, a, b) + Passed(cfg, black, b, c)
<1> DEFINE A == OpenUnits(cfg, black, a, b)
           B == OpenUnits(cfg, black, b, c)
<1>1. OpenUnits(cfg, black, a, c) = A \cup B /\ A \cap B = {}
  BY UnitsType
<1>2. IsFiniteSet(A) /\ IsFiniteSet(B) /\ Cardinality(A) \in Nat /\ Cardinality(B) \in Nat
  BY UnitsType DEF Passed
<1> HIDE DEF A, B
<1>3. Cardinality(A \cup B) = Cardinality(A) + Cardinality(B) - Cardinality(A \cap B)
  BY <1>2, FS_Union
<1>4. Cardinality(A \cap B) = 0
  BY <1>1, FS_EmptySet
<1>5. Cardinality(A \cup B) = Cardinality(A) + Cardinality(B)
  BY <1>2, <1>3, <1>4
<1> QED
  BY <1>1, <1>5 DEF Passed, A, B

LEMMA PassedGrows ==
    ASSUME NEW cfg, NEW black, NEW a \in Nat, NEW b \in Nat, NEW c \in Nat, b <= c
    PROVE  Passed(cfg, black, a, b) <= Passed(cfg, black, a, c)
<1>1. OpenUnits(cfg, black, a, b) \in SUBSET OpenUnits(cfg, black, a, c)
  BY UnitsType
<1> QED
  BY <1>1, UnitsType, FS_Subset DEF Passed

LEMMA PassedAlike ==
    ASSUME NEW cfg, NEW black, NEW other, NEW a \in Nat, NEW b \in Nat,
           \A u \in a .. b - 1 : IsOpen(cfg, black, u) <=> IsOpen(cfg, other, u)
    PROVE  Passed(cfg, black, a, b) = Passed(cfg, other, a, b)
<1>1. /\ OpenUnits(cfg, black, a, b) = { u \in a .. b - 1 : IsOpen(cfg, black, u) }
      /\ OpenUnits(cfg, other, a, b) = { u \in a .. b - 1 : IsOpen(cfg, other, u) }
  BY UnitsType
<1>2. OpenUnits(cfg, black, a, b) = OpenUnits(cfg, other, a, b)
  BY <1>1
<1> QED
  BY <1>2 DEF Passed

-----------------------------------------------------------------------------
(* One turn of the loop over days *)

From(cfg, t) == LET start == Day(t) * DayLength + cfg.opens IN IF t < start THEN start ELSE t

End(cfg, t) == Day(t) * DayLength + cfg.closes

Next(cfg, t) == (Day(t) + 1) * DayLength + cfg.opens

LEMMA TurnType ==
    ASSUME NEW cfg \in Hours, NEW t \in Nat
    PROVE  /\ From(cfg, t) \in Nat /\ End(cfg, t) \in Nat /\ Next(cfg, t) \in Nat
           /\ t <= From(cfg, t) /\ t < Next(cfg, t) /\ End(cfg, t) <= Next(cfg, t)
           /\ Next(cfg, t) <= t + DayLength * 2
<1> DEFINE m == Day(t) * DayLength
<1>1. /\ cfg.opens \in Nat /\ cfg.closes \in Nat
      /\ cfg.opens <= DayLength /\ cfg.closes <= DayLength
      /\ DayLength \in Nat \ {0}
  BY Sizes DEF Hours
<1>2. /\ Day(t) \in Nat /\ m \in Nat /\ m <= t /\ t < m + DayLength
      /\ (Day(t) + 1) * DayLength = m + DayLength
  BY <1>1, DayType
<1>3. From(cfg, t) = IF t < m + cfg.opens THEN m + cfg.opens ELSE t
  BY DEF From
<1>4. End(cfg, t) = m + cfg.closes /\ Next(cfg, t) = (m + DayLength) + cfg.opens
  BY <1>2 DEF End, Next
<1> HIDE DEF m
<1> QED
  BY <1>1, <1>2, <1>3, <1>4

(* The unit u is in the turn that starts at t: it is open on the hours of    *)
(* t's day.                                                                  *)
LEMMA TurnOpen ==
    ASSUME NEW cfg \in Hours, NEW black, NEW t \in Nat, NEW u \in t .. Next(cfg, t) - 1
    PROVE  IsOpen(cfg, black, u) <=>
             IsBusinessDay(cfg, black, Day(t)) /\ From(cfg, t) <= u /\ u < End(cfg, t)
<1> DEFINE m == Day(t) * DayLength
<1>1. /\ cfg.opens \in Nat /\ cfg.closes \in Nat
      /\ cfg.opens <= DayLength /\ cfg.closes <= DayLength
      /\ DayLength \in Nat \ {0}
  BY Sizes DEF Hours
<1>2. /\ Day(t) \in Nat /\ m \in Nat /\ m <= t /\ t < m + DayLength
      /\ (Day(t) + 1) * DayLength = m + DayLength
      /\ (Day(t) + 2) * DayLength = m + DayLength + DayLength
  <2>1. DayLength \in Nat
    BY <1>1
  <2> QED
    BY <2>1, DayType, Times
<1>3. From(cfg, t) = IF t < m + cfg.opens THEN m + cfg.opens ELSE t
  BY DEF From
<1>4. End(cfg, t) = m + cfg.closes /\ Next(cfg, t) = (m + DayLength) + cfg.opens
  BY <1>2 DEF End, Next
<1>5. u \in Nat /\ t <= u /\ u < Next(cfg, t)
  BY TurnType
<1>6. CASE u < m + DayLength
  <2> DEFINE r == u - m
  <2>1. r \in Nat /\ r < DayLength /\ u = m + r
    BY <1>1, <1>2, <1>5, <1>6
  <2>2. Day(u) = Day(t) /\ u % DayLength = r
    BY <1>2, <2>1, DayIs
  <2> HIDE DEF m
  <2> QED
    BY <1>1, <1>2, <1>3, <1>4, <1>5, <2>1, <2>2 DEF IsOpen
<1>7. CASE u >= m + DayLength /\ u < m + DayLength + DayLength
  <2> DEFINE r == u - (m + DayLength)
             q == Day(t) + 1
  <2>1. r \in Nat /\ r < DayLength /\ u = q * DayLength + r /\ r < cfg.opens
    BY <1>1, <1>2, <1>4, <1>5, <1>7
  <2>2. u % DayLength = r
    <3>1. q \in Nat
      BY <1>2
    <3> HIDE DEF q, r
    <3> QED
      BY <2>1, <3>1, DayIs
  <2>3. ~IsOpen(cfg, black, u)
    BY <1>1, <2>1, <2>2 DEF IsOpen
  <2> HIDE DEF m
  <2>4. ~(u < End(cfg, t))
    BY <1>1, <1>2, <1>4, <1>5, <1>7
  <2> QED
    BY <2>3, <2>4
<1>8. u < m + DayLength + DayLength
  <2> HIDE DEF m
  <2> QED
    BY <1>1, <1>2, <1>4, <1>5
<1> QED
  BY <1>1, <1>2, <1>5, <1>6, <1>7, <1>8

(* What has passed of the turn by the moment e.                              *)
LEMMA TurnPassed ==
    ASSUME NEW cfg \in Hours, NEW black, NEW t \in Nat, NEW e \in t .. Next(cfg, t)
    PROVE  /\ \/ ~IsBusinessDay(cfg, black, Day(t))
              \/ From(cfg, t) >= End(cfg, t)
              \/ e <= From(cfg, t)
              => Passed(cfg, black, t, e) = 0
           /\ /\ IsBusinessDay(cfg, black, Day(t))
              /\ From(cfg, t) <= e /\ e <= End(cfg, t)
              => Passed(cfg, black, t, e) = e - From(cfg, t)
           /\ /\ IsBusinessDay(cfg, black, Day(t))
              /\ From(cfg, t) < End(cfg, t) /\ End(cfg, t) <= e
              => Passed(cfg, black, t, e) = End(cfg, t) - From(cfg, t)
<1> DEFINE a == From(cfg, t) z == End(cfg, t) U == OpenUnits(cfg, black, t, e)
<1>1. a \in Nat /\ z \in Nat /\ e \in Nat /\ t <= a
  BY TurnType
<1>2. \A u \in t .. e - 1 : IsOpen(cfg, black, u) <=>
                              IsBusinessDay(cfg, black, Day(t)) /\ a <= u /\ u < z
  BY TurnType, TurnOpen
<1>3. U = { u \in t .. e - 1 : IsBusinessDay(cfg, black, Day(t)) /\ a <= u /\ u < z }
  BY <1>1, <1>2, UnitsType
<1> HIDE DEF a, z, U
<1>4. ASSUME ~IsBusinessDay(cfg, black, Day(t)) \/ a >= z \/ e <= a
      PROVE  Cardinality(U) = 0
  <2>1. U = {}
    BY <1>1, <1>3, <1>4
  <2> QED
    BY <2>1, FS_EmptySet
<1>5. ASSUME IsBusinessDay(cfg, black, Day(t)), a <= e, e <= z
      PROVE  Cardinality(U) = e - a
  <2>1. U = a .. e - 1
    BY <1>1, <1>3, <1>5
  <2>2. Cardinality(a .. e - 1) = IF a > e - 1 THEN 0 ELSE e - 1 - a + 1
    BY <1>1, FS_Interval
  <2> QED
    BY <1>1, <1>5, <2>1, <2>2
<1>6. ASSUME IsBusinessDay(cfg, black, Day(t)), a < z, z <= e
      PROVE  Cardinality(U) = z - a
  <2>1. U = a .. z - 1
    BY <1>1, <1>3, <1>6
  <2>2. Cardinality(a .. z - 1) = IF a > z - 1 THEN 0 ELSE z - 1 - a + 1
    BY <1>1, FS_Interval
  <2> QED
    BY <1>1, <1>6, <2>1, <2>2
<1> QED
  BY <1>4, <1>5, <1>6 DEF Passed, a, z, U

-----------------------------------------------------------------------------
(* The loop *)

LastTurn == Horizon + DayLength * 2

WalkDomain == (0 .. LastTurn) \X (1 .. Need)

(* The turn of the loop at t, which goes on as walk does.                    *)
Turn(cfg, black, walk, t, left) ==
    IF t > Horizon THEN NULL
    ELSE IF ~IsBusinessDay(cfg, black, Day(t)) \/ From(cfg, t) >= End(cfg, t)
         THEN walk[<<Next(cfg, t), left>>]
    ELSE IF left <= End(cfg, t) - From(cfg, t) THEN From(cfg, t) + left
    ELSE walk[<<Next(cfg, t), left - (End(cfg, t) - From(cfg, t))>>]

LEMMA HorizonType == Horizon \in Nat /\ LastTurn \in Nat
<1>1. /\ DayLength \in Nat /\ LastDay \in Nat /\ WeekLength \in Nat /\ Need \in Nat
  BY Sizes
<1>2. WeekLength * (Need + 1) \in Nat
  BY <1>1
<1>3. LastDay + 2 + WeekLength * (Need + 1) \in Nat
  BY <1>1, <1>2
<1>4. \A n \in Nat : DayLength * n \in Nat
  BY <1>1
<1> QED
  BY <1>1, <1>3, <1>4 DEF Horizon, LastTurn

LEMMA WalkDef ==
    ASSUME NEW cfg, NEW black
    PROVE  Walk(cfg, black) =
             CHOOSE walk : walk = [p \in WalkDomain |-> Turn(cfg, black, walk, p[1], p[2])]
BY DEF Walk, Turn, From, End, Next, WalkDomain, LastTurn

(* A turn needs nothing of walk but its later turns.                         *)
LEMMA TurnAlike ==
    ASSUME NEW cfg \in Hours, NEW black, NEW v, NEW w, NEW t \in 0 .. LastTurn,
           NEW left \in 1 .. Need,
           \A p \in WalkDomain : p[1] > t => v[p] = w[p]
    PROVE  Turn(cfg, black, v, t, left) = Turn(cfg, black, w, t, left)
<1> DEFINE a == From(cfg, t) z == End(cfg, t) n == Next(cfg, t)
<1>1. /\ t \in Nat /\ Horizon \in Nat /\ LastTurn = Horizon + DayLength * 2
      /\ DayLength * 2 \in Nat /\ Need \in Nat
  BY HorizonType, Sizes DEF LastTurn
<1>2. a \in Nat /\ z \in Nat /\ n \in Nat /\ t < n /\ n <= t + DayLength * 2
  BY <1>1, TurnType
<1>3. ASSUME ~(t > Horizon), NEW k \in 1 .. Need
      PROVE  v[<<n, k>>] = w[<<n, k>>]
  <2> HIDE DEF n
  <2>1. n \in 0 .. LastTurn
    BY <1>1, <1>2, <1>3
  <2>2. <<n, k>> \in WalkDomain /\ <<n, k>>[1] = n
    BY <1>3, <2>1 DEF WalkDomain
  <2> QED
    BY <1>1, <1>2, <2>2
<1> HIDE DEF a, z, n
<1>4. a < z /\ ~(left <= z - a) => left - (z - a) \in 1 .. Need
  BY <1>1, <1>2
<1>5. a < z \/ a >= z
  BY <1>2
<1> QED
  BY <1>3, <1>4, <1>5 DEF Turn, a, z, n

(* There is such a function: by induction over the turns it is right for.    *)
LEMMA WalkExists ==
    ASSUME NEW cfg \in Hours, NEW black
    PROVE  \E walk : walk = [p \in WalkDomain |-> Turn(cfg, black, walk, p[1], p[2])]
<1> DEFINE Right(walk, n) ==
             /\ walk = [p \in WalkDomain |-> walk[p]]
             /\ \A p \in WalkDomain :
                  p[1] > LastTurn - n => walk[p] = Turn(cfg, black, walk, p[1], p[2])
           S == { n \in Nat : \E walk : Right(walk, n) }
<1>1. LastTurn \in Nat /\ Need \in Nat
  BY HorizonType, Sizes
<1>2. \A p \in WalkDomain : p[1] \in 0 .. LastTurn /\ p[2] \in 1 .. Need
  BY DEF WalkDomain
<1>3. 0 \in S
  <2> DEFINE none == [p \in WalkDomain |-> NULL]
  <2>1. none = [p \in WalkDomain |-> none[p]]
    OBVIOUS
  <2>2. \A p \in WalkDomain : ~(p[1] > LastTurn - 0)
    BY <1>1, <1>2
  <2> HIDE DEF none
  <2> QED
    BY <2>1, <2>2
<1>4. ASSUME NEW n \in Nat, n \in S
      PROVE  n + 1 \in S
  <2>1. PICK v : Right(v, n)
    BY <1>4
  <2> DEFINE w == [p \in WalkDomain |-> Turn(cfg, black, v, p[1], p[2])]
  <2>2. w = [p \in WalkDomain |-> w[p]]
    OBVIOUS
  <2>3. \A p \in WalkDomain : p[1] > LastTurn - n => w[p] = v[p]
    BY <2>1
  <2>4. \A p \in WalkDomain : w[p] = Turn(cfg, black, v, p[1], p[2])
    OBVIOUS
  <2> HIDE DEF w
  <2>5. ASSUME NEW p \in WalkDomain, p[1] > LastTurn - (n + 1)
        PROVE  w[p] = Turn(cfg, black, w, p[1], p[2])
    <3>1. \A q \in WalkDomain : q[1] > p[1] => w[q] = v[q]
      <4>1. \A q \in WalkDomain : q[1] > p[1] => q[1] > LastTurn - n
        BY <1>1, <1>2, <2>5
      <4> QED
        BY <2>3, <4>1
    <3>2. p[1] \in 0 .. LastTurn /\ p[2] \in 1 .. Need
      BY <1>2
    <3>3. Turn(cfg, black, w, p[1], p[2]) = Turn(cfg, black, v, p[1], p[2])
      BY <3>1, <3>2, TurnAlike
    <3> QED
      BY <2>4, <3>3
  <2>6. Right(w, n + 1)
    BY <2>2, <2>5
  <2> QED
    BY <2>6
<1> HIDE DEF S
<1>5. LastTurn + 1 \in S
  <2>1. Nat \subseteq S
    BY <1>3, <1>4, SetInduction
  <2>2. LastTurn + 1 \in Nat
    BY <1>1
  <2> QED
    BY <2>1, <2>2
<1> USE DEF S
<1>6. PICK walk : Right(walk, LastTurn + 1)
  BY <1>5
<1>7. \A p \in WalkDomain : p[1] > LastTurn - (LastTurn + 1)
  BY <1>1, <1>2
<1>8. \A p \in WalkDomain : walk[p] = Turn(cfg, black, walk, p[1], p[2])
  BY <1>6, <1>7
<1>9. walk = [p \in WalkDomain |-> walk[p]]
  BY <1>6
<1>10. walk = [p \in WalkDomain |-> Turn(cfg, black, walk, p[1], p[2])]
  <2> HIDE DEF Right
  <2> QED
    BY <1>8, <1>9
<1> QED
  BY <1>10

LEMMA WalkTurn ==
    ASSUME NEW cfg \in Hours, NEW black, NEW t \in 0 .. LastTurn, NEW left \in 1 .. Need
    PROVE  Walk(cfg, black)[<<t, left>>] = Turn(cfg, black, Walk(cfg, black), t, left)
<1> DEFINE w == Walk(cfg, black)
<1>1. w = [p \in WalkDomain |-> Turn(cfg, black, w, p[1], p[2])]
  BY WalkDef, WalkExists, Zenon
<1>2. <<t, left>> \in WalkDomain
  BY DEF WalkDomain
<1> HIDE DEF w
<1>3. w[<<t, left>>] = Turn(cfg, black, w, t, left)
  BY <1>1, <1>2
<1> QED
  BY <1>3 DEF w

-----------------------------------------------------------------------------
(* What the loop computes *)

(* By d, and no earlier, left units have passed since t; without d they have *)
(* not by the horizon.                                                       *)
Exact(cfg, black, t, left, d) ==
    IF d = NULL THEN \A e \in t .. Horizon : Passed(cfg, black, t, e) < left
    ELSE /\ d \in Nat /\ t <= d
         /\ Passed(cfg, black, t, d) = left
         /\ \A e \in t .. d - 1 : Passed(cfg, black, t, e) < left

(* What is exact from the next turn on is exact from this one on.            *)
LEMMA ExactBefore ==
    ASSUME NEW cfg \in Hours, NEW black, NEW t \in Nat, NEW k \in 1 .. Need, NEW d,
           NEW gone \in Nat, gone = Passed(cfg, black, t, Next(cfg, t)),
           Exact(cfg, black, Next(cfg, t), k, d)
    PROVE  Exact(cfg, black, t, k + gone, d)
<1> DEFINE n == Next(cfg, t)
<1>1. n \in Nat /\ t < n /\ k \in Nat /\ k >= 1
  BY TurnType, Sizes
<1>2. \A e \in Nat : n <= e => Passed(cfg, black, t, e) = gone + Passed(cfg, black, n, e)
  <2> HIDE DEF n
  <2> QED
    BY <1>1, PassedSplit DEF n
<1>3. \A e \in Nat : e < n => Passed(cfg, black, t, e) <= gone
  BY <1>1, PassedGrows
<1>4. \A e \in Nat : Passed(cfg, black, t, e) \in Nat /\ Passed(cfg, black, n, e) \in Nat
  BY <1>1, UnitsType
<1>5. Exact(cfg, black, n, k, d)
  OBVIOUS
<1>6. Horizon \in Nat
  BY HorizonType
<1> HIDE DEF n
<1>7. CASE d = NULL
  <2>1. \A e \in n .. Horizon : Passed(cfg, black, n, e) < k
    BY <1>5, <1>7 DEF Exact
  <2>2. ASSUME NEW e \in t .. Horizon
        PROVE  Passed(cfg, black, t, e) < k + gone
    <3>1. e \in Nat
      BY <1>6
    <3>2. CASE e < n
      BY <1>1, <1>3, <1>4, <3>1, <3>2
    <3>3. CASE n <= e
      <4>1. Passed(cfg, black, n, e) < k
        BY <1>1, <1>6, <2>1, <3>1, <3>3
      <4> QED
        BY <1>1, <1>2, <1>4, <3>1, <3>3, <4>1
    <3> QED
      BY <1>1, <3>1, <3>2, <3>3
  <2> QED
    BY <1>7, <2>2 DEF Exact
<1>8. CASE d # NULL
  <2>1. /\ d \in Nat /\ n <= d /\ Passed(cfg, black, n, d) = k
        /\ \A e \in n .. d - 1 : Passed(cfg, black, n, e) < k
    BY <1>5, <1>8 DEF Exact
  <2>2. t <= d /\ Passed(cfg, black, t, d) = k + gone
    BY <1>1, <1>2, <2>1
  <2>3. ASSUME NEW e \in t .. d - 1
        PROVE  Passed(cfg, black, t, e) < k + gone
    <3>1. e \in Nat
      OBVIOUS
    <3>2. CASE e < n
      BY <1>1, <1>3, <1>4, <3>1, <3>2
    <3>3. CASE n <= e
      <4>1. Passed(cfg, black, n, e) < k
        BY <1>1, <2>1, <3>1, <3>3
      <4> QED
        BY <1>1, <1>2, <1>4, <3>1, <3>3, <4>1
    <3> QED
      BY <1>1, <3>1, <3>2, <3>3
  <2> QED
    BY <1>8, <2>1, <2>2, <2>3 DEF Exact
<1> QED
  BY <1>7, <1>8

LEMMA TurnExact ==
    ASSUME NEW cfg \in Hours, NEW black, NEW w, NEW t \in 0 .. LastTurn, NEW left \in 1 .. Need,
           t <= Horizon =>
             \A k \in 1 .. Need : Exact(cfg, black, Next(cfg, t), k, w[<<Next(cfg, t), k>>])
    PROVE  Exact(cfg, black, t, left, Turn(cfg, black, w, t, left))
<1> DEFINE a == From(cfg, t) z == End(cfg, t) n == Next(cfg, t)
           d == Turn(cfg, black, w, t, left)
<1>1. t \in Nat /\ Horizon \in Nat /\ Need \in Nat /\ left \in Nat /\ left >= 1 /\ NULL \notin Nat
  BY HorizonType, Sizes
<1>2. a \in Nat /\ z \in Nat /\ n \in Nat /\ t <= a /\ t < n /\ z <= n
  BY <1>1, TurnType
<1>3. CASE t > Horizon
  <2>1. d = NULL
    BY <1>3 DEF Turn
  <2>2. \A e \in t .. Horizon : FALSE
    BY <1>1, <1>3
  <2> QED
    BY <2>1, <2>2 DEF Exact
<1>4. CASE t <= Horizon /\ (~IsBusinessDay(cfg, black, Day(t)) \/ a >= z)
  <2>1. d = w[<<n, left>>]
    BY <1>1, <1>4 DEF Turn
  <2>2. Passed(cfg, black, t, n) = 0
    BY <1>1, <1>2, <1>4, TurnPassed
  <2>3. Exact(cfg, black, n, left, d)
    BY <1>4, <2>1
  <2>4. Exact(cfg, black, t, left + 0, d)
    <3> HIDE DEF d
    <3> QED
      BY <1>1, <2>2, <2>3, ExactBefore
  <2> QED
    BY <1>1, <2>4
<1>5. CASE t <= Horizon /\ IsBusinessDay(cfg, black, Day(t)) /\ a < z /\ left <= z - a
  <2>1. d = a + left
    BY <1>1, <1>2, <1>5 DEF Turn
  <2> HIDE DEF a, z, n, d
  <2>2. d \in Nat /\ d # NULL /\ t <= d /\ a <= d /\ d <= z /\ d \in t .. n
    BY <1>1, <1>2, <1>5, <2>1
  <2>3. Passed(cfg, black, t, d) = left
    <3>1. Passed(cfg, black, t, d) = d - a
      BY <1>1, <1>5, <2>2, TurnPassed DEF a, z, n
    <3> QED
      BY <1>1, <1>2, <2>1, <3>1
  <2>4. ASSUME NEW e \in t .. d - 1
        PROVE  Passed(cfg, black, t, e) < left
    <3>1. e \in Nat /\ e \in t .. n /\ e <= z /\ e < a + left
      BY <1>1, <1>2, <2>1, <2>2
    <3>2. CASE e <= a
      <4>1. Passed(cfg, black, t, e) = 0
        BY <1>1, <3>1, <3>2, TurnPassed DEF a, z, n
      <4> QED
        BY <1>1, <4>1
    <3>3. CASE a <= e
      <4>1. Passed(cfg, black, t, e) = e - a
        BY <1>1, <1>5, <3>1, <3>3, TurnPassed DEF a, z, n
      <4> QED
        BY <1>1, <1>2, <3>1, <4>1
    <3> QED
      BY <1>2, <3>1, <3>2, <3>3
  <2>5. Exact(cfg, black, t, left, d)
    BY <2>2, <2>3, <2>4 DEF Exact
  <2> QED
    BY <2>5 DEF d
<1>6. CASE t <= Horizon /\ IsBusinessDay(cfg, black, Day(t)) /\ a < z /\ ~(left <= z - a)
  <2> DEFINE k == left - (z - a)
  <2>1. d = w[<<n, k>>]
    BY <1>1, <1>2, <1>6 DEF Turn
  <2>2. Passed(cfg, black, t, n) = z - a
    BY <1>1, <1>2, <1>6, TurnPassed
  <2> HIDE DEF a, z
  <2>3. k \in 1 .. Need /\ z - a \in Nat /\ k + (z - a) = left
    BY <1>1, <1>2, <1>6
  <2>4. Exact(cfg, black, n, k, d)
    BY <1>6, <2>1, <2>3
  <2>5. Exact(cfg, black, t, k + (z - a), d)
    <3> HIDE DEF d, k
    <3> QED
      BY <1>1, <2>2, <2>3, <2>4, ExactBefore
  <2> QED
    BY <2>3, <2>5
<1> QED
  BY <1>1, <1>2, <1>3, <1>4, <1>5, <1>6

LEMMA WalkExact ==
    ASSUME NEW cfg \in Hours, NEW black, NEW t \in 0 .. LastTurn, NEW left \in 1 .. Need
    PROVE  Exact(cfg, black, t, left, Walk(cfg, black)[<<t, left>>])
<1> DEFINE w == Walk(cfg, black)
           S == { n \in Nat : \A u \in 0 .. LastTurn, k \in 1 .. Need :
                    u > LastTurn - n => Exact(cfg, black, u, k, w[<<u, k>>]) }
<1>1. LastTurn \in Nat /\ Horizon \in Nat /\ LastTurn = Horizon + DayLength * 2 /\ DayLength * 2 \in Nat
  BY HorizonType, Sizes DEF LastTurn
<1>2. 0 \in S
  BY <1>1
<1>3. ASSUME NEW n \in Nat, n \in S
      PROVE  n + 1 \in S
  <2>1. ASSUME NEW u \in 0 .. LastTurn, NEW k \in 1 .. Need, u > LastTurn - (n + 1)
        PROVE  Exact(cfg, black, u, k, w[<<u, k>>])
    <3>1. u \in Nat /\ Next(cfg, u) \in Nat /\ u < Next(cfg, u) /\ Next(cfg, u) <= u + DayLength * 2
      BY <1>1, TurnType
    <3>2. u <= Horizon => Next(cfg, u) \in 0 .. LastTurn /\ Next(cfg, u) > LastTurn - n
      BY <1>1, <1>3, <2>1, <3>1
    <3>3. u <= Horizon =>
            \A l \in 1 .. Need : Exact(cfg, black, Next(cfg, u), l, w[<<Next(cfg, u), l>>])
      BY <1>3, <3>2
    <3>4. w[<<u, k>>] = Turn(cfg, black, w, u, k)
      BY WalkTurn
    <3> HIDE DEF w
    <3> QED
      BY <3>3, <3>4, TurnExact
  <2> QED
    BY <1>3, <2>1
<1> HIDE DEF S
<1>4. LastTurn + 1 \in S
  <2>1. Nat \subseteq S
    BY <1>2, <1>3, SetInduction
  <2> QED
    BY <1>1, <2>1
<1>5. t > LastTurn - (LastTurn + 1)
  BY <1>1
<1> QED
  BY <1>4, <1>5 DEF S

LEMMA VoucherExact ==
    ASSUME NEW cfg \in Hours, NEW black, NEW ready \in 0 .. LastTurn
    PROVE  Exact(cfg, black, ready, Need, VoucherDeadline(cfg, black, ready))
<1>1. Need \in 1 .. Need
  BY Sizes
<1> QED
  BY <1>1, WalkExact DEF VoucherDeadline

-----------------------------------------------------------------------------
(* Beyond the last date every week is the same *)

(* The hour at which the day n of the weekday of u opens, weeks counted from *)
(* the last date.                                                            *)
WeekdayAgain(u, n) == (LastDay \div WeekLength + n) * WeekLength + (Day(u) % WeekLength)

LEMMA WeekdayType ==
    ASSUME NEW u \in Nat, NEW n \in 1 .. Need
    PROVE  /\ WeekdayAgain(u, n) \in Nat
           /\ WeekdayAgain(u, n) % WeekLength = Day(u) % WeekLength
           /\ WeekdayAgain(u, n) \div WeekLength = LastDay \div WeekLength + n
           /\ LastDay < WeekdayAgain(u, n)
           /\ WeekdayAgain(u, n) + 1 <= LastDay + 2 + WeekLength * (Need + 1)
<1> DEFINE q == LastDay \div WeekLength
           r == Day(u) % WeekLength
           m == q * WeekLength
<1>1. /\ WeekLength \in Nat \ {0} /\ LastDay \in Nat /\ Need \in Nat
      /\ n \in Nat /\ 1 <= n /\ n <= Need
  BY Sizes
<1>2. Day(u) \in Nat /\ q \in Nat /\ r \in Nat /\ r < WeekLength
      /\ m <= LastDay /\ LastDay < m + WeekLength /\ m \in Nat
  <2>1. LastDay % WeekLength < WeekLength /\ LastDay % WeekLength \in Nat /\ q \in Nat
        /\ LastDay = m + (LastDay % WeekLength)
    BY <1>1, DivMod
  <2>2. m \in Nat
    BY <1>1, <2>1
  <2>3. Day(u) \in Nat
    BY DayType
  <2>4. r \in Nat /\ r < WeekLength
    BY <1>1, <2>3, DivMod
  <2> HIDE DEF q, r, m
  <2> QED
    BY <1>1, <2>1, <2>2, <2>3, <2>4
<1>3. WeekdayAgain(u, n) = (q + n) * WeekLength + r
  BY DEF WeekdayAgain
<1> HIDE DEF q, r
<1>4. /\ (q + n) * WeekLength = m + n * WeekLength
      /\ WeekLength <= n * WeekLength
      /\ n * WeekLength <= Need * WeekLength
      /\ WeekLength * (Need + 1) = Need * WeekLength + WeekLength
      /\ n * WeekLength \in Nat /\ Need * WeekLength \in Nat
  BY <1>1, <1>2
<1> HIDE DEF m
<1>5. /\ WeekdayAgain(u, n) \in Nat /\ LastDay < WeekdayAgain(u, n)
      /\ WeekdayAgain(u, n) + 1 <= LastDay + 2 + WeekLength * (Need + 1)
  BY <1>1, <1>2, <1>3, <1>4
<1>6. WeekdayAgain(u, n) % WeekLength = r /\ WeekdayAgain(u, n) \div WeekLength = q + n
  <2> DEFINE k == q + n
  <2>1. k \in Nat
    BY <1>1, <1>2
  <2>2. WeekdayAgain(u, n) = k * WeekLength + r
    BY <1>3
  <2> HIDE DEF k
  <2>3. (k * WeekLength + r) \div WeekLength = k /\ (k * WeekLength + r) % WeekLength = r
    BY <1>1, <1>2, <2>1, DivUnique
  <2> QED
    BY <2>2, <2>3 DEF k
<1> QED
  BY <1>5, <1>6 DEF q, r

(* Hours that are open once are open Need times before the horizon.          *)
LEMMA OpenAgain ==
    ASSUME NEW cfg \in Hours, NEW black, black \subseteq 0 .. LastDay,
           NEW u \in Nat, IsOpen(cfg, black, u),
           NEW ready \in Nat, ready < (LastDay + 1) * DayLength
    PROVE  Passed(cfg, black, ready, Horizon) >= Need
<1> DEFINE day(n) == WeekdayAgain(u, n)
           f == [n \in 1 .. Need |-> day(n) * DayLength + cfg.opens]
           U == OpenUnits(cfg, black, ready, Horizon)
<1>1. /\ cfg.opens \in Nat /\ cfg.opens < DayLength /\ cfg.opens < cfg.closes
      /\ Day(u) % WeekLength \in cfg.days
  <2>1. /\ cfg.opens \in Nat /\ cfg.closes \in Nat /\ cfg.closes <= DayLength /\ DayLength \in Nat
        /\ u % DayLength \in Nat
    BY Sizes, DivMod DEF Hours
  <2>2. cfg.opens <= u % DayLength /\ u % DayLength < cfg.closes
    BY DEF IsOpen
  <2>3. Day(u) % WeekLength \in cfg.days
    BY DEF IsOpen, IsBusinessDay
  <2> QED
    BY <2>1, <2>2, <2>3
<1>2. /\ DayLength \in Nat \ {0} /\ LastDay \in Nat /\ Horizon \in Nat /\ Need \in Nat
      /\ WeekLength * (Need + 1) \in Nat
  <2>1. WeekLength \in Nat /\ Need \in Nat
    BY Sizes
  <2>2. WeekLength * (Need + 1) \in Nat
    BY <2>1
  <2> QED
    BY <2>1, <2>2, HorizonType, Sizes
<1>3. ASSUME NEW n \in 1 .. Need
      PROVE  /\ f[n] \in U /\ Day(f[n]) = day(n)
  <2> DEFINE k == day(n) * DayLength
  <2>1. /\ day(n) \in Nat /\ day(n) % WeekLength = Day(u) % WeekLength
        /\ LastDay < day(n) /\ day(n) + 1 <= LastDay + 2 + WeekLength * (Need + 1)
    BY WeekdayType
  <2> HIDE DEF day
  <2>2. f[n] = k + cfg.opens
    OBVIOUS
  <2> HIDE DEF f
  <2>3. Day(f[n]) = day(n) /\ f[n] % DayLength = cfg.opens
    BY <1>1, <2>1, <2>2, DayIs
  <2>4. k \in Nat /\ (LastDay + 1) * DayLength <= k
    BY <1>2, <2>1
  <2>5. k + DayLength <= Horizon
    <3>1. (day(n) + 1) * DayLength = k + DayLength
      BY <1>2, <2>1
    <3>2. ASSUME NEW b \in Nat, day(n) + 1 <= b
          PROVE  (day(n) + 1) * DayLength <= DayLength * b
      BY <1>2, <2>1, <3>2
    <3>3. LastDay + 2 + WeekLength * (Need + 1) \in Nat
      BY <1>2
    <3> QED
      BY <2>1, <3>1, <3>2, <3>3 DEF Horizon
  <2>6. f[n] \in ready .. Horizon - 1
    <3>1. (LastDay + 1) * DayLength \in Nat
      BY <1>2
    <3> HIDE DEF k
    <3> QED
      BY <1>1, <1>2, <2>2, <2>4, <2>5, <3>1
  <2>7. IsOpen(cfg, black, f[n])
    <3>1. day(n) \notin black
      BY <1>2, <2>1
    <3> QED
      BY <1>1, <2>1, <2>3, <3>1 DEF IsOpen, IsBusinessDay
  <2>8. f[n] \in U
    BY <1>2, <2>6, <2>7, UnitsType
  <2> QED
    BY <2>3, <2>8
<1>4. ASSUME NEW m \in 1 .. Need, NEW n \in 1 .. Need, f[m] = f[n]
      PROVE  m = n
  <2>1. day(m) = day(n)
    <3> HIDE DEF f, day
    <3> QED
      BY <1>3, <1>4
  <2>2. LastDay \div WeekLength + m = LastDay \div WeekLength + n
    BY <2>1, WeekdayType
  <2>3. LastDay \div WeekLength \in Nat
    BY Sizes, DivMod
  <2> QED
    BY <1>2, <2>2, <2>3
<1>5. f \in Injection(1 .. Need, U)
  <2>1. f \in [1 .. Need -> U]
    BY <1>3
  <2>2. DOMAIN f = 1 .. Need
    OBVIOUS
  <2> HIDE DEF f
  <2> QED
    BY <1>4, <2>1, <2>2 DEF Injection, IsInjective
<1>6. IsFiniteSet(U) /\ Cardinality(U) = Passed(cfg, black, ready, Horizon)
      /\ Cardinality(U) \in Nat
  BY <1>2, UnitsType DEF Passed
<1> HIDE DEF f, U
<1>7. Cardinality(1 .. Need) <= Cardinality(U)
  BY <1>5, <1>6, FS_Injection
<1>8. Cardinality(1 .. Need) = Need
  BY <1>2, FS_Interval
<1> QED
  BY <1>2, <1>6, <1>7, <1>8

-----------------------------------------------------------------------------
(* The deadline and its reference *)

LEMMA ReferenceIs ==
    ASSUME NEW cfg, NEW black, NEW ready \in Nat, NEW d,
           Exact(cfg, black, ready, Need, d), d # NULL => d <= Horizon
    PROVE  d = ReferenceDeadline(cfg, black, ready)
<1> DEFINE Enough == { e \in ready .. Horizon :
                         Cardinality(OpenUnits(cfg, black, ready, e)) >= Need }
<1>1. Horizon \in Nat /\ Need \in Nat
  BY HorizonType, Sizes
<1>2. \A e \in ready .. Horizon :
        /\ e \in Nat
        /\ Passed(cfg, black, ready, e) \in Nat
        /\ e \in Enough <=> Passed(cfg, black, ready, e) >= Need
  <2>1. \A e \in ready .. Horizon : e \in Nat /\ Passed(cfg, black, ready, e) \in Nat
    <3>1. \A e \in ready .. Horizon : e \in Nat
      BY <1>1
    <3> QED
      BY <3>1, UnitsType
  <2>2. \A e \in ready .. Horizon : e \in Enough <=> Passed(cfg, black, ready, e) >= Need
    BY DEF Passed
  <2> QED
    BY <2>1, <2>2
<1>3. ReferenceDeadline(cfg, black, ready) =
        IF Enough = {} THEN NULL ELSE CHOOSE e \in Enough : \A g \in Enough : e <= g
  BY DEF ReferenceDeadline
<1>4. Enough \subseteq ready .. Horizon
  OBVIOUS
<1> HIDE DEF Enough
<1>5. CASE d = NULL
  <2>1. \A e \in ready .. Horizon : Passed(cfg, black, ready, e) < Need
    BY <1>5 DEF Exact
  <2>2. Enough = {}
    BY <1>1, <1>2, <1>4, <2>1
  <2> QED
    BY <1>3, <1>5, <2>2
<1>6. CASE d # NULL
  <2>1. /\ d \in Nat /\ ready <= d /\ d <= Horizon
        /\ Passed(cfg, black, ready, d) = Need
        /\ \A e \in ready .. d - 1 : Passed(cfg, black, ready, e) < Need
    BY <1>6 DEF Exact
  <2>2. d \in Enough
    BY <1>1, <1>2, <2>1
  <2>3. \A g \in Enough : g \in Nat /\ d <= g
    <3> SUFFICES ASSUME NEW g \in Enough
                 PROVE  g \in Nat /\ d <= g
      OBVIOUS
    <3>1. g \in ready .. Horizon /\ g \in Nat /\ Passed(cfg, black, ready, g) >= Need
      BY <1>2, <1>4
    <3>2. ~(g \in ready .. d - 1)
      BY <1>1, <1>2, <2>1, <3>1
    <3> QED
      BY <1>1, <2>1, <3>1, <3>2
  <2>4. \A e \in Enough : (\A g \in Enough : e <= g) => e = d
    BY <2>1, <2>2, <2>3
  <2>5. (CHOOSE e \in Enough : \A g \in Enough : e <= g) = d
    BY <2>2, <2>3, <2>4
  <2> QED
    BY <1>3, <2>2, <2>5
<1> QED
  BY <1>5, <1>6

(* The server's date is the local one or the next.                           *)
LEMMA ServerDayType ==
    ASSUME NEW t \in Nat
    PROVE  ServerDay(t) \in Nat /\ Day(t) <= ServerDay(t) /\ ServerDay(t) <= Day(t) + 1
<1>1. /\ DayLength \in Nat \ {0} /\ ServerOffset \in Nat /\ ServerOffset < DayLength
      /\ t + ServerOffset \in Nat
  BY Sizes
<1>2. Day(t) \in Nat /\ t < Day(t) * DayLength + DayLength /\ ServerDay(t) = Day(t + ServerOffset)
  BY DayType DEF Day, ServerDay
<1>3. ServerDay(t) \in Nat /\ ServerDay(t) * DayLength <= t + ServerOffset /\ Day(t) <= ServerDay(t)
  <2> DEFINE u == t + ServerOffset
  <2>1. u \in Nat /\ t <= u /\ ServerDay(t) = Day(u)
    BY <1>1, <1>2
  <2> HIDE DEF u
  <2>2. Day(u) \in Nat /\ Day(u) * DayLength <= u /\ Day(t) <= Day(u)
    BY <2>1, DayType, DayGrows
  <2> QED
    BY <2>1, <2>2 DEF u
<1>4. ServerDay(t) <= Day(t) + 1
  <2> DEFINE a == Day(t) b == ServerDay(t)
  <2> SUFFICES ASSUME a + 2 <= b PROVE FALSE
    BY <1>2, <1>3
  <2> HIDE DEF a, b
  <2>1. a \in Nat /\ b \in Nat
    BY <1>2, <1>3 DEF a, b
  <2>2. (a + 2) * DayLength <= b * DayLength
    BY <1>1, <2>1
  <2>3. (a + 2) * DayLength = a * DayLength + DayLength + DayLength /\ a * DayLength \in Nat
        /\ b * DayLength \in Nat
    BY <1>1, <2>1
  <2>4. t < a * DayLength + DayLength /\ b * DayLength <= t + ServerOffset
    BY <1>2, <1>3 DEF a, b
  <2> QED
    BY <1>1, <2>2, <2>3, <2>4
<1> QED
  BY <1>3, <1>4

(* While they count, the dates that were loaded and all dates agree.         *)
LEMMA LoadedAlike ==
    ASSUME NEW cfg, NEW ready \in Nat, NEW to \in Nat,
           blackouts \subseteq 0 .. LastDay,
           Day(ready) \in blackouts => Day(ready) = ServerDay(ready),
           Day(to) <= ServerDay(ready) + Window
    PROVE  \A e \in ready .. to : Passed(cfg, GetBetween(ready), ready, e) =
                                    Passed(cfg, blackouts, ready, e)
<1>1. LastDay \in Nat /\ Window \in Nat
  BY Sizes
<1>2. ASSUME NEW u \in ready .. to
      PROVE  Day(u) \in GetBetween(ready) <=> Day(u) \in blackouts
  <2>1. /\ Day(u) \in Nat /\ Day(ready) \in Nat /\ Day(to) \in Nat
        /\ Day(ready) <= Day(u) /\ Day(u) <= Day(to)
    BY DayType, DayGrows
  <2>2. ServerDay(ready) \in Nat /\ ServerDay(ready) <= Day(ready) + 1
    BY ServerDayType
  <2>3. Day(u) \in blackouts => ServerDay(ready) <= Day(u)
    BY <2>1, <2>2
  <2>4. Day(u) <= ServerDay(ready) + Window
    BY <1>1, <2>1, <2>2
  <2> QED
    BY <2>3, <2>4 DEF GetBetween
<1>3. \A u \in ready .. to : IsOpen(cfg, GetBetween(ready), u) <=> IsOpen(cfg, blackouts, u)
  BY <1>2 DEF IsOpen, IsBusinessDay
<1> SUFFICES ASSUME NEW e \in ready .. to
             PROVE  Passed(cfg, GetBetween(ready), ready, e) = Passed(cfg, blackouts, ready, e)
  OBVIOUS
<1>4. \A u \in ready .. e - 1 : IsOpen(cfg, GetBetween(ready), u) <=> IsOpen(cfg, blackouts, u)
  BY <1>3
<1>5. e \in Nat
  OBVIOUS
<1> QED
  BY <1>4, <1>5, PassedAlike

(* More dates leave less business time.                                      *)
LEMMA LoadedMore ==
    ASSUME NEW cfg, NEW ready \in Nat, NEW e \in Nat
    PROVE  Passed(cfg, blackouts, ready, e) <= Passed(cfg, GetBetween(ready), ready, e)
<1>1. \A u : IsOpen(cfg, blackouts, u) => IsOpen(cfg, GetBetween(ready), u)
  BY DEF IsOpen, IsBusinessDay, GetBetween
<1>2. OpenUnits(cfg, blackouts, ready, e) \in SUBSET OpenUnits(cfg, GetBetween(ready), ready, e)
  BY <1>1, UnitsType
<1> QED
  BY <1>2, UnitsType, FS_Subset DEF Passed

LEMMA DeadlineExact ==
    ASSUME calendar \in Hours, blackouts \subseteq 0 .. LastDay
    PROVE  DeadlineIsExact
<1> SUFFICES ASSUME NEW ready \in 0 .. (LastDay + 1) * DayLength - 1, NEW d,
                    d = VoucherDeadline(calendar, GetBetween(ready), ready),
                    Day(ready) \in blackouts => Day(ready) = ServerDay(ready),
                    d # NULL => Day(d) <= ServerDay(ready) + Window
             PROVE  d = ReferenceDeadline(calendar, blackouts, ready)
  BY DEF DeadlineIsExact
<1> DEFINE black == GetBetween(ready)
<1>1. black \subseteq 0 .. LastDay
  BY DEF GetBetween
<1>2. /\ ready \in Nat /\ ready < (LastDay + 1) * DayLength
      /\ Horizon \in Nat /\ Need \in Nat /\ Need >= 1 /\ LastTurn \in Nat
      /\ ready \in 0 .. LastTurn
  <2>1. /\ DayLength \in Nat /\ LastDay \in Nat /\ Need \in Nat \ {0} /\ WeekLength \in Nat
    BY Sizes
  <2>2. (LastDay + 1) * DayLength \in Nat
    BY <2>1
  <2>3. (LastDay + 1) * DayLength <= LastTurn
    <3>1. WeekLength * (Need + 1) \in Nat
      BY <2>1
    <3>2. \A b \in Nat : LastDay + 1 <= b => (LastDay + 1) * DayLength <= DayLength * b
      BY <2>1
    <3>3. (LastDay + 1) * DayLength <= Horizon
      BY <2>1, <3>1, <3>2 DEF Horizon
    <3> QED
      BY <2>1, <2>2, <3>3, HorizonType DEF LastTurn
  <2> QED
    BY <2>1, <2>2, <2>3, HorizonType
<1>3. Exact(calendar, black, ready, Need, d)
  BY <1>2, VoucherExact
<1> HIDE DEF black
<1>4. CASE d = NULL
  <2>1. \A e \in ready .. Horizon : Passed(calendar, black, ready, e) < Need
    BY <1>3, <1>4 DEF Exact
  <2>2. ASSUME NEW e \in ready .. Horizon
        PROVE  Passed(calendar, blackouts, ready, e) < Need
    <3>1. e \in Nat
      BY <1>2
    <3>2. Passed(calendar, blackouts, ready, e) <= Passed(calendar, black, ready, e)
      BY <1>2, <3>1, LoadedMore DEF black
    <3>3. /\ Passed(calendar, blackouts, ready, e) \in Nat
          /\ Passed(calendar, black, ready, e) \in Nat
      BY <1>2, <3>1, UnitsType
    <3> QED
      BY <1>2, <2>1, <3>2, <3>3
  <2>3. Exact(calendar, blackouts, ready, Need, d)
    BY <1>4, <2>2 DEF Exact
  <2> QED
    BY <1>2, <1>4, <2>3, ReferenceIs
<1>5. CASE d # NULL
  <2>1. /\ d \in Nat /\ ready <= d
        /\ Passed(calendar, black, ready, d) = Need
        /\ \A e \in ready .. d - 1 : Passed(calendar, black, ready, e) < Need
    BY <1>3, <1>5 DEF Exact
  <2>2. d <= Horizon
    <3> SUFFICES ASSUME Horizon < d PROVE FALSE
      BY <1>2, <2>1
    <3>1. PICK u \in OpenUnits(calendar, black, ready, d) : TRUE
      <4>1. OpenUnits(calendar, black, ready, d) # {}
        <5> SUFFICES ASSUME OpenUnits(calendar, black, ready, d) = {} PROVE FALSE
          OBVIOUS
        <5>1. Passed(calendar, black, ready, d) = 0
          BY FS_EmptySet DEF Passed
        <5> QED
          BY <1>2, <2>1, <5>1
      <4> QED
        BY <4>1
    <3>2. u \in Nat /\ IsOpen(calendar, black, u)
      BY <1>2, <2>1, <3>1, UnitsType
    <3>3. Passed(calendar, black, ready, Horizon) >= Need
      BY <1>1, <1>2, <3>2, OpenAgain
    <3>4. CASE ready <= Horizon
      <4>1. Horizon \in ready .. d - 1
        BY <1>2, <2>1, <3>4
      <4>2. Passed(calendar, black, ready, Horizon) \in Nat
        BY <1>2, UnitsType
      <4>3. Passed(calendar, black, ready, Horizon) < Need
        BY <2>1, <4>1
      <4> QED
        BY <1>2, <3>3, <4>2, <4>3
    <3>5. CASE Horizon < ready
      <4>1. OpenUnits(calendar, black, ready, Horizon) = {}
        BY <1>2, <3>5, UnitsType
      <4>2. Passed(calendar, black, ready, Horizon) = 0
        BY <4>1, FS_EmptySet DEF Passed
      <4> QED
        BY <1>2, <3>3, <4>2
    <3> QED
      BY <1>2, <3>4, <3>5
  <2>3. \A e \in ready .. d : Passed(calendar, black, ready, e) = Passed(calendar, blackouts, ready, e)
    BY <1>2, <1>5, <2>1, LoadedAlike DEF black
  <2>4. Exact(calendar, blackouts, ready, Need, d)
    BY <1>5, <2>1, <2>3 DEF Exact
  <2> QED
    BY <1>2, <2>2, <2>4, ReferenceIs
<1> QED
  BY <1>4, <1>5

-----------------------------------------------------------------------------
(* The calendar's type, and its theorem *)

LEMMA KeyWritten ==
    ASSUME NEW cfg \in Hours, NEW form \in Hours, NEW k \in Key
    PROVE  [cfg EXCEPT ![k] = form[k]] \in Hours
BY DEF Hours, Key

LEMMA CalendarTypeNext ==
    ASSUME calendar \in Hours, saving \in [form : Forms, next : 2 .. 3] \cup {NULL},
           blackouts \subseteq 0 .. LastDay, [CalendarNext]_calendarVars
    PROVE  /\ calendar' \in Hours
           /\ saving' \in [form : Forms, next : 2 .. 3] \cup {NULL}
           /\ blackouts' \subseteq 0 .. LastDay
<1>1. /\ calendar \in Hours /\ saving \in [form : Forms, next : 2 .. 3] \cup {NULL}
      /\ blackouts \subseteq 0 .. LastDay /\ Forms \subseteq Hours
  BY CalendarAssumption
<1>2. ASSUME NEW form \in Forms, SaveForm(form)
      PROVE  /\ calendar' \in Hours /\ saving' \in [form : Forms, next : 2 .. 3] \cup {NULL}
             /\ blackouts' = blackouts
  <2>1. calendar' = [calendar EXCEPT !["opens"] = form["opens"]]
    BY <1>2 DEF SaveForm
  <2>2. calendar' \in Hours
    BY <1>1, <2>1, KeyWritten DEF Key
  <2> QED
    BY <1>2, <2>2 DEF SaveForm
<1>3. ASSUME NEW fails \in BOOLEAN, SaveNext(fails)
      PROVE  /\ calendar' \in Hours /\ saving' \in [form : Forms, next : 2 .. 3] \cup {NULL}
             /\ blackouts' = blackouts
  <2> DEFINE k == SaveOrder[saving.next]
  <2>1. saving \in [form : Forms, next : 2 .. 3]
    BY <1>1, <1>3 DEF SaveNext
  <2>2. k \in Key /\ saving.form \in Hours
    BY <1>1, <2>1 DEF SaveOrder, Key
  <2>3. calendar' = calendar \/ calendar' = [calendar EXCEPT ![k] = saving.form[k]]
    BY <1>3 DEF SaveNext
  <2>4. calendar' \in Hours
    <3> HIDE DEF k
    <3> QED
      BY <1>1, <2>2, <2>3, KeyWritten
  <2>5. saving' = IF saving.next = 3 THEN NULL ELSE [saving EXCEPT !.next = @ + 1]
    BY <1>3 DEF SaveNext
  <2>6. saving' \in [form : Forms, next : 2 .. 3] \cup {NULL}
    BY <2>1, <2>5
  <2> QED
    BY <1>3, <2>4, <2>6 DEF SaveNext
<1>4. ASSUME NEW k \in Key, NEW form \in Forms, SetSetting(k, form)
      PROVE  calendar' \in Hours /\ saving' = saving /\ blackouts' = blackouts
  BY <1>1, <1>4, KeyWritten DEF SetSetting
<1>5. ASSUME NEW d \in 0 .. LastDay, CreateBlackoutDate(d) \/ DeleteBlackoutDate(d)
      PROVE  calendar' = calendar /\ saving' = saving /\ blackouts' \subseteq 0 .. LastDay
  BY <1>1, <1>5 DEF CreateBlackoutDate, DeleteBlackoutDate
<1> QED
  BY <1>1, <1>2, <1>3, <1>4, <1>5 DEF CalendarNext, calendarVars

(* The loop of the SLA service computes the first moment by which the Need   *)
(* business units have passed, unit by unit, and runs for ever exactly when  *)
(* there is none, for every setting of the hours, complete, half saved or    *)
(* without business time, and every set of blackout dates                    *)
(* (SLAService.CalculateDeadline, BlackoutDateRepository.GetBetween).        *)
THEOREM DeadlineCorrect == CalendarSpec => []DeadlineIsExact
<1> DEFINE TypeOK == /\ calendar \in Hours
                     /\ saving \in [form : Forms, next : 2 .. 3] \cup {NULL}
                     /\ blackouts \subseteq 0 .. LastDay
<1>1. CalendarInit => TypeOK
  BY CalendarAssumption DEF CalendarInit
<1>2. TypeOK /\ [CalendarNext]_calendarVars => TypeOK'
  BY CalendarTypeNext
<1>3. TypeOK => DeadlineIsExact
  BY DeadlineExact
<1> QED
  BY <1>1, <1>2, <1>3, PTL DEF CalendarSpec

-----------------------------------------------------------------------------
(* The tables and the runs *)

Position == {"idle", "list", "each", "blackouts", "check", "create", "spinning"} \cup Key

Job == [at : Position, todo : Seq(Candidate), cfg : Hours, black : SUBSET (0 .. LastDay),
        seen : Nat]

(* The positions in which a run is busy with the first of its candidates.    *)
Busy == {"blackouts", "check", "create", "spinning"} \cup Key

TypeInv ==
    /\ SchedulerTypeOK
    /\ calendar \in Hours
    /\ saving \in [form : Forms, next : 2 .. 3] \cup {NULL}
    /\ blackouts \subseteq 0 .. LastDay
    /\ now \in 0 .. MaxTime
    /\ ful \in [FulfillmentId -> [ready : 0 .. MaxTime \cup {NULL}, deleted : BOOLEAN]]
    /\ exc \in [FulfillmentId -> Seq(ExceptionRow)]
    /\ openings \in [FulfillmentId -> Nat]
    /\ job \in [Worker -> Job]
    /\ \A w \in Worker : /\ job[w].at # "idle" <=> worker[w].at = "working"
                         /\ job[w].at \in Busy => job[w].todo # <<>>

LEMMA TypeInvIsType == TypeInv => OverdueTypeOK
<1> SUFFICES ASSUME TypeInv PROVE OverdueTypeOK
  OBVIOUS
<1>1. CalendarTypeOK
  BY DEF TypeInv, CalendarTypeOK
<1>2. \A f \in FulfillmentId : \A i \in DOMAIN exc[f] : exc[f][i] \in ExceptionRow
  BY DEF TypeInv
<1>3. ASSUME NEW w \in Worker
      PROVE  /\ job[w].at \in Position
             /\ \A i \in DOMAIN job[w].todo : job[w].todo[i] \in Candidate
             /\ job[w].cfg \in Hours
             /\ job[w].black \subseteq 0 .. LastDay
             /\ job[w].seen \in Nat
             /\ job[w].at # "idle" <=> worker[w].at = "working"
  <2>1. job[w] \in Job
    BY DEF TypeInv
  <2>2. /\ job[w].at \in Position /\ job[w].todo \in Seq(Candidate)
        /\ job[w].cfg \in Hours /\ job[w].black \in SUBSET (0 .. LastDay) /\ job[w].seen \in Nat
    BY <2>1 DEF Job
  <2> QED
    BY <2>2 DEF TypeInv
<1> QED
  BY <1>1, <1>2, <1>3 DEF OverdueTypeOK, TypeInv, Position

-----------------------------------------------------------------------------
(* Statements that may fail *)

LEMMA EventCounted ==
    ASSUME SchedulerTypeOK, Event
    PROVE  events' \in 0 .. MaxEvents
BY SchedulerAssumption DEF SchedulerTypeOK, Event

LEMMA StatementEffect ==
    ASSUME SchedulerTypeOK, NEW w, Succeeds(w) \/ Fails(w)
    PROVE  /\ events' \in 0 .. MaxEvents
           /\ faulty' \in BOOLEAN
           /\ faulty => faulty'
           /\ Fails(w) /\ server = "up" => faulty'
<1>1. events \in 0 .. MaxEvents /\ faulty \in BOOLEAN
  BY DEF SchedulerTypeOK
<1>2. CASE Succeeds(w)
  BY <1>1, <1>2, EventCounted DEF Succeeds, Fails, Canceled
<1>3. CASE Fails(w)
  BY <1>1, <1>3, EventCounted DEF Fails, Canceled
<1> QED
  BY <1>2, <1>3

(* The row of a run in the history.                                          *)
Run == [at : {"idle", "working", "returned"}, row : BOOLEAN]

LEMMA SchedulerTypeStays ==
    ASSUME SchedulerTypeOK, UNCHANGED <<server, enabled, registered, worker, orphans>>,
           faulty' \in BOOLEAN, events' \in 0 .. MaxEvents
    PROVE  SchedulerTypeOK'
BY DEF SchedulerTypeOK

-----------------------------------------------------------------------------
(* Candidates *)

LEMMA NoJobType == NoJob \in Job /\ NoJob.at = "idle"
BY OverdueAssumption DEF NoJob, Job, Position

LEMMA CandidatesType ==
    ASSUME TypeInv
    PROVE  IsFiniteSet(Candidates) /\ Candidates \subseteq Candidate
<1> DEFINE S == { g \in FulfillmentId : ful[g].ready # NULL /\ ~ful[g].deleted }
           h == [f \in S |-> [f |-> f, ready |-> ful[f].ready]]
<1>1. IsFiniteSet(S)
  BY OverdueAssumption, FS_Subset
<1>2. Candidates = { h[f] : f \in S }
  BY DEF Candidates
<1>3. h \in Surjection(S, Candidates)
  BY <1>2 DEF Surjection
<1>4. IsFiniteSet(Candidates)
  BY <1>1, <1>3, FS_Surjection
<1>5. \A f \in S : ful[f].ready \in 0 .. MaxTime
  BY DEF TypeInv
<1> QED
  BY <1>4, <1>5 DEF Candidates, Candidate

LEMMA ReadyOrdersType ==
    ASSUME TypeInv, NEW todo \in ReadyOrders
    PROVE  todo \in Seq(Candidate)
<1>1. Cardinality(Candidates) \in Nat /\ Candidates \subseteq Candidate
  BY CandidatesType, FS_CardinalityType
<1>2. todo \in [1 .. Cardinality(Candidates) -> Candidates]
  BY DEF ReadyOrders, SetToSeqs
<1> QED
  BY <1>1, <1>2

-----------------------------------------------------------------------------
(* What a step of run w does to its place in the job                         *)

LEMMA JobWritten ==
    ASSUME TypeInv, NEW w \in Worker, NEW j \in Job, job' = [job EXCEPT ![w] = j]
    PROVE  /\ job' \in [Worker -> Job]
           /\ job'[w] = j
           /\ \A v \in Worker : v # w => job'[v] = job[v]
BY DEF TypeInv

LEMMA GoesEffect ==
    ASSUME TypeInv, NEW w \in Worker, NEW p \in Position, Goes(w, p)
    PROVE  \E j \in Job : /\ job' = [job EXCEPT ![w] = j]
                          /\ j.at = p /\ j.todo = job[w].todo
                          /\ j.cfg = job[w].cfg /\ j.black = job[w].black
<1> DEFINE j == [job[w] EXCEPT !.at = p]
<1>1. job \in [Worker -> Job] /\ job[w] \in Job
  BY DEF TypeInv
<1>2. /\ j \in Job /\ j.at = p /\ j.todo = job[w].todo
      /\ j.cfg = job[w].cfg /\ j.black = job[w].black
  BY <1>1 DEF Job
<1>3. job' = [job EXCEPT ![w] = j]
  BY DEF Goes
<1> HIDE DEF j
<1> QED
  BY <1>2, <1>3

LEMMA NextCandidateEffect ==
    ASSUME TypeInv, NEW w \in Worker, job[w].todo # <<>>, NextCandidate(w)
    PROVE  \E j \in Job : job' = [job EXCEPT ![w] = j] /\ j.at = "each"
<1> DEFINE t == Tail(job[w].todo)
           j == [NoJob EXCEPT !.at = "each", !.todo = t]
<1>1. job[w].todo \in Seq(Candidate)
  BY DEF TypeInv, Job
<1>2. t \in Seq(Candidate)
  BY <1>1
<1>3. job' = [job EXCEPT ![w] = j]
  BY DEF NextCandidate
<1> HIDE DEF t
<1>4. j \in Job /\ j.at = "each"
  BY <1>2, OverdueAssumption DEF NoJob, Job, Position
<1> HIDE DEF j
<1> QED
  BY <1>3, <1>4

(* A step inside a run, that returns from none.                              *)
Inside(w, j) ==
    /\ job[w].at # "idle"
    /\ job' = [job EXCEPT ![w] = j]
    /\ j.at # "idle"
    /\ j.at \in Busy => j.todo # <<>>

LEMMA EachEffect ==
    ASSUME TypeInv, NEW w \in Worker, Each(w)
    PROVE  \/ Returns(w) /\ job[w].todo = <<>>
           \/ /\ Reads /\ job[w].todo # <<>>
              /\ \E j \in Job :
                   /\ Inside(w, j)
                   /\ \/ j.at = "each"
                      \/ /\ j.at = "opens" /\ j.todo = job[w].todo
                         /\ TypeOf[Current(w).f] = "VOUCHER"
                      \/ /\ j.at = "check" /\ j.todo = job[w].todo
                         /\ TypeOf[Current(w).f] # "VOUCHER"
                         /\ IsOverdue(PhysicalDeadline(Current(w).ready))
<1>1. At(w, "each")
  BY DEF Each
<1> SUFFICES ASSUME job[w].todo # <<>>
             PROVE  /\ Reads
                    /\ \E j \in Job :
                         /\ Inside(w, j)
                         /\ \/ j.at = "each"
                            \/ /\ j.at = "opens" /\ j.todo = job[w].todo
                               /\ TypeOf[Current(w).f] = "VOUCHER"
                            \/ /\ j.at = "check" /\ j.todo = job[w].todo
                               /\ TypeOf[Current(w).f] # "VOUCHER"
                               /\ IsOverdue(PhysicalDeadline(Current(w).ready))
  BY DEF Each
<1>2. Reads
  BY DEF Each
<1>3. CASE TypeOf[Current(w).f] = "VOUCHER"
  <2>1. Goes(w, "opens")
    BY <1>3 DEF Each
  <2> QED
    BY <1>1, <1>2, <1>3, <2>1, GoesEffect DEF Position, Key, Inside, At
<1>4. CASE TypeOf[Current(w).f] # "VOUCHER" /\ IsOverdue(PhysicalDeadline(Current(w).ready))
  <2>1. Goes(w, "check")
    BY <1>4 DEF Each
  <2> QED
    BY <1>1, <1>2, <1>4, <2>1, GoesEffect DEF Position, Inside, At
<1>5. CASE TypeOf[Current(w).f] # "VOUCHER" /\ ~IsOverdue(PhysicalDeadline(Current(w).ready))
  <2>1. NextCandidate(w)
    BY <1>5 DEF Each
  <2> QED
    BY <1>1, <1>2, <2>1, NextCandidateEffect DEF Inside, At, Busy, Key
<1> QED
  BY <1>3, <1>4, <1>5

LEMMA ListEffect ==
    ASSUME TypeInv, NEW w \in Worker, ListOverdue(w)
    PROVE  \/ Fails(w) /\ Returns(w)
           \/ /\ Succeeds(w) /\ Reads
              /\ \E j \in Job : Inside(w, j) /\ j.at = "each"
<1> SUFFICES ASSUME Succeeds(w), Reads, NEW todo \in ReadyOrders,
                    job' = [job EXCEPT ![w].at = "each", ![w].todo = todo]
             PROVE  \E j \in Job : Inside(w, j) /\ j.at = "each"
  BY DEF ListOverdue
<1> DEFINE j == [job[w] EXCEPT !.at = "each", !.todo = todo]
<1>1. job \in [Worker -> Job] /\ job[w] \in Job /\ job[w].at # "idle"
  BY DEF TypeInv, ListOverdue, At
<1>2. todo \in Seq(Candidate)
  BY ReadyOrdersType
<1>3. j \in Job /\ j.at = "each"
  BY <1>1, <1>2 DEF Job, Position
<1>4. job' = [job EXCEPT ![w] = j]
  OBVIOUS
<1> HIDE DEF j
<1> QED
  BY <1>1, <1>3, <1>4 DEF Inside, Busy, Key

LEMMA LoadSettingEffect ==
    ASSUME TypeInv, NEW w \in Worker, LoadSetting(w)
    PROVE  /\ Succeeds(w) \/ Fails(w)
           /\ Reads /\ job[w].at \in Key
           /\ \E j \in Job : Inside(w, j) /\ j.at \in {"closes", "days", "blackouts"}
                             /\ j.todo = job[w].todo
<1> DEFINE k == job[w].at
<1>1. /\ job \in [Worker -> Job] /\ job[w] \in Job /\ k \in Key
      /\ job[w].todo # <<>> /\ calendar \in Hours /\ DefaultHours \in Hours
  BY OverdueAssumption DEF TypeInv, LoadSetting, Busy
<1>2. AfterKey[k] \in {"closes", "days", "blackouts"}
  BY <1>1 DEF AfterKey, Key
<1>3. ASSUME NEW h \in Hours, job' = [job EXCEPT ![w].at = AfterKey[k], ![w].cfg[k] = h[k]]
      PROVE  \E j \in Job : Inside(w, j) /\ j.at \in {"closes", "days", "blackouts"}
                            /\ j.todo = job[w].todo
  <2> DEFINE p == AfterKey[k]
             c == [job[w].cfg EXCEPT ![k] = h[k]]
             j == [job[w] EXCEPT !.at = p, !.cfg = c]
  <2>1. c \in Hours
    BY <1>1, <1>3, KeyWritten DEF Job
  <2>2. job' = [job EXCEPT ![w] = j]
    BY <1>3
  <2>3. p \in {"closes", "days", "blackouts"}
    BY <1>2
  <2> HIDE DEF p, c
  <2>4. j \in Job /\ j.at = p /\ j.todo = job[w].todo
    BY <1>1, <2>1, <2>3 DEF Job, Position, Key
  <2>5. job[w].at # "idle"
    BY <1>1 DEF Key
  <2> HIDE DEF j
  <2> QED
    BY <1>1, <2>2, <2>3, <2>4, <2>5 DEF Inside
<1> QED
  BY <1>1, <1>3 DEF LoadSetting

LEMMA LoadBlackoutsEffect ==
    ASSUME TypeInv, NEW w \in Worker, LoadBlackouts(w)
    PROVE  /\ Succeeds(w) \/ Fails(w)
           /\ Reads /\ job[w].at = "blackouts" /\ job[w].todo # <<>>
           /\ \E j \in Job :
                /\ Inside(w, j)
                /\ \/ j.at = "each" \/ j.at = "spinning"
                   \/ /\ j.at = "check" /\ j.todo = job[w].todo
                      /\ LET d == VoucherDeadline(j.cfg, j.black, Current(w).ready) IN
                         d # NULL /\ IsOverdue(d)
<1>1. /\ job \in [Worker -> Job] /\ job[w] \in Job /\ job[w].at = "blackouts"
      /\ job[w].todo # <<>>
  BY DEF TypeInv, LoadBlackouts, Busy, At
<1>2. PICK black \in {GetBetween(Current(w).ready), {}} :
        /\ Succeeds(w) \/ Fails(w)
        /\ LET d == VoucherDeadline(job[w].cfg, black, Current(w).ready) IN
           IF d # NULL /\ ~IsOverdue(d) THEN NextCandidate(w)
           ELSE job' = [job EXCEPT ![w].at = IF d = NULL THEN "spinning" ELSE "check",
                                   ![w].black = black]
  BY DEF LoadBlackouts
<1> DEFINE d == VoucherDeadline(job[w].cfg, black, Current(w).ready)
           p == IF d = NULL THEN "spinning" ELSE "check"
           j == [job[w] EXCEPT !.at = p, !.black = black]
<1>3. Reads
  BY DEF LoadBlackouts
<1>4. CASE d # NULL /\ ~IsOverdue(d)
  <2>1. NextCandidate(w)
    BY <1>2, <1>4
  <2> QED
    BY <1>1, <1>2, <1>3, <2>1, NextCandidateEffect DEF Inside, Busy, Key
<1>5. CASE ~(d # NULL /\ ~IsOverdue(d))
  <2>1. job' = [job EXCEPT ![w] = j]
    BY <1>2, <1>5
  <2>2. black \in SUBSET (0 .. LastDay)
    BY DEF GetBetween, TypeInv
  <2>3. p \in {"spinning", "check"} /\ (p = "check" => d # NULL /\ IsOverdue(d))
    BY <1>5
  <2> HIDE DEF p
  <2>4. j \in Job /\ j.at = p /\ j.todo = job[w].todo /\ j.cfg = job[w].cfg /\ j.black = black
    BY <1>1, <2>2, <2>3 DEF Job, Position
  <2> HIDE DEF j
  <2> QED
    BY <1>1, <1>2, <1>3, <2>1, <2>3, <2>4 DEF Inside
<1> QED
  BY <1>4, <1>5

LEMMA CurrentType ==
    ASSUME TypeInv, NEW w \in Worker, job[w].at \in Busy
    PROVE  Current(w).f \in FulfillmentId /\ Current(w).ready \in 0 .. MaxTime
<1>1. job[w].todo \in Seq(Candidate) /\ job[w].todo # <<>>
  BY DEF TypeInv, Job
<1>2. Head(job[w].todo) \in Candidate
  BY <1>1
<1> QED
  BY <1>2 DEF Current, Candidate

LEMMA CheckEffect ==
    ASSUME TypeInv, NEW w \in Worker, Check(w)
    PROVE  /\ Succeeds(w) \/ Fails(w)
           /\ Reads /\ job[w].at = "check" /\ job[w].todo # <<>>
           /\ \E j \in Job :
                /\ Inside(w, j)
                /\ \/ j.at = "each"
                   \/ /\ j.at = "create" /\ ~ExistsOpenForFulfillment(Current(w).f)
                      /\ j.seen = openings[Current(w).f]
                      /\ j.todo = job[w].todo /\ j.cfg = job[w].cfg /\ j.black = job[w].black
<1>1. job[w].at = "check" /\ job[w].todo # <<>>
  BY DEF TypeInv, Check, Busy, At
<1>2. CASE NextCandidate(w)
  BY <1>1, <1>2, NextCandidateEffect DEF Check, Inside, Busy, Key
<1>3. CASE /\ job' = [job EXCEPT ![w].at = "create", ![w].seen = openings[Current(w).f]]
           /\ ~ExistsOpenForFulfillment(Current(w).f)
  <2> DEFINE n == openings[Current(w).f]
             j == [job[w] EXCEPT !.at = "create", !.seen = n]
  <2>1. job \in [Worker -> Job] /\ job[w] \in Job /\ n \in Nat
    BY <1>1, CurrentType DEF TypeInv, Busy
  <2>2. job' = [job EXCEPT ![w] = j]
    BY <1>3, <2>1
  <2> HIDE DEF n
  <2>3. /\ j \in Job /\ j.at = "create" /\ j.seen = n
        /\ j.todo = job[w].todo /\ j.cfg = job[w].cfg /\ j.black = job[w].black
    BY <2>1 DEF Job, Position
  <2> HIDE DEF j
  <2>4. Inside(w, j)
    BY <1>1, <2>2, <2>3 DEF Inside
  <2> QED
    BY <1>1, <1>3, <2>3, <2>4 DEF Check, n
<1> QED
  BY <1>2, <1>3 DEF Check

LEMMA CreateSystemEffect ==
    ASSUME TypeInv, NEW w \in Worker, CreateSystem(w)
    PROVE  /\ Succeeds(w) \/ Fails(w)
           /\ job[w].at = "create" /\ job[w].todo # <<>>
           /\ UNCHANGED <<exc, openings>> \/ Opens(Current(w).f, job[w].seen)
           /\ UNCHANGED <<server, enabled, registered, worker, orphans, calendarVars, now, ful>>
           /\ \E j \in Job : Inside(w, j) /\ j.at = "each"
<1>1. job[w].at = "create" /\ job[w].todo # <<>> /\ NextCandidate(w)
  BY DEF TypeInv, CreateSystem, Busy, At
<1> QED
  BY <1>1, NextCandidateEffect DEF CreateSystem, Inside, Busy, Key

(* Row k of f, whether it was there or not, is the last that was opened.     *)
Written(f, k, seen) ==
    /\ exc' \in [FulfillmentId -> Seq(ExceptionRow)]
    /\ openings' = [openings EXCEPT ![f] = @ + 1]
    /\ \A g \in FulfillmentId : g # f => exc'[g] = exc[g]
    /\ k \in DOMAIN exc'[f] /\ DOMAIN exc'[f] \subseteq DOMAIN exc[f] \cup {k}
    /\ exc'[f][k].opened = openings[f] + 1 /\ exc'[f][k].seen = seen
    /\ \A i \in DOMAIN exc[f] : i # k => exc'[f][i] = exc[f][i]

LEMMA OpensEffect ==
    ASSUME TypeInv, NEW f \in FulfillmentId, NEW seen \in Nat, Opens(f, seen)
    PROVE  \E k : Written(f, k, seen)
<1> DEFINE e == [status |-> "OPEN", opened |-> openings[f] + 1, seen |-> seen]
           s == exc[f]
           k == Len(s) + 1
<1>1. exc \in [FulfillmentId -> Seq(ExceptionRow)] /\ s \in Seq(ExceptionRow) /\ openings[f] \in Nat
  BY DEF TypeInv
<1>2. exc' = [exc EXCEPT ![f] = Append(s, e)] /\ openings' = [openings EXCEPT ![f] = @ + 1]
  BY DEF Opens
<1>3. e \in ExceptionRow /\ e.opened = openings[f] + 1 /\ e.seen = seen
  BY <1>1 DEF ExceptionRow, ExceptionStatus
<1> HIDE DEF e, s
<1>4. /\ Append(s, e) \in Seq(ExceptionRow) /\ DOMAIN s = 1 .. Len(s) /\ Len(s) \in Nat
      /\ DOMAIN Append(s, e) = 1 .. k
      /\ Append(s, e)[k] = e
      /\ \A i \in DOMAIN s : Append(s, e)[i] = s[i]
  BY <1>1, <1>3
<1>5. exc'[f] = Append(s, e) /\ \A g \in FulfillmentId : g # f => exc'[g] = exc[g]
  BY <1>1, <1>2
<1>6. exc' \in [FulfillmentId -> Seq(ExceptionRow)]
  BY <1>1, <1>2, <1>4
<1>7. k \in 1 .. k /\ 1 .. k \subseteq (1 .. Len(s)) \cup {k}
  BY <1>4
<1>8. Written(f, k, seen)
  <2> HIDE DEF k
  <2>1. k \in DOMAIN exc'[f] /\ DOMAIN exc'[f] \subseteq DOMAIN exc[f] \cup {k}
    BY <1>4, <1>5, <1>7 DEF s
  <2>2. exc'[f][k] = e /\ \A i \in DOMAIN exc[f] : exc'[f][i] = exc[f][i]
    BY <1>4, <1>5 DEF s
  <2> QED
    BY <1>2, <1>3, <1>5, <1>6, <2>1, <2>2 DEF Written
<1> QED
  BY <1>8

LEMMA OpensType ==
    ASSUME TypeInv, NEW f \in FulfillmentId, NEW seen \in Nat, Opens(f, seen)
    PROVE  exc' \in [FulfillmentId -> Seq(ExceptionRow)] /\ openings' \in [FulfillmentId -> Nat]
<1>1. openings \in [FulfillmentId -> Nat]
  BY DEF TypeInv
<1> QED
  BY <1>1, OpensEffect DEF Written

-----------------------------------------------------------------------------
(* Type correctness *)

LEMMA TypeInvInit == OverdueInit => TypeInv
<1> SUFFICES ASSUME OverdueInit PROVE TypeInv
  OBVIOUS
<1>1. SchedulerTypeOK
  <2>1. {enabled, registered, faulty} \subseteq BOOLEAN
    <3>1. enabled = TRUE /\ registered = TRUE /\ faulty = FALSE
      BY DEF OverdueInit, SchedulerInit
    <3> QED
      BY <3>1, Zenon
  <2>2. worker \in [Worker -> [at : {"idle", "working", "returned"}, row : BOOLEAN]]
    BY DEF OverdueInit, SchedulerInit, NoRun
  <2>3. server = "up" /\ orphans = {} /\ events \in 0 .. MaxEvents
    BY SchedulerAssumption DEF OverdueInit, SchedulerInit
  <2> QED
    BY <2>1, <2>2, <2>3 DEF SchedulerTypeOK
<1>2. /\ calendar \in Hours /\ saving = NULL /\ blackouts \subseteq 0 .. LastDay
      /\ now \in 0 .. MaxTime
  BY OverdueAssumption DEF OverdueInit, CalendarInit
<1>3. ful \in [FulfillmentId -> [ready : 0 .. MaxTime \cup {NULL}, deleted : BOOLEAN]]
  BY OverdueAssumption DEF OverdueInit
<1>4. exc \in [FulfillmentId -> Seq(ExceptionRow)] /\ openings \in [FulfillmentId -> Nat]
  BY DEF OverdueInit
<1>5. job \in [Worker -> Job] /\ \A w \in Worker : job[w].at = "idle"
  BY NoJobType DEF OverdueInit
<1>6. \A w \in Worker : worker[w].at # "working"
  BY DEF OverdueInit, SchedulerInit, NoRun
<1> QED
  BY <1>1, <1>2, <1>3, <1>4, <1>5, <1>6 DEF TypeInv, Busy, Key

LEMMA InsideType ==
    ASSUME TypeInv, NEW w \in Worker, NEW j \in Job, Inside(w, j),
           UNCHANGED <<server, enabled, registered, worker, orphans, calendarVars, now, ful>>,
           faulty' \in BOOLEAN, events' \in 0 .. MaxEvents,
           exc' \in [FulfillmentId -> Seq(ExceptionRow)],
           openings' \in [FulfillmentId -> Nat]
    PROVE  TypeInv'
<1>1. SchedulerTypeOK'
  BY SchedulerTypeStays DEF TypeInv
<1>2. /\ job' \in [Worker -> Job] /\ job'[w] = j
      /\ \A v \in Worker : v # w => job'[v] = job[v]
  BY JobWritten DEF Inside
<1>3. \A v \in Worker : /\ job'[v].at # "idle" <=> worker'[v].at = "working"
                        /\ job'[v].at \in Busy => job'[v].todo # <<>>
  BY <1>2 DEF Inside, TypeInv
<1>4. /\ calendar' \in Hours
      /\ saving' \in [form : Forms, next : 2 .. 3] \cup {NULL}
      /\ blackouts' \subseteq 0 .. LastDay
      /\ now' \in 0 .. MaxTime
      /\ ful' \in [FulfillmentId -> [ready : 0 .. MaxTime \cup {NULL}, deleted : BOOLEAN]]
  BY DEF TypeInv, calendarVars
<1> QED
  BY <1>1, <1>2, <1>3, <1>4 DEF TypeInv

(* What leaves every run where it is.                                        *)
LEMMA RunsStay ==
    ASSUME TypeInv, SchedulerTypeOK', UNCHANGED <<worker, job>>,
           calendar' \in Hours,
           saving' \in [form : Forms, next : 2 .. 3] \cup {NULL},
           blackouts' \subseteq 0 .. LastDay,
           now' \in 0 .. MaxTime,
           ful' \in [FulfillmentId -> [ready : 0 .. MaxTime \cup {NULL}, deleted : BOOLEAN]],
           exc' \in [FulfillmentId -> Seq(ExceptionRow)],
           openings' \in [FulfillmentId -> Nat]
    PROVE  TypeInv'
BY DEF TypeInv

(* What changes where run w is, in the scheduler and in the job.             *)
LEMMA RunMoves ==
    ASSUME TypeInv, NEW w \in Worker, NEW x \in Run, NEW j \in Job,
           worker' = [worker EXCEPT ![w] = x], job' = [job EXCEPT ![w] = j],
           j.at # "idle" <=> x.at = "working", j.at \notin Busy,
           UNCHANGED <<server, enabled, registered, calendarVars, now, ful, exc, openings>>,
           orphans' \subseteq orphans \cup {"this_boot"},
           faulty' \in BOOLEAN, events' \in 0 .. MaxEvents
    PROVE  TypeInv'
<1>1. SchedulerTypeOK'
  BY DEF SchedulerTypeOK, TypeInv, Run
<1>2. /\ job' \in [Worker -> Job] /\ job'[w] = j
      /\ \A v \in Worker : v # w => job'[v] = job[v]
  BY JobWritten
<1>3. /\ worker'[w] = x
      /\ \A v \in Worker : v # w => worker'[v] = worker[v]
  BY DEF TypeInv, SchedulerTypeOK
<1>4. \A v \in Worker : /\ job'[v].at # "idle" <=> worker'[v].at = "working"
                        /\ job'[v].at \in Busy => job'[v].todo # <<>>
  BY <1>2, <1>3 DEF TypeInv
<1>5. /\ calendar' \in Hours
      /\ saving' \in [form : Forms, next : 2 .. 3] \cup {NULL}
      /\ blackouts' \subseteq 0 .. LastDay
      /\ now' \in 0 .. MaxTime
      /\ ful' \in [FulfillmentId -> [ready : 0 .. MaxTime \cup {NULL}, deleted : BOOLEAN]]
      /\ exc' \in [FulfillmentId -> Seq(ExceptionRow)]
      /\ openings' \in [FulfillmentId -> Nat]
  BY DEF TypeInv, calendarVars
<1> QED
  BY <1>1, <1>2, <1>4, <1>5 DEF TypeInv

LEMMA ReturnsEffect ==
    ASSUME TypeInv, NEW w \in Worker, Returns(w)
    PROVE  /\ \E x \in Run : x.at = "returned" /\ x.row = worker[w].row
                             /\ worker' = [worker EXCEPT ![w] = x]
           /\ job' = [job EXCEPT ![w] = NoJob]
           /\ UNCHANGED <<server, enabled, registered, orphans, calendarVars, now, ful, exc, openings>>
<1> DEFINE x == [worker[w] EXCEPT !.at = "returned"]
<1>1. worker \in [Worker -> Run] /\ worker[w] \in Run
  BY DEF TypeInv, SchedulerTypeOK, Run
<1>2. x \in Run /\ x.at = "returned" /\ x.row = worker[w].row
  BY <1>1 DEF Run
<1>3. worker' = [worker EXCEPT ![w] = x]
  BY DEF Returns, Return
<1> HIDE DEF x
<1> QED
  BY <1>2, <1>3 DEF Returns

LEMMA ReturnsType ==
    ASSUME TypeInv, NEW w \in Worker, Returns(w), faulty' \in BOOLEAN, events' \in 0 .. MaxEvents
    PROVE  TypeInv'
BY ReturnsEffect, RunMoves, NoJobType DEF Busy, Key

LEMMA BeginEffect ==
    ASSUME TypeInv, NEW w \in Worker, Begin(w)
    PROVE  /\ worker[w].at = "idle"
           /\ \E inserted \in BOOLEAN :
                worker' = [worker EXCEPT ![w] = [at |-> "working", row |-> inserted]]
           /\ \E j \in Job : job' = [job EXCEPT ![w] = j] /\ j.at = "list"
           /\ UNCHANGED <<server, enabled, registered, orphans, calendarVars, now, ful, exc, openings>>
           /\ faulty' \in BOOLEAN /\ (faulty => faulty') /\ events' \in 0 .. MaxEvents
<1>1. \E j \in Job : job' = [job EXCEPT ![w] = j] /\ j.at = "list"
  BY GoesEffect DEF Begin, Position
<1>2. SchedulerTypeOK
  BY DEF TypeInv
<1>3. CASE w = "ticker"
  <2>1. TickerFires
    BY <1>3 DEF Begin
  <2>2. /\ faulty' \in BOOLEAN /\ (faulty => faulty') /\ events' \in 0 .. MaxEvents
        /\ \E inserted \in BOOLEAN : StartRun("ticker", inserted)
    BY <1>2, <2>1, StatementEffect DEF TickerFires
  <2> QED
    BY <1>1, <1>3, <2>2 DEF StartRun, Begin
<1>4. CASE w # "ticker"
  <2>1. Trigger(w)
    BY <1>4 DEF Begin
  <2>2. faulty' \in BOOLEAN /\ (faulty => faulty')
    <3>1. faulty \in BOOLEAN
      BY <1>2 DEF SchedulerTypeOK
    <3>2. faulty' = faulty \/ faulty' = TRUE
      BY <2>1 DEF Trigger
    <3> QED
      BY <3>1, <3>2, Zenon
  <2>3. events' \in 0 .. MaxEvents
    BY <1>2, <2>1, EventCounted DEF Trigger
  <2>4. \E inserted \in BOOLEAN : StartRun(w, inserted)
    BY <2>1 DEF Trigger
  <2> QED
    BY <1>1, <2>2, <2>3, <2>4 DEF StartRun, Begin
<1> QED
  BY <1>3, <1>4

LEMMA BeginType ==
    ASSUME TypeInv, NEW w \in Worker, Begin(w)
    PROVE  TypeInv'
<1>1. PICK inserted \in BOOLEAN :
        worker' = [worker EXCEPT ![w] = [at |-> "working", row |-> inserted]]
  BY BeginEffect
<1>2. PICK j \in Job : job' = [job EXCEPT ![w] = j] /\ j.at = "list"
  BY BeginEffect
<1> DEFINE x == [at |-> "working", row |-> inserted]
<1>3. x \in Run /\ x.at = "working"
  BY DEF Run
<1>4. worker' = [worker EXCEPT ![w] = x]
  BY <1>1
<1> HIDE DEF x
<1> QED
  BY <1>2, <1>3, <1>4, BeginEffect, RunMoves DEF Busy, Key

LEMMA FinishEffect ==
    ASSUME TypeInv, NEW w \in Worker, Finish(w)
    PROVE  /\ worker[w].at = "returned"
           /\ worker' = [worker EXCEPT ![w] = NoRun]
           /\ UNCHANGED <<server, enabled, registered>>
           /\ orphans' \subseteq orphans \cup {"this_boot"}
           /\ faulty' \in BOOLEAN /\ (faulty => faulty') /\ events' \in 0 .. MaxEvents
           /\ orphans' = orphans \/ (server = "up" => faulty')
<1>1. SchedulerTypeOK
  BY DEF TypeInv
<1>2. Succeeds(w) \/ Fails(w)
  BY DEF Finish
<1> QED
  BY <1>1, <1>2, StatementEffect DEF Finish

LEMMA FinishType ==
    ASSUME TypeInv, NEW w \in Worker, Finish(w), UNCHANGED <<calendarVars, now, ful, exc, openings, job>>
    PROVE  TypeInv'
<1>1. NoRun \in Run /\ NoRun.at = "idle"
  BY DEF NoRun, Run
<1>2. job[w].at = "idle" /\ job[w] \in Job /\ job \in [Worker -> Job]
  BY FinishEffect DEF TypeInv
<1>3. job' = [job EXCEPT ![w] = job[w]]
  BY <1>2
<1> HIDE DEF NoRun
<1> QED
  BY <1>1, <1>2, <1>3, FinishEffect, RunMoves DEF Busy, Key

LEMMA RunStepType ==
    ASSUME TypeInv, NEW w \in Worker, RunStep(w)
    PROVE  TypeInv'
<1>1. SchedulerTypeOK /\ faulty \in BOOLEAN /\ events \in 0 .. MaxEvents
      /\ exc \in [FulfillmentId -> Seq(ExceptionRow)] /\ openings \in [FulfillmentId -> Nat]
  BY DEF TypeInv, SchedulerTypeOK
<1>2. ASSUME NEW j \in Job, Inside(w, j), Reads, Succeeds(w) \/ Fails(w)
      PROVE  TypeInv'
  BY <1>1, <1>2, StatementEffect, InsideType DEF Reads
<1>3. CASE ListOverdue(w)
  BY <1>1, <1>2, <1>3, ListEffect, StatementEffect, ReturnsType
<1>4. CASE Each(w)
  <2>1. UNCHANGED <<faulty, events>>
    BY <1>4 DEF Each
  <2>2. ASSUME NEW j \in Job, Inside(w, j), Reads
        PROVE  TypeInv'
    BY <1>1, <2>1, <2>2, InsideType DEF Reads
  <2> QED
    BY <1>1, <1>4, <2>1, <2>2, EachEffect, ReturnsType
<1>5. CASE LoadSetting(w)
  BY <1>2, <1>5, LoadSettingEffect
<1>6. CASE LoadBlackouts(w)
  BY <1>2, <1>6, LoadBlackoutsEffect
<1>7. CASE Check(w)
  BY <1>2, <1>7, CheckEffect
<1>8. CASE CreateSystem(w)
  <2>1. exc' \in [FulfillmentId -> Seq(ExceptionRow)] /\ openings' \in [FulfillmentId -> Nat]
    <3>1. CASE UNCHANGED <<exc, openings>>
      BY <1>1, <3>1
    <3>2. CASE Opens(Current(w).f, job[w].seen)
      <4>1. Current(w).f \in FulfillmentId /\ job[w].seen \in Nat
        BY <1>8, CreateSystemEffect, CurrentType DEF Busy, TypeInv, Job
      <4> QED
        BY <3>2, <4>1, OpensType
    <3> QED
      BY <1>8, <3>1, <3>2, CreateSystemEffect
  <2> QED
    BY <1>1, <1>8, <2>1, CreateSystemEffect, StatementEffect, InsideType
<1>9. CASE Finish(w) /\ UNCHANGED <<calendarVars, now, ful, exc, openings, job>>
  BY <1>9, FinishType
<1> QED
  BY <1>3, <1>4, <1>5, <1>6, <1>7, <1>8, <1>9 DEF RunStep

(* What everybody but the job does.                                          *)
Outside ==
    \/ \E f \in FulfillmentId :
         \/ MakeReady(f) \/ LeaveReady(f) \/ DeleteOrRestore(f) \/ CreateException(f)
         \/ \E i \in DOMAIN exc[f], s \in ExceptionStatus : UpdateStatus(f, i, s)
    \/ Configure
    \/ Operate
    \/ Tick

LEMMA NextKinds ==
    OverdueNext <=> \/ \E w \in Worker : Begin(w) \/ RunStep(w)
                    \/ Outside
                    \/ ProcessEnds
BY DEF OverdueNext, Outside

LEMMA SetType ==
    ASSUME TypeInv, NEW f \in FulfillmentId,
           NEW row \in [ready : 0 .. MaxTime \cup {NULL}, deleted : BOOLEAN], Set(f, row)
    PROVE  TypeInv'
<1>1. SchedulerTypeOK' /\ UNCHANGED <<worker, job>>
  BY EventCounted DEF Set, TypeInv, SchedulerTypeOK
<1>2. ful' \in [FulfillmentId -> [ready : 0 .. MaxTime \cup {NULL}, deleted : BOOLEAN]]
  BY DEF Set, TypeInv
<1>3. /\ calendar' \in Hours
      /\ saving' \in [form : Forms, next : 2 .. 3] \cup {NULL}
      /\ blackouts' \subseteq 0 .. LastDay
      /\ now' \in 0 .. MaxTime
      /\ exc' \in [FulfillmentId -> Seq(ExceptionRow)]
      /\ openings' \in [FulfillmentId -> Nat]
  BY DEF Set, TypeInv, calendarVars
<1> QED
  BY <1>1, <1>2, <1>3, RunsStay

LEMMA FulfillmentsType ==
    ASSUME TypeInv, NEW f \in FulfillmentId, MakeReady(f) \/ LeaveReady(f) \/ DeleteOrRestore(f)
    PROVE  TypeInv'
<1> DEFINE R == [ready : 0 .. MaxTime \cup {NULL}, deleted : BOOLEAN]
<1>1. ful[f] \in R /\ now \in 0 .. MaxTime
  BY DEF TypeInv
<1>2. /\ [ful[f] EXCEPT !.ready = now] \in R
      /\ [ful[f] EXCEPT !.ready = NULL] \in R
      /\ [ful[f] EXCEPT !.deleted = ~@] \in R
  BY <1>1
<1>3. \E row \in R : Set(f, row)
  BY <1>2 DEF MakeReady, LeaveReady, DeleteOrRestore
<1> QED
  BY <1>3, SetType

LEMMA ConfigureType ==
    ASSUME TypeInv, Configure
    PROVE  TypeInv'
<1>1. /\ SchedulerTypeOK /\ faulty \in BOOLEAN /\ events \in 0 .. MaxEvents
      /\ calendar \in Hours /\ saving \in [form : Forms, next : 2 .. 3] \cup {NULL}
      /\ blackouts \subseteq 0 .. LastDay /\ Forms \subseteq Hours
  BY CalendarAssumption DEF TypeInv, SchedulerTypeOK
<1>2. /\ UNCHANGED <<server, enabled, registered, worker, orphans, now, ful, exc, openings, job>>
      /\ faulty' = faulty \/ faulty' = TRUE
      /\ UNCHANGED events \/ Event
  BY DEF Configure
<1>3. faulty' \in BOOLEAN
  BY <1>1, <1>2, Zenon
<1>4. events' \in 0 .. MaxEvents
  BY <1>1, <1>2, EventCounted
<1>5. SchedulerTypeOK'
  BY <1>1, <1>2, <1>3, <1>4, SchedulerTypeStays
<1>6. /\ calendar' \in Hours /\ saving' \in [form : Forms, next : 2 .. 3] \cup {NULL}
      /\ blackouts' \subseteq 0 .. LastDay
  <2>1. CalendarNext
    BY DEF Configure, CalendarNext
  <2> QED
    BY <1>1, <2>1, CalendarTypeNext
<1> QED
  BY <1>2, <1>5, <1>6, RunsStay DEF TypeInv

LEMMA CreateExceptionType ==
    ASSUME TypeInv, NEW f \in FulfillmentId, CreateException(f)
    PROVE  TypeInv'
<1>1. exc' \in [FulfillmentId -> Seq(ExceptionRow)] /\ openings' \in [FulfillmentId -> Nat]
  BY OpensType DEF CreateException
<1>2. SchedulerTypeOK' /\ UNCHANGED <<worker, job, calendar, saving, blackouts, now, ful>>
  BY EventCounted DEF CreateException, TypeInv, SchedulerTypeOK, calendarVars
<1> QED
  BY <1>1, <1>2, RunsStay DEF TypeInv

(* A change of status opens the exception again or leaves it no more open    *)
(* than it was.                                                              *)
LEMMA UpdateStatusEffect ==
    ASSUME TypeInv, NEW f \in FulfillmentId, NEW i \in DOMAIN exc[f],
           NEW status \in ExceptionStatus, UpdateStatus(f, i, status)
    PROVE  /\ exc' \in [FulfillmentId -> Seq(ExceptionRow)]
           /\ openings' \in [FulfillmentId -> Nat]
           /\ \/ Written(f, i, 0)
              \/ /\ UNCHANGED openings
                 /\ \A g \in FulfillmentId :
                      /\ DOMAIN exc'[g] = DOMAIN exc[g]
                      /\ \A k \in DOMAIN exc[g] :
                           /\ exc'[g][k].opened = exc[g][k].opened
                           /\ exc'[g][k].seen = exc[g][k].seen
                           /\ exc[g][k].status = "RESOLVED" => exc'[g][k].status = "RESOLVED"
<1> DEFINE x == exc[f][i]
<1>1. /\ exc \in [FulfillmentId -> Seq(ExceptionRow)] /\ exc[f] \in Seq(ExceptionRow)
      /\ x \in ExceptionRow /\ openings \in [FulfillmentId -> Nat] /\ openings[f] \in Nat
  BY DEF TypeInv
<1>2. ASSUME NEW y \in ExceptionRow, exc' = [exc EXCEPT ![f][i] = y]
      PROVE  /\ exc' \in [FulfillmentId -> Seq(ExceptionRow)]
             /\ \A g \in FulfillmentId : DOMAIN exc'[g] = DOMAIN exc[g]
             /\ \A g \in FulfillmentId : g # f => exc'[g] = exc[g]
             /\ exc'[f][i] = y
             /\ \A k \in DOMAIN exc[f] : k # i => exc'[f][k] = exc[f][k]
  <2> DEFINE s == [exc[f] EXCEPT ![i] = y]
  <2>1. exc' = [exc EXCEPT ![f] = s]
    BY <1>1, <1>2
  <2>2. s \in Seq(ExceptionRow) /\ DOMAIN s = DOMAIN exc[f] /\ s[i] = y
        /\ \A k \in DOMAIN exc[f] : k # i => s[k] = exc[f][k]
    BY <1>1, <1>2
  <2> HIDE DEF s
  <2>3. exc'[f] = s /\ \A g \in FulfillmentId : g # f => exc'[g] = exc[g]
    BY <1>1, <2>1
  <2>4. exc' \in [FulfillmentId -> Seq(ExceptionRow)]
    BY <1>1, <2>1, <2>2
  <2> QED
    BY <2>2, <2>3, <2>4
<1>3. CASE x.status = "RESOLVED" /\ status # "RESOLVED"
  <2> DEFINE y == [status |-> status, opened |-> openings[f] + 1, seen |-> 0]
  <2>1. exc' = [exc EXCEPT ![f][i] = y] /\ openings' = [openings EXCEPT ![f] = @ + 1]
    BY <1>3 DEF UpdateStatus
  <2>2. y \in ExceptionRow /\ y.opened = openings[f] + 1 /\ y.seen = 0
    BY <1>1 DEF ExceptionRow
  <2> HIDE DEF y
  <2>3. Written(f, i, 0)
    BY <1>2, <2>1, <2>2 DEF Written
  <2> QED
    BY <1>1, <1>2, <2>1, <2>2, <2>3
<1>4. CASE ~(x.status = "RESOLVED" /\ status # "RESOLVED")
  <2> DEFINE y == [x EXCEPT !.status = status]
  <2>1. exc' = [exc EXCEPT ![f][i] = y] /\ UNCHANGED openings
    BY <1>1, <1>4 DEF UpdateStatus
  <2>2. y \in ExceptionRow /\ y.opened = x.opened /\ y.seen = x.seen /\ y.status = status
    BY <1>1 DEF ExceptionRow
  <2> HIDE DEF y
  <2>3. \A g \in FulfillmentId :
          /\ DOMAIN exc'[g] = DOMAIN exc[g]
          /\ \A k \in DOMAIN exc[g] :
               /\ exc'[g][k].opened = exc[g][k].opened
               /\ exc'[g][k].seen = exc[g][k].seen
               /\ exc[g][k].status = "RESOLVED" => exc'[g][k].status = "RESOLVED"
    BY <1>2, <1>4, <2>1, <2>2
  <2> QED
    BY <1>1, <1>2, <2>1, <2>2, <2>3
<1> QED
  BY <1>3, <1>4

LEMMA UpdateStatusType ==
    ASSUME TypeInv, NEW f \in FulfillmentId, NEW i \in DOMAIN exc[f],
           NEW status \in ExceptionStatus, UpdateStatus(f, i, status)
    PROVE  TypeInv'
<1>1. exc' \in [FulfillmentId -> Seq(ExceptionRow)] /\ openings' \in [FulfillmentId -> Nat]
  BY UpdateStatusEffect
<1>2. SchedulerTypeOK' /\ UNCHANGED <<worker, job, calendar, saving, blackouts, now, ful>>
  BY EventCounted DEF UpdateStatus, TypeInv, SchedulerTypeOK, calendarVars
<1> QED
  BY <1>1, <1>2, RunsStay DEF TypeInv

LEMMA OperateEffect ==
    ASSUME TypeInv, Operate
    PROVE  /\ SchedulerTypeOK'
           /\ UNCHANGED <<worker, orphans, calendarVars, now, ful, exc, openings, job>>
           /\ server' = "up" => server \in {"up", "down"}
           /\ server' = "down" => server = "down"
           /\ server = "up" => server' = "stopping" \/ (server' = "up" /\ faulty' = faulty)
           /\ server = "stopping" => server' = "stopping"
<1>1. SchedulerTypeOK /\ faulty \in BOOLEAN /\ enabled \in BOOLEAN /\ registered \in BOOLEAN
  BY DEF TypeInv, SchedulerTypeOK
<1>2. UNCHANGED events \/ Event
  BY DEF Operate, Restart, Stop, UpdateSchedule
<1>3. events' \in 0 .. MaxEvents
  BY <1>1, <1>2, EventCounted DEF SchedulerTypeOK
<1>4. /\ faulty' = faulty \/ faulty' = TRUE \/ faulty' = FALSE
      /\ registered' = registered \/ registered' = enabled \/ registered' = TRUE
      /\ enabled' = enabled \/ enabled' = ~enabled
  BY DEF Operate, Restart, Stop, UpdateSchedule
<1>5. {enabled', registered', faulty'} \subseteq BOOLEAN
  BY <1>1, <1>4, Zenon
<1>6. /\ server' \in {"up", "stopping", "down"}
      /\ UNCHANGED <<worker, orphans, calendarVars, now, ful, exc, openings, job>>
      /\ server' = "up" => server \in {"up", "down"}
      /\ server' = "down" => server = "down"
      /\ server = "up" => server' = "stopping" \/ (server' = "up" /\ faulty' = faulty)
      /\ server = "stopping" => server' = "stopping"
  BY <1>1 DEF Operate, Restart, Stop, UpdateSchedule, SchedulerTypeOK
<1> QED
  BY <1>1, <1>3, <1>5, <1>6 DEF SchedulerTypeOK

LEMMA ProcessEndsEffect ==
    ASSUME TypeInv, ProcessEnds
    PROVE  /\ TypeInv'
           /\ job' = [w \in Worker |-> NoJob] /\ UNCHANGED <<now, ful, exc, openings>>
           /\ server' = "down" /\ "this_boot" \notin orphans'
<1>1. SchedulerTypeOK
  BY DEF TypeInv
<1>2. /\ (Die /\ UNCHANGED events) \/ (Event /\ Die)
      /\ job' = [w \in Worker |-> NoJob] /\ saving' = NULL
      /\ UNCHANGED <<calendar, blackouts, now, ful, exc, openings>>
  BY DEF ProcessEnds, Exit, Crash
<1>3. events' \in 0 .. MaxEvents
  BY <1>1, <1>2, EventCounted DEF SchedulerTypeOK
<1>4. /\ worker' = [w \in Worker |-> NoRun] /\ server' = "down"
      /\ orphans' \subseteq {"earlier_boot"} /\ UNCHANGED <<enabled, registered, faulty>>
  BY <1>2 DEF Die
<1>5. worker' \in [Worker -> [at : {"idle", "working", "returned"}, row : BOOLEAN]]
  BY <1>4 DEF NoRun
<1>6. SchedulerTypeOK'
  BY <1>1, <1>3, <1>4, <1>5 DEF SchedulerTypeOK
<1>7. job' \in [Worker -> Job]
  BY <1>2, NoJobType
<1>8. \A w \in Worker : /\ job'[w].at = "idle"
                        /\ worker'[w].at = "idle"
  BY <1>2, <1>4, NoJobType DEF NoRun
<1>9. TypeInv'
  BY <1>2, <1>6, <1>7, <1>8 DEF TypeInv, Busy, Key
<1> QED
  BY <1>2, <1>4, <1>9

LEMMA TypeInvNext ==
    ASSUME TypeInv, [OverdueNext]_overdueVars
    PROVE  TypeInv'
<1>1. CASE UNCHANGED overdueVars
  BY <1>1 DEF TypeInv, SchedulerTypeOK, overdueVars, schedulerVars, calendarVars
<1>2. ASSUME NEW f \in FulfillmentId,
             \/ MakeReady(f) \/ LeaveReady(f) \/ DeleteOrRestore(f) \/ CreateException(f)
             \/ \E i \in DOMAIN exc[f], s \in ExceptionStatus : UpdateStatus(f, i, s)
      PROVE  TypeInv'
  BY <1>2, FulfillmentsType, CreateExceptionType, UpdateStatusType
<1>3. CASE Operate
  BY <1>3, OperateEffect, RunsStay DEF TypeInv, calendarVars
<1>4. CASE Tick
  <2>1. now' \in 0 .. MaxTime
    BY <1>4, OverdueAssumption DEF Tick, TypeInv
  <2>2. SchedulerTypeOK' /\ UNCHANGED <<worker, job, calendar, saving, blackouts, ful, exc, openings>>
    BY <1>4 DEF Tick, TypeInv, SchedulerTypeOK, schedulerVars, calendarVars
  <2> QED
    BY <2>1, <2>2, RunsStay DEF TypeInv
<1> QED
  BY <1>1, <1>2, <1>3, <1>4, ConfigureType, BeginType, RunStepType, ProcessEndsEffect, NextKinds
     DEF Outside

(* The tables, the runs and their places in the job have their types,        *)
(* whatever fails, and a run is in the job exactly while its worker works    *)
(* (Scheduler.runOnce, OverdueJob.Run).                                      *)
THEOREM OverdueTypeCorrect == OverdueSpec => []OverdueTypeOK
<1>1. OverdueSpec => OverdueInit /\ [][OverdueNext]_overdueVars
  BY PTL DEF OverdueSpec
<1>2. OverdueInit => TypeInv
  BY TypeInvInit
<1>3. TypeInv /\ [OverdueNext]_overdueVars => TypeInv'
  BY TypeInvNext
<1> QED
  BY <1>1, <1>2, <1>3, TypeInvIsType, PTL

-----------------------------------------------------------------------------
(* The history *)

(* A row of this boot left RUNNING is a fault's, or its process is on the    *)
(* way out; the next process inherits none.                                  *)
RowsTold == "this_boot" \in orphans => server = "stopping" \/ (server = "up" /\ faulty)

NobodyRuns == server = "down" => \A w \in Worker : worker[w].at = "idle"

LEMMA RunsInProcess ==
    ASSUME TypeInv, NobodyRuns, NEW w \in Worker, Begin(w) \/ RunStep(w)
    PROVE  server # "down" /\ server' = server
<1>1. CASE Begin(w)
  BY <1>1, BeginEffect DEF Begin, TickerFires, Trigger
<1>2. CASE RunStep(w)
  <2>1. server' = server
    BY <1>2 DEF RunStep, ListOverdue, Each, LoadSetting, LoadBlackouts, Check, CreateSystem,
       Finish, Returns, Reads
  <2>2. job[w].at # "idle" \/ worker[w].at = "returned"
    BY <1>2 DEF RunStep, ListOverdue, Each, LoadSetting, LoadBlackouts, Check, CreateSystem,
       Finish, At, Key
  <2> QED
    BY <2>1, <2>2 DEF NobodyRuns, TypeInv
<1> QED
  BY <1>1, <1>2

LEMMA NobodyRunsNext ==
    ASSUME TypeInv, NobodyRuns, [OverdueNext]_overdueVars
    PROVE  NobodyRuns'
<1>1. CASE ProcessEnds
  BY <1>1 DEF ProcessEnds, Exit, Crash, Die, NobodyRuns, NoRun
<1>2. CASE Outside
  <2>1. UNCHANGED worker /\ (server' = "down" => server = "down")
    <3>1. CASE Operate
      BY <3>1, OperateEffect
    <3>2. CASE ~Operate
      BY <1>2, <3>2 DEF Outside, MakeReady, LeaveReady, DeleteOrRestore, Set, CreateException,
         UpdateStatus, Configure, Tick, schedulerVars
    <3> QED
      BY <3>1, <3>2
  <2> QED
    BY <2>1 DEF NobodyRuns
<1>3. CASE UNCHANGED overdueVars
  BY <1>3 DEF NobodyRuns, overdueVars, schedulerVars
<1> QED
  BY <1>1, <1>2, <1>3, RunsInProcess, NextKinds DEF NobodyRuns

LEMMA RowsNext ==
    ASSUME TypeInv, NobodyRuns, RowsTold, [OverdueNext]_overdueVars
    PROVE  RowsTold'
<1>1. SchedulerTypeOK
  BY DEF TypeInv
<1>2. CASE UNCHANGED <<server, orphans>> /\ (faulty => faulty')
  BY <1>2 DEF RowsTold
<1>3. ASSUME NEW w \in Worker, Begin(w)
      PROVE  RowsTold'
  BY <1>2, <1>3, BeginEffect
<1>4. ASSUME NEW w \in Worker, RunStep(w)
      PROVE  RowsTold'
  <2>1. CASE Finish(w)
    <3>1. CASE orphans' = orphans
      BY <1>2, <2>1, <3>1, FinishEffect
    <3>2. CASE server = "up" => faulty'
      <4>1. server' = server /\ (server = "up" \/ server = "stopping")
        <5>1. server' = server /\ server # "down" /\ server \in {"up", "stopping", "down"}
          BY <1>1, <1>4, RunsInProcess DEF SchedulerTypeOK
        <5> QED
          BY <5>1
      <4> QED
        BY <3>2, <4>1 DEF RowsTold
    <3> QED
      BY <2>1, <3>1, <3>2, FinishEffect
  <2>2. CASE ~Finish(w)
    <3>1. (Succeeds(w) \/ Fails(w)) => (faulty => faulty')
      BY <1>1, StatementEffect
    <3>2. UNCHANGED <<server, orphans>>
      BY <1>4, <2>2, ListEffect, EachEffect, ReturnsEffect, LoadSettingEffect,
         LoadBlackoutsEffect, CheckEffect, CreateSystemEffect DEF RunStep, Reads
    <3>3. faulty => faulty'
      BY <1>4, <2>2, <3>1, ListEffect, LoadSettingEffect, LoadBlackoutsEffect, CheckEffect,
         CreateSystemEffect DEF RunStep, Each
    <3> QED
      BY <1>2, <3>2, <3>3
  <2> QED
    BY <2>1, <2>2
<1>5. CASE ProcessEnds
  BY <1>5, ProcessEndsEffect DEF RowsTold
<1>6. CASE Operate
  <2>1. server \in {"up", "stopping", "down"} /\ orphans' = orphans
    BY <1>1, <1>6, OperateEffect DEF SchedulerTypeOK
  <2>2. server = "up" => server' = "stopping" \/ (server' = "up" /\ (faulty => faulty'))
    BY <1>6, OperateEffect
  <2>3. server' = "up" => server = "up" \/ server = "down"
    BY <1>6, OperateEffect
  <2>4. /\ server = "stopping" => server' = "stopping"
        /\ server' = "up" \/ server' = "stopping" \/ server' = "down"
        /\ server' = "down" => server = "down"
    BY <1>6, OperateEffect DEF SchedulerTypeOK
  <2> QED
    BY <2>1, <2>2, <2>3, <2>4 DEF RowsTold
<1>7. CASE Outside /\ ~Operate
  <2>1. UNCHANGED <<server, orphans>>
    BY <1>7 DEF Outside, MakeReady, LeaveReady, DeleteOrRestore, Set, CreateException,
       UpdateStatus, Configure, Tick, schedulerVars
  <2>2. faulty' = faulty \/ faulty' = TRUE
    BY <1>7 DEF Outside, MakeReady, LeaveReady, DeleteOrRestore, Set, CreateException,
       UpdateStatus, Configure, Tick, schedulerVars
  <2> QED
    BY <1>2, <2>1, <2>2
<1>8. CASE UNCHANGED overdueVars
  BY <1>2, <1>8 DEF overdueVars, schedulerVars
<1> QED
  BY <1>3, <1>4, <1>5, <1>6, <1>7, <1>8, NextKinds

(* While the process is up, a run of this boot that the history shows as     *)
(* RUNNING although it is over had a statement fail: Finish closes every     *)
(* row, and what a crash or a shutdown leaves is an earlier boot's           *)
(* (Scheduler.runOnce, registerScheduledJobs).                               *)
THEOREM RunningRowsCorrect == OverdueSpec => []RunningRowsRun
<1>1. OverdueSpec => OverdueInit /\ [][OverdueNext]_overdueVars
  BY PTL DEF OverdueSpec
<1>2. OverdueInit => TypeInv /\ NobodyRuns /\ RowsTold
  BY TypeInvInit DEF OverdueInit, SchedulerInit, RowsTold, NobodyRuns
<1>3. TypeInv /\ NobodyRuns /\ RowsTold /\ [OverdueNext]_overdueVars => TypeInv' /\ NobodyRuns' /\ RowsTold'
  BY TypeInvNext, NobodyRunsNext, RowsNext
<1>4. RowsTold => RunningRowsRun
  BY DEF RowsTold, RunningRowsRun
<1> QED
  BY <1>1, <1>2, <1>3, <1>4, PTL

-----------------------------------------------------------------------------
(* Exceptions *)

(* The openings of a fulfillment's exceptions are numbered from 1.           *)
OpenedInv ==
    \A f \in FulfillmentId : \A i \in DOMAIN exc[f] : exc[f][i].opened \in 1 .. openings[f]

(* What is not resolved was opened after the seen-th opening.                *)
AllLater(f, seen) ==
    \A i \in DOMAIN exc[f] : exc[f][i].status # "RESOLVED" => seen < exc[f][i].opened

(* Between the check and the insert of a run: whatever is open by now was    *)
(* opened since the check.                                                   *)
CheckedInv ==
    \A w \in Worker : job[w].at = "create" =>
        /\ job[w].seen <= openings[Current(w).f]
        /\ AllLater(Current(w).f, job[w].seen)

ExceptionInv == OpenedInv /\ CheckedInv /\ DuplicatesOnlyByOverlap

(* Whoever does not look has seen nothing.                                   *)
LEMMA OpenedLater ==
    ASSUME TypeInv, ExceptionInv, NEW f \in FulfillmentId
    PROVE  AllLater(f, 0)
<1>1. openings[f] \in Nat
  BY DEF TypeInv
<1> QED
  BY <1>1 DEF ExceptionInv, OpenedInv, AllLater

(* An exception is opened, or opened again, by somebody who saw none that is *)
(* still open.                                                               *)
LEMMA WrittenKeeps ==
    ASSUME TypeInv, ExceptionInv, NEW f \in FulfillmentId, NEW k, NEW seen \in Nat,
           Written(f, k, seen), AllLater(f, seen),
           \A w \in Worker : job'[w].at = "create" => job'[w] = job[w]
    PROVE  ExceptionInv'
<1> DEFINE n == openings[f]
<1>1. /\ openings \in [FulfillmentId -> Nat] /\ n \in Nat
      /\ openings'[f] = n + 1
      /\ \A g \in FulfillmentId : g # f => openings'[g] = openings[g]
  BY DEF TypeInv, Written
<1>2. /\ \A g \in FulfillmentId : g # f => exc'[g] = exc[g]
      /\ DOMAIN exc'[f] \subseteq DOMAIN exc[f] \cup {k}
      /\ exc'[f][k].opened = n + 1 /\ exc'[f][k].seen = seen
      /\ \A i \in DOMAIN exc[f] : i # k => exc'[f][i] = exc[f][i]
  BY DEF Written
<1>3. \A i \in DOMAIN exc[f] : exc[f][i].opened \in 1 .. n
  BY DEF ExceptionInv, OpenedInv
<1> HIDE DEF n
<1>4. OpenedInv'
  <2> SUFFICES ASSUME NEW g \in FulfillmentId, NEW i \in DOMAIN exc'[g]
               PROVE  exc'[g][i].opened \in 1 .. openings'[g]
    BY DEF OpenedInv
  <2>1. CASE g # f
    BY <1>1, <1>2, <2>1 DEF ExceptionInv, OpenedInv
  <2>2. CASE g = f /\ i = k
    BY <1>1, <1>2, <2>2
  <2>3. CASE g = f /\ i # k
    <3>1. i \in DOMAIN exc[f] /\ exc'[f][i] = exc[f][i]
      BY <1>2, <2>3
    <3> QED
      BY <1>1, <1>3, <2>3, <3>1
  <2> QED
    BY <2>1, <2>2, <2>3
<1>5. CheckedInv'
  <2> SUFFICES ASSUME NEW w \in Worker, job'[w].at = "create"
               PROVE  /\ job'[w].seen <= openings'[Current(w)'.f]
                      /\ \A i \in DOMAIN exc'[Current(w)'.f] :
                           exc'[Current(w)'.f][i].status # "RESOLVED" =>
                             job'[w].seen < exc'[Current(w)'.f][i].opened
    BY DEF CheckedInv, AllLater
  <2>1. job'[w] = job[w] /\ job[w].at = "create"
    OBVIOUS
  <2>2. PICK c : c = Current(w)
    OBVIOUS
  <2>3. Current(w)' = c
    BY <2>1, <2>2 DEF Current
  <2>4. c.f \in FulfillmentId
    BY <2>1, <2>2, CurrentType DEF Busy
  <2>5. PICK m : m = job[w].seen
    OBVIOUS
  <2>6. m \in Nat /\ m <= openings[c.f] /\ AllLater(c.f, m)
    BY <2>1, <2>2, <2>5 DEF ExceptionInv, CheckedInv, TypeInv, Job
  <2>7. m <= openings'[c.f]
    BY <1>1, <2>4, <2>6 DEF n
  <2>8. ASSUME NEW i \in DOMAIN exc'[c.f], exc'[c.f][i].status # "RESOLVED"
        PROVE  m < exc'[c.f][i].opened
    <3>1. CASE c.f # f
      BY <1>2, <2>4, <2>6, <2>8, <3>1 DEF AllLater
    <3>2. CASE c.f = f /\ i = k
      BY <1>1, <1>2, <2>6, <3>2 DEF n
    <3>3. CASE c.f = f /\ i # k
      <4>1. i \in DOMAIN exc[f] /\ exc'[f][i] = exc[f][i]
        BY <1>2, <2>8, <3>3
      <4> QED
        BY <2>6, <2>8, <3>3, <4>1 DEF AllLater
    <3> QED
      BY <3>1, <3>2, <3>3
  <2> QED
    BY <2>1, <2>3, <2>5, <2>7, <2>8 DEF AllLater
<1>6. DuplicatesOnlyByOverlap'
  <2>1. \A g \in FulfillmentId : \A i, j \in DOMAIN exc[g] :
          /\ exc[g][i].status # "RESOLVED" /\ exc[g][j].status # "RESOLVED"
          /\ exc[g][i].opened < exc[g][j].opened
          => exc[g][j].seen < exc[g][i].opened
    BY DEF ExceptionInv, DuplicatesOnlyByOverlap
  <2> SUFFICES ASSUME NEW g \in FulfillmentId, NEW i \in DOMAIN exc'[g], NEW j \in DOMAIN exc'[g],
                      exc'[g][i].status # "RESOLVED", exc'[g][j].status # "RESOLVED",
                      exc'[g][i].opened < exc'[g][j].opened
               PROVE  exc'[g][j].seen < exc'[g][i].opened
    BY DEF DuplicatesOnlyByOverlap
  <2>2. CASE g # f
    BY <1>2, <2>1, <2>2
  <2>3. CASE g = f
    <3>1. \A l \in DOMAIN exc'[f] : l # k => /\ l \in DOMAIN exc[f] /\ exc'[f][l] = exc[f][l]
                                             /\ exc[f][l].opened \in 1 .. n
      BY <1>2, <1>3
    <3>2. i # k
      BY <1>1, <1>2, <2>3, <3>1
    <3>3. CASE j = k
      BY <1>2, <2>3, <3>1, <3>2, <3>3 DEF AllLater
    <3>4. CASE j # k
      BY <2>1, <2>3, <3>1, <3>2, <3>4
    <3> QED
      BY <3>3, <3>4
  <2> QED
    BY <2>2, <2>3
<1> QED
  BY <1>4, <1>5, <1>6 DEF ExceptionInv

(* Nothing is opened; a run that gets to its insert has just looked.         *)
LEMMA NothingOpened ==
    ASSUME TypeInv, ExceptionInv, UNCHANGED openings,
           \A g \in FulfillmentId :
             /\ DOMAIN exc'[g] = DOMAIN exc[g]
             /\ \A k \in DOMAIN exc[g] :
                  /\ exc'[g][k].opened = exc[g][k].opened
                  /\ exc'[g][k].seen = exc[g][k].seen
                  /\ exc[g][k].status = "RESOLVED" => exc'[g][k].status = "RESOLVED",
           \A w \in Worker : job'[w].at = "create" =>
               \/ job'[w] = job[w]
               \/ /\ job'[w].todo = job[w].todo /\ job[w].at = "check"
                  /\ job'[w].seen = openings[Current(w).f]
                  /\ ~ExistsOpenForFulfillment(Current(w).f)
    PROVE  ExceptionInv'
<1>1. OpenedInv'
  BY DEF ExceptionInv, OpenedInv
<1>2. CheckedInv'
  <2> SUFFICES ASSUME NEW w \in Worker, job'[w].at = "create"
               PROVE  /\ job'[w].seen <= openings'[Current(w)'.f]
                      /\ \A i \in DOMAIN exc'[Current(w)'.f] :
                           exc'[Current(w)'.f][i].status # "RESOLVED" =>
                             job'[w].seen < exc'[Current(w)'.f][i].opened
    BY DEF CheckedInv, AllLater
  <2>1. job'[w].todo = job[w].todo /\ job[w].at \in Busy
    BY DEF Busy
  <2>2. PICK c : c = Current(w)
    OBVIOUS
  <2>3. Current(w)' = c
    BY <2>1, <2>2 DEF Current
  <2>4. c.f \in FulfillmentId /\ openings[c.f] \in Nat
    BY <2>1, <2>2, CurrentType DEF TypeInv
  <2>5. PICK m : m = job'[w].seen
    OBVIOUS
  <2>6. m <= openings[c.f] /\ AllLater(c.f, m)
    <3>1. CASE job'[w] = job[w]
      BY <2>2, <2>5, <3>1 DEF ExceptionInv, CheckedInv
    <3>2. CASE job'[w].seen = openings[c.f] /\ ~ExistsOpenForFulfillment(c.f)
      BY <2>4, <2>5, <3>2 DEF ExistsOpenForFulfillment, AllLater
    <3> QED
      BY <2>2, <3>1, <3>2
  <2> QED
    BY <2>3, <2>4, <2>5, <2>6 DEF AllLater
<1>3. DuplicatesOnlyByOverlap'
  BY DEF ExceptionInv, DuplicatesOnlyByOverlap
<1> QED
  BY <1>1, <1>2, <1>3 DEF ExceptionInv

(* The step of a run: its own insert follows its own check.                  *)
LEMMA RunKeeps ==
    ASSUME TypeInv, ExceptionInv, NEW w \in Worker, RunStep(w)
    PROVE  ExceptionInv'
<1>1. ASSUME UNCHANGED <<exc, openings>>, NEW j \in Job, job' = [job EXCEPT ![w] = j],
             j.at = "create" => /\ j.todo = job[w].todo /\ job[w].at = "check"
                                /\ j.seen = openings[Current(w).f]
                                /\ ~ExistsOpenForFulfillment(Current(w).f)
      PROVE  ExceptionInv'
  <2>1. job'[w] = j /\ \A v \in Worker : v # w => job'[v] = job[v]
    BY <1>1, JobWritten
  <2> QED
    BY <1>1, <2>1, NothingOpened
<1>2. CASE Returns(w)
  BY <1>1, <1>2, ReturnsEffect, NoJobType
<1>3. CASE ListOverdue(w)
  BY <1>1, <1>2, <1>3, ListEffect DEF Reads, Inside
<1>4. CASE Each(w)
  BY <1>1, <1>2, <1>4, EachEffect DEF Reads, Inside
<1>5. CASE LoadSetting(w)
  BY <1>1, <1>5, LoadSettingEffect DEF Reads, Inside
<1>6. CASE LoadBlackouts(w)
  BY <1>1, <1>6, LoadBlackoutsEffect DEF Reads, Inside
<1>7. CASE Check(w)
  BY <1>1, <1>7, CheckEffect DEF Reads, Inside
<1>8. CASE CreateSystem(w)
  <2>1. PICK j \in Job : Inside(w, j) /\ j.at = "each"
    BY <1>8, CreateSystemEffect
  <2>2. job'[w] = j /\ \A v \in Worker : v # w => job'[v] = job[v]
    BY <2>1, JobWritten DEF Inside
  <2>3. CASE UNCHANGED <<exc, openings>>
    BY <1>1, <2>1, <2>3 DEF Inside
  <2>4. CASE Opens(Current(w).f, job[w].seen)
    <3>1. job[w].at = "create"
      BY <1>8, CreateSystemEffect
    <3>2. /\ Current(w).f \in FulfillmentId /\ job[w].seen \in Nat
          /\ AllLater(Current(w).f, job[w].seen)
      BY <3>1, CurrentType DEF ExceptionInv, CheckedInv, Busy, TypeInv, Job
    <3>3. PICK f \in FulfillmentId, seen \in Nat : f = Current(w).f /\ seen = job[w].seen
      BY <3>2
    <3>4. PICK k : Written(f, k, seen)
      BY <2>4, <3>3, OpensEffect
    <3> QED
      BY <2>1, <2>2, <3>2, <3>3, <3>4, WrittenKeeps
  <2> QED
    BY <1>8, <2>3, <2>4, CreateSystemEffect
<1>9. CASE UNCHANGED <<exc, openings, job>>
  BY <1>9, NothingOpened
<1> QED
  BY <1>3, <1>4, <1>5, <1>6, <1>7, <1>8, <1>9 DEF RunStep

LEMMA ExceptionNext ==
    ASSUME TypeInv, ExceptionInv, [OverdueNext]_overdueVars
    PROVE  ExceptionInv'
<1>1. CASE UNCHANGED <<exc, openings, job>>
  BY <1>1, NothingOpened
<1>2. ASSUME NEW w \in Worker, Begin(w)
      PROVE  ExceptionInv'
  <2>1. PICK j \in Job : job' = [job EXCEPT ![w] = j] /\ j.at = "list"
    BY <1>2, BeginEffect
  <2>2. job'[w] = j /\ \A v \in Worker : v # w => job'[v] = job[v]
    BY <2>1, JobWritten
  <2> QED
    BY <1>2, <2>1, <2>2, BeginEffect, NothingOpened
<1>3. CASE ProcessEnds
  <2>1. UNCHANGED <<exc, openings>> /\ \A w \in Worker : job'[w].at = "idle"
    BY <1>3, ProcessEndsEffect, NoJobType
  <2> QED
    BY <2>1, NothingOpened
<1>4. ASSUME NEW f \in FulfillmentId, CreateException(f)
      PROVE  ExceptionInv'
  <2>1. Opens(f, 0) /\ UNCHANGED job
    BY <1>4 DEF CreateException
  <2>2. PICK k : Written(f, k, 0)
    BY <2>1, OpensEffect
  <2> QED
    BY <2>1, <2>2, OpenedLater, WrittenKeeps
<1>5. ASSUME NEW f \in FulfillmentId, NEW i \in DOMAIN exc[f], NEW s \in ExceptionStatus,
             UpdateStatus(f, i, s)
      PROVE  ExceptionInv'
  <2>1. UNCHANGED job
    BY <1>5 DEF UpdateStatus
  <2>2. CASE Written(f, i, 0)
    BY <2>1, <2>2, OpenedLater, WrittenKeeps
  <2>3. CASE ~Written(f, i, 0)
    BY <1>5, <2>1, <2>3, UpdateStatusEffect, NothingOpened
  <2> QED
    BY <2>2, <2>3
<1>6. ASSUME NEW f \in FulfillmentId, MakeReady(f) \/ LeaveReady(f) \/ DeleteOrRestore(f)
      PROVE  UNCHANGED <<exc, openings, job>>
  BY <1>6 DEF MakeReady, LeaveReady, DeleteOrRestore, Set
<1>7. Configure \/ Tick \/ Operate => UNCHANGED <<exc, openings, job>>
  BY DEF Configure, Tick, Operate
<1>8. UNCHANGED overdueVars => UNCHANGED <<exc, openings, job>>
  BY DEF overdueVars
<1> QED
  BY <1>1, <1>2, <1>3, <1>4, <1>5, <1>6, <1>7, <1>8, RunKeeps, NextKinds DEF Outside

(* Duplicates take an overlap: a run opens an exception beside one that is   *)
(* not resolved only if that was opened, or reopened, after the run had      *)
(* looked and found none and before its insert (OverdueJob.Run:              *)
(* ExistsOpenForFulfillment, then CreateSystem, without a transaction).      *)
THEOREM DuplicatesCorrect == OverdueSpec => []DuplicatesOnlyByOverlap
<1>1. OverdueSpec => OverdueInit /\ [][OverdueNext]_overdueVars
  BY PTL DEF OverdueSpec
<1>2. OverdueInit => TypeInv /\ ExceptionInv
  BY TypeInvInit, NoJobType DEF OverdueInit, ExceptionInv, OpenedInv, CheckedInv, DuplicatesOnlyByOverlap
<1>3. TypeInv /\ ExceptionInv /\ [OverdueNext]_overdueVars => TypeInv' /\ ExceptionInv'
  BY TypeInvNext, ExceptionNext
<1>4. ExceptionInv => DuplicatesOnlyByOverlap
  BY DEF ExceptionInv
<1> QED
  BY <1>1, <1>2, <1>3, <1>4, PTL

-----------------------------------------------------------------------------
(* Deadlines *)

(* A run that asks for a voucher's settings has a voucher in hand; one that  *)
(* checks or opens is past the deadline, for the hours and dates it has      *)
(* read.                                                                     *)
PastAt(j, time) ==
    LET c == Head(j.todo) IN
    /\ j.at \in Key \cup {"blackouts"} => TypeOf[c.f] # "PHYSICAL"
    /\ j.at \in {"check", "create"} =>
         IF TypeOf[c.f] = "PHYSICAL" THEN time > PhysicalDeadline(c.ready)
         ELSE Passed(j.cfg, j.black, c.ready, time) >= Need

PastInv == \A w \in Worker : PastAt(job[w], now)

LEMMA TimeInRange == 0 .. MaxTime \subseteq 0 .. LastTurn
<1>1. /\ DayLength \in Nat /\ LastDay \in Nat /\ Need \in Nat /\ WeekLength \in Nat
      /\ MaxTime \in Nat /\ MaxTime < (LastDay + 2) * DayLength
  BY Sizes, OverdueAssumption
<1>2. WeekLength * (Need + 1) \in Nat
  BY <1>1
<1>3. \A b \in Nat : LastDay + 2 <= b => (LastDay + 2) * DayLength <= DayLength * b
  BY <1>1
<1>4. (LastDay + 2) * DayLength <= Horizon
  BY <1>1, <1>2, <1>3 DEF Horizon
<1>5. (LastDay + 2) * DayLength \in Nat
  BY <1>1
<1> QED
  BY <1>1, <1>4, <1>5, HorizonType DEF LastTurn

(* What is past stays past.                                                  *)
LEMMA PastStays ==
    ASSUME NEW j \in Job, NEW time \in Nat, NEW later \in Nat, time <= later,
           j.at \in Busy => j.todo # <<>>, PastAt(j, time)
    PROVE  PastAt(j, later)
<1> DEFINE c == Head(j.todo)
<1> SUFFICES ASSUME j.at \in {"check", "create"}
             PROVE  IF TypeOf[c.f] = "PHYSICAL" THEN later > PhysicalDeadline(c.ready)
                    ELSE Passed(j.cfg, j.black, c.ready, later) >= Need
  BY DEF PastAt
<1>1. j.todo \in Seq(Candidate) /\ j.todo # <<>>
  BY DEF Job, Busy
<1>2. c \in Candidate
  BY <1>1
<1>3. c.ready \in Nat /\ PhysicalDeadline(c.ready) \in Nat /\ Need \in Nat
  BY <1>2, Sizes DEF Candidate, PhysicalDeadline
<1>4. /\ Passed(j.cfg, j.black, c.ready, time) \in Nat
      /\ Passed(j.cfg, j.black, c.ready, later) \in Nat
      /\ Passed(j.cfg, j.black, c.ready, time) <= Passed(j.cfg, j.black, c.ready, later)
  BY <1>3, UnitsType, PassedGrows
<1>5. IF TypeOf[c.f] = "PHYSICAL" THEN time > PhysicalDeadline(c.ready)
      ELSE Passed(j.cfg, j.black, c.ready, time) >= Need
  BY DEF PastAt
<1> HIDE DEF c
<1> QED
  BY <1>3, <1>4, <1>5

(* Past the deadline that the loop computes, Need units have passed.         *)
LEMMA VoucherPast ==
    ASSUME NEW cfg \in Hours, NEW black, NEW ready \in 0 .. MaxTime, NEW time \in Nat,
           VoucherDeadline(cfg, black, ready) # NULL,
           time > VoucherDeadline(cfg, black, ready)
    PROVE  Passed(cfg, black, ready, time) >= Need
<1> DEFINE d == VoucherDeadline(cfg, black, ready)
<1>1. ready \in 0 .. LastTurn /\ ready \in Nat /\ Need \in Nat
  BY TimeInRange, Sizes, HorizonType
<1>2. Exact(cfg, black, ready, Need, d)
  BY <1>1, VoucherExact
<1>3. d # NULL /\ time > d
  OBVIOUS
<1> HIDE DEF d
<1>4. d \in Nat /\ Passed(cfg, black, ready, d) = Need
  BY <1>2, <1>3 DEF Exact
<1>5. Passed(cfg, black, ready, d) <= Passed(cfg, black, ready, time)
  BY <1>1, <1>3, <1>4, PassedGrows
<1> QED
  BY <1>4, <1>5

LEMMA PastMoves ==
    ASSUME TypeInv, PastInv, NEW w \in Worker, NEW j \in Job, job' = [job EXCEPT ![w] = j],
           UNCHANGED now, PastAt(j, now)
    PROVE  PastInv'
BY JobWritten DEF PastInv

LEMMA PastNot ==
    ASSUME NEW j, NEW time, j.at \in {"idle", "list", "each", "spinning"}
    PROVE  PastAt(j, time)
BY DEF PastAt, Key

LEMMA PastRun ==
    ASSUME TypeInv, PastInv, NEW w \in Worker, RunStep(w)
    PROVE  PastInv'
<1>1. PastAt(job[w], now) /\ now \in Nat
  BY OverdueAssumption DEF PastInv, TypeInv
<1>2. ASSUME NEW j \in Job, job' = [job EXCEPT ![w] = j], UNCHANGED now,
             j.at \in {"idle", "list", "each", "spinning"}
      PROVE  PastInv'
  <2>1. PastAt(j, now)
    BY <1>2, PastNot
  <2> QED
    BY <1>2, <2>1, PastMoves
<1>3. CASE Returns(w)
  BY <1>2, <1>3, ReturnsEffect, NoJobType
<1>4. CASE ListOverdue(w)
  BY <1>2, <1>3, <1>4, ListEffect DEF Reads, Inside
<1>5. CASE Each(w) /\ ~Returns(w)
  <2>1. PICK j \in Job :
          /\ Inside(w, j)
          /\ \/ j.at = "each"
             \/ /\ j.at = "opens" /\ j.todo = job[w].todo
                /\ TypeOf[Current(w).f] = "VOUCHER"
             \/ /\ j.at = "check" /\ j.todo = job[w].todo
                /\ TypeOf[Current(w).f] # "VOUCHER"
                /\ IsOverdue(PhysicalDeadline(Current(w).ready))
    BY <1>5, EachEffect
  <2>2. UNCHANGED now /\ job' = [job EXCEPT ![w] = j] /\ job[w].todo # <<>>
    BY <1>5, <2>1, EachEffect DEF Reads, Inside
  <2>3. CASE j.at = "each"
    BY <1>2, <2>2, <2>3
  <2>4. CASE j.at = "opens" /\ j.todo = job[w].todo /\ TypeOf[Current(w).f] = "VOUCHER"
    <3>1. PastAt(j, now)
      BY <2>4 DEF PastAt, Current
    <3> QED
      BY <2>2, <3>1, PastMoves
  <2>5. CASE /\ j.at = "check" /\ j.todo = job[w].todo
             /\ TypeOf[Current(w).f] # "VOUCHER"
             /\ IsOverdue(PhysicalDeadline(Current(w).ready))
    <3>1. job[w].todo \in Seq(Candidate)
      BY DEF TypeInv, Job
    <3>2. Head(job[w].todo) \in Candidate
      BY <2>2, <3>1
    <3>3. TypeOf[Current(w).f] = "PHYSICAL"
      BY <2>5, <3>2, OverdueAssumption DEF Current, Candidate
    <3>4. PastAt(j, now)
      BY <2>5, <3>3 DEF PastAt, Current, IsOverdue, Key
    <3> QED
      BY <2>2, <3>4, PastMoves
  <2> QED
    BY <2>1, <2>3, <2>4, <2>5
<1>6. CASE LoadSetting(w)
  <2>1. PICK j \in Job : Inside(w, j) /\ j.at \in {"closes", "days", "blackouts"}
                         /\ j.todo = job[w].todo
    BY <1>6, LoadSettingEffect
  <2>2. job[w].at \in Key /\ UNCHANGED now /\ job' = [job EXCEPT ![w] = j]
    BY <1>6, <2>1, LoadSettingEffect DEF Reads, Inside
  <2>3. PastAt(j, now)
    BY <1>1, <2>1, <2>2 DEF PastAt
  <2> QED
    BY <2>2, <2>3, PastMoves
<1>7. CASE LoadBlackouts(w)
  <2>1. PICK j \in Job :
          /\ Inside(w, j)
          /\ \/ j.at = "each" \/ j.at = "spinning"
             \/ /\ j.at = "check" /\ j.todo = job[w].todo
                /\ LET d == VoucherDeadline(j.cfg, j.black, Current(w).ready) IN
                   d # NULL /\ IsOverdue(d)
    BY <1>7, LoadBlackoutsEffect
  <2>2. /\ job[w].at = "blackouts" /\ UNCHANGED now /\ job' = [job EXCEPT ![w] = j]
        /\ job[w].todo # <<>>
    BY <1>7, <2>1, LoadBlackoutsEffect DEF Reads, Inside
  <2>3. CASE j.at = "each" \/ j.at = "spinning"
    BY <1>2, <2>2, <2>3
  <2>4. CASE /\ j.at = "check" /\ j.todo = job[w].todo
             /\ LET d == VoucherDeadline(j.cfg, j.black, Current(w).ready) IN
                d # NULL /\ IsOverdue(d)
    <3>1. Current(w).ready \in 0 .. MaxTime /\ TypeOf[Current(w).f] # "PHYSICAL"
      BY <1>1, <2>2, CurrentType DEF Busy, PastAt, Current
    <3>2. j.cfg \in Hours
      BY DEF Job
    <3>3. Passed(j.cfg, j.black, Current(w).ready, now) >= Need
      BY <1>1, <2>4, <3>1, <3>2, VoucherPast DEF IsOverdue
    <3>4. PastAt(j, now)
      BY <2>4, <3>1, <3>3 DEF PastAt, Current, Key
    <3> QED
      BY <2>2, <3>4, PastMoves
  <2> QED
    BY <2>1, <2>3, <2>4
<1>8. CASE Check(w)
  <2>1. PICK j \in Job :
          /\ Inside(w, j)
          /\ \/ j.at = "each"
             \/ /\ j.at = "create" /\ ~ExistsOpenForFulfillment(Current(w).f)
                /\ j.todo = job[w].todo /\ j.cfg = job[w].cfg /\ j.black = job[w].black
    BY <1>8, CheckEffect
  <2>2. job[w].at = "check" /\ UNCHANGED now /\ job' = [job EXCEPT ![w] = j]
    BY <1>8, <2>1, CheckEffect DEF Reads, Inside
  <2>3. CASE j.at = "each"
    BY <1>2, <2>2, <2>3
  <2>4. CASE /\ j.at = "create" /\ j.todo = job[w].todo
             /\ j.cfg = job[w].cfg /\ j.black = job[w].black
    <3>1. PastAt(j, now)
      BY <1>1, <2>2, <2>4 DEF PastAt, Key
    <3> QED
      BY <2>2, <3>1, PastMoves
  <2> QED
    BY <2>1, <2>3, <2>4
<1>9. CASE CreateSystem(w)
  BY <1>2, <1>9, CreateSystemEffect DEF Inside
<1>10. CASE UNCHANGED <<now, job>>
  BY <1>10 DEF PastInv
<1> QED
  BY <1>3, <1>4, <1>5, <1>6, <1>7, <1>8, <1>9, <1>10 DEF RunStep

LEMMA PastNext ==
    ASSUME TypeInv, PastInv, [OverdueNext]_overdueVars
    PROVE  PastInv'
<1>1. CASE UNCHANGED <<now, job>>
  BY <1>1 DEF PastInv
<1>2. ASSUME NEW w \in Worker, Begin(w)
      PROVE  PastInv'
  BY <1>2, BeginEffect, PastMoves, PastNot
<1>3. CASE ProcessEnds
  <2>1. UNCHANGED now /\ \A w \in Worker : job'[w].at = "idle"
    BY <1>3, ProcessEndsEffect, NoJobType
  <2> QED
    BY <2>1, PastNot DEF PastInv
<1>4. CASE Tick
  <2>1. now \in Nat /\ now' \in Nat /\ now <= now' /\ UNCHANGED job
    BY <1>4, OverdueAssumption DEF Tick, TypeInv
  <2>2. \A w \in Worker : job[w] \in Job /\ (job[w].at \in Busy => job[w].todo # <<>>)
    BY DEF TypeInv
  <2> QED
    BY <2>1, <2>2, PastStays DEF PastInv
<1>5. ASSUME NEW f \in FulfillmentId,
             \/ MakeReady(f) \/ LeaveReady(f) \/ DeleteOrRestore(f) \/ CreateException(f)
             \/ \E i \in DOMAIN exc[f], s \in ExceptionStatus : UpdateStatus(f, i, s)
      PROVE  UNCHANGED <<now, job>>
  BY <1>5 DEF MakeReady, LeaveReady, DeleteOrRestore, Set, CreateException, UpdateStatus
<1>6. Configure \/ Operate => UNCHANGED <<now, job>>
  BY DEF Configure, Operate
<1>7. UNCHANGED overdueVars => UNCHANGED <<now, job>>
  BY DEF overdueVars
<1> QED
  BY <1>1, <1>2, <1>3, <1>4, <1>5, <1>6, <1>7, PastRun, NextKinds DEF Outside

(* Whatever the administrators do to the hours and the dates in between, an  *)
(* exception is opened only when all of the fulfillment's time has passed on *)
(* the hours and dates its run has read (OverdueJob.Run, IsOverdue).         *)
THEOREM NeverEarlyCorrect == OverdueSpec => NeverEarly
<1>1. OverdueSpec => OverdueInit /\ [][OverdueNext]_overdueVars
  BY PTL DEF OverdueSpec
<1>2. OverdueInit => TypeInv /\ PastInv
  BY TypeInvInit, NoJobType, PastNot DEF OverdueInit, PastInv
<1>3. TypeInv /\ PastInv /\ [OverdueNext]_overdueVars => TypeInv' /\ PastInv'
  BY TypeInvNext, PastNext
<1>4. TypeInv /\ PastInv /\ [OverdueNext]_overdueVars =>
        [\A w \in Worker :
           CreateSystem(w) /\ exc' # exc =>
              LET c == Current(w) IN
              IF TypeOf[c.f] = "PHYSICAL" THEN now > c.ready + PhysicalSLA
              ELSE Cardinality(OpenUnits(job[w].cfg, job[w].black, c.ready, now)) >= Need]_overdueVars
  <2> SUFFICES ASSUME TypeInv, PastInv, NEW w \in Worker, CreateSystem(w)
               PROVE  LET c == Current(w) IN
                      IF TypeOf[c.f] = "PHYSICAL" THEN now > c.ready + PhysicalSLA
                      ELSE Cardinality(OpenUnits(job[w].cfg, job[w].black, c.ready, now)) >= Need
    OBVIOUS
  <2>1. job[w].at = "create" /\ PastAt(job[w], now)
    BY CreateSystemEffect DEF PastInv
  <2> QED
    BY <2>1 DEF PastAt, Current, Passed, PhysicalDeadline
<1> QED
  BY <1>1, <1>2, <1>3, <1>4, PTL DEF NeverEarly
=============================================================================
