------------------------------ MODULE SeqLemmas ------------------------------
(***************************************************************************)
(* What the list operations of the models do to the set of elements of a   *)
(* list without duplicates; what the parts of a list of lists are; that    *)
(* every list can be sorted; induction, recursion and division.            *)
(***************************************************************************)
EXTENDS Integers, SequencesExt, SequenceTheorems, FiniteSetTheorems, WellFoundedInduction, TLAPS

\* A set of places on a list has a first one.
LEMMA FirstPlace ==
  ASSUME NEW T, T \subseteq Nat, T # {}
  PROVE  \E x \in T : \A y \in T : x <= y
<1>1. PICK x \in T : \A y \in T : ~ (<<y, x>> \in OpToRel(<, Nat))
  BY NatLessThanWellFounded, WFMin
<1>2. \A y \in T : ~ (y < x)
  BY <1>1 DEF OpToRel
<1>3. \A y \in T : y \in Nat
  OBVIOUS
<1>4. \A y \in T : x <= y
  BY <1>2, <1>3
<1> QED BY <1>4

\* Induction: a set with 0 and the successors of its members has all numbers.
LEMMA SetInduction ==
  ASSUME NEW S, 0 \in S, \A n \in Nat : n \in S => n + 1 \in S
  PROVE  \A n \in Nat : n \in S
<1> SUFFICES ASSUME Nat \ S # {} PROVE FALSE
  OBVIOUS
<1>1. PICK x \in Nat \ S : \A y \in Nat \ S : x <= y
  BY FirstPlace
<1>2. x # 0 /\ x - 1 \in Nat /\ x - 1 \notin Nat \ S
  BY <1>1
<1> QED BY <1>1, <1>2

\* The same up to a bound.
LEMMA BoundedInduction ==
  ASSUME NEW N \in Nat, NEW S, 0 \in S, \A n \in 0 .. N - 1 : n \in S => n + 1 \in S
  PROVE  \A n \in 0 .. N : n \in S
<1> DEFINE T == {n \in Nat : n <= N => n \in S}
<1>1. 0 \in T
  OBVIOUS
<1>2. \A n \in Nat : n \in T => n + 1 \in T
  OBVIOUS
<1> HIDE DEF T
<1>3. \A n \in Nat : n \in T
  BY <1>1, <1>2, SetInduction
<1> QED BY <1>3 DEF T

\* Recursion: a first value and a step make a function.
Steps(S) == [Nat \X S -> S]

Follows(f, S, base, step, N) ==
  /\ f \in [0 .. N -> S] /\ f[0] = base
  /\ \A n \in 1 .. N : f[n] = step[<<n, f[n - 1]>>]

LEMMA RecursionExists ==
  ASSUME NEW S, NEW base \in S, NEW step \in Steps(S), NEW N \in Nat
  PROVE  \E f : Follows(f, S, base, step, N)
<1> USE DEF Steps
<1> DEFINE Good(f, n) == f \in [0 .. n -> S] /\ f[0] = base /\ \A k \in 1 .. n : f[k] = step[<<k, f[k - 1]>>]
           T == {n \in Nat : \E f : Good(f, n)}
<1>1. 0 \in T
  <2>1. Good([k \in 0 .. 0 |-> base], 0)
    OBVIOUS
  <2> QED BY <2>1
<1>2. ASSUME NEW n \in Nat, n \in T PROVE n + 1 \in T
  <2>1. PICK f : Good(f, n)
    BY <1>2
  <2> DEFINE g == [k \in 0 .. n + 1 |-> IF k = n + 1 THEN step[<<n + 1, f[n]>>] ELSE f[k]]
  <2>2. f[n] \in S /\ step[<<n + 1, f[n]>>] \in S
    BY <2>1
  <2>3. g \in [0 .. n + 1 -> S] /\ g[0] = base
    BY <2>1, <2>2
  <2>4. ASSUME NEW k \in 1 .. n + 1 PROVE g[k] = step[<<k, g[k - 1]>>]
    <3>1. CASE k = n + 1
      <4>1. g[k] = step[<<k, f[n]>>]
        BY <3>1
      <4>2. k - 1 = n /\ g[n] = f[n]
        BY <3>1
      <4> QED BY <4>1, <4>2
    <3>2. CASE k # n + 1
      <4>1. k \in 1 .. n /\ k - 1 \in 0 .. n /\ k - 1 # n + 1
        BY <3>2
      <4>2. g[k] = f[k] /\ g[k - 1] = f[k - 1]
        BY <4>1
      <4> QED BY <2>1, <4>1, <4>2
    <3> QED BY <3>1, <3>2
  <2> HIDE DEF g
  <2> QED BY <2>3, <2>4
<1> HIDE DEF T
<1>3. N \in T
  BY <1>1, <1>2, SetInduction
<1>4. PICK f : Good(f, N)
  BY <1>3 DEF T
<1>5. Follows(f, S, base, step, N)
  BY <1>4 DEF Follows
<1> QED BY <1>5

\* A product grows with its factor.
LEMMA ProductOrder ==
  ASSUME NEW a \in Nat, NEW b \in Nat, a <= b, NEW c \in Nat
  PROVE  a * c \in Nat /\ a * c <= b * c
OBVIOUS

\* Division with remainder has one result.
LEMMA DivisionUnique ==
  ASSUME NEW n \in Nat \ {0}, NEW a \in Nat, NEW b \in 0 .. n - 1, NEW c \in Nat, NEW d \in 0 .. n - 1,
         a * n + b = c * n + d
  PROVE  a = c /\ b = d
<1>1. CASE a < c
  <2>1. (a + 1) * n <= c * n
    BY <1>1
  <2> QED BY <2>1
<1>2. CASE c < a
  <2>1. (c + 1) * n <= a * n
    BY <1>2
  <2> QED BY <2>1
<1> QED BY <1>1, <1>2

LEMMA DivisionParts ==
  ASSUME NEW x \in Nat, NEW n \in Nat \ {0}
  PROVE  x \div n \in Nat /\ x % n \in 0 .. n - 1 /\ x = (x \div n) * n + (x % n)
<1>1. x \div n \in Nat
  OBVIOUS
<1>2. x % n \in 0 .. n - 1
  OBVIOUS
<1>3. x = (x \div n) * n + (x % n)
  OBVIOUS
<1> QED BY <1>1, <1>2, <1>3

LEMMA DivisionOf ==
  ASSUME NEW n \in Nat \ {0}, NEW a \in Nat, NEW b \in 0 .. n - 1
  PROVE  /\ (a * n + b) \div n = a /\ (a * n + b) % n = b
         /\ a * n \in Nat /\ a * n + b \in Nat
<1> DEFINE x == a * n + b
<1>1. a * n \in Nat /\ x \in Nat
  OBVIOUS
<1> HIDE DEF x
<1>2. x \div n \in Nat /\ x % n \in 0 .. n - 1 /\ x = (x \div n) * n + (x % n)
  BY <1>1, DivisionParts
<1>3. a * n + b = (x \div n) * n + (x % n)
  BY <1>2 DEF x
<1>4. a = x \div n /\ b = x % n
  BY ONLY <1>2, <1>3, DivisionUnique, n \in Nat \ {0}, a \in Nat, b \in 0 .. n - 1
<1> QED BY <1>1, <1>4 DEF x

\* A function on places is a list.
LEMMA FunctionIsList ==
  ASSUME NEW S, NEW n \in Nat, NEW f \in [1 .. n -> S]
  PROVE  f \in Seq(S) /\ Len(f) = n
OBVIOUS

\* list_add_tail of an element that is not on the list.
LEMMA AppendDistinct ==
  ASSUME NEW S, NEW s \in Seq(S), NEW e \in S, IsInjective(s), e \notin ToSet(s)
  PROVE  /\ Append(s, e) \in Seq(S)
         /\ IsInjective(Append(s, e))
         /\ ToSet(Append(s, e)) = ToSet(s) \union {e}
<1> DEFINE t == Append(s, e)
<1>1. /\ t \in Seq(S)
      /\ Len(t) = Len(s) + 1
      /\ DOMAIN t = 1 .. Len(s) + 1
      /\ DOMAIN s = 1 .. Len(s)
      /\ \A i \in 1 .. Len(s) : t[i] = s[i]
      /\ t[Len(s) + 1] = e
      /\ Len(s) \in Nat
  OBVIOUS
<1>2. \A i \in 1 .. Len(s) : s[i] # e
  BY <1>1 DEF ToSet
<1> HIDE DEF t
<1>3. IsInjective(t)
  BY <1>1, <1>2 DEF IsInjective
<1>4. ToSet(t) = ToSet(s) \union {e}
  <2>1. ToSet(t) \subseteq ToSet(s) \union {e}
    BY <1>1 DEF ToSet
  <2>2. ToSet(s) \subseteq ToSet(t)
    <3> SUFFICES ASSUME NEW i \in 1 .. Len(s) PROVE s[i] \in ToSet(t)
      BY <1>1 DEF ToSet
    <3> QED BY <1>1 DEF ToSet
  <2>3. e \in ToSet(t)
    BY <1>1 DEF ToSet
  <2> QED BY <2>1, <2>2, <2>3
<1> QED BY <1>1, <1>3, <1>4 DEF t

\* list_del of the first element.
LEMMA TailDistinct ==
  ASSUME NEW S, NEW s \in Seq(S), s # <<>>, IsInjective(s)
  PROVE  /\ Tail(s) \in Seq(S)
         /\ Head(s) \in S
         /\ Head(s) \in ToSet(s)
         /\ IsInjective(Tail(s))
         /\ ToSet(Tail(s)) = ToSet(s) \ {Head(s)}
<1> DEFINE t == Tail(s)
           h == Head(s)
<1>1. /\ Len(s) \in Nat \ {0}
      /\ DOMAIN s = 1 .. Len(s)
      /\ t \in Seq(S)
      /\ Len(t) = Len(s) - 1
      /\ DOMAIN t = 1 .. Len(s) - 1
      /\ \A i \in 1 .. Len(s) - 1 : t[i] = s[i + 1]
      /\ h = s[1]
      /\ h \in S
  OBVIOUS
<1> HIDE DEF t, h
<1>2. h \in ToSet(s)
  BY <1>1 DEF ToSet
<1>3. IsInjective(t)
  <2> SUFFICES ASSUME NEW i \in 1 .. Len(s) - 1, NEW j \in 1 .. Len(s) - 1, t[i] = t[j]
               PROVE  i = j
    BY <1>1 DEF IsInjective
  <2>1. s[i + 1] = s[j + 1] /\ i + 1 \in 1 .. Len(s) /\ j + 1 \in 1 .. Len(s)
    BY <1>1
  <2>2. i + 1 = j + 1
    BY <1>1, <2>1 DEF IsInjective
  <2> QED BY <2>2
<1>4. ToSet(t) \subseteq ToSet(s) \ {h}
  BY <1>1 DEF ToSet, IsInjective
<1>5. ToSet(s) \ {h} \subseteq ToSet(t)
  <2> SUFFICES ASSUME NEW i \in 1 .. Len(s), s[i] # h PROVE s[i] \in ToSet(t)
    BY <1>1 DEF ToSet
  <2>1. i - 1 \in 1 .. Len(s) - 1 /\ t[i - 1] = s[i]
    BY <1>1
  <2> QED BY <1>1, <2>1 DEF ToSet
<1> QED BY <1>1, <1>2, <1>3, <1>4, <1>5 DEF t, h

\* list_del of the element at position k: the elements after it move up.
LEMMA RemoveAtElements ==
  ASSUME NEW S, NEW s \in Seq(S), NEW k \in 1 .. Len(s)
  PROVE  /\ RemoveAt(s, k) \in Seq(S)
         /\ Len(RemoveAt(s, k)) = Len(s) - 1
         /\ DOMAIN RemoveAt(s, k) = 1 .. Len(s) - 1
         /\ \A i \in 1 .. Len(s) - 1 : RemoveAt(s, k)[i] = IF i < k THEN s[i] ELSE s[i + 1]
<1> DEFINE t == RemoveAt(s, k)
           a == SubSeq(s, 1, k - 1)
           b == SubSeq(s, k + 1, Len(s))
<1>0. Len(s) \in Nat /\ DOMAIN s = 1 .. Len(s) /\ \A i \in 1 .. Len(s) : s[i] \in S
  OBVIOUS
<1>1. /\ a \in Seq(S) /\ Len(a) = k - 1
      /\ \A i \in 1 .. k - 1 : a[i] = s[i]
  BY <1>0
<1>2. /\ b \in Seq(S) /\ Len(b) = Len(s) - k
      /\ \A i \in 1 .. Len(s) - k : b[i] = s[k + i]
  <2>1. /\ b \in Seq(S)
        /\ Len(b) = IF k + 1 <= Len(s) THEN Len(s) - (k + 1) + 1 ELSE 0
        /\ \A i \in 1 .. Len(s) - (k + 1) + 1 : b[i] = s[(k + 1) + i - 1]
    BY <1>0, SubSeqProperties
  <2> HIDE DEF b
  <2>2. Len(s) - (k + 1) + 1 = Len(s) - k /\ (k + 1 <= Len(s) \/ Len(s) - k = 0)
    <3>1. \A n \in Nat : \A j \in 1 .. n :
            n - (j + 1) + 1 = n - j /\ (j + 1 <= n \/ n - j = 0)
      OBVIOUS
    <3> QED BY <1>0, <3>1
  <2>3. \A i \in 1 .. Len(s) - k : (k + 1) + i - 1 = k + i
    BY <1>0
  <2>4. Len(b) = Len(s) - k
    BY <1>0, <2>1, <2>2
  <2>5. \A i \in 1 .. Len(s) - k : b[i] = s[k + i]
    BY <2>1, <2>2, <2>3
  <2> QED BY <2>1, <2>4, <2>5
<1>3. t = a \o b
  BY DEF RemoveAt
<1> HIDE DEF a, b, t
<1>4. /\ t \in Seq(S)
      /\ Len(t) = Len(s) - 1
      /\ DOMAIN t = 1 .. Len(s) - 1
      /\ \A i \in 1 .. Len(s) - 1 : t[i] = IF i < k THEN s[i] ELSE s[i + 1]
  <2>1. /\ t \in Seq(S)
        /\ Len(t) = Len(a) + Len(b)
        /\ \A i \in 1 .. Len(a) + Len(b) : t[i] = IF i <= Len(a) THEN a[i] ELSE b[i - Len(a)]
    BY <1>1, <1>2, <1>3, ConcatProperties
  <2>2. Len(a) + Len(b) = Len(s) - 1
    BY <1>0, <1>1, <1>2
  <2>3. ASSUME NEW i \in 1 .. Len(s) - 1
        PROVE  t[i] = IF i < k THEN s[i] ELSE s[i + 1]
    <3>1. CASE i < k
      <4>1. i <= Len(a) /\ i \in 1 .. Len(a) /\ i \in 1 .. Len(a) + Len(b)
        BY <1>0, <1>1, <2>2, <3>1
      <4>2. t[i] = a[i] /\ a[i] = s[i]
        BY <1>1, <2>1, <4>1
      <4> QED BY <3>1, <4>2
    <3>2. CASE ~ (i < k)
      <4>1. i - Len(a) \in 1 .. Len(s) - k /\ k + (i - Len(a)) = i + 1
        BY <3>2, <1>0, <1>1
      <4>2. ~ (i <= Len(a))
        BY <3>2, <1>0, <1>1
      <4>3. t[i] = b[i - Len(a)]
        BY <4>2, <2>1, <2>2
      <4> QED BY <3>2, <4>1, <4>3, <1>2
    <3> QED BY <3>1, <3>2
  <2> QED BY <1>0, <2>1, <2>2, <2>3, LenProperties
<1> QED BY <1>4 DEF t

\* list_del on a list without duplicates.
LEMMA RemoveAtDistinct ==
  ASSUME NEW S, NEW s \in Seq(S), NEW k \in 1 .. Len(s), IsInjective(s)
  PROVE  /\ RemoveAt(s, k) \in Seq(S)
         /\ s[k] \in S
         /\ s[k] \in ToSet(s)
         /\ IsInjective(RemoveAt(s, k))
         /\ ToSet(RemoveAt(s, k)) = ToSet(s) \ {s[k]}
<1> DEFINE t == RemoveAt(s, k)
<1>0. Len(s) \in Nat /\ DOMAIN s = 1 .. Len(s) /\ \A i \in 1 .. Len(s) : s[i] \in S
  OBVIOUS
<1>1. /\ t \in Seq(S)
      /\ Len(t) = Len(s) - 1
      /\ DOMAIN t = 1 .. Len(s) - 1
      /\ \A i \in 1 .. Len(s) - 1 : t[i] = IF i < k THEN s[i] ELSE s[i + 1]
  BY RemoveAtElements
<1> HIDE DEF t
<1>2. IsInjective(t)
  <2> DEFINE from(i) == IF i < k THEN i ELSE i + 1
  <2>1. \A i \in 1 .. Len(s) - 1 : from(i) \in 1 .. Len(s) /\ t[i] = s[from(i)]
    BY <1>0, <1>1
  <2>2. \A i, j \in 1 .. Len(s) - 1 : from(i) = from(j) => i = j
    OBVIOUS
  <2> HIDE DEF from
  <2>3. \A i, j \in 1 .. Len(s) - 1 : t[i] = t[j] => from(i) = from(j)
    BY <1>0, <2>1 DEF IsInjective
  <2> QED BY <1>1, <2>2, <2>3 DEF IsInjective
<1>3. ToSet(t) \subseteq ToSet(s) \ {s[k]}
  BY <1>0, <1>1 DEF ToSet, IsInjective
<1>4. ToSet(s) \ {s[k]} \subseteq ToSet(t)
  <2> SUFFICES ASSUME NEW i \in 1 .. Len(s), i # k PROVE s[i] \in ToSet(t)
    BY <1>0 DEF ToSet
  <2>1. CASE i < k
    <3>1. i \in 1 .. Len(s) - 1 /\ t[i] = s[i]
      BY <1>0, <1>1, <2>1
    <3> QED BY <1>1, <3>1 DEF ToSet
  <2>2. CASE ~ (i < k)
    <3>1. i - 1 \in 1 .. Len(s) - 1 /\ t[i - 1] = s[i]
      BY <1>0, <1>1, <2>2
    <3> QED BY <1>1, <3>1 DEF ToSet
  <2> QED BY <2>1, <2>2
<1>5. s[k] \in ToSet(s)
  BY <1>0 DEF ToSet
<1> QED BY <1>0, <1>1, <1>2, <1>3, <1>4, <1>5 DEF t

\* The same without the condition on duplicates.
LEMMA RemoveAtType ==
  ASSUME NEW S, NEW s \in Seq(S), NEW k \in 1 .. Len(s)
  PROVE  RemoveAt(s, k) \in Seq(S)
BY DEF RemoveAt

\* list_del of an element that is on the list.
LEMMA RemoveFirstIsRemoveAt ==
  ASSUME NEW S, NEW s \in Seq(S), IsInjective(s), NEW e \in ToSet(s)
  PROVE  \E k \in 1 .. Len(s) : s[k] = e /\ RemoveFirst(s, e) = RemoveAt(s, k)
<1>0. Len(s) \in Nat /\ DOMAIN s = 1 .. Len(s)
  OBVIOUS
<1>1. PICK k \in 1 .. Len(s) : s[k] = e
  BY <1>0 DEF ToSet
<1>2. {i \in 1 .. Len(s) : s[i] = e} = {k}
  BY <1>0, <1>1 DEF IsInjective
<1>3. Min({k}) = k
  BY <1>0 DEF Min
<1>4. RemoveFirst(s, e) = RemoveAt(s, k)
  BY <1>1, <1>2, <1>3 DEF RemoveFirst, SelectInSeq
<1> QED BY <1>1, <1>4

\* Two lists with nothing in common, one after the other.
LEMMA ConcatDistinct ==
  ASSUME NEW S, NEW s \in Seq(S), NEW t \in Seq(S)
  PROVE  /\ s \o t \in Seq(S)
         /\ ToSet(s \o t) = ToSet(s) \union ToSet(t)
         /\ IsInjective(s) /\ IsInjective(t) /\ ToSet(s) \intersect ToSet(t) = {}
              => IsInjective(s \o t)
<1> DEFINE u == s \o t
<1>1. /\ u \in Seq(S)
      /\ Len(s) \in Nat /\ Len(t) \in Nat
      /\ DOMAIN s = 1 .. Len(s) /\ DOMAIN t = 1 .. Len(t) /\ DOMAIN u = 1 .. Len(s) + Len(t)
      /\ \A i \in 1 .. Len(s) : u[i] = s[i]
      /\ \A i \in 1 .. Len(t) : u[Len(s) + i] = t[i]
      /\ \A i \in Len(s) + 1 .. Len(s) + Len(t) : i - Len(s) \in 1 .. Len(t) /\ u[i] = t[i - Len(s)]
  <2>1. /\ u \in Seq(S)
        /\ Len(u) = Len(s) + Len(t)
        /\ \A i \in 1 .. Len(s) + Len(t) : u[i] = IF i <= Len(s) THEN s[i] ELSE t[i - Len(s)]
        /\ Len(s) \in Nat /\ Len(t) \in Nat
        /\ DOMAIN s = 1 .. Len(s) /\ DOMAIN t = 1 .. Len(t) /\ DOMAIN u = 1 .. Len(u)
    BY ConcatProperties, LenProperties
  <2> HIDE DEF u
  <2>2. ASSUME NEW i \in 1 .. Len(t)
        PROVE  u[Len(s) + i] = t[i]
    <3>1. Len(s) + i \in 1 .. Len(s) + Len(t) /\ ~ (Len(s) + i <= Len(s)) /\ (Len(s) + i) - Len(s) = i
      BY <2>1
    <3> QED BY <2>1, <3>1
  <2>3. ASSUME NEW i \in Len(s) + 1 .. Len(s) + Len(t)
        PROVE  i - Len(s) \in 1 .. Len(t) /\ u[i] = t[i - Len(s)]
    BY <2>1
  <2> QED BY <2>1, <2>2, <2>3
<1> HIDE DEF u
<1>2. \A i \in 1 .. Len(s) + Len(t) :
        \/ i \in 1 .. Len(s) /\ u[i] = s[i]
        \/ i - Len(s) \in 1 .. Len(t) /\ u[i] = t[i - Len(s)]
  <2> SUFFICES ASSUME NEW i \in 1 .. Len(s) + Len(t), i \notin 1 .. Len(s)
               PROVE  i - Len(s) \in 1 .. Len(t) /\ u[i] = t[i - Len(s)]
    BY <1>1
  <2>1. i \in Len(s) + 1 .. Len(s) + Len(t)
    BY <1>1
  <2> QED BY <1>1, <2>1
<1>3. ToSet(u) \subseteq ToSet(s) \union ToSet(t)
  <2> SUFFICES ASSUME NEW x \in ToSet(u) PROVE x \in ToSet(s) \union ToSet(t)
    OBVIOUS
  <2>1. PICK i \in 1 .. Len(s) + Len(t) : x = u[i]
    BY <1>1 DEF ToSet
  <2> QED BY <1>1, <1>2, <2>1 DEF ToSet
<1>4. ToSet(s) \subseteq ToSet(u)
  <2> SUFFICES ASSUME NEW i \in 1 .. Len(s) PROVE s[i] \in ToSet(u)
    BY <1>1 DEF ToSet
  <2>1. i \in DOMAIN u /\ u[i] = s[i]
    BY <1>1
  <2> QED BY <2>1 DEF ToSet
<1>5. ToSet(t) \subseteq ToSet(u)
  <2> SUFFICES ASSUME NEW i \in 1 .. Len(t) PROVE t[i] \in ToSet(u)
    BY <1>1 DEF ToSet
  <2>1. Len(s) + i \in DOMAIN u /\ u[Len(s) + i] = t[i]
    BY <1>1
  <2> QED BY <2>1 DEF ToSet
<1>6. ASSUME IsInjective(s), IsInjective(t), ToSet(s) \intersect ToSet(t) = {}
      PROVE  IsInjective(u)
  <2>1. \A i \in 1 .. Len(s), j \in 1 .. Len(t) : s[i] # t[j]
    BY <1>1, <1>6 DEF ToSet
  <2> SUFFICES ASSUME NEW i \in 1 .. Len(s) + Len(t), NEW j \in 1 .. Len(s) + Len(t), u[i] = u[j]
               PROVE  i = j
    BY <1>1 DEF IsInjective
  <2>2. CASE i \in 1 .. Len(s) /\ u[i] = s[i]
    <3>1. ~ (j - Len(s) \in 1 .. Len(t) /\ u[j] = t[j - Len(s)])
      BY <2>1, <2>2
    <3>2. j \in 1 .. Len(s) /\ u[j] = s[j]
      BY <1>2, <3>1
    <3> QED BY <1>1, <1>6, <2>2, <3>2 DEF IsInjective
  <2>3. CASE i - Len(s) \in 1 .. Len(t) /\ u[i] = t[i - Len(s)]
    <3>1. ~ (j \in 1 .. Len(s) /\ u[j] = s[j])
      BY <2>1, <2>3
    <3>2. j - Len(s) \in 1 .. Len(t) /\ u[j] = t[j - Len(s)]
      BY <1>2, <3>1
    <3>3. i - Len(s) = j - Len(s)
      BY <1>1, <1>6, <2>3, <3>2 DEF IsInjective
    <3> QED BY <1>1, <3>3
  <2> QED BY <1>2, <2>2, <2>3
<1> QED BY <1>1, <1>3, <1>4, <1>5, <1>6 DEF u

\* A list without duplicates has as many elements as positions.
LEMMA ToSetFinite ==
  ASSUME NEW S, NEW s \in Seq(S), IsInjective(s)
  PROVE  IsFiniteSet(ToSet(s)) /\ Cardinality(ToSet(s)) = Len(s)
<1>1. Len(s) \in Nat /\ DOMAIN s = 1 .. Len(s) /\ s \in [1 .. Len(s) -> S]
  OBVIOUS
<1>2. s \in [1 .. Len(s) -> ToSet(s)]
  BY <1>1 DEF ToSet
<1>3. s \in Bijection(1 .. Len(s), ToSet(s))
  BY <1>1, <1>2 DEF ToSet, IsInjective, Bijection, Injection, Surjection
<1>4. ExistsBijection(1 .. Len(s), ToSet(s))
  BY <1>3 DEF ExistsBijection
<1> QED BY <1>1, <1>4, FS_CountingElements, FS_NatBijection

\* The places of a list of n that are in A, once entry i is gone.
PlacesLeft(A, n, i) == {j \in 1 .. n - 1 : (IF j < i THEN j ELSE j + 1) \in A}

\* There are as many as before, i not counted.
LEMMA PlacesAfterRemoval ==
  ASSUME NEW n \in Nat, NEW A, A \subseteq 1 .. n, NEW i \in 1 .. n
  PROVE  /\ IsFiniteSet(A) /\ Cardinality(A) \in Nat
         /\ Cardinality(PlacesLeft(A, n, i)) =
              IF i \in A THEN Cardinality(A) - 1 ELSE Cardinality(A)
<1> DEFINE up(j) == IF j < i THEN j ELSE j + 1
           B == {j \in 1 .. n - 1 : up(j) \in A}
           g == [j \in B |-> up(j)]
<1>1. IsFiniteSet(A) /\ Cardinality(A) \in Nat
  <2>1. IsFiniteSet(1 .. n)
    BY FS_Interval
  <2>2. IsFiniteSet(A)
    BY <2>1, FS_Subset
  <2> QED BY <2>2, FS_CardinalityType
<1>2. \A j \in 1 .. n - 1 : up(j) \in 1 .. n /\ up(j) # i
  OBVIOUS
<1>3. \A j, k \in 1 .. n - 1 : up(j) = up(k) => j = k
  OBVIOUS
<1>4. ASSUME NEW a \in A \ {i} PROVE \E j \in B : up(j) = a
  <2>1. a \in 1 .. n
    BY <1>4
  <2>2. CASE a < i
    <3>1. a \in 1 .. n - 1 /\ up(a) = a
      BY <2>1, <2>2
    <3> QED BY <1>4, <3>1
  <2>3. CASE a > i
    <3>1. a - 1 \in 1 .. n - 1 /\ up(a - 1) = a
      BY <2>1, <2>3
    <3> QED BY <1>4, <3>1
  <2> QED BY <1>4, <2>1, <2>2, <2>3
<1>5. B \subseteq 1 .. n - 1 /\ \A j \in B : up(j) \in A
  OBVIOUS
<1> HIDE DEF up, B
<1>6. g \in Bijection(B, A \ {i})
  <2>1. g \in [B -> A \ {i}]
    BY <1>2, <1>5
  <2>2. g \in Injection(B, A \ {i})
    BY <1>3, <1>5, <2>1 DEF Injection, IsInjective
  <2>3. g \in Surjection(B, A \ {i})
    BY <1>4, <2>1 DEF Surjection
  <2> QED BY <2>2, <2>3 DEF Bijection
<1>7. IsFiniteSet(B)
  <2>1. IsFiniteSet(1 .. n - 1)
    BY FS_Interval
  <2> QED BY <1>5, <2>1, FS_Subset
<1>8. Cardinality(B) = Cardinality(A \ {i})
  <2>1. ExistsBijection(B, A \ {i})
    BY <1>6 DEF ExistsBijection
  <2> QED BY <1>7, <2>1, FS_Bijection
<1>9. Cardinality(A \ {i}) = IF i \in A THEN Cardinality(A) - 1 ELSE Cardinality(A)
  BY <1>1, FS_RemoveElement
<1>10. Cardinality(B) = IF i \in A THEN Cardinality(A) - 1 ELSE Cardinality(A)
  BY <1>8, <1>9
<1> QED BY <1>1, <1>10 DEF PlacesLeft, B, up

-----------------------------------------------------------------------------
\* a stands before b on the list s.
Before(s, a, b) ==
  \E i, j \in 1 .. Len(s) : i < j /\ s[i] = a /\ s[j] = b

\* On a list without duplicates, Before is a strict total order.
LEMMA BeforeOrder ==
  ASSUME NEW S, NEW s \in Seq(S), IsInjective(s), NEW a, NEW b
  PROVE  /\ Before(s, a, b) => a \in ToSet(s) /\ b \in ToSet(s) /\ a # b
         /\ Before(s, a, b) => ~ Before(s, b, a)
         /\ a \in ToSet(s) /\ b \in ToSet(s) /\ a # b => Before(s, a, b) \/ Before(s, b, a)
<1>0. Len(s) \in Nat /\ DOMAIN s = 1 .. Len(s)
  OBVIOUS
<1>1. Before(s, a, b) => a \in ToSet(s) /\ b \in ToSet(s) /\ a # b
  BY <1>0 DEF Before, ToSet, IsInjective
<1>2. Before(s, a, b) => ~ Before(s, b, a)
  BY <1>0 DEF Before, IsInjective
<1>3. ASSUME a \in ToSet(s), b \in ToSet(s), a # b
      PROVE  Before(s, a, b) \/ Before(s, b, a)
  <2>1. PICK i \in 1 .. Len(s) : s[i] = a
    BY <1>0, <1>3 DEF ToSet
  <2>2. PICK j \in 1 .. Len(s) : s[j] = b
    BY <1>0, <1>3 DEF ToSet
  <2>3. i < j \/ j < i
    BY <1>0, <1>3, <2>1, <2>2
  <2> QED BY <2>1, <2>2, <2>3 DEF Before
<1> QED BY <1>1, <1>2, <1>3

\* The new last element is after every other.
LEMMA AppendBefore ==
  ASSUME NEW S, NEW s \in Seq(S), NEW e \in S, NEW a, NEW b
  PROVE  Before(Append(s, e), a, b) <=> Before(s, a, b) \/ (a \in ToSet(s) /\ b = e)
<1> DEFINE t == Append(s, e)
<1>1. /\ Len(s) \in Nat /\ DOMAIN s = 1 .. Len(s)
      /\ Len(t) = Len(s) + 1
      /\ \A i \in 1 .. Len(s) : t[i] = s[i]
      /\ t[Len(s) + 1] = e
  OBVIOUS
<1> HIDE DEF t
<1>2. Before(t, a, b) => Before(s, a, b) \/ (a \in ToSet(s) /\ b = e)
  <2> SUFFICES ASSUME NEW i \in 1 .. Len(s) + 1, NEW j \in 1 .. Len(s) + 1, i < j,
                      t[i] = a, t[j] = b
               PROVE  Before(s, a, b) \/ (a \in ToSet(s) /\ b = e)
    BY <1>1 DEF Before
  <2>1. i \in 1 .. Len(s) /\ s[i] = a
    BY <1>1
  <2>2. CASE j \in 1 .. Len(s)
    BY <1>1, <2>1, <2>2 DEF Before
  <2>3. CASE j = Len(s) + 1
    BY <1>1, <2>1, <2>3 DEF ToSet
  <2> QED BY <1>1, <2>2, <2>3
<1>3. Before(s, a, b) => Before(t, a, b)
  <2> SUFFICES ASSUME NEW i \in 1 .. Len(s), NEW j \in 1 .. Len(s), i < j, s[i] = a, s[j] = b
               PROVE  Before(t, a, b)
    BY DEF Before
  <2>1. i \in 1 .. Len(t) /\ j \in 1 .. Len(t) /\ t[i] = a /\ t[j] = b
    BY <1>1
  <2> QED BY <2>1 DEF Before
<1>4. a \in ToSet(s) /\ b = e => Before(t, a, b)
  <2> SUFFICES ASSUME NEW i \in 1 .. Len(s), s[i] = a, b = e PROVE Before(t, a, b)
    BY <1>1 DEF ToSet
  <2>1. /\ i \in 1 .. Len(t) /\ Len(s) + 1 \in 1 .. Len(t) /\ i < Len(s) + 1
        /\ t[i] = a /\ t[Len(s) + 1] = b
    BY <1>1
  <2> QED BY <2>1 DEF Before
<1> QED BY <1>2, <1>3, <1>4 DEF t

\* Unlinking an element leaves the order of the others alone.
LEMMA RemoveAtBefore ==
  ASSUME NEW S, NEW s \in Seq(S), NEW k \in 1 .. Len(s), IsInjective(s), NEW a, NEW b
  PROVE  Before(RemoveAt(s, k), a, b) <=> Before(s, a, b) /\ a # s[k] /\ b # s[k]
<1> DEFINE t == RemoveAt(s, k)
<1>1. /\ Len(s) \in Nat /\ DOMAIN s = 1 .. Len(s)
      /\ Len(t) = Len(s) - 1
      /\ \A i \in 1 .. Len(s) - 1 : t[i] = IF i < k THEN s[i] ELSE s[i + 1]
  BY RemoveAtElements
<1> HIDE DEF t
<1>2. Before(t, a, b) => Before(s, a, b) /\ a # s[k] /\ b # s[k]
  <2> SUFFICES ASSUME NEW i \in 1 .. Len(s) - 1, NEW j \in 1 .. Len(s) - 1, i < j,
                      t[i] = a, t[j] = b
               PROVE  Before(s, a, b) /\ a # s[k] /\ b # s[k]
    BY <1>1 DEF Before
  <2> DEFINE up(n) == IF n < k THEN n ELSE n + 1
  <2>1. /\ up(i) \in 1 .. Len(s) /\ up(j) \in 1 .. Len(s) /\ up(i) < up(j)
        /\ up(i) # k /\ up(j) # k /\ s[up(i)] = a /\ s[up(j)] = b
    BY <1>1
  <2> HIDE DEF up
  <2> QED BY <1>1, <2>1 DEF Before, IsInjective
<1>3. Before(s, a, b) /\ a # s[k] /\ b # s[k] => Before(t, a, b)
  <2> SUFFICES ASSUME NEW i \in 1 .. Len(s), NEW j \in 1 .. Len(s), i < j, s[i] = a, s[j] = b,
                      a # s[k], b # s[k]
               PROVE  Before(t, a, b)
    BY DEF Before
  <2> DEFINE down(n) == IF n < k THEN n ELSE n - 1
  <2>1. i # k /\ j # k
    OBVIOUS
  <2>2. /\ down(i) \in 1 .. Len(s) - 1 /\ down(j) \in 1 .. Len(s) - 1 /\ down(i) < down(j)
        /\ t[down(i)] = a /\ t[down(j)] = b
    BY <1>1, <2>1
  <2> HIDE DEF down
  <2> QED BY <1>1, <2>2 DEF Before
<1> QED BY <1>2, <1>3 DEF t

\* The elements of the first list are before those of the second.
LEMMA ConcatBefore ==
  ASSUME NEW S, NEW s \in Seq(S), NEW t \in Seq(S), NEW a, NEW b
  PROVE  Before(s \o t, a, b) =>
           \/ Before(s, a, b)
           \/ Before(t, a, b)
           \/ a \in ToSet(s) /\ b \in ToSet(t)
<1> DEFINE u == s \o t
<1>1. /\ Len(s) \in Nat /\ Len(t) \in Nat
      /\ DOMAIN s = 1 .. Len(s) /\ DOMAIN t = 1 .. Len(t)
      /\ Len(u) = Len(s) + Len(t)
      /\ \A i \in 1 .. Len(s) + Len(t) : u[i] = IF i <= Len(s) THEN s[i] ELSE t[i - Len(s)]
  BY ConcatProperties, LenProperties
<1> HIDE DEF u
<1> SUFFICES ASSUME NEW i \in 1 .. Len(s) + Len(t), NEW j \in 1 .. Len(s) + Len(t), i < j,
                    u[i] = a, u[j] = b
             PROVE  Before(s, a, b) \/ Before(t, a, b) \/ (a \in ToSet(s) /\ b \in ToSet(t))
  BY <1>1 DEF Before, u
<1>2. CASE j <= Len(s)
  <2>1. i \in 1 .. Len(s) /\ j \in 1 .. Len(s) /\ s[i] = a /\ s[j] = b
    BY <1>1, <1>2
  <2> QED BY <2>1 DEF Before
<1>3. CASE Len(s) < i
  <2>1. /\ i - Len(s) \in 1 .. Len(t) /\ j - Len(s) \in 1 .. Len(t) /\ i - Len(s) < j - Len(s)
        /\ t[i - Len(s)] = a /\ t[j - Len(s)] = b
    BY <1>1, <1>3
  <2> QED BY <2>1 DEF Before
<1>4. CASE i <= Len(s) /\ Len(s) < j
  <2>1. i \in 1 .. Len(s) /\ s[i] = a /\ j - Len(s) \in 1 .. Len(t) /\ t[j - Len(s)] = b
    BY <1>1, <1>4
  <2> QED BY <1>1, <2>1 DEF ToSet
<1> QED BY <1>1, <1>2, <1>3, <1>4

LEMMA Joined ==
  ASSUME NEW S, NEW s \in Seq(S), NEW t \in Seq(S)
  PROVE  /\ s \o t \in Seq(S) /\ Len(s \o t) = Len(s) + Len(t)
         /\ \A x \in 1 .. Len(s) + Len(t) : (s \o t)[x] = IF x <= Len(s) THEN s[x] ELSE t[x - Len(s)]
OBVIOUS

-----------------------------------------------------------------------------
(* Lists of lists                                                          *)

\* FlattenSeq puts the lists together one after the other.
LEMMA FlattenIs ==
  ASSUME NEW S, NEW seqs \in Seq(Seq(S)), seqs # <<>>
  PROVE  \E b \in [1 .. Len(seqs) -> Seq(S)] :
           /\ b[1] = seqs[1] /\ \A i \in 2 .. Len(seqs) : b[i] = b[i - 1] \o seqs[i]
           /\ FlattenSeq(seqs) = b[Len(seqs)]
<1> DEFINE n == Len(seqs)
           Describes(b) == b = [i \in 1 .. n |-> IF i = 1 THEN seqs[i] ELSE b[i - 1] \o seqs[i]]
           Q == Seq(S)
           step == [x \in Nat \X Q |-> IF x[1] + 1 \in 1 .. n THEN x[2] \o seqs[x[1] + 1] ELSE x[2]]
<1>1. n \in Nat /\ n >= 1 /\ \A i \in 1 .. n : seqs[i] \in Q
  BY EmptySeq
<1>2. FlattenSeq(seqs) = (CHOOSE b : Describes(b))[n]
  BY <1>1 DEF FlattenSeq
<1>3. \A x, y \in Q : x \o y \in Q
  OBVIOUS
<1> HIDE DEF n, Q
<1>4. step \in Steps(Q)
  BY <1>1, <1>3 DEF Steps
<1>5. \A i \in Nat, q \in Q : i + 1 \in 1 .. n => step[<<i, q>>] = q \o seqs[i + 1]
  OBVIOUS
<1> HIDE DEF step
<1>6. n - 1 \in Nat /\ seqs[1] \in Q
  BY <1>1
<1>7. PICK f : Follows(f, Q, seqs[1], step, n - 1)
  BY <1>4, <1>6, RecursionExists
<1> DEFINE b == [i \in 1 .. n |-> f[i - 1]]
<1>8. b \in [1 .. n -> Q] /\ b[1] = seqs[1]
  BY <1>1, <1>6, <1>7 DEF Follows
<1>9. ASSUME NEW i \in 2 .. n PROVE b[i] = b[i - 1] \o seqs[i]
  <2>1. i - 1 \in 1 .. n - 1 /\ i - 2 = (i - 1) - 1 /\ (i - 1) + 1 = i /\ i - 1 \in 1 .. n /\ i \in 1 .. n
        /\ i - 2 \in 0 .. n - 1 /\ i - 1 \in Nat
    BY <1>1
  <2>2. f[i - 1] = step[<<i - 1, f[i - 2]>>] /\ f[i - 2] \in Q
    BY <1>7, <2>1 DEF Follows
  <2> QED BY <1>5, <2>1, <2>2
<1>10. Describes(b)
  <2>1. \A i \in 1 .. n : b[i] = IF i = 1 THEN seqs[i] ELSE b[i - 1] \o seqs[i]
    <3>1. \A i \in 1 .. n : i = 1 \/ i \in 2 .. n
      BY <1>1
    <3> HIDE DEF b
    <3> QED BY <1>8, <1>9, <3>1, Zenon
  <2> HIDE DEF b
  <2> QED BY <1>8, <2>1
<1> DEFINE c == CHOOSE d : Describes(d)
<1>11. Describes(c)
  BY <1>10
<1> HIDE DEF b, c
<1>12. c[1] = seqs[1] /\ \A i \in 2 .. n : c[i] = c[i - 1] \o seqs[i]
  <2>1. \A i \in 1 .. n : c[i] = IF i = 1 THEN seqs[i] ELSE c[i - 1] \o seqs[i]
    BY <1>11, Zenon
  <2>2. 1 \in 1 .. n /\ \A i \in 2 .. n : i # 1 /\ i \in 1 .. n
    BY <1>1
  <2> QED BY <2>1, <2>2, Zenon
<1>13. \A i \in 1 .. n : c[i] \in Q
  <2> DEFINE T == {k \in 0 .. n - 1 : c[k + 1] \in Q}
  <2>1. 0 \in T
    BY <1>6, <1>12
  <2>2. \A k \in 0 .. (n - 1) - 1 : k \in T => k + 1 \in T
    <3> SUFFICES ASSUME NEW k \in 0 .. (n - 1) - 1, k \in T PROVE k + 1 \in T
      OBVIOUS
    <3>1. k + 2 \in 2 .. n /\ (k + 2) - 1 = k + 1 /\ (k + 1) + 1 = k + 2 /\ k + 1 \in 0 .. n - 1 /\ k + 2 \in 1 .. n
      BY <1>1
    <3>2. c[k + 2] = c[k + 1] \o seqs[k + 2]
      BY <1>12, <3>1
    <3> QED BY <1>1, <1>3, <3>1, <3>2
  <2> HIDE DEF T
  <2>3. \A k \in 0 .. n - 1 : k \in T
    BY <1>6, <2>1, <2>2, BoundedInduction
  <2> SUFFICES ASSUME NEW i \in 1 .. n PROVE c[i] \in Q
    OBVIOUS
  <2>4. i - 1 \in 0 .. n - 1 /\ (i - 1) + 1 = i
    BY <1>1
  <2> QED BY <2>3, <2>4 DEF T
<1>14. c \in [1 .. n -> Q]
  BY <1>11, <1>13
<1> QED BY <1>2, <1>12, <1>14 DEF n, Q, c

LEMMA FlattenType ==
  ASSUME NEW S, NEW seqs \in Seq(Seq(S))
  PROVE  FlattenSeq(seqs) \in Seq(S) /\ FlattenSeq(<<>>) = <<>>
<1>1. FlattenSeq(<<>>) = <<>>
  BY DEF FlattenSeq
<1>2. CASE seqs = <<>>
  <2>1. <<>> \in Seq(S)
    OBVIOUS
  <2> QED BY <1>1, <1>2, <2>1, Zenon
<1>3. CASE seqs # <<>>
  <2>1. Len(seqs) \in 1 .. Len(seqs)
    BY <1>3, EmptySeq
  <2>2. PICK b \in [1 .. Len(seqs) -> Seq(S)] : FlattenSeq(seqs) = b[Len(seqs)]
    BY <1>3, FlattenIs, Zenon
  <2> QED BY <1>1, <2>1, <2>2, Zenon
<1> QED BY <1>1, <1>2, <1>3

\* The k-th list of seqs begins behind the place off[k - 1] of flat.
LaidOut(S, flat, seqs, off) ==
  /\ flat \in Seq(S) /\ Len(flat) = off[Len(seqs)]
  /\ \A k \in 1 .. Len(seqs) : \A x \in 1 .. Len(seqs[k]) : flat[off[k - 1] + x] = seqs[k][x]

\* Where the elements of a list of lists are when they follow each other.
LEMMA FlattenPlaces ==
  ASSUME NEW S, NEW seqs \in Seq(Seq(S)), NEW off \in [0 .. Len(seqs) -> Nat], off[0] = 0,
         \A k \in 1 .. Len(seqs) : off[k] = off[k - 1] + Len(seqs[k])
  PROVE  LaidOut(S, FlattenSeq(seqs), seqs, off)
<1> DEFINE n == Len(seqs)
<1>1. FlattenSeq(seqs) \in Seq(S) /\ FlattenSeq(<<>>) = <<>>
  BY FlattenType
<1>2. CASE seqs = <<>>
  BY <1>1, <1>2 DEF LaidOut
<1>3. CASE seqs # <<>>
  <2>1. PICK b \in [1 .. n -> Seq(S)] :
          /\ b[1] = seqs[1] /\ \A i \in 2 .. n : b[i] = b[i - 1] \o seqs[i]
          /\ FlattenSeq(seqs) = b[n]
    BY <1>3, FlattenIs
  <2> DEFINE Placed(i) ==
               /\ Len(b[i]) = off[i] /\ \A k \in 1 .. i : off[k] <= off[i]
               /\ \A k \in 1 .. i : \A x \in 1 .. Len(seqs[k]) : b[i][off[k - 1] + x] = seqs[k][x]
             T == {i \in 0 .. n - 1 : Placed(i + 1)}
  <2>2. n \in Nat \ {0} /\ \A k \in 1 .. n : seqs[k] \in Seq(S) /\ Len(seqs[k]) \in Nat
    BY <1>3
  <2> HIDE DEF n
  <2>3. off \in [0 .. n -> Nat] /\ \A k \in 1 .. n : off[k] = off[k - 1] + Len(seqs[k])
    BY DEF n
  <2>4. \A k \in 1 .. n : off[k] \in Nat /\ off[k - 1] \in Nat
    BY <2>2, <2>3
  <2>5. Placed(1)
    <3>1. 1 \in 1 .. n /\ 1 - 1 = 0 /\ \A k \in 1 .. 1 : k = 1
      BY <2>2
    <3>2. off[1] = Len(seqs[1]) /\ Len(b[1]) = off[1]
      BY <2>1, <2>2, <2>3, <3>1
    <3>3. \A x \in 1 .. Len(seqs[1]) : off[1 - 1] + x = x
      BY <2>2, <3>1
    <3> QED BY <2>1, <2>4, <3>1, <3>2, <3>3
  <2>6. ASSUME NEW i \in 1 .. n - 1, Placed(i)
        PROVE  Placed(i + 1)
    <3> DEFINE s == b[i]
               t == seqs[i + 1]
    <3>0. /\ Len(b[i]) = off[i] /\ \A k \in 1 .. i : off[k] <= off[i]
          /\ \A k \in 1 .. i : \A x \in 1 .. Len(seqs[k]) : b[i][off[k - 1] + x] = seqs[k][x]
      BY <2>6
    <3>1. i \in Nat /\ i + 1 \in 2 .. n /\ i + 1 \in 1 .. n /\ (i + 1) - 1 = i /\ i \in 1 .. n
      BY <2>2
    <3>2. s \in Seq(S) /\ t \in Seq(S) /\ b[i + 1] = s \o t /\ Len(t) \in Nat
      BY <2>1, <2>2, <3>1
    <3> HIDE DEF s, t
    <3>3. Len(s) = off[i] /\ off[i] \in Nat
      BY <2>4, <2>6, <3>1 DEF s
    <3>4. off[i + 1] = off[i] + Len(t)
      BY <2>3, <3>1 DEF t
    <3>5. /\ Len(s \o t) = Len(s) + Len(t)
          /\ \A x \in 1 .. Len(s) : (s \o t)[x] = s[x]
          /\ \A x \in 1 .. Len(t) : (s \o t)[Len(s) + x] = t[x]
      BY <3>2
    <3>6. \A k \in 1 .. i + 1 : k \in 1 .. i \/ k = i + 1
      BY <3>1
    <3>7. \A k \in 1 .. i + 1 : off[k] <= off[i + 1]
      <4> SUFFICES ASSUME NEW k \in 1 .. i PROVE off[k] <= off[i + 1]
        BY <2>4, <3>1, <3>6
      <4>1. off[k] <= off[i] /\ off[k] \in Nat
        <5>1. k \in 1 .. n
          BY <2>2, <3>1
        <5> QED BY <2>4, <3>0, <5>1
      <4> QED BY <3>2, <3>3, <3>4, <4>1
    <3>8. ASSUME NEW k \in 1 .. i + 1, NEW x \in 1 .. Len(seqs[k])
          PROVE  (s \o t)[off[k - 1] + x] = seqs[k][x]
      <4>1. CASE k = i + 1
        <5>1. off[k - 1] = Len(s) /\ x \in 1 .. Len(t) /\ seqs[k] = t
          BY <3>1, <3>3, <4>1 DEF t
        <5> QED BY <3>5, <5>1
      <4>2. CASE k \in 1 .. i
        <5>1. k \in 1 .. n /\ off[k] <= off[i] /\ s[off[k - 1] + x] = seqs[k][x]
          <6>1. k \in 1 .. n
            BY <2>2, <3>1, <4>2
          <6>2. b[i][off[k - 1] + x] = seqs[k][x]
            BY <3>0, <4>2
          <6> QED BY <3>0, <4>2, <6>1, <6>2 DEF s
        <5>2. off[k] = off[k - 1] + Len(seqs[k]) /\ off[k] \in Nat /\ off[k - 1] \in Nat /\ Len(seqs[k]) \in Nat
          BY <2>2, <2>3, <2>4, <5>1
        <5>3. off[k - 1] + x \in 1 .. Len(s)
          <6>1. x \in Nat /\ x >= 1 /\ x <= Len(seqs[k])
            BY <5>2
          <6> DEFINE a == off[k - 1]
                     l == Len(seqs[k])
                     c == off[i]
          <6>2. a \in Nat /\ l \in Nat /\ c \in Nat /\ a + l <= c /\ x <= l
            BY <3>3, <5>1, <5>2, <6>1
          <6> HIDE DEF a, l, c
          <6>3. a + x \in 1 .. c
            BY ONLY <6>1, <6>2
          <6> QED BY <3>3, <6>3 DEF a, c
        <5> QED BY <3>5, <5>1, <5>3
      <4> QED BY <3>6, <4>1, <4>2
    <3>9. Len(b[i + 1]) = off[i + 1]
      BY <3>2, <3>3, <3>4, <3>5
    <3> QED BY <3>2, <3>7, <3>8, <3>9
  <2>7. 0 \in T
    <3> HIDE DEF Placed
    <3>1. 0 \in 0 .. n - 1 /\ 0 + 1 = 1
      BY ONLY <2>2
    <3> QED BY ONLY <2>5, <3>1 DEF T
  <2>8. \A i \in 0 .. (n - 1) - 1 : i \in T => i + 1 \in T
    <3> HIDE DEF Placed, T
    <3> SUFFICES ASSUME NEW i \in 0 .. (n - 1) - 1, i \in T PROVE i + 1 \in T
      OBVIOUS
    <3>1. i + 1 \in 1 .. n - 1 /\ i + 1 \in 0 .. n - 1
      BY ONLY <2>2
    <3>2. Placed(i + 1)
      BY DEF T
    <3>3. Placed((i + 1) + 1)
      BY ONLY <2>6, <3>1, <3>2
    <3> QED BY ONLY <3>1, <3>3 DEF T
  <2> HIDE DEF T
  <2>9. n - 1 \in T
    <3>1. n - 1 \in Nat /\ n - 1 \in 0 .. n - 1
      BY <2>2
    <3>2. \A i \in 0 .. n - 1 : i \in T
      BY <2>7, <2>8, <3>1, BoundedInduction
    <3> QED BY <3>1, <3>2
  <2>10. Placed(n)
    <3>1. (n - 1) + 1 = n
      BY <2>2
    <3>2. Placed((n - 1) + 1)
      <4> HIDE DEF Placed
      <4> QED BY <2>9 DEF T
    <3> QED BY <3>1, <3>2
  <2> QED BY <1>1, <2>1, <2>10 DEF n, LaidOut
<1> QED BY <1>2, <1>3

\* A list of pairs.
LEMMA FlattenPairs ==
  ASSUME NEW S, NEW seqs \in Seq(Seq(S)), \A k \in 1 .. Len(seqs) : Len(seqs[k]) = 2
  PROVE  /\ FlattenSeq(seqs) \in Seq(S) /\ Len(FlattenSeq(seqs)) = 2 * Len(seqs)
         /\ \A k \in 1 .. Len(seqs) :
              FlattenSeq(seqs)[2 * k - 1] = seqs[k][1] /\ FlattenSeq(seqs)[2 * k] = seqs[k][2]
<1> DEFINE n == Len(seqs)
           off == [k \in 0 .. n |-> 2 * k]
<1>1. n \in Nat
  OBVIOUS
<1>2. off \in [0 .. n -> Nat] /\ off[0] = 0 /\ \A k \in 1 .. n : off[k] = off[k - 1] + Len(seqs[k])
  <2> HIDE DEF n
  <2>1. \A k \in 1 .. n : off[k] = 2 * k /\ off[k - 1] = 2 * (k - 1) /\ 2 * k = 2 * (k - 1) + 2
    BY <1>1
  <2>2. \A k \in 1 .. n : Len(seqs[k]) = 2
    BY DEF n
  <2>3. off \in [0 .. n -> Nat] /\ off[0] = 0
    BY <1>1
  <2> HIDE DEF off
  <2> QED BY <2>1, <2>2, <2>3
<1> HIDE DEF off
<1>3. /\ FlattenSeq(seqs) \in Seq(S) /\ Len(FlattenSeq(seqs)) = off[n]
      /\ \A k \in 1 .. n : \A x \in 1 .. Len(seqs[k]) : FlattenSeq(seqs)[off[k - 1] + x] = seqs[k][x]
  <2>1. /\ off \in [0 .. Len(seqs) -> Nat] /\ off[0] = 0
        /\ \A k \in 1 .. Len(seqs) : off[k] = off[k - 1] + Len(seqs[k])
    BY ONLY <1>2
  <2>2. seqs \in Seq(Seq(S))
    OBVIOUS
  <2>3. LaidOut(S, FlattenSeq(seqs), seqs, off)
    BY ONLY <2>1, <2>2, FlattenPlaces
  <2> QED BY ONLY <2>3 DEF LaidOut
<1>4. off[n] = 2 * n
  BY <1>1 DEF off
<1>5. ASSUME NEW k \in 1 .. n
      PROVE  FlattenSeq(seqs)[2 * k - 1] = seqs[k][1] /\ FlattenSeq(seqs)[2 * k] = seqs[k][2]
  <2>1. off[k - 1] + 1 = 2 * k - 1 /\ off[k - 1] + 2 = 2 * k
    <3>1. k - 1 \in 0 .. n /\ k \in Int
      BY <1>1
    <3>2. off[k - 1] = 2 * (k - 1)
      BY <3>1 DEF off
    <3> QED BY <3>1, <3>2
  <2>2. 1 \in 1 .. Len(seqs[k]) /\ 2 \in 1 .. Len(seqs[k])
    <3>1. Len(seqs[k]) = 2
      OBVIOUS
    <3> QED BY ONLY <3>1
  <2>3. FlattenSeq(seqs)[off[k - 1] + 1] = seqs[k][1] /\ FlattenSeq(seqs)[off[k - 1] + 2] = seqs[k][2]
    BY <1>3, <2>2
  <2> QED BY <2>1, <2>3
<1> QED BY <1>3, <1>4, <1>5

-----------------------------------------------------------------------------
(* Sorting                                                                 *)

\* Any list of numbers can be put in order.
LEMMA SortingExists ==
  ASSUME NEW N \in Nat, NEW list \in [1 .. N -> Int]
  PROVE  \E p \in [1 .. N -> 1 .. N] :
           IsInjective(p) /\ \A x, y \in 1 .. N : x <= y => list[p[x]] <= list[p[y]]
<1> DEFINE Orders(p, s, n) ==
             /\ p \in [1 .. n -> 1 .. n] /\ \A x, y \in 1 .. n : p[x] = p[y] => x = y
             /\ \A x, y \in 1 .. n : x <= y => s[p[x]] <= s[p[y]]
           T == {n \in Nat : \A s \in [1 .. n -> Int] : \E p : Orders(p, s, n)}
<1>1. 0 \in T
  <2> SUFFICES ASSUME NEW s \in [1 .. 0 -> Int] PROVE \E p : Orders(p, s, 0)
    OBVIOUS
  <2>1. Orders([x \in 1 .. 0 |-> x], s, 0)
    OBVIOUS
  <2> QED BY <2>1
<1>2. ASSUME NEW n \in Nat, n \in T PROVE n + 1 \in T
  <2> SUFFICES ASSUME NEW s \in [1 .. n + 1 -> Int] PROVE \E q : Orders(q, s, n + 1)
    <3>1. n + 1 \in Nat
      OBVIOUS
    <3> QED BY <3>1, Zenon
  <2> DEFINE r == [x \in 1 .. n |-> s[x]]
  <2>1. r \in [1 .. n -> Int] /\ \A x \in 1 .. n : r[x] = s[x]
    OBVIOUS
  <2>2. PICK p : Orders(p, r, n)
    BY <1>2, <2>1
  <2> HIDE DEF r
  <2>3. /\ \A x \in 1 .. n : p[x] \in 1 .. n /\ s[p[x]] \in Int
        /\ \A x, y \in 1 .. n : p[x] = p[y] => x = y
        /\ \A x, y \in 1 .. n : x <= y => s[p[x]] <= s[p[y]]
    <3>1. \A x \in 1 .. n : p[x] \in 1 .. n
      BY <2>2
    <3>2. \A x \in 1 .. n : x \in 1 .. n + 1
      OBVIOUS
    <3> QED BY <2>1, <2>2, <3>1, <3>2
  <2> DEFINE big == {x \in 1 .. n : s[p[x]] > s[n + 1]}
  <2>4. \E k \in 1 .. n + 1 : /\ \A x \in 1 .. n : x < k => s[p[x]] <= s[n + 1]
                              /\ \A x \in 1 .. n : x >= k => s[n + 1] <= s[p[x]]
    <3>0. s[n + 1] \in Int
      OBVIOUS
    <3>1. CASE big = {}
      <4>1. \A x \in 1 .. n : s[p[x]] <= s[n + 1]
        <5> SUFFICES ASSUME NEW x \in 1 .. n PROVE s[p[x]] <= s[n + 1]
          OBVIOUS
        <5>1. ~(s[p[x]] > s[n + 1]) /\ s[p[x]] \in Int
          BY <2>3, <3>1
        <5> QED BY <3>0, <5>1
      <4>2. n + 1 \in 1 .. n + 1 /\ \A x \in 1 .. n : ~(x >= n + 1)
        OBVIOUS
      <4> QED BY <4>1, <4>2
    <3>2. CASE big # {}
      <4>1. PICK k \in big : \A x \in big : k <= x
        <5>1. big \subseteq Nat
          OBVIOUS
        <5> HIDE DEF big
        <5> QED BY <3>2, <5>1, FirstPlace
      <4>2. k \in 1 .. n /\ s[p[k]] > s[n + 1]
        OBVIOUS
      <4>3. \A x \in 1 .. n : x < k => s[p[x]] <= s[n + 1]
        BY <2>3, <3>0, <4>1, <4>2
      <4>4. \A x \in 1 .. n : x >= k => s[n + 1] <= s[p[x]]
        <5> HIDE DEF big
        <5>1. \A x \in 1 .. n : x >= k => s[p[k]] <= s[p[x]] /\ s[p[k]] \in Int /\ s[p[x]] \in Int
          BY <2>3, <4>2
        <5> QED BY ONLY <3>0, <4>2, <5>1
      <4>5. k \in 1 .. n + 1
        BY <4>2
      <4> HIDE DEF big
      <4> QED BY <4>3, <4>4, <4>5, Zenon
    <3> QED BY <3>1, <3>2
  <2>5. PICK k \in 1 .. n + 1 : /\ \A x \in 1 .. n : x < k => s[p[x]] <= s[n + 1]
                                /\ \A x \in 1 .. n : x >= k => s[n + 1] <= s[p[x]]
    BY <2>4
  <2> DEFINE q == [x \in 1 .. n + 1 |-> IF x < k THEN p[x] ELSE IF x = k THEN n + 1 ELSE p[x - 1]]
             old(x) == IF x < k THEN x ELSE x - 1
  <2>6. \A x \in 1 .. n + 1 : x # k => old(x) \in 1 .. n /\ q[x] = p[old(x)]
    OBVIOUS
  <2>7. \A x, y \in 1 .. n + 1 : x # k /\ y # k => /\ old(x) = old(y) => x = y
                                                   /\ x <= y => old(x) <= old(y)
    OBVIOUS
  <2>8. q[k] = n + 1 /\ s[n + 1] \in Int
    OBVIOUS
  <2>9. DOMAIN q = 1 .. n + 1 /\ q = [x \in 1 .. n + 1 |-> q[x]]
    OBVIOUS
  <2>10. \A x \in 1 .. n + 1 : x # k => q[x] \in 1 .. n
    BY <2>3, <2>6
  <2>11. \A x \in 1 .. n + 1 : x # k => (x < k => old(x) < k) /\ (x > k => old(x) >= k)
    OBVIOUS
  <2> HIDE DEF q, old, big
  <2>12. \A x \in 1 .. n + 1 : q[x] \in 1 .. n + 1
    BY <2>8, <2>10
  <2>13. \A x, y \in 1 .. n + 1 : q[x] = q[y] => x = y
    <3> SUFFICES ASSUME NEW x \in 1 .. n + 1, NEW y \in 1 .. n + 1, q[x] = q[y] PROVE x = y
      OBVIOUS
    <3>1. CASE x # k /\ y # k
      <4>1. p[old(x)] = p[old(y)] /\ old(x) \in 1 .. n /\ old(y) \in 1 .. n
        BY <2>6, <3>1, Zenon
      <4>2. old(x) = old(y)
        BY <2>3, <4>1, Zenon
      <4> QED BY <2>7, <3>1, <4>2, Zenon
    <3>2. CASE x = k \/ y = k
      BY <2>8, <2>10, <3>2
    <3> QED BY <3>1, <3>2
  <2>14. \A x, y \in 1 .. n + 1 : x <= y => s[q[x]] <= s[q[y]]
    <3> SUFFICES ASSUME NEW x \in 1 .. n + 1, NEW y \in 1 .. n + 1, x <= y PROVE s[q[x]] <= s[q[y]]
      OBVIOUS
    <3>1. CASE x # k /\ y # k
      <4>1. q[x] = p[old(x)] /\ q[y] = p[old(y)] /\ old(x) \in 1 .. n /\ old(y) \in 1 .. n
        BY <2>6, <3>1, Zenon
      <4>2. old(x) <= old(y)
        BY <2>7, <3>1, Zenon
      <4> QED BY <2>3, <4>1, <4>2, Zenon
    <3>2. CASE x = k /\ y # k
      <4>1. y > k
        BY <3>2
      <4> QED BY <2>5, <2>6, <2>8, <2>11, <3>2, <4>1
    <3>3. CASE x # k /\ y = k
      <4>1. x < k
        BY <3>3
      <4> QED BY <2>5, <2>6, <2>8, <2>11, <3>3, <4>1
    <3>4. CASE x = k /\ y = k
      BY <2>8, <3>4
    <3> QED BY <3>1, <3>2, <3>3, <3>4
  <2>15. Orders(q, s, n + 1)
    BY <2>9, <2>12, <2>13, <2>14
  <2> QED BY <2>15
<1> HIDE DEF T
<1>3. N \in T
  BY <1>1, <1>2, SetInduction
<1>4. PICK p : Orders(p, list, N)
  BY <1>3 DEF T
<1> QED BY <1>4 DEF IsInjective
=============================================================================
