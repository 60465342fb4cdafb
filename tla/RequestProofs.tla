---------------------------- MODULE RequestProofs ----------------------------
(***************************************************************************)
(* What becomes of a request before a controller sees it: the name that    *)
(* GenerateDeterministicName gives it, for any texts and any number of     *)
(* parameters, and the webhook's part, for any pods and requests.          *)
(***************************************************************************)
EXTENDS RequestName, Admission, TLAPS, WellFoundedInduction, SequenceTheorems

\* Every leaf may take a minute, so that a slow machine changes nothing.
USE SMTT(60), ZenonT(60)

-----------------------------------------------------------------------------
(***************************************************************************)
(* Induction over the naturals, as a fact about sets.                      *)
(***************************************************************************)
LEMMA LeastNumber ==
    ASSUME NEW S \in SUBSET Nat, S # {}
    PROVE  \E n \in S : \A m \in S : n <= m
  <1> DEFINE R == OpToRel(<, Nat)
  <1>1. \A m, n \in Nat : <<m, n>> \in R <=> m < n
    BY DEF OpToRel
  <1>2. IsWellFoundedOn(R, Nat)
    BY ZenonT(60), NatLessThanWellFounded
  <1> HIDE DEF R
  <1>3. PICK n \in S : \A m \in S : ~(<<m, n>> \in R)
    BY ZenonT(60), <1>2, WFMin
  <1>4. ASSUME NEW m \in S PROVE n <= m
    <2>1. ~(m < n)
      BY ZenonT(60), <1>1, <1>3
    <2>2. QED
      BY <2>1
  <1>5. QED
    BY <1>4

LEMMA AllNumbers ==
    ASSUME NEW S, 0 \in S, \A n \in Nat : n \in S => n + 1 \in S
    PROVE  Nat \subseteq S
  <1> SUFFICES ASSUME Nat \ S # {} PROVE FALSE
    OBVIOUS
  <1>1. PICK n \in Nat \ S : \A m \in Nat \ S : n <= m
    BY ZenonT(60), LeastNumber
  <1>2. n # 0 /\ n - 1 \in Nat /\ ~(n <= n - 1)
    OBVIOUS
  <1>3. n - 1 \in S
    BY <1>1, <1>2
  <1>4. (n - 1) + 1 = n
    OBVIOUS
  <1>5. QED
    BY <1>2, <1>3, <1>4

-----------------------------------------------------------------------------
(***************************************************************************)
(* The order of sort.Strings, and that sorting has one result.             *)
(***************************************************************************)
LEMMA LessTransitive ==
    ASSUME NEW a \in Seq(Int), NEW b \in Seq(Int), NEW c \in Seq(Int),
           Less(a, b), Less(b, c)
    PROVE  Less(a, c)
  <1>1. PICK i \in 1 .. Len(b) :
          /\ i <= Len(a) + 1
          /\ i <= Len(a) => a[i] < b[i]
          /\ \A j \in 1 .. i - 1 : a[j] = b[j]
    BY DEF Less
  <1>2. PICK k \in 1 .. Len(c) :
          /\ k <= Len(b) + 1
          /\ k <= Len(b) => b[k] < c[k]
          /\ \A j \in 1 .. k - 1 : b[j] = c[j]
    BY DEF Less
  <1>3. CASE i <= k
    <2>1. i \in 1 .. Len(c) /\ i <= Len(a) + 1
      BY <1>1, <1>2, <1>3
    <2>2. i <= Len(a) => a[i] < c[i]
      <3>1. ASSUME i <= Len(a) PROVE a[i] < c[i]
        <4>1. a[i] \in Int /\ b[i] \in Int /\ c[i] \in Int
          BY <2>1, <3>1
        <4>2. b[i] = c[i] \/ b[i] < c[i]
          BY <1>2, <1>3
        <4>3. QED
          BY <1>1, <3>1, <4>1, <4>2
      <3>2. QED
        BY <3>1
    <2>3. \A j \in 1 .. i - 1 : a[j] = c[j]
      BY <1>1, <1>2, <1>3
    <2>4. QED
      BY <2>1, <2>2, <2>3 DEF Less
  <1>4. CASE k < i
    <2>1. k \in 1 .. Len(b) /\ k <= Len(a)
      BY <1>1, <1>2, <1>4
    <2>2. a[k] < c[k]
      BY <1>1, <1>2, <1>4, <2>1
    <2>3. \A j \in 1 .. k - 1 : a[j] = c[j]
      BY <1>1, <1>2, <1>4
    <2>4. k <= Len(a) + 1
      BY <2>1
    <2>5. QED
      BY ZenonT(60), <2>2, <2>3, <2>4 DEF Less
  <1>5. QED
    BY <1>3, <1>4

LEMMA LessIrreflexive == \A a \in Seq(Int) : ~Less(a, a)
  BY DEF Less

\* Keys in ascending order are different, and there is one such order.
LEMMA AscendingInjective ==
    ASSUME NEW n \in Nat, NEW t \in [1 .. n -> Seq(Int)], Ascending(t),
           NEW i \in 1 .. n, NEW j \in 1 .. n, t[i] = t[j]
    PROVE  i = j
  <1>1. ~Less(t[i], t[j]) /\ ~Less(t[j], t[i])
    BY ZenonT(60), LessIrreflexive
  <1>2. QED
    BY <1>1 DEF Ascending

LEMMA AscendingAgree ==
    ASSUME NEW m \in Nat, NEW s \in [1 .. m -> Seq(Int)], Ascending(s),
           NEW n \in Nat, NEW t \in [1 .. n -> Seq(Int)], Ascending(t),
           Range(s) = Range(t)
    PROVE  \A i \in 1 .. m : i \in 1 .. n => s[i] = t[i]
  <1> DEFINE Wrong == {i \in Nat : i \in 1 .. m /\ i \in 1 .. n /\ s[i] # t[i]}
  <1>1. ASSUME Wrong # {} PROVE FALSE
    <2>1. PICK i \in Wrong : \A j \in Wrong : i <= j
      BY ZenonT(60), <1>1, LeastNumber
    <2>2. /\ i \in 1 .. m /\ i \in 1 .. n /\ s[i] # t[i]
          /\ \A j \in 1 .. m : j \in 1 .. n /\ j < i => s[j] = t[j]
      BY <2>1
    <2>3. PICK j \in 1 .. n : s[i] = t[j]
      BY ZenonT(60), <2>2 DEF Range
    <2>4. PICK k \in 1 .. m : t[i] = s[k]
      BY ZenonT(60), <2>2 DEF Range
    <2>5. i < j
      <3>1. j < i => j \in 1 .. m /\ s[j] = s[i]
        BY <2>2, <2>3
      <3>2. j < i => j = i
        BY ZenonT(60), <2>2, <3>1, AscendingInjective
      <3>3. QED
        BY <2>2, <2>3, <3>2
    <2>6. i < k
      <3>1. k < i => k \in 1 .. n /\ t[k] = t[i]
        BY <2>2, <2>4
      <3>2. k < i => k = i
        BY ZenonT(60), <2>2, <3>1, AscendingInjective
      <3>3. QED
        BY <2>2, <2>4, <3>2
    <2>7. Less(t[i], s[i]) /\ Less(s[i], t[i])
      BY <2>2, <2>3, <2>4, <2>5, <2>6 DEF Ascending
    <2>8. s[i] \in Seq(Int) /\ t[i] \in Seq(Int)
      BY <2>2
    <2>9. QED
      BY ZenonT(60), <2>7, <2>8, LessTransitive, LessIrreflexive
  <1>2. ASSUME NEW i \in 1 .. m, i \in 1 .. n PROVE s[i] = t[i]
    <2>1. i \in Nat
      OBVIOUS
    <2>2. QED
      BY ZenonT(60), <1>1, <1>2, <2>1
  <1>3. QED
    BY <1>2

LEMMA AscendingNotLonger ==
    ASSUME NEW m \in Nat, NEW s \in [1 .. m -> Seq(Int)], Ascending(s),
           NEW n \in Nat, NEW t \in [1 .. n -> Seq(Int)], Ascending(t),
           Range(s) = Range(t)
    PROVE  n <= m
  <1> SUFFICES ASSUME m < n PROVE FALSE
    OBVIOUS
  <1>1. m + 1 \in 1 .. n /\ m + 1 \notin 1 .. m
    OBVIOUS
  <1>2. PICK j \in 1 .. m : t[m + 1] = s[j]
    BY ZenonT(60), <1>1 DEF Range
  <1>3. j \in 1 .. n /\ j # m + 1
    BY <1>1
  <1>4. t[j] = t[m + 1]
    BY ZenonT(60), <1>2, <1>3, AscendingAgree
  <1>5. QED
    BY ZenonT(60), <1>1, <1>3, <1>4, AscendingInjective

LEMMA AscendingUnique ==
    ASSUME NEW m \in Nat, NEW s \in [1 .. m -> Seq(Int)], Ascending(s),
           NEW n \in Nat, NEW t \in [1 .. n -> Seq(Int)], Ascending(t),
           Range(s) = Range(t)
    PROVE  m = n /\ s = t
  <1>1. n <= m /\ m <= n
    BY ZenonT(60), AscendingNotLonger
  <1>2. m = n
    BY <1>1
  <1>3. \A i \in 1 .. m : i \in 1 .. n => s[i] = t[i]
    BY ZenonT(60), AscendingAgree
  <1>4. QED
    BY <1>2, <1>3

-----------------------------------------------------------------------------
(***************************************************************************)
(* What the hasher is given.  Hashed(r, t, n, h) says that h[i] is what it *)
(* has been given after i of n parameters, taken in the order t.           *)
(***************************************************************************)
Ordered(r, n, t) ==
    /\ t \in [1 .. n -> Seq(Int)]
    /\ Ascending(t)
    /\ Range(t) = DOMAIN r.params

Hashed(r, t, n, h) ==
    /\ h \in [0 .. n -> Seq(Int)]
    /\ h[0] = r.base
    /\ \A i \in 1 .. n : h[i] = (h[i - 1] \o t[i]) \o r.params[t[i]]

Named(r, w) ==
    \E n \in Nat : \E t, h :
        Ordered(r, n, t) /\ Hashed(r, t, n, h) /\ w = h[n]

Info(r) ==
    /\ r.base \in Seq(Int)
    /\ DOMAIN r.params \subseteq Seq(Int)
    /\ \A key \in DOMAIN r.params : r.params[key] \in Seq(Int)

LEMMA InfoTyped == \A r \in RequestInfos : Info(r)
  <1>1. Texts \subseteq Seq(Int)
    <2>1. ASSUME NEW n \in Nat, NEW x \in [1 .. n -> Characters]
          PROVE  x \in Seq(Int)
      <3>1. x \in [1 .. n -> Int]
        BY ZenonT(60), NameAssumption
      <3>2. QED
        BY ZenonT(60), <3>1, SeqDef
    <2>2. QED
      BY <2>1 DEF Texts
  <1>2. ASSUME NEW r \in RequestInfos PROVE Info(r)
    <2>1. PICK keys \in SUBSET Words :
                 r \in [base : Words, params : [keys -> Texts]]
      BY DEF RequestInfos
    <2>2. Words \subseteq Texts
      BY DEF Words
    <2>3. QED
      BY <1>1, <2>1, <2>2 DEF Info
  <1>3. QED
    BY <1>2

LEMMA Cancel ==
    ASSUME NEW a \in Seq(Int), NEW b \in Seq(Int), NEW c \in Seq(Int),
           NEW d \in Seq(Int), Len(a) = Len(c), a \o b = c \o d
    PROVE  a = c /\ b = d
  <1>1. /\ Len(a) \in Nat /\ Len(b) \in Nat /\ Len(d) \in Nat
        /\ Len(a \o b) = Len(a) + Len(b)
        /\ Len(c \o d) = Len(c) + Len(d)
    BY ZenonT(60), LenProperties, ConcatProperties
  <1>2. Len(b) = Len(d)
    BY <1>1
  <1>3. \A i \in 1 .. Len(a) : a[i] = c[i]
    <2>1. \A i \in 1 .. Len(a) : (a \o b)[i] = a[i] /\ (c \o d)[i] = c[i]
      OBVIOUS
    <2>2. QED
      BY <2>1
  <1>4. \A i \in 1 .. Len(b) : b[i] = d[i]
    <2>0. /\ \A j \in 1 .. Len(a) + Len(b) :
               (a \o b)[j] = IF j <= Len(a) THEN a[j] ELSE b[j - Len(a)]
          /\ \A j \in 1 .. Len(c) + Len(d) :
               (c \o d)[j] = IF j <= Len(c) THEN c[j] ELSE d[j - Len(c)]
      BY ZenonT(60), ConcatProperties
    <2>1. ASSUME NEW i \in 1 .. Len(b) PROVE b[i] = d[i]
      <3>1. /\ Len(a) + i \in 1 .. Len(a) + Len(b)
            /\ Len(a) + i \in 1 .. Len(c) + Len(d)
            /\ ~(Len(a) + i <= Len(a)) /\ ~(Len(a) + i <= Len(c))
            /\ (Len(a) + i) - Len(a) = i /\ (Len(a) + i) - Len(c) = i
        BY <1>1, <1>2
      <3>2. (a \o b)[Len(a) + i] = b[(Len(a) + i) - Len(a)]
        BY ZenonT(60), <2>0, <3>1
      <3>3. (c \o d)[Len(a) + i] = d[(Len(a) + i) - Len(c)]
        BY ZenonT(60), <2>0, <3>1
      <3>4. QED
        BY ZenonT(60), <3>1, <3>2, <3>3
    <2>2. QED
      BY ZenonT(60), <2>1
  <1>5. QED
    BY ZenonT(60), <1>2, <1>3, <1>4, SeqEqual

\* A key and a value at the end of two texts of the same length: the new
\* texts have the same length, and are the same only if the old ones and the
\* values are.
SameLength(a, b) == Len(a) = Len(b)

CutOff(a, b, key, v, w) ==
    /\ Len((a \o key) \o v) = Len((b \o key) \o w)
    /\ (a \o key) \o v = (b \o key) \o w => a = b /\ v = w

LEMMA ValueCutOff ==
    ASSUME NEW a \in Seq(Int), NEW b \in Seq(Int), NEW key \in Seq(Int),
           NEW v \in Seq(Int), NEW w \in Seq(Int),
           SameLength(v, w), SameLength(a, b)
    PROVE  CutOff(a, b, key, v, w)
  <1>1. /\ a \o key \in Seq(Int) /\ b \o key \in Seq(Int)
        /\ Len(a \o key) = Len(a) + Len(key)
        /\ Len(b \o key) = Len(b) + Len(key)
    BY ZenonT(60), ConcatProperties
  <1>2. Len(a \o key) = Len(b \o key)
    BY <1>1 DEF SameLength
  <1>3. /\ Len((a \o key) \o v) = Len(a \o key) + Len(v)
        /\ Len((b \o key) \o w) = Len(b \o key) + Len(w)
    BY ZenonT(60), <1>1, ConcatProperties
  <1>4. ASSUME (a \o key) \o v = (b \o key) \o w PROVE a = b /\ v = w
    <2>1. a \o key = b \o key /\ v = w
      BY ZenonT(60), <1>1, <1>2, <1>4, Cancel
    <2>2. a = b
      BY ZenonT(60), <2>1, Cancel DEF SameLength
    <2>3. QED
      BY ZenonT(60), <2>1, <2>2
  <1>5. Len((a \o key) \o v) = Len((b \o key) \o w)
    BY ZenonT(60), <1>2, <1>3 DEF SameLength
  <1>6. QED
    BY ZenonT(60), <1>4, <1>5 DEF CutOff

\* Both calls take the keys in the same order.
LEMMA SameOrder ==
    ASSUME NEW r, NEW q, DOMAIN r.params = DOMAIN q.params,
           NEW n \in Nat, NEW t, Ordered(r, n, t),
           NEW m \in Nat, NEW u, Ordered(q, m, u)
    PROVE  m = n /\ u = t
  BY ZenonT(60), AscendingUnique DEF Ordered

\* A request has one name.
LEMMA OneName ==
    ASSUME NEW r, NEW v, Named(r, v), NEW w, Named(r, w)
    PROVE  v = w
  <1>1. PICK n \in Nat :
               \E t, h : Ordered(r, n, t) /\ Hashed(r, t, n, h) /\ v = h[n]
    BY DEF Named
  <1>2. PICK t, h : Ordered(r, n, t) /\ Hashed(r, t, n, h) /\ v = h[n]
    BY <1>1
  <1>3. PICK m \in Nat :
               \E u, g : Ordered(r, m, u) /\ Hashed(r, u, m, g) /\ w = g[m]
    BY DEF Named
  <1>4. PICK u, g : Ordered(r, m, u) /\ Hashed(r, u, m, g) /\ w = g[m]
    BY <1>3
  <1>5. m = n /\ u = t
    BY ZenonT(60), <1>2, <1>4, SameOrder
  <1> DEFINE S == {i \in Nat : i <= n => h[i] = g[i]}
  <1>6. 0 \in S
    BY <1>2, <1>4 DEF Hashed
  <1>7. ASSUME NEW i \in Nat, i \in S PROVE i + 1 \in S
    <2>1. CASE i + 1 <= n
      <3>1. i + 1 \in 1 .. n /\ (i + 1) - 1 = i /\ i <= n
        BY <2>1
      <3>2. h[i] = g[i]
        BY <1>7, <3>1
      <3>3. /\ h[i + 1] = (h[(i + 1) - 1] \o t[i + 1]) \o r.params[t[i + 1]]
            /\ g[i + 1] = (g[(i + 1) - 1] \o t[i + 1]) \o r.params[t[i + 1]]
        BY ZenonT(60), <1>2, <1>4, <1>5, <3>1 DEF Hashed
      <3>4. h[i + 1] = g[i + 1]
        BY ZenonT(60), <3>1, <3>2, <3>3
      <3>5. QED
        BY <3>4
    <2>2. QED
      BY <2>1
  <1>8. n \in S
    BY ZenonT(60), <1>6, <1>7, AllNumbers
  <1>9. QED
    BY <1>2, <1>4, <1>5, <1>8

\* Requests with one name whose parts have the same lengths are the same:
\* their texts are as long after each parameter, so that the parts can be
\* cut off one after the other, from the end.
LEMMA OneRequest ==
    ASSUME NEW r, Info(r), NEW q, Info(q), r.base = q.base,
           DOMAIN r.params = DOMAIN q.params,
           \A key \in DOMAIN r.params :
              Len(r.params[key]) = Len(q.params[key]),
           NEW w, Named(r, w), Named(q, w)
    PROVE  \A key \in DOMAIN r.params : r.params[key] = q.params[key]
  <1>1. PICK n \in Nat :
               \E t, h : Ordered(r, n, t) /\ Hashed(r, t, n, h) /\ w = h[n]
    BY ZenonT(60) DEF Named
  <1>2. PICK t, h : Ordered(r, n, t) /\ Hashed(r, t, n, h) /\ w = h[n]
    BY <1>1
  <1>3. PICK m \in Nat :
               \E u, g : Ordered(q, m, u) /\ Hashed(q, u, m, g) /\ w = g[m]
    BY DEF Named
  <1>4. PICK u, g : Ordered(q, m, u) /\ Hashed(q, u, m, g) /\ w = g[m]
    BY <1>3
  <1>5. m = n /\ u = t
    BY ZenonT(60), <1>2, <1>4, SameOrder
  <1>6. ASSUME NEW i \in 1 .. n, Len(h[i - 1]) = Len(g[i - 1])
        PROVE  /\ Len(h[i]) = Len(g[i])
               /\ h[i] = g[i] =>
                    h[i - 1] = g[i - 1] /\ r.params[t[i]] = q.params[t[i]]
    <2>1. t[i] \in DOMAIN r.params
      BY ZenonT(60), <1>2 DEF Ordered, Range
    <2>2. /\ t[i] \in Seq(Int)
          /\ r.params[t[i]] \in Seq(Int) /\ q.params[t[i]] \in Seq(Int)
          /\ Len(r.params[t[i]]) = Len(q.params[t[i]])
      BY ZenonT(60), <2>1 DEF Info
    <2>3. i - 1 \in 0 .. n
      OBVIOUS
    <2>4. h[i - 1] \in Seq(Int) /\ g[i - 1] \in Seq(Int)
      BY ZenonT(60), <1>2, <1>4, <1>5, <2>3 DEF Hashed
    <2>5. h[i] = (h[i - 1] \o t[i]) \o r.params[t[i]]
      BY ZenonT(60), <1>2 DEF Hashed
    <2>6. g[i] = (g[i - 1] \o t[i]) \o q.params[t[i]]
      BY ZenonT(60), <1>4, <1>5 DEF Hashed
    <2>7. CutOff(h[i - 1], g[i - 1], t[i], r.params[t[i]], q.params[t[i]])
      <3>1. /\ SameLength(r.params[t[i]], q.params[t[i]])
            /\ SameLength(h[i - 1], g[i - 1])
        BY ZenonT(60), <1>6, <2>2 DEF SameLength
      <3>2. QED
        BY ZenonT(60), <2>2, <2>4, <3>1, ValueCutOff
    <2>8. QED
      BY ZenonT(60), <2>5, <2>6, <2>7 DEF CutOff
  <1> DEFINE S == {i \in Nat : i <= n => Len(h[i]) = Len(g[i])}
  <1>7. Nat \subseteq S
    <2>1. 0 \in S
      BY <1>2, <1>4 DEF Hashed
    <2>2. ASSUME NEW i \in Nat, i \in S PROVE i + 1 \in S
      <3>1. CASE i + 1 <= n
        <4>1. i + 1 \in 1 .. n /\ (i + 1) - 1 = i /\ i <= n
          BY <3>1
        <4>2. Len(h[(i + 1) - 1]) = Len(g[(i + 1) - 1])
          BY <2>2, <4>1
        <4>3. Len(h[i + 1]) = Len(g[i + 1])
          BY ZenonT(60), <1>6, <4>1, <4>2
        <4>4. QED
          BY <4>3
      <3>2. QED
        BY <3>1
    <2>3. QED
      BY ZenonT(60), <2>1, <2>2, AllNumbers
  <1>8. ASSUME NEW i \in 1 .. n, h[i] = g[i]
        PROVE  h[i - 1] = g[i - 1] /\ r.params[t[i]] = q.params[t[i]]
    <2>1. i - 1 \in Nat /\ i - 1 <= n
      OBVIOUS
    <2>2. Len(h[i - 1]) = Len(g[i - 1])
      BY ZenonT(60), <1>7, <2>1
    <2>3. QED
      BY ZenonT(60), <1>6, <1>8, <2>2
  <1> HIDE DEF S
  <1> DEFINE E == {i \in Nat : i <= n => h[n - i] = g[n - i]}
  <1>9. Nat \subseteq E
    <2>1. 0 \in E
      <3>1. n - 0 = n
        OBVIOUS
      <3>2. h[n - 0] = g[n - 0]
        BY ZenonT(60), <1>2, <1>4, <1>5, <3>1
      <3>3. QED
        BY <3>2
    <2>2. ASSUME NEW i \in Nat, i \in E PROVE i + 1 \in E
      <3>1. CASE i + 1 <= n
        <4>1. n - i \in 1 .. n /\ n - (i + 1) = (n - i) - 1 /\ i <= n
          BY <3>1
        <4>2. h[n - i] = g[n - i]
          BY <2>2, <4>1
        <4>3. h[(n - i) - 1] = g[(n - i) - 1]
          BY ZenonT(60), <1>8, <4>1, <4>2
        <4>4. QED
          BY <4>1, <4>3
      <3>2. QED
        BY <3>1
    <2>3. QED
      BY ZenonT(60), <2>1, <2>2, AllNumbers
  <1>10. ASSUME NEW i \in 1 .. n PROVE r.params[t[i]] = q.params[t[i]]
    <2>1. n - i \in Nat /\ n - i <= n /\ n - (n - i) = i
      OBVIOUS
    <2>2. h[n - (n - i)] = g[n - (n - i)]
      BY ZenonT(60), <1>9, <2>1
    <2>3. QED
      BY <1>8, <2>1, <2>2
  <1>11. QED
    BY ZenonT(60), <1>2, <1>10 DEF Ordered, Range

-----------------------------------------------------------------------------
(***************************************************************************)
(* A call under way.  Hashing(r, keys, w) says that the hasher has been    *)
(* given w and that keys are the ones to come.                             *)
(***************************************************************************)
Strings == Seq(Int)

Rest(t, n, m, keys) ==
    /\ keys \in Seq(Strings)
    /\ Len(keys) = n - m
    /\ \A i \in 1 .. n - m : keys[i] = t[m + i]

HashingAt(r, n, m, keys, w) ==
    \E t, h :
        /\ Ordered(r, n, t)
        /\ Hashed(r, t, m, h)
        /\ Rest(t, n, m, keys)
        /\ w = h[m]

Hashing(r, keys, w) ==
    \E n \in Nat : \E m \in 0 .. n : HashingAt(r, n, m, keys, w)

\* Sequences and the functions they are.
LEMMA FunctionIsSeq ==
    ASSUME NEW S, NEW n \in Nat, NEW t \in [1 .. n -> S]
    PROVE  t \in Seq(S) /\ Len(t) = n
  <1>1. t \in Seq(S)
    BY ZenonT(60), SeqDef
  <1>2. Len(t) \in Nat /\ DOMAIN t = 1 .. Len(t)
    BY ZenonT(60), <1>1, LenProperties
  <1>3. DOMAIN t = 1 .. n
    OBVIOUS
  <1>4. QED
    BY <1>1, <1>2, <1>3

LEMMA RangeAppend ==
    ASSUME NEW S, NEW s \in Seq(S), NEW e \in S
    PROVE  /\ Append(s, e) \in Seq(S)
           /\ \A x : x \in Range(Append(s, e)) <=> x \in Range(s) \/ x = e
  <1>1. /\ Append(s, e) \in Seq(S)
        /\ Len(Append(s, e)) = Len(s) + 1
        /\ \A i \in 1 .. Len(s) : Append(s, e)[i] = s[i]
        /\ Append(s, e)[Len(s) + 1] = e
    OBVIOUS
  <1>2. /\ Len(s) \in Nat /\ DOMAIN s = 1 .. Len(s)
        /\ DOMAIN Append(s, e) = 1 .. Len(Append(s, e))
    BY ZenonT(60), <1>1, LenProperties
  <1>3. QED
    BY <1>1, <1>2 DEF Range

\* What is left after the first of the keys.
LEMMA RestTail ==
    ASSUME NEW n \in Nat, NEW m \in 0 .. n, NEW t, NEW keys,
           Rest(t, n, m, keys), keys # <<>>
    PROVE  /\ m + 1 \in 1 .. n
           /\ Head(keys) = t[m + 1]
           /\ Rest(t, n, m + 1, Tail(keys))
  <1>1. /\ Len(keys) \in Nat \ {0}
        /\ Len(keys) = n - m
    BY ZenonT(60), EmptySeq DEF Rest
  <1>2. /\ Tail(keys) \in Seq(Strings)
        /\ Len(Tail(keys)) = Len(keys) - 1
        /\ \A i \in 1 .. Len(Tail(keys)) : Tail(keys)[i] = keys[i + 1]
    BY ZenonT(60), HeadTailProperties DEF Rest
  <1>3. m + 1 \in 1 .. n /\ 1 \in 1 .. n - m
    BY <1>1
  <1>4. Head(keys) = keys[1]
    BY <1>1 DEF Rest
  <1>5. keys[1] = t[m + 1]
    BY ZenonT(60), <1>3 DEF Rest
  <1>6. ASSUME NEW i \in 1 .. n - (m + 1)
        PROVE  Tail(keys)[i] = t[(m + 1) + i]
    <2>1. /\ i \in 1 .. Len(Tail(keys)) /\ i + 1 \in 1 .. n - m
          /\ m + (i + 1) = (m + 1) + i
      BY <1>1, <1>2
    <2>2. Tail(keys)[i] = keys[i + 1] /\ keys[i + 1] = t[m + (i + 1)]
      BY ZenonT(60), <1>2, <2>1 DEF Rest
    <2>3. QED
      BY <2>1, <2>2
  <1>7. Len(Tail(keys)) = n - (m + 1)
    BY <1>1, <1>2
  <1>8. QED
    BY ZenonT(60), <1>2, <1>3, <1>4, <1>5, <1>6, <1>7 DEF Rest

\* One more parameter.
LEMMA HashedOn ==
    ASSUME NEW r, Info(r), NEW n \in Nat, NEW m \in 0 .. n, m + 1 \in 1 .. n,
           NEW t, Ordered(r, n, t), NEW h, Hashed(r, t, m, h)
    PROVE  \E g : /\ Hashed(r, t, m + 1, g)
                  /\ g[m + 1] = (h[m] \o t[m + 1]) \o r.params[t[m + 1]]
  <1> DEFINE w == (h[m] \o t[m + 1]) \o r.params[t[m + 1]]
             g == [i \in 0 .. m + 1 |-> IF i <= m THEN h[i] ELSE w]
  <1>1. w \in Seq(Int)
    <2>1. t[m + 1] \in DOMAIN r.params
      BY ZenonT(60) DEF Ordered, Range
    <2>2. t[m + 1] \in Seq(Int) /\ r.params[t[m + 1]] \in Seq(Int)
      BY ZenonT(60), <2>1 DEF Info
    <2>3. m \in 0 .. m
      OBVIOUS
    <2>4. h[m] \in Seq(Int)
      BY ZenonT(60), <2>3 DEF Hashed
    <2>5. QED
      BY ZenonT(60), <2>2, <2>4, ConcatProperties
  <1> HIDE DEF w
  <1>2. g \in [0 .. m + 1 -> Seq(Int)] /\ g[m + 1] = w
    BY <1>1 DEF Hashed
  <1>3. \A i \in 0 .. m : g[i] = h[i]
    OBVIOUS
  <1> HIDE DEF g
  <1>4. g[0] = r.base
    BY <1>3 DEF Hashed
  <1>5. ASSUME NEW i \in 1 .. m + 1
        PROVE  g[i] = (g[i - 1] \o t[i]) \o r.params[t[i]]
    <2>1. CASE i = m + 1
      <3>1. i - 1 = m /\ m \in 0 .. m
        BY <2>1
      <3>2. g[i - 1] = h[m]
        BY <1>3, <3>1
      <3>3. QED
        BY ZenonT(60), <1>2, <2>1, <3>2 DEF w
    <2>2. CASE i # m + 1
      <3>1. i \in 1 .. m /\ i \in 0 .. m /\ i - 1 \in 0 .. m
        BY <2>2
      <3>2. g[i] = h[i] /\ g[i - 1] = h[i - 1]
        BY ZenonT(60), <1>3, <3>1
      <3>3. h[i] = (h[i - 1] \o t[i]) \o r.params[t[i]]
        BY ZenonT(60), <3>1 DEF Hashed
      <3>4. QED
        BY ZenonT(60), <3>2, <3>3
    <2>3. QED
      BY ZenonT(60), <2>1, <2>2
  <1>6. Hashed(r, t, m + 1, g)
    BY ZenonT(60), <1>2, <1>4, <1>5 DEF Hashed
  <1>7. QED
    BY ZenonT(60), <1>2, <1>6 DEF w

LEMMA StartsHashing ==
    ASSUME NEW r, Info(r), NEW keys \in Seq(Strings),
           Range(keys) = DOMAIN r.params, NEW t \in SortStrings(keys)
    PROVE  Hashing(r, t, r.base)
  <1> DEFINE n == Len(keys)
             h == [i \in 0 .. 0 |-> r.base]
  <1>1. n \in Nat /\ DOMAIN keys = 1 .. n /\ Range(keys) \subseteq Strings
    BY ZenonT(60), LenProperties, RangeOfSeq
  <1> HIDE DEF n
  <1>2. /\ t \in [1 .. n -> Strings]
        /\ Ascending(t) /\ Range(t) = DOMAIN r.params
    <2>1. /\ t \in [1 .. n -> Range(keys)]
          /\ Ascending(t) /\ Range(t) = Range(keys)
      BY ZenonT(60), <1>1 DEF SortStrings
    <2>2. QED
      BY <1>1, <2>1
  <1>3. Ordered(r, n, t)
    BY ZenonT(60), <1>2 DEF Ordered, Strings
  <1>4. Hashed(r, t, 0, h) /\ h[0] = r.base
    <2>1. r.base \in Seq(Int)
      BY DEF Info
    <2>2. h \in [0 .. 0 -> Seq(Int)] /\ h[0] = r.base
      BY <2>1
    <2>3. 1 .. 0 = {}
      OBVIOUS
    <2>4. QED
      BY ZenonT(60), <2>2, <2>3 DEF Hashed
  <1>5. t \in Seq(Strings) /\ Len(t) = n
    BY ZenonT(60), <1>1, <1>2, FunctionIsSeq
  <1>6. Rest(t, n, 0, t)
    BY <1>1, <1>5 DEF Rest
  <1>7. HashingAt(r, n, 0, t, r.base)
    BY ZenonT(60), <1>3, <1>4, <1>6 DEF HashingAt
  <1>8. 0 \in 0 .. n
    BY <1>1
  <1>9. QED
    BY ZenonT(60), <1>1, <1>7, <1>8 DEF Hashing

LEMMA HashesOn ==
    ASSUME NEW r, Info(r), NEW keys, NEW w, Hashing(r, keys, w), keys # <<>>
    PROVE  Hashing(r, Tail(keys), (w \o Head(keys)) \o r.params[Head(keys)])
  <1>0. PICK n \in Nat : \E m \in 0 .. n : HashingAt(r, n, m, keys, w)
    BY DEF Hashing
  <1>1. PICK m \in 0 .. n : HashingAt(r, n, m, keys, w)
    BY <1>0
  <1>2. PICK t, h : /\ Ordered(r, n, t) /\ Hashed(r, t, m, h)
                    /\ Rest(t, n, m, keys) /\ w = h[m]
    BY <1>1 DEF HashingAt
  <1>3. /\ m + 1 \in 1 .. n
        /\ Head(keys) = t[m + 1]
        /\ Rest(t, n, m + 1, Tail(keys))
    BY ZenonT(60), <1>2, RestTail
  <1>4. PICK g : /\ Hashed(r, t, m + 1, g)
                 /\ g[m + 1] = (h[m] \o t[m + 1]) \o r.params[t[m + 1]]
    BY ZenonT(60), <1>2, <1>3, HashedOn
  <1>5. g[m + 1] = (w \o Head(keys)) \o r.params[Head(keys)]
    BY ZenonT(60), <1>2, <1>3, <1>4
  <1>6. HashingAt(r, n, m + 1, Tail(keys),
                  (w \o Head(keys)) \o r.params[Head(keys)])
    BY ZenonT(60), <1>2, <1>3, <1>4, <1>5 DEF HashingAt
  <1>7. m + 1 \in 0 .. n
    BY <1>3
  <1>8. QED
    BY ZenonT(60), <1>6, <1>7 DEF Hashing

LEMMA HashesAll ==
    ASSUME NEW r, NEW w, Hashing(r, <<>>, w)
    PROVE  Named(r, w)
  <1>0. PICK n \in Nat : \E m \in 0 .. n : HashingAt(r, n, m, <<>>, w)
    BY DEF Hashing
  <1>1. PICK m \in 0 .. n : HashingAt(r, n, m, <<>>, w)
    BY <1>0
  <1>2. PICK t, h : /\ Ordered(r, n, t) /\ Hashed(r, t, m, h)
                    /\ Rest(t, n, m, <<>>) /\ w = h[m]
    BY <1>1 DEF HashingAt
  <1>3. n - m = 0
    BY <1>2 DEF Rest
  <1>4. m = n
    BY <1>3
  <1>5. QED
    BY ZenonT(60), <1>2, <1>4 DEF Named

-----------------------------------------------------------------------------
(***************************************************************************)
(* The two calls.                                                          *)
(***************************************************************************)
Collecting ==
    /\ paramKeys \in Seq(Strings)
    /\ Range(paramKeys) \cup todo = DOMAIN request[call].params

NameInv ==
    /\ request \in [1 .. 2 -> RequestInfos]
    /\ call \in 1 .. 3
    /\ DOMAIN name = 1 .. 2
    /\ \A c \in 1 .. 2 : c < call => Named(request[c], name[c])
    /\ sorted \in BOOLEAN
    /\ call <= 2 /\ ~sorted => Collecting
    /\ sorted => /\ call <= 2 /\ todo = {}
                 /\ Hashing(request[call], paramKeys, written)

LEMMA InitName == Init => NameInv
  <1> SUFFICES ASSUME Init PROVE NameInv
    OBVIOUS
  <1>1. \A c \in 1 .. 2 : ~(c < call)
    BY DEF Init
  <1>2. Collecting
    BY EmptySeq DEF Init, Collecting, Range
  <1>3. /\ request \in [1 .. 2 -> RequestInfos]
        /\ call \in 1 .. 3
        /\ DOMAIN name = 1 .. 2
            /\ sorted = FALSE
    BY DEF Init
  <1>4. QED
    BY ZenonT(60), <1>1, <1>2, <1>3 DEF NameInv

LEMMA NextName == NameInv /\ [Next]_vars => NameInv'
  <1> SUFFICES ASSUME NameInv, [Next]_vars PROVE NameInv'
    OBVIOUS
  <1>0. /\ \A c \in 1 .. 2 : Info(request[c])
        /\ call <= 2 => call \in 1 .. 2
        /\ call <= 2 => DOMAIN request[call].params \subseteq Strings
    BY InfoTyped DEF NameInv, Info, Strings
  <1>1. CASE CollectKey
    <2>1. PICK key \in todo : /\ todo' = todo \ {key}
                              /\ paramKeys' = Append(paramKeys, key)
      BY <1>1 DEF CollectKey
    <2>2. ~sorted /\ call <= 2 /\ Collecting
      BY <1>1, <2>1 DEF NameInv, CollectKey
    <2>3. key \in Strings
      BY <1>0, <2>1, <2>2 DEF Collecting
    <2>4. LET collected == Append(paramKeys, key)
          IN  /\ collected \in Seq(Strings)
              /\ \A x : x \in Range(collected) <=>
                         x \in Range(paramKeys) \/ x = key
      BY ZenonT(60), <2>2, <2>3, RangeAppend DEF Collecting
    <2>5. Collecting'
      BY <1>1, <2>1, <2>2, <2>4 DEF Collecting, CollectKey
    <2>6. QED
      BY ZenonT(60), <1>1, <2>2, <2>5 DEF NameInv, CollectKey
  <1>2. CASE StartHashing
    <2>1. /\ call <= 2 /\ todo = {} /\ ~sorted
          /\ written' = request[call].base
          /\ paramKeys' \in SortStrings(paramKeys)
          /\ sorted' = TRUE
          /\ UNCHANGED <<request, call, todo, name>>
      BY <1>2 DEF StartHashing
    <2>2. Info(request[call])
      BY ZenonT(60), <1>0, <2>1
    <2>3. /\ paramKeys \in Seq(Strings)
          /\ Range(paramKeys) = DOMAIN request[call].params
      BY <2>1 DEF NameInv, Collecting
    <2>4. Hashing(request[call], paramKeys', request[call].base)
      BY ZenonT(60), <2>1, <2>2, <2>3, StartsHashing
    <2>5. QED
      BY ZenonT(60), <2>1, <2>4 DEF NameInv
  <1>3. CASE HashParam
    <2>1. /\ sorted /\ paramKeys # <<>>
          /\ written' = (written \o Head(paramKeys))
                           \o request[call].params[Head(paramKeys)]
          /\ paramKeys' = Tail(paramKeys)
          /\ UNCHANGED <<request, call, todo, sorted, name>>
      BY <1>3 DEF HashParam
    <2>2. call <= 2 /\ todo = {} /\ Hashing(request[call], paramKeys, written)
      BY ZenonT(60), <2>1 DEF NameInv
    <2>3. Info(request[call])
      BY ZenonT(60), <1>0, <2>2
    <2>4. Hashing(request[call], paramKeys', written')
      BY ZenonT(60), <2>1, <2>2, <2>3, HashesOn
    <2>5. QED
      BY ZenonT(60), <2>1, <2>2, <2>4 DEF NameInv
  <1>4. CASE ReturnName
    <2>1. /\ sorted /\ paramKeys = <<>>
          /\ name' = [name EXCEPT ![call] = written]
          /\ call' = call + 1
          /\ todo' = IF call = 1 THEN DOMAIN request[2].params ELSE {}
          /\ sorted' = FALSE
          /\ UNCHANGED <<request, paramKeys>>
      BY <1>4 DEF ReturnName
    <2>2. call \in 1 .. 2 /\ Named(request[call], written)
      BY ZenonT(60), <1>0, <2>1, HashesAll DEF NameInv
    <2>3. ASSUME NEW c \in 1 .. 2, c < call'
          PROVE  Named(request'[c], name'[c])
      <3>1. CASE c = call
        <4>1. name'[c] = written
          BY <2>1, <2>2, <3>1 DEF NameInv
        <4>2. QED
          BY ZenonT(60), <2>1, <2>2, <3>1, <4>1
      <3>2. CASE c # call
        <4>1. c < call
          BY <2>1, <2>2, <2>3, <3>2
        <4>2. name'[c] = name[c]
          BY <2>1, <3>2 DEF NameInv
        <4>3. QED
          BY ZenonT(60), <2>1, <4>1, <4>2 DEF NameInv
      <3>3. QED
        BY <3>1, <3>2
    <2>4. call' <= 2 => Collecting'
      <3>1. SUFFICES ASSUME call' <= 2 PROVE Collecting'
        OBVIOUS
      <3>2. call = 1 /\ call' = 2
        BY <2>1, <2>2, <3>1
      <3>3. paramKeys' \in Seq(Strings) /\ Range(paramKeys') = {}
        BY <2>1, EmptySeq DEF Range
      <3>4. QED
        BY ZenonT(60), <2>1, <3>2, <3>3 DEF Collecting
    <2>5. /\ call' \in 1 .. 3
          /\ DOMAIN name' = 1 .. 2
      BY <2>1, <2>2 DEF NameInv
    <2>6. QED
      BY ZenonT(60), <2>1, <2>3, <2>4, <2>5 DEF NameInv
  <1>5. CASE UNCHANGED vars
    BY ZenonT(60), <1>5 DEF NameInv, Collecting, vars
  <1>6. QED
    BY <1>1, <1>2, <1>3, <1>4, <1>5 DEF Next

LEMMA NameInvariant == Spec => []NameInv
  BY InitName, NextName, PTL DEF Spec

\* The name that GenerateDeterministicName gives a request does not depend
\* on the order in which Go iterates over its parameters.
THEOREM NamesReproducible == Spec => []Reproducible
  <1>1. NameInv => Reproducible
    <2>1. SUFFICES ASSUME NameInv, call = 3, request[1] = request[2]
                   PROVE  name[1] = name[2]
      BY DEF Reproducible, BothNamed, SameName
    <2>2. Named(request[1], name[1]) /\ Named(request[2], name[2])
      BY <2>1 DEF NameInv
    <2>3. QED
      BY ZenonT(60), <2>1, <2>2, OneName
  <1>2. QED
    BY <1>1, NameInvariant, PTL

\* Two requests to a resolver whose parameters have the same keys, and
\* values of the same lengths, are given the same name only if they are the
\* same.
THEOREM NamesTellApart == Spec => []ValuesTellApart
  <1>1. NameInv => ValuesTellApart
    <2> DEFINE r == request[1]
               q == request[2]
    <2>1. SUFFICES
            ASSUME NameInv, call = 3, r.base = q.base,
                   DOMAIN r.params = DOMAIN q.params,
                   \A key \in DOMAIN r.params :
                      Len(r.params[key]) = Len(q.params[key]),
                   name[1] = name[2]
            PROVE  r = q
      BY DEF ValuesTellApart, BothNamed, SameName
    <2>2. /\ r \in RequestInfos /\ q \in RequestInfos
          /\ Named(r, name[1]) /\ Named(q, name[2])
      BY <2>1 DEF NameInv
    <2> HIDE DEF r, q
    <2>3. Info(r) /\ Info(q)
      BY <2>2, InfoTyped
    <2>4. \A key \in DOMAIN r.params : r.params[key] = q.params[key]
      BY ZenonT(60), <2>1, <2>2, <2>3, OneRequest
    <2>5. QED
      BY <2>1, <2>2, <2>4 DEF RequestInfos
  <1>2. QED
    BY <1>1, NameInvariant, PTL

-----------------------------------------------------------------------------
(***************************************************************************)
(* The webhook.  A certificate that is about to end has a successor within *)
(* the bound on certificates.                                              *)
(***************************************************************************)
WebhookInv == AdmissionTypeOK /\ (expiring => secret < MaxCerts)

LEMMA InitWebhook == AdmissionInit => WebhookInv
  <1> SUFFICES ASSUME AdmissionInit PROVE WebhookInv
    OBVIOUS
  <1>1. 0 \in Certs /\ 0 \in 0 .. MaxCrashes /\ 0 \in 0 .. MaxEdits
    BY AdmissionAssumption DEF Certs
  <1>2. /\ pod \in [Pods -> [up : BOOLEAN, cert : Certs]]
        /\ leader \in [Controllers -> Pods \cup {NoPod}]
        /\ hook \in [Hooks -> [rules : BOOLEAN, ca : Certs]]
    BY <1>1 DEF AdmissionInit
  <1>3. stored \in [Requests -> [exists : BOOLEAN, labels : LabelSets,
                                 done : BOOLEAN]]
    BY DEF AdmissionInit, Absent, LabelSets
  <1>4. QED
    BY ZenonT(60), <1>1, <1>2, <1>3 DEF WebhookInv, AdmissionTypeOK,
       AdmissionInit

\* The webhook leaves the stored requests alone.
LEMMA WebhookSteps ==
    ASSUME WebhookInv, Webhook
    PROVE  WebhookInv' /\ stored' = stored
  <1> USE DEF WebhookInv, AdmissionTypeOK, Certs
  <1>1. ASSUME NEW p \in Pods, PodStarts(p)
        PROVE  WebhookInv' /\ stored' = stored
    BY <1>1 DEF PodStarts
  <1>2. ASSUME NEW p \in Pods, PodCrashes(p)
        PROVE  WebhookInv' /\ stored' = stored
    BY <1>2, AdmissionAssumption DEF PodCrashes
  <1>3. ASSUME NEW c \in Controllers,
               Demoted(c) \/ \E p \in Pods : Elected(c, p)
        PROVE  WebhookInv' /\ stored' = stored
    BY <1>3, AdmissionAssumption DEF Demoted, Elected
  <1>4. ASSUME NEW p \in Pods, SecretSeen(p)
        PROVE  WebhookInv' /\ stored' = stored
    BY <1>4 DEF SecretSeen
  <1>5. ASSUME NEW p \in Pods, reconcileCertificate(p)
        PROVE  WebhookInv' /\ stored' = stored
    <2>1. /\ secret = 0 \/ expiring
          /\ secret' = secret + 1 /\ expiring' = FALSE
          /\ UNCHANGED <<pod, leader, hook, crashes, stored, edits>>
      BY <1>5 DEF reconcileCertificate
    <2>2. secret' \in 0 .. MaxCerts
      BY <2>1, AdmissionAssumption
    <2>3. QED
      BY ZenonT(60), <2>1, <2>2
  <1>6. ASSUME NEW p \in Pods, NEW h \in Hooks, reconcileWebhook(h, p)
        PROVE  WebhookInv' /\ stored' = stored
    BY <1>6 DEF reconcileWebhook
  <1>7. CASE Expires
    BY <1>7, AdmissionAssumption DEF Expires
  <1>8. QED
    BY <1>1, <1>2, <1>3, <1>4, <1>5, <1>6, <1>7
       DEF Webhook, PodRuns, NewDefaultingAdmissionController,
           NewValidationAdmissionController, Hooks

\* Those who write replace one request, by one that is admitted.
LEMMA WriterSteps ==
    ASSUME WebhookInv, Writers
    PROVE  /\ WebhookInv'
           /\ \E k \in Requests, rr \in [exists : BOOLEAN, labels : LabelSets,
                                         done : BOOLEAN] :
                Admitted(k, rr) /\ stored' = [stored EXCEPT ![k] = rr]
  <1> DEFINE R == [exists : BOOLEAN, labels : LabelSets, done : BOOLEAN]
  <1>1. stored \in [Requests -> R]
    BY DEF WebhookInv, AdmissionTypeOK
  <1>2. PICK k \in Requests :
               \/ \E labels \in LabelSets :
                    Create(k, labels) \/ Relabel(k, labels)
               \/ UpdateStatus(k)
    BY DEF Writers
  <1>3. \E rr \in R : WriteRequest(k, rr)
    <2>1. ASSUME NEW labels \in LabelSets, Create(k, labels)
          PROVE  \E rr \in R : WriteRequest(k, rr)
      <3>1. Request(labels) \in R
        BY DEF Request
      <3>2. QED
        BY ZenonT(60), <2>1, <3>1 DEF Create
    <2>2. ASSUME NEW labels \in LabelSets, Relabel(k, labels)
          PROVE  \E rr \in R : WriteRequest(k, rr)
      <3>1. [stored[k] EXCEPT !.labels = labels] \in R
        BY <1>1
      <3>2. QED
        BY ZenonT(60), <2>2, <3>1 DEF Relabel
    <2>3. ASSUME UpdateStatus(k)
          PROVE  \E rr \in R : WriteRequest(k, rr)
      <3>1. [stored[k] EXCEPT !.done = TRUE] \in R
        BY ZenonT(60), <1>1
      <3>2. QED
        BY ZenonT(60), <2>3, <3>1 DEF UpdateStatus
    <2>4. QED
      BY ZenonT(60), <1>2, <2>1, <2>2, <2>3
  <1>4. PICK rr \in R : WriteRequest(k, rr)
    BY <1>3
  <1>5. /\ Admitted(k, rr) /\ stored' = [stored EXCEPT ![k] = rr]
        /\ UNCHANGED <<secret, expiring, pod, leader, hook, crashes>>
    BY <1>4 DEF WriteRequest, webhookVars
  <1>6. edits' \in 0 .. MaxEdits
    <2>1. Edit \/ edits' = edits
      BY ZenonT(60), <1>2 DEF Create, Relabel, UpdateStatus
    <2>2. edits \in 0 .. MaxEdits
      BY DEF WebhookInv, AdmissionTypeOK
    <2>3. QED
      BY <2>1, <2>2, AdmissionAssumption DEF Edit
  <1>7. WebhookInv'
    <2>1. stored' \in [Requests -> R]
      BY <1>1, <1>5
    <2>2. QED
      BY ZenonT(60), <1>5, <1>6, <2>1 DEF WebhookInv, AdmissionTypeOK
  <1>8. QED
    BY ZenonT(60), <1>5, <1>7

LEMMA NextWebhook == WebhookInv /\ [AdmissionNext]_admissionVars => WebhookInv'
  <1>1. CASE UNCHANGED admissionVars
    BY ZenonT(60), <1>1
       DEF WebhookInv, AdmissionTypeOK, admissionVars, webhookVars
  <1>2. QED
    BY ZenonT(60), <1>1, WebhookSteps, WriterSteps DEF AdmissionNext

\* The secret, the pods, the webhook configurations and the stored requests
\* keep their types, for any number of pods, requests, certificates and
\* crashes.
THEOREM AdmissionTyped == AdmissionSpec => []AdmissionTypeOK
  <1>1. WebhookInv => AdmissionTypeOK
    BY DEF WebhookInv
  <1>2. QED
    BY <1>1, InitWebhook, NextWebhook, PTL DEF AdmissionSpec

\* From the moment the validating webhook has its rules, no request appears
\* without a type label and none loses it in a namespace that is not
\* excluded.
THEOREM LabelsAreGuarded == AdmissionSpec => LabelsGuarded
  <1> DEFINE Guarded == hook["validation"].rules =>
                          \A k \in Requests \ Excluded :
                             Unlabelled(k)' => Unlabelled(k)
  <1>1. WebhookInv /\ [AdmissionNext]_admissionVars => [Guarded]_admissionVars
    <2>1. ASSUME WebhookInv, Webhook PROVE Guarded
      BY ZenonT(60), <2>1, WebhookSteps DEF Unlabelled
    <2>2. ASSUME WebhookInv, Writers, hook["validation"].rules,
                 NEW k \in Requests \ Excluded, Unlabelled(k)'
          PROVE  Unlabelled(k)
      <3>0. PICK j \in Requests : \E rr :
                   Admitted(j, rr) /\ stored' = [stored EXCEPT ![j] = rr]
        BY ZenonT(60), <2>2, WriterSteps
      <3>1. PICK rr : Admitted(j, rr) /\ stored' = [stored EXCEPT ![j] = rr]
        BY ZenonT(60), <3>0
      <3>2. j \notin Excluded => rr.labels = "type"
        BY <2>2, <3>1 DEF Admitted, Calls, Hooks, Validate, validateTypeLabel
      <3>3. DOMAIN stored = Requests
        BY <2>2 DEF WebhookInv, AdmissionTypeOK
      <3>4. k # j
        BY <2>2, <3>1, <3>2, <3>3 DEF Unlabelled
      <3>5. stored'[k] = stored[k]
        BY <3>1, <3>3, <3>4
      <3>6. QED
        BY <2>2, <3>5 DEF Unlabelled
    <2>3. QED
      BY <2>1, <2>2 DEF AdmissionNext
  <1>2. QED
    BY <1>1, InitWebhook, NextWebhook, PTL DEF AdmissionSpec, LabelsGuarded
=============================================================================
