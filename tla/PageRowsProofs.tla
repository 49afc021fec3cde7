---------------------------- MODULE PageRowsProofs ----------------------------
(***************************************************************************)
(* The row loop over any page, cut anywhere, for each of its four users:   *)
(* what it yields is typed, is what the whole page would have yielded less *)
(* the rows that are not all there, places a band by one record, and       *)
(* confuses two names only where U+FFFD shows it.                          *)
(***************************************************************************)
EXTENDS PageRows, FiniteSetTheorems, SequenceTheorems, WellFoundedInduction, TLAPS

-----------------------------------------------------------------------------
(***************************************************************************)
(* Every set of naturals that is not empty has a least member: the code's  *)
(* "first" exists, and a recursion can be followed by least counterexample.*)
(***************************************************************************)
LEMMA LeastExists ==
    ASSUME NEW S \in SUBSET Nat, S # {}
    PROVE  \E x \in S : \A y \in S : x <= y
<1> DEFINE Less == {ss \in Nat \X Nat : ss[1] < ss[2]}
<1>1. IsWellFoundedOn(Less, Nat)
  BY NatLessThanWellFounded DEF OpToRel
<1> HIDE DEF Less
<1>2. PICK x \in S : \A y \in S : ~ (<<y, x>> \in Less)
  BY <1>1, WFMin
<1>3. \A y \in S : ~ (y < x)
  BY <1>2 DEF Less
<1> QED BY <1>3

-----------------------------------------------------------------------------
\* A character in front of a text.
Prefixed(c, s) == <<c>> \o s

Starts(x, c, s) ==
    /\ Len(s) \in Nat /\ Len(x) = 1 + Len(s)
    /\ DOMAIN x = 1 .. 1 + Len(s) /\ DOMAIN s = 1 .. Len(s)
    /\ x[1] = c
    /\ \A k \in 1 .. Len(s) : k + 1 \in 1 .. 1 + Len(s) /\ x[k + 1] = s[k]

LEMMA PrefixedIs ==
    ASSUME NEW S, NEW c \in S, NEW s \in Seq(S)
    PROVE  Prefixed(c, s) \in Seq(S) /\ Starts(Prefixed(c, s), c, s)
<1> DEFINE x == <<c>> \o s
<1>1. <<c>> \in Seq(S) /\ Len(<<c>>) = 1 /\ <<c>>[1] = c
  OBVIOUS
<1>2. Len(x) = 1 + Len(s) /\ Len(s) \in Nat /\ x \in Seq(S)
  BY <1>1, ConcatProperties, LenProperties
<1>3. \A i \in 1 .. 1 + Len(s) : x[i] = IF i <= 1 THEN <<c>>[i] ELSE s[i - 1]
  BY <1>1, ConcatProperties
<1> HIDE DEF x
<1>4. DOMAIN x = 1 .. 1 + Len(s) /\ DOMAIN s = 1 .. Len(s)
  BY <1>2, LenProperties
<1>5. x[1] = c
  BY <1>1, <1>2, <1>3
<1>6. ASSUME NEW k \in 1 .. Len(s) PROVE k + 1 \in 1 .. 1 + Len(s) /\ x[k + 1] = s[k]
  <2>1. k + 1 \in 1 .. 1 + Len(s) /\ ~ (k + 1 <= 1) /\ (k + 1) - 1 = k
    BY <1>2
  <2> QED BY <1>3, <2>1
<1>7. Prefixed(c, s) = x
  BY DEF Prefixed, x
<1> QED BY <1>2, <1>4, <1>5, <1>6, <1>7 DEF Starts

LEMMA PrefixedTells ==
    ASSUME NEW S, NEW c \in S, NEW d \in S, NEW s \in Seq(S), NEW t \in Seq(S),
           Prefixed(c, s) = Prefixed(d, t)
    PROVE  c = d /\ s = t
<1>1. PICK x : x = Prefixed(c, s)
  OBVIOUS
<1>2. Starts(x, c, s) /\ Starts(x, d, t)
  BY <1>1, PrefixedIs
<1>3. Len(s) = Len(t) /\ c = d
  <2>1. Len(s) \in Nat /\ Len(x) = 1 + Len(s) /\ x[1] = c
    BY <1>2 DEF Starts
  <2>2. Len(t) \in Nat /\ Len(x) = 1 + Len(t) /\ x[1] = d
    BY <1>2 DEF Starts
  <2> QED BY <2>1, <2>2
<1>4. \A i \in 1 .. Len(s) : s[i] = t[i]
  BY <1>2, <1>3 DEF Starts
<1> QED BY <1>3, <1>4, SeqEqual

(***************************************************************************)
(* decode_utf16le (directory.rs:164-175).  What the recursion computes at  *)
(* a position, given what it computes behind it.                           *)
(***************************************************************************)
Here(units, from, k) ==
    IF k > Len(units) THEN << >>
    ELSE <<CharacterAt(units, k)>> \o from[k + IF IsPair(units, k) THEN 2 ELSE 1]

LEMMA DecodeFromExists ==
    ASSUME NEW units, Len(units) \in Nat
    PROVE  \E f : f = [k \in 1 .. Len(units) + 1 |-> Here(units, f, k)]
<1> DEFINE n == Len(units) + 1
           Solves(f, m) ==
             /\ f = [k \in 1 .. n |-> f[k]]
             /\ \A k \in (n + 1 - m) .. n : f[k] = Here(units, f, k)
           Open == {m \in 0 .. n : \A f : ~ Solves(f, m)}
<1>0. n \in Nat \ {0}
  OBVIOUS
<1>1. Open = {}
  <2>1. SUFFICES ASSUME Open # {} PROVE FALSE
    OBVIOUS
  <2>2. PICK m \in Open : \A y \in Open : m <= y
    <3>1. Open \in SUBSET Nat
      OBVIOUS
    <3> HIDE DEF Open
    <3> QED BY <2>1, <3>1, LeastExists
  <2>3. m # 0
    <3> DEFINE f == [k \in 1 .. n |-> << >>]
    <3>1. Solves(f, 0)
      BY <1>0
    <3> HIDE DEF Solves
    <3> QED BY <3>1
  <2>4. m - 1 \in 0 .. n /\ m - 1 \notin Open
    BY <2>2, <2>3, <1>0
  <2>5. PICK f : Solves(f, m - 1)
    <3> HIDE DEF Solves
    <3> QED BY <2>4
  <2> DEFINE i == n + 1 - m
             g == [k \in 1 .. n |-> IF k = i THEN Here(units, f, i) ELSE f[k]]
  <2>6. i \in 1 .. n
    BY <2>2, <2>3, <1>0
  <2>7. \A k \in i .. n : g[k] = Here(units, g, k)
    <3> SUFFICES ASSUME NEW k \in i .. n PROVE g[k] = Here(units, g, k)
      OBVIOUS
    <3>1. g[k] = Here(units, f, k)
      <4>1. k \in 1 .. n /\ (k # i => k \in (n + 1 - (m - 1)) .. n)
        BY <2>2, <2>6, <1>0
      <4>2. k # i => f[k] = Here(units, f, k)
        BY <2>5, <4>1
      <4> QED BY <4>1, <4>2
    <3>2. ASSUME k <= Len(units)
          PROVE  LET q == k + IF IsPair(units, k) THEN 2 ELSE 1 IN g[q] = f[q]
      <4>1. k + 1 \in 1 .. n /\ k + 1 # i
        BY <3>2, <2>6, <1>0
      <4>2. IsPair(units, k) => k + 2 \in 1 .. n /\ k + 2 # i
        BY <3>2, <2>6, <1>0 DEF IsPair
      <4> QED BY <4>1, <4>2
    <3>3. Here(units, g, k) = Here(units, f, k)
      <4> HIDE DEF g
      <4> QED BY <3>2, <2>6 DEF Here
    <3> QED BY <3>1, <3>3
  <2>8. Solves(g, m)
    BY <2>7
  <2> HIDE DEF Solves
  <2> QED BY <2>2, <2>8
<1>2. PICK f : Solves(f, n)
  <2> HIDE DEF Solves
  <2> QED BY <1>1, <1>0
<1>3. f = [k \in 1 .. n |-> Here(units, f, k)]
  BY <1>2, <1>0
<1> QED BY <1>3

LEMMA DecodeFromSteps ==
    ASSUME NEW units, Len(units) \in Nat
    PROVE  DecodeFrom(units) =
             [k \in 1 .. Len(units) + 1 |-> Here(units, DecodeFrom(units), k)]
BY DecodeFromExists DEF DecodeFrom, Here

Units == {unit \in Nat : unit < 65536}
Characters == {c \in Nat : IsCharacter(c)}

(***************************************************************************)
(* The arithmetic of a pair of surrogates: a character above every code    *)
(* unit, and a different one for each pair.                                *)
(***************************************************************************)
Paired(x, y) == 65536 + (x - 55296) * 1024 + (y - 56320)

LEMMA PairedIs ==
    ASSUME NEW x \in Int, NEW y \in Int, IsHigh(x), IsLow(y)
    PROVE  Paired(x, y) \in Characters /\ Paired(x, y) >= 65536
<1>1. Paired(x, y) \in Nat /\ Paired(x, y) >= 65536 /\ Paired(x, y) < 1114112
  BY DEF Paired, IsHigh, IsLow
<1> QED BY <1>1 DEF IsHigh, IsLow, Characters, IsCharacter

LEMMA PairedTells ==
    ASSUME NEW x \in Int, NEW y \in Int, IsHigh(x), IsLow(y),
           NEW a \in Int, NEW b \in Int, IsHigh(a), IsLow(b),
           Paired(x, y) = Paired(a, b)
    PROVE  x = a /\ y = b
BY DEF Paired, IsHigh, IsLow

LEMMA UnitIs ==
    /\ \A x \in Units : x \in Int /\ x < 65536
    /\ \A x \in Units : ~ IsHigh(x) /\ ~ IsLow(x) => x \in Characters
    /\ Replacement \in Characters
<1>1. \A x \in Units : x \in Int /\ x < 65536
  BY DEF Units
<1>2. \A x \in Units : ~ IsHigh(x) /\ ~ IsLow(x) => x \in Characters
  BY DEF Units, Characters, IsCharacter
<1>3. Replacement \in Characters
  BY DEF IsHigh, IsLow, Characters, IsCharacter, Replacement
<1> QED BY <1>1, <1>2, <1>3

(***************************************************************************)
(* A position gives one character, whatever the code units, and the        *)
(* decoder moves past what it read.                                        *)
(***************************************************************************)
LEMMA CharacterAtType ==
    ASSUME NEW units \in Seq(Units), NEW k \in 1 .. Len(units)
    PROVE  CharacterAt(units, k) \in Characters
<1>1. units[k] \in Units /\ (IsPair(units, k) => units[k + 1] \in Units)
  BY DEF IsPair
<1>2. CASE IsPair(units, k)
  <2>1. CharacterAt(units, k) = Paired(units[k], units[k + 1])
    BY <1>2 DEF CharacterAt, Paired
  <2> QED BY <1>1, <1>2, <2>1, UnitIs, PairedIs DEF IsPair
<1>3. CASE ~ IsPair(units, k)
  BY <1>1, <1>3, UnitIs DEF CharacterAt
<1> QED BY <1>2, <1>3

Behind(units, k) == k + IF IsPair(units, k) THEN 2 ELSE 1

LEMMA HereIs ==
    ASSUME NEW units \in Seq(Units), NEW from, NEW k \in 1 .. Len(units) + 1
    PROVE  /\ k = Len(units) + 1 => Here(units, from, k) = << >>
           /\ k <= Len(units) =>
                /\ Behind(units, k) \in k + 1 .. Len(units) + 1
                /\ Here(units, from, k) =
                     Prefixed(CharacterAt(units, k), from[Behind(units, k)])
BY DEF Here, Behind, IsPair, Prefixed

LEMMA HereType ==
    ASSUME NEW units \in Seq(Units), NEW from, NEW k \in 1 .. Len(units) + 1,
           \A q \in k + 1 .. Len(units) + 1 : from[q] \in Seq(Characters)
    PROVE  Here(units, from, k) \in Seq(Characters)
<1>1. CASE k = Len(units) + 1
  BY <1>1, HereIs, EmptySeq
<1>2. CASE k <= Len(units)
  <2>1. k \in 1 .. Len(units)
    BY <1>2
  <2>2. CharacterAt(units, k) \in Characters
    BY <2>1, CharacterAtType
  <2>3. from[Behind(units, k)] \in Seq(Characters)
    BY <1>2, HereIs
  <2>4. Here(units, from, k) = Prefixed(CharacterAt(units, k), from[Behind(units, k)])
    BY <1>2, HereIs
  <2> QED BY <2>2, <2>3, <2>4, PrefixedIs
<1> QED BY <1>1, <1>2

LEMMA DecodeFromType ==
    ASSUME NEW units \in Seq(Units)
    PROVE  \A k \in 1 .. Len(units) + 1 : DecodeFrom(units)[k] \in Seq(Characters)
<1>1. Len(units) \in Nat
  OBVIOUS
<1> DEFINE Bad == {m \in 0 .. Len(units) :
                      DecodeFrom(units)[Len(units) + 1 - m] \notin Seq(Characters)}
<1>2. Bad = {}
  <2>1. SUFFICES ASSUME Bad # {} PROVE FALSE
    OBVIOUS
  <2>2. PICK m \in Bad : \A y \in Bad : m <= y
    <3>1. Bad \in SUBSET Nat
      OBVIOUS
    <3> HIDE DEF Bad
    <3> QED BY <2>1, <3>1, LeastExists
  <2>3. PICK k \in 1 .. Len(units) + 1 : k = Len(units) + 1 - m
    BY <1>1
  <2>4. \A q \in k + 1 .. Len(units) + 1 : DecodeFrom(units)[q] \in Seq(Characters)
    <3> SUFFICES ASSUME NEW q \in k + 1 .. Len(units) + 1
                 PROVE  DecodeFrom(units)[q] \in Seq(Characters)
      OBVIOUS
    <3>1. /\ Len(units) + 1 - q \in 0 .. Len(units)
          /\ ~ (m <= Len(units) + 1 - q)
          /\ Len(units) + 1 - (Len(units) + 1 - q) = q
      BY <1>1, <2>3
    <3>2. Len(units) + 1 - q \notin Bad
      <4> HIDE DEF Bad
      <4> QED BY <2>2, <3>1
    <3> QED BY <3>1, <3>2
  <2>5. DecodeFrom(units)[k] \in Seq(Characters)
    BY <1>1, <2>3, <2>4, HereType, DecodeFromSteps
  <2> QED BY <2>2, <2>3, <2>5
<1> SUFFICES ASSUME NEW k \in 1 .. Len(units) + 1
             PROVE  DecodeFrom(units)[k] \in Seq(Characters)
  OBVIOUS
<1>3. Len(units) + 1 - k \in 0 .. Len(units) /\ Len(units) + 1 - (Len(units) + 1 - k) = k
  BY <1>1
<1> QED BY <1>2, <1>3

LEMMA DecodeType ==
    ASSUME NEW units \in Seq(Units)
    PROVE  Decode(units) \in Seq(Characters)
<1>1. 1 \in 1 .. Len(units) + 1
  OBVIOUS
<1> QED BY <1>1, DecodeFromType DEF Decode

(***************************************************************************)
(* A character other than U+FFFD tells the code units it came from: how    *)
(* many, and which.                                                        *)
(***************************************************************************)
LEMMA CharacterTells ==
    ASSUME NEW u \in Seq(Units), NEW v \in Seq(Units),
           NEW i \in 1 .. Len(u), NEW j \in 1 .. Len(v),
           CharacterAt(u, i) = CharacterAt(v, j), CharacterAt(u, i) # Replacement
    PROVE  /\ u[i] = v[j]
           /\ IsPair(u, i) <=> IsPair(v, j)
           /\ IsPair(u, i) => u[i + 1] = v[j + 1]
<1>1. /\ u[i] \in Int /\ u[i] < 65536
      /\ v[j] \in Int /\ v[j] < 65536
      /\ IsPair(u, i) => u[i + 1] \in Int
      /\ IsPair(v, j) => v[j + 1] \in Int
  BY UnitIs DEF IsPair
<1>2. /\ IsPair(u, i) => CharacterAt(u, i) = Paired(u[i], u[i + 1])
      /\ IsPair(v, j) => CharacterAt(v, j) = Paired(v[j], v[j + 1])
  BY DEF CharacterAt, Paired
<1>3. /\ ~ IsPair(u, i) => CharacterAt(u, i) = u[i]
      /\ ~ IsPair(v, j) => CharacterAt(v, j) = v[j]
  BY DEF CharacterAt
<1>4. /\ IsPair(u, i) => CharacterAt(u, i) >= 65536
      /\ IsPair(v, j) => CharacterAt(v, j) >= 65536
  <2>1. IsPair(u, i) => CharacterAt(u, i) >= 65536
    BY <1>1, <1>2, PairedIs DEF IsPair
  <2>2. IsPair(v, j) => CharacterAt(v, j) >= 65536
    BY <1>1, <1>2, PairedIs DEF IsPair
  <2> QED BY <2>1, <2>2
<1>5. IsPair(u, i) <=> IsPair(v, j)
  BY <1>1, <1>3, <1>4
<1>6. CASE IsPair(u, i)
  <2>1. Paired(u[i], u[i + 1]) = Paired(v[j], v[j + 1])
    BY <1>2, <1>5, <1>6
  <2>2. IsHigh(u[i]) /\ IsLow(u[i + 1]) /\ IsHigh(v[j]) /\ IsLow(v[j + 1])
    BY <1>5, <1>6 DEF IsPair
  <2>3. u[i] = v[j] /\ u[i + 1] = v[j + 1]
    BY <1>1, <1>5, <1>6, <2>1, <2>2, PairedTells
  <2> QED BY <1>5, <2>3
<1>7. CASE ~ IsPair(u, i)
  BY <1>3, <1>5, <1>7
<1> QED BY <1>6, <1>7

NoReplacement(text) == \A k \in DOMAIN text : text[k] # Replacement

(***************************************************************************)
(* The code units from one position on are those from another: what the    *)
(* decoder makes of them tells, when nothing became U+FFFD.                *)
(***************************************************************************)
SameFrom(u, i, v, j) ==
    /\ Len(u) - i = Len(v) - j
    /\ \A t \in 0 .. Len(u) - i : u[i + t] = v[j + t]

LEMMA SameFromStep ==
    ASSUME NEW u \in Seq(Units), NEW v \in Seq(Units),
           NEW i \in 1 .. Len(u), NEW j \in 1 .. Len(v),
           u[i] = v[j], SameFrom(u, i + 1, v, j + 1)
    PROVE  SameFrom(u, i, v, j)
<1>1. Len(u) - i = Len(v) - j
  BY DEF SameFrom
<1> SUFFICES ASSUME NEW t \in 0 .. Len(u) - i PROVE u[i + t] = v[j + t]
  BY <1>1 DEF SameFrom
<1>2. CASE t = 0
  BY <1>2
<1>3. CASE t # 0
  <2>1. t - 1 \in 0 .. Len(u) - (i + 1)
    BY <1>3
  <2>2. i + 1 + (t - 1) = i + t /\ j + 1 + (t - 1) = j + t
    OBVIOUS
  <2>3. u[i + 1 + (t - 1)] = v[j + 1 + (t - 1)]
    BY <2>1 DEF SameFrom
  <2> QED BY <2>2, <2>3
<1> QED BY <1>2, <1>3

\* One step of it.
LEMMA HereTells ==
    ASSUME NEW u \in Seq(Units), NEW v \in Seq(Units),
           NEW i \in 1 .. Len(u) + 1, NEW j \in 1 .. Len(v) + 1,
           DecodeFrom(u)[i] = DecodeFrom(v)[j], NoReplacement(DecodeFrom(u)[i]),
           \A p \in i + 1 .. Len(u) + 1 : \A q \in 1 .. Len(v) + 1 :
              DecodeFrom(u)[p] = DecodeFrom(v)[q] /\ NoReplacement(DecodeFrom(u)[p])
                 => SameFrom(u, p, v, q)
    PROVE  SameFrom(u, i, v, j)
<1> DEFINE f == DecodeFrom(u)
           g == DecodeFrom(v)
<1>1. f[i] = Here(u, f, i) /\ g[j] = Here(v, g, j)
  BY DecodeFromSteps
<1>2. /\ \A k \in 1 .. Len(u) + 1 : f[k] \in Seq(Characters)
      /\ \A k \in 1 .. Len(v) + 1 : g[k] \in Seq(Characters)
  BY DecodeFromType
<1> HIDE DEF f, g
<1>4. CASE i = Len(u) + 1
  <2>1. f[i] = << >>
    BY <1>1, <1>4, HereIs
  <2>2. j = Len(v) + 1
    <3>1. SUFFICES ASSUME j <= Len(v) PROVE FALSE
      OBVIOUS
    <3>2. g[j] = Prefixed(CharacterAt(v, j), g[Behind(v, j)])
      BY <1>1, <3>1, HereIs
    <3>0. j \in 1 .. Len(v)
      BY <3>1
    <3>3. Behind(v, j) \in 1 .. Len(v) + 1 /\ j \in 1 .. Len(v)
      <4>1. Behind(v, j) = j + 1 \/ (Behind(v, j) = j + 2 /\ j < Len(v))
        BY DEF Behind, IsPair
      <4> QED BY <3>0, <4>1
    <3>4. Len(g[j]) > 0
      <4>1. CharacterAt(v, j) \in Characters /\ g[Behind(v, j)] \in Seq(Characters)
        BY <1>2, <3>3, CharacterAtType
      <4>2. Starts(g[j], CharacterAt(v, j), g[Behind(v, j)])
        BY <3>2, <4>1, PrefixedIs
      <4> QED BY <4>2 DEF Starts
    <3>5. f[i] = g[j]
      BY DEF f, g
    <3> QED BY <2>1, <3>4, <3>5
  <2> QED BY <1>4, <2>2 DEF SameFrom
<1>5. CASE i <= Len(u)
  <2> DEFINE p == Behind(u, i)
             q == Behind(v, j)
  <2>1. i \in 1 .. Len(u)
    BY <1>5
  <2>2. f[i] = Prefixed(CharacterAt(u, i), f[p]) /\ p \in i + 1 .. Len(u) + 1
    BY <1>1, <1>5, HereIs
  <2>3. CharacterAt(u, i) \in Characters /\ f[p] \in Seq(Characters)
    BY <1>2, <2>1, <2>2, CharacterAtType
  <2>4. f[i] = g[j]
    BY DEF f, g
  <2>5. j \in 1 .. Len(v)
    <3>1. SUFFICES ASSUME j = Len(v) + 1 PROVE FALSE
      OBVIOUS
    <3>2. g[j] = << >>
      BY <1>1, <3>1, HereIs
    <3> QED
      <4>1. Starts(f[i], CharacterAt(u, i), f[p])
        BY <2>2, <2>3, PrefixedIs
      <4> QED BY <2>4, <3>2, <4>1 DEF Starts
  <2>6. g[j] = Prefixed(CharacterAt(v, j), g[q]) /\ q \in 1 .. Len(v) + 1
    BY <1>1, <2>5, HereIs
  <2>7. CharacterAt(v, j) \in Characters /\ g[q] \in Seq(Characters)
    BY <1>2, <2>5, <2>6, CharacterAtType
  <2>8. CharacterAt(u, i) = CharacterAt(v, j) /\ f[p] = g[q]
    <3> HIDE DEF p, q
    <3>1. Prefixed(CharacterAt(u, i), f[p]) = Prefixed(CharacterAt(v, j), g[q])
      BY <2>2, <2>4, <2>6
    <3> QED BY <2>3, <2>7, <3>1, PrefixedTells
  <2>9. CharacterAt(u, i) # Replacement /\ NoReplacement(f[p])
    <3>1. NoReplacement(f[i])
      BY DEF f
    <3> HIDE DEF p
    <3>2. /\ f[i][1] = CharacterAt(u, i) /\ 1 \in DOMAIN f[i]
          /\ \A k \in DOMAIN f[p] : f[i][k + 1] = f[p][k] /\ k + 1 \in DOMAIN f[i]
      <4>1. Starts(f[i], CharacterAt(u, i), f[p])
        BY <2>2, <2>3, PrefixedIs
      <4>2. 1 \in 1 .. 1 + Len(f[p])
        BY <4>1 DEF Starts
      <4>3. DOMAIN f[i] = 1 .. 1 + Len(f[p]) /\ DOMAIN f[p] = 1 .. Len(f[p])
        BY <4>1 DEF Starts
      <4>4. f[i][1] = CharacterAt(u, i)
        BY <4>1 DEF Starts
      <4>5. \A k \in 1 .. Len(f[p]) : k + 1 \in 1 .. 1 + Len(f[p]) /\ f[i][k + 1] = f[p][k]
        BY <4>1 DEF Starts
      <4> QED BY <4>2, <4>3, <4>4, <4>5
    <3> QED BY <3>1, <3>2 DEF NoReplacement
  <2>10. SameFrom(u, p, v, q)
    <3> HIDE DEF p, q
    <3> QED BY <2>2, <2>6, <2>8, <2>9 DEF f, g
  <2>11. /\ u[i] = v[j]
         /\ IsPair(u, i) <=> IsPair(v, j)
         /\ IsPair(u, i) => u[i + 1] = v[j + 1]
    BY <2>1, <2>5, <2>8, <2>9, CharacterTells
  <2>12. CASE IsPair(u, i)
    <3>1. p = i + 2 /\ q = j + 2 /\ i + 1 \in 1 .. Len(u) /\ j + 1 \in 1 .. Len(v)
      BY <2>1, <2>5, <2>11, <2>12 DEF Behind, IsPair
    <3>2. SameFrom(u, i + 1, v, j + 1)
      <4>1. SameFrom(u, (i + 1) + 1, v, (j + 1) + 1)
        <5>1. (i + 1) + 1 = i + 2 /\ (j + 1) + 1 = j + 2
          OBVIOUS
        <5> QED BY <2>10, <3>1, <5>1
      <4> QED BY <2>11, <2>12, <3>1, <4>1, SameFromStep
    <3> QED BY <2>1, <2>5, <2>11, <3>2, SameFromStep
  <2>13. CASE ~ IsPair(u, i)
    <3>1. p = i + 1 /\ q = j + 1
      BY <2>11, <2>13 DEF Behind
    <3> QED BY <2>1, <2>5, <2>10, <2>11, <3>1, SameFromStep
  <2> QED BY <2>12, <2>13
<1> QED BY <1>4, <1>5

(***************************************************************************)
(* Two names that decode to the same characters, none of them U+FFFD, are  *)
(* the same code units.                                                    *)
(***************************************************************************)
LEMMA DecodeTells ==
    ASSUME NEW u \in Seq(Units), NEW v \in Seq(Units),
           Decode(u) = Decode(v), NoReplacement(Decode(u))
    PROVE  u = v
<1>1. Len(u) \in Nat /\ Len(v) \in Nat
  OBVIOUS
<1> DEFINE Told(i) ==
             \A j \in 1 .. Len(v) + 1 :
                DecodeFrom(u)[i] = DecodeFrom(v)[j] /\ NoReplacement(DecodeFrom(u)[i])
                   => SameFrom(u, i, v, j)
           Bad == {m \in 0 .. Len(u) : ~ Told(Len(u) + 1 - m)}
<1>2. Bad = {}
  <2>1. SUFFICES ASSUME Bad # {} PROVE FALSE
    OBVIOUS
  <2>2. PICK m \in Bad : \A y \in Bad : m <= y
    <3>1. Bad \in SUBSET Nat
      OBVIOUS
    <3> HIDE DEF Bad
    <3> QED BY <2>1, <3>1, LeastExists
  <2>3. PICK i \in 1 .. Len(u) + 1 : i = Len(u) + 1 - m
    BY <1>1
  <2>4. \A p \in i + 1 .. Len(u) + 1 : Told(p)
    <3> SUFFICES ASSUME NEW p \in i + 1 .. Len(u) + 1 PROVE Told(p)
      OBVIOUS
    <3>1. /\ Len(u) + 1 - p \in 0 .. Len(u)
          /\ ~ (m <= Len(u) + 1 - p)
          /\ Len(u) + 1 - (Len(u) + 1 - p) = p
      BY <1>1, <2>3
    <3>2. Len(u) + 1 - p \notin Bad
      <4> HIDE DEF Bad
      <4> QED BY <2>2, <3>1
    <3> HIDE DEF Told
    <3> QED BY <3>1, <3>2
  <2>5. Told(i)
    BY <2>4, HereTells
  <2> HIDE DEF Told
  <2> QED BY <2>2, <2>3, <2>5
<1>3. Told(1)
  <2>1. Len(u) \in 0 .. Len(u) /\ Len(u) + 1 - Len(u) = 1
    BY <1>1
  <2> HIDE DEF Told
  <2> QED BY <1>2, <2>1
<1>4. SameFrom(u, 1, v, 1)
  BY <1>1, <1>3 DEF Decode
<1>5. Len(u) = Len(v)
  BY <1>1, <1>4 DEF SameFrom
<1>6. \A k \in 1 .. Len(u) : u[k] = v[k]
  <2> SUFFICES ASSUME NEW k \in 1 .. Len(u) PROVE u[k] = v[k]
    OBVIOUS
  <2>1. k - 1 \in 0 .. Len(u) - 1 /\ 1 + (k - 1) = k
    BY <1>1
  <2>2. u[1 + (k - 1)] = v[1 + (k - 1)]
    BY <1>4, <2>1 DEF SameFrom
  <2> QED BY <2>1, <2>2
<1> QED BY <1>5, <1>6, SeqEqual

-----------------------------------------------------------------------------
(***************************************************************************)
(* The bounds arithmetic of a page (minstore.rs:100-197).                  *)
(***************************************************************************)
LEMMA ReadType ==
    ASSUME NEW d, IsSlice(d), NEW p
    PROVE  U16(d, p) \in Nat /\ U16(d, p) < 65536 /\ U32(d, p) \in Nat /\ U64(d, p) \in Nat
BY DEF IsSlice, U16, U32, U64, Read

LEMMA PlacesType ==
    ASSUME NEW d, IsSlice(d), NEW i \in Nat
    PROVE  /\ NodeHeader(d) \in Nat /\ RecordOffsets(d) \in Nat
           /\ U32(d, NodeHeader(d) + 20) \in Nat
           /\ Slot(d, i) \in Nat /\ Record(d, i) \in Nat
           /\ KeyStart(d, i) \in Nat /\ KeyEnd(d, i) \in Nat
           /\ ValueStart(d, i) \in Nat /\ ValueEnd(d, i) \in Nat
<1>1. NodeHeader(d) \in Nat /\ U32(d, NodeHeader(d) + 20) \in Nat
  BY ReadType DEF NodeHeader, NodeHeaderField
<1>2. RecordOffsets(d) \in Nat
  BY <1>1, ReadType DEF RecordOffsets
<1>3. Slot(d, i) \in Nat
  BY <1>2 DEF Slot
<1>4. Record(d, i) \in Nat
  <2>1. U32(d, Slot(d, i)) \in Nat
    BY ReadType
  <2>2. U32(d, Slot(d, i)) % 65536 \in Nat
    BY <2>1
  <2> QED BY <1>1, <2>2 DEF Record
<1>5. KeyStart(d, i) \in Nat /\ ValueStart(d, i) \in Nat
  BY <1>4, ReadType DEF KeyStart, ValueStart
<1>6. KeyEnd(d, i) \in Nat /\ ValueEnd(d, i) \in Nat
  BY <1>5, ReadType DEF KeyEnd, ValueEnd
<1> QED BY <1>1, <1>2, <1>3, <1>4, <1>5, <1>6

LEMMA MinOfTwo ==
    ASSUME NEW a \in Nat, NEW b \in Nat
    PROVE  Min({a, b}) \in {a, b} /\ Min({a, b}) <= a /\ Min({a, b}) <= b
<1>1. \E x \in {a, b} : \A y \in {a, b} : x <= y
  OBVIOUS
<1> QED BY <1>1 DEF Min

LEMMA MinOfThree ==
    ASSUME NEW a \in Nat, NEW b \in Nat, NEW c \in Nat
    PROVE  /\ Min({a, b, c}) \in {a, b, c}
           /\ Min({a, b, c}) <= a /\ Min({a, b, c}) <= b /\ Min({a, b, c}) <= c
<1>1. \E x \in {a, b, c} : \A y \in {a, b, c} : x <= y
  OBVIOUS
<1> QED BY <1>1 DEF Min

(***************************************************************************)
(* The record count is at most every one of its bounds, and a slot is      *)
(* within the capacity exactly when all of it lies in the slice.           *)
(***************************************************************************)
LEMMA CapacityIs ==
    ASSUME NEW d, IsSlice(d), NEW i \in Nat
    PROVE  Capacity(d) \in Nat /\ (i < Capacity(d) <=> Slot(d, i) + 4 <= d.len)
<1>0. d.len \in Nat
  BY DEF IsSlice
<1>1. RecordOffsets(d) \in Nat /\ d.len \in Nat
  BY <1>0, PlacesType
<1>2. CASE RecordOffsets(d) <= d.len
  <2>1. PICK n \in Nat : n = d.len - RecordOffsets(d)
    BY <1>1, <1>2
  <2>2. Capacity(d) = n \div 4 /\ n \div 4 \in Nat
    BY <1>2, <2>1 DEF Capacity
  <2>3. i < n \div 4 <=> 4 * i + 4 <= n
    OBVIOUS
  <2> QED BY <1>1, <2>1, <2>2, <2>3 DEF Slot
<1>3. CASE ~ (RecordOffsets(d) <= d.len)
  BY <1>1, <1>3 DEF Capacity, Slot
<1> QED BY <1>2, <1>3

LEMMA RecordCountIs ==
    ASSUME NEW d, IsSlice(d)
    PROVE  /\ RecordCount(d) \in Nat /\ RecordCount(d) \in 0 .. MaxRecords
           /\ \A i \in Nat : i < RecordCount(d) <=>
                /\ i < U32(d, NodeHeader(d) + 20)
                /\ Slot(d, i) + 4 <= d.len
                /\ i < MaxRecords
<1>1. U32(d, NodeHeader(d) + 20) \in Nat /\ Capacity(d) \in Nat /\ MaxRecords \in Nat
  BY PlacesType, CapacityIs DEF MaxRecords
<1>2. RecordCount(d) = Min({U32(d, NodeHeader(d) + 20), Capacity(d), MaxRecords})
  BY DEF RecordCount
<1>3. \A a, b, c \in Nat :
        /\ Min({a, b, c}) \in {a, b, c}
        /\ Min({a, b, c}) <= a /\ Min({a, b, c}) <= b /\ Min({a, b, c}) <= c
  BY MinOfThree
<1>4. /\ RecordCount(d) \in {U32(d, NodeHeader(d) + 20), Capacity(d), MaxRecords}
      /\ RecordCount(d) <= U32(d, NodeHeader(d) + 20)
      /\ RecordCount(d) <= Capacity(d) /\ RecordCount(d) <= MaxRecords
  BY <1>1, <1>2, <1>3
<1>5. \A i \in Nat : i < Capacity(d) <=> Slot(d, i) + 4 <= d.len
  BY CapacityIs
<1>6. \A i \in Nat : i < RecordCount(d) <=>
        i < U32(d, NodeHeader(d) + 20) /\ i < Capacity(d) /\ i < MaxRecords
  BY <1>1, <1>4
<1> QED BY <1>1, <1>4, <1>5, <1>6

(***************************************************************************)
(* A slice cut at n: what lies before n reads the same.                    *)
(***************************************************************************)
CutAt(d, n) == [d EXCEPT !.len = n]

LEMMA CutIsSlice ==
    ASSUME NEW d, IsSlice(d), NEW n \in Nat
    PROVE  /\ IsSlice(CutAt(d, n))
           /\ CutAt(d, n).len = n
           /\ CutAt(d, n).u16 = d.u16 /\ CutAt(d, n).u32 = d.u32 /\ CutAt(d, n).u64 = d.u64
<1>1. d = [len |-> d.len, u16 |-> d.u16, u32 |-> d.u32, u64 |-> d.u64]
  BY DEF IsSlice
<1>2. CutAt(d, n) = [len |-> n, u16 |-> d.u16, u32 |-> d.u32, u64 |-> d.u64]
  BY <1>1 DEF CutAt
<1> QED BY <1>2 DEF IsSlice

LEMMA CutReads ==
    ASSUME NEW d, IsSlice(d), NEW n \in Nat, n <= d.len, NEW p \in Nat
    PROVE  /\ p + 2 <= n => U16(CutAt(d, n), p) = U16(d, p)
           /\ p + 4 <= n => U32(CutAt(d, n), p) = U32(d, p)
           /\ p + 8 <= n => U64(CutAt(d, n), p) = U64(d, p)
<1>1. d.len \in Nat
  BY DEF IsSlice
<1>2. \A w \in {2, 4, 8} : p + w <= n => p + w <= d.len
  BY <1>1
<1> QED BY <1>2, CutIsSlice DEF U16, U32, U64, Read

(***************************************************************************)
(* The header of a part that parses is that of the whole.                  *)
(***************************************************************************)
LEMMA CutHeader ==
    ASSUME NEW d, IsSlice(d), NEW n \in Nat, n <= d.len, Parses(CutAt(d, n))
    PROVE  /\ NodeHeader(CutAt(d, n)) = NodeHeader(d)
           /\ RecordOffsets(CutAt(d, n)) = RecordOffsets(d)
           /\ U32(CutAt(d, n), NodeHeader(CutAt(d, n)) + 20) = U32(d, NodeHeader(d) + 20)
           /\ \A i : Slot(CutAt(d, n), i) = Slot(d, i)
<1> DEFINE c == CutAt(d, n)
<1>1. IsSlice(c) /\ c.len = n
  BY CutIsSlice
<1>2. 80 + 4 <= n
  BY <1>1 DEF Parses, NodeHeaderField
<1>3. NodeHeader(c) = NodeHeader(d)
  BY <1>2, CutReads DEF NodeHeader, NodeHeaderField
<1>4. NodeHeader(d) \in Nat /\ NodeHeader(d) + 32 <= n
  BY <1>1, <1>3, PlacesType DEF Parses, NodeHeaderLen
<1>5. /\ U32(c, NodeHeader(d) + 16) = U32(d, NodeHeader(d) + 16)
      /\ U32(c, NodeHeader(d) + 20) = U32(d, NodeHeader(d) + 20)
  <2>1. NodeHeader(d) + 16 \in Nat /\ NodeHeader(d) + 16 + 4 <= n
    BY <1>4
  <2>2. NodeHeader(d) + 20 \in Nat /\ NodeHeader(d) + 20 + 4 <= n
    BY <1>4
  <2> HIDE DEF c
  <2> QED BY <2>1, <2>2, CutReads DEF c
<1> HIDE DEF c
<1>6. RecordOffsets(c) = RecordOffsets(d)
  BY <1>3, <1>5 DEF RecordOffsets
<1>7. \A i : Slot(c, i) = Slot(d, i)
  BY <1>6 DEF Slot
<1> QED BY <1>3, <1>5, <1>6, <1>7 DEF c

(***************************************************************************)
(* A row of the part is a row of the whole that lies in it, at the same    *)
(* places and with the same fields.                                        *)
(***************************************************************************)
LEMMA CutRow ==
    ASSUME NEW d, IsSlice(d), NEW n \in Nat, n <= d.len, Parses(CutAt(d, n)),
           NEW i \in Nat, Slot(d, i) + 4 <= n
    PROVE  /\ IsRow(CutAt(d, n), i) <=> LiesIn(d, i, n)
           /\ IsRow(CutAt(d, n), i) =>
                /\ KeyStart(CutAt(d, n), i) = KeyStart(d, i)
                /\ KeyEnd(CutAt(d, n), i) = KeyEnd(d, i)
                /\ ValueStart(CutAt(d, n), i) = ValueStart(d, i)
                /\ ValueEnd(CutAt(d, n), i) = ValueEnd(d, i)
                /\ KeyEnd(d, i) <= n /\ ValueEnd(d, i) <= n
                /\ IsRow(d, i)
<1> DEFINE c == CutAt(d, n)
<1>1. IsSlice(c) /\ c.len = n /\ d.len \in Nat
  BY CutIsSlice DEF IsSlice
<1>2. /\ Slot(d, i) \in Nat /\ Record(d, i) \in Nat
      /\ KeyEnd(d, i) \in Nat /\ ValueEnd(d, i) \in Nat
  BY PlacesType
<1>3. NodeHeader(c) = NodeHeader(d) /\ Slot(c, i) = Slot(d, i)
  BY CutHeader
<1>4. U32(c, Slot(d, i)) = U32(d, Slot(d, i))
  BY <1>2, CutReads
<1>5. Record(c, i) = Record(d, i)
  BY <1>3, <1>4 DEF Record
<1>6. ASSUME Record(d, i) + 14 <= n
      PROVE  /\ KeyStart(c, i) = KeyStart(d, i) /\ KeyEnd(c, i) = KeyEnd(d, i)
             /\ ValueStart(c, i) = ValueStart(d, i) /\ ValueEnd(c, i) = ValueEnd(d, i)
  <2>1. \A k \in {4, 6, 10, 12} : Record(d, i) + k \in Nat /\ Record(d, i) + k + 2 <= n
    BY <1>2, <1>6
  <2>2. \A k \in {4, 6, 10, 12} : U16(c, Record(d, i) + k) = U16(d, Record(d, i) + k)
    BY <2>1, CutReads
  <2> HIDE DEF c
  <2>3. KeyStart(c, i) = KeyStart(d, i) /\ ValueStart(c, i) = ValueStart(d, i)
    BY <1>5, <2>2 DEF KeyStart, ValueStart
  <2> QED BY <1>5, <2>2, <2>3 DEF KeyEnd, ValueEnd
<1> HIDE DEF c
<1>7. IsRow(c, i) <=> LiesIn(d, i, n)
  BY <1>1, <1>5, <1>6 DEF IsRow, LiesIn
<1>8. IsRow(c, i) => Record(d, i) + 14 <= n
  BY <1>1, <1>5 DEF IsRow
<1>9. LiesIn(d, i, n) => IsRow(d, i)
  BY <1>1, <1>2 DEF IsRow, LiesIn
<1>10. LiesIn(d, i, n) => KeyEnd(d, i) <= n /\ ValueEnd(d, i) <= n
  BY DEF LiesIn
<1> QED BY <1>6, <1>7, <1>8, <1>9, <1>10 DEF c

LEMMA CutFields ==
    ASSUME NEW d, IsSlice(d), NEW n \in Nat, n <= d.len, Parses(CutAt(d, n)),
           NEW i \in Nat, Slot(d, i) + 4 <= n, IsRow(CutAt(d, n), i)
    PROVE  /\ \A k \in Nat : KeyU16(CutAt(d, n), i, k) = KeyU16(d, i, k)
           /\ \A k \in Nat : ValueU32(CutAt(d, n), i, k) = ValueU32(d, i, k)
           /\ \A k \in Nat : ValueU64(CutAt(d, n), i, k) = ValueU64(d, i, k)
           /\ \A k \in Nat : ValueHas(CutAt(d, n), i, k) <=> ValueHas(d, i, k)
           /\ NameUnits(CutAt(d, n), i) = NameUnits(d, i)
<1> DEFINE c == CutAt(d, n)
<1>1. /\ KeyStart(c, i) = KeyStart(d, i) /\ KeyEnd(c, i) = KeyEnd(d, i)
      /\ ValueStart(c, i) = ValueStart(d, i) /\ ValueEnd(c, i) = ValueEnd(d, i)
      /\ KeyEnd(d, i) <= n /\ ValueEnd(d, i) <= n
  BY CutRow
<1>2. /\ KeyStart(d, i) \in Nat /\ KeyEnd(d, i) \in Nat
      /\ ValueStart(d, i) \in Nat /\ ValueEnd(d, i) \in Nat
  BY PlacesType
<1>3. \A p \in Nat :
        /\ p + 2 <= n => U16(c, p) = U16(d, p)
        /\ p + 4 <= n => U32(c, p) = U32(d, p)
        /\ p + 8 <= n => U64(c, p) = U64(d, p)
  BY CutReads
<1> HIDE DEF c
<1>4. \A k \in Nat : KeyU16(c, i, k) = KeyU16(d, i, k)
  BY <1>1, <1>2, <1>3 DEF KeyU16, Within
<1>5. \A k \in Nat : ValueU32(c, i, k) = ValueU32(d, i, k)
  BY <1>1, <1>2, <1>3 DEF ValueU32, Within
<1>6. \A k \in Nat : ValueU64(c, i, k) = ValueU64(d, i, k)
  BY <1>1, <1>2, <1>3 DEF ValueU64, Within
<1>7. \A k \in Nat : ValueHas(c, i, k) <=> ValueHas(d, i, k)
  BY <1>1 DEF ValueHas
<1>8. NameUnits(c, i) = NameUnits(d, i)
  <2> DEFINE bytes == KeyEnd(d, i) - KeyStart(d, i) - 4
             length == IF bytes > 0 THEN bytes \div 2 ELSE 0
             At(k) == KeyStart(d, i) + 4 + 2 * (k - 1)
  <2>1. bytes \in Int
    BY <1>2
  <2>2. \A k \in 1 .. length : At(k) \in Nat /\ At(k) + 2 <= n
    <3> SUFFICES ASSUME NEW k \in 1 .. length PROVE At(k) \in Nat /\ At(k) + 2 <= n
      OBVIOUS
    <3>1. bytes > 0 /\ k \in Nat /\ 1 <= k /\ k <= bytes \div 2
      BY <2>1
    <3>2. 2 * k <= bytes
      <4> HIDE DEF bytes
      <4> QED BY <2>1, <3>1
    <3> QED BY <1>1, <1>2, <3>1, <3>2
  <2>3. \A k \in 1 .. length : U16(c, At(k)) = U16(d, At(k))
    <3> HIDE DEF length, At
    <3> QED BY <1>3, <2>2
  <2>4. /\ NameUnits(d, i) = [k \in 1 .. length |-> U16(d, At(k))]
        /\ NameUnits(c, i) = [k \in 1 .. length |-> U16(c, At(k))]
    BY <1>1 DEF NameUnits
  <2> HIDE DEF length, At
  <2> QED BY <2>3, <2>4
<1> QED BY <1>4, <1>5, <1>6, <1>7, <1>8 DEF c

-----------------------------------------------------------------------------
(***************************************************************************)
(* What each reader makes of a row (directory.rs:376-421,                  *)
(* container.rs:133-151, minstore.rs:243-260).                             *)
(***************************************************************************)
ReaderNames == {"entries", "children", "containers", "objects"}

LEMMA KindIs ==
    ASSUME NEW type
    PROVE  Kind(type) \in {"directory", "file", "other"}
BY DEF Kind

LEMMA TimesAre ==
    ASSUME NEW kind
    PROVE  /\ \A t \in 1 .. 4 : Times(kind)[t] \in Nat
           /\ AttributesAt(kind) \in Nat
BY DEF Times, AttributesAt

\* Each reader's branch of Used and Yielded.
LEMMA UsedIs ==
    ASSUME NEW d, NEW i
    PROVE  /\ Used("entries", d, i) <=> IsRow(d, i) /\ KeyU16(d, i, 0) = EntryRecord
           /\ Used("children", d, i) <=> IsRow(d, i) /\ ValueHas(d, i, 8)
           /\ Used("containers", d, i) <=> IsRow(d, i) /\ ValueHas(d, i, 160)
           /\ Used("objects", d, i) <=>
                /\ IsRow(d, i)
                /\ KeyStart(d, i) + 16 <= KeyEnd(d, i)
                /\ ValueStart(d, i) + 40 <= ValueEnd(d, i)
           /\ \A who : Used(who, d, i) => IsRow(d, i)
<1>1. \A who : Used(who, d, i) => IsRow(d, i)
  BY DEF Used
<1>2. Used("entries", d, i) <=> IsRow(d, i) /\ KeyU16(d, i, 0) = EntryRecord
  BY DEF Used
<1>3. Used("children", d, i) <=> IsRow(d, i) /\ ValueHas(d, i, 8)
  BY DEF Used
<1>4. Used("containers", d, i) <=> IsRow(d, i) /\ ValueHas(d, i, 160)
  BY DEF Used
<1>5. Used("objects", d, i) <=>
                /\ IsRow(d, i)
                /\ KeyStart(d, i) + 16 <= KeyEnd(d, i)
                /\ ValueStart(d, i) + 40 <= ValueEnd(d, i)
  BY DEF Used, Answers
<1> QED BY <1>1, <1>2, <1>3, <1>4, <1>5

LEMMA YieldedIs ==
    ASSUME NEW d, NEW i
    PROVE  /\ Yielded("entries", d, i) = EntryOf(d, i)
           /\ Yielded("children", d, i) = ValueU64(d, i, 0)
           /\ Yielded("containers", d, i) = ContainerOf(d, i)
           /\ Yielded("objects", d, i) = ObjectOf(d, i)
BY DEF Yielded

LEMMA FieldType ==
    ASSUME NEW d, IsSlice(d), NEW i, NEW k
    PROVE  KeyU16(d, i, k) \in Nat /\ ValueU32(d, i, k) \in Nat /\ ValueU64(d, i, k) \in Nat
BY ReadType DEF KeyU16, ValueU32, ValueU64

LEMMA NameUnitsType ==
    ASSUME NEW d, IsSlice(d), NEW i \in Nat
    PROVE  NameUnits(d, i) \in Seq(Units)
<1> DEFINE bytes == KeyEnd(d, i) - KeyStart(d, i) - 4
           length == IF bytes > 0 THEN bytes \div 2 ELSE 0
           e(k) == U16(d, KeyStart(d, i) + 4 + 2 * (k - 1))
<1>1. bytes \in Int
  BY PlacesType
<1>2. length \in Nat
  <2> HIDE DEF bytes
  <2> QED BY <1>1
<1>3. \A k \in 1 .. length : e(k) \in Units
  BY ReadType DEF Units
<1>4. NameUnits(d, i) = [k \in 1 .. length |-> e(k)]
  BY DEF NameUnits
<1> HIDE DEF length, e
<1> QED BY <1>2, <1>3, <1>4, IsASeq

(***************************************************************************)
(* An entry, field by field.                                               *)
(***************************************************************************)
LEMMA EntryIs ==
    ASSUME NEW d, NEW i, NEW kind, kind = Kind(KeyU16(d, i, 2))
    PROVE  /\ EntryOf(d, i).name = Decode(NameUnits(d, i))
           /\ EntryOf(d, i).kind = kind
           /\ EntryOf(d, i).id = IF kind = "directory" THEN {ValueU64(d, i, 0)} ELSE {}
           /\ EntryOf(d, i).metadata = IF kind = "other" THEN {} ELSE {Metadata(d, i, kind)}
BY DEF EntryOf

LEMMA MetadataIs ==
    ASSUME NEW d, IsSlice(d), NEW i, NEW kind
    PROVE  Metadata(d, i, kind) \in MetadataType
<1>1. [t \in 1 .. 4 |-> ValueU64(d, i, Times(kind)[t])] \in [1 .. 4 -> Nat]
  BY FieldType
<1>2. /\ (IF kind = "file" THEN ValueU64(d, i, 64) ELSE 0) \in Nat
      /\ (IF kind = "file" THEN ValueU64(d, i, 72) ELSE 0) \in Nat
      /\ ValueU32(d, i, AttributesAt(kind)) \in Nat
  BY FieldType
<1> QED BY <1>1, <1>2 DEF Metadata, MetadataType

LEMMA YieldType ==
    ASSUME NEW d, IsSlice(d), NEW who \in ReaderNames, NEW i \in Nat
    PROVE  IsYield(who, Yielded(who, d, i))
<1>1. CASE who = "entries"
  <2> DEFINE v == EntryOf(d, i)
  <2>0. PICK kind : kind = Kind(KeyU16(d, i, 2))
    OBVIOUS
  <2>a. /\ v.name = Decode(NameUnits(d, i))
        /\ v.kind = kind
        /\ v.id = IF kind = "directory" THEN {ValueU64(d, i, 0)} ELSE {}
        /\ v.metadata = IF kind = "other" THEN {} ELSE {Metadata(d, i, kind)}
    BY <2>0 DEF EntryOf
  <2> HIDE DEF v
  <2>1. \A k \in DOMAIN v.name : IsCharacter(v.name[k])
    <3>1. NameUnits(d, i) \in Seq(Units)
      BY NameUnitsType
    <3>2. v.name \in Seq(Characters)
      BY <2>a, <3>1, DecodeType
    <3> QED BY <3>2 DEF Characters
  <2>2. /\ v.kind = "directory" <=> v.id # {}
        /\ v.kind = "other" <=> v.metadata = {}
    BY <2>a
  <2>3. v.id \subseteq Nat /\ v.metadata \subseteq MetadataType
    <3>1. ValueU64(d, i, 0) \in Nat /\ Metadata(d, i, kind) \in MetadataType
      BY FieldType, MetadataIs
    <3> QED BY <2>a, <3>1
  <2>4. IsYield("entries", v)
    BY <2>1, <2>2, <2>3 DEF IsYield
  <2> QED BY <1>1, <2>4, YieldedIs DEF v
<1>2. CASE who = "children"
  BY <1>2, YieldedIs, FieldType DEF IsYield
<1>3. CASE who = "containers"
  BY <1>3, YieldedIs, FieldType DEF IsYield, ContainerOf
<1>4. CASE who = "objects"
  BY <1>4, YieldedIs, ReadType DEF IsYield, ObjectOf, RootBlock
<1> QED BY <1>1, <1>2, <1>3, <1>4 DEF ReaderNames

(***************************************************************************)
(* A reader uses a row of the part exactly when it would use it in the     *)
(* whole and all of it is there, and makes the same of it.                 *)
(***************************************************************************)
LEMMA CutUsed ==
    ASSUME NEW d, IsSlice(d), NEW n \in Nat, n <= d.len, Parses(CutAt(d, n)),
           NEW i \in Nat, Slot(d, i) + 4 <= n, NEW who \in ReaderNames
    PROVE  Used(who, CutAt(d, n), i) <=> LiesIn(d, i, n) /\ Used(who, d, i)
<1> DEFINE c == CutAt(d, n)
<1>1. ~ IsRow(c, i) => ~ LiesIn(d, i, n) /\ ~ Used(who, c, i)
  BY CutRow, UsedIs
<1>2. ASSUME IsRow(c, i)
      PROVE  Used(who, c, i) <=> LiesIn(d, i, n) /\ Used(who, d, i)
  <2>1. IsRow(d, i) /\ LiesIn(d, i, n)
    BY <1>2, CutRow
  <2>2. /\ KeyStart(c, i) = KeyStart(d, i) /\ KeyEnd(c, i) = KeyEnd(d, i)
        /\ ValueStart(c, i) = ValueStart(d, i) /\ ValueEnd(c, i) = ValueEnd(d, i)
    BY <1>2, CutRow
  <2>3. /\ KeyU16(c, i, 0) = KeyU16(d, i, 0)
        /\ ValueHas(c, i, 8) <=> ValueHas(d, i, 8)
        /\ ValueHas(c, i, 160) <=> ValueHas(d, i, 160)
    BY <1>2, CutFields
  <2> HIDE DEF c
  <2> QED BY <1>2, <2>1, <2>2, <2>3, UsedIs DEF ReaderNames
<1> QED BY <1>1, <1>2

LEMMA CutYields ==
    ASSUME NEW d, IsSlice(d), NEW n \in Nat, n <= d.len, Parses(CutAt(d, n)),
           NEW i \in Nat, Slot(d, i) + 4 <= n, NEW who \in ReaderNames,
           Used(who, CutAt(d, n), i)
    PROVE  Yielded(who, CutAt(d, n), i) = Yielded(who, d, i)
<1> DEFINE c == CutAt(d, n)
<1>1. IsRow(c, i)
  BY UsedIs
<1>2. /\ KeyStart(c, i) = KeyStart(d, i) /\ KeyEnd(c, i) = KeyEnd(d, i)
      /\ ValueStart(c, i) = ValueStart(d, i) /\ ValueEnd(c, i) = ValueEnd(d, i)
      /\ KeyEnd(d, i) <= n /\ ValueEnd(d, i) <= n
  BY <1>1, CutRow
<1>3. /\ \A k \in Nat : KeyU16(c, i, k) = KeyU16(d, i, k)
      /\ \A k \in Nat : ValueU32(c, i, k) = ValueU32(d, i, k)
      /\ \A k \in Nat : ValueU64(c, i, k) = ValueU64(d, i, k)
      /\ NameUnits(c, i) = NameUnits(d, i)
  BY <1>1, CutFields
<1>4. /\ KeyStart(d, i) \in Nat /\ KeyEnd(d, i) \in Nat
      /\ ValueStart(d, i) \in Nat /\ ValueEnd(d, i) \in Nat
  BY PlacesType
<1>5. \A p \in Nat : p + 8 <= n => U64(c, p) = U64(d, p)
  BY CutReads
<1>6. Used(who, c, i)
  OBVIOUS
<1> HIDE DEF c
<1>7. CASE who = "entries"
  <2>1. \A kind : Metadata(c, i, kind) = Metadata(d, i, kind)
    <3> SUFFICES ASSUME NEW kind PROVE Metadata(c, i, kind) = Metadata(d, i, kind)
      OBVIOUS
    <3>1. [t \in 1 .. 4 |-> ValueU64(c, i, Times(kind)[t])]
            = [t \in 1 .. 4 |-> ValueU64(d, i, Times(kind)[t])]
      BY <1>3, TimesAre
    <3>2. ValueU32(c, i, AttributesAt(kind)) = ValueU32(d, i, AttributesAt(kind))
      BY <1>3, TimesAre
    <3> QED BY <1>3, <3>1, <3>2 DEF Metadata
  <2>2. EntryOf(c, i) = EntryOf(d, i)
    BY <1>3, <2>1 DEF EntryOf
  <2> QED BY <1>7, <2>2, YieldedIs DEF c
<1>8. CASE who = "children"
  BY <1>3, <1>8, YieldedIs DEF c
<1>9. CASE who = "containers"
  <2>1. ContainerOf(c, i) = ContainerOf(d, i)
    BY <1>3 DEF ContainerOf
  <2> QED BY <1>9, <2>1, YieldedIs DEF c
<1>10. CASE who = "objects"
  <2>1. KeyStart(d, i) + 16 <= KeyEnd(d, i) /\ ValueStart(d, i) + 40 <= ValueEnd(d, i)
    BY <1>2, <1>6, <1>10, UsedIs
  <2>2. /\ U64(c, KeyStart(d, i) + 8) = U64(d, KeyStart(d, i) + 8)
        /\ U64(c, ValueStart(d, i) + 32) = U64(d, ValueStart(d, i) + 32)
    BY <1>2, <1>4, <1>5, <2>1
  <2>3. ObjectOf(c, i) = ObjectOf(d, i)
    BY <1>2, <2>2 DEF ObjectOf, RootBlock
  <2> QED BY <1>10, <2>3, YieldedIs DEF c
<1> QED BY <1>7, <1>8, <1>9, <1>10 DEF ReaderNames

-----------------------------------------------------------------------------
(***************************************************************************)
(* The loop: what it has yielded is what the rows behind it yield, in      *)
(* their order and each once.                                              *)
(***************************************************************************)
Done(d, who, r) == {i \in 0 .. r - 1 : Used(who, d, i)}
UpTo(S, i) == {j \in S : j <= i}
Yields(d, who, S) == {Yielded(who, d, i) : i \in S}

Collected(d, who, r, s) ==
    /\ s \in Seq(Yields(d, who, Done(d, who, r)))
    /\ Len(s) = Cardinality(Done(d, who, r))
    /\ \A i \in Done(d, who, r) :
          s[Cardinality(UpTo(Done(d, who, r), i))] = Yielded(who, d, i)

LEMMA DoneFinite ==
    ASSUME NEW d, NEW who, NEW r \in Nat
    PROVE  /\ IsFiniteSet(Done(d, who, r))
           /\ Cardinality(Done(d, who, r)) \in Nat
           /\ Cardinality(Done(d, who, r)) <= r
<1>1. IsFiniteSet(0 .. r - 1) /\ Cardinality(0 .. r - 1) = r
  <2>1. 0 \in Int /\ r - 1 \in Int
    OBVIOUS
  <2>2. /\ IsFiniteSet(0 .. r - 1)
        /\ Cardinality(0 .. r - 1) = IF 0 > r - 1 THEN 0 ELSE (r - 1) - 0 + 1
    BY <2>1, FS_Interval
  <2> QED BY <2>2
<1>2. Done(d, who, r) \in SUBSET (0 .. r - 1)
  BY DEF Done
<1> QED BY <1>1, <1>2, FS_Subset, FS_CardinalityType

\* The place of a row among those used.
LEMMA UpToIs ==
    ASSUME NEW S, IsFiniteSet(S), NEW i \in S, \A j \in S : j \in Nat
    PROVE  Cardinality(UpTo(S, i)) \in 1 .. Cardinality(S)
<1>1. UpTo(S, i) \in SUBSET S /\ i \in UpTo(S, i)
  BY DEF UpTo
<1>2. /\ IsFiniteSet(UpTo(S, i))
      /\ Cardinality(UpTo(S, i)) <= Cardinality(S)
      /\ Cardinality(UpTo(S, i)) \in Nat /\ Cardinality(S) \in Nat
  BY <1>1, FS_Subset, FS_CardinalityType
<1>3. Cardinality(UpTo(S, i)) # 0
  BY <1>1, <1>2, FS_EmptySet
<1> QED BY <1>2, <1>3

LEMMA CollectedNone ==
    ASSUME NEW d, NEW who
    PROVE  Collected(d, who, 0, << >>)
<1>1. Done(d, who, 0) = {}
  BY DEF Done
<1>2. Cardinality({}) = 0 /\ Len(<< >>) = 0
  BY FS_EmptySet
<1> QED BY <1>1, <1>2, EmptySeq DEF Collected

LEMMA CollectedPass ==
    ASSUME NEW d, NEW who, NEW r \in Nat, NEW s,
           Collected(d, who, r, s), ~ Used(who, d, r)
    PROVE  Collected(d, who, r + 1, s)
<1>1. Done(d, who, r + 1) = Done(d, who, r)
  BY DEF Done
<1> QED BY <1>1 DEF Collected

LEMMA CollectedUse ==
    ASSUME NEW d, NEW who, NEW r \in Nat, NEW s,
           Collected(d, who, r, s), Used(who, d, r)
    PROVE  Collected(d, who, r + 1, Append(s, Yielded(who, d, r)))
<1> DEFINE S == Done(d, who, r)
           T == Done(d, who, r + 1)
           y == Yielded(who, d, r)
           V == Yields(d, who, T)
           t == Append(s, y)
<1>1. T = S \cup {r} /\ r \notin S /\ \A j \in S : j \in Nat /\ j < r
  BY DEF Done
<1>2. IsFiniteSet(S) /\ Cardinality(S) \in Nat /\ Cardinality(T) = Cardinality(S) + 1
  <2>1. IsFiniteSet(S) /\ Cardinality(S) \in Nat
    BY DoneFinite
  <2> HIDE DEF S, T
  <2> QED BY <1>1, <2>1, FS_AddElement
<1>3. s \in Seq(V) /\ y \in V
  <2>1. s \in Seq(Yields(d, who, S))
    BY DEF Collected
  <2>2. Yields(d, who, S) \subseteq V /\ y \in V
    <3> HIDE DEF S, T
    <3> QED BY <1>1 DEF Yields
  <2> HIDE DEF S, V, y
  <2> QED BY <2>1, <2>2, SeqMonotonic
<1>4. Len(s) = Cardinality(S)
  BY DEF Collected
<1> HIDE DEF V
<1>5. t \in Seq(V) /\ Len(t) = Len(s) + 1 /\ t[Len(s) + 1] = y
      /\ \A k \in 1 .. Len(s) : t[k] = s[k]
  <2> HIDE DEF y, S, T
  <2> QED BY <1>3
<1>6. \A i \in S : s[Cardinality(UpTo(S, i))] = Yielded(who, d, i)
  BY DEF Collected
<1>7. \A i \in T : t[Cardinality(UpTo(T, i))] = Yielded(who, d, i)
  <2> SUFFICES ASSUME NEW i \in T PROVE t[Cardinality(UpTo(T, i))] = Yielded(who, d, i)
    OBVIOUS
  <2> HIDE DEF S, T, y, t
  <2>1. CASE i = r
    <3>0. \A j \in T : j <= r
      BY <1>1
    <3>1. UpTo(T, i) = T
      BY <2>1, <3>0 DEF UpTo
    <3>2. t[Cardinality(T)] = y
      BY <1>2, <1>4, <1>5
    <3> QED BY <2>1, <3>1, <3>2 DEF y
  <2>2. CASE i \in S
    <3>1. UpTo(T, i) = UpTo(S, i)
      BY <1>1, <2>2 DEF UpTo
    <3>2. Cardinality(UpTo(S, i)) \in 1 .. Len(s)
      BY <1>1, <1>2, <1>4, <2>2, UpToIs
    <3>3. t[Cardinality(UpTo(S, i))] = s[Cardinality(UpTo(S, i))]
      BY <1>5, <3>2
    <3> QED BY <1>6, <2>2, <3>1, <3>3
  <2> QED BY <1>1, <2>1, <2>2
<1> QED BY <1>2, <1>4, <1>5, <1>7 DEF Collected, V

(***************************************************************************)
(* The inductive invariant.                                                *)
(***************************************************************************)
RowsTyped ==
    /\ IsSlice(whole)
    /\ cut \in Cuts /\ cut \in Nat
    /\ reader \in Readers /\ reader \in ReaderNames
    /\ answer \in {"reading", "ok", "truncated"}
    /\ row \in 0 .. MaxRecords
    /\ row <= RecordCount(page)

Finished == answer = "ok" => Parses(page) /\ row = RecordCount(page)

RowsInv == RowsTyped /\ Finished /\ Collected(page, reader, row, out)

LEMMA PageIs ==
    ASSUME IsSlice(whole), cut \in Nat
    PROVE  /\ page.len \in Nat /\ page.len <= whole.len
           /\ page = CutAt(whole, page.len)
           /\ IsSlice(page)
<1> DEFINE n == Min({cut, whole.len})
<1>1. whole.len \in Nat
  BY DEF IsSlice
<1>2. n \in Nat /\ n <= whole.len
  BY <1>1, MinOfTwo
<1>3. page = CutAt(whole, n)
  BY DEF page, CutAt
<1> HIDE DEF n
<1>4. page.len = n /\ IsSlice(page)
  BY <1>2, <1>3, CutIsSlice
<1> QED BY <1>2, <1>3, <1>4

LEMMA RowsInit == Init => RowsInv
<1> SUFFICES ASSUME Init PROVE RowsInv
  OBVIOUS
<1>1. /\ IsSlice(whole) /\ cut \in Cuts /\ cut \in Nat
      /\ reader \in Readers /\ reader \in ReaderNames
  BY RowsAssumption DEF Init, ReaderNames
<1>2. answer = "reading" /\ row = 0 /\ out = << >>
  BY DEF Init
<1>3. RecordCount(page) \in 0 .. MaxRecords
  BY <1>1, PageIs, RecordCountIs
<1>4. MaxRecords \in Nat
  BY DEF MaxRecords
<1>5. Collected(page, reader, row, out)
  BY <1>2, CollectedNone
<1> QED BY <1>1, <1>2, <1>3, <1>4, <1>5 DEF RowsInv, RowsTyped, Finished

LEMMA RowsStep == RowsInv /\ [Next]_vars => RowsInv'
<1> SUFFICES ASSUME RowsInv, [Next]_vars PROVE RowsInv'
  OBVIOUS
<1>1. IsSlice(whole) /\ cut \in Nat /\ row \in Nat
  BY DEF RowsInv, RowsTyped
<1>2. RecordCount(page) \in 0 .. MaxRecords
  BY <1>1, PageIs, RecordCountIs
<1>3. MaxRecords \in Nat
  BY DEF MaxRecords
<1>4. ASSUME UNCHANGED <<whole, cut>> PROVE page' = page
  BY <1>4 DEF page
<1>5. CASE RefusePage
  <2>1. page' = page
    BY <1>4, <1>5 DEF RefusePage
  <2> QED BY <1>5, <2>1 DEF RowsInv, RowsTyped, Finished, RefusePage
<1>6. CASE PassRow
  <2>1. page' = page
    BY <1>4, <1>6 DEF PassRow
  <2>2. /\ row < RecordCount(page) /\ answer = "reading"
        /\ row' = row + 1 /\ ~ Used(reader, page, row)
        /\ UNCHANGED <<whole, cut, reader, answer, out>>
    BY <1>6 DEF PassRow, AtRow
  <2>3. RowsTyped'
    BY <1>2, <1>3, <2>1, <2>2 DEF RowsInv, RowsTyped
  <2>4. Finished'
    BY <2>2 DEF Finished
  <2>5. Collected(page, reader, row + 1, out)
    BY <1>1, <2>2, CollectedPass DEF RowsInv
  <2> QED BY <2>1, <2>2, <2>3, <2>4, <2>5 DEF RowsInv
<1>7. CASE UseRow
  <2>1. page' = page
    BY <1>4, <1>7 DEF UseRow
  <2>2. /\ row < RecordCount(page) /\ answer = "reading"
        /\ row' = row + 1 /\ Used(reader, page, row)
        /\ out' = Append(out, Yielded(reader, page, row))
        /\ UNCHANGED <<whole, cut, reader, answer>>
    BY <1>7 DEF UseRow, AtRow
  <2>3. RowsTyped'
    BY <1>2, <1>3, <2>1, <2>2 DEF RowsInv, RowsTyped
  <2>4. Finished'
    BY <2>2 DEF Finished
  <2>5. Collected(page, reader, row + 1, Append(out, Yielded(reader, page, row)))
    BY <1>1, <2>2, CollectedUse DEF RowsInv
  <2> QED BY <2>1, <2>2, <2>3, <2>4, <2>5 DEF RowsInv
<1>8. CASE EndRows
  <2>1. page' = page
    BY <1>4, <1>8 DEF EndRows
  <2> QED BY <1>8, <2>1 DEF RowsInv, RowsTyped, Finished, EndRows
<1>9. CASE UNCHANGED vars
  <2>1. page' = page
    BY <1>4, <1>9 DEF vars
  <2> QED BY <1>9, <2>1 DEF RowsInv, RowsTyped, Finished, vars
<1> QED BY <1>5, <1>6, <1>7, <1>8, <1>9 DEF Next

LEMMA RowsInvHolds == Spec => []RowsInv
BY RowsInit, RowsStep, PTL DEF Spec

-----------------------------------------------------------------------------
(***************************************************************************)
(* What holds of every page, cut anywhere, for every reader.               *)
(***************************************************************************)

(***************************************************************************)
(* The loop stays within 4096 records (MAX_RECORDS, minstore.rs:60-64),    *)
(* yields at most one thing for a row, and everything it yields is of the  *)
(* reader's type: a name holds no surrogate, a directory has an            *)
(* identifier, only a file or directory has metadata.                      *)
(***************************************************************************)
LEMMA RowsAreTyped == RowsInv => TypeOK
<1> SUFFICES ASSUME RowsInv PROVE TypeOK
  OBVIOUS
<1>1. RowsTyped /\ Collected(page, reader, row, out)
  BY DEF RowsInv
<1>2. row \in Nat /\ IsSlice(page) /\ reader \in ReaderNames
  BY <1>1, PageIs DEF RowsTyped
<1>3. Len(out) <= row
  BY <1>1, <1>2, DoneFinite DEF Collected
<1>4. \A k \in DOMAIN out : IsYield(reader, out[k])
  <2> SUFFICES ASSUME NEW k \in DOMAIN out PROVE IsYield(reader, out[k])
    OBVIOUS
  <2>1. out \in Seq(Yields(page, reader, Done(page, reader, row)))
    BY <1>1 DEF Collected
  <2>2. out[k] \in Yields(page, reader, Done(page, reader, row))
    BY <2>1, LenProperties, ElementOfSeq
  <2>3. PICK i \in Done(page, reader, row) : out[k] = Yielded(reader, page, i)
    BY <2>2 DEF Yields
  <2>4. i \in Nat
    BY <1>2, <2>3 DEF Done
  <2> QED BY <1>2, <2>3, <2>4, YieldType
<1> QED BY <1>1, <1>3, <1>4 DEF TypeOK, RowsTyped

THEOREM RowsTypeCorrect == Spec => []TypeOK
BY RowsInvHolds, RowsAreTyped, PTL

(***************************************************************************)
(* A cut page reads as the whole one, less the rows that are not all there *)
(* (minstore.rs:132-135 and 166-196, directory.rs:402-421,                 *)
(* container.rs:133-151).                                                  *)
(***************************************************************************)
LEMMA KeptIsDone ==
    ASSUME NEW d, IsSlice(d), NEW n \in Nat, n <= d.len, Parses(CutAt(d, n)),
           NEW who \in ReaderNames
    PROVE  {i \in 0 .. RecordCount(d) - 1 : LiesIn(d, i, n) /\ Used(who, d, i)}
             = Done(CutAt(d, n), who, RecordCount(CutAt(d, n)))
<1> DEFINE c == CutAt(d, n)
           Kept == {i \in 0 .. RecordCount(d) - 1 : LiesIn(d, i, n) /\ Used(who, d, i)}
<1>1. IsSlice(c) /\ c.len = n /\ d.len \in Nat
  BY CutIsSlice DEF IsSlice
<1>2. RecordCount(d) \in Nat /\ RecordCount(c) \in Nat
  BY <1>1, RecordCountIs
<1>3. /\ U32(c, NodeHeader(c) + 20) = U32(d, NodeHeader(d) + 20)
      /\ \A i : Slot(c, i) = Slot(d, i)
  BY CutHeader
<1>4. \A i \in Nat : i < RecordCount(c) <=> i < RecordCount(d) /\ Slot(d, i) + 4 <= n
  <2> SUFFICES ASSUME NEW i \in Nat
               PROVE  i < RecordCount(c) <=> i < RecordCount(d) /\ Slot(d, i) + 4 <= n
    OBVIOUS
  <2>1. i < RecordCount(c) <=>
          /\ i < U32(c, NodeHeader(c) + 20) /\ Slot(c, i) + 4 <= c.len /\ i < MaxRecords
    BY <1>1, RecordCountIs
  <2>2. i < RecordCount(d) <=>
          /\ i < U32(d, NodeHeader(d) + 20) /\ Slot(d, i) + 4 <= d.len /\ i < MaxRecords
    BY RecordCountIs
  <2>3. Slot(d, i) \in Nat
    BY PlacesType
  <2>4. Slot(d, i) + 4 <= n => Slot(d, i) + 4 <= d.len
    BY <1>1, <2>3
  <2> HIDE DEF c
  <2> QED BY <1>1, <1>3, <2>1, <2>2, <2>4
<1>5. \A i \in Nat : Slot(d, i) + 4 <= n =>
        (Used(who, c, i) <=> LiesIn(d, i, n) /\ Used(who, d, i))
  BY CutUsed
<1>6. \A i : LiesIn(d, i, n) => Slot(d, i) + 4 <= n
  BY DEF LiesIn
<1> HIDE DEF c
<1>7. \A i : i \in Kept <=> i \in Nat /\ i < RecordCount(d) /\ LiesIn(d, i, n) /\ Used(who, d, i)
  BY <1>2
<1>8. \A i : i \in Done(c, who, RecordCount(c)) <=>
        i \in Nat /\ i < RecordCount(c) /\ Used(who, c, i)
  BY <1>2 DEF Done
<1>9. \A i : i \in Kept <=> i \in Done(c, who, RecordCount(c))
  BY <1>4, <1>5, <1>6, <1>7, <1>8
<1> QED BY <1>9 DEF c

LEMMA CutsRead == RowsInv => CutReadsSame
<1> SUFFICES ASSUME RowsInv, answer = "ok"
             PROVE  LET kept == {i \in 0 .. RecordCount(whole) - 1 :
                                    LiesIn(whole, i, page.len) /\ Used(reader, whole, i)}
                    IN  /\ Len(out) = Cardinality(kept)
                        /\ \A i \in kept :
                              out[Cardinality({j \in kept : j <= i})]
                                = Yielded(reader, whole, i)
  BY DEF CutReadsSame
<1>1. /\ IsSlice(whole) /\ cut \in Nat /\ reader \in ReaderNames
      /\ Parses(page) /\ row = RecordCount(page)
      /\ Collected(page, reader, row, out)
  BY DEF RowsInv, RowsTyped, Finished
<1>2. /\ page.len \in Nat /\ page.len <= whole.len
      /\ page = CutAt(whole, page.len) /\ IsSlice(page)
  BY <1>1, PageIs
<1> DEFINE kept == {i \in 0 .. RecordCount(whole) - 1 :
                       LiesIn(whole, i, page.len) /\ Used(reader, whole, i)}
<1>3. kept = Done(page, reader, row)
  BY <1>1, <1>2, KeptIsDone
<1>4. \A i \in kept : i \in Nat /\ Slot(whole, i) + 4 <= page.len /\ Used(reader, page, i)
  <2>1. RecordCount(whole) \in Nat
    BY <1>1, RecordCountIs
  <2>2. \A i \in kept : i \in Nat /\ Slot(whole, i) + 4 <= page.len
    BY <2>1 DEF LiesIn
  <2>3. \A i \in Done(page, reader, row) : Used(reader, page, i)
    BY DEF Done
  <2> HIDE DEF kept
  <2> QED BY <1>3, <2>2, <2>3
<1> HIDE DEF kept
<1>5. Len(out) = Cardinality(kept)
  BY <1>1, <1>3 DEF Collected
<1>6. \A i \in kept : Yielded(reader, page, i) = Yielded(reader, whole, i)
  BY <1>1, <1>2, <1>4, CutYields
<1>7. \A i \in kept : out[Cardinality(UpTo(kept, i))] = Yielded(reader, page, i)
  BY <1>1, <1>3 DEF Collected
<1>8. \A i \in kept :
        out[Cardinality({j \in kept : j <= i})] = Yielded(reader, whole, i)
  BY <1>6, <1>7 DEF UpTo
<1> QED BY <1>5, <1>8 DEF kept

THEOREM CutPagesReadTheSame == Spec => []CutReadsSame
BY RowsInvHolds, CutsRead, PTL

(***************************************************************************)
(* physical_base and cluster_count, two searches, answer from one record   *)
(* long enough for both (container.rs:133-168).                            *)
(***************************************************************************)
LEMMA OneRecordPlaces == RowsInv => PlacementIsOneRecord
<1> SUFFICES ASSUME RowsInv, answer = "ok", reader = "containers",
                    NEW band \in {out[k].band : k \in DOMAIN out}
             PROVE  \E i \in 0 .. RecordCount(page) - 1 :
                       /\ IsRow(page, i)
                       /\ ValueStart(page, i) + 160 <= ValueEnd(page, i)
                       /\ U64(page, ValueStart(page, i)) = band
                       /\ PhysicalBase(band) = {U64(page, ValueStart(page, i) + 144)}
                       /\ ClusterCount(band) = {U64(page, ValueStart(page, i) + 152)}
  BY DEF PlacementIsOneRecord
<1>1. /\ IsSlice(whole) /\ cut \in Nat /\ row = RecordCount(page)
      /\ Collected(page, reader, row, out)
  BY DEF RowsInv, RowsTyped, Finished
<1>2. IsSlice(page)
  BY <1>1, PageIs
<1>3. out \in Seq(Yields(page, reader, Done(page, reader, row)))
  BY <1>1 DEF Collected
<1>4. DOMAIN out = 1 .. Len(out) /\ Len(out) \in Nat
  BY <1>3, LenProperties
<1>5. PICK k \in DOMAIN out :
        /\ out[k].band = band
        /\ \A j \in DOMAIN out : out[j].band = band => k <= j
  <2> DEFINE S == {j \in DOMAIN out : out[j].band = band}
  <2>1. S \in SUBSET Nat /\ S # {}
    BY <1>4
  <2>2. PICK k \in S : \A j \in S : k <= j
    <3> HIDE DEF S
    <3> QED BY <2>1, LeastExists
  <2> QED BY <2>2
<1>6. FirstOf(band) = {k}
  <2>1. \A j \in 1 .. k - 1 : out[j].band # band
    BY <1>4, <1>5
  <2>2. ASSUME NEW j \in DOMAIN out, out[j].band = band,
               \A h \in 1 .. j - 1 : out[h].band # band
        PROVE  j = k
    <3>1. k <= j
      BY <1>5, <2>2
    <3>2. ~ (k \in 1 .. j - 1)
      BY <1>5, <2>2
    <3> QED BY <1>4, <3>1, <3>2
  <2> QED BY <1>5, <2>1, <2>2 DEF FirstOf
<1>7. out[k] \in Yields(page, reader, Done(page, reader, row))
  BY <1>3, <1>4, ElementOfSeq
<1>8. PICK i \in Done(page, reader, row) : out[k] = Yielded("containers", page, i)
  BY <1>7 DEF Yields
<1>9. i \in 0 .. RecordCount(page) - 1 /\ Used("containers", page, i)
  BY <1>1, <1>8 DEF Done
<1>10. IsRow(page, i) /\ ValueStart(page, i) + 160 <= ValueEnd(page, i)
  BY <1>9, UsedIs DEF ValueHas
<1>11. out[k] = ContainerOf(page, i)
  BY <1>8, YieldedIs
<1>12. ValueStart(page, i) \in Nat /\ ValueEnd(page, i) \in Nat
  <2>1. i \in Nat
    BY <1>9
  <2> QED BY <1>2, <2>1, PlacesType
<1>13. /\ ValueU64(page, i, 0) = U64(page, ValueStart(page, i))
       /\ ValueU64(page, i, 144) = U64(page, ValueStart(page, i) + 144)
       /\ ValueU64(page, i, 152) = U64(page, ValueStart(page, i) + 152)
  <2>1. ValueStart(page, i) + 0 = ValueStart(page, i)
    BY <1>12
  <2> QED BY <1>10, <1>12, <2>1 DEF ValueU64, Within
<1>14. /\ out[k].band = U64(page, ValueStart(page, i))
       /\ out[k].lcn = U64(page, ValueStart(page, i) + 144)
       /\ out[k].count = U64(page, ValueStart(page, i) + 152)
  BY <1>11, <1>13 DEF ContainerOf
<1>15. PhysicalBase(band) = {out[k].lcn} /\ ClusterCount(band) = {out[k].count}
  BY <1>6 DEF PhysicalBase, ClusterCount
<1> QED BY <1>5, <1>9, <1>10, <1>14, <1>15

THEOREM BandsArePlacedByOneRecord == Spec => []PlacementIsOneRecord
BY RowsInvHolds, OneRecordPlaces, PTL

(***************************************************************************)
(* Decoding a name loses it only where U+FFFD shows that it did            *)
(* (decode_utf16le, directory.rs:164-175).                                 *)
(***************************************************************************)
LEMMA NamesTell == RowsInv => NamesCollideVisibly
<1> SUFFICES ASSUME RowsInv,
                    NEW i \in 0 .. RecordCount(page) - 1,
                    NEW j \in 0 .. RecordCount(page) - 1,
                    EntryOf(page, i).name = EntryOf(page, j).name,
                    NameUnits(page, i) # NameUnits(page, j)
             PROVE  \E k \in DOMAIN EntryOf(page, i).name :
                       EntryOf(page, i).name[k] = Replacement
  BY DEF NamesCollideVisibly
<1>1. IsSlice(page) /\ i \in Nat /\ j \in Nat
  <2>1. IsSlice(page)
    BY PageIs DEF RowsInv, RowsTyped
  <2> QED BY <2>1
<1>2. NameUnits(page, i) \in Seq(Units) /\ NameUnits(page, j) \in Seq(Units)
  BY <1>1, NameUnitsType
<1>3. /\ EntryOf(page, i).name = Decode(NameUnits(page, i))
      /\ EntryOf(page, j).name = Decode(NameUnits(page, j))
  BY EntryIs
<1>4. ~ NoReplacement(Decode(NameUnits(page, i)))
  BY <1>2, <1>3, DecodeTells
<1> QED BY <1>3, <1>4 DEF NoReplacement

THEOREM LostNamesShow == Spec => []NamesCollideVisibly
BY RowsInvHolds, NamesTell, PTL
=============================================================================
