-------------------------- MODULE MsiRewriteProofs --------------------------
(***************************************************************************)
(* What is proved of MsiRewrite, for every set of installers and all       *)
(* limits: rewrite_msi_payload checks an installer completely before it     *)
(* signs, keeps its limits, touches nothing but signatures, and leaves a   *)
(* sound installer.                                                        *)
(***************************************************************************)
EXTENDS MsiRewrite, FiniteSetTheorems, WellFoundedInduction, SequenceTheorems, TLAPS

-----------------------------------------------------------------------------
\* Sums of natural numbers, as the number of their units.

\* A function with finitely many natural numbers for values.
Summable(f) == IsFiniteSet(DOMAIN f) /\ \A k \in DOMAIN f : f[k] \in Nat

\* A unit of f is a place and a number up to what f has there.
LEMMA UnitsOf ==
  ASSUME NEW f, NEW k, NEW u
  PROVE  <<k, u>> \in Units(f) <=> k \in DOMAIN f /\ u \in 1 .. f[k]
  BY DEF Units

\* Every unit is a pair.
LEMMA UnitsPairs ==
  ASSUME NEW f, NEW x \in Units(f)
  PROVE  \E k \in DOMAIN f, u \in Int : u \in 1 .. f[k] /\ x = <<k, u>>
  BY DEF Units

\* The units of finitely many numbers are finitely many.
LEMMA UnitsFinite ==
  ASSUME NEW f, Summable(f)
  PROVE  IsFiniteSet(Units(f))
<1> DEFINE column(k) == {k} \X (1 .. f[k])
           columns == {column(k) : k \in DOMAIN f}
           make == [k \in DOMAIN f |-> column(k)]
<1>1. make \in Surjection(DOMAIN f, columns)
  BY DEF Surjection
<1>2. IsFiniteSet(columns)
  BY <1>1, FS_Surjection DEF Summable
<1>3. ASSUME NEW c \in columns PROVE IsFiniteSet(c)
  <2>1. PICK k \in DOMAIN f : c = {k} \X (1 .. f[k])
    BY <1>3
  <2>2. f[k] \in Nat
    BY <2>1 DEF Summable
  <2>3. IsFiniteSet(1 .. f[k])
    BY <2>2, FS_Interval
  <2>4. IsFiniteSet({k})
    BY FS_Singleton
  <2> QED
    BY <2>1, <2>3, <2>4, FS_Product
<1>4. IsFiniteSet(UNION columns)
  BY <1>2, <1>3, FS_UNION
<1> QED
  BY <1>4 DEF Units

\* Their total is a number.
LEMMA TotalNat ==
  ASSUME NEW f, Summable(f)
  PROVE  Total(f) \in Nat
  BY UnitsFinite, FS_CardinalityType DEF Total

\* The total of no numbers is zero.
LEMMA TotalNone ==
  ASSUME NEW f, DOMAIN f = {}
  PROVE  Total(f) = 0
<1>1. Units(f) = {}
  BY DEF Units
<1> QED
  BY <1>1, FS_EmptySet DEF Total

\* A sum does not decrease when a value grows or one is added.
LEMMA TotalGrows ==
  ASSUME NEW f, NEW g, Summable(f), Summable(g), DOMAIN f \subseteq DOMAIN g,
         \A k \in DOMAIN f : f[k] <= g[k]
  PROVE  Total(f) <= Total(g)
<1>1. ASSUME NEW x \in Units(f) PROVE x \in Units(g)
  <2>1. PICK k \in DOMAIN f, u \in Int : u \in 1 .. f[k] /\ x = <<k, u>>
    BY UnitsPairs
  <2>2. k \in DOMAIN g /\ f[k] \in Nat /\ g[k] \in Nat /\ f[k] <= g[k]
    BY <2>1 DEF Summable
  <2>3. u \in 1 .. g[k]
    BY <2>1, <2>2
  <2> QED
    BY <2>1, <2>2, <2>3, UnitsOf
<1>2. Units(f) \in SUBSET Units(g)
  BY <1>1
<1> QED
  BY <1>2, UnitsFinite, FS_Subset DEF Total

\* One more value.
LEMMA TotalAdds ==
  ASSUME NEW f, NEW g, NEW x, Summable(f), Summable(g),
         x \notin DOMAIN f, DOMAIN g = DOMAIN f \cup {x}, \A k \in DOMAIN f : g[k] = f[k]
  PROVE  Total(g) = Total(f) + g[x]
<1> DEFINE column == {x} \X (1 .. g[x])
<1>1. g[x] \in Nat
  BY DEF Summable
<1>2. IsFiniteSet(column) /\ Cardinality(column) = g[x]
  <2>1. IsFiniteSet(1 .. g[x]) /\ Cardinality(1 .. g[x]) = g[x]
    BY <1>1, FS_Interval
  <2>2. IsFiniteSet({x}) /\ Cardinality({x}) = 1
    BY FS_Singleton
  <2> QED
    BY <1>1, <2>1, <2>2, FS_Product
<1>3. Units(g) = Units(f) \cup column
  <2>1. ASSUME NEW y \in Units(g) PROVE y \in Units(f) \cup column
    <3>1. PICK k \in DOMAIN g, u \in Int : u \in 1 .. g[k] /\ y = <<k, u>>
      BY UnitsPairs
    <3>2. CASE k = x
      BY <3>1, <3>2
    <3>3. CASE k # x
      BY <3>1, <3>3, UnitsOf
    <3> QED
      BY <3>2, <3>3
  <2>2. ASSUME NEW y \in Units(f) PROVE y \in Units(g)
    <3>1. PICK k \in DOMAIN f, u \in Int : u \in 1 .. f[k] /\ y = <<k, u>>
      BY UnitsPairs
    <3> QED
      BY <3>1, UnitsOf
  <2>3. ASSUME NEW y \in column PROVE y \in Units(g)
    <3>1. PICK u \in 1 .. g[x] : y = <<x, u>>
      BY <2>3
    <3> QED
      BY <3>1, UnitsOf
  <2> QED
    BY <2>1, <2>2, <2>3
<1>4. Units(f) \cap column = {}
  <2> SUFFICES ASSUME NEW y \in Units(f), y \in column PROVE FALSE
    OBVIOUS
  <2>1. PICK k \in DOMAIN f, u \in Int : u \in 1 .. f[k] /\ y = <<k, u>>
    BY UnitsPairs
  <2> QED
    BY <2>1
<1>5. Cardinality(Units(f) \cap column) = 0
  BY <1>4, FS_EmptySet
<1>6. Total(f) \in Nat
  BY TotalNat
<1>7. Cardinality(Units(f) \cup column)
        = Cardinality(Units(f)) + Cardinality(column) - Cardinality(Units(f) \cap column)
  <2> HIDE DEF column
  <2> QED BY <1>2, UnitsFinite, FS_Union
<1> HIDE DEF column
<1> QED
  BY <1>1, <1>2, <1>3, <1>5, <1>6, <1>7 DEF Total

\* One value changes.
LEMMA TotalChanges ==
  ASSUME NEW f, NEW g, NEW x \in DOMAIN f, Summable(f), Summable(g),
         DOMAIN g = DOMAIN f, \A k \in DOMAIN f : k # x => g[k] = f[k]
  PROVE  Total(g) = Total(f) - f[x] + g[x]
<1> DEFINE h == [k \in DOMAIN f \ {x} |-> f[k]]
<1>1. Summable(h)
  BY FS_RemoveElement DEF Summable
<1>2. Total(f) = Total(h) + f[x]
  <2>1. x \notin DOMAIN h /\ DOMAIN f = DOMAIN h \cup {x} /\ \A k \in DOMAIN h : f[k] = h[k]
    OBVIOUS
  <2> HIDE DEF h
  <2> QED BY <1>1, <2>1, TotalAdds
<1>3. Total(g) = Total(h) + g[x]
  <2>1. x \notin DOMAIN h /\ DOMAIN g = DOMAIN h \cup {x} /\ \A k \in DOMAIN h : g[k] = h[k]
    OBVIOUS
  <2> HIDE DEF h
  <2> QED BY <1>1, <2>1, TotalAdds
<1>4. Total(h) \in Nat /\ f[x] \in Nat /\ g[x] \in Nat
  BY <1>1, TotalNat DEF Summable
<1> HIDE DEF h
<1> QED
  BY <1>2, <1>3, <1>4

\* The same values in the same places.
LEMMA TotalSame ==
  ASSUME NEW f, NEW g, DOMAIN f = DOMAIN g, \A k \in DOMAIN f : f[k] = g[k]
  PROVE  Total(f) = Total(g)
<1>1. Units(f) = Units(g)
  <2>1. ASSUME NEW y \in Units(f) PROVE y \in Units(g)
    BY UnitsPairs, UnitsOf
  <2>2. ASSUME NEW y \in Units(g) PROVE y \in Units(f)
    BY UnitsPairs, UnitsOf
  <2> QED BY <2>1, <2>2
<1> QED
  BY <1>1 DEF Total

\* h has the values of f and then those of g.
Follows(f, g, h, m, n) ==
  /\ DOMAIN f = 1 .. m /\ DOMAIN g = 1 .. n /\ DOMAIN h = 1 .. m + n
  /\ \A k \in 1 .. m : f[k] \in Nat /\ h[k] = f[k]
  /\ \A k \in 1 .. n : g[k] \in Nat /\ h[m + k] = g[k]

\* The values of one sequence after those of another.
LEMMA TotalConcat ==
  ASSUME NEW m \in Nat, NEW n \in Nat, NEW f, NEW g, NEW h, Follows(f, g, h, m, n)
  PROVE  Total(h) = Total(f) + Total(g)
<1> USE DEF Follows
<1> DEFINE shift(y) == <<m + y[1], y[2]>>
           moved == {shift(y) : y \in Units(g)}
           move == [y \in Units(g) |-> shift(y)]
<1>1. Summable(f) /\ Summable(g)
  <2>1. IsFiniteSet(1 .. m)
    BY FS_Interval
  <2>2. IsFiniteSet(1 .. n)
    BY FS_Interval
  <2> QED BY <2>1, <2>2 DEF Summable
<1>2. move \in Bijection(Units(g), moved)
  <2>1. move \in Surjection(Units(g), moved)
    BY DEF Surjection
  <2>2. ASSUME NEW y \in Units(g), NEW z \in Units(g), shift(y) = shift(z) PROVE y = z
    <3>1. PICK k \in 1 .. n, u \in Int : u \in 1 .. g[k] /\ y = <<k, u>>
      BY UnitsPairs
    <3>2. PICK l \in 1 .. n, v \in Int : v \in 1 .. g[l] /\ z = <<l, v>>
      BY UnitsPairs
    <3>3. m + k = m + l /\ u = v
      BY <2>2, <3>1, <3>2
    <3> QED
      BY <3>1, <3>2, <3>3
  <2> QED
    BY <2>1, <2>2 DEF Bijection, Injection, Surjection, IsInjective
<1>3. IsFiniteSet(moved) /\ Cardinality(moved) = Total(g)
  <2>1. ExistsBijection(Units(g), moved)
    BY <1>2 DEF ExistsBijection
  <2> QED
    BY <1>1, <2>1, UnitsFinite, FS_Bijection DEF Total
<1>4. Units(h) = Units(f) \cup moved
  <2>1. ASSUME NEW y \in Units(h) PROVE y \in Units(f) \cup moved
    <3>1. PICK k \in 1 .. m + n, u \in Int : u \in 1 .. h[k] /\ y = <<k, u>>
      BY UnitsPairs
    <3>2. CASE k <= m
      <4>1. k \in 1 .. m /\ u \in 1 .. f[k]
        BY <3>1, <3>2
      <4> QED BY <3>1, <4>1, UnitsOf
    <3>3. CASE k > m
      <4>1. k - m \in 1 .. n /\ k = m + (k - m)
        BY <3>1, <3>3
      <4>2. u \in 1 .. g[k - m]
        BY <3>1, <4>1
      <4>3. <<k - m, u>> \in Units(g)
        BY <4>1, <4>2, UnitsOf
      <4>4. shift(<<k - m, u>>) = y
        BY <3>1, <4>1
      <4> QED
        BY <4>3, <4>4
    <3> QED
      BY <3>1, <3>2, <3>3
  <2>2. ASSUME NEW y \in Units(f) PROVE y \in Units(h)
    <3>1. PICK k \in 1 .. m, u \in Int : u \in 1 .. f[k] /\ y = <<k, u>>
      BY UnitsPairs
    <3>2. k \in 1 .. m + n
      BY <3>1
    <3> QED
      BY <3>1, <3>2, UnitsOf
  <2>3. ASSUME NEW y \in Units(g) PROVE shift(y) \in Units(h)
    <3>1. PICK k \in 1 .. n, u \in Int : u \in 1 .. g[k] /\ y = <<k, u>>
      BY UnitsPairs
    <3>2. m + k \in 1 .. m + n /\ u \in 1 .. h[m + k]
      BY <3>1
    <3> QED
      BY <3>1, <3>2, UnitsOf
  <2> QED
    BY <2>1, <2>2, <2>3
<1>5. Units(f) \cap moved = {}
  <2> SUFFICES ASSUME NEW y \in Units(f), NEW z \in Units(g), y = shift(z) PROVE FALSE
    OBVIOUS
  <2>1. PICK k \in 1 .. m, u \in Int : u \in 1 .. f[k] /\ y = <<k, u>>
    BY SMTT(60), UnitsPairs
  <2>2. PICK l \in 1 .. n, v \in Int : v \in 1 .. g[l] /\ z = <<l, v>>
    BY UnitsPairs
  <2>3. k = m + l
    BY <2>1, <2>2
  <2> QED
    BY <2>1, <2>2, <2>3
<1>6. Cardinality(Units(f) \cap moved) = 0
  BY <1>5, FS_EmptySet
<1>7. Total(f) \in Nat /\ Total(g) \in Nat
  BY <1>1, TotalNat
<1> HIDE DEF moved
<1>8. Cardinality(Units(f) \cup moved)
        = Cardinality(Units(f)) + Cardinality(moved) - Cardinality(Units(f) \cap moved)
  BY <1>1, <1>3, UnitsFinite, FS_Union
<1> QED
  BY <1>3, <1>4, <1>6, <1>7, <1>8 DEF Total

\* A set of natural numbers has a least element.
LEMMA LeastNatural ==
  ASSUME NEW S \in SUBSET Nat, S # {}
  PROVE  \E x \in S : \A y \in S : x <= y
<1>1. IsWellFoundedOn(OpToRel(<, Nat), Nat)
  BY NatLessThanWellFounded, Zenon
<1>2. \E x \in S : \A y \in S : ~(<<y, x>> \in OpToRel(<, Nat))
  BY <1>1, WFMin, Zenon
<1>3. \A x \in S, y \in S : ~(<<y, x>> \in OpToRel(<, Nat)) => x <= y
  BY DEF OpToRel
<1> QED
  BY <1>2, <1>3

\* Rows that are in order two by two are in order.
LEMMA Ordered ==
  ASSUME NEW n \in Nat, NEW f, \A i \in 1 .. n : f[i] \in Int,
         \A i \in 2 .. n : f[i - 1] <= f[i]
  PROVE  \A i \in 1 .. n, k \in 1 .. n : k <= i => f[k] <= f[i]
<1> DEFINE Bad == {i \in 1 .. n : \E k \in 1 .. n : k <= i /\ ~(f[k] <= f[i])}
<1>1. CASE Bad = {}
  BY <1>1
<1>2. CASE Bad # {}
  <2>1. Bad \in SUBSET Nat
    OBVIOUS
  <2>2. PICK i \in Bad : \A y \in Bad : i <= y
    BY <1>2, <2>1, LeastNatural
  <2>3. PICK k \in 1 .. n : k <= i /\ ~(f[k] <= f[i])
    BY <2>2
  <2>4. i \in 2 .. n /\ k <= i - 1 /\ i - 1 \in 1 .. n
    BY <2>2, <2>3
  <2>5. i - 1 \notin Bad
    BY <2>2, <2>4
  <2>6. f[k] <= f[i - 1]
    BY <2>3, <2>4, <2>5
  <2> QED
    BY <2>3, <2>4, <2>6
<1> QED
  BY <1>1, <1>2

\* The cabinet of a Media row, its members, and the place of its first one among
\* the payloads of all cabinets.
Cabinet(p, i) == p.streams[p.media[i].cabinet]
MembersOf(p, i) == Cabinet(p, i).members
Start(p, i) == Total([k \in 1 .. i - 1 |-> Len(MembersOf(p, k))])

\* The cabinets before the i-th are in the package.
KnownTo(p, i) == \A k \in 1 .. i - 1 : p.media[k].cabinet \in DOMAIN p.streams

\* What is known of any sequence.
LEMMA SeqFacts ==
  ASSUME NEW S, NEW s \in Seq(S)
  PROVE  Len(s) \in Nat /\ DOMAIN s = 1 .. Len(s) /\ \A k \in 1 .. Len(s) : s[k] \in S
  BY LenProperties

\* A function on the first n numbers with values in S is a sequence over S.
LEMMA FunctionSeq ==
  ASSUME NEW S, NEW n \in Nat, NEW f, DOMAIN f = 1 .. n, f = [k \in 1 .. n |-> f[k]],
         \A k \in 1 .. n : f[k] \in S
  PROVE  f \in Seq(S) /\ Len(f) = n
<1>1. f \in [1 .. n -> S]
  OBVIOUS
<1>2. f \in Seq(S)
  BY <1>1, SeqDef
<1>3. Len(f) \in Nat /\ DOMAIN f = 1 .. Len(f)
  BY <1>2, SeqFacts
<1>4. ASSUME NEW m \in Nat, 1 .. m = 1 .. n PROVE m = n
  <2>1. CASE m = 0
    <3>1. n # 0 => n \in 1 .. n
      OBVIOUS
    <3> QED BY <1>4, <2>1, <3>1
  <2>2. CASE m # 0
    <3>1. m \in 1 .. m
      BY <2>2
    <3>2. m \in 1 .. n /\ n \in 1 .. n
      BY <1>4, <3>1
    <3> QED BY <1>4, <3>2
  <2> QED BY <2>1, <2>2
<1> QED
  BY <1>2, <1>3, <1>4

\* What is known of two sequences put together.
LEMMA ConcatFacts ==
  ASSUME NEW S, NEW s \in Seq(S), NEW t \in Seq(S)
  PROVE  /\ s \o t \in Seq(S) /\ Len(s \o t) = Len(s) + Len(t)
         /\ \A k \in 1 .. Len(s) : (s \o t)[k] = s[k]
         /\ \A k \in 1 .. Len(t) : (s \o t)[Len(s) + k] = t[k]
<1>1. Len(s) \in Nat /\ Len(t) \in Nat
  BY SeqFacts
<1>2. s \o t \in Seq(S) /\ Len(s \o t) = Len(s) + Len(t)
  OBVIOUS
<1>3. \A k \in 1 .. Len(s) + Len(t) : (s \o t)[k] = IF k <= Len(s) THEN s[k] ELSE t[k - Len(s)]
  OBVIOUS
<1>4. ASSUME NEW k \in 1 .. Len(t) PROVE (s \o t)[Len(s) + k] = t[k]
  <2>1. Len(s) + k \in 1 .. Len(s) + Len(t) /\ ~(Len(s) + k <= Len(s)) /\ Len(s) + k - Len(s) = k
    BY <1>1
  <2> QED BY <1>3, <2>1
<1>5. ASSUME NEW k \in 1 .. Len(s) PROVE (s \o t)[k] = s[k]
  <2>1. k \in 1 .. Len(s) + Len(t) /\ k <= Len(s)
    BY <1>1
  <2> QED BY <1>3, <2>1
<1> QED BY <1>2, <1>4, <1>5

\* The Media rows of a package.
LEMMA PackageMedia ==
  ASSUME NEW p, IsPackage(p)
  PROVE  /\ Len(p.media) \in Nat /\ DOMAIN p.media = 1 .. Len(p.media)
         /\ \A i \in 1 .. Len(p.media) :
              /\ p.media[i].cabinet \in STRING /\ p.media[i].last \in Int
              /\ p.media[i].embedded \in BOOLEAN
<1> DEFINE R == [cabinet: STRING, last: Int, embedded: BOOLEAN]
<1>1. p.media \in Seq(R)
  BY DEF IsPackage
<1>2. \A x \in R : x.cabinet \in STRING /\ x.last \in Int /\ x.embedded \in BOOLEAN
  OBVIOUS
<1> HIDE DEF R
<1> QED
  BY <1>1, <1>2, SeqFacts

\* The cabinet of a Media row and its members.
LEMMA PackageCabinet ==
  ASSUME NEW p, IsPackage(p), NEW i \in 1 .. Len(p.media), p.media[i].cabinet \in DOMAIN p.streams
  PROVE  /\ Cabinet(p, i) \in CabinetStream
         /\ MembersOf(p, i) \in Seq(CabinetMember)
         /\ Len(MembersOf(p, i)) \in Nat /\ DOMAIN MembersOf(p, i) = 1 .. Len(MembersOf(p, i))
         /\ \A j \in 1 .. Len(MembersOf(p, i)) :
              /\ MembersOf(p, i)[j] \in CabinetMember
              /\ MembersOf(p, i)[j].payload \in PayloadFiles
              /\ MembersOf(p, i)[j].size \in Nat
<1>1. \A c \in DOMAIN p.streams : p.streams[c] \in CabinetStream
  BY DEF IsPackage
<1>2. Cabinet(p, i) \in CabinetStream
  BY <1>1 DEF Cabinet
<1>3. MembersOf(p, i) \in Seq(CabinetMember)
  BY <1>2 DEF MembersOf, CabinetStream
<1>4. \A x \in CabinetMember : x.payload \in PayloadFiles /\ x.size \in Nat
  BY DEF CabinetMember
<1> QED
  BY <1>2, <1>3, <1>4, SeqFacts

\* The File rows of a package.
LEMMA PackageFile ==
  ASSUME NEW p, IsPackage(p)
  PROVE  /\ Len(p.file) \in Nat /\ DOMAIN p.file = 1 .. Len(p.file)
         /\ \A r \in 1 .. Len(p.file) :
              /\ p.file[r] \in [id: STRING, size: Int, sequence: Int, attributes: SUBSET STRING,
                                version: BOOLEAN]
              /\ p.file[r].sequence \in Int /\ p.file[r].size \in Int
<1> DEFINE R == [id: STRING, size: Int, sequence: Int, attributes: SUBSET STRING, version: BOOLEAN]
<1>1. p.file \in Seq(R)
  BY DEF IsPackage
<1>2. \A x \in R : x.sequence \in Int /\ x.size \in Int
  OBVIOUS
<1>3. Len(p.file) \in Nat /\ DOMAIN p.file = 1 .. Len(p.file) /\ \A r \in 1 .. Len(p.file) : p.file[r] \in R
  <2> HIDE DEF R
  <2> QED BY <1>1, SeqFacts
<1> QED
  BY <1>2, <1>3

\* The MsiFileHash rows of a package.
LEMMA PackageHash ==
  ASSUME NEW p, IsPackage(p)
  PROVE  /\ Len(p.hash) \in Nat /\ DOMAIN p.hash = 1 .. Len(p.hash)
         /\ \A r \in 1 .. Len(p.hash) :
              p.hash[r] \in [id: STRING, options: Int, of: PayloadFiles]
<1> DEFINE R == [id: STRING, options: Int, of: PayloadFiles]
<1>1. p.hash \in Seq(R)
  BY DEF IsPackage
<1>2. Len(p.hash) \in Nat /\ DOMAIN p.hash = 1 .. Len(p.hash) /\ \A r \in 1 .. Len(p.hash) : p.hash[r] \in R
  <2> HIDE DEF R
  <2> QED BY <1>1, SeqFacts
<1> QED
  BY <1>2

\* The Binary rows of a package.
LEMMA PackageBinary ==
  ASSUME NEW p, IsPackage(p)
  PROVE  /\ Len(p.binary) \in Nat /\ DOMAIN p.binary = 1 .. Len(p.binary)
         /\ \A b \in 1 .. Len(p.binary) :
              p.binary[b] \in [name: STRING, payload: PayloadFiles]
              /\ p.binary[b].payload \in PayloadFiles
<1> DEFINE R == [name: STRING, payload: PayloadFiles]
<1>1. p.binary \in Seq(R)
  BY DEF IsPackage
<1>2. \A x \in R : x \in [name: STRING, payload: PayloadFiles] /\ x.payload \in PayloadFiles
  OBVIOUS
<1> HIDE DEF R
<1> QED
  BY <1>1, <1>2, SeqFacts

-----------------------------------------------------------------------------
\* Places in the workspace.

\* The numbers of members of the cabinets before the i-th can be added up.
LEMMA LengthsSummable ==
  ASSUME NEW p, IsPackage(p), NEW i \in 1 .. Len(p.media) + 1, KnownTo(p, i)
  PROVE  Summable([k \in 1 .. i - 1 |-> Len(MembersOf(p, k))])
<1>1. Len(p.media) \in Nat
  BY PackageMedia
<1>2. i - 1 \in Int
  BY <1>1
<1>3. IsFiniteSet(1 .. i - 1)
  BY <1>2, FS_Interval
<1>4. ASSUME NEW k \in 1 .. i - 1 PROVE Len(MembersOf(p, k)) \in Nat
  <2>1. k \in 1 .. Len(p.media) /\ p.media[k].cabinet \in DOMAIN p.streams
    BY <1>1, <1>4 DEF KnownTo
  <2> QED BY <2>1, PackageCabinet
<1> QED
  BY <1>3, <1>4 DEF Summable

\* The place at which the payloads of a cabinet begin is a number,
LEMMA StartNat ==
  ASSUME NEW p, IsPackage(p), NEW i \in 1 .. Len(p.media) + 1, KnownTo(p, i)
  PROVE  Start(p, i) \in Nat
  BY LengthsSummable, TotalNat DEF Start

\* the first cabinet begins at the beginning,
LEMMA StartFirst ==
  ASSUME NEW p
  PROVE  Start(p, 1) = 0
<1>1. DOMAIN [k \in 1 .. 1 - 1 |-> Len(MembersOf(p, k))] = {}
  OBVIOUS
<1> QED
  BY <1>1, TotalNone DEF Start

\* the next one begins where this one ends,
LEMMA StartNext ==
  ASSUME NEW p, IsPackage(p), NEW i \in 1 .. Len(p.media), KnownTo(p, i + 1)
  PROVE  Start(p, i + 1) = Start(p, i) + Len(MembersOf(p, i))
<1> DEFINE f == [k \in 1 .. i - 1 |-> Len(MembersOf(p, k))]
           g == [k \in 1 .. (i + 1) - 1 |-> Len(MembersOf(p, k))]
<1>1. Len(p.media) \in Nat
  BY PackageMedia
<1>2. i \in 1 .. Len(p.media) + 1 /\ i + 1 \in 1 .. Len(p.media) + 1 /\ KnownTo(p, i)
  BY <1>1 DEF KnownTo
<1>3. Summable(f) /\ Summable(g)
  BY <1>2, LengthsSummable
<1>4. i \notin DOMAIN f /\ DOMAIN g = DOMAIN f \cup {i} /\ \A k \in DOMAIN f : g[k] = f[k]
  BY <1>1
<1>5. Total(g) = Total(f) + g[i]
  <2> HIDE DEF f, g
  <2> QED BY <1>3, <1>4, TotalAdds
<1>6. g[i] = Len(MembersOf(p, i))
  BY <1>1
<1> QED
  BY <1>5, <1>6 DEF Start

\* and every later one begins behind this one.
LEMMA StartGrows ==
  ASSUME NEW p, IsPackage(p), NEW i \in 1 .. Len(p.media) + 1, NEW k \in 1 .. Len(p.media) + 1,
         i < k, KnownTo(p, k)
  PROVE  Start(p, i) + Len(MembersOf(p, i)) <= Start(p, k)
<1> DEFINE f == [l \in 1 .. (i + 1) - 1 |-> Len(MembersOf(p, l))]
           g == [l \in 1 .. k - 1 |-> Len(MembersOf(p, l))]
<1>1. Len(p.media) \in Nat
  BY PackageMedia
<1>2. i + 1 \in 1 .. Len(p.media) + 1 /\ KnownTo(p, i + 1) /\ i \in 1 .. Len(p.media)
  BY <1>1 DEF KnownTo
<1>3. Summable(f) /\ Summable(g)
  BY <1>2, LengthsSummable
<1>4. DOMAIN f \subseteq DOMAIN g /\ \A l \in DOMAIN f : f[l] <= g[l]
  <2>1. DOMAIN f \subseteq DOMAIN g
    BY <1>1, <1>2
  <2>2. ASSUME NEW l \in DOMAIN f PROVE f[l] = g[l] /\ f[l] \in Nat
    BY <1>3, <2>1 DEF Summable
  <2> HIDE DEF f, g
  <2>3. ASSUME NEW l \in DOMAIN f PROVE f[l] <= g[l]
    BY <2>2
  <2> QED BY <2>1, <2>3
<1>5. Total(f) <= Total(g)
  <2> HIDE DEF f, g
  <2> QED BY <1>3, <1>4, TotalGrows
<1>6. Start(p, i + 1) <= Start(p, k)
  BY <1>5 DEF Start
<1> QED
  BY <1>2, <1>6, StartNext

\* How many cabinets and Binary rows there are.
Cabs == Len(original.media)
Bins == Len(original.binary)

\* The payloads as they came, and their places in the workspace.
OldPayload(i, j) == MembersOf(original, i)[j].payload
Place(i, j) == Start(original, i) + j
BinaryPlace(b) == Start(original, Cabs + 1) + b

\* The place of the next payload to be signed.
Cursor == IF step = "sign" THEN Start(original, at[1]) + at[2] ELSE 1

\* What becomes of a payload, and what a payload is by now at a place.
Treated(q) == IF Unsigned(q) THEN Signed(q) ELSE q
Now(k, q) == IF k < Cursor THEN Treated(q) ELSE q

\* The cabinets whose members have been read, and the ones that must be rebuilt.
Read(i) == step \in {"binaries", "sign"} \/ (step = "cabinets" /\ i < at[1])
Changed(i) ==
  step = "sign" /\ \E j \in 1 .. Len(MembersOf(original, i)) :
                     Place(i, j) < Cursor /\ Unsigned(OldPayload(i, j))

\* What the code keeps of a cabinet.
LastBefore(p, i) == IF i = 1 THEN 0 ELSE p.media[i - 1].last
Listed(p, i) ==
  [j \in 1 .. Len(MembersOf(p, i)) |->
     [name |-> MembersOf(p, i)[j].name, size |-> MembersOf(p, i)[j].size,
      meta |-> MembersOf(p, i)[j].meta, path |-> Start(p, i) + j]]
CabinetRecord(i) ==
  [name |-> original.media[i].cabinet, first |-> LastBefore(original, i) + 1,
   last |-> original.media[i].last,
   members |-> IF Read(i) THEN Listed(original, i) ELSE <<>>, changed |-> Changed(i)]

\* What the steps of the preflight establish of the package.
MediaSound(p) ==
  /\ ~p.storages
  /\ \A i \in 1 .. Len(p.media) : p.media[i].last >= LastBefore(p, i) /\ p.media[i].embedded
  /\ \A i, k \in 1 .. Len(p.media) : i # k => p.media[i].cabinet # p.media[k].cabinet

\* File rows are for compressed files only, with sequences and names of their own.
FilesSound(p) ==
  /\ \A r \in 1 .. Len(p.file) :
       /\ "noncompressed" \notin p.file[r].attributes
       /\ "compressed" \in p.file[r].attributes \/ p.compressed
       /\ p.file[r].sequence > 0
       /\ p.file[r].size >= 0
  /\ \A r, s \in 1 .. Len(p.file) :
       r # s => p.file[r].sequence # p.file[s].sequence /\ p.file[r].id # p.file[s].id

\* A member has a File row of its own name and size within its cabinet's sequences.
HasRow(p, i, member) ==
  \E r \in 1 .. Len(p.file) :
    /\ p.file[r].id = member.name
    /\ p.file[r].sequence \in LastBefore(p, i) + 1 .. p.media[i].last
    /\ p.file[r].size = member.size

\* A cabinet is there and well-formed, and its members are what their File rows say.
CabinetSound(p, i) ==
  /\ p.media[i].cabinet \in DOMAIN p.streams
  /\ Cabinet(p, i).regular
  /\ TotalDeclared(MembersOf(p, i)) <= Cabinet(p, i).expands
  /\ \A j \in 1 .. Len(MembersOf(p, i)) :
       /\ Size(MembersOf(p, i)[j].payload) = MembersOf(p, i)[j].size
       /\ HasRow(p, i, MembersOf(p, i)[j])

\* No two members have the same name.
NamesApart(p, i, k) ==
  \A j \in 1 .. Len(MembersOf(p, i)), l \in 1 .. Len(MembersOf(p, k)) :
    MembersOf(p, i)[j].name = MembersOf(p, k)[l].name => i = k /\ j = l

\* Every File row is for a member of a cabinet.
RowsSound(p) ==
  \A r \in 1 .. Len(p.file) : \E i \in 1 .. Len(p.media) : \E j \in 1 .. Len(MembersOf(p, i)) :
    p.file[r].id = MembersOf(p, i)[j].name

-----------------------------------------------------------------------------
\* The inductive invariant.

\* Nothing is written to the staged copy before the end, nor to the database before
\* the signing.
Types ==
  /\ original \in Packages
  /\ step \in {"media", "files", "cabinets", "binaries", "sign"}
  /\ outcome = "running"
  /\ disk = original
  /\ at \in (Nat \ {0}) \X (Nat \ {0})
  /\ calls \in Nat /\ expanded \in Nat /\ binaries \in Nat
  /\ result \in [signed: Nat, preserved: Nat]
  /\ work \in Seq(PayloadFiles)
  /\ step # "sign" => db = original /\ calls = 0 /\ result = [signed |-> 0, preserved |-> 0]

\* How far the reading and the signing have come.
PlaceInv ==
  /\ step \in {"media", "files", "cabinets"} => binaries = 0
  /\ step \in {"media", "files", "binaries"} => at = <<1, 1>>
  /\ step = "cabinets" => at[1] \in 1 .. Cabs + 1
  /\ step = "binaries" => binaries \in 0 .. Bins
  /\ step = "sign" =>
       /\ binaries = Bins
       /\ at[1] \in 1 .. Cabs + 1
       /\ at[1] <= Cabs => at[2] \in 1 .. Len(MembersOf(original, at[1])) + 1
       /\ at[1] > Cabs => at[2] \in 1 .. Bins + 1

\* The code's records of the cabinets agree with the package and the place.
CabinetsInv ==
  /\ step = "media" => cabinets = <<>>
  /\ step # "media" => cabinets = [i \in 1 .. Cabs |-> CabinetRecord(i)]

\* The workspace has all payloads read, each at its place, and signed if it lies before
\* the cursor and came unsigned.
WorkInv ==
  /\ step \in {"media", "files"} => work = <<>>
  /\ step = "cabinets" => Len(work) = Start(original, at[1])
  /\ step \in {"binaries", "sign"} => Len(work) = Start(original, Cabs + 1) + binaries
  /\ \A i \in 1 .. Cabs : Read(i) => \A j \in 1 .. Len(MembersOf(original, i)) :
       work[Place(i, j)] = Now(Place(i, j), OldPayload(i, j))
  /\ \A b \in 1 .. binaries :
       work[BinaryPlace(b)] = Now(BinaryPlace(b), original.binary[b].payload)

\* What has been read so far is sound.
SoundInv ==
  /\ step # "media" => MediaSound(original)
  /\ step \notin {"media", "files"} => FilesSound(original)
  /\ \A i \in 1 .. Cabs : Read(i) => CabinetSound(original, i)
  /\ \A i, k \in 1 .. Cabs : Read(i) /\ Read(k) => NamesApart(original, i, k)
  /\ step \in {"binaries", "sign"} => RowsSound(original)
  /\ step = "sign" => \A r \in 1 .. Len(original.hash) : original.hash[r].options = 0

\* Before the end of a rewriting: the steps before the signing, and the payloads.
Preflight == Types /\ PlaceInv /\ CabinetsInv /\ WorkInv /\ SoundInv

\* The package that is rewritten is one.
LEMMA OriginalFacts ==
  ASSUME Types
  PROVE  IsPackage(original) /\ Untouched(original) /\ Cabs \in Nat /\ Bins \in Nat
<1>1. IsPackage(original) /\ Untouched(original)
  BY PackagesAssumption DEF Types
<1> QED
  BY <1>1, PackageMedia, PackageBinary DEF Cabs, Bins

\* Preflight holds at first,
LEMMA PreflightInit == RewriteInit => Preflight
<1> SUFFICES ASSUME RewriteInit PROVE Preflight
  OBVIOUS
<1>1. Types
  <2>1. <<>> \in Seq(PayloadFiles)
    OBVIOUS
  <2> QED BY <2>1 DEF RewriteInit, Types
<1>2. PlaceInv /\ CabinetsInv
  BY DEF RewriteInit, PlaceInv, CabinetsInv
<1>3. ~(\E i : Read(i)) /\ binaries = 0 /\ step = "media" /\ work = <<>>
  BY DEF RewriteInit, Read
<1>4. 1 .. binaries = {}
  BY <1>3
<1>5. WorkInv
  BY <1>3, <1>4 DEF WorkInv
<1>6. SoundInv
  BY <1>3 DEF SoundInv
<1> QED
  BY <1>1, <1>2, <1>5, <1>6 DEF Preflight

\* and each step that does not end the rewriting keeps it: the Media table,
LEMMA MediaStep ==
  ASSUME Preflight, ReadMedia, step' # "end"
  PROVE  Preflight'
<1>1. step = "media" /\ step' = "files" /\ ~MediaInvalid
  BY DEF ReadMedia, Invalid, Leave, Goto
<1>2. UNCHANGED <<original, windows, disk, outcome, db, work, expanded, binaries, at, calls, result>>
  BY <1>1 DEF ReadMedia, Invalid, Leave, Goto, input
<1>3. Types /\ db = original /\ binaries = 0 /\ at = <<1, 1>> /\ work = <<>>
  BY <1>1 DEF Preflight, Types, PlaceInv, WorkInv
<1>4. Types'
  BY <1>1, <1>2, <1>3 DEF Types
<1>5. PlaceInv'
  BY <1>1, <1>2, <1>3 DEF PlaceInv
<1>6. Cabs' = Cabs /\ \A i : ~Read(i)' /\ Changed(i)' = FALSE
  BY <1>1, <1>2 DEF Cabs, Read, Changed
<1>7. CabinetsInv'
  <2>1. cabinets' = [i \in 1 .. Len(db.media) |->
                       [name |-> db.media[i].cabinet, first |-> Previous(i) + 1,
                        last |-> db.media[i].last, members |-> <<>>, changed |-> FALSE]]
    BY <1>1 DEF ReadMedia, Invalid, Leave
  <2>2. \A i : Previous(i) = LastBefore(original, i)
    BY <1>3 DEF Previous, LastBefore
  <2>3. \A i : CabinetRecord(i)' = [name |-> original.media[i].cabinet,
              first |-> LastBefore(original, i) + 1, last |-> original.media[i].last,
              members |-> <<>>, changed |-> FALSE]
    BY <1>2, <1>6 DEF CabinetRecord, LastBefore
  <2>4. cabinets' = [i \in 1 .. Cabs |-> CabinetRecord(i)']
    BY <1>3, <2>1, <2>2, <2>3 DEF Cabs
  <2> QED
    BY <1>1, <1>6, <2>4 DEF CabinetsInv
<1>8. WorkInv'
  <2>1. 1 .. binaries' = {}
    BY <1>2, <1>3
  <2> QED BY <1>1, <1>2, <1>3, <1>6, <2>1 DEF WorkInv
<1>9. SoundInv'
  <2>1. MediaSound(original)
    <3>1. \A i \in 1 .. Len(original.media) :
            original.media[i].last \in Int /\ LastBefore(original, i) \in Int
      <4>1. Len(original.media) \in Nat
            /\ \A i \in 1 .. Len(original.media) : original.media[i].last \in Int
        BY <1>3, OriginalFacts, PackageMedia
      <4>2. \A i \in 1 .. Len(original.media) : i # 1 => i - 1 \in 1 .. Len(original.media)
        BY <4>1
      <4> QED BY <4>1, <4>2 DEF LastBefore
    <3>2. \A i : Previous(i) = LastBefore(original, i)
      BY <1>3 DEF Previous, LastBefore
    <3> QED BY <1>1, <1>3, <3>1, <3>2 DEF MediaInvalid, MediaSound
  <2>2. MediaSound(original)'
    BY <1>2, <2>1 DEF MediaSound, LastBefore
  <2> QED
    BY <1>1, <1>6, <2>2 DEF SoundInv
<1> QED
  BY <1>4, <1>5, <1>7, <1>8, <1>9 DEF Preflight

\* the File table,
LEMMA FilesStep ==
  ASSUME Preflight, ReadFiles, step' # "end"
  PROVE  Preflight'
<1>1. step = "files" /\ step' = "cabinets" /\ ~FilesInvalid
  BY DEF ReadFiles, Invalid, Leave, Goto
<1>2. UNCHANGED <<original, windows, disk, outcome, db, cabinets, work, expanded, binaries, at, calls, result>>
  BY <1>1 DEF ReadFiles, Invalid, Leave, Goto, input
<1>3. Types /\ db = original /\ binaries = 0 /\ at = <<1, 1>> /\ work = <<>> /\ Cabs \in Nat
  BY <1>1, OriginalFacts DEF Preflight, Types, PlaceInv, WorkInv
<1>4. Types'
  BY <1>1, <1>2, <1>3 DEF Types
<1>5. Cabs' = Cabs
  BY <1>2 DEF Cabs
<1>6. PlaceInv'
  BY <1>1, <1>2, <1>3, <1>5 DEF PlaceInv
<1>7. \A i \in 1 .. Cabs : ~Read(i)' /\ ~Read(i) /\ Changed(i)' = FALSE /\ Changed(i) = FALSE
  BY <1>1, <1>2, <1>3 DEF Read, Changed
<1>8. CabinetsInv'
  <2>1. \A i \in 1 .. Cabs : CabinetRecord(i)' = CabinetRecord(i)
    BY <1>2, <1>7 DEF CabinetRecord, LastBefore
  <2>2. cabinets = [i \in 1 .. Cabs |-> CabinetRecord(i)]
    BY <1>1 DEF Preflight, CabinetsInv
  <2>3. cabinets' = [i \in 1 .. Cabs |-> CabinetRecord(i)']
    BY <1>2, <2>1, <2>2
  <2> QED
    BY <1>1, <1>5, <2>3 DEF CabinetsInv
<1>9. WorkInv'
  <2>1. 1 .. binaries' = {}
    BY <1>2, <1>3
  <2>2. Len(work') = 0 /\ Start(original, at[1])' = 0
    <3>1. Start(original, 1) = 0
      BY StartFirst
    <3> QED BY <1>2, <1>3, <3>1
  <2> QED BY <1>1, <1>2, <1>3, <1>5, <1>7, <2>1, <2>2 DEF WorkInv
<1>10. SoundInv'
  <2>1. FilesSound(original)
    <3>1. \A r \in 1 .. Len(original.file) : original.file[r].sequence \in Int /\ original.file[r].size \in Int
      BY <1>3, OriginalFacts, PackageFile
    <3> QED BY <1>1, <1>3, <3>1 DEF FilesInvalid, FilesSound
  <2>2. FilesSound(original)' /\ MediaSound(original)'
    BY <1>1, <1>2, <2>1 DEF FilesSound, MediaSound, LastBefore, Preflight, SoundInv
  <2> QED
    BY <1>1, <1>5, <1>7, <2>2 DEF SoundInv
<1> QED
  BY <1>4, <1>6, <1>8, <1>9, <1>10 DEF Preflight

\* The records of the cabinets, once the Media table has been read.
LEMMA CabinetsAre ==
  ASSUME Preflight, step # "media"
  PROVE  /\ DOMAIN cabinets = 1 .. Cabs /\ Len(cabinets) = Cabs
         /\ cabinets = [i \in 1 .. Cabs |-> CabinetRecord(i)]
<1>1. cabinets = [i \in 1 .. Cabs |-> CabinetRecord(i)]
  BY DEF Preflight, CabinetsInv
<1>2. Cabs \in Nat
  BY OriginalFacts DEF Preflight
<1> DEFINE R == {CabinetRecord(i) : i \in 1 .. Cabs}
<1>3. \A i \in 1 .. Cabs : cabinets[i] \in R
  BY <1>1
<1> HIDE DEF R
<1>4. DOMAIN cabinets = 1 .. Cabs /\ cabinets = [i \in 1 .. Cabs |-> cabinets[i]]
  BY <1>1
<1> QED
  BY <1>1, <1>2, <1>3, <1>4, FunctionSeq

\* One cabinet's record, field by field.
LEMMA CabinetIs ==
  ASSUME Preflight, step # "media", NEW i \in 1 .. Cabs
  PROVE  /\ cabinets[i] = CabinetRecord(i)
         /\ cabinets[i].name = original.media[i].cabinet
         /\ cabinets[i].first = LastBefore(original, i) + 1
         /\ cabinets[i].last = original.media[i].last
         /\ cabinets[i].members = IF Read(i) THEN Listed(original, i) ELSE <<>>
         /\ cabinets[i].changed = Changed(i)
<1>1. cabinets[i] = CabinetRecord(i)
  BY CabinetsAre
<1> QED
  BY <1>1 DEF CabinetRecord

\* The cabinets that have been read are in the package.
LEMMA KnownCabinets ==
  ASSUME Preflight
  PROVE  /\ step = "cabinets" => KnownTo(original, at[1])
         /\ step \in {"binaries", "sign"} => KnownTo(original, Cabs + 1)
<1>1. Cabs \in Nat /\ IsPackage(original)
  BY OriginalFacts DEF Preflight
<1>2. \A i \in 1 .. Cabs : Read(i) => original.media[i].cabinet \in DOMAIN original.streams
  BY DEF Preflight, SoundInv, CabinetSound
<1>3. ASSUME step = "cabinets", NEW k \in 1 .. at[1] - 1
      PROVE  original.media[k].cabinet \in DOMAIN original.streams
  <2>1. at[1] \in 1 .. Cabs + 1
    BY <1>3 DEF Preflight, PlaceInv
  <2>2. k \in 1 .. Cabs /\ k < at[1]
    BY <1>1, <2>1
  <2> QED BY <1>2, <1>3, <2>2 DEF Read
<1>4. ASSUME step \in {"binaries", "sign"}, NEW k \in 1 .. (Cabs + 1) - 1
      PROVE  original.media[k].cabinet \in DOMAIN original.streams
  <2>1. k \in 1 .. Cabs
    BY <1>1
  <2> QED BY <1>2, <1>4, <2>1 DEF Read
<1> QED
  BY <1>3, <1>4 DEF KnownTo

\* What the code keeps of the members of a cabinet.
LEMMA ListedMembers ==
  ASSUME NEW p, NEW i, Len(MembersOf(p, i)) \in Nat
  PROVE  /\ DOMAIN Listed(p, i) = 1 .. Len(MembersOf(p, i))
         /\ Len(Listed(p, i)) = Len(MembersOf(p, i))
         /\ \A j \in 1 .. Len(MembersOf(p, i)) :
              /\ Listed(p, i)[j].name = MembersOf(p, i)[j].name
              /\ Listed(p, i)[j].size = MembersOf(p, i)[j].size
              /\ Listed(p, i)[j].meta = MembersOf(p, i)[j].meta
              /\ Listed(p, i)[j].path = Start(p, i) + j
<1> DEFINE R == {Listed(p, i)[j] : j \in 1 .. Len(MembersOf(p, i))}
<1>1. DOMAIN Listed(p, i) = 1 .. Len(MembersOf(p, i))
      /\ Listed(p, i) = [j \in 1 .. Len(MembersOf(p, i)) |-> Listed(p, i)[j]]
  BY DEF Listed
<1>2. \A j \in 1 .. Len(MembersOf(p, i)) : Listed(p, i)[j] \in R
  OBVIOUS
<1>3. Len(Listed(p, i)) = Len(MembersOf(p, i))
  <2> HIDE DEF R
  <2> QED BY <1>1, <1>2, FunctionSeq
<1>4. \A j \in 1 .. Len(MembersOf(p, i)) :
         Listed(p, i)[j] = [name |-> MembersOf(p, i)[j].name, size |-> MembersOf(p, i)[j].size,
                            meta |-> MembersOf(p, i)[j].meta, path |-> Start(p, i) + j]
  BY DEF Listed
<1> QED
  BY <1>1, <1>3, <1>4

\* What is in the cabinets that have been read.
LEMMA ReadMembers ==
  ASSUME Preflight, step # "media", NEW i \in 1 .. Cabs, Read(i)
  PROVE  /\ original.media[i].cabinet \in DOMAIN original.streams
         /\ Len(MembersOf(original, i)) \in Nat
         /\ MembersOf(original, i) \in Seq(CabinetMember)
         /\ cabinets[i].members = Listed(original, i)
         /\ Len(cabinets[i].members) = Len(MembersOf(original, i))
         /\ DOMAIN cabinets[i].members = 1 .. Len(MembersOf(original, i))
<1>1. original.media[i].cabinet \in DOMAIN original.streams
  BY DEF Preflight, SoundInv, CabinetSound
<1>2. IsPackage(original) /\ i \in 1 .. Len(original.media)
  BY OriginalFacts DEF Preflight, Cabs
<1>3. Len(MembersOf(original, i)) \in Nat /\ MembersOf(original, i) \in Seq(CabinetMember)
  BY <1>1, <1>2, PackageCabinet
<1>4. cabinets[i].members = Listed(original, i)
  BY CabinetIs
<1> QED
  BY <1>1, <1>3, <1>4, ListedMembers

\* The names of the members found so far.
LEMMA FoundIs ==
  ASSUME Preflight, step # "media", NEW x
  PROVE  x \in Found <=> \E i \in 1 .. Cabs : Read(i) /\ \E j \in 1 .. Len(MembersOf(original, i)) :
                           x = MembersOf(original, i)[j].name
<1>1. DOMAIN cabinets = 1 .. Cabs
  BY CabinetsAre
<1>2. x \in Found <=> \E i \in 1 .. Cabs : \E j \in DOMAIN cabinets[i].members :
                        x = cabinets[i].members[j].name
  BY <1>1 DEF Found
<1>3. ASSUME NEW i \in 1 .. Cabs
      PROVE  (\E j \in DOMAIN cabinets[i].members : x = cabinets[i].members[j].name)
             <=> Read(i) /\ \E j \in 1 .. Len(MembersOf(original, i)) :
                               x = MembersOf(original, i)[j].name
  <2>1. CASE Read(i)
    <3>1. /\ cabinets[i].members = Listed(original, i)
          /\ DOMAIN cabinets[i].members = 1 .. Len(MembersOf(original, i))
          /\ Len(MembersOf(original, i)) \in Nat
      BY <2>1, ReadMembers
    <3>2. \A j \in 1 .. Len(MembersOf(original, i)) :
             cabinets[i].members[j].name = MembersOf(original, i)[j].name
      BY <3>1, ListedMembers
    <3> QED BY <2>1, <3>1, <3>2
  <2>2. CASE ~Read(i)
    <3>1. cabinets[i].members = <<>>
      BY <2>2, CabinetIs
    <3>2. DOMAIN cabinets[i].members = {}
      BY <3>1
    <3> QED BY <2>2, <3>2
  <2> QED BY <2>1, <2>2
<1> QED
  BY <1>2, <1>3

\* Before signing every payload is as it came.
LEMMA NothingPassed ==
  ASSUME step # "sign", NEW k \in Nat \ {0}, NEW q
  PROVE  Now(k, q) = q
  BY DEF Now, Cursor

\* A cabinet that is found in order.
LEMMA CabinetReads ==
  ASSUME Preflight, PreflightCabinet, step' # "end", NEW i \in 1 .. Cabs, i = at[1]
  PROVE  /\ step = "cabinets" /\ step' = "cabinets" /\ db = original
         /\ original.media[i].cabinet \in DOMAIN original.streams
         /\ Inspects(Cabinet(original, i)) /\ Maps(i, MembersOf(original, i))
         /\ SizesHold(MembersOf(original, i))
         /\ cabinets' = [cabinets EXCEPT ![i].members =
              [j \in 1 .. Len(MembersOf(original, i)) |->
                 [name |-> MembersOf(original, i)[j].name, size |-> MembersOf(original, i)[j].size,
                  meta |-> MembersOf(original, i)[j].meta, path |-> Len(work) + j]]]
         /\ work' = work \o [j \in 1 .. Len(MembersOf(original, i)) |-> MembersOf(original, i)[j].payload]
         /\ expanded' = expanded + Cabinet(original, i).expands
         /\ at' = <<i + 1, 1>>
         /\ UNCHANGED <<db, binaries, calls, result, original, windows, disk, outcome>>
<1>0. step = "cabinets" /\ step' = "cabinets" /\ db = original
  <2>1. step = "cabinets"
    BY Zenon DEF PreflightCabinet
  <2>2. step' = "cabinets"
    BY Zenon, <2>1 DEF PreflightCabinet, Invalid, Leave, Goto
  <2> QED BY <2>1, <2>2 DEF Preflight, Types
<1> DEFINE stream == Cabinet(original, i)
<1>1. cabinets[i].name = original.media[i].cabinet
  BY <1>0, CabinetIs
<1>2. db.streams[cabinets[i].name] = stream /\ stream.members = MembersOf(original, i)
  BY <1>0, <1>1 DEF Cabinet, MembersOf
<1>3. ~Invalid("cabinets")
  BY <1>0 DEF Invalid, Leave
<1> HIDE DEF stream
<1>4. /\ cabinets[i].name \in DOMAIN db.streams
      /\ Inspects(stream) /\ Maps(i, MembersOf(original, i)) /\ SizesHold(MembersOf(original, i))
      /\ cabinets' = [cabinets EXCEPT ![i].members =
           [j \in 1 .. Len(MembersOf(original, i)) |->
              [name |-> MembersOf(original, i)[j].name, size |-> MembersOf(original, i)[j].size,
               meta |-> MembersOf(original, i)[j].meta, path |-> Len(work) + j]]]
      /\ work' = work \o [j \in 1 .. Len(MembersOf(original, i)) |-> MembersOf(original, i)[j].payload]
      /\ expanded' = expanded + stream.expands
      /\ at' = <<i + 1, 1>>
      /\ UNCHANGED <<db, binaries, calls, result, original, windows, disk, outcome>>
  BY Zenon, <1>2, <1>3 DEF PreflightCabinet, Goto, input
<1> QED BY <1>0, <1>1, <1>4 DEF stream

\* Reading a cabinet keeps Preflight,
LEMMA CabinetStep ==
  ASSUME Preflight, PreflightCabinet, step' # "end"
  PROVE  Preflight'
<1>0. step = "cabinets" /\ step' = "cabinets" /\ Types /\ IsPackage(original) /\ Cabs \in Nat /\ db = original
      /\ binaries = 0 /\ Bins \in Nat
  <2>1. step = "cabinets" /\ Types /\ IsPackage(original) /\ Cabs \in Nat /\ Bins \in Nat
    BY Zenon, OriginalFacts DEF PreflightCabinet, Preflight
  <2>2. step' = "cabinets"
    BY Zenon, <2>1 DEF PreflightCabinet, Invalid, Leave, Goto
  <2> QED BY <2>1, <2>2 DEF Preflight, Types, PlaceInv
<1>1. PICK i \in 1 .. Cabs : i = at[1]
  <2>1. Len(cabinets) = Cabs /\ at[1] \in 1 .. Cabs + 1
    BY <1>0, CabinetsAre DEF Preflight, PlaceInv
  <2>2. \E k \in 1 .. Len(cabinets) : k >= at[1]
    BY Zenon DEF PreflightCabinet, Unread
  <2> QED BY <1>0, <2>1, <2>2
<1> DEFINE stream == Cabinet(original, i)
           m == Len(MembersOf(original, i))
<1>2. cabinets[i].name = original.media[i].cabinet /\ cabinets[i].first = LastBefore(original, i) + 1
      /\ cabinets[i].last = original.media[i].last
  BY <1>0, <1>1, CabinetIs
<1>3. db.streams[cabinets[i].name] = stream /\ stream.members = MembersOf(original, i)
  BY <1>0, <1>2 DEF Cabinet, MembersOf
<1>4. /\ cabinets[i].name \in DOMAIN db.streams
      /\ Inspects(stream) /\ Maps(i, MembersOf(original, i)) /\ SizesHold(MembersOf(original, i))
      /\ cabinets' = [cabinets EXCEPT ![i].members =
           [j \in 1 .. m |->
              [name |-> MembersOf(original, i)[j].name, size |-> MembersOf(original, i)[j].size,
               meta |-> MembersOf(original, i)[j].meta, path |-> Len(work) + j]]]
      /\ work' = work \o [j \in 1 .. m |-> MembersOf(original, i)[j].payload]
      /\ expanded' = expanded + stream.expands
      /\ at' = <<i + 1, 1>>
      /\ UNCHANGED <<db, binaries, calls, result, original, windows, disk, outcome>>
  BY <1>0, <1>1, <1>2, CabinetReads
<1>5. KnownTo(original, i) /\ KnownTo(original, i + 1)
  <2>1. KnownTo(original, i)
    BY <1>0, <1>1, KnownCabinets
  <2>2. \A k \in 1 .. (i + 1) - 1 : k = i \/ k \in 1 .. i - 1
    BY <1>0, <1>1
  <2> QED BY <1>0, <1>2, <1>4, <2>1, <2>2 DEF KnownTo
<1>6. /\ m \in Nat /\ MembersOf(original, i) \in Seq(CabinetMember) /\ stream.expands \in Nat
      /\ \A j \in 1 .. m : MembersOf(original, i)[j].payload \in PayloadFiles
  <2>1. i \in 1 .. Len(original.media) /\ original.media[i].cabinet \in DOMAIN original.streams
    BY <1>0, <1>1, <1>2, <1>4 DEF Cabs
  <2> QED BY <1>0, <2>1, PackageCabinet DEF CabinetStream
<1>7. Len(work) = Start(original, i) /\ Start(original, i) \in Nat
      /\ Start(original, i + 1) = Start(original, i) + m
  <2>1. Len(work) = Start(original, i)
    BY <1>0, <1>1 DEF Preflight, WorkInv
  <2>2. i \in 1 .. Len(original.media) /\ i \in 1 .. Len(original.media) + 1
    BY <1>0, <1>1 DEF Cabs
  <2> QED BY <1>0, <1>5, <2>1, <2>2, StartNat, StartNext
<1> DEFINE news == [j \in 1 .. m |-> MembersOf(original, i)[j].payload]
<1>8. news \in Seq(PayloadFiles) /\ Len(news) = m /\ \A j \in 1 .. m : news[j] = OldPayload(i, j)
  <2>1. \A j \in 1 .. m : news[j] = OldPayload(i, j) /\ news[j] \in PayloadFiles
    BY <1>6 DEF OldPayload
  <2>2. DOMAIN news = 1 .. m /\ news = [j \in 1 .. m |-> news[j]]
    OBVIOUS
  <2> HIDE DEF news
  <2> QED BY <1>6, <2>1, <2>2, FunctionSeq
<1>9. /\ work' \in Seq(PayloadFiles)
      /\ Len(work') = Start(original, i) + m
      /\ \A k \in 1 .. Start(original, i) : work'[k] = work[k]
      /\ \A j \in 1 .. m : work'[Start(original, i) + j] = OldPayload(i, j)
  <2>1. work \in Seq(PayloadFiles)
    BY <1>0 DEF Types
  <2>2. work' = work \o news
    BY <1>4
  <2> HIDE DEF news
  <2> QED BY SMTT(60), <1>6, <1>7, <1>8, <2>1, <2>2, ConcatFacts
<1>10. Types'
  BY SMTT(60), <1>0, <1>4, <1>6, <1>9, <1>1 DEF Types
<1>11. Cabs' = Cabs /\ Bins' = Bins /\ (\A k : OldPayload(k, 1)' = OldPayload(k, 1))
  BY <1>4 DEF Cabs, Bins, OldPayload
<1>12. PlaceInv'
  BY <1>0, <1>1, <1>4, <1>11 DEF PlaceInv
<1>13. \A k \in 1 .. Cabs : /\ Read(k)' <=> Read(k) \/ k = i
                            /\ Changed(k)' = FALSE /\ Changed(k) = FALSE
                            /\ Read(k) <=> k < i
  BY <1>0, <1>1, <1>4 DEF Read, Changed
<1>14. CabinetsInv'
  <2>1. cabinets = [k \in 1 .. Cabs |-> CabinetRecord(k)]
    BY <1>0, CabinetsAre
  <2>2. ASSUME NEW k \in 1 .. Cabs, k # i PROVE cabinets'[k] = CabinetRecord(k)'
    <3>1. cabinets'[k] = CabinetRecord(k)
      BY <1>4, <2>1, <2>2
    <3> QED BY <1>4, <1>13, <2>2, <3>1 DEF CabinetRecord, LastBefore
  <2>3. cabinets'[i] = CabinetRecord(i)'
    <3>1. cabinets'[i] = [cabinets[i] EXCEPT !.members = Listed(original, i)]
      BY <1>1, <1>4, <1>7, <2>1 DEF Listed
    <3>2. ~Read(i) /\ Read(i)'
      BY <1>0, <1>1, <1>13
    <3>3. cabinets[i] = [name |-> original.media[i].cabinet, first |-> LastBefore(original, i) + 1,
               last |-> original.media[i].last, members |-> <<>>, changed |-> Changed(i)]
      BY <1>1, <2>1, <3>2 DEF CabinetRecord
    <3>4. [cabinets[i] EXCEPT !.members = Listed(original, i)]
            = [name |-> original.media[i].cabinet, first |-> LastBefore(original, i) + 1,
               last |-> original.media[i].last, members |-> Listed(original, i), changed |-> Changed(i)]
      BY <3>3
    <3>5. CabinetRecord(i)' = [name |-> original.media[i].cabinet, first |-> LastBefore(original, i) + 1,
               last |-> original.media[i].last, members |-> Listed(original, i), changed |-> FALSE]
      BY <1>1, <1>4, <1>13, <3>2 DEF CabinetRecord, LastBefore, Listed
    <3> QED BY <1>1, <1>13, <3>1, <3>4, <3>5
  <2>4. cabinets' = [k \in 1 .. Cabs |-> CabinetRecord(k)']
    <3>1. cabinets' = [k \in 1 .. Cabs |-> cabinets'[k]]
      BY <1>4, <2>1
    <3> QED BY <2>2, <2>3, <3>1
  <2> QED BY <1>0, <1>11, <2>4 DEF CabinetsInv
<1>15. WorkInv'
  <2>1. Len(work') = Start(original, at[1])'
    BY <1>1, <1>4, <1>7, <1>9
  <2>2. ASSUME NEW k \in 1 .. Cabs, Read(k)', NEW j \in 1 .. Len(MembersOf(original, k))
        PROVE  work'[Place(k, j)] = OldPayload(k, j) /\ Place(k, j) \in Nat \ {0}
    <3>1. CASE k = i
      BY <1>7, <1>9, <2>2, <3>1 DEF Place
    <3>2. CASE k # i
      <4>1. Read(k) /\ k < i
        BY <1>13, <2>2, <3>2
      <4>2. Len(MembersOf(original, k)) \in Nat
        BY <1>0, <4>1, ReadMembers
      <4>3. Start(original, k) + Len(MembersOf(original, k)) <= Start(original, i)
            /\ Start(original, k) \in Nat
        <5>1. k \in 1 .. Len(original.media) + 1 /\ i \in 1 .. Len(original.media) + 1 /\ KnownTo(original, k)
          BY <1>0, <1>1, <1>5, <4>1 DEF Cabs, KnownTo
        <5> QED BY <1>0, <1>5, <4>1, <5>1, StartGrows, StartNat
      <4>4. Place(k, j) \in 1 .. Start(original, i) /\ Place(k, j) \in Nat \ {0}
        BY <1>7, <2>2, <4>2, <4>3 DEF Place
      <4>5. work[Place(k, j)] = Now(Place(k, j), OldPayload(k, j))
        BY <2>2, <4>1 DEF Preflight, WorkInv
      <4>6. Now(Place(k, j), OldPayload(k, j)) = OldPayload(k, j)
        BY <1>0, <4>4, NothingPassed
      <4> QED BY <1>9, <4>4, <4>5, <4>6
    <3> QED BY <3>1, <3>2
  <2>3. ASSUME NEW k \in 1 .. Cabs, Read(k)', NEW j \in 1 .. Len(MembersOf(original, k))
        PROVE  work'[Place(k, j)'] = Now(Place(k, j), OldPayload(k, j))'
    <3>1. Place(k, j)' = Place(k, j) /\ OldPayload(k, j)' = OldPayload(k, j)
      BY <1>4 DEF Place, OldPayload
    <3>2. Now(Place(k, j), OldPayload(k, j))' = OldPayload(k, j)
      BY <1>0, <2>2, <2>3, <3>1 DEF Now, Cursor
    <3> QED BY <2>2, <2>3, <3>1, <3>2
  <2>4. 1 .. binaries' = {}
    BY <1>0, <1>4
  <2>5. \A k : MembersOf(original, k)' = MembersOf(original, k)
    BY <1>4
  <2> QED BY <1>0, <1>11, <2>1, <2>3, <2>4, <2>5 DEF WorkInv
<1>16. SoundInv'
  <2>1. CabinetSound(original, i)
    <3>1. stream.regular /\ TotalDeclared(MembersOf(original, i)) <= stream.expands
      BY <1>3, <1>4 DEF Inspects
    <3>2. ASSUME NEW j \in 1 .. m
          PROVE  /\ Size(MembersOf(original, i)[j].payload) = MembersOf(original, i)[j].size
                 /\ HasRow(original, i, MembersOf(original, i)[j])
      BY <1>0, <1>2, <1>4 DEF SizesHold, Maps, HasRow
    <3> QED BY <1>0, <1>2, <1>4, <3>1, <3>2 DEF CabinetSound
  <2>2. NamesApart(original, i, i)
    BY <1>3, <1>4 DEF Inspects, NamesApart
  <2>3. ASSUME NEW k \in 1 .. Cabs, Read(k)
        PROVE  NamesApart(original, i, k) /\ NamesApart(original, k, i)
    <3> SUFFICES ASSUME NEW j \in 1 .. m, NEW l \in 1 .. Len(MembersOf(original, k)),
                        MembersOf(original, i)[j].name = MembersOf(original, k)[l].name
                 PROVE  FALSE
      BY DEF NamesApart
    <3>1. MembersOf(original, k)[l].name \in Found
      BY <1>0, <2>3, FoundIs
    <3>2. MembersOf(original, i)[j].name \notin Found
      BY <1>4 DEF Maps
    <3> QED BY <3>1, <3>2
  <2>4. \A k \in 1 .. Cabs : Read(k)' => CabinetSound(original, k)
    BY <1>13, <2>1 DEF Preflight, SoundInv
  <2>5. \A k, l \in 1 .. Cabs : Read(k)' /\ Read(l)' => NamesApart(original, k, l)
    BY <1>13, <2>2, <2>3 DEF Preflight, SoundInv
  <2>6. MediaSound(original) /\ FilesSound(original)
    BY <1>0 DEF Preflight, SoundInv
  <2>7. original' = original
    BY <1>4
  <2> QED BY <1>0, <1>11, <2>4, <2>5, <2>6, <2>7 DEF SoundInv
<1> QED
  BY <1>10, <1>12, <1>14, <1>15, <1>16 DEF Preflight

\* Once all cabinets have been read: the places of their payloads and of the Binary
\* rows' ones.
LEMMA Places ==
  ASSUME Preflight, step \in {"binaries", "sign"}
  PROVE  /\ IsPackage(original) /\ Cabs \in Nat /\ Bins \in Nat
         /\ \A i \in 1 .. Cabs + 1 : Start(original, i) \in Nat
         /\ \A i \in 1 .. Cabs : Len(MembersOf(original, i)) \in Nat
         /\ \A i \in 1 .. Cabs : Start(original, i + 1) = Start(original, i) + Len(MembersOf(original, i))
         /\ \A i, k \in 1 .. Cabs + 1 :
              i < k => Start(original, i) + Len(MembersOf(original, i)) <= Start(original, k)
<1>1. IsPackage(original) /\ Cabs \in Nat /\ Bins \in Nat /\ KnownTo(original, Cabs + 1)
  BY OriginalFacts, KnownCabinets DEF Preflight
<1>2. Cabs = Len(original.media)
  BY DEF Cabs
<1>3. ASSUME NEW i \in 1 .. Cabs + 1 PROVE KnownTo(original, i)
  BY <1>1 DEF KnownTo
<1>4. \A i \in 1 .. Cabs + 1 : Start(original, i) \in Nat
  BY <1>1, <1>2, <1>3, StartNat
<1>5. \A i \in 1 .. Cabs : Len(MembersOf(original, i)) \in Nat
  BY ReadMembers DEF Read
<1>6. ASSUME NEW i \in 1 .. Cabs
      PROVE  Start(original, i + 1) = Start(original, i) + Len(MembersOf(original, i))
  <2>1. i + 1 \in 1 .. Cabs + 1
    BY <1>1
  <2> QED BY <1>1, <1>2, <1>3, <2>1, StartNext
<1>7. \A i, k \in 1 .. Cabs + 1 :
        i < k => Start(original, i) + Len(MembersOf(original, i)) <= Start(original, k)
  BY <1>1, <1>2, <1>3, StartGrows
<1> QED
  BY <1>1, <1>4, <1>5, <1>6, <1>7

\* A step that leaves the package, the workspace and the cabinets alone.
LEMMA RowsStep ==
  ASSUME Preflight, CheckRows, step' # "end"
  PROVE  Preflight'
<1>0. step = "cabinets" /\ step' = "binaries" /\ at' = <<1, 1>>
      /\ UNCHANGED <<original, windows, disk, outcome, db, cabinets, work, expanded, binaries, calls, result>>
  BY DEF CheckRows, Invalid, Leave, Goto, input
<1>1. Types /\ IsPackage(original) /\ Cabs \in Nat /\ Bins \in Nat /\ binaries = 0
  BY <1>0, OriginalFacts DEF Preflight, PlaceInv
<1>2. at[1] = Cabs + 1
  <2>1. Len(cabinets) = Cabs /\ at[1] \in 1 .. Cabs + 1
    BY <1>0, CabinetsAre DEF Preflight, PlaceInv
  <2>2. ~(\E k \in 1 .. Len(cabinets) : k >= at[1])
    BY DEF CheckRows, Unread
  <2> QED BY <1>1, <2>1, <2>2
<1>3. Cabs' = Cabs /\ Bins' = Bins
  BY <1>0 DEF Cabs, Bins
<1>4. \A i \in 1 .. Cabs : Read(i) /\ Read(i)' /\ Changed(i) = FALSE /\ Changed(i)' = FALSE
  BY <1>0, <1>1, <1>2 DEF Read, Changed
<1>5. Types'
  BY <1>0, <1>1 DEF Types
<1>6. PlaceInv'
  BY <1>0, <1>1, <1>3 DEF PlaceInv
<1>7. CabinetsInv'
  <2>1. \A i \in 1 .. Cabs : CabinetRecord(i)' = CabinetRecord(i)
    BY <1>0, <1>4 DEF CabinetRecord, LastBefore, Listed
  <2>2. cabinets = [i \in 1 .. Cabs |-> CabinetRecord(i)]
    BY <1>0, CabinetsAre
  <2>3. cabinets' = [i \in 1 .. Cabs |-> CabinetRecord(i)']
    BY <1>0, <2>1, <2>2
  <2> QED BY <1>0, <1>3, <2>3 DEF CabinetsInv
<1>8. WorkInv'
  <2>1. Len(work) = Start(original, Cabs + 1)
    BY <1>0, <1>2 DEF Preflight, WorkInv
  <2>2. Len(work') = Start(original, Cabs + 1)' + binaries'
    <3>1. Start(original, Cabs + 1) \in Nat
      <4>1. Cabs + 1 \in 1 .. Len(original.media) + 1 /\ KnownTo(original, Cabs + 1)
        BY <1>0, <1>1, <1>2, KnownCabinets DEF Cabs
      <4> QED BY <1>1, <4>1, StartNat
    <3> QED BY <1>0, <1>1, <1>3, <2>1, <3>1
  <2>3. 1 .. binaries' = {}
    BY <1>0, <1>1
  <2>4. Cursor = 1 /\ Cursor' = 1
    BY <1>0 DEF Cursor
  <2>5. \A i \in 1 .. Cabs : \A j \in 1 .. Len(MembersOf(original, i)) :
          work[Place(i, j)] = Now(Place(i, j), OldPayload(i, j))
    BY <1>4 DEF Preflight, WorkInv
  <2>6. \A k, q : Now(k, q)' = Now(k, q)
    BY <2>4 DEF Now
  <2>7. \A i, j : Place(i, j)' = Place(i, j) /\ OldPayload(i, j)' = OldPayload(i, j)
    BY <1>0 DEF Place, OldPayload
  <2>8. \A i \in 1 .. Cabs : \A j \in 1 .. Len(MembersOf(original, i)) :
          work'[Place(i, j)'] = Now(Place(i, j), OldPayload(i, j))'
    <3>1. \A i, j : Now(Place(i, j), OldPayload(i, j))' = Now(Place(i, j), OldPayload(i, j))
      BY <2>4, <2>7 DEF Now
    <3> QED BY <1>0, <2>5, <2>7, <3>1
  <2> QED BY <1>0, <1>3, <2>2, <2>3, <2>8 DEF WorkInv
<1>9. SoundInv'
  <2>1. RowsSound(original)
    <3> SUFFICES ASSUME NEW r \in 1 .. Len(original.file)
                 PROVE  \E i \in 1 .. Len(original.media) : \E j \in 1 .. Len(MembersOf(original, i)) :
                          original.file[r].id = MembersOf(original, i)[j].name
      BY DEF RowsSound
    <3>1. db = original
      BY <1>0, <1>1 DEF Types
    <3>2. original.file[r].id \in Found
      BY <1>0, <3>1 DEF CheckRows, Invalid, Leave
    <3> QED BY <1>0, <3>2, FoundIs DEF Cabs
  <2>2. MediaSound(original) /\ FilesSound(original)
        /\ \A i \in 1 .. Cabs : CabinetSound(original, i)
    BY <1>0, <1>4 DEF Preflight, SoundInv
  <2>3. \A i, k \in 1 .. Cabs : NamesApart(original, i, k)
    BY <1>0, <1>4 DEF Preflight, SoundInv
  <2>4. original' = original
    BY <1>0
  <2> QED BY <1>0, <1>3, <2>1, <2>2, <2>3, <2>4 DEF SoundInv
<1> QED
  BY <1>5, <1>6, <1>7, <1>8, <1>9 DEF Preflight

\* From here on every cabinet has been read, and what the preflight has found of the
\* package stays true.
LEMMA SoundStays ==
  ASSUME Preflight, step \in {"binaries", "sign"}, step' = step, original' = original
  PROVE  SoundInv'
<1>1. \A i : Read(i)' = Read(i)
  BY DEF Read
<1>2. Cabs' = Cabs /\ SoundInv
  BY DEF Cabs, Preflight
<1> QED
  BY <1>1, <1>2 DEF SoundInv

\* reading a Binary row does,
LEMMA BinaryStep ==
  ASSUME Preflight, PreflightBinary, step' # "end"
  PROVE  Preflight'
<1>0. step = "binaries" /\ Types /\ db = original /\ binaries \in 0 .. Bins /\ at = <<1, 1>>
  BY DEF PreflightBinary, Preflight, Types, PlaceInv
<1> DEFINE q == original.binary[binaries + 1].payload
<1>1. /\ step' = "binaries" /\ work' = Append(work, q) /\ expanded' = expanded + Size(q)
      /\ binaries' = binaries + 1 /\ binaries < Len(original.binary)
      /\ UNCHANGED <<original, windows, disk, outcome, db, cabinets, at, calls, result>>
  <2>1. ~Invalid("binaries")
    BY <1>0 DEF Invalid, Leave
  <2> QED BY <1>0, <2>1 DEF PreflightBinary, Goto, input
<1>2. IsPackage(original) /\ Cabs \in Nat /\ Bins \in Nat /\ Start(original, Cabs + 1) \in Nat
  BY <1>0, Places
<1>3. Cabs' = Cabs /\ Bins' = Bins /\ binaries + 1 \in 1 .. Bins
  BY <1>0, <1>1, <1>2 DEF Cabs, Bins
<1>4. q \in PayloadFiles
  BY <1>2, <1>3, PackageBinary DEF Bins
<1>5. work \in Seq(PayloadFiles) /\ Len(work) = Start(original, Cabs + 1) + binaries
  BY <1>0 DEF Preflight, WorkInv, Types
<1>6. /\ work' \in Seq(PayloadFiles) /\ Len(work') = Len(work) + 1
      /\ \A k \in 1 .. Len(work) : work'[k] = work[k]
      /\ work'[Len(work) + 1] = q
  <2> HIDE DEF q
  <2> QED BY <1>1, <1>4, <1>5
<1>7. Size(q) \in Nat
  BY <1>4 DEF Size, PayloadFiles
<1>8. Types'
  <2>1. expanded' \in Nat /\ binaries' \in Nat
    BY <1>0, <1>1, <1>7 DEF Types
  <2> QED BY <1>0, <1>1, <1>6, <2>1 DEF Types
<1>9. PlaceInv'
  BY <1>0, <1>1, <1>2, <1>3 DEF PlaceInv
<1>10. \A i : Read(i)' = Read(i) /\ Changed(i)' = Changed(i)
  BY <1>0, <1>1 DEF Read, Changed
<1>11. CabinetsInv'
  <2>1. \A i \in 1 .. Cabs : CabinetRecord(i)' = CabinetRecord(i)
    BY <1>1, <1>10 DEF CabinetRecord, LastBefore, Listed
  <2>2. cabinets = [i \in 1 .. Cabs |-> CabinetRecord(i)]
    BY <1>0, CabinetsAre
  <2>3. cabinets' = [i \in 1 .. Cabs |-> CabinetRecord(i)']
    BY <1>1, <2>1, <2>2
  <2> QED BY <1>1, <1>3, <2>3 DEF CabinetsInv
<1>12. WorkInv'
  <2>1. Len(work') = Start(original, Cabs + 1)' + binaries'
    BY <1>0, <1>1, <1>2, <1>3, <1>5, <1>6
  <2>2. Cursor = 1 /\ Cursor' = 1
    BY <1>0, <1>1 DEF Cursor
  <2>3. \A k, x : k \in Nat \ {0} => Now(k, x) = x
    BY <1>0, NothingPassed
  <2>4. ASSUME NEW i \in 1 .. Cabs, NEW j \in 1 .. Len(MembersOf(original, i))
        PROVE  work'[Place(i, j)'] = Now(Place(i, j), OldPayload(i, j))'
    <3>1. Place(i, j)' = Place(i, j) /\ OldPayload(i, j)' = OldPayload(i, j)
      BY <1>1 DEF Place, OldPayload
    <3>2. Place(i, j) \in 1 .. Len(work)
      <4>1. Start(original, i) \in Nat /\ Len(MembersOf(original, i)) \in Nat
            /\ Start(original, i) + Len(MembersOf(original, i)) <= Start(original, Cabs + 1)
        BY <1>0, <1>2, Places
      <4> QED BY SMTT(30), <1>0, <1>2, <1>5, <4>1 DEF Place
    <3>3. work[Place(i, j)] = Now(Place(i, j), OldPayload(i, j))
      BY <1>0 DEF Preflight, WorkInv, Read
    <3>4. Now(Place(i, j), OldPayload(i, j))' = Now(Place(i, j), OldPayload(i, j))
      BY <2>2, <3>1 DEF Now
    <3> QED BY <1>6, <3>1, <3>2, <3>3, <3>4
  <2>5. ASSUME NEW b \in 1 .. binaries'
        PROVE  work'[BinaryPlace(b)'] = Now(BinaryPlace(b), original.binary[b].payload)'
    <3>1. BinaryPlace(b)' = BinaryPlace(b) /\ original.binary[b]' = original.binary[b]
      BY <1>1, <1>3 DEF BinaryPlace
    <3>2. Now(BinaryPlace(b), original.binary[b].payload)' = Now(BinaryPlace(b), original.binary[b].payload)
      BY <2>2, <3>1, <1>1 DEF Now
    <3>3. CASE b = binaries + 1
      <4>1. BinaryPlace(b) = Len(work) + 1 /\ BinaryPlace(b) \in Nat \ {0}
        BY <1>0, <1>2, <1>5, <3>3 DEF BinaryPlace
      <4>2. Now(BinaryPlace(b), original.binary[b].payload) = q
        BY <2>3, <3>3, <4>1
      <4> QED BY <1>6, <3>1, <3>2, <4>1, <4>2
    <3>4. CASE b # binaries + 1
      <4>1. b \in 1 .. binaries
        BY <1>0, <1>1, <1>2, <3>4
      <4>2. BinaryPlace(b) \in 1 .. Len(work)
        BY <1>0, <1>2, <1>5, <4>1 DEF BinaryPlace
      <4>3. work[BinaryPlace(b)] = Now(BinaryPlace(b), original.binary[b].payload)
        BY <4>1 DEF Preflight, WorkInv
      <4> QED BY <1>6, <3>1, <3>2, <4>2, <4>3
    <3> QED BY <3>3, <3>4
  <2>6. \A i : MembersOf(original, i)' = MembersOf(original, i)
    BY <1>1
  <2> QED BY <1>1, <1>3, <2>1, <2>4, <2>5, <2>6 DEF WorkInv
<1>13. SoundInv'
  BY <1>0, <1>1, SoundStays
<1> QED
  BY <1>8, <1>9, <1>11, <1>12, <1>13 DEF Preflight

\* and so does reading the hashes, with which the signing starts.
LEMMA HashesStep ==
  ASSUME Preflight, ReadHashes, step' # "end"
  PROVE  Preflight' /\ Cursor' = 1
<1>0. /\ step = "binaries" /\ step' = "sign" /\ Types /\ db = original /\ at = <<1, 1>>
      /\ binaries = Bins
      /\ UNCHANGED <<original, windows, disk, outcome, db, cabinets, work, expanded, binaries, at, calls, result>>
  <2>1. step = "binaries" /\ step' = "sign"
        /\ UNCHANGED <<original, windows, disk, outcome, db, cabinets, work, expanded, binaries, at, calls, result>>
    BY DEF ReadHashes, Invalid, Leave, Goto, input
  <2>2. Types /\ db = original /\ at = <<1, 1>>
    BY <2>1 DEF Preflight, Types, PlaceInv
  <2>3. binaries = Bins
    BY <2>2 DEF ReadHashes, Bins
  <2> QED BY <2>1, <2>2, <2>3
<1>1. /\ IsPackage(original) /\ Cabs \in Nat /\ Bins \in Nat
      /\ \A i \in 1 .. Cabs + 1 : Start(original, i) \in Nat
      /\ \A i \in 1 .. Cabs : Len(MembersOf(original, i)) \in Nat
  BY <1>0, Places
<1>2. Cabs' = Cabs /\ Bins' = Bins
  BY <1>0 DEF Cabs, Bins
<1>3. Cursor' = 1 /\ Cursor = 1
  <2>1. Start(original, 1) = 0
    BY StartFirst
  <2> QED BY <1>0, <2>1 DEF Cursor
<1>4. \A i, j : Place(i, j)' = Place(i, j) /\ OldPayload(i, j)' = OldPayload(i, j)
  BY <1>0 DEF Place, OldPayload
<1>5. \A i \in 1 .. Cabs : Read(i) /\ Read(i)' /\ Changed(i) = FALSE /\ Changed(i)' = FALSE
  <2>1. \A i \in 1 .. Cabs : Read(i) /\ Read(i)' /\ Changed(i) = FALSE
    BY <1>0 DEF Read, Changed
  <2>2. ASSUME NEW i \in 1 .. Cabs, NEW j \in 1 .. Len(MembersOf(original, i))
        PROVE  ~(Place(i, j) < Cursor)'
    <3>1. Start(original, i) \in Nat /\ Len(MembersOf(original, i)) \in Nat
      BY <1>1
    <3>2. Place(i, j) \in Nat \ {0}
      BY <3>1 DEF Place
    <3> QED BY <1>3, <1>4, <3>2
  <2>3. ASSUME NEW i \in 1 .. Cabs PROVE Changed(i)' = FALSE
    <3>1. MembersOf(original, i)' = MembersOf(original, i)
      BY <1>0
    <3> QED BY <2>2, <3>1 DEF Changed
  <2> QED BY <2>1, <2>3
<1>6. Types'
  BY <1>0 DEF Types
<1>7. PlaceInv'
  <2>1. \A i : MembersOf(original, i)' = MembersOf(original, i)
    BY <1>0
  <2> QED BY <1>0, <1>1, <1>2, <2>1 DEF PlaceInv
<1>8. CabinetsInv'
  <2>1. \A i \in 1 .. Cabs : CabinetRecord(i)' = CabinetRecord(i)
    BY ZenonT(60), <1>0, <1>5 DEF CabinetRecord, LastBefore, Listed
  <2>2. cabinets = [i \in 1 .. Cabs |-> CabinetRecord(i)]
    BY <1>0, CabinetsAre
  <2>3. cabinets' = [i \in 1 .. Cabs |-> CabinetRecord(i)']
    BY <1>0, <2>1, <2>2
  <2> QED BY <1>0, <1>2, <2>3 DEF CabinetsInv
<1>9. WorkInv'
  <2>1. \A i, j : Now(Place(i, j), OldPayload(i, j))' = Now(Place(i, j), OldPayload(i, j))
    BY <1>3, <1>4 DEF Now
  <2>2. \A b : BinaryPlace(b)' = BinaryPlace(b)
    BY <1>0, <1>2 DEF BinaryPlace
  <2>3. \A b : Now(BinaryPlace(b), original.binary[b].payload)' = Now(BinaryPlace(b), original.binary[b].payload)
    BY <1>0, <1>3, <2>2 DEF Now
  <2>4. Len(work) = Start(original, Cabs + 1) + binaries
    BY <1>0 DEF Preflight, WorkInv
  <2>5. \A i \in 1 .. Cabs : \A j \in 1 .. Len(MembersOf(original, i)) :
          work[Place(i, j)] = Now(Place(i, j), OldPayload(i, j))
    BY <1>5 DEF Preflight, WorkInv
  <2>6. \A b \in 1 .. binaries : work[BinaryPlace(b)] = Now(BinaryPlace(b), original.binary[b].payload)
    BY DEF Preflight, WorkInv
  <2> QED BY <1>0, <1>2, <1>4, <2>1, <2>2, <2>3, <2>4, <2>5, <2>6 DEF WorkInv
<1>10. SoundInv'
  <2>1. \A r \in 1 .. Len(original.hash) : original.hash[r].options = 0
    BY <1>0 DEF ReadHashes, Invalid, Leave
  <2>2. SoundInv
    BY DEF Preflight
  <2> QED BY <1>0, <1>2, <1>5, <2>1, <2>2 DEF SoundInv
<1> QED
  BY <1>3, <1>6, <1>7, <1>8, <1>9, <1>10 DEF Preflight

\* No two payloads have the same place.
LEMMA PlacesApart ==
  ASSUME Preflight, step \in {"binaries", "sign"},
         NEW i \in 1 .. Cabs, NEW j \in 1 .. Len(MembersOf(original, i))
  PROVE  /\ Place(i, j) \in 1 .. Start(original, Cabs + 1)
         /\ \A k \in 1 .. Cabs : \A l \in 1 .. Len(MembersOf(original, k)) :
              Place(i, j) = Place(k, l) => i = k /\ j = l
<1>1. /\ Cabs \in Nat
      /\ \A k \in 1 .. Cabs + 1 : Start(original, k) \in Nat
      /\ \A k \in 1 .. Cabs : Len(MembersOf(original, k)) \in Nat
      /\ \A k, l \in 1 .. Cabs + 1 :
           k < l => Start(original, k) + Len(MembersOf(original, k)) <= Start(original, l)
  BY Places
<1>2. Start(original, i) \in Nat /\ Len(MembersOf(original, i)) \in Nat /\ j \in Nat
  BY <1>1
<1>3. Start(original, i) + Len(MembersOf(original, i)) <= Start(original, Cabs + 1)
      /\ Start(original, Cabs + 1) \in Nat
  BY <1>1
<1>4. ASSUME NEW k \in 1 .. Cabs, NEW l \in 1 .. Len(MembersOf(original, k)), Place(i, j) = Place(k, l)
      PROVE  i = k /\ j = l
  <2>1. Start(original, k) \in Nat /\ Len(MembersOf(original, k)) \in Nat /\ l \in Nat
    BY <1>1
  <2>2. i < k => Start(original, i) + Len(MembersOf(original, i)) <= Start(original, k)
    BY <1>1
  <2>3. k < i => Start(original, k) + Len(MembersOf(original, k)) <= Start(original, i)
    BY <1>1
  <2>4. Start(original, i) + j = Start(original, k) + l
    BY <1>4 DEF Place
  <2>5. i \in Int /\ k \in Int
    OBVIOUS
  <2>6. ~(i < k) /\ ~(k < i)
    BY <1>2, <2>1, <2>2, <2>3, <2>4
  <2>7. i = k
    BY <2>5, <2>6
  <2> QED BY <1>2, <2>4, <2>7
<1>5. Place(i, j) \in 1 .. Start(original, Cabs + 1)
  BY <1>2, <1>3 DEF Place
<1> QED
  BY <1>4, <1>5

\* The payload that is next.
LEMMA Here ==
  ASSUME Preflight, step = "sign", Len(db.binary) = Bins, InCabinet \/ InBinary
  PROVE  /\ Path = Cursor /\ Cursor \in 1 .. Len(work) /\ work[Path] \in PayloadFiles
         /\ at[1] \in 1 .. Cabs + 1 /\ at[2] \in Nat \ {0}
         /\ InCabinet =>
              /\ at[1] \in 1 .. Cabs /\ at[2] \in 1 .. Len(MembersOf(original, at[1]))
              /\ Cursor = Place(at[1], at[2])
              /\ work[Path] = OldPayload(at[1], at[2])
              /\ cabinets[at[1]].members[at[2]].name = MembersOf(original, at[1])[at[2]].name
         /\ ~InCabinet =>
              /\ at[1] = Cabs + 1 /\ at[2] \in 1 .. Bins
              /\ Cursor = BinaryPlace(at[2])
              /\ work[Path] = original.binary[at[2]].payload
<1>1. /\ Cabs \in Nat /\ Bins \in Nat /\ binaries = Bins /\ Len(cabinets) = Cabs
      /\ at[1] \in 1 .. Cabs + 1 /\ at[2] \in Nat \ {0}
      /\ Len(work) = Start(original, Cabs + 1) + Bins
      /\ work \in Seq(PayloadFiles)
      /\ Start(original, Cabs + 1) \in Nat
  <2>1. Cabs \in Nat /\ Bins \in Nat /\ Start(original, Cabs + 1) \in Nat
    BY Places
  <2>2. Len(cabinets) = Cabs
    BY CabinetsAre
  <2> QED BY <2>1, <2>2 DEF Preflight, Types, PlaceInv, WorkInv
<1>2. Cursor = Start(original, at[1]) + at[2]
  BY DEF Cursor
<1>3. ASSUME InCabinet
      PROVE  /\ at[1] \in 1 .. Cabs /\ at[2] \in 1 .. Len(MembersOf(original, at[1]))
             /\ Cursor = Place(at[1], at[2])
             /\ Path = Cursor /\ Cursor \in 1 .. Len(work)
             /\ work[Path] = OldPayload(at[1], at[2])
             /\ cabinets[at[1]].members[at[2]].name = MembersOf(original, at[1])[at[2]].name
  <2>1. at[1] \in 1 .. Cabs
    BY <1>1, <1>3 DEF InCabinet
  <2>2. PICK i \in 1 .. Cabs : i = at[1]
    BY <2>1
  <2>3. Read(i)
    BY DEF Read
  <2>4. cabinets[i].members = Listed(original, i) /\ Len(cabinets[i].members) = Len(MembersOf(original, i))
        /\ Len(MembersOf(original, i)) \in Nat
    BY <2>3, ReadMembers
  <2>5. at[2] \in 1 .. Len(MembersOf(original, i))
    BY <1>1, <1>3, <2>2, <2>4 DEF InCabinet
  <2>6. PICK j \in 1 .. Len(MembersOf(original, i)) : j = at[2]
    BY <2>5
  <2>7. Listed(original, i)[j].name = MembersOf(original, i)[j].name
        /\ Listed(original, i)[j].path = Start(original, i) + j
    BY <2>4, ListedMembers
  <2>8. Path = Place(i, j) /\ Cursor = Place(i, j)
    BY <1>2, <1>3, <2>2, <2>4, <2>6, <2>7 DEF Path, Place
  <2>9. Place(i, j) \in 1 .. Start(original, Cabs + 1)
    BY PlacesApart
  <2>10. Place(i, j) \in 1 .. Len(work)
    BY <1>1, <2>9
  <2>11. work[Place(i, j)] = Now(Place(i, j), OldPayload(i, j))
    BY <2>3 DEF Preflight, WorkInv
  <2>12. Now(Place(i, j), OldPayload(i, j)) = OldPayload(i, j)
    <3>1. ~(Place(i, j) < Cursor)
      BY <2>8, <2>10
    <3> QED BY <3>1 DEF Now
  <2> QED
    BY <2>2, <2>4, <2>6, <2>7, <2>8, <2>10, <2>11, <2>12
<1>4. ASSUME ~InCabinet
      PROVE  /\ at[1] = Cabs + 1 /\ at[2] \in 1 .. Bins
             /\ Cursor = BinaryPlace(at[2])
             /\ Path = Cursor /\ Cursor \in 1 .. Len(work)
             /\ work[Path] = original.binary[at[2]].payload
  <2>1. at[1] = Cabs + 1 /\ at[2] \in 1 .. Bins
    BY <1>1, <1>4 DEF InBinary
  <2>2. PICK b \in 1 .. Bins : b = at[2]
    BY <2>1
  <2>3. Cursor = BinaryPlace(b)
    BY <1>2, <2>1, <2>2 DEF BinaryPlace
  <2>4. Path = Len(work) - Bins + b
    BY <1>4, <2>2 DEF Path
  <2>5. Path = BinaryPlace(b) /\ BinaryPlace(b) \in 1 .. Len(work)
    BY SMTT(60), <1>1, <2>4 DEF BinaryPlace
  <2>6. work[BinaryPlace(b)] = Now(BinaryPlace(b), original.binary[b].payload)
    BY <1>1 DEF Preflight, WorkInv
  <2>7. Now(BinaryPlace(b), original.binary[b].payload) = original.binary[b].payload
    <3>1. ~(BinaryPlace(b) < Cursor)
      BY <2>3, <2>5
    <3> QED BY <3>1 DEF Now
  <2> QED
    BY <2>1, <2>2, <2>3, <2>5, <2>6, <2>7
<1>5. Path = Cursor /\ Cursor \in 1 .. Len(work)
  BY <1>3, <1>4
<1>6. work[Path] \in PayloadFiles
  BY <1>1, <1>5, SeqFacts
<1> QED
  BY <1>1, <1>3, <1>4, <1>5, <1>6

\* One payload further.
LEMMA Advanced ==
  ASSUME Preflight, step = "sign", step' = "sign", Len(db.binary) = Bins, InCabinet \/ InBinary,
         NextPayload, UNCHANGED original
  PROVE  /\ Cursor' = Cursor + 1 /\ Cursor \in Nat \ {0}
         /\ Cabs' = Cabs /\ Bins' = Bins
         /\ at' = <<at[1], at[2] + 1>>
         /\ \A k \in Nat : \A q : k # Cursor => Now(k, q)' = Now(k, q)
         /\ \A q : Now(Cursor, q) = q
         /\ \A k, q : k = Cursor => Now(k, q)' = Treated(q)
<1>1. Cursor \in 1 .. Len(work) /\ at[1] \in 1 .. Cabs + 1 /\ at[2] \in Nat \ {0}
  BY Here
<1>2. Start(original, at[1]) \in Nat /\ Len(work) \in Nat
  BY <1>1, Places DEF Preflight, Types
<1>3. at' = <<at[1], at[2] + 1>>
  BY DEF NextPayload
<1>4. Cursor' = Cursor + 1
  BY <1>1, <1>2, <1>3 DEF Cursor
<1>5. Cursor \in Nat \ {0}
  BY <1>1, <1>2
<1>6. Cabs' = Cabs /\ Bins' = Bins
  BY DEF Cabs, Bins
<1>7. ASSUME NEW k \in Nat, NEW q, k # Cursor PROVE Now(k, q)' = Now(k, q)
  <2>1. (k < Cursor') = (k < Cursor)
    BY <1>4, <1>5, <1>7
  <2> QED BY <2>1 DEF Now, Treated, Unsigned, Signed
<1>8. \A q : Now(Cursor, q) = q
  BY <1>5 DEF Now
<1>9. \A k, q : k = Cursor => Now(k, q)' = Treated(q)
  <2>1. Cursor < Cursor'
    BY <1>4, <1>5
  <2> QED BY <2>1 DEF Now, Treated, Unsigned, Signed
<1> QED BY <1>3, <1>4, <1>5, <1>6, <1>7, <1>8, <1>9

\* Signing a payload of a cabinet is what makes it a changed one.
LEMMA ChangedNext ==
  ASSUME Preflight, step = "sign", step' = "sign", Len(db.binary) = Bins, InCabinet \/ InBinary,
         NextPayload, UNCHANGED original, NEW i \in 1 .. Cabs
  PROVE  Changed(i)' = (Changed(i) \/ (InCabinet /\ i = at[1] /\ Unsigned(work[Path])))
<1>1. Cursor' = Cursor + 1 /\ Cursor \in Nat \ {0}
  BY Advanced
<1>2. MembersOf(original, i)' = MembersOf(original, i)
      /\ \A j : Place(i, j)' = Place(i, j) /\ OldPayload(i, j)' = OldPayload(i, j)
  BY DEF Place, OldPayload
<1>3. \A j \in 1 .. Len(MembersOf(original, i)) : Place(i, j) \in 1 .. Start(original, Cabs + 1)
  BY PlacesApart
<1>4. Start(original, Cabs + 1) \in Nat
  <2>1. Cabs + 1 \in 1 .. Cabs + 1
    BY Places
  <2> QED BY <2>1, Places
<1>5. \A j \in 1 .. Len(MembersOf(original, i)) :
        (Place(i, j) < Cursor') = (Place(i, j) < Cursor \/ Place(i, j) = Cursor)
  BY <1>1, <1>3, <1>4
<1>6. Changed(i)' = (\E j \in 1 .. Len(MembersOf(original, i)) :
                       (Place(i, j) < Cursor \/ Place(i, j) = Cursor) /\ Unsigned(OldPayload(i, j)))
  BY <1>2, <1>5 DEF Changed, Unsigned
<1>7. Changed(i) = (\E j \in 1 .. Len(MembersOf(original, i)) :
                       Place(i, j) < Cursor /\ Unsigned(OldPayload(i, j)))
  BY DEF Changed
<1>8. (\E j \in 1 .. Len(MembersOf(original, i)) : Place(i, j) = Cursor /\ Unsigned(OldPayload(i, j)))
      = (InCabinet /\ i = at[1] /\ Unsigned(work[Path]))
  <2>1. CASE InCabinet
    <3>1. PICK k \in 1 .. Cabs : k = at[1]
      BY <2>1, Here
    <3>2. PICK l \in 1 .. Len(MembersOf(original, k)) : l = at[2]
      BY <2>1, <3>1, Here
    <3>3. Cursor = Place(k, l) /\ work[Path] = OldPayload(k, l)
      BY <2>1, <3>1, <3>2, Here
    <3>4. \A j \in 1 .. Len(MembersOf(original, i)) : Place(i, j) = Place(k, l) => i = k /\ j = l
      BY PlacesApart
    <3> QED BY <2>1, <3>1, <3>2, <3>3, <3>4
  <2>2. CASE ~InCabinet
    <3>1. PICK b \in 1 .. Bins : b = at[2]
      BY <2>2, Here
    <3>2. Cursor = BinaryPlace(b)
      BY <2>2, <3>1, Here
    <3>3. Bins \in Nat
      BY Places
    <3>4. Cursor > Start(original, Cabs + 1)
      BY <1>4, <3>2, <3>3 DEF BinaryPlace
    <3>5. \A j \in 1 .. Len(MembersOf(original, i)) : Place(i, j) # Cursor
      BY <1>1, <1>3, <1>4, <3>4
    <3> QED BY <2>2, <3>5
  <2> QED BY <2>1, <2>2
<1> QED
  BY <1>6, <1>7, <1>8

\* What a step does to the payload that is next and to its cabinet.
Treats ==
  /\ work' = [work EXCEPT ![Path] = Treated(work[Path])]
  /\ cabinets' = IF InCabinet /\ Unsigned(work[Path])
                 THEN [cabinets EXCEPT ![at[1]].changed = TRUE] ELSE cabinets

\* Going on to the next payload keeps Preflight when the workspace has what becomes of
\* this one.
LEMMA Advance ==
  ASSUME Preflight, step = "sign", step' = "sign", Len(db.binary) = Bins, InCabinet \/ InBinary,
         NextPayload, UNCHANGED <<original, disk, outcome, binaries>>,
         calls' \in Nat, expanded' \in Nat, result' \in [signed: Nat, preserved: Nat],
         Treats
  PROVE  Preflight'
<1>1. /\ Path = Cursor /\ Cursor \in 1 .. Len(work) /\ work[Path] \in PayloadFiles
      /\ at[1] \in 1 .. Cabs + 1 /\ at[2] \in Nat \ {0}
  BY Here
<1>2. /\ Cursor' = Cursor + 1 /\ Cursor \in Nat \ {0} /\ Cabs' = Cabs /\ Bins' = Bins
      /\ at' = <<at[1], at[2] + 1>>
      /\ \A k \in Nat : \A q : k # Cursor => Now(k, q)' = Now(k, q)
      /\ \A q : Now(Cursor, q) = q
      /\ \A k, q : k = Cursor => Now(k, q)' = Treated(q)
  BY Advanced
<1>3. /\ work \in Seq(PayloadFiles) /\ Cabs \in Nat /\ Bins \in Nat /\ binaries = Bins
      /\ Len(work) = Start(original, Cabs + 1) + Bins
      /\ Start(original, Cabs + 1) \in Nat
      /\ \A i \in 1 .. Cabs : Len(MembersOf(original, i)) \in Nat
  <2>1. Cabs \in Nat /\ Bins \in Nat /\ \A i \in 1 .. Cabs : Len(MembersOf(original, i)) \in Nat
    BY Places
  <2>2. Cabs + 1 \in 1 .. Cabs + 1
    BY <2>1
  <2>3. Start(original, Cabs + 1) \in Nat
    BY <2>2, Places
  <2> QED BY <2>1, <2>3 DEF Preflight, Types, WorkInv, PlaceInv
<1>4. /\ work' \in Seq(PayloadFiles) /\ Len(work') = Len(work)
      /\ \A k \in 1 .. Len(work) : k # Cursor => work'[k] = work[k]
      /\ work'[Cursor] = Treated(work[Cursor])
  <2>1. Treated(work[Path]) \in PayloadFiles
    BY <1>1 DEF Treated, Signed, PayloadFiles
  <2> DEFINE t == Treated(work[Path])
  <2> HIDE DEF t
  <2>2. work' = [work EXCEPT ![Cursor] = t] /\ t \in PayloadFiles
    BY <1>1, <2>1 DEF t, Treats
  <2>3. /\ work' \in Seq(PayloadFiles) /\ Len(work') = Len(work)
        /\ \A k \in 1 .. Len(work) : k # Cursor => work'[k] = work[k]
        /\ work'[Cursor] = t
    BY <1>1, <1>3, <2>2
  <2> QED BY <1>1, <2>3 DEF t
<1>5. Types'
  <2>1. Types
    BY DEF Preflight
  <2>2. at' \in (Nat \ {0}) \X (Nat \ {0})
    <3>1. at[1] \in Nat \ {0} /\ at[2] \in Nat \ {0}
      BY <2>1 DEF Types
    <3>2. at[2] + 1 \in Nat \ {0}
      BY SMTT(30), <3>1
    <3> QED BY <1>2, <3>1, <3>2
  <2> QED BY <1>4, <2>1, <2>2 DEF Types
<1>6. \A i : MembersOf(original, i)' = MembersOf(original, i)
  OBVIOUS
<1>7. PlaceInv'
  <2>1. CASE InCabinet
    <3>1. at[1] \in 1 .. Cabs /\ at[2] \in 1 .. Len(MembersOf(original, at[1]))
      BY <2>1, Here
    <3>2. Len(MembersOf(original, at[1])) \in Nat
      BY <1>3, <3>1
    <3>3. at'[1] = at[1] /\ at'[2] = at[2] + 1
      BY <1>2
    <3>4. at'[2] \in 1 .. Len(MembersOf(original, at[1])) + 1
      BY SMTT(30), <3>1, <3>2, <3>3
    <3>5. MembersOf(original, at[1])' = MembersOf(original, at[1])
      BY <3>3
    <3>6. ~(at'[1] > Cabs) /\ at'[1] \in 1 .. Cabs + 1
      BY SMTT(60), <1>3, <3>1, <3>3
    <3> QED BY <1>2, <1>3, <3>4, <3>5, <3>6 DEF PlaceInv
  <2>2. CASE ~InCabinet
    <3>1. at[1] = Cabs + 1 /\ at[2] \in 1 .. Bins
      BY <2>2, Here
    <3>2. at'[1] = Cabs + 1 /\ at'[2] = at[2] + 1
      BY <1>2, <3>1
    <3>3. ~(at'[1] <= Cabs) /\ at'[1] \in 1 .. Cabs + 1 /\ at'[2] \in 1 .. Bins + 1
      BY SMTT(60), <1>3, <3>1, <3>2
    <3> QED BY <1>2, <1>3, <3>3 DEF PlaceInv
  <2> QED BY <2>1, <2>2
<1>8. CabinetsInv'
  <2>1. cabinets = [i \in 1 .. Cabs |-> CabinetRecord(i)]
    BY CabinetsAre
  <2>2. \A i \in 1 .. Cabs : Changed(i)' = (Changed(i) \/ (InCabinet /\ i = at[1] /\ Unsigned(work[Path])))
    BY ChangedNext
  <2>3. \A i : Read(i) /\ Read(i)' /\ Listed(original, i)' = Listed(original, i)
    BY DEF Read, Listed
  <2>4. ASSUME NEW i \in 1 .. Cabs
        PROVE  CabinetRecord(i)' = IF InCabinet /\ i = at[1] /\ Unsigned(work[Path])
                                   THEN [CabinetRecord(i) EXCEPT !.changed = TRUE]
                                   ELSE CabinetRecord(i)
    <3>1. LastBefore(original, i)' = LastBefore(original, i)
      BY DEF LastBefore
    <3>2. CASE InCabinet /\ i = at[1] /\ Unsigned(work[Path])
      <4>1. Changed(i)' = TRUE
        BY <2>2, <3>2
      <4> QED BY <2>3, <3>1, <3>2, <4>1 DEF CabinetRecord
    <3>3. CASE ~(InCabinet /\ i = at[1] /\ Unsigned(work[Path]))
      <4>1. Changed(i)' = Changed(i)
        BY <2>2, <3>3 DEF Changed
      <4>2. CabinetRecord(i)' = CabinetRecord(i)
        BY <2>3, <3>1, <4>1 DEF CabinetRecord
      <4> QED BY <3>3, <4>2
    <3> QED BY <3>2, <3>3
  <2>5. DOMAIN cabinets' = 1 .. Cabs /\ cabinets' = [i \in 1 .. Cabs |-> cabinets'[i]]
    BY <2>1 DEF Treats
  <2>6. ASSUME NEW i \in 1 .. Cabs PROVE cabinets'[i] = CabinetRecord(i)'
    <3>1. cabinets[i] = CabinetRecord(i) /\ i \in DOMAIN cabinets
      BY <2>1
    <3>2. CASE InCabinet /\ i = at[1] /\ Unsigned(work[Path])
      <4>1. cabinets'[i] = [CabinetRecord(i) EXCEPT !.changed = TRUE]
        BY <3>1, <3>2 DEF Treats
      <4> QED BY <2>4, <3>2, <4>1
    <3>3. CASE ~(InCabinet /\ i = at[1] /\ Unsigned(work[Path]))
      <4>1. cabinets'[i] = CabinetRecord(i)
        BY <3>1, <3>3 DEF Treats
      <4> QED BY <2>4, <3>3, <4>1
    <3> QED BY <3>2, <3>3
  <2>7. cabinets' = [i \in 1 .. Cabs |-> CabinetRecord(i)']
    BY <2>5, <2>6
  <2> QED BY <1>2, <2>7 DEF CabinetsInv
<1>9. WorkInv'
  <2>1. \A k, q : k \in 1 .. Len(work) /\ work[k] = Now(k, q) => work'[k] = Now(k, q)'
    <3> SUFFICES ASSUME NEW k \in 1 .. Len(work), NEW q, work[k] = Now(k, q)
                 PROVE  work'[k] = Now(k, q)'
      OBVIOUS
    <3>1. k \in Nat
      BY <1>3
    <3>2. CASE k = Cursor
      BY <1>2, <1>4, <3>2
    <3>3. CASE k # Cursor
      BY <1>2, <1>4, <3>1, <3>3
    <3> QED BY <3>2, <3>3
  <2>2. ASSUME NEW i \in 1 .. Cabs, NEW j \in 1 .. Len(MembersOf(original, i))
        PROVE  work'[Place(i, j)'] = Now(Place(i, j), OldPayload(i, j))'
    <3>1. PICK k \in Nat : k = Place(i, j)
      BY SMTT(30), <1>3, PlacesApart
    <3>2. PICK q : q = OldPayload(i, j)
      OBVIOUS
    <3>3. k \in 1 .. Len(work)
      BY SMTT(60), <1>3, <3>1, PlacesApart
    <3>4. Read(i)
      BY DEF Read
    <3>5. work[k] = Now(k, q)
      BY <3>1, <3>2, <3>4 DEF Preflight, WorkInv
    <3>6. Place(i, j)' = k /\ OldPayload(i, j)' = q
      BY <3>1, <3>2 DEF Place, OldPayload
    <3>7. Now(Place(i, j), OldPayload(i, j))' = Now(k, q)'
      BY <3>6 DEF Now
    <3> QED BY <2>1, <3>3, <3>5, <3>6, <3>7
  <2>3. ASSUME NEW b \in 1 .. Bins
        PROVE  work'[BinaryPlace(b)'] = Now(BinaryPlace(b), original.binary[b].payload)'
    <3>1. PICK k \in Nat : k = BinaryPlace(b)
      BY <1>3 DEF BinaryPlace
    <3>2. PICK q : q = original.binary[b].payload
      OBVIOUS
    <3>3. k \in 1 .. Len(work)
      BY SMTT(30), <1>3, <3>1 DEF BinaryPlace
    <3>4. work[k] = Now(k, q)
      BY <1>3, <3>1, <3>2 DEF Preflight, WorkInv
    <3>5. BinaryPlace(b)' = k /\ original.binary[b].payload' = q
      BY <1>2, <3>1, <3>2 DEF BinaryPlace
    <3>6. Now(BinaryPlace(b), original.binary[b].payload)' = Now(k, q)'
      BY <3>5 DEF Now
    <3> QED BY <2>1, <3>3, <3>4, <3>5, <3>6
  <2>4. Len(work') = Start(original, Cabs + 1)' + binaries'
    BY <1>2, <1>3, <1>4
  <2>5. 1 .. binaries' = 1 .. Bins
    BY <1>3
  <2> QED BY <1>2, <1>6, <2>2, <2>3, <2>4, <2>5 DEF WorkInv
<1>10. SoundInv'
  BY SoundStays
<1> QED
  BY <1>5, <1>7, <1>8, <1>9, <1>10 DEF Preflight

-----------------------------------------------------------------------------
\* The database while payloads are signed.

\* The stream that replaces a changed cabinet.
RebuiltStream(i) ==
  [regular |-> TRUE, made |-> "mszip",
   expands |-> TotalSize([j \in 1 .. Len(MembersOf(original, i)) |-> Treated(OldPayload(i, j))]),
   members |-> [j \in 1 .. Len(MembersOf(original, i)) |->
                  [name |-> MembersOf(original, i)[j].name, size |-> Size(Treated(OldPayload(i, j))),
                   meta |-> MembersOf(original, i)[j].meta, payload |-> Treated(OldPayload(i, j))]]]

\* The tables that are never written.
SameTables ==
  /\ DOMAIN db = DOMAIN original
  /\ db.storages = original.storages /\ db.compressed = original.compressed
  /\ db.code = original.code /\ db.media = original.media

\* The rows of files have the sizes that their members have by now.
FileInv ==
  /\ DOMAIN db.file = DOMAIN original.file
  /\ db.file = [r \in DOMAIN original.file |-> [original.file[r] EXCEPT !.size = db.file[r].size]]
  /\ \A r \in DOMAIN original.file, i \in 1 .. Cabs : \A j \in 1 .. Len(MembersOf(original, i)) :
       original.file[r].id = MembersOf(original, i)[j].name =>
         db.file[r].size = Size(Now(Place(i, j), OldPayload(i, j)))

\* A hash that was right for an unversioned file is right for what the file is by now.
HashRows ==
  /\ DOMAIN db.hash = DOMAIN original.hash
  /\ db.hash = [r \in DOMAIN original.hash |-> [original.hash[r] EXCEPT !.of = db.hash[r].of]]
  /\ \A r \in DOMAIN original.hash, i \in 1 .. Cabs : \A j \in 1 .. Len(MembersOf(original, i)) :
       /\ original.hash[r].id = MembersOf(original, i)[j].name
       /\ Unversioned(original, original.hash[r].id)
       /\ original.hash[r].of = OldPayload(i, j)
       => db.hash[r].of = Now(Place(i, j), OldPayload(i, j))

\* Hashes are of payloads.
HashTypes == \A r \in DOMAIN original.hash : db.hash[r].of \in PayloadFiles

\* The hashes of the database.
HashInv == HashRows /\ HashTypes

\* The cabinets that have been rebuilt.
Finished(i) == i < at[1] /\ Changed(i)

\* Those and no others have been replaced.
StreamsInv ==
  /\ DOMAIN db.streams = DOMAIN original.streams
  /\ \A c \in DOMAIN original.streams :
       (\A i \in 1 .. Cabs : original.media[i].cabinet = c => ~Finished(i))
       => db.streams[c] = original.streams[c]
  /\ \A i \in 1 .. Cabs : Finished(i) => db.streams[original.media[i].cabinet] = RebuiltStream(i)

\* The Binary rows have the payloads as they are by now.
BinaryInv ==
  db.binary = [b \in 1 .. Bins |->
                 [original.binary[b] EXCEPT !.payload = Now(BinaryPlace(b), original.binary[b].payload)]]

\* What the counters say.
CountInv ==
  /\ calls <= Cursor - 1
  /\ result.signed + result.preserved <= calls
  /\ result.signed = 0 <=>
       /\ \A i \in 1 .. Cabs : ~Changed(i)
       /\ \A b \in 1 .. Bins : BinaryPlace(b) < Cursor => ~Unsigned(original.binary[b].payload)

\* The database agrees with the place in the signing loops.
Signing == SameTables /\ FileInv /\ HashInv /\ StreamsInv /\ BinaryInv /\ CountInv

\* The Binary rows stay as many.
LEMMA BinaryLength ==
  ASSUME Preflight, BinaryInv
  PROVE  DOMAIN db.binary = 1 .. Bins /\ Len(db.binary) = Bins
<1>1. Bins \in Nat
  BY OriginalFacts DEF Preflight
<1> DEFINE R == {db.binary[b] : b \in 1 .. Bins}
<1>2. DOMAIN db.binary = 1 .. Bins /\ db.binary = [b \in 1 .. Bins |-> db.binary[b]]
  BY DEF BinaryInv
<1>3. \A b \in 1 .. Bins : db.binary[b] \in R
  OBVIOUS
<1> HIDE DEF R
<1> QED
  BY <1>1, <1>2, <1>3, FunctionSeq

\* What the payloads are after the next one.
LEMMA NowNext ==
  ASSUME Preflight, step = "sign", step' = "sign", Len(db.binary) = Bins, InCabinet \/ InBinary,
         NextPayload, UNCHANGED original
  PROVE  /\ \A i \in 1 .. Cabs : \A j \in 1 .. Len(MembersOf(original, i)) :
              Now(Place(i, j), OldPayload(i, j))' =
                IF InCabinet /\ i = at[1] /\ j = at[2] THEN Treated(OldPayload(i, j))
                ELSE Now(Place(i, j), OldPayload(i, j))
         /\ \A b \in 1 .. Bins :
              Now(BinaryPlace(b), original.binary[b].payload)' =
                IF ~InCabinet /\ b = at[2] THEN Treated(original.binary[b].payload)
                ELSE Now(BinaryPlace(b), original.binary[b].payload)
<1>1. /\ Cursor \in Nat \ {0} /\ Cabs' = Cabs
      /\ \A k \in Nat : \A q : k # Cursor => Now(k, q)' = Now(k, q)
      /\ \A k, q : k = Cursor => Now(k, q)' = Treated(q)
  BY Advanced
<1>2. /\ Cabs \in Nat /\ Bins \in Nat /\ Start(original, Cabs + 1) \in Nat
  <2>1. Cabs \in Nat /\ Bins \in Nat
    BY Places
  <2>2. Cabs + 1 \in 1 .. Cabs + 1
    BY <2>1
  <2> QED BY <2>1, <2>2, Places
<1>3. ASSUME NEW i \in 1 .. Cabs, NEW j \in 1 .. Len(MembersOf(original, i))
      PROVE  Now(Place(i, j), OldPayload(i, j))' =
                IF InCabinet /\ i = at[1] /\ j = at[2] THEN Treated(OldPayload(i, j))
                ELSE Now(Place(i, j), OldPayload(i, j))
  <2>1. PICK q : q = OldPayload(i, j)
    OBVIOUS
  <2>2. Place(i, j) \in 1 .. Start(original, Cabs + 1)
    BY PlacesApart
  <2>3. PICK k \in Nat : k = Place(i, j) /\ k <= Start(original, Cabs + 1)
    BY <1>2, <2>2
  <2>4. OldPayload(i, j)' = q /\ Place(i, j)' = k
    BY <2>1, <2>3 DEF OldPayload, Place
  <2>5. Now(Place(i, j), OldPayload(i, j))' = Now(k, q)'
    BY <2>4 DEF Now
  <2>6. k = Cursor <=> InCabinet /\ i = at[1] /\ j = at[2]
    <3>1. CASE InCabinet
      <4>1. PICK m \in 1 .. Cabs : m = at[1]
        BY <3>1, Here
      <4>2. PICK l \in 1 .. Len(MembersOf(original, m)) : l = at[2]
        BY <3>1, <4>1, Here
      <4>3. Cursor = Place(m, l)
        BY <3>1, <4>1, <4>2, Here
      <4>4. Place(i, j) = Place(m, l) => i = m /\ j = l
        BY PlacesApart
      <4> QED BY <2>3, <3>1, <4>1, <4>2, <4>3, <4>4
    <3>2. CASE ~InCabinet
      <4>1. PICK b \in 1 .. Bins : b = at[2]
        BY <3>2, Here
      <4>2. Cursor = BinaryPlace(b)
        BY <3>2, <4>1, Here
      <4>3. k # Cursor
        BY <1>2, <2>3, <4>2 DEF BinaryPlace
      <4> QED BY <3>2, <4>3
    <3> QED BY <3>1, <3>2
  <2> QED BY <1>1, <2>1, <2>3, <2>5, <2>6
<1>4. ASSUME NEW b \in 1 .. Bins
      PROVE  Now(BinaryPlace(b), original.binary[b].payload)' =
                IF ~InCabinet /\ b = at[2] THEN Treated(original.binary[b].payload)
                ELSE Now(BinaryPlace(b), original.binary[b].payload)
  <2>1. PICK q : q = original.binary[b].payload
    OBVIOUS
  <2>2. PICK k \in Nat : k = BinaryPlace(b) /\ k > Start(original, Cabs + 1)
    BY <1>2 DEF BinaryPlace
  <2>3. original.binary[b].payload' = q /\ BinaryPlace(b)' = k
    BY <1>1, <2>1, <2>2 DEF BinaryPlace
  <2>4. Now(BinaryPlace(b), original.binary[b].payload)' = Now(k, q)'
    BY <2>3 DEF Now
  <2>5. k = Cursor <=> ~InCabinet /\ b = at[2]
    <3>1. CASE InCabinet
      <4>1. PICK m \in 1 .. Cabs : m = at[1]
        BY <3>1, Here
      <4>2. PICK l \in 1 .. Len(MembersOf(original, m)) : l = at[2]
        BY <3>1, <4>1, Here
      <4>3. Cursor = Place(m, l)
        BY <3>1, <4>1, <4>2, Here
      <4>4. Place(m, l) \in 1 .. Start(original, Cabs + 1)
        BY PlacesApart
      <4>5. k # Cursor
        BY <1>2, <2>2, <4>3, <4>4
      <4> QED BY <3>1, <4>5
    <3>2. CASE ~InCabinet
      <4>1. PICK c \in 1 .. Bins : c = at[2]
        BY <3>2, Here
      <4>2. Cursor = BinaryPlace(c)
        BY <3>2, <4>1, Here
      <4>3. k = Cursor <=> b = c
        BY <1>2, <2>2, <4>2 DEF BinaryPlace
      <4> QED BY <3>2, <4>1, <4>3
    <3> QED BY <3>1, <3>2
  <2> QED BY <1>1, <2>1, <2>2, <2>4, <2>5
<1> QED BY <1>3, <1>4

\* The row of a member has the size of its payload.
LEMMA RowSize ==
  ASSUME Preflight, step \in {"binaries", "sign"}, NEW r \in DOMAIN original.file,
         NEW i \in 1 .. Cabs, NEW j \in 1 .. Len(MembersOf(original, i)),
         original.file[r].id = MembersOf(original, i)[j].name
  PROVE  original.file[r].size = Size(OldPayload(i, j))
<1>1. IsPackage(original) /\ DOMAIN original.file = 1 .. Len(original.file)
  BY OriginalFacts, PackageFile DEF Preflight
<1>2. CabinetSound(original, i) /\ FilesSound(original)
  BY DEF Preflight, SoundInv, Read
<1>3. Size(OldPayload(i, j)) = MembersOf(original, i)[j].size
  BY <1>2 DEF CabinetSound, OldPayload
<1>4. PICK s \in 1 .. Len(original.file) : original.file[s].id = MembersOf(original, i)[j].name
                                          /\ original.file[s].size = MembersOf(original, i)[j].size
  BY <1>2 DEF CabinetSound, HasRow
<1>5. r = s
  BY <1>1, <1>2, <1>4 DEF FilesSound
<1> QED
  BY <1>3, <1>4, <1>5

\* Signing holds when the payloads are about to be signed.
LEMMA SigningStart ==
  ASSUME Preflight, ReadHashes, step' # "end"
  PROVE  Signing'
<1>0. /\ step = "binaries" /\ step' = "sign" /\ db = original /\ at = <<1, 1>>
      /\ calls = 0 /\ result = [signed |-> 0, preserved |-> 0] /\ Cursor' = 1
      /\ UNCHANGED <<original, db, at, calls, result>>
  <2>1. step = "binaries" /\ step' = "sign" /\ UNCHANGED <<original, db, at, calls, result>>
    BY DEF ReadHashes, Invalid, Leave, Goto, input
  <2> QED BY <2>1, HashesStep DEF Preflight, Types, PlaceInv
<1>1. /\ IsPackage(original) /\ Cabs \in Nat /\ Bins \in Nat /\ Start(original, Cabs + 1) \in Nat
      /\ Cabs' = Cabs /\ Bins' = Bins
  <2>1. Cabs \in Nat /\ Bins \in Nat /\ IsPackage(original)
    BY <1>0, Places
  <2>2. Cabs + 1 \in 1 .. Cabs + 1
    BY <2>1
  <2> QED BY <1>0, <2>1, <2>2, Places DEF Cabs, Bins
<1>2. ASSUME NEW i \in 1 .. Cabs, NEW j \in 1 .. Len(MembersOf(original, i))
      PROVE  Now(Place(i, j), OldPayload(i, j))' = OldPayload(i, j) /\ ~(Place(i, j) < Cursor)'
  <2>1. Place(i, j) \in 1 .. Start(original, Cabs + 1)
    BY <1>0, PlacesApart
  <2>2. Place(i, j)' = Place(i, j) /\ OldPayload(i, j)' = OldPayload(i, j)
    BY <1>0 DEF Place, OldPayload
  <2>3. ~(Place(i, j)' < Cursor')
    BY <1>0, <1>1, <2>1, <2>2
  <2> QED BY <2>2, <2>3 DEF Now
<1>3. ASSUME NEW b \in 1 .. Bins
      PROVE  Now(BinaryPlace(b), original.binary[b].payload)' = original.binary[b].payload
             /\ ~(BinaryPlace(b) < Cursor)'
  <2>1. BinaryPlace(b)' = BinaryPlace(b) /\ BinaryPlace(b) \in Nat \ {0}
    BY <1>0, <1>1 DEF BinaryPlace
  <2>2. ~(BinaryPlace(b)' < Cursor')
    BY <1>0, <2>1
  <2> QED BY <1>0, <2>2 DEF Now
<1>4. \A i \in 1 .. Cabs : ~Changed(i)'
  <2>1. \A i : MembersOf(original, i)' = MembersOf(original, i)
    BY <1>0
  <2> QED BY <1>2, <2>1 DEF Changed
<1>5. SameTables'
  BY <1>0 DEF SameTables
<1>6. FileInv'
  <2>1. DOMAIN original.file = 1 .. Len(original.file)
        /\ \A r \in 1 .. Len(original.file) :
              original.file[r] \in [id: STRING, size: Int, sequence: Int, attributes: SUBSET STRING,
                                    version: BOOLEAN]
    BY <1>1, PackageFile
  <2>2. original.file = [r \in DOMAIN original.file |-> original.file[r]]
    <3>1. \E S : original.file \in Seq(S)
      BY <1>1 DEF IsPackage
    <3> QED BY <3>1
  <2>3. \A r \in DOMAIN original.file : original.file[r] = [original.file[r] EXCEPT !.size = original.file[r].size]
    BY <2>1
  <2>4. original.file = [r \in DOMAIN original.file |-> [original.file[r] EXCEPT !.size = original.file[r].size]]
    BY <2>2, <2>3
  <2>5. ASSUME NEW r \in DOMAIN original.file, NEW i \in 1 .. Cabs,
               NEW j \in 1 .. Len(MembersOf(original, i)),
               original.file[r].id = MembersOf(original, i)[j].name
        PROVE  original.file[r].size = Size(Now(Place(i, j), OldPayload(i, j))')
    BY <1>0, <1>2, <2>5, RowSize
  <2>6. \A q : Size(q)' = Size(q')
    BY DEF Size
  <2>7. original'.file = original.file /\ db'.file = original.file
        /\ \A i : MembersOf(original, i)' = MembersOf(original, i)
    BY <1>0
  <2>8. \A r \in DOMAIN original.file, i \in 1 .. Cabs : \A j \in 1 .. Len(MembersOf(original, i)) :
          original.file[r].id = MembersOf(original, i)[j].name =>
            db'.file[r].size = Size(Now(Place(i, j), OldPayload(i, j)))'
    BY <2>5, <2>7 DEF Size
  <2> QED BY <1>1, <2>4, <2>7, <2>8 DEF FileInv
<1>7. HashInv'
  <2>1. DOMAIN original.hash = 1 .. Len(original.hash)
        /\ \A r \in 1 .. Len(original.hash) :
              original.hash[r] \in [id: STRING, options: Int, of: PayloadFiles]
    BY <1>1, PackageHash
  <2>2. original.hash = [r \in DOMAIN original.hash |-> original.hash[r]]
    <3>1. \E S : original.hash \in Seq(S)
      BY <1>1 DEF IsPackage
    <3> QED BY <3>1
  <2>3. \A r \in DOMAIN original.hash : original.hash[r] = [original.hash[r] EXCEPT !.of = original.hash[r].of]
    BY <2>1
  <2>4. original.hash = [r \in DOMAIN original.hash |-> [original.hash[r] EXCEPT !.of = original.hash[r].of]]
    BY <2>2, <2>3
  <2>5. \A r \in DOMAIN original.hash, i \in 1 .. Cabs : \A j \in 1 .. Len(MembersOf(original, i)) :
          original.hash[r].of = OldPayload(i, j) =>
            original.hash[r].of = Now(Place(i, j), OldPayload(i, j))'
    BY <1>2
  <2>6. /\ original'.hash = original.hash /\ db'.hash = original.hash
        /\ \A i : MembersOf(original, i)' = MembersOf(original, i)
        /\ \A i, j : OldPayload(i, j)' = OldPayload(i, j)
    BY <1>0 DEF OldPayload
  <2>7. HashRows'
    BY <1>1, <2>4, <2>5, <2>6 DEF HashRows
  <2>8. HashTypes'
    <3>1. \A r \in DOMAIN original.hash : original.hash[r].of \in PayloadFiles
      BY <2>1
    <3> QED BY <2>6, <3>1 DEF HashTypes
  <2> QED BY <2>7, <2>8 DEF HashInv
<1>8. StreamsInv'
  <2>1. \A i \in 1 .. Cabs : ~Finished(i)'
    BY SMTT(30), <1>4 DEF Finished
  <2> QED BY <1>0, <1>1, <2>1 DEF StreamsInv
<1>9. BinaryInv'
  <2>1. \A b \in 1 .. Bins : original.binary[b] =
           [original.binary[b] EXCEPT !.payload = Now(BinaryPlace(b), original.binary[b].payload)']
    <3>1. \A b \in 1 .. Bins : original.binary[b] \in [name: STRING, payload: PayloadFiles]
      BY <1>1, PackageBinary DEF Bins
    <3> QED BY <1>3, <3>1
  <2>2. original.binary = [b \in 1 .. Bins |-> original.binary[b]]
    <3>1. \E S : original.binary \in Seq(S)
      BY <1>1 DEF IsPackage
    <3> QED BY <3>1 DEF Bins
  <2>3. db'.binary = [b \in 1 .. Bins |->
           [original.binary[b] EXCEPT !.payload = Now(BinaryPlace(b), original.binary[b].payload)']]
    BY <1>0, <2>1, <2>2
  <2> QED BY <1>0, <1>1, <2>3 DEF BinaryInv
<1>10. CountInv'
  <2>1. \A b \in 1 .. Bins : ~(BinaryPlace(b) < Cursor)'
    BY <1>3
  <2>2. calls' = 0 /\ result'.signed = 0 /\ result'.preserved = 0
    BY <1>0
  <2> QED BY <1>0, <1>1, <1>4, <2>1, <2>2 DEF CountInv
<1> QED
  BY <1>5, <1>6, <1>7, <1>8, <1>9, <1>10 DEF Signing

\* A payload that has nothing to be done to it: what the payloads are stays.
LEMMA PassFacts ==
  ASSUME Preflight, BinaryInv, SkipPayload \/ PreservePayload
  PROVE  /\ step = "sign" /\ step' = "sign"
         /\ InCabinet \/ InBinary
         /\ NextPayload
         /\ UNCHANGED <<original, disk, outcome, db, cabinets, work, expanded, binaries>>
         /\ ~Unsigned(work[Path]) /\ Len(db.binary) = Bins
         /\ \A i \in 1 .. Cabs : \A j \in 1 .. Len(MembersOf(original, i)) :
              Now(Place(i, j), OldPayload(i, j))' = Now(Place(i, j), OldPayload(i, j))
         /\ \A b \in 1 .. Bins :
              Now(BinaryPlace(b), original.binary[b].payload)' = Now(BinaryPlace(b), original.binary[b].payload)
<1>0. /\ step = "sign" /\ step' = "sign"
      /\ InCabinet \/ InBinary
      /\ NextPayload
      /\ UNCHANGED <<original, disk, outcome, db, cabinets, work, expanded, binaries>>
  <2>1. CASE SkipPayload
    BY <2>1 DEF SkipPayload, Goto, input
  <2>2. CASE PreservePayload
    BY <2>2 DEF PreservePayload, Goto, input
  <2> QED BY <2>1, <2>2
<1>1. ~Unsigned(work[Path])
  BY DEF SkipPayload, PreservePayload, Unsigned
<1>3. Len(db.binary) = Bins
  BY BinaryLength
<1>6. Cursor' = Cursor + 1 /\ Cursor \in Nat \ {0} /\ Cabs' = Cabs /\ Bins' = Bins
      /\ at' = <<at[1], at[2] + 1>>
  BY <1>0, <1>3, Advanced
<1>8. \A i \in 1 .. Cabs : \A j \in 1 .. Len(MembersOf(original, i)) :
        Now(Place(i, j), OldPayload(i, j))' = Now(Place(i, j), OldPayload(i, j))
  <2> SUFFICES ASSUME NEW i \in 1 .. Cabs, NEW j \in 1 .. Len(MembersOf(original, i))
               PROVE  Now(Place(i, j), OldPayload(i, j))' = Now(Place(i, j), OldPayload(i, j))
    OBVIOUS
  <2>1. CASE InCabinet /\ i = at[1] /\ j = at[2]
    <3>1. Now(Place(i, j), OldPayload(i, j))' = Treated(OldPayload(i, j))
      BY <1>0, <1>3, <2>1, NowNext
    <3>2. work[Path] = OldPayload(i, j) /\ Place(i, j) = Cursor
      BY <1>0, <1>3, <2>1, Here
    <3>3. Now(Place(i, j), OldPayload(i, j)) = OldPayload(i, j)
      BY <1>6, <3>2 DEF Now
    <3> QED BY <1>1, <3>1, <3>2, <3>3 DEF Treated
  <2>2. CASE ~(InCabinet /\ i = at[1] /\ j = at[2])
    BY <1>0, <1>3, <2>2, NowNext
  <2> QED BY <2>1, <2>2
<1>9. \A b \in 1 .. Bins :
        Now(BinaryPlace(b), original.binary[b].payload)' = Now(BinaryPlace(b), original.binary[b].payload)
  <2> SUFFICES ASSUME NEW b \in 1 .. Bins
               PROVE  Now(BinaryPlace(b), original.binary[b].payload)' = Now(BinaryPlace(b), original.binary[b].payload)
    OBVIOUS
  <2>1. CASE ~InCabinet /\ b = at[2]
    <3>1. Now(BinaryPlace(b), original.binary[b].payload)' = Treated(original.binary[b].payload)
      BY <1>0, <1>3, <2>1, NowNext
    <3>2. work[Path] = original.binary[b].payload /\ BinaryPlace(b) = Cursor
      BY <1>0, <1>3, <2>1, Here
    <3>3. Now(BinaryPlace(b), original.binary[b].payload) = original.binary[b].payload
      BY <1>6, <3>2 DEF Now
    <3> QED BY <1>1, <3>1, <3>2, <3>3 DEF Treated
  <2>2. CASE ~(~InCabinet /\ b = at[2])
    BY <1>0, <1>3, <2>2, NowNext
  <2> QED BY <2>1, <2>2
<1> QED BY <1>0, <1>1, <1>3, <1>8, <1>9

\* A payload that is passed over or already signed keeps both invariants.
LEMMA PassStep ==
  ASSUME Preflight, Signing, SkipPayload \/ PreservePayload
  PROVE  Preflight' /\ Signing'
<1>0. /\ step = "sign" /\ step' = "sign"
      /\ InCabinet \/ InBinary
      /\ NextPayload
      /\ UNCHANGED <<original, disk, outcome, db, cabinets, work, expanded, binaries>>
  BY PassFacts DEF Signing
<1>1. ~Unsigned(work[Path])
  BY PassFacts DEF Signing
<1>2. /\ calls' \in Nat /\ result' \in [signed: Nat, preserved: Nat]
      /\ result'.signed = result.signed
      /\ result'.preserved - result.preserved <= calls' - calls
      /\ calls' <= calls + 1
      /\ calls \in Nat /\ result.signed \in Nat /\ result.preserved \in Nat
      /\ result'.preserved \in Nat
  <2>1. calls \in Nat /\ result \in [signed: Nat, preserved: Nat]
    BY DEF Preflight, Types
  <2>2. CASE SkipPayload
    <3>1. calls' = calls /\ result' = result
      BY <2>2 DEF SkipPayload
    <3> QED BY <2>1, <3>1
  <2>3. CASE PreservePayload
    <3>1. calls' = calls + 1 /\ result' = [result EXCEPT !.preserved = @ + 1]
      BY <2>3 DEF PreservePayload
    <3>2. result'.signed = result.signed /\ result'.preserved = result.preserved + 1
          /\ result' \in [signed: Nat, preserved: Nat]
      BY <2>1, <3>1
    <3> QED BY <2>1, <3>1, <3>2
  <2> QED BY <2>2, <2>3
<1>3. Len(db.binary) = Bins
  BY PassFacts DEF Signing
<1>4. Treats
  <2>1. Treated(work[Path]) = work[Path]
    BY <1>1 DEF Treated
  <2>2. work \in Seq(PayloadFiles)
    BY DEF Preflight, Types
  <2>3. work = [work EXCEPT ![Path] = work[Path]]
    BY <2>2
  <2> QED BY <1>0, <1>1, <2>1, <2>3 DEF Treats
<1>5. Preflight'
  <2>1. expanded' \in Nat
    BY <1>0 DEF Preflight, Types
  <2> QED BY <1>0, <1>2, <1>3, <1>4, <2>1, Advance
<1>6. Cursor' = Cursor + 1 /\ Cursor \in Nat \ {0} /\ Cabs' = Cabs /\ Bins' = Bins
      /\ at' = <<at[1], at[2] + 1>>
  BY <1>0, <1>3, Advanced
<1>7. ASSUME NEW i \in 1 .. Cabs
      PROVE  Changed(i)' = Changed(i) /\ Finished(i)' = Finished(i)
  <2>1. Changed(i)' = (Changed(i) \/ (InCabinet /\ i = at[1] /\ Unsigned(work[Path])))
    BY <1>0, <1>3, ChangedNext
  <2>2. Changed(i)' = Changed(i)
    BY <1>1, <2>1 DEF Changed
  <2> QED BY <1>6, <2>2 DEF Finished
<1>8. \A i \in 1 .. Cabs : \A j \in 1 .. Len(MembersOf(original, i)) :
        Now(Place(i, j), OldPayload(i, j))' = Now(Place(i, j), OldPayload(i, j))
  BY PassFacts DEF Signing
<1>9. \A b \in 1 .. Bins :
        Now(BinaryPlace(b), original.binary[b].payload)' = Now(BinaryPlace(b), original.binary[b].payload)
  BY PassFacts DEF Signing
<1>10. /\ \A i : MembersOf(original, i)' = MembersOf(original, i)
       /\ \A i, j : OldPayload(i, j)' = OldPayload(i, j)
       /\ \A q : Size(q)' = Size(q')
       /\ Unversioned(original, 0)' = Unversioned(original', 0)
  BY <1>0 DEF OldPayload, Size, Unversioned
<1>11. SameTables'
  BY <1>0 DEF Signing, SameTables
<1>12. FileInv'
  <2>1. FileInv
    BY DEF Signing
  <2>2. \A i \in 1 .. Cabs : \A j \in 1 .. Len(MembersOf(original, i)) :
          Size(Now(Place(i, j), OldPayload(i, j)))' = Size(Now(Place(i, j), OldPayload(i, j)))
    BY <1>8 DEF Size
  <2> QED BY SMTT(30), <1>0, <1>6, <1>10, <2>1, <2>2 DEF FileInv
<1>13. HashInv'
  <2>1. HashRows /\ HashTypes
    BY DEF Signing, HashInv
  <2>2. \A r : Unversioned(original, original.hash[r].id)' = Unversioned(original, original.hash[r].id)
    BY <1>0 DEF Unversioned
  <2>3. HashRows'
    BY SMTT(30), <1>0, <1>6, <1>8, <1>10, <2>1, <2>2 DEF HashRows
  <2>4. HashTypes'
    BY <1>0, <2>1 DEF HashTypes
  <2> QED BY <2>3, <2>4 DEF HashInv
<1>14. StreamsInv'
  <2>1. StreamsInv
    BY DEF Signing
  <2>2. \A i : RebuiltStream(i)' = RebuiltStream(i)
    BY <1>0 DEF RebuiltStream, OldPayload
  <2> QED BY <1>0, <1>6, <1>7, <2>1, <2>2 DEF StreamsInv
<1>15. BinaryInv'
  <2>1. BinaryInv
    BY DEF Signing
  <2> QED BY <1>0, <1>6, <1>9, <2>1 DEF BinaryInv
<1>16. CountInv'
  <2>1. CountInv
    BY DEF Signing
  <2>2. \A b \in 1 .. Bins :
          (BinaryPlace(b) < Cursor)' /\ Unsigned(original.binary[b].payload)
          <=> BinaryPlace(b) < Cursor /\ Unsigned(original.binary[b].payload)
    <3> SUFFICES ASSUME NEW b \in 1 .. Bins
                 PROVE  (BinaryPlace(b) < Cursor)' /\ Unsigned(original.binary[b].payload)
                        <=> BinaryPlace(b) < Cursor /\ Unsigned(original.binary[b].payload)
      OBVIOUS
    <3>1. BinaryPlace(b) \in Nat /\ BinaryPlace(b)' = BinaryPlace(b)
      <4>1. Cabs \in Nat /\ Bins \in Nat
        BY <1>0, Places
      <4>2. Cabs + 1 \in 1 .. Cabs + 1
        BY <4>1
      <4>3. Start(original, Cabs + 1) \in Nat
        BY <1>0, <4>2, Places
      <4> QED BY <1>0, <1>6, <4>1, <4>3 DEF BinaryPlace
    <3>2. CASE BinaryPlace(b) = Cursor
      <4>1. ~InCabinet /\ b = at[2]
        <5>1. InCabinet => Cursor \in 1 .. Start(original, Cabs + 1)
          BY <1>0, <1>3, Here, PlacesApart
        <5>2. Cabs \in Nat /\ Bins \in Nat
          BY <1>0, Places
        <5>3. Cabs + 1 \in 1 .. Cabs + 1
          BY <5>2
        <5>4. Start(original, Cabs + 1) \in Nat
          BY <1>0, <5>3, Places
        <5>5. ~InCabinet
          BY <3>2, <5>1, <5>2, <5>4 DEF BinaryPlace
        <5>6. at[2] \in 1 .. Bins /\ Cursor = BinaryPlace(at[2])
          BY <1>0, <1>3, <5>5, Here
        <5> QED BY <3>2, <5>2, <5>4, <5>5, <5>6 DEF BinaryPlace
      <4>2. work[Path] = original.binary[b].payload
        BY <1>0, <1>3, <4>1, Here
      <4> QED BY <1>1, <4>2
    <3>3. CASE BinaryPlace(b) # Cursor
      BY <1>6, <3>1, <3>3
    <3> QED BY <3>2, <3>3
  <2>3. \A b : Unsigned(original.binary[b].payload)' = Unsigned(original.binary[b].payload)
    BY <1>0 DEF Unsigned
  <2>4. calls' <= Cursor' - 1 /\ result'.signed + result'.preserved <= calls'
    BY <1>2, <1>6, <2>1 DEF CountInv
  <2> QED BY <1>2, <1>6, <1>7, <2>1, <2>2, <2>3, <2>4 DEF CountInv
<1> QED
  BY <1>5, <1>11, <1>12, <1>13, <1>14, <1>15, <1>16 DEF Signing

\* What signing the next payload does.
LEMMA SignFacts ==
  ASSUME Preflight, Signing, SignPayload, step' # "end"
  PROVE  /\ step = "sign" /\ step' = "sign"
         /\ InCabinet \/ InBinary
         /\ NextPayload
         /\ UNCHANGED <<original, disk, outcome, binaries>>
         /\ Unsigned(work[Path]) /\ Treated(work[Path]) = Signed(work[Path])
         /\ calls' = calls + 1 /\ result' = [result EXCEPT !.signed = @ + 1]
         /\ expanded' = expanded + 1 /\ expanded' <= ExpansionLimit
         /\ Treats
         /\ Len(db.binary) = Bins
         /\ DOMAIN db = {"storages", "compressed", "code", "media", "file", "streams", "binary", "hash"}
         /\ InCabinet =>
              LET id == cabinets[at[1]].members[at[2]].name IN
              db' = [db EXCEPT !.file = UpdateFile(id, Signed(work[Path])),
                               !.hash = UpdateHash(id, Signed(work[Path]))]
         /\ ~InCabinet => db' = [db EXCEPT !.binary[at[2]].payload = Signed(work[Path])]
<1>0. /\ step = "sign" /\ step' = "sign"
      /\ InCabinet \/ InBinary
      /\ NextPayload
      /\ UNCHANGED <<original, disk, outcome, binaries>>
      /\ Unsigned(work[Path])
      /\ ~Overflows(work[Path], Signed(work[Path]))
      /\ calls' = calls + 1 /\ result' = [result EXCEPT !.signed = @ + 1]
      /\ expanded' = Charge(work[Path], Signed(work[Path]))
      /\ work' = [work EXCEPT ![Path] = Signed(work[Path])]
      /\ InCabinet =>
           /\ cabinets' = [cabinets EXCEPT ![at[1]].changed = TRUE]
           /\ LET id == cabinets[at[1]].members[at[2]].name IN
              db' = [db EXCEPT !.file = UpdateFile(id, Signed(work[Path])),
                               !.hash = UpdateHash(id, Signed(work[Path]))]
      /\ ~InCabinet => /\ db' = [db EXCEPT !.binary[at[2]].payload = Signed(work[Path])]
                       /\ cabinets' = cabinets
  <2>1. ~Leave("sign", "rejected")
    BY DEF Leave
  <2> QED BY <2>1 DEF SignPayload, Goto, input
<1>1. Len(db.binary) = Bins
  BY BinaryLength DEF Signing
<1>2. work[Path] \in PayloadFiles
  BY <1>0, <1>1, Here
<1>3. Size(Signed(work[Path])) = Size(work[Path]) + 1 /\ Size(work[Path]) \in Nat
  <2>1. work[Path].signature = "none" /\ work[Path].length \in Nat
    BY <1>0, <1>2 DEF Unsigned, PayloadFiles
  <2>2. Signed(work[Path]).signature = "new" /\ Signed(work[Path]).length = work[Path].length
    BY <1>2 DEF Signed, PayloadFiles
  <2> QED BY <2>1, <2>2 DEF Size
<1>4. expanded' = expanded + 1 /\ expanded' <= ExpansionLimit
  <2>1. expanded \in Nat /\ ExpansionLimit \in Nat
    BY LimitsAssumption DEF Preflight, Types
  <2>2. expanded' = expanded - Size(work[Path]) + Size(Signed(work[Path]))
    BY <1>0 DEF Charge
  <2>3. ~(Size(Signed(work[Path])) > ExpansionLimit - (expanded - Size(work[Path])))
    BY <1>0 DEF Overflows
  <2> QED BY <1>3, <2>1, <2>2, <2>3
<1>5. Treated(work[Path]) = Signed(work[Path])
  BY <1>0 DEF Treated
<1>6. Treats
  BY <1>0, <1>5 DEF Treats
<1>7. DOMAIN db = {"storages", "compressed", "code", "media", "file", "streams", "binary", "hash"}
  BY OriginalFacts DEF Preflight, Signing, SameTables, IsPackage
<1> QED
  BY <1>0, <1>1, <1>4, <1>5, <1>6, <1>7

\* Signing a payload keeps Preflight,
LEMMA SignPreflight ==
  ASSUME Preflight, Signing, SignPayload, step' # "end"
  PROVE  Preflight'
<1>1. calls \in Nat /\ expanded \in Nat /\ result \in [signed: Nat, preserved: Nat]
  BY DEF Preflight, Types
<1>2. calls' = calls + 1 /\ result' = [result EXCEPT !.signed = @ + 1] /\ expanded' = expanded + 1
  BY SignFacts
<1>3. calls' \in Nat /\ expanded' \in Nat /\ result' \in [signed: Nat, preserved: Nat]
  BY <1>1, <1>2
<1>4. /\ step = "sign" /\ step' = "sign" /\ Len(db.binary) = Bins
      /\ InCabinet \/ InBinary
      /\ NextPayload /\ Treats
      /\ UNCHANGED <<original, disk, outcome, binaries>>
  BY SignFacts
<1> QED
  BY <1>3, <1>4, Advance

\* Rows of other files stay, and the row of this one gets its size and its hash.
LEMMA SignTables ==
  ASSUME Preflight, Signing, SignPayload, step' # "end"
  PROVE  SameTables' /\ FileInv' /\ HashInv'
<1>0. /\ step = "sign" /\ step' = "sign" /\ Len(db.binary) = Bins
      /\ InCabinet \/ InBinary
      /\ NextPayload
      /\ original' = original /\ Unsigned(work[Path])
      /\ DOMAIN db = {"storages", "compressed", "code", "media", "file", "streams", "binary", "hash"}
      /\ Treated(work[Path]) = Signed(work[Path])
  BY SignFacts
<1>1. SameTables /\ FileInv /\ HashRows /\ HashTypes
  BY DEF Signing, HashInv
<1>2. Cabs' = Cabs
  BY <1>0 DEF Cabs
<1>3. \A i \in 1 .. Cabs : \A j \in 1 .. Len(MembersOf(original, i)) :
              Now(Place(i, j), OldPayload(i, j))' =
                IF InCabinet /\ i = at[1] /\ j = at[2] THEN Treated(OldPayload(i, j))
                ELSE Now(Place(i, j), OldPayload(i, j))
  BY <1>0, NowNext
<1>4. /\ \A i : MembersOf(original, i)' = MembersOf(original, i)
      /\ \A i, j : OldPayload(i, j)' = OldPayload(i, j)
      /\ \A id : Unversioned(original, id)' = Unversioned(original, id)
  BY <1>0 DEF OldPayload, Unversioned
<1>5. CASE ~InCabinet
  <2>1. db' = [db EXCEPT !.binary[at[2]].payload = Signed(work[Path])]
    BY <1>5, SignFacts
  <2>2. DOMAIN db' = DOMAIN db /\ db'.storages = db.storages /\ db'.compressed = db.compressed
        /\ db'.code = db.code /\ db'.media = db.media /\ db'.file = db.file /\ db'.hash = db.hash
    BY <1>0, <2>1
  <2>3. \A i \in 1 .. Cabs : \A j \in 1 .. Len(MembersOf(original, i)) :
          Now(Place(i, j), OldPayload(i, j))' = Now(Place(i, j), OldPayload(i, j))
    BY <1>3, <1>5
  <2>4. \A i \in 1 .. Cabs : \A j \in 1 .. Len(MembersOf(original, i)) :
          Size(Now(Place(i, j), OldPayload(i, j)))' = Size(Now(Place(i, j), OldPayload(i, j)))
    BY <2>3 DEF Size
  <2>5. SameTables'
    BY <1>0, <1>1, <2>2 DEF SameTables
  <2>6. FileInv'
    BY <1>0, <1>1, <1>2, <1>4, <2>2, <2>4 DEF FileInv
  <2>7. HashInv'
    <3>1. HashRows'
      BY SMTT(30), <1>0, <1>1, <1>2, <1>4, <2>2, <2>3 DEF HashRows
    <3>2. HashTypes'
      BY <1>0, <1>1, <2>2 DEF HashTypes
    <3> QED BY <3>1, <3>2 DEF HashInv
  <2> QED BY <2>5, <2>6, <2>7
<1>6. CASE InCabinet
  <2>1. PICK m \in 1 .. Cabs : m = at[1]
    BY <1>0, <1>6, Here
  <2>2. PICK l \in 1 .. Len(MembersOf(original, m)) : l = at[2]
    BY <1>0, <1>6, <2>1, Here
  <2>3. PICK id : id = MembersOf(original, m)[l].name
    OBVIOUS
  <2>4. PICK q : q = Signed(work[Path])
    OBVIOUS
  <2>5. work[Path] = OldPayload(m, l) /\ cabinets[at[1]].members[at[2]].name = id
    BY <1>0, <1>6, <2>1, <2>2, <2>3, Here
  <2>6. db' = [db EXCEPT !.file = UpdateFile(id, q), !.hash = UpdateHash(id, q)]
    BY <1>6, <2>4, <2>5, SignFacts
  <2>7. DOMAIN db' = DOMAIN db /\ db'.storages = db.storages /\ db'.compressed = db.compressed
        /\ db'.code = db.code /\ db'.media = db.media
        /\ db'.file = UpdateFile(id, q) /\ db'.hash = UpdateHash(id, q)
    BY <1>0, <2>6
  <2>8. Now(Place(m, l), OldPayload(m, l))' = q
    BY <1>0, <1>3, <1>6, <2>1, <2>2, <2>4, <2>5
  <2>9. ASSUME NEW i \in 1 .. Cabs, NEW j \in 1 .. Len(MembersOf(original, i))
        PROVE  /\ MembersOf(original, i)[j].name = id => i = m /\ j = l
               /\ MembersOf(original, i)[j].name # id =>
                    Now(Place(i, j), OldPayload(i, j))' = Now(Place(i, j), OldPayload(i, j))
    <3>1. NamesApart(original, i, m)
      BY <1>0 DEF Preflight, SoundInv, Read
    <3>2. MembersOf(original, i)[j].name = id => i = m /\ j = l
      BY <2>3, <3>1 DEF NamesApart
    <3> QED BY <1>3, <2>1, <2>2, <2>3, <3>2
  <2>10. SameTables'
    BY <1>0, <1>1, <2>7 DEF SameTables
  <2>11. FileInv'
    <3>1. DOMAIN db'.file = DOMAIN original.file
      BY <1>1, <2>7 DEF FileInv, UpdateFile
    <3>2. \A r \in DOMAIN original.file :
            original.file[r] \in [id: STRING, size: Int, sequence: Int, attributes: SUBSET STRING,
                                version: BOOLEAN]
      BY OriginalFacts, PackageFile DEF Preflight
    <3>3. ASSUME NEW r \in DOMAIN original.file
          PROVE  /\ db.file[r] = [original.file[r] EXCEPT !.size = db.file[r].size]
                 /\ db.file[r].id = original.file[r].id
                 /\ db'.file[r] = IF original.file[r].id = id
                                  THEN [db.file[r] EXCEPT !.size = Size(q)] ELSE db.file[r]
      <4>1. db.file[r] = [original.file[r] EXCEPT !.size = db.file[r].size]
        BY <1>1 DEF FileInv
      <4>2. db.file[r].id = original.file[r].id
        BY <3>2, <4>1
      <4>3. r \in DOMAIN db.file
        BY <1>1 DEF FileInv
      <4> QED BY <2>7, <4>1, <4>2, <4>3 DEF UpdateFile
    <3>4. ASSUME NEW r \in DOMAIN original.file
          PROVE  db'.file[r] = [original.file[r] EXCEPT !.size = db'.file[r].size]
      <4>1. CASE original.file[r].id = id
        <5>1. db'.file[r] = [original.file[r] EXCEPT !.size = Size(q)]
          BY ZenonT(60), <3>2, <3>3, <4>1
        <5>2. db'.file[r].size = Size(q)
          BY <3>2, <5>1
        <5> QED BY <5>1, <5>2
      <4>2. CASE original.file[r].id # id
        BY <3>3, <4>2
      <4> QED BY <4>1, <4>2
    <3>5. db'.file = [r \in DOMAIN original.file |-> [original.file[r] EXCEPT !.size = db'.file[r].size]]
      <4>1. db'.file = [r \in DOMAIN original.file |-> db'.file[r]]
        BY <2>7, <3>1 DEF UpdateFile
      <4> QED BY <3>4, <4>1
    <3>6. ASSUME NEW r \in DOMAIN original.file, NEW i \in 1 .. Cabs,
                 NEW j \in 1 .. Len(MembersOf(original, i)),
                 original.file[r].id = MembersOf(original, i)[j].name
          PROVE  db'.file[r].size = Size(Now(Place(i, j), OldPayload(i, j))')
      <4>1. CASE original.file[r].id = id
        <5>1. i = m /\ j = l
          BY <2>9, <3>6, <4>1
        <5>2. db'.file[r].size = Size(q)
          <6>1. db'.file[r] = [original.file[r] EXCEPT !.size = Size(q)]
            BY ZenonT(60), <3>2, <3>3, <4>1
          <6> QED BY <3>2, <6>1
        <5> QED BY <2>8, <5>1, <5>2
      <4>2. CASE original.file[r].id # id
        <5>1. Now(Place(i, j), OldPayload(i, j))' = Now(Place(i, j), OldPayload(i, j))
          BY <2>9, <3>6, <4>2
        <5>2. db.file[r].size = Size(Now(Place(i, j), OldPayload(i, j)))
          BY <1>1, <3>6 DEF FileInv
        <5> QED BY <3>3, <4>2, <5>1, <5>2
      <4> QED BY <4>1, <4>2
    <3>7. \A r \in DOMAIN original.file, i \in 1 .. Cabs : \A j \in 1 .. Len(MembersOf(original, i)) :
            original.file[r].id = MembersOf(original, i)[j].name =>
              db'.file[r].size = Size(Now(Place(i, j), OldPayload(i, j)))'
      BY <3>6 DEF Size
    <3> QED BY <1>0, <1>2, <1>4, <3>1, <3>5, <3>7 DEF FileInv
  <2>12. HashInv'
    <3>1. DOMAIN db'.hash = DOMAIN original.hash
      BY <1>1, <2>7 DEF HashRows, UpdateHash
    <3>2. \A r \in DOMAIN original.hash :
            original.hash[r] \in [id: STRING, options: Int, of: PayloadFiles]
      BY OriginalFacts, PackageHash DEF Preflight
    <3>3. ASSUME NEW r \in DOMAIN original.hash
          PROVE  /\ db.hash[r] = [original.hash[r] EXCEPT !.of = db.hash[r].of]
                 /\ db.hash[r].id = original.hash[r].id
                 /\ db'.hash[r] = IF original.hash[r].id = id /\ Unversioned(original, id)
                                  THEN [db.hash[r] EXCEPT !.of = q] ELSE db.hash[r]
      <4>1. db.hash[r] = [original.hash[r] EXCEPT !.of = db.hash[r].of]
        BY <1>1 DEF HashRows
      <4>2. db.hash[r].id = original.hash[r].id
        BY <3>2, <4>1
      <4>3. r \in DOMAIN db.hash
        BY <1>1 DEF HashRows
      <4>4. Unversioned(db, id) = Unversioned(original, id)
        <5>1. \A s \in DOMAIN original.file :
                original.file[s] \in [id: STRING, size: Int, sequence: Int, attributes: SUBSET STRING,
                                version: BOOLEAN]
          BY OriginalFacts, PackageFile DEF Preflight
        <5>2. DOMAIN db.file = DOMAIN original.file
              /\ \A s \in DOMAIN original.file :
                   db.file[s] = [original.file[s] EXCEPT !.size = db.file[s].size]
          BY <1>1 DEF FileInv
        <5>3. \A s \in DOMAIN original.file :
                db.file[s].id = original.file[s].id /\ db.file[s].version = original.file[s].version
          BY <5>1, <5>2
        <5> QED BY <5>2, <5>3 DEF Unversioned
      <4> QED BY <2>7, <4>1, <4>2, <4>3, <4>4 DEF UpdateHash
    <3>4. ASSUME NEW r \in DOMAIN original.hash
          PROVE  db'.hash[r] = [original.hash[r] EXCEPT !.of = db'.hash[r].of]
      <4>1. CASE original.hash[r].id = id /\ Unversioned(original, id)
        <5>1. db'.hash[r] = [original.hash[r] EXCEPT !.of = q]
          BY ZenonT(60), <3>2, <3>3, <4>1
        <5>2. db'.hash[r].of = q
          BY <3>2, <5>1
        <5> QED BY <5>1, <5>2
      <4>2. CASE ~(original.hash[r].id = id /\ Unversioned(original, id))
        BY <3>3, <4>2
      <4> QED BY <4>1, <4>2
    <3>5. db'.hash = [r \in DOMAIN original.hash |-> [original.hash[r] EXCEPT !.of = db'.hash[r].of]]
      <4>1. db'.hash = [r \in DOMAIN original.hash |-> db'.hash[r]]
        BY <2>7, <3>1 DEF UpdateHash
      <4> QED BY <3>4, <4>1
    <3>6. ASSUME NEW r \in DOMAIN original.hash, NEW i \in 1 .. Cabs,
                 NEW j \in 1 .. Len(MembersOf(original, i)),
                 original.hash[r].id = MembersOf(original, i)[j].name,
                 Unversioned(original, original.hash[r].id),
                 original.hash[r].of = OldPayload(i, j)
          PROVE  db'.hash[r].of = Now(Place(i, j), OldPayload(i, j))'
      <4>1. CASE original.hash[r].id = id
        <5>1. i = m /\ j = l
          BY <2>9, <3>6, <4>1
        <5>2. db'.hash[r].of = q
          <6>1. db'.hash[r] = [original.hash[r] EXCEPT !.of = q]
            BY ZenonT(60), <3>2, <3>3, <3>6, <4>1
          <6> QED BY <3>2, <6>1
        <5> QED BY <2>8, <5>1, <5>2
      <4>2. CASE original.hash[r].id # id
        <5>1. Now(Place(i, j), OldPayload(i, j))' = Now(Place(i, j), OldPayload(i, j))
          BY <2>9, <3>6, <4>2
        <5>2. db.hash[r].of = Now(Place(i, j), OldPayload(i, j))
          BY <1>1, <3>6 DEF HashRows
        <5> QED BY <3>3, <4>2, <5>1, <5>2
      <4> QED BY <4>1, <4>2
    <3>7. \A r : Unversioned(original, original.hash[r].id)' = Unversioned(original, original.hash[r].id)
      BY <1>0 DEF Unversioned
    <3>8. HashRows'
      BY <1>0, <1>2, <1>4, <3>1, <3>5, <3>6, <3>7 DEF HashRows
    <3>9. HashTypes'
      <4>1. q \in PayloadFiles
        <5>1. work[Path] \in PayloadFiles
          BY <1>0, Here
        <5> QED BY <2>4, <5>1 DEF PayloadFiles, Signed
      <4>2. ASSUME NEW r \in DOMAIN original.hash PROVE db'.hash[r].of \in PayloadFiles
        <5>1. CASE original.hash[r].id = id /\ Unversioned(original, id)
          <6>1. db'.hash[r] = [original.hash[r] EXCEPT !.of = q]
            BY ZenonT(60), <3>2, <3>3, <5>1
          <6>2. db'.hash[r].of = q
            BY <3>2, <6>1
          <6> QED BY <4>1, <6>2
        <5>2. CASE ~(original.hash[r].id = id /\ Unversioned(original, id))
          BY <1>1, <3>3, <5>2 DEF HashTypes
        <5> QED BY <5>1, <5>2
      <4> QED BY <1>0, <4>2 DEF HashTypes
    <3> QED BY <3>8, <3>9 DEF HashInv
  <2> QED BY <2>10, <2>11, <2>12
<1> QED BY <1>5, <1>6

\* the streams, the Binary rows and the counters in agreement,
LEMMA SignStreams ==
  ASSUME Preflight, Signing, SignPayload, step' # "end"
  PROVE  StreamsInv' /\ BinaryInv' /\ CountInv'
<1>0. /\ step = "sign" /\ step' = "sign" /\ Len(db.binary) = Bins
      /\ InCabinet \/ InBinary
      /\ NextPayload
      /\ original' = original /\ Unsigned(work[Path])
      /\ DOMAIN db = {"storages", "compressed", "code", "media", "file", "streams", "binary", "hash"}
      /\ Treated(work[Path]) = Signed(work[Path])
      /\ calls' = calls + 1 /\ result' = [result EXCEPT !.signed = @ + 1]
  BY SignFacts
<1>1. StreamsInv /\ BinaryInv /\ CountInv
  BY DEF Signing
<1>2. /\ Cursor' = Cursor + 1 /\ Cursor \in Nat \ {0} /\ Cabs' = Cabs /\ Bins' = Bins
      /\ at' = <<at[1], at[2] + 1>>
  BY <1>0, Advanced
<1>3. \A b \in 1 .. Bins :
        Now(BinaryPlace(b), original.binary[b].payload)' =
          IF ~InCabinet /\ b = at[2] THEN Treated(original.binary[b].payload)
          ELSE Now(BinaryPlace(b), original.binary[b].payload)
  BY <1>0, NowNext
<1>4. db'.streams = db.streams /\ (InCabinet => db'.binary = db.binary)
      /\ (~InCabinet => db'.binary = [db.binary EXCEPT ![at[2]].payload = Signed(work[Path])])
  <2>1. CASE InCabinet
    <3>1. PICK id : id = cabinets[at[1]].members[at[2]].name
      OBVIOUS
    <3>2. db' = [db EXCEPT !.file = UpdateFile(id, Signed(work[Path])),
                           !.hash = UpdateHash(id, Signed(work[Path]))]
      BY <2>1, <3>1, SignFacts
    <3> QED BY <1>0, <2>1, <3>2
  <2>2. CASE ~InCabinet
    <3>1. db' = [db EXCEPT !.binary[at[2]].payload = Signed(work[Path])]
      BY <2>2, SignFacts
    <3> QED BY <1>0, <2>2, <3>1
  <2> QED BY <2>1, <2>2
<1>5. ASSUME NEW i \in 1 .. Cabs
      PROVE  /\ Finished(i)' = Finished(i)
             /\ Changed(i)' = (Changed(i) \/ (InCabinet /\ i = at[1]))
  <2>1. Changed(i)' = (Changed(i) \/ (InCabinet /\ i = at[1]))
    BY <1>0, ChangedNext
  <2>2. at'[1] = at[1]
    BY <1>2
  <2>3. i < at[1] => i # at[1]
    OBVIOUS
  <2> QED BY <2>1, <2>2, <2>3 DEF Finished
<1>6. StreamsInv'
  <2>1. \A i : RebuiltStream(i)' = RebuiltStream(i)
    BY <1>0 DEF RebuiltStream, OldPayload
  <2> QED BY <1>0, <1>1, <1>2, <1>4, <1>5, <2>1 DEF StreamsInv
<1>7. BinaryInv'
  <2>1. original'.binary = original.binary
    BY <1>0
  <2>2. CASE InCabinet
    <3>1. \A b \in 1 .. Bins : Now(BinaryPlace(b), original.binary[b].payload)' =
                               Now(BinaryPlace(b), original.binary[b].payload)
      BY <1>3, <2>2
    <3> QED BY ZenonT(60), <1>1, <1>2, <1>4, <2>1, <2>2, <3>1 DEF BinaryInv
  <2>3. CASE ~InCabinet
    <3>1. PICK b \in 1 .. Bins : b = at[2]
      BY <1>0, <2>3, Here
    <3>2. work[Path] = original.binary[b].payload
      BY <1>0, <2>3, <3>1, Here
    <3>3. \A c \in 1 .. Bins : original.binary[c] \in [name: STRING, payload: PayloadFiles]
      BY OriginalFacts, PackageBinary DEF Preflight, Bins
    <3>4. \A c \in 1 .. Bins : db.binary[c] =
             [original.binary[c] EXCEPT !.payload = Now(BinaryPlace(c), original.binary[c].payload)]
      BY <1>1 DEF BinaryInv
    <3>5. DOMAIN db.binary = 1 .. Bins
      BY <1>1 DEF BinaryInv
    <3>6. PICK q : q = Signed(work[Path])
      OBVIOUS
    <3>7. db'.binary = [db.binary EXCEPT ![b].payload = q]
      BY <1>4, <2>3, <3>1, <3>6
    <3>8. DOMAIN db'.binary = 1 .. Bins /\ db'.binary = [c \in 1 .. Bins |-> db'.binary[c]]
      BY <1>1, <3>7 DEF BinaryInv
    <3>9. ASSUME NEW c \in 1 .. Bins
          PROVE  db'.binary[c] =
             [original.binary[c] EXCEPT !.payload = Now(BinaryPlace(c), original.binary[c].payload)']
      <4>1. CASE c = b
        <5>1. Now(BinaryPlace(c), original.binary[c].payload)' = q
          BY <1>0, <1>3, <2>3, <3>1, <3>2, <3>6, <4>1
        <5>2. db'.binary[c] = [db.binary[c] EXCEPT !.payload = q]
          BY <3>5, <3>7, <4>1
        <5>3. db'.binary[c] = [original.binary[c] EXCEPT !.payload = q]
          BY <3>3, <3>4, <5>2
        <5> QED BY <5>1, <5>3
      <4>2. CASE c # b
        <5>1. Now(BinaryPlace(c), original.binary[c].payload)' = Now(BinaryPlace(c), original.binary[c].payload)
          BY <1>3, <3>1, <4>2
        <5>2. db'.binary[c] = db.binary[c]
          BY <3>5, <3>7, <4>2
        <5> QED BY <3>4, <5>1, <5>2
      <4> QED BY <4>1, <4>2
    <3>10. db'.binary = [c \in 1 .. Bins |->
             [original.binary[c] EXCEPT !.payload = Now(BinaryPlace(c), original.binary[c].payload)']]
      BY <3>8, <3>9
    <3> QED BY <1>2, <2>1, <3>10 DEF BinaryInv
  <2> QED BY <2>2, <2>3
<1>8. CountInv'
  <2>1. calls \in Nat /\ result \in [signed: Nat, preserved: Nat]
    BY DEF Preflight, Types
  <2>2. result'.signed = result.signed + 1 /\ result'.preserved = result.preserved
        /\ result.signed \in Nat /\ result.preserved \in Nat
    BY <1>0, <2>1
  <2>3. calls' <= Cursor' - 1 /\ result'.signed + result'.preserved <= calls' /\ result'.signed # 0
    BY SMTT(30), <1>0, <1>1, <1>2, <2>1, <2>2 DEF CountInv
  <2>4. ~(/\ \A i \in 1 .. Cabs : ~Changed(i)'
          /\ \A b \in 1 .. Bins : BinaryPlace(b)' < Cursor' => ~Unsigned(original.binary[b].payload)')
    <3>1. CASE InCabinet
      <4>1. at[1] \in 1 .. Cabs
        BY <1>0, <3>1, Here
      <4>2. PICK i \in 1 .. Cabs : i = at[1]
        BY <4>1
      <4>3. Changed(i)'
        BY <1>5, <3>1, <4>2
      <4> QED BY <4>3
    <3>2. CASE ~InCabinet
      <4>1. PICK b \in 1 .. Bins : b = at[2]
        BY <1>0, <3>2, Here
      <4>2. work[Path] = original.binary[b].payload /\ Cursor = BinaryPlace(b)
        BY <1>0, <3>2, <4>1, Here
      <4>3. BinaryPlace(b)' < Cursor'
        BY <1>0, <1>2, <4>2 DEF BinaryPlace
      <4>4. Unsigned(original.binary[b].payload)'
        BY <1>0, <4>2 DEF Unsigned
      <4> QED BY <4>3, <4>4
    <3> QED BY <3>1, <3>2
  <2> QED BY <1>2, <2>3, <2>4 DEF CountInv
<1> QED BY <1>6, <1>7, <1>8

\* and thus both invariants.
LEMMA SignStep ==
  ASSUME Preflight, Signing, SignPayload, step' # "end"
  PROVE  Preflight' /\ Signing'
  BY SignPreflight, SignTables, SignStreams DEF Signing

\* A cabinet with all its members passed.
LEMMA FinishFacts ==
  ASSUME Preflight, FinishCabinet
  PROVE  /\ step = "sign" /\ step' = "sign"
         /\ UNCHANGED <<original, disk, outcome, cabinets, work, expanded, binaries, calls, result>>
         /\ at[1] \in 1 .. Cabs /\ at' = <<at[1] + 1, 1>>
         /\ Cursor' = Cursor /\ Cursor \in Nat
         /\ Cursor = Start(original, at[1]) + Len(MembersOf(original, at[1])) + 1
         /\ Cabs' = Cabs /\ Bins' = Bins
<1>0. /\ step = "sign" /\ step' = "sign"
      /\ UNCHANGED <<original, disk, outcome, cabinets, work, expanded, binaries, calls, result>>
      /\ at' = <<at[1] + 1, 1>>
      /\ at[1] <= Len(cabinets) /\ at[2] > Len(cabinets[at[1]].members)
  BY DEF FinishCabinet, Goto, input
<1>1. Cabs' = Cabs /\ Bins' = Bins /\ Cabs \in Nat
  BY <1>0, OriginalFacts DEF Cabs, Bins, Preflight
<1>2. at[1] \in 1 .. Cabs
  <2>1. Len(cabinets) = Cabs
    BY <1>0, CabinetsAre
  <2>2. at[1] \in 1 .. Cabs + 1
    BY <1>0 DEF Preflight, PlaceInv
  <2> QED BY <1>0, <1>1, <2>1, <2>2
<1>3. PICK i \in 1 .. Cabs : i = at[1]
  BY <1>2
<1>4. Len(cabinets[i].members) = Len(MembersOf(original, i)) /\ Len(MembersOf(original, i)) \in Nat
  BY <1>0, ReadMembers DEF Read
<1>5. at[2] = Len(MembersOf(original, i)) + 1
  <2>1. at[2] \in 1 .. Len(MembersOf(original, i)) + 1
    BY <1>0, <1>3, <1>1 DEF Preflight, PlaceInv
  <2> QED BY <1>0, <1>3, <1>4, <2>1
<1>6. Start(original, i + 1) = Start(original, i) + Len(MembersOf(original, i)) /\ Start(original, i) \in Nat
  <2>1. i \in 1 .. Cabs + 1
    BY <1>1
  <2> QED BY <1>0, <2>1, Places
<1>7. Cursor = Start(original, i) + Len(MembersOf(original, i)) + 1
  BY <1>0, <1>3, <1>4, <1>5, <1>6 DEF Cursor
<1>8. Cursor' = Start(original, i + 1) + 1
  BY <1>0, <1>3 DEF Cursor
<1> QED BY SMTT(30), <1>0, <1>1, <1>2, <1>3, <1>4, <1>6, <1>7, <1>8

\* So does finishing a cabinet: Preflight,
LEMMA FinishPreflight ==
  ASSUME Preflight, FinishCabinet
  PROVE  Preflight'
<1>0. /\ step = "sign" /\ step' = "sign"
      /\ UNCHANGED <<original, disk, outcome, cabinets, work, expanded, binaries, calls, result>>
      /\ at[1] \in 1 .. Cabs /\ at' = <<at[1] + 1, 1>>
      /\ Cursor' = Cursor
      /\ Cabs' = Cabs /\ Bins' = Bins
  BY FinishFacts
<1>1. Cabs \in Nat /\ Bins \in Nat /\ Types /\ \A i \in 1 .. Cabs : Len(MembersOf(original, i)) \in Nat
  BY <1>0, Places DEF Preflight
<1>2. at'[1] \in 2 .. Cabs + 1 /\ at'[2] = 1
  BY <1>0, <1>1
<1>3. Types'
  <2>1. at' \in (Nat \ {0}) \X (Nat \ {0})
    <3>1. at[1] + 1 \in Nat \ {0}
      BY <1>0, <1>1
    <3> QED BY <1>0, <3>1
  <2> QED BY <1>0, <1>1, <2>1 DEF Types
<1>4. PlaceInv'
  <2>1. binaries' = Bins
    BY <1>0 DEF Preflight, PlaceInv
  <2>2. at'[1] \in 1 .. Cabs + 1 /\ at'[2] \in 1 .. Bins + 1
    BY <1>1, <1>2
  <2>3. at'[1] <= Cabs => at'[2] \in 1 .. Len(MembersOf(original, at'[1])) + 1
    <3>1. ASSUME at'[1] <= Cabs PROVE Len(MembersOf(original, at'[1])) \in Nat
      <4>1. at'[1] \in 1 .. Cabs
        BY <1>1, <1>2, <3>1
      <4> QED BY <1>1, <4>1
    <3> QED BY <1>2, <3>1
  <2>4. MembersOf(original, at[1])' = MembersOf(original, at'[1])
    BY <1>0
  <2> QED BY <1>0, <2>1, <2>2, <2>3, <2>4 DEF PlaceInv
<1>5. \A i, j : Place(i, j)' = Place(i, j) /\ OldPayload(i, j)' = OldPayload(i, j)
  BY <1>0 DEF Place, OldPayload
<1>6. \A i : Changed(i)' = Changed(i) /\ Read(i) /\ Read(i)'
  BY <1>0, <1>5 DEF Changed, Read, Unsigned
<1>7. CabinetsInv'
  <2>1. \A i \in 1 .. Cabs : CabinetRecord(i)' = CabinetRecord(i)
    BY <1>0, <1>6 DEF CabinetRecord, LastBefore, Listed
  <2>2. cabinets = [i \in 1 .. Cabs |-> CabinetRecord(i)]
    BY <1>0, CabinetsAre
  <2>3. cabinets' = [i \in 1 .. Cabs |-> CabinetRecord(i)']
    BY <1>0, <2>1, <2>2
  <2> QED BY <1>0, <2>3 DEF CabinetsInv
<1>8. WorkInv'
  <2>1. \A i, j : Now(Place(i, j), OldPayload(i, j))' = Now(Place(i, j), OldPayload(i, j))
    BY <1>0, <1>5 DEF Now
  <2>2. \A b : BinaryPlace(b)' = BinaryPlace(b)
    BY <1>0 DEF BinaryPlace
  <2>3. \A b : Now(BinaryPlace(b), original.binary[b].payload)' = Now(BinaryPlace(b), original.binary[b].payload)
    BY <1>0, <2>2 DEF Now
  <2>4. Len(work) = Start(original, Cabs + 1) + binaries
    BY <1>0 DEF Preflight, WorkInv
  <2>5. \A i \in 1 .. Cabs : \A j \in 1 .. Len(MembersOf(original, i)) :
          work[Place(i, j)] = Now(Place(i, j), OldPayload(i, j))
    BY <1>6 DEF Preflight, WorkInv
  <2>6. \A b \in 1 .. binaries : work[BinaryPlace(b)] = Now(BinaryPlace(b), original.binary[b].payload)
    BY DEF Preflight, WorkInv
  <2> QED BY <1>0, <1>5, <2>1, <2>2, <2>3, <2>4, <2>5, <2>6 DEF WorkInv
<1>9. SoundInv'
  BY <1>0, SoundStays
<1> QED
  BY <1>3, <1>4, <1>7, <1>8, <1>9 DEF Preflight

\* A rebuilt cabinet has the members it had, treated.
LEMMA RebuiltIs ==
  ASSUME Preflight, FinishCabinet, NEW i \in 1 .. Cabs, i = at[1]
  PROVE  PreserveMetadata(CreateCabinet(cabinets[i].members), cabinets[i].members) = RebuiltStream(i)
<1>0. step = "sign" /\ Cursor = Start(original, i) + Len(MembersOf(original, i)) + 1
  BY FinishFacts
<1>1. /\ cabinets[i].members = Listed(original, i) /\ Len(MembersOf(original, i)) \in Nat
      /\ DOMAIN cabinets[i].members = 1 .. Len(MembersOf(original, i))
  BY <1>0, ReadMembers DEF Read
<1> DEFINE N == 1 .. Len(MembersOf(original, i))
           L == cabinets[i].members
<1>2. ASSUME NEW j \in N
      PROVE  /\ L[j].name = MembersOf(original, i)[j].name /\ L[j].meta = MembersOf(original, i)[j].meta
             /\ work[L[j].path] = Treated(OldPayload(i, j))
  <2>1. /\ L[j].name = MembersOf(original, i)[j].name /\ L[j].meta = MembersOf(original, i)[j].meta
        /\ L[j].path = Place(i, j)
    BY <1>1, ListedMembers DEF Place
  <2>2. work[Place(i, j)] = Now(Place(i, j), OldPayload(i, j))
    BY <1>0 DEF Preflight, WorkInv, Read
  <2>3. Start(original, i) \in Nat
    <3>1. i \in 1 .. Cabs + 1
      BY <1>0, Places
    <3> QED BY <1>0, <3>1, Places
  <2>4. Place(i, j) < Cursor
    BY <1>0, <1>1, <2>3 DEF Place
  <2> QED BY <2>1, <2>2, <2>4 DEF Now
<1>3. DOMAIN L = N
  BY <1>1
<1> HIDE DEF N, L
<1> DEFINE made == CreateCabinet(L)
<1>4. /\ DOMAIN made = {"regular", "made", "expands", "members"}
      /\ made.regular = TRUE /\ made.made = "mszip"
      /\ made.expands = TotalSize([j \in N |-> Treated(OldPayload(i, j))])
      /\ made.members = [j \in N |-> [name |-> MembersOf(original, i)[j].name,
                                      size |-> Size(Treated(OldPayload(i, j))),
                                      meta |-> "normalised", payload |-> Treated(OldPayload(i, j))]]
  <2>1. [j \in DOMAIN L |-> work[L[j].path]] = [j \in N |-> Treated(OldPayload(i, j))]
    BY <1>2, <1>3
  <2>2. [j \in DOMAIN L |-> [name |-> L[j].name, size |-> Size(work[L[j].path]),
                             meta |-> "normalised", payload |-> work[L[j].path]]]
        = [j \in N |-> [name |-> MembersOf(original, i)[j].name,
                        size |-> Size(Treated(OldPayload(i, j))),
                        meta |-> "normalised", payload |-> Treated(OldPayload(i, j))]]
    BY <1>2, <1>3
  <2> QED BY <2>1, <2>2 DEF CreateCabinet
<1> HIDE DEF made
<1>5. PreserveMetadata(made, L) =
        [made EXCEPT !.members = [j \in N |-> [made.members[j] EXCEPT !.meta = L[j].meta]]]
  BY <1>3, <1>4 DEF PreserveMetadata
<1>6. [j \in N |-> [made.members[j] EXCEPT !.meta = L[j].meta]]
      = [j \in N |-> [name |-> MembersOf(original, i)[j].name, size |-> Size(Treated(OldPayload(i, j))),
                      meta |-> MembersOf(original, i)[j].meta, payload |-> Treated(OldPayload(i, j))]]
  <2>1. ASSUME NEW j \in N
        PROVE  [made.members[j] EXCEPT !.meta = L[j].meta] =
               [name |-> MembersOf(original, i)[j].name, size |-> Size(Treated(OldPayload(i, j))),
                meta |-> MembersOf(original, i)[j].meta, payload |-> Treated(OldPayload(i, j))]
    <3>1. made.members[j] = [name |-> MembersOf(original, i)[j].name,
                             size |-> Size(Treated(OldPayload(i, j))),
                             meta |-> "normalised", payload |-> Treated(OldPayload(i, j))]
      BY <1>4
    <3> QED BY <1>2, <3>1
  <2> QED BY <2>1
<1>7. made = [regular |-> TRUE, made |-> "mszip",
              expands |-> TotalSize([j \in N |-> Treated(OldPayload(i, j))]),
              members |-> made.members]
  <2>1. made = [regular |-> made.regular, made |-> made.made, expands |-> made.expands,
                members |-> made.members]
    BY DEF made, CreateCabinet
  <2> QED BY <1>4, <2>1
<1>8. PreserveMetadata(made, L) =
        [regular |-> TRUE, made |-> "mszip",
         expands |-> TotalSize([j \in N |-> Treated(OldPayload(i, j))]),
         members |-> [j \in N |->
                  [name |-> MembersOf(original, i)[j].name, size |-> Size(Treated(OldPayload(i, j))),
                   meta |-> MembersOf(original, i)[j].meta, payload |-> Treated(OldPayload(i, j))]]]
  <2>1. PICK m : m = [j \in N |->
                  [name |-> MembersOf(original, i)[j].name, size |-> Size(Treated(OldPayload(i, j))),
                   meta |-> MembersOf(original, i)[j].meta, payload |-> Treated(OldPayload(i, j))]]
    OBVIOUS
  <2>2. PICK e : e = TotalSize([j \in N |-> Treated(OldPayload(i, j))])
    OBVIOUS
  <2>3. PICK o : o = made.members
    OBVIOUS
  <2>4. PreserveMetadata(made, L) = [made EXCEPT !.members = m]
    BY <1>5, <1>6, <2>1
  <2>5. made = [regular |-> TRUE, made |-> "mszip", expands |-> e, members |-> o]
    BY <1>7, <2>2, <2>3
  <2>6. PreserveMetadata(made, L) = [regular |-> TRUE, made |-> "mszip", expands |-> e, members |-> m]
    BY <2>4, <2>5
  <2> QED BY <2>1, <2>2, <2>6
<1> QED
  BY <1>8 DEF made, L, N, RebuiltStream

\* and with the rebuilt cabinet in the database, Signing.
LEMMA FinishStep ==
  ASSUME Preflight, Signing, FinishCabinet
  PROVE  Preflight' /\ Signing'
<1>0. /\ step = "sign" /\ step' = "sign"
      /\ UNCHANGED <<original, disk, outcome, cabinets, work, expanded, binaries, calls, result>>
      /\ at[1] \in 1 .. Cabs /\ at' = <<at[1] + 1, 1>>
      /\ Cursor' = Cursor
      /\ Cabs' = Cabs /\ Bins' = Bins
  BY FinishFacts
<1>1. PICK i \in 1 .. Cabs : i = at[1]
  BY <1>0
<1>2. cabinets[i].changed = Changed(i) /\ cabinets[i].name = original.media[i].cabinet
  BY <1>0, CabinetIs
<1>3. db' = IF Changed(i) THEN [db EXCEPT !.streams[original.media[i].cabinet] = RebuiltStream(i)] ELSE db
  BY <1>1, <1>2, RebuiltIs DEF FinishCabinet, Rebuilt
<1>4. /\ DOMAIN db = {"storages", "compressed", "code", "media", "file", "streams", "binary", "hash"}
      /\ SameTables /\ FileInv /\ HashInv /\ StreamsInv /\ BinaryInv /\ CountInv
  BY OriginalFacts DEF Preflight, Signing, SameTables, IsPackage
<1>5. DOMAIN db' = DOMAIN db /\ db'.storages = db.storages /\ db'.compressed = db.compressed
      /\ db'.code = db.code /\ db'.media = db.media /\ db'.file = db.file /\ db'.hash = db.hash
      /\ db'.binary = db.binary
      /\ db'.streams = IF Changed(i) THEN [db.streams EXCEPT ![original.media[i].cabinet] = RebuiltStream(i)]
                       ELSE db.streams
  <2>1. CASE Changed(i)
    <3>1. db' = [db EXCEPT !.streams[original.media[i].cabinet] = RebuiltStream(i)]
      BY <1>3, <2>1
    <3> QED BY <1>4, <2>1, <3>1
  <2>2. CASE ~Changed(i)
    BY <1>3, <2>2
  <2> QED BY <2>1, <2>2
<1>6. \A k, j : Place(k, j)' = Place(k, j) /\ OldPayload(k, j)' = OldPayload(k, j)
  BY <1>0 DEF Place, OldPayload
<1>7. \A k : Changed(k)' = Changed(k)
  BY <1>0, <1>6 DEF Changed, Unsigned
<1>8. \A k, j : Now(Place(k, j), OldPayload(k, j))' = Now(Place(k, j), OldPayload(k, j))
  BY <1>0, <1>6 DEF Now
<1>9. \A b : BinaryPlace(b)' = BinaryPlace(b)
             /\ Now(BinaryPlace(b), original.binary[b].payload)' = Now(BinaryPlace(b), original.binary[b].payload)
  BY <1>0 DEF BinaryPlace, Now
<1>10. \A k : MembersOf(original, k)' = MembersOf(original, k)
  BY <1>0
<1>11. SameTables'
  BY <1>0, <1>4, <1>5 DEF SameTables
<1>12. FileInv'
  <2>1. \A k, j : Size(Now(Place(k, j), OldPayload(k, j)))' = Size(Now(Place(k, j), OldPayload(k, j)))
    BY <1>8 DEF Size
  <2> QED BY SMTT(30), <1>0, <1>4, <1>5, <1>10, <2>1 DEF FileInv
<1>13. HashInv'
  <2>1. \A r : Unversioned(original, original.hash[r].id)' = Unversioned(original, original.hash[r].id)
    BY <1>0 DEF Unversioned
  <2>2. HashRows'
    BY <1>0, <1>4, <1>5, <1>6, <1>8, <1>10, <2>1 DEF HashRows, HashInv
  <2>3. HashTypes'
    BY <1>0, <1>4, <1>5 DEF HashTypes, HashInv
  <2> QED BY <2>2, <2>3 DEF HashInv
<1>14. StreamsInv'
  <2>1. \A k : RebuiltStream(k)' = RebuiltStream(k)
    BY <1>0 DEF RebuiltStream, OldPayload
  <2>2. ASSUME NEW k \in 1 .. Cabs
        PROVE  Finished(k)' <=> Finished(k) \/ (k = i /\ Changed(i))
    <3>1. at'[1] = i + 1
      BY <1>0, <1>1
    <3>2. k < i + 1 <=> k < i \/ k = i
      OBVIOUS
    <3> QED BY <1>1, <1>7, <3>1, <3>2 DEF Finished
  <2>3. ~Finished(i)
    BY <1>1 DEF Finished
  <2>4. original.media[i].cabinet \in DOMAIN db.streams
    BY <1>0, <1>4, ReadMembers DEF StreamsInv, Read
  <2>5. \A k \in 1 .. Cabs : k # i => original.media[k].cabinet # original.media[i].cabinet
    BY <1>0 DEF Preflight, SoundInv, MediaSound, Cabs
  <2>6. DOMAIN db'.streams = DOMAIN original.streams
    BY <1>4, <1>5 DEF StreamsInv
  <2>7. ASSUME NEW c \in DOMAIN original.streams,
               \A k \in 1 .. Cabs : original.media[k].cabinet = c => ~Finished(k)'
        PROVE  db'.streams[c] = original.streams[c]
    <3>1. \A k \in 1 .. Cabs : original.media[k].cabinet = c => ~Finished(k)
      BY <2>2, <2>7
    <3>2. db.streams[c] = original.streams[c]
      BY <1>4, <3>1 DEF StreamsInv
    <3>3. Changed(i) => original.media[i].cabinet # c
      BY <2>2, <2>7
    <3>4. c \in DOMAIN db.streams
      BY <1>4 DEF StreamsInv
    <3> QED BY <1>5, <3>2, <3>3, <3>4
  <2>8. ASSUME NEW k \in 1 .. Cabs, Finished(k)'
        PROVE  db'.streams[original.media[k].cabinet] = RebuiltStream(k)
    <3>1. CASE k = i
      <4>1. Changed(i)
        BY <2>2, <2>3, <2>8, <3>1
      <4> QED BY <1>5, <2>4, <3>1, <4>1
    <3>2. CASE k # i
      <4>1. Finished(k)
        BY <2>2, <2>8, <3>2
      <4>2. db.streams[original.media[k].cabinet] = RebuiltStream(k)
        BY <1>4, <4>1 DEF StreamsInv
      <4>3. original.media[k].cabinet \in DOMAIN db.streams
        BY <1>0, <1>4, ReadMembers DEF StreamsInv, Read
      <4> QED BY <1>5, <2>5, <3>2, <4>2, <4>3
    <3> QED BY <3>1, <3>2
  <2> QED BY <1>0, <2>1, <2>6, <2>7, <2>8 DEF StreamsInv
<1>15. BinaryInv'
  BY <1>0, <1>4, <1>5, <1>9 DEF BinaryInv
<1>16. CountInv'
  BY <1>0, <1>4, <1>7, <1>9 DEF CountInv, Unsigned
<1> QED
  BY FinishPreflight, <1>11, <1>12, <1>13, <1>14, <1>15, <1>16 DEF Signing

\* The inductive invariant of a rewriting.
RunningInv ==
  /\ step \in {"media", "files", "cabinets", "binaries", "sign", "end"}
  /\ step # "end" => Preflight
  /\ step = "sign" => Signing
  /\ step = "end" => outcome \in {"done", "rejected", "failed"}

\* It holds at first.
LEMMA RunningInit == RewriteInit => RunningInv
  BY PreflightInit DEF RewriteInit, RunningInv

\* Nothing happens after the end.
LEMMA EndStays ==
  ASSUME step = "end", [RewriteNext]_rewriteVars
  PROVE  UNCHANGED rewriteVars
<1>1. CASE UNCHANGED rewriteVars
  BY <1>1
<1>2. CASE ReadMedia
  BY <1>2 DEF ReadMedia, Invalid, Leave, Goto
<1>3. CASE ReadFiles
  BY <1>3 DEF ReadFiles, Invalid, Leave, Goto
<1>4. CASE PreflightCabinet
  BY Zenon, <1>4 DEF PreflightCabinet
<1>5. CASE CheckRows
  BY <1>5 DEF CheckRows, Invalid, Leave, Goto
<1>6. CASE PreflightBinary
  BY <1>6 DEF PreflightBinary
<1>7. CASE ReadHashes
  BY <1>7 DEF ReadHashes, Invalid, Leave, Goto
<1>8. CASE SkipPayload \/ PreservePayload \/ SignPayload \/ CallbackThrows
  BY <1>8 DEF SkipPayload, PreservePayload, SignPayload, CallbackThrows
<1>9. CASE FinishCabinet
  BY <1>9 DEF FinishCabinet, Goto
<1>10. CASE Commit \/ ReturnUnchanged \/ CommitFails
  BY <1>10 DEF Commit, ReturnUnchanged, CommitFails, AllDone
<1>11. CASE Fail
  BY <1>11 DEF Fail
<1>12. CASE Returned
  BY <1>12 DEF Returned
<1> QED
  BY <1>1, <1>2, <1>3, <1>4, <1>5, <1>6, <1>7, <1>8, <1>9, <1>10, <1>11, <1>12 DEF RewriteNext

\* The steps that go on.
LEMMA GoingOn ==
  ASSUME step' # "end", step # "end", [RewriteNext]_rewriteVars
  PROVE  \/ UNCHANGED rewriteVars
         \/ ReadMedia \/ ReadFiles \/ PreflightCabinet \/ CheckRows \/ PreflightBinary \/ ReadHashes
         \/ SkipPayload \/ PreservePayload \/ SignPayload \/ FinishCabinet
<1>1. ~Commit /\ ~ReturnUnchanged /\ ~CommitFails
  BY DEF Commit, ReturnUnchanged, CommitFails, Return
<1>2. ~Fail /\ ~CallbackThrows /\ ~Returned
  BY DEF Fail, CallbackThrows, Leave, Returned
<1> QED
  BY <1>1, <1>2 DEF RewriteNext

\* The ones that end, and how.
LEMMA Ending ==
  ASSUME step' = "end", step # "end", [RewriteNext]_rewriteVars
  PROVE  \/ Invalid("media") /\ ReadMedia
         \/ Invalid("files") /\ ReadFiles
         \/ Invalid("cabinets") /\ (PreflightCabinet \/ CheckRows)
         \/ Invalid("binaries") /\ (PreflightBinary \/ ReadHashes)
         \/ Leave("sign", "rejected") /\ SignPayload
         \/ Commit \/ ReturnUnchanged \/ CommitFails \/ Fail \/ CallbackThrows
<1>1. CASE UNCHANGED rewriteVars
  BY <1>1 DEF rewriteVars
<1>2. CASE ReadMedia
  BY <1>2 DEF ReadMedia, Goto
<1>3. CASE ReadFiles
  BY <1>3 DEF ReadFiles, Goto
<1>4. CASE PreflightCabinet
  BY <1>4 DEF PreflightCabinet, Goto
<1>5. CASE CheckRows
  BY <1>5 DEF CheckRows, Goto
<1>6. CASE PreflightBinary
  BY <1>6 DEF PreflightBinary, Goto
<1>7. CASE ReadHashes
  BY <1>7 DEF ReadHashes, Goto
<1>8. CASE SkipPayload \/ PreservePayload
  BY <1>8 DEF SkipPayload, PreservePayload, Goto
<1>9. CASE SignPayload
  BY <1>9 DEF SignPayload, Goto
<1>10. CASE FinishCabinet
  BY <1>10 DEF FinishCabinet, Goto
<1>11. CASE Returned
  BY <1>11 DEF Returned
<1> QED
  BY <1>1, <1>2, <1>3, <1>4, <1>5, <1>6, <1>7, <1>8, <1>9, <1>10, <1>11 DEF RewriteNext

\* Nothing changes in a stuttering step.
LEMMA PreflightSame ==
  ASSUME UNCHANGED rewriteVars
  PROVE  Preflight' = Preflight /\ Signing' = Signing
<1>1. UNCHANGED <<original, windows, disk, db, cabinets, work, expanded, binaries, at, calls, result, step, outcome>>
  BY DEF rewriteVars, input
<1>2. Cabs' = Cabs /\ Bins' = Bins /\ Cursor' = Cursor
  BY <1>1 DEF Cabs, Bins, Cursor
<1>3. \A i, j : Place(i, j)' = Place(i, j) /\ OldPayload(i, j)' = OldPayload(i, j)
  BY <1>1 DEF Place, OldPayload
<1>4. \A i : MembersOf(original, i)' = MembersOf(original, i)
  BY <1>1
<1>5. \A i, j : Now(Place(i, j), OldPayload(i, j))' = Now(Place(i, j), OldPayload(i, j))
  BY <1>2, <1>3 DEF Now
<1>6. \A b : /\ BinaryPlace(b)' = BinaryPlace(b)
             /\ Now(BinaryPlace(b), original.binary[b].payload)' = Now(BinaryPlace(b), original.binary[b].payload)
  BY <1>1, <1>2 DEF BinaryPlace, Now
<1>7. \A i : Read(i)' = Read(i) /\ Changed(i)' = Changed(i) /\ Finished(i)' = Finished(i)
  BY <1>1, <1>2, <1>3 DEF Read, Changed, Finished, Unsigned
<1>8. \A i : CabinetRecord(i)' = CabinetRecord(i)
  BY <1>1, <1>7 DEF CabinetRecord, Listed, LastBefore
<1>9. Types' = Types /\ PlaceInv' = PlaceInv /\ CabinetsInv' = CabinetsInv
  BY <1>1, <1>2, <1>8 DEF Types, PlaceInv, CabinetsInv
<1>10. WorkInv' = WorkInv
  BY <1>1, <1>2, <1>3, <1>4, <1>5, <1>6, <1>7 DEF WorkInv
<1>11. SoundInv' = SoundInv
  BY <1>1, <1>2, <1>7 DEF SoundInv
<1>12. SameTables' = SameTables /\ BinaryInv' = BinaryInv
  BY <1>1, <1>2, <1>6 DEF SameTables, BinaryInv
<1>13. FileInv' = FileInv
  <2>1. \A i, j : Size(Now(Place(i, j), OldPayload(i, j)))' = Size(Now(Place(i, j), OldPayload(i, j)))
    BY <1>5 DEF Size
  <2> QED BY <1>1, <1>2, <1>4, <2>1 DEF FileInv
<1>14. HashInv' = HashInv
  BY <1>1, <1>2, <1>3, <1>4, <1>5 DEF HashInv, HashRows, HashTypes, Unversioned
<1>15. StreamsInv' = StreamsInv
  <2>1. \A i : RebuiltStream(i)' = RebuiltStream(i)
    BY <1>1 DEF RebuiltStream, OldPayload
  <2> QED BY <1>1, <1>2, <1>7, <2>1 DEF StreamsInv
<1>16. CountInv' = CountInv
  BY <1>1, <1>2, <1>6, <1>7 DEF CountInv, Unsigned
<1> QED
  BY <1>9, <1>10, <1>11, <1>12, <1>13, <1>14, <1>15, <1>16 DEF Preflight, Signing

\* Every step keeps the inductive invariant.
LEMMA RunningStep ==
  ASSUME RunningInv, [RewriteNext]_rewriteVars
  PROVE  RunningInv'
<1>1. CASE step = "end"
  <2>1. step' = "end" /\ outcome' = outcome
    BY <1>1, EndStays DEF rewriteVars
  <2> QED BY <1>1, <2>1 DEF RunningInv
<1>2. CASE step # "end" /\ step' = "end"
  <2>1. outcome' \in {"done", "rejected", "failed"}
    BY <1>2, Ending DEF Invalid, Leave, Commit, ReturnUnchanged, Return, CommitFails, Fail, CallbackThrows
  <2> QED BY <1>2, <2>1 DEF RunningInv
<1>3. CASE step # "end" /\ step' # "end"
  <2>0. Preflight /\ (step = "sign" => Signing)
    BY <1>3 DEF RunningInv
  <2> SUFFICES Preflight' /\ (step' = "sign" => Signing')
    BY <1>3 DEF RunningInv, Preflight, Types
  <2>1. CASE UNCHANGED rewriteVars
    BY <2>0, <2>1, PreflightSame DEF rewriteVars
  <2>2. CASE ReadMedia
    <3>1. step' # "sign"
      BY <2>2 DEF ReadMedia, Goto, Invalid, Leave
    <3> QED BY <1>3, <2>0, <2>2, <3>1, MediaStep
  <2>3. CASE ReadFiles
    <3>1. step' # "sign"
      BY <2>3 DEF ReadFiles, Goto, Invalid, Leave
    <3> QED BY <1>3, <2>0, <2>3, <3>1, FilesStep
  <2>4. CASE PreflightCabinet
    <3>1. step' # "sign"
      BY Zenon, <2>4 DEF PreflightCabinet, Goto, Invalid, Leave
    <3> QED BY <1>3, <2>0, <2>4, <3>1, CabinetStep
  <2>5. CASE CheckRows
    <3>1. step' # "sign"
      BY <2>5 DEF CheckRows, Goto, Invalid, Leave
    <3> QED BY <1>3, <2>0, <2>5, <3>1, RowsStep
  <2>6. CASE PreflightBinary
    <3>1. step' # "sign"
      BY <2>6 DEF PreflightBinary, Goto, Invalid, Leave
    <3> QED BY <1>3, <2>0, <2>6, <3>1, BinaryStep
  <2>7. CASE ReadHashes
    BY <1>3, <2>0, <2>7, HashesStep, SigningStart
  <2>8. CASE SkipPayload \/ PreservePayload
    <3>1. step = "sign"
      BY <2>8 DEF SkipPayload, PreservePayload
    <3> QED BY <2>0, <2>8, <3>1, PassStep
  <2>9. CASE SignPayload
    <3>1. step = "sign"
      BY <2>9 DEF SignPayload
    <3> QED BY <1>3, <2>0, <2>9, <3>1, SignStep
  <2>10. CASE FinishCabinet
    <3>1. step = "sign"
      BY <2>10 DEF FinishCabinet, Goto
    <3> QED BY <2>0, <2>10, <3>1, FinishStep
  <2> QED
    BY <1>3, <2>1, <2>2, <2>3, <2>4, <2>5, <2>6, <2>7, <2>8, <2>9, <2>10, GoingOn
<1> QED BY <1>1, <1>2, <1>3

\* rewrite_msi_payload keeps its inductive invariant for every set of installers and all
\* limits: up to its end the staged copy is untouched, the workspace has every payload read
\* at its place, signed exactly if it lies before the cursor and came unsigned, and the
\* open database has the sizes, hashes, streams and Binary rows that belong to it.
THEOREM RewriteCorrect == RewriteSpec => []RunningInv
<1> QED
  BY RunningInit, RunningStep, PTL DEF RewriteSpec

\* What becomes of a payload that the program has not signed yet.
LEMMA TreatedFacts ==
  ASSUME NEW q \in PayloadFiles, q.signature # "new"
  PROVE  /\ Treated(q) \in PayloadFiles
         /\ Stripped(Treated(q)) = q /\ Stripped(q) = q
         /\ ~Unsigned(Treated(q))
         /\ Treated(q) = q <=> ~Unsigned(q)
         /\ Size(q) \in Nat /\ Size(Treated(q)) \in Nat /\ Size(q) <= Size(Treated(q))
<1>1. q.signature \in {"none", "given"} /\ q.length \in Nat
  BY DEF PayloadFiles
<1>2. CASE Unsigned(q)
  <2>1. Treated(q) = Signed(q) /\ q.signature = "none"
    BY <1>2 DEF Treated, Unsigned
  <2>2. Signed(q) \in PayloadFiles /\ Signed(q).signature = "new" /\ Signed(q).length = q.length
    BY DEF Signed, PayloadFiles
  <2>3. Stripped(Signed(q)) = [Signed(q) EXCEPT !.signature = "none"]
    BY <2>2 DEF Stripped
  <2>4. [Signed(q) EXCEPT !.signature = "none"] = q
    BY <2>1 DEF Signed, PayloadFiles
  <2>5. Stripped(q) = q
    BY <2>1 DEF Stripped
  <2>6. Size(q) = q.length /\ Size(Signed(q)) = q.length + 1
    BY <1>1, <2>1, <2>2 DEF Size
  <2>7. ~Unsigned(Signed(q)) /\ Signed(q) # q
    BY <2>1, <2>2 DEF Unsigned
  <2> QED BY <1>1, <1>2, <2>1, <2>2, <2>3, <2>4, <2>5, <2>6, <2>7
<1>3. CASE ~Unsigned(q)
  <2>1. Treated(q) = q
    BY <1>3 DEF Treated
  <2>2. Size(q) = q.length
    BY <1>1 DEF Size
  <2>3. Stripped(q) = q
    BY DEF Stripped
  <2> QED BY <1>1, <1>3, <2>1, <2>2, <2>3
<1> QED BY <1>2, <1>3

\* The payloads of the package as it came.
LEMMA OldPayloads ==
  ASSUME Preflight, step \in {"binaries", "sign"}
  PROVE  /\ \A i \in 1 .. Cabs : \A j \in 1 .. Len(MembersOf(original, i)) :
              OldPayload(i, j) \in PayloadFiles /\ OldPayload(i, j).signature # "new"
         /\ \A b \in 1 .. Bins :
              original.binary[b].payload \in PayloadFiles /\ original.binary[b].payload.signature # "new"
<1>1. IsPackage(original) /\ Untouched(original)
  BY OriginalFacts DEF Preflight
<1>2. ASSUME NEW i \in 1 .. Cabs, NEW j \in 1 .. Len(MembersOf(original, i))
      PROVE  OldPayload(i, j) \in PayloadFiles /\ OldPayload(i, j).signature # "new"
  <2>1. original.media[i].cabinet \in DOMAIN original.streams
    BY ReadMembers DEF Read
  <2>2. i \in 1 .. Len(original.media)
    BY DEF Cabs
  <2>3. DOMAIN MembersOf(original, i) = 1 .. Len(MembersOf(original, i))
        /\ MembersOf(original, i)[j].payload \in PayloadFiles
    BY <1>1, <2>1, <2>2, PackageCabinet
  <2>4. j \in DOMAIN original.streams[original.media[i].cabinet].members
    BY SMTT(60), <2>3 DEF MembersOf, Cabinet
  <2>5. original.streams[original.media[i].cabinet].members[j].payload.signature # "new"
    BY <1>1, <2>1, <2>4 DEF Untouched
  <2> QED BY Zenon, <2>3, <2>5 DEF OldPayload, MembersOf, Cabinet
<1>3. ASSUME NEW b \in 1 .. Bins
      PROVE  original.binary[b].payload \in PayloadFiles /\ original.binary[b].payload.signature # "new"
  BY <1>1, PackageBinary DEF Bins, Untouched
<1> QED BY <1>2, <1>3

\* After the last payload.
LEMMA AllPassed ==
  ASSUME Preflight, Signing, AllDone
  PROVE  /\ step = "sign" /\ at[1] = Cabs + 1
         /\ \A i \in 1 .. Cabs : \A j \in 1 .. Len(MembersOf(original, i)) :
              Place(i, j) < Cursor /\ Now(Place(i, j), OldPayload(i, j)) = Treated(OldPayload(i, j))
         /\ \A b \in 1 .. Bins :
              BinaryPlace(b) < Cursor
              /\ Now(BinaryPlace(b), original.binary[b].payload) = Treated(original.binary[b].payload)
         /\ \A i \in 1 .. Cabs :
              /\ Finished(i) = Changed(i)
              /\ Changed(i) = \E j \in 1 .. Len(MembersOf(original, i)) : Unsigned(OldPayload(i, j))
<1>0. step = "sign" /\ Len(cabinets) = Cabs /\ Len(db.binary) = Bins
  <2>1. step = "sign"
    BY DEF AllDone
  <2> QED BY <2>1, CabinetsAre, BinaryLength DEF Signing
<1>1. Cabs \in Nat /\ Bins \in Nat
  BY <1>0, Places
<1>2. Cabs + 1 \in 1 .. Cabs + 1
  BY <1>1
<1>3. Start(original, Cabs + 1) \in Nat
  BY <1>0, <1>2, Places
<1>4. at[1] = Cabs + 1 /\ at[2] = Bins + 1
  <2>1. at[1] \in 1 .. Cabs + 1 /\ (at[1] > Cabs => at[2] \in 1 .. Bins + 1)
    BY <1>0 DEF Preflight, PlaceInv
  <2>2. at[1] > Cabs /\ at[2] > Bins
    BY <1>0 DEF AllDone
  <2> QED BY <1>1, <2>1, <2>2
<1>5. Cursor = Start(original, Cabs + 1) + Bins + 1
  BY <1>0, <1>1, <1>3, <1>4 DEF Cursor
<1>6. ASSUME NEW i \in 1 .. Cabs, NEW j \in 1 .. Len(MembersOf(original, i))
      PROVE  Place(i, j) < Cursor /\ Now(Place(i, j), OldPayload(i, j)) = Treated(OldPayload(i, j))
  <2>1. Place(i, j) \in 1 .. Start(original, Cabs + 1)
    BY <1>0, PlacesApart
  <2>2. Place(i, j) < Cursor
    BY <1>1, <1>3, <1>5, <2>1
  <2> QED BY <2>2 DEF Now
<1>7. ASSUME NEW b \in 1 .. Bins
      PROVE  BinaryPlace(b) < Cursor
             /\ Now(BinaryPlace(b), original.binary[b].payload) = Treated(original.binary[b].payload)
  <2>1. BinaryPlace(b) < Cursor
    BY <1>1, <1>3, <1>5 DEF BinaryPlace
  <2> QED BY <2>1 DEF Now
<1>8. ASSUME NEW i \in 1 .. Cabs
      PROVE  /\ Finished(i) = Changed(i)
             /\ Changed(i) = \E j \in 1 .. Len(MembersOf(original, i)) : Unsigned(OldPayload(i, j))
  <2>1. i < at[1]
    BY <1>1, <1>4
  <2>2. Finished(i) = Changed(i)
    BY <2>1 DEF Finished, Changed
  <2>3. Changed(i) = \E j \in 1 .. Len(MembersOf(original, i)) : Unsigned(OldPayload(i, j))
    BY <1>0, <1>6 DEF Changed
  <2> QED BY <2>2, <2>3
<1> QED
  BY <1>0, <1>4, <1>6, <1>7, <1>8

\* A rebuilt stream.
LEMMA RebuiltMembers ==
  ASSUME Preflight, step = "sign", NEW i \in 1 .. Cabs
  PROVE  /\ Len(RebuiltStream(i).members) = Len(MembersOf(original, i))
         /\ DOMAIN RebuiltStream(i).members = 1 .. Len(MembersOf(original, i))
         /\ RebuiltStream(i).regular = TRUE
         /\ RebuiltStream(i).expands =
              TotalSize([j \in 1 .. Len(MembersOf(original, i)) |-> Treated(OldPayload(i, j))])
         /\ \A j \in 1 .. Len(MembersOf(original, i)) :
              /\ RebuiltStream(i).members[j].name = MembersOf(original, i)[j].name
              /\ RebuiltStream(i).members[j].meta = MembersOf(original, i)[j].meta
              /\ RebuiltStream(i).members[j].size = Size(Treated(OldPayload(i, j)))
              /\ RebuiltStream(i).members[j].payload = Treated(OldPayload(i, j))
<1>1. Len(MembersOf(original, i)) \in Nat
  BY Places
<1> DEFINE N == 1 .. Len(MembersOf(original, i))
           M == [j \in N |-> [name |-> MembersOf(original, i)[j].name,
                              size |-> Size(Treated(OldPayload(i, j))),
                              meta |-> MembersOf(original, i)[j].meta, payload |-> Treated(OldPayload(i, j))]]
<1>2. /\ RebuiltStream(i).members = M /\ RebuiltStream(i).regular = TRUE
      /\ RebuiltStream(i).expands = TotalSize([j \in N |-> Treated(OldPayload(i, j))])
  BY DEF RebuiltStream
<1>3. \A j \in N : /\ M[j].name = MembersOf(original, i)[j].name
                   /\ M[j].meta = MembersOf(original, i)[j].meta
                   /\ M[j].size = Size(Treated(OldPayload(i, j)))
                   /\ M[j].payload = Treated(OldPayload(i, j))
  OBVIOUS
<1>4. DOMAIN M = N /\ M = [j \in N |-> M[j]]
  OBVIOUS
<1>5. Len(M) = Len(MembersOf(original, i))
  <2> DEFINE R == {M[j] : j \in N}
  <2>1. \A j \in N : M[j] \in R
    OBVIOUS
  <2> HIDE DEF R, M
  <2> QED BY <1>1, <1>4, <2>1, FunctionSeq
<1> HIDE DEF M
<1> QED BY <1>2, <1>3, <1>4, <1>5

\* The database that is committed holds what the package held, but for new signatures.
LEMMA Preserved ==
  ASSUME Preflight, Signing, AllDone
  PROVE  SamePayload([db EXCEPT !.code = "renewed"], original)
<1> DEFINE p == [db EXCEPT !.code = "renewed"]
<1>0. /\ IsPackage(original)
      /\ DOMAIN db = {"storages", "compressed", "code", "media", "file", "streams", "binary", "hash"}
  BY OriginalFacts DEF Preflight, Signing, SameTables, IsPackage
<1>1. p.streams = db.streams /\ p.binary = db.binary
  BY <1>0
<1>2. step = "sign"
  BY AllPassed
<1> HIDE DEF p
<1>3. ASSUME NEW c \in DOMAIN original.streams
      PROVE  LET old == original.streams[c].members
                 new == p.streams[c].members
             IN /\ Len(new) = Len(old)
                /\ \A j \in DOMAIN old :
                     /\ Stripped(new[j].payload) = old[j].payload
                     /\ new[j].name = old[j].name /\ new[j].meta = old[j].meta
                /\ (\A j \in DOMAIN old : new[j].payload = old[j].payload) => p.streams[c] = original.streams[c]
  <2>1. CASE \E i \in 1 .. Cabs : original.media[i].cabinet = c /\ Finished(i)
    <3>1. PICK i \in 1 .. Cabs : original.media[i].cabinet = c /\ Finished(i)
      BY <2>1
    <3>2. original.streams[c].members = MembersOf(original, i)
      BY <3>1 DEF MembersOf, Cabinet
    <3>3. p.streams[c] = RebuiltStream(i)
      BY <1>1, <3>1 DEF Signing, StreamsInv
    <3>4. DOMAIN MembersOf(original, i) = 1 .. Len(MembersOf(original, i))
      <4>1. MembersOf(original, i) \in Seq(CabinetMember)
        BY <1>2, ReadMembers DEF Read
      <4> QED BY <4>1, SeqFacts
    <3>5. ASSUME NEW j \in 1 .. Len(MembersOf(original, i))
          PROVE  /\ Stripped(Treated(OldPayload(i, j))) = OldPayload(i, j)
                 /\ Treated(OldPayload(i, j)) = OldPayload(i, j) <=> ~Unsigned(OldPayload(i, j))
      BY <1>2, OldPayloads, TreatedFacts
    <3>6. \E j \in 1 .. Len(MembersOf(original, i)) : Unsigned(OldPayload(i, j))
      BY <3>1, AllPassed
    <3>7. \A j \in 1 .. Len(MembersOf(original, i)) : MembersOf(original, i)[j].payload = OldPayload(i, j)
      BY DEF OldPayload
    <3>8. /\ Len(RebuiltStream(i).members) = Len(MembersOf(original, i))
          /\ \A j \in 1 .. Len(MembersOf(original, i)) :
              /\ RebuiltStream(i).members[j].name = MembersOf(original, i)[j].name
              /\ RebuiltStream(i).members[j].meta = MembersOf(original, i)[j].meta
              /\ RebuiltStream(i).members[j].payload = Treated(OldPayload(i, j))
      BY <1>2, RebuiltMembers
    <3>9. PICK old, new, stream : /\ old = MembersOf(original, i)
                                  /\ new = RebuiltStream(i).members /\ stream = RebuiltStream(i)
      OBVIOUS
    <3>10. Len(new) = Len(old)
           /\ \A j \in DOMAIN old :
                /\ Stripped(new[j].payload) = old[j].payload
                /\ new[j].name = old[j].name /\ new[j].meta = old[j].meta
      BY <3>4, <3>5, <3>7, <3>8, <3>9
    <3>11. ~(\A j \in DOMAIN old : new[j].payload = old[j].payload)
      BY <3>4, <3>5, <3>6, <3>7, <3>8, <3>9
    <3>12. original.streams[c].members = old /\ p.streams[c].members = new
      BY <3>2, <3>3, <3>9
    <3> QED BY <3>10, <3>11, <3>12
  <2>2. CASE ~(\E i \in 1 .. Cabs : original.media[i].cabinet = c /\ Finished(i))
    <3>1. p.streams[c] = original.streams[c]
      BY <1>1, <2>2 DEF Signing, StreamsInv
    <3>2. \A j \in DOMAIN original.streams[c].members : original.streams[c].members[j].payload.signature # "new"
      BY OriginalFacts DEF Preflight, Untouched
    <3>3. \A j \in DOMAIN original.streams[c].members :
            Stripped(original.streams[c].members[j].payload) = original.streams[c].members[j].payload
      BY <3>2 DEF Stripped
    <3> QED BY <3>1, <3>3
  <2> QED BY <2>1, <2>2
<1>4. ASSUME NEW b \in DOMAIN original.binary
      PROVE  p.binary[b].name = original.binary[b].name
             /\ Stripped(p.binary[b].payload) = original.binary[b].payload
  <2>1. b \in 1 .. Bins /\ original.binary[b] \in [name: STRING, payload: PayloadFiles]
    BY <1>0, PackageBinary DEF Bins
  <2>2. p.binary[b] = [original.binary[b] EXCEPT !.payload = Now(BinaryPlace(b), original.binary[b].payload)]
    BY <1>1, <2>1 DEF Signing, BinaryInv
  <2>3. Now(BinaryPlace(b), original.binary[b].payload) = Treated(original.binary[b].payload)
    BY <2>1, AllPassed
  <2>4. Stripped(Treated(original.binary[b].payload)) = original.binary[b].payload
    BY <1>2, <2>1, OldPayloads, TreatedFacts
  <2>5. p.binary[b].name = original.binary[b].name
        /\ p.binary[b].payload = Treated(original.binary[b].payload)
    BY <2>1, <2>2, <2>3
  <2> QED BY <2>4, <2>5
<1>5. SamePayload(p, original)
  BY <1>3, <1>4 DEF SamePayload
<1> QED BY <1>5 DEF p

\* So does a package itself.
LEMMA PreservedSame ==
  ASSUME NEW q, Untouched(q)
  PROVE  SamePayload(q, q)
<1>1. \A c \in DOMAIN q.streams : \A j \in DOMAIN q.streams[c].members :
        Stripped(q.streams[c].members[j].payload) = q.streams[c].members[j].payload
  BY DEF Untouched, Stripped
<1>2. \A b \in DOMAIN q.binary : Stripped(q.binary[b].payload) = q.binary[b].payload
  BY DEF Untouched, Stripped
<1> QED BY <1>1, <1>2 DEF SamePayload

\* How a rewrite is done.
LEMMA Done ==
  ASSUME RunningInv, [RewriteNext]_rewriteVars, step # "end", outcome' = "done"
  PROVE  /\ Preflight /\ Signing /\ AllDone /\ original' = original /\ step' = "end"
         /\ \/ ~NothingSigned /\ disk' = [db EXCEPT !.code = "renewed"]
            \/ NothingSigned /\ disk' = original
<1>0. Preflight
  BY DEF RunningInv
<1>1. step' = "end"
  <2>1. RunningInv'
    BY RunningStep
  <2>2. step' # "end" => outcome' = "running"
    BY <2>1 DEF RunningInv, Preflight, Types
  <2> QED BY <2>2
<1>2. Commit \/ ReturnUnchanged
  BY <1>1, Ending DEF Invalid, Leave, CommitFails, Fail, CallbackThrows
<1>3. AllDone /\ step = "sign" /\ original' = original
  BY <1>2 DEF Commit, ReturnUnchanged, AllDone, Return, input
<1>4. disk = original
  BY <1>0 DEF Preflight, Types
<1> QED
  BY <1>0, <1>1, <1>2, <1>3, <1>4 DEF RunningInv, Commit, ReturnUnchanged, Return

\* For every set of installers and all limits: a rewriting that succeeds leaves every
\* payload in its place under its name, date and attributes, changed at most by the
\* signature it was given, and every cabinet in which none was signed as it was.
THEOREM OthersArePreserved == RewriteSpec => []OthersPreserved
<1>1. RewriteInit => OthersPreserved
  BY DEF RewriteInit, OthersPreserved
<1>2. ASSUME RunningInv, OthersPreserved, [RewriteNext]_rewriteVars
      PROVE  OthersPreserved'
  <2>1. CASE step = "end"
    BY <1>2, <2>1, EndStays DEF rewriteVars, input, OthersPreserved, SamePayload, Stripped
  <2>2. CASE step # "end" /\ outcome' # "done"
    BY <2>2 DEF OthersPreserved
  <2>3. CASE step # "end" /\ outcome' = "done"
    <3>1. /\ Preflight /\ Signing /\ AllDone /\ original' = original
          /\ \/ disk' = [db EXCEPT !.code = "renewed"]
             \/ disk' = original
      BY <1>2, <2>3, Done
    <3>2. SamePayload(disk', original)
      BY SMTT(30), <3>1, Preserved, PreservedSame, OriginalFacts DEF Preflight
    <3>3. SamePayload(disk, original)'
      BY ZenonT(60), <3>1, <3>2 DEF SamePayload, Stripped
    <3> QED BY <3>3 DEF OthersPreserved
  <2> QED BY SMTT(30), <2>1, <2>2, <2>3
<1> QED
  BY <1>1, <1>2, RewriteCorrect, PTL DEF RewriteSpec

-----------------------------------------------------------------------------
\* The limits.

\* The sizes of a cabinet's members as they came and by now, and what is accounted
\* for a cabinet and for a Binary row.
OldSizes(i) == TotalSize([j \in 1 .. Len(MembersOf(original, i)) |-> OldPayload(i, j)])
NowSizes(i) ==
  TotalSize([j \in 1 .. Len(MembersOf(original, i)) |-> Now(Place(i, j), OldPayload(i, j))])
Spent(i) == Cabinet(original, i).expands + NowSizes(i) - OldSizes(i)
SpentBinary(b) == Size(Now(BinaryPlace(b), original.binary[b].payload))

\* How many cabinets have been read.
ReadCabs == IF step \in {"media", "files"} THEN 0 ELSE IF step = "cabinets" THEN at[1] - 1 ELSE Cabs

\* The budget covers the bytes in the workspace.
BudgetInv ==
  /\ Len(work) <= MemberLimit
  /\ TotalSize(work) <= expanded
  /\ expanded <= ExpansionLimit
  /\ expanded = Total([i \in 1 .. ReadCabs |-> Spent(i)]) + Total([b \in 1 .. binaries |-> SpentBinary(b)])

\* The size of a payload, signed or not, is a number.
LEMMA SizeNat ==
  ASSUME NEW q \in PayloadFiles
  PROVE  Size(q) \in Nat /\ Treated(q) \in PayloadFiles /\ Size(Treated(q)) \in Nat
<1>1. q.length \in Nat /\ Treated(q) \in PayloadFiles /\ Treated(q).length \in Nat
  BY DEF PayloadFiles, Treated, Signed
<1> QED BY <1>1 DEF Size

\* The sizes of finitely many payloads can be added.
LEMMA SizesSummable ==
  ASSUME NEW n \in Nat, NEW f, DOMAIN f = 1 .. n, \A k \in 1 .. n : f[k] \in PayloadFiles
  PROVE  /\ Summable([k \in DOMAIN f |-> Size(f[k])])
         /\ TotalSize(f) \in Nat
<1>1. IsFiniteSet(1 .. n)
  <2>1. 1 \in Int /\ n \in Int
    OBVIOUS
  <2> QED BY <2>1, FS_Interval
<1>2. \A k \in 1 .. n : Size(f[k]) \in Nat
  BY SizeNat
<1>3. Summable([k \in DOMAIN f |-> Size(f[k])])
  BY <1>1, <1>2 DEF Summable
<1> QED BY <1>3, TotalNat DEF TotalSize

\* Sizes add up over two lists of payloads,
LEMMA SizesConcat ==
  ASSUME NEW s \in Seq(PayloadFiles), NEW t \in Seq(PayloadFiles)
  PROVE  /\ TotalSize(s) \in Nat /\ TotalSize(t) \in Nat
         /\ TotalSize(s \o t) = TotalSize(s) + TotalSize(t)
<1> DEFINE f == [k \in DOMAIN s |-> Size(s[k])]
           g == [k \in DOMAIN t |-> Size(t[k])]
           h == [k \in DOMAIN (s \o t) |-> Size((s \o t)[k])]
<1>1. /\ Len(s) \in Nat /\ Len(t) \in Nat /\ DOMAIN s = 1 .. Len(s) /\ DOMAIN t = 1 .. Len(t)
      /\ \A k \in 1 .. Len(s) : s[k] \in PayloadFiles
      /\ \A k \in 1 .. Len(t) : t[k] \in PayloadFiles
  BY SeqFacts
<1>2. PICK m \in Nat, n \in Nat : m = Len(s) /\ n = Len(t)
  BY Zenon, <1>1
<1>3. /\ DOMAIN (s \o t) = 1 .. m + n
      /\ \A k \in 1 .. m : (s \o t)[k] = s[k]
      /\ \A k \in 1 .. n : (s \o t)[m + k] = t[k]
  <2>1. s \o t \in Seq(PayloadFiles) /\ Len(s \o t) = m + n
    BY <1>2, ConcatFacts
  <2>2. DOMAIN (s \o t) = 1 .. m + n
    BY <2>1, SeqFacts
  <2> QED BY <1>2, <2>2, ConcatFacts
<1>4. DOMAIN f = 1 .. m /\ DOMAIN g = 1 .. n /\ DOMAIN h = 1 .. m + n
  BY <1>1, <1>2, <1>3
<1>5. ASSUME NEW k \in 1 .. m PROVE f[k] \in Nat /\ h[k] = f[k]
  <2>1. k \in 1 .. m + n
    OBVIOUS
  <2> QED BY <1>1, <1>2, <1>3, <2>1, SizeNat
<1>6. ASSUME NEW k \in 1 .. n PROVE g[k] \in Nat /\ h[m + k] = g[k]
  <2>1. m + k \in 1 .. m + n
    OBVIOUS
  <2> QED BY <1>1, <1>2, <1>3, <2>1, SizeNat
<1>7. Total(h) = Total(f) + Total(g)
  <2>1. \A k \in 1 .. m : f[k] \in Nat /\ h[k] = f[k]
    BY <1>5
  <2>2. \A k \in 1 .. n : g[k] \in Nat /\ h[m + k] = g[k]
    BY <1>6
  <2>3. DOMAIN f = 1 .. m
    BY <1>4
  <2>4. DOMAIN g = 1 .. n
    BY <1>4
  <2>5. DOMAIN h = 1 .. m + n
    BY <1>4
  <2> HIDE DEF f, g, h
  <2>6. Follows(f, g, h, m, n)
    BY <2>1, <2>2, <2>3, <2>4, <2>5 DEF Follows
  <2> QED BY <2>6, TotalConcat
<1>8. TotalSize(s) \in Nat /\ TotalSize(t) \in Nat
  BY <1>1, SizesSummable
<1> QED BY <1>7, <1>8 DEF TotalSize

\* and over a list and one more payload.
LEMMA SizesAppend ==
  ASSUME NEW s \in Seq(PayloadFiles), NEW q \in PayloadFiles
  PROVE  TotalSize(Append(s, q)) = TotalSize(s) + Size(q)
<1> DEFINE f == [k \in DOMAIN s |-> Size(s[k])]
           g == [k \in DOMAIN Append(s, q) |-> Size(Append(s, q)[k])]
<1>1. Len(s) \in Nat /\ DOMAIN s = 1 .. Len(s) /\ \A k \in 1 .. Len(s) : s[k] \in PayloadFiles
  BY SeqFacts
<1>2. PICK n \in Nat : n = Len(s)
  BY <1>1
<1>3. /\ Append(s, q) \in Seq(PayloadFiles) /\ Len(Append(s, q)) = n + 1
      /\ Append(s, q)[n + 1] = q /\ \A k \in 1 .. n : Append(s, q)[k] = s[k]
  BY <1>2
<1>4. DOMAIN Append(s, q) = 1 .. n + 1 /\ \A k \in 1 .. n + 1 : Append(s, q)[k] \in PayloadFiles
  BY <1>3, SeqFacts
<1>5. Summable(f) /\ Summable(g)
  <2>1. PICK w : w = Append(s, q)
    OBVIOUS
  <2>2. DOMAIN w = 1 .. n + 1 /\ (\A k \in 1 .. n + 1 : w[k] \in PayloadFiles) /\ n + 1 \in Nat
    BY <1>4, <2>1
  <2>3. Summable([k \in DOMAIN w |-> Size(w[k])])
    BY <2>2, SizesSummable
  <2>4. Summable([k \in DOMAIN s |-> Size(s[k])])
    BY <1>1, SizesSummable
  <2> QED BY <2>1, <2>3, <2>4
<1>6. n + 1 \notin DOMAIN f /\ DOMAIN g = DOMAIN f \cup {n + 1} /\ \A k \in DOMAIN f : g[k] = f[k]
  BY <1>1, <1>2, <1>3, <1>4
<1>7. g[n + 1] = Size(q)
  BY <1>3, <1>4
<1>8. Total(g) = Total(f) + g[n + 1]
  <2> HIDE DEF f, g
  <2> QED BY <1>5, <1>6, TotalAdds
<1> QED BY <1>7, <1>8 DEF TotalSize

\* One payload replaced by another.
LEMMA SizesChange ==
  ASSUME NEW n \in Nat, NEW f, NEW g, NEW x \in 1 .. n, DOMAIN f = 1 .. n, DOMAIN g = 1 .. n,
         \A k \in 1 .. n : f[k] \in PayloadFiles /\ g[k] \in PayloadFiles,
         \A k \in 1 .. n : k # x => g[k] = f[k]
  PROVE  TotalSize(g) = TotalSize(f) - Size(f[x]) + Size(g[x])
<1> DEFINE F == [k \in DOMAIN f |-> Size(f[k])]
           G == [k \in DOMAIN g |-> Size(g[k])]
<1>1. Summable(F) /\ Summable(G)
  BY SizesSummable
<1>2. x \in DOMAIN F /\ DOMAIN G = DOMAIN F /\ \A k \in DOMAIN F : k # x => G[k] = F[k]
  OBVIOUS
<1>3. F[x] = Size(f[x]) /\ G[x] = Size(g[x])
  OBVIOUS
<1>4. Total(G) = Total(F) - F[x] + G[x]
  <2> HIDE DEF F, G
  <2> QED BY <1>1, <1>2, TotalChanges
<1> QED BY <1>3, <1>4 DEF TotalSize

\* What is known of a cabinet that has been read.
LEMMA SpentFacts ==
  ASSUME Preflight, step # "media", NEW i \in 1 .. Cabs, Read(i)
  PROVE  /\ Cabinet(original, i).expands \in Nat
         /\ \A j \in 1 .. Len(MembersOf(original, i)) :
              /\ OldPayload(i, j) \in PayloadFiles
              /\ Now(Place(i, j), OldPayload(i, j)) \in PayloadFiles
         /\ OldSizes(i) \in Nat /\ NowSizes(i) \in Nat
         /\ OldSizes(i) <= Cabinet(original, i).expands
         /\ OldSizes(i) = TotalDeclared(MembersOf(original, i))
         /\ Spent(i) \in Nat
         /\ step # "sign" => Spent(i) = Cabinet(original, i).expands
<1>1. /\ original.media[i].cabinet \in DOMAIN original.streams /\ Len(MembersOf(original, i)) \in Nat
  BY ReadMembers
<1>2. IsPackage(original) /\ i \in 1 .. Len(original.media)
  BY OriginalFacts DEF Preflight, Cabs
<1>3. /\ Cabinet(original, i) \in CabinetStream
      /\ DOMAIN MembersOf(original, i) = 1 .. Len(MembersOf(original, i))
      /\ \A j \in 1 .. Len(MembersOf(original, i)) :
           MembersOf(original, i)[j].payload \in PayloadFiles /\ MembersOf(original, i)[j].size \in Nat
  BY <1>1, <1>2, PackageCabinet
<1>4. Cabinet(original, i).expands \in Nat
  BY <1>3 DEF CabinetStream
<1>5. ASSUME NEW j \in 1 .. Len(MembersOf(original, i))
      PROVE  OldPayload(i, j) \in PayloadFiles /\ Now(Place(i, j), OldPayload(i, j)) \in PayloadFiles
  <2>1. OldPayload(i, j) \in PayloadFiles
    BY <1>3 DEF OldPayload
  <2> QED BY <2>1, SizeNat DEF Now
<1> DEFINE N == Len(MembersOf(original, i))
           old == [j \in 1 .. N |-> OldPayload(i, j)]
           now == [j \in 1 .. N |-> Now(Place(i, j), OldPayload(i, j))]
<1>6. OldSizes(i) \in Nat /\ NowSizes(i) \in Nat
  <2>1. \A j \in 1 .. N : old[j] \in PayloadFiles /\ now[j] \in PayloadFiles
    BY <1>5
  <2>2. DOMAIN old = 1 .. N /\ DOMAIN now = 1 .. N /\ N \in Nat
    BY <1>1
  <2>3. TotalSize(old) \in Nat /\ TotalSize(now) \in Nat
    <3> HIDE DEF old, now, N
    <3> QED BY <2>1, <2>2, SizesSummable
  <2> QED BY <2>3 DEF OldSizes, NowSizes
<1>7. CabinetSound(original, i)
  BY DEF Preflight, SoundInv
<1>8. OldSizes(i) = TotalDeclared(MembersOf(original, i))
  <2> DEFINE f == [k \in DOMAIN old |-> Size(old[k])]
             g == [k \in DOMAIN MembersOf(original, i) |-> MembersOf(original, i)[k].size]
  <2>1. DOMAIN f = 1 .. N /\ DOMAIN g = 1 .. N
    BY <1>3
  <2>2. \A k \in 1 .. N : f[k] = g[k]
    BY <1>3, <1>7 DEF CabinetSound, OldPayload
  <2>3. Total(f) = Total(g)
    <3> HIDE DEF f, g, N
    <3> QED BY <2>1, <2>2, TotalSame
  <2> QED BY <2>3 DEF OldSizes, TotalSize, TotalDeclared
<1>9. OldSizes(i) <= Cabinet(original, i).expands
  BY <1>7, <1>8 DEF CabinetSound
<1>10. OldSizes(i) <= NowSizes(i)
  <2> DEFINE f == [k \in DOMAIN old |-> Size(old[k])]
             g == [k \in DOMAIN now |-> Size(now[k])]
  <2>1. DOMAIN f = 1 .. N /\ DOMAIN g = 1 .. N
    OBVIOUS
  <2>2. ASSUME NEW k \in 1 .. N PROVE f[k] <= g[k]
    <3>1. Size(OldPayload(i, k)) \in Nat
      BY Zenon, <1>5, SizeNat
    <3>2. Size(OldPayload(i, k)) <= Size(Treated(OldPayload(i, k)))
      <4>1. OldPayload(i, k).signature # "new" /\ OldPayload(i, k) \in PayloadFiles
        <5>1. Untouched(original)
          BY OriginalFacts DEF Preflight
        <5>2. k \in DOMAIN original.streams[original.media[i].cabinet].members
          BY ZenonT(60), <1>3 DEF MembersOf, Cabinet
        <5>3. original.streams[original.media[i].cabinet].members[k].payload.signature # "new"
          BY <1>1, <5>1, <5>2 DEF Untouched
        <5> QED BY Zenon, <1>5, <5>3 DEF OldPayload, MembersOf, Cabinet
      <4> QED BY <4>1, TreatedFacts
    <3> QED BY <3>1, <3>2 DEF Now
  <2>3. Summable(f) /\ Summable(g)
    <3>1. \A j \in 1 .. N : old[j] \in PayloadFiles /\ now[j] \in PayloadFiles
      BY <1>5
    <3>2. DOMAIN old = 1 .. N /\ DOMAIN now = 1 .. N /\ N \in Nat
      BY <1>1
    <3> HIDE DEF old, now, N
    <3> QED BY <3>1, <3>2, SizesSummable
  <2>4. Total(f) <= Total(g)
    <3> HIDE DEF f, g, N
    <3> QED BY <2>1, <2>2, <2>3, TotalGrows
  <2> QED BY <2>4 DEF OldSizes, NowSizes, TotalSize
<1>11. Spent(i) \in Nat
  BY <1>4, <1>6, <1>9 DEF Spent
<1>12. ASSUME step # "sign" PROVE Spent(i) = Cabinet(original, i).expands
  <2>1. ASSUME NEW j \in 1 .. N PROVE Now(Place(i, j), OldPayload(i, j)) = OldPayload(i, j)
    <3>1. Start(original, i) \in Nat
      <4>1. i \in 1 .. Len(original.media) + 1 /\ KnownTo(original, i)
        <5>1. Cabs \in Nat /\ Cabs = Len(original.media)
          BY OriginalFacts DEF Preflight, Cabs
        <5>2. ASSUME NEW k \in 1 .. i - 1 PROVE original.media[k].cabinet \in DOMAIN original.streams
          <6>1. k \in 1 .. Cabs /\ k < i
            BY <5>1
          <6>2. Read(k)
            <7>1. CASE step = "cabinets"
              <8>1. at[1] \in Nat
                BY DEF Preflight, Types
              <8>2. k < at[1]
                BY <7>1, <6>1, <8>1 DEF Read
              <8> QED BY <7>1, <8>2 DEF Read
            <7>2. CASE step # "cabinets"
              BY <7>2 DEF Read
            <7> QED BY <7>1, <7>2
          <6> QED BY <6>1, <6>2, ReadMembers
        <5> QED BY <5>1, <5>2 DEF KnownTo
      <4> QED BY <1>2, <4>1, StartNat
    <3>2. Place(i, j) \in Nat \ {0}
      BY <1>1, <3>1 DEF Place
    <3> QED BY <1>12, <3>2, NothingPassed
  <2>2. now = old
    BY <2>1
  <2> QED BY SMTT(60), <1>4, <1>6, <2>2 DEF Spent, NowSizes, OldSizes
<1> QED
  BY <1>4, <1>5, <1>6, <1>8, <1>9, <1>11, <1>12

\* No payloads have no size.
LEMMA NoSizes ==
  ASSUME NEW f, DOMAIN f = {}
  PROVE  TotalSize(f) = 0
<1>1. DOMAIN [k \in DOMAIN f |-> Size(f[k])] = {}
  OBVIOUS
<1> QED BY <1>1, TotalNone DEF TotalSize

\* The limits are kept at first.
LEMMA BudgetInit == RewriteInit => BudgetInv
<1> SUFFICES ASSUME RewriteInit PROVE BudgetInv
  OBVIOUS
<1>1. work = <<>> /\ expanded = 0 /\ binaries = 0 /\ ReadCabs = 0
  BY DEF RewriteInit, ReadCabs
<1>2. TotalSize(work) = 0 /\ Len(work) = 0
  <2>1. DOMAIN work = {}
    BY <1>1
  <2> QED BY <1>1, <2>1, NoSizes
<1>3. Total([i \in 1 .. ReadCabs |-> Spent(i)]) = 0
  <2>1. DOMAIN [i \in 1 .. ReadCabs |-> Spent(i)] = {}
    BY <1>1
  <2> QED BY <2>1, TotalNone
<1>4. Total([b \in 1 .. binaries |-> SpentBinary(b)]) = 0
  <2>1. DOMAIN [b \in 1 .. binaries |-> SpentBinary(b)] = {}
    BY <1>1
  <2> QED BY <2>1, TotalNone
<1> QED
  BY <1>1, <1>2, <1>3, <1>4, LimitsAssumption DEF BudgetInv

\* A step that leaves the workspace and the payloads as they are.
LEMMA BudgetKept ==
  ASSUME BudgetInv, UNCHANGED <<original, work, expanded, binaries>>, ReadCabs' = ReadCabs,
         \A i \in 1 .. ReadCabs : \A j \in 1 .. Len(MembersOf(original, i)) :
           Now(Place(i, j), OldPayload(i, j))' = Now(Place(i, j), OldPayload(i, j)),
         \A b \in 1 .. binaries :
           Now(BinaryPlace(b), original.binary[b].payload)' = Now(BinaryPlace(b), original.binary[b].payload)
  PROVE  BudgetInv'
<1>1. ASSUME NEW i \in 1 .. ReadCabs PROVE Spent(i)' = Spent(i)
  <2>1. \A j : OldPayload(i, j)' = OldPayload(i, j)
    BY DEF OldPayload
  <2>2. Cabinet(original, i)' = Cabinet(original, i) /\ MembersOf(original, i)' = MembersOf(original, i)
    OBVIOUS
  <2>3. OldSizes(i)' = OldSizes(i)
    BY <2>1, <2>2 DEF OldSizes
  <2>4. NowSizes(i)' = NowSizes(i)
    <3>1. [j \in 1 .. Len(MembersOf(original, i)) |-> Now(Place(i, j), OldPayload(i, j))]'
          = [j \in 1 .. Len(MembersOf(original, i)) |-> Now(Place(i, j), OldPayload(i, j))]
      BY <2>2
    <3>2. PICK f : f = [j \in 1 .. Len(MembersOf(original, i)) |-> Now(Place(i, j), OldPayload(i, j))]
      OBVIOUS
    <3>3. NowSizes(i)' = TotalSize(f) /\ NowSizes(i) = TotalSize(f)
      BY <3>1, <3>2 DEF NowSizes
    <3> QED BY <3>3
  <2> QED BY <2>2, <2>3, <2>4 DEF Spent
<1>2. ASSUME NEW b \in 1 .. binaries PROVE SpentBinary(b)' = SpentBinary(b)
  BY DEF SpentBinary
<1>3. [i \in 1 .. ReadCabs |-> Spent(i)]' = [i \in 1 .. ReadCabs |-> Spent(i)]
  BY <1>1
<1>4. [b \in 1 .. binaries |-> SpentBinary(b)]' = [b \in 1 .. binaries |-> SpentBinary(b)]
  BY <1>2
<1>5. PICK f, g : f = [i \in 1 .. ReadCabs |-> Spent(i)] /\ g = [b \in 1 .. binaries |-> SpentBinary(b)]
  OBVIOUS
<1>6. expanded = Total(f) + Total(g)
  BY <1>5 DEF BudgetInv
<1>7. expanded' = Total([i \in 1 .. ReadCabs |-> Spent(i)])' + Total([b \in 1 .. binaries |-> SpentBinary(b)])'
  BY <1>3, <1>4, <1>5, <1>6
<1>8. Len(work') <= MemberLimit /\ TotalSize(work)' <= expanded' /\ expanded' <= ExpansionLimit
  BY DEF BudgetInv
<1> QED BY <1>7, <1>8 DEF BudgetInv

\* Reading a cabinet keeps them.
LEMMA BudgetCabinet ==
  ASSUME Preflight, BudgetInv, PreflightCabinet, step' # "end"
  PROVE  BudgetInv'
<1>0. step = "cabinets" /\ IsPackage(original) /\ Cabs \in Nat /\ binaries = 0 /\ expanded \in Nat
      /\ work \in Seq(PayloadFiles)
  <2>1. step = "cabinets"
    BY Zenon DEF PreflightCabinet
  <2> QED BY <2>1, OriginalFacts DEF Preflight, Types, PlaceInv
<1>1. PICK i \in 1 .. Cabs : i = at[1]
  <2>1. Len(cabinets) = Cabs /\ at[1] \in 1 .. Cabs + 1
    BY <1>0, CabinetsAre DEF Preflight, PlaceInv
  <2>2. \E k \in 1 .. Len(cabinets) : k >= at[1]
    BY Zenon DEF PreflightCabinet, Unread
  <2> QED BY <1>0, <2>1, <2>2
<1> DEFINE m == Len(MembersOf(original, i))
           news == [j \in 1 .. m |-> MembersOf(original, i)[j].payload]
           stream == Cabinet(original, i)
<1>2. /\ step' = "cabinets" /\ at' = <<i + 1, 1>>
      /\ Inspects(stream) /\ SizesHold(MembersOf(original, i))
      /\ original.media[i].cabinet \in DOMAIN original.streams
      /\ work' = work \o news
      /\ expanded' = expanded + stream.expands
      /\ UNCHANGED <<original, binaries>>
  BY <1>1, CabinetReads
<1>3. /\ m \in Nat /\ stream.expands \in Nat /\ DOMAIN MembersOf(original, i) = 1 .. m
      /\ \A j \in 1 .. m : MembersOf(original, i)[j].payload \in PayloadFiles
  <2>1. i \in 1 .. Len(original.media)
    BY DEF Cabs
  <2> QED BY <1>0, <1>2, <2>1, PackageCabinet DEF CabinetStream
<1>4. news \in Seq(PayloadFiles) /\ Len(news) = m /\ DOMAIN news = 1 .. m
  <2>1. DOMAIN news = 1 .. m /\ news = [j \in 1 .. m |-> news[j]] /\ \A j \in 1 .. m : news[j] \in PayloadFiles
    BY <1>3
  <2> HIDE DEF news, m
  <2> QED BY <1>3, <2>1, FunctionSeq
<1>5. stream.expands <= ExpansionLimit - expanded /\ m <= MemberLimit - Len(work)
      /\ TotalDeclared(MembersOf(original, i)) <= stream.expands
  BY <1>2 DEF Inspects, MembersOf
<1>6. TotalSize(news) = TotalDeclared(MembersOf(original, i))
  <2> DEFINE f == [k \in DOMAIN news |-> Size(news[k])]
             g == [k \in DOMAIN MembersOf(original, i) |-> MembersOf(original, i)[k].size]
  <2>1. DOMAIN f = 1 .. m /\ DOMAIN g = 1 .. m
    BY <1>3
  <2>2. \A k \in 1 .. m : f[k] = g[k]
    BY <1>2, <1>3 DEF SizesHold
  <2>3. Total(f) = Total(g)
    <3> HIDE DEF f, g
    <3> QED BY <2>1, <2>2, TotalSame
  <2> QED BY <2>3 DEF TotalSize, TotalDeclared
<1>7. /\ Len(work) \in Nat /\ DOMAIN work = 1 .. Len(work) /\ \A k \in 1 .. Len(work) : work[k] \in PayloadFiles
      /\ work' \in Seq(PayloadFiles) /\ Len(work') = Len(work) + m /\ DOMAIN work' = 1 .. Len(work) + m
      /\ \A k \in 1 .. Len(work) : work'[k] = work[k]
      /\ \A k \in 1 .. m : work'[Len(work) + k] = news[k]
  <2> HIDE DEF news, m
  <2>1. Len(work) \in Nat /\ DOMAIN work = 1 .. Len(work) /\ \A k \in 1 .. Len(work) : work[k] \in PayloadFiles
    BY <1>0, SeqFacts
  <2>2. /\ work' \in Seq(PayloadFiles) /\ Len(work') = Len(work) + m
        /\ \A k \in 1 .. Len(work) : work'[k] = work[k]
        /\ \A k \in 1 .. m : work'[Len(work) + k] = news[k]
    <3>1. work' = work \o news /\ work \in Seq(PayloadFiles) /\ news \in Seq(PayloadFiles)
      BY <1>0, <1>2, <1>4
    <3>2. /\ work' \in Seq(PayloadFiles) /\ Len(work') = Len(work) + Len(news)
          /\ \A k \in 1 .. Len(work) : work'[k] = work[k]
          /\ \A k \in 1 .. Len(news) : work'[Len(work) + k] = news[k]
      BY <3>1, ConcatFacts
    <3> QED BY <1>4, <3>2
  <2>3. DOMAIN work' = 1 .. Len(work')
    BY <2>2, SeqFacts
  <2> QED BY <2>1, <2>2, <2>3
<1>8. TotalSize(work') = TotalSize(work) + TotalSize(news)
      /\ TotalSize(work) \in Nat /\ TotalSize(news) \in Nat
  <2> HIDE DEF news, m
  <2> QED BY <1>0, <1>2, <1>4, SizesConcat
<1>10. Len(work') <= MemberLimit /\ TotalSize(work') <= expanded' /\ expanded' <= ExpansionLimit
  <2> HIDE DEF news, m, stream
  <2>1. TotalSize(work) <= expanded
    BY DEF BudgetInv
  <2>2. TotalSize(news) <= stream.expands
    BY <1>5, <1>6
  <2>3. ExpansionLimit \in Nat /\ MemberLimit \in Nat
    BY LimitsAssumption
  <2> QED BY SMTT(60), <1>0, <1>2, <1>3, <1>5, <1>7, <1>8, <2>1, <2>2, <2>3
<1>11. ReadCabs = i - 1 /\ ReadCabs' = i
  BY <1>0, <1>1, <1>2 DEF ReadCabs
<1>12. Cursor' = 1 /\ Cursor = 1
  BY <1>0, <1>2 DEF Cursor
<1>13. OldSizes(i) = TotalSize(news)
  BY DEF OldSizes, OldPayload
<1>14. KnownTo(original, i)
  BY <1>0, <1>1, KnownCabinets
<1>15. ASSUME NEW k \in 1 .. i
       PROVE  Spent(k)' = Cabinet(original, k).expands /\ Cabinet(original, k).expands \in Nat
              /\ (k < i => Spent(k) = Cabinet(original, k).expands)
  <2>1. k \in 1 .. Cabs /\ k \in 1 .. Cabs + 1 /\ (k < i => Read(k))
    BY <1>0, <1>1 DEF Read
  <2>2. Cabinet(original, k).expands \in Nat /\ OldSizes(k) \in Nat
        /\ (k < i => Spent(k) = Cabinet(original, k).expands)
        /\ Len(MembersOf(original, k)) \in Nat
    <3>1. CASE k = i
      BY <1>3, <1>8, <1>13, <3>1
    <3>2. CASE k < i
      BY <1>0, <2>1, <3>2, SpentFacts, ReadMembers
    <3> QED BY <3>1, <3>2
  <2>3. Start(original, k) \in Nat
    <3>1. KnownTo(original, k) /\ k \in 1 .. Len(original.media) + 1
      BY <1>0, <1>14, <2>1 DEF KnownTo, Cabs
    <3> QED BY <1>0, <3>1, StartNat
  <2>4. ASSUME NEW j \in 1 .. Len(MembersOf(original, k))
        PROVE  Now(Place(k, j), OldPayload(k, j))' = OldPayload(k, j)
    <3>1. Place(k, j)' = Place(k, j) /\ OldPayload(k, j)' = OldPayload(k, j)
      BY <1>2 DEF Place, OldPayload
    <3>2. ~(Place(k, j)' < Cursor')
      BY <1>12, <2>2, <2>3, <3>1 DEF Place
    <3> QED BY <3>1, <3>2 DEF Now
  <2>5. MembersOf(original, k)' = MembersOf(original, k) /\ Cabinet(original, k)' = Cabinet(original, k)
        /\ \A j : OldPayload(k, j)' = OldPayload(k, j)
    BY <1>2 DEF OldPayload
  <2>6. NowSizes(k)' = OldSizes(k)
    <3>1. PICK f : f = [j \in 1 .. Len(MembersOf(original, k)) |-> OldPayload(k, j)]
      OBVIOUS
    <3>2. [j \in 1 .. Len(MembersOf(original, k)) |-> Now(Place(k, j), OldPayload(k, j))]' = f
      BY <2>4, <2>5, <3>1
    <3> QED BY <3>1, <3>2 DEF NowSizes, OldSizes
  <2>7. OldSizes(k)' = OldSizes(k)
    BY <2>5 DEF OldSizes
  <2> QED BY <2>2, <2>5, <2>6, <2>7 DEF Spent
<1>16. Total([k \in 1 .. ReadCabs |-> Spent(k)])' = Total([k \in 1 .. ReadCabs |-> Spent(k)]) + stream.expands
  <2> DEFINE f == [k \in 1 .. i - 1 |-> Cabinet(original, k).expands]
             g == [k \in 1 .. i |-> Cabinet(original, k).expands]
  <2>1. [k \in 1 .. ReadCabs |-> Spent(k)] = f
    <3>1. \A k \in 1 .. i - 1 : k \in 1 .. i /\ k < i
      BY <1>0
    <3> QED BY <1>11, <1>15, <3>1
  <2>2. [k \in 1 .. ReadCabs |-> Spent(k)]' = g
    BY <1>11, <1>15
  <2>3. Summable(f) /\ Summable(g)
    <3>1. i \in Int /\ i - 1 \in Int /\ 1 \in Int
      BY <1>0
    <3>2. IsFiniteSet(1 .. i) /\ IsFiniteSet(1 .. i - 1)
      BY <3>1, FS_Interval
    <3>3. \A k \in 1 .. i - 1 : k \in 1 .. i
      BY <1>0
    <3> QED BY <1>15, <3>2, <3>3 DEF Summable
  <2>4. i \notin DOMAIN f /\ DOMAIN g = DOMAIN f \cup {i} /\ \A k \in DOMAIN f : g[k] = f[k]
    BY <1>0
  <2>5. g[i] = stream.expands
    BY <1>0
  <2>6. Total(g) = Total(f) + g[i]
    <3> HIDE DEF f, g
    <3> QED BY <2>3, <2>4, TotalAdds
  <2>7. Total([k \in 1 .. ReadCabs |-> Spent(k)])' = Total(g)
    <3> HIDE DEF g
    <3> QED BY <2>2
  <2> HIDE DEF f, g
  <2> QED BY <2>1, <2>5, <2>6, <2>7
<1>17. Total([b \in 1 .. binaries |-> SpentBinary(b)]) = 0 /\ Total([b \in 1 .. binaries |-> SpentBinary(b)])' = 0
  <2>1. DOMAIN [b \in 1 .. binaries |-> SpentBinary(b)] = {} /\ DOMAIN [b \in 1 .. binaries' |-> SpentBinary(b)'] = {}
    BY <1>0, <1>2
  <2>2. Total([b \in 1 .. binaries' |-> SpentBinary(b)']) = 0
    BY <2>1, TotalNone
  <2> QED BY <2>1, <2>2, TotalNone
<1>18. Total([k \in 1 .. ReadCabs |-> Spent(k)]) = expanded
  <2>1. PICK x, y : /\ x = Total([k \in 1 .. ReadCabs |-> Spent(k)])
                    /\ y = Total([b \in 1 .. binaries |-> SpentBinary(b)])
    OBVIOUS
  <2>2. expanded = x + y /\ y = 0
    BY <1>17, <2>1 DEF BudgetInv
  <2>3. x \in Nat
    <3> DEFINE f == [k \in 1 .. i - 1 |-> Cabinet(original, k).expands]
    <3>1. \A k \in 1 .. i - 1 : k \in 1 .. i /\ k < i
      BY <1>0
    <3>2. [k \in 1 .. ReadCabs |-> Spent(k)] = f
      BY <1>11, <1>15, <3>1
    <3>3. i - 1 \in Int /\ 1 \in Int
      BY <1>0
    <3>4. IsFiniteSet(1 .. i - 1)
      BY <3>3, FS_Interval
    <3>5. Summable(f)
      BY <1>15, <3>1, <3>4 DEF Summable
    <3> HIDE DEF f
    <3> QED BY <2>1, <3>2, <3>5, TotalNat
  <2> QED BY <2>1, <2>2, <2>3
<1>19. expanded' = Total([k \in 1 .. ReadCabs |-> Spent(k)])' + Total([b \in 1 .. binaries |-> SpentBinary(b)])'
  <2> HIDE DEF stream
  <2>1. PICK x, y : /\ x = Total([k \in 1 .. ReadCabs |-> Spent(k)])'
                    /\ y = Total([b \in 1 .. binaries |-> SpentBinary(b)])'
    OBVIOUS
  <2>2. x = expanded + stream.expands /\ y = 0
    BY <1>16, <1>17, <1>18, <2>1
  <2>3. expanded' = x + y
    BY <1>0, <1>2, <1>3, <2>2
  <2> QED BY <2>1, <2>3
<1>20. TotalSize(work)' = TotalSize(work')
  BY DEF TotalSize, Size, Total, Units
<1> QED
  BY <1>10, <1>19, <1>20 DEF BudgetInv

\* The payloads stay what they are while the cursor stays.
LEMMA NowStays ==
  ASSUME UNCHANGED original, Cursor' = Cursor
  PROVE  /\ \A i, j : Now(Place(i, j), OldPayload(i, j))' = Now(Place(i, j), OldPayload(i, j))
         /\ \A b : Now(BinaryPlace(b), original.binary[b].payload)' = Now(BinaryPlace(b), original.binary[b].payload)
<1>1. \A i, j : Place(i, j)' = Place(i, j) /\ OldPayload(i, j)' = OldPayload(i, j)
  BY DEF Place, OldPayload
<1>2. \A b : BinaryPlace(b)' = BinaryPlace(b)
  BY DEF BinaryPlace, Cabs
<1> QED
  BY <1>1, <1>2 DEF Now

\* What is accounted for a cabinet changes only with its payloads.
LEMMA SpentStays ==
  ASSUME UNCHANGED original, NEW i,
         \A j \in 1 .. Len(MembersOf(original, i)) :
           Now(Place(i, j), OldPayload(i, j))' = Now(Place(i, j), OldPayload(i, j))
  PROVE  Spent(i)' = Spent(i)
<1>1. \A j : OldPayload(i, j)' = OldPayload(i, j)
  BY DEF OldPayload
<1>2. Cabinet(original, i)' = Cabinet(original, i) /\ MembersOf(original, i)' = MembersOf(original, i)
  OBVIOUS
<1>3. OldSizes(i)' = OldSizes(i)
  BY <1>1, <1>2 DEF OldSizes
<1>4. PICK f : f = [j \in 1 .. Len(MembersOf(original, i)) |-> Now(Place(i, j), OldPayload(i, j))]
  OBVIOUS
<1>5. [j \in 1 .. Len(MembersOf(original, i)) |-> Now(Place(i, j), OldPayload(i, j))]' = f
  BY <1>2, <1>4
<1>6. NowSizes(i)' = TotalSize(f) /\ NowSizes(i) = TotalSize(f)
  BY <1>4, <1>5 DEF NowSizes
<1> QED BY <1>2, <1>3, <1>6 DEF Spent

\* The steps that read tables only.
LEMMA BudgetTables ==
  ASSUME Preflight, BudgetInv, ReadMedia \/ ReadFiles \/ CheckRows \/ ReadHashes, step' # "end"
  PROVE  BudgetInv'
<1>1. UNCHANGED <<original, work, expanded, binaries>> /\ step # "sign" /\ step' \in {"files", "cabinets", "binaries", "sign"}
  BY DEF ReadMedia, ReadFiles, CheckRows, ReadHashes, Invalid, Leave, Goto, input
<1>2. Cabs \in Nat /\ Cabs' = Cabs
  BY <1>1, OriginalFacts DEF Preflight, Cabs
<1>3. Cursor = 1 /\ Cursor' = 1
  <2>1. CASE ReadHashes
    BY <1>1, <2>1, HashesStep DEF Cursor
  <2>2. CASE ReadMedia \/ ReadFiles \/ CheckRows
    BY <1>1, <2>2 DEF ReadMedia, ReadFiles, CheckRows, Invalid, Leave, Goto, Cursor
  <2> QED BY <2>1, <2>2
<1>4. ReadCabs' = ReadCabs
  <2>1. CASE ReadMedia
    BY <2>1 DEF ReadMedia, Invalid, Leave, Goto, ReadCabs
  <2>2. CASE ReadFiles
    <3>1. step = "files" /\ step' = "cabinets" /\ UNCHANGED at
      BY <2>2 DEF ReadFiles, Invalid, Leave, Goto
    <3>2. at = <<1, 1>>
      BY <3>1 DEF Preflight, PlaceInv
    <3> QED BY <3>1, <3>2 DEF ReadCabs
  <2>3. CASE CheckRows
    <3>1. step = "cabinets" /\ step' = "binaries" /\ Unread = {}
      BY <2>3 DEF CheckRows, Invalid, Leave, Goto
    <3>2. Len(cabinets) = Cabs /\ at[1] \in 1 .. Cabs + 1
      BY <3>1, CabinetsAre DEF Preflight, PlaceInv
    <3>3. at[1] = Cabs + 1
      <4>1. ~(at[1] \in 1 .. Cabs)
        BY <3>1, <3>2 DEF Unread
      <4> QED BY <1>2, <3>2, <4>1
    <3> QED BY <1>2, <3>1, <3>3 DEF ReadCabs
  <2>4. CASE ReadHashes
    <3>1. step = "binaries" /\ step' = "sign"
      BY <2>4 DEF ReadHashes, Invalid, Leave, Goto
    <3> QED BY <1>2, <3>1 DEF ReadCabs
  <2> QED BY <2>1, <2>2, <2>3, <2>4
<1> QED
  BY <1>1, <1>3, <1>4, NowStays, BudgetKept

\* A Binary row is read.
LEMMA BudgetBinary ==
  ASSUME Preflight, BudgetInv, PreflightBinary, step' # "end"
  PROVE  BudgetInv'
<1>0. step = "binaries" /\ IsPackage(original) /\ Cabs \in Nat /\ Bins \in Nat /\ binaries \in Nat
      /\ expanded \in Nat /\ work \in Seq(PayloadFiles) /\ db = original
  <2>1. step = "binaries"
    BY DEF PreflightBinary
  <2> QED BY <2>1, OriginalFacts DEF Preflight, Types
<1>1. PICK b \in 1 .. Bins : b = binaries + 1
  BY <1>0 DEF PreflightBinary, Bins
<1>2. PICK q \in PayloadFiles : q = original.binary[b].payload
  BY <1>0, PackageBinary DEF Bins
<1>3. /\ step' = "binaries" /\ ~NoRoom(q) /\ work' = Append(work, q)
      /\ expanded' = expanded + Size(q) /\ binaries' = b /\ original' = original
  BY <1>0, <1>1, <1>2 DEF PreflightBinary, Invalid, Leave, Goto, input
<1>4. Size(q) \in Nat
  BY SizeNat
<1>5. Len(work) \in Nat /\ Len(work) < MemberLimit /\ Size(q) <= ExpansionLimit - expanded
  BY <1>0, <1>3, <1>4, SeqFacts, LimitsAssumption DEF NoRoom, TooLong
<1>6. Cursor = 1 /\ Cursor' = 1 /\ Cabs' = Cabs /\ ReadCabs = Cabs /\ ReadCabs' = Cabs
  BY <1>0, <1>3 DEF Cursor, Cabs, ReadCabs
<1>7. TotalSize(work') = TotalSize(work) + Size(q) /\ Len(work') = Len(work) + 1 /\ TotalSize(work) \in Nat
  <2>1. Len(work') = Len(work) + 1
    BY <1>0, <1>3
  <2>2. TotalSize(work) \in Nat
    <3>1. DOMAIN work = 1 .. Len(work) /\ \A k \in 1 .. Len(work) : work[k] \in PayloadFiles
      BY <1>0, SeqFacts
    <3> QED BY <1>5, <3>1, SizesSummable
  <2> QED BY <1>0, <1>3, <2>1, <2>2, SizesAppend
<1>8. Len(work') <= MemberLimit /\ TotalSize(work') <= expanded' /\ expanded' <= ExpansionLimit
  <2>1. TotalSize(work) <= expanded
    BY DEF BudgetInv
  <2>2. ExpansionLimit \in Nat /\ MemberLimit \in Nat
    BY LimitsAssumption
  <2> QED BY <1>0, <1>3, <1>4, <1>5, <1>7, <2>1, <2>2
<1>9. \A k : Spent(k)' = Spent(k)
  <2>1. \A k, j : Now(Place(k, j), OldPayload(k, j))' = Now(Place(k, j), OldPayload(k, j))
    BY <1>3, <1>6, NowStays
  <2> QED BY <1>3, <2>1, SpentStays
<1>10. \A c : SpentBinary(c)' = SpentBinary(c)
  <2>1. \A c : Now(BinaryPlace(c), original.binary[c].payload)' = Now(BinaryPlace(c), original.binary[c].payload)
    BY <1>3, <1>6, NowStays
  <2> QED BY <2>1 DEF SpentBinary
<1>11. \A c \in 1 .. b : SpentBinary(c) = Size(original.binary[c].payload) /\ SpentBinary(c) \in Nat
  <2> SUFFICES ASSUME NEW c \in 1 .. b
               PROVE  SpentBinary(c) = Size(original.binary[c].payload) /\ SpentBinary(c) \in Nat
    OBVIOUS
  <2>1. c \in 1 .. Bins /\ c \in Nat \ {0}
    BY <1>0
  <2>2. original.binary[c].payload \in PayloadFiles
    BY <1>0, <2>1, PackageBinary DEF Bins
  <2>3. BinaryPlace(c) \in Nat \ {0}
    <3>1. Cabs + 1 \in 1 .. Cabs + 1
      BY <1>0
    <3>2. Start(original, Cabs + 1) \in Nat
      BY <1>0, <3>1, Places
    <3> QED BY <2>1, <3>2 DEF BinaryPlace
  <2>4. Now(BinaryPlace(c), original.binary[c].payload) = original.binary[c].payload
    BY <1>0, <2>3, NothingPassed
  <2> QED BY <2>2, <2>4, SizeNat DEF SpentBinary
<1>12. Total([c \in 1 .. binaries' |-> SpentBinary(c)']) = Total([c \in 1 .. binaries |-> SpentBinary(c)]) + Size(q)
  <2> DEFINE f == [c \in 1 .. binaries |-> SpentBinary(c)]
             g == [c \in 1 .. b |-> SpentBinary(c)]
  <2>1. [c \in 1 .. binaries' |-> SpentBinary(c)'] = g
    BY <1>3, <1>10
  <2>2. Summable(f) /\ Summable(g)
    <3>1. b \in Int /\ binaries \in Int /\ 1 \in Int
      BY <1>0
    <3>2. IsFiniteSet(1 .. b) /\ IsFiniteSet(1 .. binaries)
      BY <3>1, FS_Interval
    <3>3. \A c \in 1 .. binaries : c \in 1 .. b
      BY <1>0, <1>1
    <3> QED BY <1>11, <3>2, <3>3 DEF Summable
  <2>3. b \notin DOMAIN f /\ DOMAIN g = DOMAIN f \cup {b} /\ \A c \in DOMAIN f : g[c] = f[c]
    BY <1>0, <1>1
  <2>4. g[b] = Size(q)
    BY <1>0, <1>2, <1>11
  <2>5. Total(g) = Total(f) + g[b]
    <3> HIDE DEF f, g
    <3> QED BY <2>2, <2>3, TotalAdds
  <2>6. Total([c \in 1 .. binaries' |-> SpentBinary(c)']) = Total(g)
    <3> HIDE DEF g
    <3> QED BY <2>1
  <2> QED BY <2>4, <2>5, <2>6
<1>13. [k \in 1 .. ReadCabs' |-> Spent(k)'] = [k \in 1 .. ReadCabs |-> Spent(k)]
  BY <1>6, <1>9
<1>14. PICK x, y : /\ x = Total([k \in 1 .. ReadCabs |-> Spent(k)])
                   /\ y = Total([c \in 1 .. binaries |-> SpentBinary(c)])
  OBVIOUS
<1>15. expanded = x + y
  BY <1>14 DEF BudgetInv
<1>16. x \in Nat /\ y \in Nat
  <2>1. IsFiniteSet(1 .. Cabs) /\ IsFiniteSet(1 .. binaries)
    <3>1. Cabs \in Int /\ binaries \in Int /\ 1 \in Int
      BY <1>0
    <3> QED BY <3>1, FS_Interval
  <2>2. \A k \in 1 .. Cabs : Spent(k) \in Nat
    BY <1>0, SpentFacts DEF Read
  <2>3. \A c \in 1 .. binaries : SpentBinary(c) \in Nat
    <3>1. \A c \in 1 .. binaries : c \in 1 .. b
      BY <1>0, <1>1
    <3> QED BY <1>11, <3>1
  <2>4. Summable([k \in 1 .. ReadCabs |-> Spent(k)]) /\ Summable([c \in 1 .. binaries |-> SpentBinary(c)])
    BY <1>6, <2>1, <2>2, <2>3 DEF Summable
  <2> QED BY <1>14, <2>4, TotalNat
<1>17. Total([k \in 1 .. ReadCabs' |-> Spent(k)']) = x
  BY <1>13, <1>14
<1>18. Total([c \in 1 .. binaries' |-> SpentBinary(c)']) = y + Size(q)
  BY <1>12, <1>14
<1>19. expanded' = Total([k \in 1 .. ReadCabs |-> Spent(k)])' + Total([c \in 1 .. binaries |-> SpentBinary(c)])'
  <2>1. expanded' = x + (y + Size(q))
    BY <1>3, <1>4, <1>15, <1>16
  <2> QED BY <1>17, <1>18, <2>1
<1>20. TotalSize(work)' = TotalSize(work')
  BY DEF TotalSize, Size, Total, Units
<1> QED
  BY <1>8, <1>19, <1>20 DEF BudgetInv

\* A payload that stays as it is, and the end of a cabinet.
LEMMA BudgetPass ==
  ASSUME Preflight, Signing, BudgetInv, SkipPayload \/ PreservePayload \/ FinishCabinet
  PROVE  BudgetInv'
<1>1. CASE SkipPayload \/ PreservePayload
  <2>1. /\ step = "sign" /\ step' = "sign" /\ UNCHANGED <<original, work, expanded, binaries>>
        /\ \A i \in 1 .. Cabs : \A j \in 1 .. Len(MembersOf(original, i)) :
             Now(Place(i, j), OldPayload(i, j))' = Now(Place(i, j), OldPayload(i, j))
        /\ \A b \in 1 .. Bins :
             Now(BinaryPlace(b), original.binary[b].payload)' = Now(BinaryPlace(b), original.binary[b].payload)
    BY <1>1, PassFacts DEF Signing
  <2>2. ReadCabs = Cabs /\ ReadCabs' = Cabs /\ binaries = Bins
    BY <2>1 DEF ReadCabs, Cabs, Preflight, PlaceInv
  <2> QED BY <2>1, <2>2, BudgetKept
<1>2. CASE FinishCabinet
  <2>1. /\ step = "sign" /\ step' = "sign" /\ UNCHANGED <<original, work, expanded, binaries>>
        /\ Cursor' = Cursor
    BY <1>2, FinishFacts
  <2>2. ReadCabs = Cabs /\ ReadCabs' = Cabs
    BY <2>1 DEF ReadCabs, Cabs
  <2> QED BY <2>1, <2>2, NowStays, BudgetKept
<1> QED BY <1>1, <1>2

\* A signature makes a payload one unit longer.
LEMMA TreatedGrows ==
  ASSUME NEW q \in PayloadFiles, Unsigned(q)
  PROVE  Treated(q) \in PayloadFiles /\ Size(q) \in Nat /\ Size(Treated(q)) = Size(q) + 1
<1>1. q.length \in Nat /\ q.signature = "none" /\ Treated(q) = [q EXCEPT !.signature = "new"]
  BY DEF PayloadFiles, Unsigned, Treated, Signed
<1>2. Treated(q) \in PayloadFiles /\ Treated(q).length = q.length /\ Treated(q).signature = "new"
  BY <1>1 DEF PayloadFiles
<1> QED BY <1>1, <1>2 DEF Size

\* One more unit in one of the terms.
LEMMA TotalNext ==
  ASSUME NEW n \in Nat, NEW f, NEW g, NEW x \in 1 .. n, DOMAIN f = 1 .. n, DOMAIN g = 1 .. n,
         \A k \in 1 .. n : f[k] \in Nat, \A k \in 1 .. n : k # x => g[k] = f[k], g[x] = f[x] + 1
  PROVE  Total(f) \in Nat /\ Total(g) = Total(f) + 1
<1>1. IsFiniteSet(1 .. n)
  <2>1. 1 \in Int /\ n \in Int
    OBVIOUS
  <2> QED BY <2>1, FS_Interval
<1>2. Summable(f)
  BY <1>1 DEF Summable
<1>3. \A k \in 1 .. n : g[k] \in Nat
  OBVIOUS
<1>4. Summable(g)
  BY <1>1, <1>3 DEF Summable
<1>5. Total(g) = Total(f) - f[x] + g[x]
  BY <1>2, <1>4, TotalChanges
<1>6. Total(f) \in Nat /\ f[x] \in Nat
  BY <1>2, TotalNat
<1> QED BY <1>5, <1>6

\* The next payload is signed: its cabinet, or its row, grows by one unit.
LEMMA BudgetSign ==
  ASSUME Preflight, Signing, BudgetInv, SignPayload, step' # "end"
  PROVE  BudgetInv'
<1>1. /\ step = "sign" /\ step' = "sign"
      /\ InCabinet \/ InBinary
      /\ NextPayload /\ UNCHANGED <<original, binaries>>
      /\ Unsigned(work[Path]) /\ expanded' = expanded + 1 /\ expanded' <= ExpansionLimit
      /\ work' = [work EXCEPT ![Path] = Treated(work[Path])]
      /\ Len(db.binary) = Bins
  <2>1. InCabinet \/ InBinary
    BY SignFacts
  <2> QED BY <2>1, SignFacts DEF Treats
<1>2. IsPackage(original) /\ Cabs \in Nat /\ Bins \in Nat /\ expanded \in Nat /\ work \in Seq(PayloadFiles)
      /\ binaries = Bins /\ Cabs' = Cabs
  BY <1>1, OriginalFacts DEF Preflight, Types, PlaceInv, Cabs
<1>3. ReadCabs = Cabs /\ ReadCabs' = Cabs
  BY <1>1, <1>2 DEF ReadCabs
<1>4. PICK x \in 1 .. Len(work) : x = Path /\ work[x] \in PayloadFiles /\ Unsigned(work[x])
  BY <1>1, Here
<1>5. Len(work) \in Nat /\ DOMAIN work = 1 .. Len(work) /\ \A k \in 1 .. Len(work) : work[k] \in PayloadFiles
  BY <1>2, SeqFacts
<1>6. /\ TotalSize(work') = TotalSize(work) + 1 /\ TotalSize(work) \in Nat /\ Len(work') = Len(work)
  <2>1. PICK q \in PayloadFiles : q = work[x] /\ Unsigned(q)
    BY <1>4
  <2>2. Treated(q) \in PayloadFiles /\ Size(q) \in Nat /\ Size(Treated(q)) = Size(q) + 1
    BY <2>1, TreatedGrows
  <2>3. PICK g : g = work'
    OBVIOUS
  <2>4. g = [work EXCEPT ![x] = Treated(q)]
    BY <1>1, <1>4, <2>1, <2>3
  <2>5. DOMAIN g = 1 .. Len(work) /\ g[x] = Treated(q) /\ \A k \in 1 .. Len(work) : k # x => g[k] = work[k]
    BY <1>5, <2>4
  <2>6. \A k \in 1 .. Len(work) : work[k] \in PayloadFiles /\ g[k] \in PayloadFiles
    BY <1>5, <2>2, <2>5
  <2>7. TotalSize(g) = TotalSize(work) - Size(work[x]) + Size(g[x])
    BY <1>5, <2>5, <2>6, SizesChange
  <2>8. TotalSize(work) \in Nat
    BY <1>5, SizesSummable
  <2>9. Len(g) = Len(work)
    <3>1. g \in Seq(PayloadFiles)
      BY <1>2, <2>2, <2>4
    <3> QED BY <1>2, <2>4
  <2> QED BY <2>1, <2>2, <2>3, <2>5, <2>7, <2>8, <2>9
<1>7. Len(work') <= MemberLimit /\ TotalSize(work') <= expanded' /\ expanded' <= ExpansionLimit
  <2>1. TotalSize(work) <= expanded /\ Len(work) <= MemberLimit
    BY DEF BudgetInv
  <2> QED BY <1>1, <1>2, <1>6, <2>1
<1>8. /\ \A i \in 1 .. Cabs : \A j \in 1 .. Len(MembersOf(original, i)) :
           Now(Place(i, j), OldPayload(i, j))' =
             IF InCabinet /\ i = at[1] /\ j = at[2] THEN Treated(OldPayload(i, j))
             ELSE Now(Place(i, j), OldPayload(i, j))
      /\ \A b \in 1 .. Bins :
           Now(BinaryPlace(b), original.binary[b].payload)' =
             IF ~InCabinet /\ b = at[2] THEN Treated(original.binary[b].payload)
             ELSE Now(BinaryPlace(b), original.binary[b].payload)
  BY <1>1, NowNext
<1>9. /\ \A i \in 1 .. Cabs : Spent(i) \in Nat
      /\ \A b \in 1 .. Bins : SpentBinary(b) \in Nat
  <2>1. \A i \in 1 .. Cabs : Spent(i) \in Nat
    BY <1>1, SpentFacts DEF Read
  <2>2. ASSUME NEW b \in 1 .. Bins PROVE SpentBinary(b) \in Nat
    <3>1. original.binary[b].payload \in PayloadFiles
      BY <1>2, PackageBinary DEF Bins
    <3>2. Size(original.binary[b].payload) \in Nat /\ Size(Treated(original.binary[b].payload)) \in Nat
      BY <3>1, SizeNat
    <3> QED BY <3>2 DEF SpentBinary, Now
  <2> QED BY <2>1, <2>2
<1>10. PICK f, g : f = [i \in 1 .. Cabs |-> Spent(i)] /\ g = [b \in 1 .. Bins |-> SpentBinary(b)]
  OBVIOUS
<1>11. PICK h, l : h = [i \in 1 .. Cabs |-> Spent(i)'] /\ l = [b \in 1 .. Bins |-> SpentBinary(b)']
  OBVIOUS
<1>12. expanded = Total(f) + Total(g)
  BY <1>2, <1>3, <1>10 DEF BudgetInv
<1>13. /\ DOMAIN f = 1 .. Cabs /\ DOMAIN h = 1 .. Cabs /\ DOMAIN g = 1 .. Bins /\ DOMAIN l = 1 .. Bins
       /\ \A i \in 1 .. Cabs : f[i] \in Nat /\ f[i] = Spent(i) /\ h[i] = Spent(i)'
       /\ \A b \in 1 .. Bins : g[b] \in Nat /\ g[b] = SpentBinary(b) /\ l[b] = SpentBinary(b)'
  BY <1>9, <1>10, <1>11
<1>14. Total(f) \in Nat /\ Total(g) \in Nat
  <2>1. IsFiniteSet(1 .. Cabs) /\ IsFiniteSet(1 .. Bins)
    <3>1. Cabs \in Int /\ Bins \in Int /\ 1 \in Int
      BY <1>2
    <3> QED BY <3>1, FS_Interval
  <2>2. Summable(f) /\ Summable(g)
    BY <1>13, <2>1 DEF Summable
  <2> QED BY <2>2, TotalNat
<1>15. Total(h) + Total(l) = expanded + 1
  <2>1. CASE InCabinet
    <3>1. PICK i \in 1 .. Cabs : i = at[1]
      BY <1>1, <2>1, Here
    <3>2. PICK j \in 1 .. Len(MembersOf(original, i)) : j = at[2]
      BY <1>1, <2>1, <3>1, Here
    <3>3. Place(i, j) = Cursor /\ OldPayload(i, j) \in PayloadFiles /\ Unsigned(OldPayload(i, j))
      BY <1>1, <1>4, <2>1, <3>1, <3>2, Here
    <3>4. Now(Place(i, j), OldPayload(i, j)) = OldPayload(i, j)
      BY <1>1, <3>3, Advanced
    <3>5. Len(MembersOf(original, i)) \in Nat /\ Read(i)
      BY <1>1, ReadMembers DEF Read
    <3>6. Spent(i)' = Spent(i) + 1
      <4>1. PICK n \in Nat : n = Len(MembersOf(original, i))
        BY <3>5
      <4>2. PICK F : F = [k \in 1 .. n |-> Now(Place(i, k), OldPayload(i, k))]
        OBVIOUS
      <4>3. PICK G : G = [k \in 1 .. n |-> Now(Place(i, k), OldPayload(i, k))']
        OBVIOUS
      <4>4. NowSizes(i) = TotalSize(F) /\ NowSizes(i)' = TotalSize(G)
        <5>1. NowSizes(i) = TotalSize(F)
          BY <4>1, <4>2 DEF NowSizes
        <5>2. MembersOf(original, i)' = MembersOf(original, i)
          BY <1>1
        <5>3. [k \in 1 .. Len(MembersOf(original, i)) |-> Now(Place(i, k), OldPayload(i, k))]' = G
          BY <4>1, <4>3, <5>2
        <5> QED BY <5>1, <5>3 DEF NowSizes
      <4>5. /\ DOMAIN F = 1 .. n /\ DOMAIN G = 1 .. n
            /\ F[j] = OldPayload(i, j) /\ G[j] = Treated(OldPayload(i, j))
            /\ \A k \in 1 .. n : k # j => G[k] = F[k]
        BY <1>8, <2>1, <3>1, <3>2, <3>4, <4>1, <4>2, <4>3
      <4>6. \A k \in 1 .. n : F[k] \in PayloadFiles
        <5>1. \A k \in 1 .. n : Now(Place(i, k), OldPayload(i, k)) \in PayloadFiles
          BY <1>1, <3>5, <4>1, SpentFacts
        <5> QED BY <4>2, <5>1
      <4>7. /\ Treated(OldPayload(i, j)) \in PayloadFiles /\ Size(OldPayload(i, j)) \in Nat
            /\ Size(Treated(OldPayload(i, j))) = Size(OldPayload(i, j)) + 1
        BY <3>3, TreatedGrows
      <4>8. \A k \in 1 .. n : F[k] \in PayloadFiles /\ G[k] \in PayloadFiles
        BY <4>5, <4>6, <4>7
      <4>9. TotalSize(G) = TotalSize(F) - Size(F[j]) + Size(G[j])
        BY SMTT(60), <3>2, <4>1, <4>5, <4>8, SizesChange
      <4>10. TotalSize(F) \in Nat
        BY <4>5, <4>6, SizesSummable
      <4>11. NowSizes(i)' = NowSizes(i) + 1 /\ NowSizes(i) \in Nat
        BY <4>4, <4>5, <4>7, <4>9, <4>10
      <4>12. Cabinet(original, i)' = Cabinet(original, i) /\ OldSizes(i)' = OldSizes(i)
        BY <1>1 DEF OldSizes, OldPayload
      <4>13. Cabinet(original, i).expands \in Nat /\ OldSizes(i) \in Nat
        BY <1>1, <3>5, SpentFacts
      <4> QED BY <4>11, <4>12, <4>13 DEF Spent
    <3>7. ASSUME NEW k \in 1 .. Cabs, k # i PROVE Spent(k)' = Spent(k)
      <4>1. \A m \in 1 .. Len(MembersOf(original, k)) :
              Now(Place(k, m), OldPayload(k, m))' = Now(Place(k, m), OldPayload(k, m))
        BY <1>8, <3>1, <3>7
      <4> QED BY <1>1, <4>1, SpentStays
    <3>8. Total(h) = Total(f) + 1
      <4>1. h[i] = f[i] + 1 /\ \A k \in 1 .. Cabs : k # i => h[k] = f[k]
        BY <1>13, <3>6, <3>7
      <4>2. \A k \in 1 .. Cabs : f[k] \in Nat
        BY <1>13
      <4>3. DOMAIN f = 1 .. Cabs /\ DOMAIN h = 1 .. Cabs
        BY <1>13
      <4> QED BY <1>2, <4>1, <4>2, <4>3, TotalNext
    <3>9. l = g
      <4>1. \A b \in 1 .. Bins : SpentBinary(b)' = SpentBinary(b)
        BY <1>8, <2>1 DEF SpentBinary
      <4> QED BY <1>10, <1>11, <4>1
    <3> QED BY <1>12, <1>14, <3>8, <3>9
  <2>2. CASE ~InCabinet
    <3>1. PICK b \in 1 .. Bins : b = at[2]
      BY <1>1, <2>2, Here
    <3>2. PICK q \in PayloadFiles : q = original.binary[b].payload /\ Unsigned(q) /\ BinaryPlace(b) = Cursor
      BY <1>1, <1>4, <2>2, <3>1, Here
    <3>3. Now(BinaryPlace(b), q) = q
      BY <1>1, <3>2, Advanced
    <3>4. Size(q) \in Nat /\ Size(Treated(q)) = Size(q) + 1
      BY <3>2, TreatedGrows
    <3>5. SpentBinary(b) = Size(q) /\ SpentBinary(b)' = Size(Treated(q))
      BY <1>8, <2>2, <3>1, <3>2, <3>3 DEF SpentBinary
    <3>6. \A c \in 1 .. Bins : c # b => SpentBinary(c)' = SpentBinary(c)
      BY <1>8, <3>1 DEF SpentBinary
    <3>7. Total(l) = Total(g) + 1
      <4>1. l[b] = g[b] + 1 /\ \A c \in 1 .. Bins : c # b => l[c] = g[c]
        BY <1>13, <3>4, <3>5, <3>6
      <4>2. \A c \in 1 .. Bins : g[c] \in Nat
        BY <1>13
      <4>3. DOMAIN g = 1 .. Bins /\ DOMAIN l = 1 .. Bins
        BY <1>13
      <4> QED BY <1>2, <4>1, <4>2, <4>3, TotalNext
    <3>8. h = f
      <4>1. \A i \in 1 .. Cabs : Spent(i)' = Spent(i)
        <5>1. \A i \in 1 .. Cabs : \A m \in 1 .. Len(MembersOf(original, i)) :
                Now(Place(i, m), OldPayload(i, m))' = Now(Place(i, m), OldPayload(i, m))
          BY <1>8, <2>2
        <5> QED BY <1>1, <5>1, SpentStays
      <4> QED BY <1>10, <1>11, <4>1
    <3> QED BY <1>12, <1>14, <3>7, <3>8
  <2> QED BY <2>1, <2>2
<1>16. expanded' = Total([i \in 1 .. ReadCabs |-> Spent(i)])' + Total([b \in 1 .. binaries |-> SpentBinary(b)])'
  BY <1>1, <1>2, <1>3, <1>11, <1>15
<1>17. TotalSize(work)' = TotalSize(work')
  BY DEF TotalSize, Size, Total, Units
<1> QED
  BY <1>7, <1>16, <1>17 DEF BudgetInv

\* The inductive invariant with the limits.
BudgetSafe ==
  /\ RunningInv
  /\ step # "end" => BudgetInv
  /\ step = "end" => BudgetHolds

\* There is at most one call for each payload before the cursor.
LEMMA CallsBounded ==
  ASSUME Preflight, step = "sign" => Signing, BudgetInv
  PROVE  /\ calls \in 0 .. MemberLimit
         /\ step = "sign" /\ (InCabinet \/ InBinary) => calls + 1 \in 0 .. MemberLimit
         /\ result.signed + result.preserved <= calls
<1>1. calls \in Nat /\ work \in Seq(PayloadFiles) /\ MemberLimit \in Nat /\ Len(work) <= MemberLimit
      /\ result \in [signed: Nat, preserved: Nat]
  BY LimitsAssumption DEF Preflight, Types, BudgetInv
<1>2. Len(work) \in Nat
  BY <1>1, SeqFacts
<1>3. CASE step # "sign"
  <2>1. calls = 0 /\ result = [signed |-> 0, preserved |-> 0]
    BY <1>3 DEF Preflight, Types
  <2> QED BY <1>1, <1>3, <2>1
<1>4. CASE step = "sign"
  <2>1. calls <= Cursor - 1 /\ result.signed + result.preserved <= calls
    BY <1>4 DEF Signing, CountInv
  <2>2. /\ Cabs \in Nat /\ Bins \in Nat
        /\ \A i \in 1 .. Cabs + 1 : Start(original, i) \in Nat
        /\ \A i \in 1 .. Cabs : Len(MembersOf(original, i)) \in Nat
        /\ \A i, k \in 1 .. Cabs + 1 :
              i < k => Start(original, i) + Len(MembersOf(original, i)) <= Start(original, k)
    BY <1>4, Places
  <2>3. Len(work) = Start(original, Cabs + 1) + Bins
    BY <1>4 DEF Preflight, WorkInv, PlaceInv
  <2>4. Cursor = Start(original, at[1]) + at[2]
    BY <1>4 DEF Cursor
  <2>5. PICK i \in 1 .. Cabs + 1 : i = at[1]
    BY <1>4 DEF Preflight, PlaceInv
  <2>6. Cursor \in Nat /\ Cursor - 1 <= Len(work)
    <3>1. CASE i <= Cabs
      <4>1. PICK j \in 1 .. Len(MembersOf(original, i)) + 1 : j = at[2]
        BY <1>4, <2>5, <3>1 DEF Preflight, PlaceInv
      <4>2. i \in 1 .. Cabs /\ Cabs + 1 \in 1 .. Cabs + 1 /\ i < Cabs + 1
        BY <2>2, <3>1
      <4>3. /\ Start(original, i) \in Nat /\ Start(original, Cabs + 1) \in Nat
            /\ Len(MembersOf(original, i)) \in Nat
            /\ Start(original, i) + Len(MembersOf(original, i)) <= Start(original, Cabs + 1)
        BY <2>2, <4>2
      <4>4. PICK u \in Nat, v \in Nat, n \in Nat :
              u = Start(original, i) /\ v = Start(original, Cabs + 1) /\ n = Len(MembersOf(original, i))
        BY <4>3
      <4>5. Cursor = u + j /\ u + n <= v /\ j \in 1 .. n + 1 /\ Len(work) = v + Bins
        BY <2>3, <2>4, <2>5, <4>1, <4>3, <4>4
      <4> QED BY <2>2, <4>5
    <3>2. CASE i > Cabs
      <4>1. PICK j \in 1 .. Bins + 1 : j = at[2]
        BY <1>4, <2>5, <3>2 DEF Preflight, PlaceInv
      <4>2. i = Cabs + 1 /\ Start(original, Cabs + 1) \in Nat
        BY <2>2, <2>5, <3>2
      <4> QED BY SMTT(60), <2>2, <2>3, <2>4, <2>5, <4>1, <4>2
    <3> QED BY <2>2, <2>5, <3>1, <3>2
  <2>7. InCabinet \/ InBinary => Cursor <= Len(work)
    <3> SUFFICES ASSUME InCabinet \/ InBinary PROVE Cursor <= Len(work)
      OBVIOUS
    <3>1. Len(db.binary) = Bins
      BY <1>4, BinaryLength DEF Signing
    <3>2. Cursor \in 1 .. Len(work)
      BY <1>4, <3>1, Here
    <3> QED BY <1>2, <3>2
  <2> QED BY <1>1, <1>2, <2>1, <2>6, <2>7
<1> QED BY <1>3, <1>4

\* While the rewrite runs.
LEMMA BudgetRuns ==
  ASSUME Preflight, step = "sign" => Signing, BudgetInv
  PROVE  BudgetHolds
<1>1. calls \in 0 .. MemberLimit /\ result.signed + result.preserved <= calls
  BY CallsBounded
<1>2. /\ disk = original /\ expanded \in Nat /\ binaries \in Nat
      /\ at \in (Nat \ {0}) \X (Nat \ {0}) /\ outcome = "running"
      /\ step \in {"media", "files", "cabinets", "binaries", "sign", "end"}
      /\ Cabs \in Nat /\ Bins \in Nat
  BY OriginalFacts DEF Preflight, Types
<1>3. binaries \in 0 .. Bins /\ at[1] \in 1 .. Cabs + 1
  BY <1>2 DEF Preflight, PlaceInv, Types
<1>4. Len(work) <= MemberLimit /\ expanded <= ExpansionLimit /\ TotalSize(work) <= expanded /\ ExpansionLimit \in Nat
  BY LimitsAssumption DEF BudgetInv
<1>5. TypeOK
  BY <1>1, <1>2, <1>3, <1>4 DEF TypeOK, Cabs, Bins
<1> QED BY <1>4, <1>5 DEF BudgetHolds

\* At its end.
LEMMA BudgetEnds ==
  ASSUME Preflight, step = "sign" => Signing, BudgetInv, step' = "end", [RewriteNext]_rewriteVars
  PROVE  BudgetHolds'
<1>1. BudgetHolds /\ step # "end" /\ disk = original
  BY BudgetRuns DEF Preflight, Types
<1>2. /\ work' = <<>> /\ UNCHANGED <<original, expanded, binaries, at, result>>
      /\ outcome' \in {"done", "rejected", "failed"}
  BY <1>1, Ending DEF Invalid, Leave, Commit, ReturnUnchanged, Return, CommitFails, Fail, CallbackThrows, input
<1>3. disk' \in {original', Damaged} \/ disk'.code = "renewed"
  <2>1. CASE Commit
    <3>1. step = "sign" /\ disk' = [db EXCEPT !.code = "renewed"]
      BY <2>1 DEF Commit, AllDone, Return
    <3>2. "code" \in DOMAIN db
      <4>1. DOMAIN db = DOMAIN original /\ IsPackage(original)
        BY <3>1, OriginalFacts DEF Signing, SameTables, Preflight
      <4> QED BY <4>1 DEF IsPackage
    <3> QED BY <3>1, <3>2
  <2>2. CASE ~Commit
    BY <1>1, <1>2, <2>2, Ending DEF Invalid, Leave, ReturnUnchanged, Return, CommitFails, Fail, CallbackThrows
  <2> QED BY <2>1, <2>2
<1>4. calls' \in 0 .. MemberLimit /\ result'.signed + result'.preserved <= calls'
  <2>1. CASE UNCHANGED calls
    BY <1>2, <2>1, CallsBounded
  <2>2. CASE calls' # calls
    <3>1. calls' = calls + 1 /\ step = "sign" /\ (InCabinet \/ InBinary)
      BY <1>1, <2>2, Ending DEF Invalid, Commit, ReturnUnchanged, Return, CommitFails, Fail, CallbackThrows, SignPayload
    <3>2. calls \in Nat /\ result \in [signed: Nat, preserved: Nat]
      BY DEF Preflight, Types
    <3> QED BY <1>2, <3>1, <3>2, CallsBounded
  <2> QED BY <2>1, <2>2
<1>5. TotalSize(work)' = 0 /\ Len(work') = 0
  <2>1. DOMAIN work' = {}
    BY <1>2
  <2>2. TotalSize(work') = 0
    BY <2>1, NoSizes
  <2>3. TotalSize(work)' = TotalSize(work')
    BY DEF TotalSize, Size, Total, Units
  <2> QED BY <1>2, <2>2, <2>3
<1>6. /\ expanded \in 0 .. ExpansionLimit /\ binaries \in 0 .. Len(original.binary)
      /\ at[1] \in 1 .. Len(original.media) + 1 /\ at[2] \in Nat \ {0} /\ expanded <= ExpansionLimit
  BY <1>1 DEF BudgetHolds, TypeOK
<1>7. TypeOK'
  BY <1>2, <1>3, <1>4, <1>5, <1>6, LimitsAssumption DEF TypeOK
<1> QED BY <1>2, <1>5, <1>6, <1>7, LimitsAssumption DEF BudgetHolds

\* Every step keeps it.
LEMMA BudgetStep ==
  ASSUME BudgetSafe, [RewriteNext]_rewriteVars
  PROVE  BudgetSafe'
<1>1. RunningInv /\ RunningInv'
  BY RunningStep DEF BudgetSafe
<1>2. CASE step = "end"
  <2>1. UNCHANGED <<original, windows, disk, db, cabinets, work, expanded, binaries, at, calls, result, step, outcome>>
    BY <1>2, EndStays DEF rewriteVars, input
  <2>2. BudgetHolds
    BY <1>2 DEF BudgetSafe
  <2>3. TotalSize(work)' = TotalSize(work)
    BY <2>1 DEF TotalSize, Size, Total, Units
  <2>4. BudgetHolds'
    BY <2>1, <2>2, <2>3 DEF BudgetHolds, TypeOK
  <2> QED BY <1>1, <1>2, <2>1, <2>4 DEF BudgetSafe
<1>3. CASE step # "end"
  <2>1. Preflight /\ (step = "sign" => Signing) /\ BudgetInv
    BY <1>1, <1>3 DEF BudgetSafe, RunningInv
  <2>2. CASE step' = "end"
    BY <1>1, <2>1, <2>2, BudgetEnds DEF BudgetSafe
  <2>3. CASE step' # "end"
    <3> SUFFICES BudgetInv'
      BY <1>1, <2>3 DEF BudgetSafe
    <3>1. CASE UNCHANGED rewriteVars
      <4>1. UNCHANGED <<original, work, expanded, binaries, at, step>>
        BY <3>1 DEF rewriteVars, input
      <4>2. Cursor' = Cursor /\ ReadCabs' = ReadCabs
        BY <4>1 DEF Cursor, ReadCabs, Cabs
      <4> QED BY <2>1, <4>1, <4>2, NowStays, BudgetKept
    <3>2. CASE ReadMedia \/ ReadFiles \/ CheckRows \/ ReadHashes
      BY <2>1, <2>3, <3>2, BudgetTables
    <3>3. CASE PreflightCabinet
      BY <2>1, <2>3, <3>3, BudgetCabinet
    <3>4. CASE PreflightBinary
      BY <2>1, <2>3, <3>4, BudgetBinary
    <3>5. CASE SkipPayload \/ PreservePayload \/ FinishCabinet
      <4>1. step = "sign"
        BY <3>5 DEF SkipPayload, PreservePayload, FinishCabinet, Goto
      <4> QED BY <2>1, <3>5, <4>1, BudgetPass
    <3>6. CASE SignPayload
      <4>1. step = "sign"
        BY <3>6 DEF SignPayload
      <4> QED BY <2>1, <2>3, <3>6, <4>1, BudgetSign
    <3> QED BY <1>3, <2>3, <3>1, <3>2, <3>3, <3>4, <3>5, <3>6, GoingOn
  <2> QED BY <2>2, <2>3
<1> QED BY <1>2, <1>3

\* For every set of installers and all limits: the bytes in the workspace never exceed the
\* ones accounted for, nor those expansion_limit, however much signing makes payloads grow,
\* and members and calls stay within member_limit.
THEOREM BudgetIsKept == RewriteSpec => []BudgetHolds
<1>1. RewriteInit => BudgetSafe
  BY RunningInit, BudgetInit DEF BudgetSafe, RewriteInit
<1>2. BudgetSafe /\ [RewriteNext]_rewriteVars => BudgetSafe'
  BY BudgetStep
<1>3. BudgetSafe => BudgetHolds
  BY BudgetRuns DEF BudgetSafe, RunningInv
<1> QED
  BY <1>1, <1>2, <1>3, PTL DEF RewriteSpec

-----------------------------------------------------------------------------
\* What the preflight checks is what makes an installer sound.

\* What all steps of the preflight together establish.
Preflighted(p) ==
  /\ MediaSound(p)
  /\ FilesSound(p)
  /\ \A i \in 1 .. Len(p.media) : CabinetSound(p, i)
  /\ \A i, k \in 1 .. Len(p.media) : NamesApart(p, i, k)
  /\ RowsSound(p)
  /\ \A r \in 1 .. Len(p.hash) : p.hash[r].options = 0
  /\ Start(p, Len(p.media) + 1) + Len(p.binary) <= MemberLimit
  /\ Expands(p) <= ExpansionLimit

\* The Media rows are in order.
LEMMA MediaOrdered ==
  ASSUME NEW p, IsPackage(p), MediaSound(p)
  PROVE  \A i, k \in 1 .. Len(p.media) : p.media[i].last >= 0 /\ (k <= i => p.media[k].last <= p.media[i].last)
<1>1. Len(p.media) \in Nat /\ \A i \in 1 .. Len(p.media) : p.media[i].last \in Int
  BY PackageMedia
<1> DEFINE f == [i \in 1 .. Len(p.media) |-> p.media[i].last]
<1>2. \A i \in 1 .. Len(p.media) : f[i] = p.media[i].last /\ f[i] \in Int
  BY <1>1
<1>3. \A i \in 2 .. Len(p.media) : f[i - 1] <= f[i]
  <2> SUFFICES ASSUME NEW i \in 2 .. Len(p.media) PROVE f[i - 1] <= f[i]
    OBVIOUS
  <2>1. i \in 1 .. Len(p.media) /\ i - 1 \in 1 .. Len(p.media) /\ i # 1
    BY <1>1
  <2>2. p.media[i].last >= p.media[i - 1].last
    BY <2>1 DEF MediaSound, LastBefore
  <2> QED BY <1>1, <2>1, <2>2
<1>4. \A i \in 1 .. Len(p.media), k \in 1 .. Len(p.media) : k <= i => f[k] <= f[i]
  <2>1. \A i \in 1 .. Len(p.media) : f[i] \in Int
    BY <1>2
  <2> HIDE DEF f
  <2> QED BY <1>1, <1>3, <2>1, Ordered
<1>5. \A i \in 1 .. Len(p.media) : p.media[i].last >= 0
  <2> SUFFICES ASSUME NEW i \in 1 .. Len(p.media) PROVE p.media[i].last >= 0
    OBVIOUS
  <2>1. 1 \in 1 .. Len(p.media) /\ 1 <= i
    BY <1>1
  <2>2. p.media[1].last >= 0 /\ p.media[1].last \in Int /\ p.media[i].last \in Int
    BY <1>1, <2>1 DEF MediaSound, LastBefore
  <2>3. p.media[1].last <= p.media[i].last
    <3> HIDE DEF f
    <3>1. f[1] <= f[i]
      BY <1>4, <2>1
    <3> QED BY <1>2, <2>1, <3>1
  <2> QED BY <2>2, <2>3
<1>6. \A i, k \in 1 .. Len(p.media) : k <= i => p.media[k].last <= p.media[i].last
  <2> HIDE DEF f
  <2> QED BY <1>2, <1>4
<1> QED BY <1>5, <1>6

\* The cabinet of a sequence number is the one whose range it is in.
LEMMA CabinetRange ==
  ASSUME NEW p, IsPackage(p), MediaSound(p), NEW i \in 1 .. Len(p.media), NEW n \in Nat \ {0}
  PROVE  CabinetOf(p, n) = {i} <=> n \in LastBefore(p, i) + 1 .. p.media[i].last
<1>1. /\ Len(p.media) \in Nat /\ DOMAIN p.media = 1 .. Len(p.media)
      /\ \A k \in 1 .. Len(p.media) : p.media[k].last \in Int
  BY PackageMedia
<1>2. \A m, k \in 1 .. Len(p.media) : p.media[m].last >= 0 /\ (k <= m => p.media[k].last <= p.media[m].last)
  BY MediaOrdered
<1>3. i # 1 => i - 1 \in 1 .. Len(p.media)
  BY <1>1
<1>4. LastBefore(p, i) \in Int
  BY <1>1, <1>3 DEF LastBefore
<1>5. ASSUME n \in LastBefore(p, i) + 1 .. p.media[i].last PROVE CabinetOf(p, n) = {i}
  <2>1. n <= p.media[i].last /\ n > LastBefore(p, i)
    BY <1>1, <1>4, <1>5
  <2>2. ASSUME NEW k \in 1 .. Len(p.media), n <= p.media[k].last PROVE i <= k
    <3> SUFFICES ASSUME k < i PROVE FALSE
      BY <1>1
    <3>1. i # 1 /\ k <= i - 1
      BY <1>1
    <3>2. p.media[k].last <= p.media[i - 1].last
      BY <1>2, <1>3, <3>1
    <3>3. LastBefore(p, i) = p.media[i - 1].last
      BY <3>1 DEF LastBefore
    <3> QED BY SMTT(30), <1>1, <1>3, <1>4, <2>1, <2>2, <3>1, <3>2, <3>3
  <2>3. i \in CabinetOf(p, n)
    BY <1>1, <2>1, <2>2 DEF CabinetOf
  <2>4. ASSUME NEW k \in CabinetOf(p, n) PROVE k = i
    <3>1. k \in 1 .. Len(p.media) /\ n <= p.media[k].last /\ k <= i
      BY <1>1, <2>1, <2>4 DEF CabinetOf
    <3> QED BY <1>1, <2>2, <3>1
  <2> QED BY <2>3, <2>4
<1>6. ASSUME CabinetOf(p, n) = {i} PROVE n \in LastBefore(p, i) + 1 .. p.media[i].last
  <2>1. i \in CabinetOf(p, n)
    BY <1>6
  <2>2. n <= p.media[i].last /\ \A k \in 1 .. Len(p.media) : n <= p.media[k].last => i <= k
    BY <1>1, <2>1 DEF CabinetOf
  <2>3. n > LastBefore(p, i)
    <3>1. CASE i = 1
      BY <3>1 DEF LastBefore
    <3>2. CASE i # 1
      <4>1. i - 1 \in 1 .. Len(p.media) /\ LastBefore(p, i) = p.media[i - 1].last /\ ~(i <= i - 1)
        BY <1>1, <1>3, <3>2 DEF LastBefore
      <4>2. ~(n <= p.media[i - 1].last)
        BY <2>2, <4>1
      <4> QED BY <1>1, <4>1, <4>2
    <3> QED BY <3>1, <3>2
  <2> QED BY <1>1, <1>4, <2>2, <2>3
<1> QED BY <1>5, <1>6

\* The number of all members is where the Binary rows' payloads begin.
LEMMA CountIs ==
  ASSUME NEW p, IsPackage(p)
  PROVE  MemberCount(p) = Start(p, Len(p.media) + 1)
<1>1. Len(p.media) \in Nat /\ DOMAIN p.media = 1 .. Len(p.media)
  BY PackageMedia
<1>2. (Len(p.media) + 1) - 1 = Len(p.media)
  BY <1>1
<1> QED BY <1>1, <1>2 DEF MemberCount, Start, MembersOf, Cabinet

\* The places of members are the pairs that the loops go through.
LEMMA MembersAre ==
  ASSUME NEW p, IsPackage(p), NEW i, NEW j
  PROVE  /\ <<i, j>> \in Members(p) <=> i \in 1 .. Len(p.media) /\ j \in 1 .. MemberLimit /\ j <= Len(MembersOf(p, i))
         /\ Member(p, <<i, j>>) = MembersOf(p, i)[j]
<1>1. DOMAIN p.media = 1 .. Len(p.media)
  BY PackageMedia
<1> QED BY <1>1 DEF Members, Member, MembersOf, Cabinet

\* A member is known by its cabinet and its place there.
LEMMA MembersPairs ==
  ASSUME NEW p, IsPackage(p), NEW m \in Members(p)
  PROVE  m = <<m[1], m[2]>> /\ m[1] \in 1 .. Len(p.media) /\ m[2] \in 1 .. MemberLimit
         /\ m[2] <= Len(MembersOf(p, m[1])) /\ Member(p, m) = MembersOf(p, m[1])[m[2]]
<1>1. DOMAIN p.media = 1 .. Len(p.media)
  BY PackageMedia
<1> QED BY <1>1 DEF Members, Member, MembersOf, Cabinet

\* The Media rows of a sound package are sound.
LEMMA SoundMedia ==
  ASSUME NEW p, IsPackage(p), TablesSound(p)
  PROVE  MediaSound(p)
<1>1. /\ Len(p.media) \in Nat /\ DOMAIN p.media = 1 .. Len(p.media)
      /\ \A i \in 1 .. Len(p.media) : p.media[i].last \in Int
  BY PackageMedia
<1>2. \A i \in 1 .. Len(p.media) :
        /\ p.media[i].embedded
        /\ p.media[i].last >= 0
        /\ \A k \in 1 .. i - 1 : p.media[k].last <= p.media[i].last
        /\ \A k \in 1 .. i - 1 : p.media[k].cabinet # p.media[i].cabinet
  BY <1>1 DEF TablesSound
<1>3. ASSUME NEW i \in 1 .. Len(p.media) PROVE p.media[i].last >= LastBefore(p, i)
  <2>1. CASE i = 1
    BY <1>2, <2>1 DEF LastBefore
  <2>2. CASE i # 1
    <3>1. i - 1 \in 1 .. i - 1 /\ i - 1 \in 1 .. Len(p.media)
      BY <1>1, <2>2
    <3>2. p.media[i - 1].last <= p.media[i].last /\ p.media[i - 1].last \in Int /\ p.media[i].last \in Int
      BY <1>1, <1>2, <3>1
    <3>3. LastBefore(p, i) = p.media[i - 1].last
      BY <2>2 DEF LastBefore
    <3> QED BY <3>2, <3>3
  <2> QED BY <2>1, <2>2
<1>4. ASSUME NEW i \in 1 .. Len(p.media), NEW k \in 1 .. Len(p.media), i # k
      PROVE  p.media[i].cabinet # p.media[k].cabinet
  <2>1. CASE k < i
    <3>1. k \in 1 .. i - 1
      BY <1>1, <2>1
    <3> QED BY <1>2, <3>1
  <2>2. CASE i < k
    <3>1. i \in 1 .. k - 1
      BY <1>1, <2>2
    <3> QED BY <1>2, <3>1
  <2> QED BY <1>1, <1>4, <2>1, <2>2
<1> QED BY <1>2, <1>3, <1>4 DEF MediaSound, TablesSound

\* What soundness says of the cabinets' members.
LEMMA SoundMembers ==
  ASSUME NEW p, IsPackage(p), PayloadSound(p)
  PROVE  /\ KnownTo(p, Len(p.media) + 1)
         /\ \A i \in 1 .. Len(p.media) :
              /\ p.media[i].cabinet \in DOMAIN p.streams
              /\ Cabinet(p, i).regular
              /\ TotalDeclared(MembersOf(p, i)) <= Cabinet(p, i).expands
              /\ Len(MembersOf(p, i)) \in Nat
         /\ \A i \in 1 .. Len(p.media) : \A j \in 1 .. Len(MembersOf(p, i)) :
              /\ <<i, j>> \in Members(p) /\ Member(p, <<i, j>>) = MembersOf(p, i)[j]
              /\ MembersOf(p, i)[j].size \in Nat
<1>1. Len(p.media) \in Nat /\ DOMAIN p.media = 1 .. Len(p.media) /\ DOMAIN p.file = 1 .. Len(p.file)
  BY PackageMedia, PackageFile
<1>2. \A i \in 1 .. Len(p.media) :
        /\ p.media[i].cabinet \in DOMAIN p.streams
        /\ Cabinet(p, i).regular
        /\ TotalDeclared(MembersOf(p, i)) <= Cabinet(p, i).expands
        /\ Len(MembersOf(p, i)) <= MemberLimit
  BY <1>1 DEF PayloadSound, Cabinet, MembersOf
<1>3. KnownTo(p, Len(p.media) + 1)
  <2>1. (Len(p.media) + 1) - 1 = Len(p.media)
    BY <1>1
  <2> QED BY <1>2, <2>1 DEF KnownTo
<1>4. \A i \in 1 .. Len(p.media) :
        /\ Len(MembersOf(p, i)) \in Nat
        /\ \A j \in 1 .. Len(MembersOf(p, i)) : MembersOf(p, i)[j].size \in Nat
  BY <1>2, PackageCabinet
<1>5. ASSUME NEW i \in 1 .. Len(p.media), NEW j \in 1 .. Len(MembersOf(p, i))
      PROVE  <<i, j>> \in Members(p) /\ Member(p, <<i, j>>) = MembersOf(p, i)[j]
  <2>1. j \in 1 .. MemberLimit /\ j <= Len(MembersOf(p, i))
    BY <1>2, <1>4, LimitsAssumption
  <2> QED BY <2>1, MembersAre
<1> QED BY <1>2, <1>3, <1>4, <1>5

\* A member's row, as Windows Installer finds its cabinet.
RowIn(p, i, member) ==
  \E r \in 1 .. Len(p.file) :
    /\ p.file[r].id = member.name
    /\ p.file[r].size = member.size
    /\ CabinetOf(p, p.file[r].sequence) = {i}

\* A member of a sound package has its File row.
LEMMA MemberHasRow ==
  ASSUME NEW p, IsPackage(p), PayloadSound(p), NEW i \in 1 .. Len(p.media), NEW j \in 1 .. Len(MembersOf(p, i))
  PROVE  Size(MembersOf(p, i)[j].payload) = MembersOf(p, i)[j].size /\ RowIn(p, i, MembersOf(p, i)[j])
<1>1. DOMAIN p.file = 1 .. Len(p.file)
  BY PackageFile
<1>2. PICK m \in Members(p) : m = <<i, j>> /\ Member(p, m) = MembersOf(p, i)[j] /\ m[1] = i
  <2>1. <<i, j>> \in Members(p) /\ Member(p, <<i, j>>) = MembersOf(p, i)[j]
    BY SoundMembers
  <2> QED BY <2>1
<1>3. /\ Size(Member(p, m).payload) = Member(p, m).size
      /\ \E r \in DOMAIN p.file :
           /\ p.file[r].id = Member(p, m).name
           /\ p.file[r].size = Member(p, m).size
           /\ CabinetOf(p, p.file[r].sequence) = {m[1]}
  BY DEF PayloadSound
<1> QED BY <1>1, <1>2, <1>3 DEF RowIn

\* And of the File rows.
LEMMA SoundRows ==
  ASSUME NEW p, IsPackage(p), PayloadSound(p), NEW r \in 1 .. Len(p.file)
  PROVE  /\ \E i \in 1 .. Len(p.media) : \E j \in 1 .. Len(MembersOf(p, i)) : p.file[r].id = MembersOf(p, i)[j].name
         /\ \A i, k \in 1 .. Len(p.media) : \A j \in 1 .. Len(MembersOf(p, i)), l \in 1 .. Len(MembersOf(p, k)) :
              MembersOf(p, i)[j].name = p.file[r].id /\ MembersOf(p, k)[l].name = p.file[r].id => i = k /\ j = l
         /\ \A s \in 1 .. Len(p.file) : s # r => p.file[s].id # p.file[r].id
<1>1. DOMAIN p.file = 1 .. Len(p.file)
  BY PackageFile
<1>2. PICK m \in Members(p) :
        /\ Member(p, m).name = p.file[r].id
        /\ \A n \in Members(p) \ {m} : Member(p, n).name # p.file[r].id
        /\ \A s \in DOMAIN p.file \ {r} : p.file[s].id # p.file[r].id
  BY <1>1 DEF PayloadSound
<1>3. /\ m = <<m[1], m[2]>> /\ m[1] \in 1 .. Len(p.media) /\ m[2] \in 1 .. MemberLimit
      /\ m[2] <= Len(MembersOf(p, m[1])) /\ Member(p, m) = MembersOf(p, m[1])[m[2]]
  BY MembersPairs
<1>4. m[2] \in 1 .. Len(MembersOf(p, m[1]))
  <2>1. Len(MembersOf(p, m[1])) \in Nat
    BY <1>3, SoundMembers
  <2> QED BY <1>3, <2>1
<1>5. ASSUME NEW i \in 1 .. Len(p.media), NEW j \in 1 .. Len(MembersOf(p, i)), MembersOf(p, i)[j].name = p.file[r].id
      PROVE  <<i, j>> = m
  <2>1. <<i, j>> \in Members(p) /\ Member(p, <<i, j>>) = MembersOf(p, i)[j]
    BY SoundMembers
  <2> QED BY <1>2, <1>5, <2>1
<1>6. ASSUME NEW i \in 1 .. Len(p.media), NEW k \in 1 .. Len(p.media),
             NEW j \in 1 .. Len(MembersOf(p, i)), NEW l \in 1 .. Len(MembersOf(p, k)),
             MembersOf(p, i)[j].name = p.file[r].id, MembersOf(p, k)[l].name = p.file[r].id
      PROVE  i = k /\ j = l
  <2>1. <<i, j>> = m /\ <<k, l>> = m
    BY <1>5, <1>6
  <2> QED BY <2>1
<1>7. \A s \in 1 .. Len(p.file) : s # r => p.file[s].id # p.file[r].id
  BY <1>1, <1>2
<1>8. \E i \in 1 .. Len(p.media) : \E j \in 1 .. Len(MembersOf(p, i)) : p.file[r].id = MembersOf(p, i)[j].name
  BY <1>2, <1>3, <1>4
<1> QED BY <1>6, <1>7, <1>8

\* A sound package passes every check of the preflight,
LEMMA SoundPreflighted ==
  ASSUME NEW p, IsPackage(p), Sound(p)
  PROVE  Preflighted(p)
<1>0. TablesSound(p) /\ PayloadSound(p)
  BY DEF Sound
<1>1. MediaSound(p)
  BY <1>0, SoundMedia
<1>2. /\ Len(p.file) \in Nat /\ DOMAIN p.file = 1 .. Len(p.file)
      /\ \A r \in 1 .. Len(p.file) : p.file[r].sequence \in Int /\ p.file[r].size \in Int
  BY PackageFile
<1>3. \A r \in 1 .. Len(p.file) :
        /\ "noncompressed" \notin p.file[r].attributes
        /\ p.compressed \/ "compressed" \in p.file[r].attributes
        /\ p.file[r].sequence > 0
        /\ \A s \in 1 .. r - 1 : p.file[s].sequence # p.file[r].sequence
  BY <1>0, <1>2 DEF TablesSound
<1>4. FilesSound(p)
  <2>1. ASSUME NEW r \in 1 .. Len(p.file) PROVE p.file[r].size >= 0
    <3>1. PICK i \in 1 .. Len(p.media) : \E j \in 1 .. Len(MembersOf(p, i)) : p.file[r].id = MembersOf(p, i)[j].name
      BY <1>0, SoundRows
    <3>2. PICK j \in 1 .. Len(MembersOf(p, i)) : p.file[r].id = MembersOf(p, i)[j].name
      BY <3>1
    <3>3. PICK s \in 1 .. Len(p.file) : p.file[s].id = MembersOf(p, i)[j].name /\ p.file[s].size = MembersOf(p, i)[j].size
      BY <1>0, MemberHasRow DEF RowIn
    <3>4. MembersOf(p, i)[j].size \in Nat
      BY <1>0, SoundMembers
    <3>5. s = r
      BY <1>0, <3>2, <3>3, SoundRows
    <3> QED BY <3>3, <3>4, <3>5
  <2>2. ASSUME NEW r \in 1 .. Len(p.file), NEW s \in 1 .. Len(p.file), r # s
        PROVE  p.file[r].sequence # p.file[s].sequence /\ p.file[r].id # p.file[s].id
    <3>1. p.file[r].id # p.file[s].id
      BY <1>0, <2>2, SoundRows
    <3>2. r \in 1 .. s - 1 \/ s \in 1 .. r - 1
      BY <1>2, <2>2
    <3> QED BY <1>3, <3>1, <3>2
  <2> QED BY <1>3, <2>1, <2>2 DEF FilesSound
<1>5. ASSUME NEW i \in 1 .. Len(p.media) PROVE CabinetSound(p, i)
  <2>1. /\ p.media[i].cabinet \in DOMAIN p.streams
        /\ Cabinet(p, i).regular
        /\ TotalDeclared(MembersOf(p, i)) <= Cabinet(p, i).expands
    BY <1>0, SoundMembers
  <2>2. ASSUME NEW j \in 1 .. Len(MembersOf(p, i))
        PROVE  Size(MembersOf(p, i)[j].payload) = MembersOf(p, i)[j].size /\ HasRow(p, i, MembersOf(p, i)[j])
    <3>1. Size(MembersOf(p, i)[j].payload) = MembersOf(p, i)[j].size /\ RowIn(p, i, MembersOf(p, i)[j])
      BY <1>0, MemberHasRow
    <3>2. PICK r \in 1 .. Len(p.file) :
                   /\ p.file[r].id = MembersOf(p, i)[j].name
                   /\ p.file[r].size = MembersOf(p, i)[j].size
                   /\ CabinetOf(p, p.file[r].sequence) = {i}
      BY <3>1 DEF RowIn
    <3>3. p.file[r].sequence \in Nat \ {0}
      BY <1>2, <1>3
    <3>4. p.file[r].sequence \in LastBefore(p, i) + 1 .. p.media[i].last
      BY <1>1, <3>2, <3>3, CabinetRange
    <3> QED BY <3>1, <3>2, <3>4 DEF HasRow
  <2> QED BY <2>1, <2>2 DEF CabinetSound
<1>6. ASSUME NEW i \in 1 .. Len(p.media), NEW k \in 1 .. Len(p.media) PROVE NamesApart(p, i, k)
  <2> SUFFICES ASSUME NEW j \in 1 .. Len(MembersOf(p, i)), NEW l \in 1 .. Len(MembersOf(p, k)),
                      MembersOf(p, i)[j].name = MembersOf(p, k)[l].name
               PROVE  i = k /\ j = l
    BY DEF NamesApart
  <2>1. PICK r \in 1 .. Len(p.file) : p.file[r].id = MembersOf(p, i)[j].name
    BY <1>0, MemberHasRow DEF RowIn
  <2>2. MembersOf(p, i)[j].name = p.file[r].id /\ MembersOf(p, k)[l].name = p.file[r].id
    BY <2>1
  <2> QED BY SMTT(60), <1>0, <2>2, SoundRows
<1>7. RowsSound(p)
  BY <1>0, SoundRows DEF RowsSound
<1>8. \A r \in 1 .. Len(p.hash) : p.hash[r].options = 0
  BY <1>0, PackageHash DEF TablesSound
<1>9. Start(p, Len(p.media) + 1) + Len(p.binary) <= MemberLimit /\ Expands(p) <= ExpansionLimit
  BY <1>0, CountIs DEF PayloadSound
<1> QED
  BY <1>1, <1>4, <1>5, <1>6, <1>7, <1>8, <1>9 DEF Preflighted

\* and only a sound one does.
LEMMA PreflightedSound ==
  ASSUME NEW p, IsPackage(p), Preflighted(p)
  PROVE  Sound(p)
<1>1. /\ Len(p.media) \in Nat /\ DOMAIN p.media = 1 .. Len(p.media)
      /\ \A i \in 1 .. Len(p.media) : p.media[i].last \in Int
      /\ Len(p.file) \in Nat /\ DOMAIN p.file = 1 .. Len(p.file)
      /\ \A r \in 1 .. Len(p.file) : p.file[r].sequence \in Int
      /\ DOMAIN p.hash = 1 .. Len(p.hash) /\ Len(p.binary) \in Nat
  BY PackageMedia, PackageFile, PackageHash, PackageBinary
<1>2. MediaSound(p) /\ FilesSound(p)
  BY DEF Preflighted
<1>3. TablesSound(p)
  <2>1. ASSUME NEW i \in 1 .. Len(p.media)
        PROVE  /\ p.media[i].embedded
               /\ p.media[i].last >= 0
               /\ \A k \in 1 .. i - 1 : p.media[k].last <= p.media[i].last
               /\ \A k \in 1 .. i - 1 : p.media[k].cabinet # p.media[i].cabinet
    <3>1. \A k \in 1 .. i - 1 : k \in 1 .. Len(p.media) /\ k <= i /\ k # i
      BY <1>1
    <3>2. p.media[i].last >= 0 /\ \A k \in 1 .. Len(p.media) : k <= i => p.media[k].last <= p.media[i].last
      BY <1>2, MediaOrdered
    <3>3. p.media[i].embedded /\ \A k \in 1 .. Len(p.media) : i # k => p.media[i].cabinet # p.media[k].cabinet
      BY <1>2 DEF MediaSound
    <3> QED BY <3>1, <3>2, <3>3
  <2>2. ASSUME NEW r \in 1 .. Len(p.file)
        PROVE  /\ "noncompressed" \notin p.file[r].attributes
               /\ p.compressed \/ "compressed" \in p.file[r].attributes
               /\ p.file[r].sequence > 0
               /\ \A s \in 1 .. r - 1 : p.file[s].sequence # p.file[r].sequence
    <3>1. \A s \in 1 .. r - 1 : s \in 1 .. Len(p.file) /\ s # r
      BY <1>1
    <3> QED BY <1>2, <3>1 DEF FilesSound
  <2>3. \A r \in DOMAIN p.hash : p.hash[r].options = 0
    BY <1>1 DEF Preflighted
  <2>4. ~p.storages
    BY <1>2 DEF MediaSound
  <2> QED BY <1>1, <2>1, <2>2, <2>3, <2>4 DEF TablesSound
<1>4. \A i \in 1 .. Len(p.media) : CabinetSound(p, i)
  BY DEF Preflighted
<1>5. KnownTo(p, Len(p.media) + 1)
  <2>1. (Len(p.media) + 1) - 1 = Len(p.media)
    BY <1>1
  <2> QED BY <1>4, <2>1 DEF KnownTo, CabinetSound
<1>6. \A i \in 1 .. Len(p.media) : Len(MembersOf(p, i)) \in Nat
  BY <1>4, PackageCabinet DEF CabinetSound
<1>7. ASSUME NEW i \in 1 .. Len(p.media) PROVE Len(MembersOf(p, i)) <= MemberLimit
  <2>1. i \in 1 .. Len(p.media) + 1 /\ Len(p.media) + 1 \in 1 .. Len(p.media) + 1 /\ i < Len(p.media) + 1
    BY <1>1
  <2>2. Start(p, i) + Len(MembersOf(p, i)) <= Start(p, Len(p.media) + 1) /\ Start(p, Len(p.media) + 1) \in Nat
    BY <1>5, <2>1, StartGrows, StartNat
  <2>3. Start(p, i) \in Nat
    <3>1. KnownTo(p, i)
      BY <1>1, <1>4 DEF KnownTo, CabinetSound
    <3> QED BY <2>1, <3>1, StartNat
  <2>4. Start(p, Len(p.media) + 1) + Len(p.binary) <= MemberLimit
    BY DEF Preflighted
  <2> QED BY <1>1, <1>6, <2>2, <2>3, <2>4, LimitsAssumption
<1>8. ASSUME NEW m \in Members(p)
      PROVE  /\ Size(Member(p, m).payload) = Member(p, m).size
             /\ \E r \in DOMAIN p.file :
                  /\ p.file[r].id = Member(p, m).name
                  /\ p.file[r].size = Member(p, m).size
                  /\ CabinetOf(p, p.file[r].sequence) = {m[1]}
  <2>1. PICK i \in 1 .. Len(p.media) : i = m[1]
    BY MembersPairs
  <2>2. PICK j \in 1 .. Len(MembersOf(p, i)) : j = m[2] /\ Member(p, m) = MembersOf(p, i)[j]
    <3>1. m[2] \in 1 .. MemberLimit /\ m[2] <= Len(MembersOf(p, i)) /\ Member(p, m) = MembersOf(p, i)[m[2]]
      BY <2>1, MembersPairs
    <3>2. m[2] \in 1 .. Len(MembersOf(p, i))
      BY <1>6, <3>1, LimitsAssumption
    <3> QED BY <3>1, <3>2
  <2>3. Size(MembersOf(p, i)[j].payload) = MembersOf(p, i)[j].size /\ HasRow(p, i, MembersOf(p, i)[j])
    BY <1>4 DEF CabinetSound
  <2>4. PICK r \in 1 .. Len(p.file) :
          /\ p.file[r].id = MembersOf(p, i)[j].name
          /\ p.file[r].sequence \in LastBefore(p, i) + 1 .. p.media[i].last
          /\ p.file[r].size = MembersOf(p, i)[j].size
    BY <2>3 DEF HasRow
  <2>5. p.file[r].sequence \in Nat \ {0}
    <3>1. p.file[r].sequence > 0
      BY <1>2 DEF FilesSound
    <3>2. p.file[r].sequence \in Int
      BY <1>1
    <3> QED BY <3>1, <3>2
  <2>6. CabinetOf(p, p.file[r].sequence) = {i}
    BY <1>2, <2>4, <2>5, CabinetRange
  <2> QED BY <1>1, <2>1, <2>2, <2>3, <2>4, <2>6
<1>9. ASSUME NEW r \in DOMAIN p.file
      PROVE  \E m \in Members(p) :
               /\ Member(p, m).name = p.file[r].id
               /\ \A n \in Members(p) \ {m} : Member(p, n).name # p.file[r].id
               /\ \A s \in DOMAIN p.file \ {r} : p.file[s].id # p.file[r].id
  <2>1. PICK i \in 1 .. Len(p.media) : \E j \in 1 .. Len(MembersOf(p, i)) : p.file[r].id = MembersOf(p, i)[j].name
    BY <1>1 DEF Preflighted, RowsSound
  <2>2. PICK j \in 1 .. Len(MembersOf(p, i)) : p.file[r].id = MembersOf(p, i)[j].name
    BY <2>1
  <2>3. <<i, j>> \in Members(p) /\ Member(p, <<i, j>>).name = p.file[r].id
    <3>1. j \in 1 .. MemberLimit /\ j <= Len(MembersOf(p, i))
      BY <1>6, <1>7, LimitsAssumption
    <3> QED BY <2>2, <3>1, MembersAre
  <2>4. ASSUME NEW n \in Members(p), Member(p, n).name = p.file[r].id PROVE n = <<i, j>>
    <3>1. PICK k \in 1 .. Len(p.media) : k = n[1]
      BY MembersPairs
    <3>2. PICK l \in 1 .. Len(MembersOf(p, k)) : l = n[2] /\ Member(p, n) = MembersOf(p, k)[l] /\ n = <<k, l>>
      <4>1. /\ n[2] \in 1 .. MemberLimit /\ n[2] <= Len(MembersOf(p, k))
            /\ Member(p, n) = MembersOf(p, k)[n[2]] /\ n = <<k, n[2]>>
        BY <3>1, MembersPairs
      <4>2. n[2] \in 1 .. Len(MembersOf(p, k))
        BY <1>6, <4>1, LimitsAssumption
      <4> QED BY <4>1, <4>2
    <3>3. NamesApart(p, k, i)
      BY DEF Preflighted
    <3>4. k = i /\ l = j
      BY <2>2, <2>4, <3>2, <3>3 DEF NamesApart
    <3> QED BY <3>2, <3>4
  <2>5. \A s \in DOMAIN p.file \ {r} : p.file[s].id # p.file[r].id
    <3>1. \A t, s \in 1 .. Len(p.file) : t # s => p.file[t].id # p.file[s].id
      BY SMTT(30), <1>2 DEF FilesSound
    <3>2. \A s \in DOMAIN p.file \ {r} : s \in 1 .. Len(p.file) /\ s # r
      BY <1>1
    <3>3. r \in 1 .. Len(p.file)
      BY <1>1
    <3> QED BY <3>1, <3>2, <3>3
  <2> QED BY <2>3, <2>4, <2>5
<1>10. \A i \in DOMAIN p.media :
         /\ p.media[i].cabinet \in DOMAIN p.streams
         /\ p.streams[p.media[i].cabinet].regular
         /\ TotalDeclared(p.streams[p.media[i].cabinet].members) <= p.streams[p.media[i].cabinet].expands
         /\ Len(p.streams[p.media[i].cabinet].members) <= MemberLimit
  BY <1>1, <1>4, <1>7 DEF CabinetSound, MembersOf, Cabinet
<1>11. MemberCount(p) + Len(p.binary) <= MemberLimit /\ Expands(p) <= ExpansionLimit
  BY CountIs DEF Preflighted
<1>12. PayloadSound(p)
  BY <1>8, <1>9, <1>10, <1>11 DEF PayloadSound
<1> QED BY <1>3, <1>12 DEF Sound

\* What is accounted for before the first payload is signed.
LEMMA Accounted ==
  ASSUME Preflight, BudgetInv, step \in {"cabinets", "binaries"}
  PROVE  /\ ReadCabs \in 0 .. Cabs
         /\ \A i \in 1 .. ReadCabs : Cabinet(original, i).expands \in Nat
         /\ \A b \in 1 .. binaries : Size(original.binary[b].payload) \in Nat
         /\ expanded = Total([i \in 1 .. ReadCabs |-> Cabinet(original, i).expands])
                         + Total([b \in 1 .. binaries |-> Size(original.binary[b].payload)])
<1>1. IsPackage(original) /\ Cabs \in Nat /\ Bins \in Nat /\ binaries \in Nat /\ at \in (Nat \ {0}) \X (Nat \ {0})
  BY OriginalFacts DEF Preflight, Types
<1>2. ReadCabs \in 0 .. Cabs
  BY <1>1 DEF ReadCabs, Preflight, PlaceInv
<1>3. ASSUME NEW i \in 1 .. ReadCabs PROVE Spent(i) = Cabinet(original, i).expands /\ Cabinet(original, i).expands \in Nat
  <2>1. i \in 1 .. Cabs /\ Read(i)
    BY <1>1, <1>2 DEF Read, ReadCabs
  <2> QED BY <2>1, SpentFacts
<1>4. ASSUME NEW b \in 1 .. binaries
      PROVE  SpentBinary(b) = Size(original.binary[b].payload) /\ Size(original.binary[b].payload) \in Nat
  <2>1. step = "binaries" /\ b \in 1 .. Bins /\ b \in Nat \ {0}
    BY <1>1 DEF Preflight, PlaceInv
  <2>2. original.binary[b].payload \in PayloadFiles
    BY <1>1, <2>1, PackageBinary DEF Bins
  <2>3. BinaryPlace(b) \in Nat \ {0}
    <3>1. Cabs + 1 \in 1 .. Cabs + 1
      BY <1>1
    <3>2. Start(original, Cabs + 1) \in Nat
      BY <2>1, <3>1, Places
    <3> QED BY <2>1, <3>2 DEF BinaryPlace
  <2>4. Now(BinaryPlace(b), original.binary[b].payload) = original.binary[b].payload
    BY <2>1, <2>3, NothingPassed
  <2> QED BY <2>2, <2>4, SizeNat DEF SpentBinary
<1>5. [i \in 1 .. ReadCabs |-> Spent(i)] = [i \in 1 .. ReadCabs |-> Cabinet(original, i).expands]
  BY <1>3
<1>6. [b \in 1 .. binaries |-> SpentBinary(b)] = [b \in 1 .. binaries |-> Size(original.binary[b].payload)]
  BY <1>4
<1>7. expanded = Total([i \in 1 .. ReadCabs |-> Spent(i)]) + Total([b \in 1 .. binaries |-> SpentBinary(b)])
  BY DEF BudgetInv
<1>8. expanded = Total([i \in 1 .. ReadCabs |-> Cabinet(original, i).expands])
                   + Total([b \in 1 .. binaries |-> Size(original.binary[b].payload)])
  <2>1. PICK f, g : /\ f = [i \in 1 .. ReadCabs |-> Spent(i)] /\ g = [b \in 1 .. binaries |-> SpentBinary(b)]
                    /\ f = [i \in 1 .. ReadCabs |-> Cabinet(original, i).expands]
                    /\ g = [b \in 1 .. binaries |-> Size(original.binary[b].payload)]
    BY <1>5, <1>6
  <2>2. expanded = Total(f) + Total(g)
    BY <1>7, <2>1
  <2> QED BY <2>1, <2>2
<1> QED BY <1>2, <1>3, <1>4, <1>8

\* A part of a sum.
LEMMA TotalPart ==
  ASSUME NEW m \in Nat, NEW n \in Nat, m <= n, NEW f, NEW g, DOMAIN f = 1 .. m, DOMAIN g = 1 .. n,
         \A k \in 1 .. n : g[k] \in Nat, \A k \in 1 .. m : f[k] = g[k]
  PROVE  Total(f) \in Nat /\ Total(g) \in Nat /\ Total(f) <= Total(g)
<1>1. IsFiniteSet(1 .. m) /\ IsFiniteSet(1 .. n)
  <2>1. 1 \in Int /\ n \in Int /\ m \in Int
    OBVIOUS
  <2> QED BY <2>1, FS_Interval
<1>2. \A k \in 1 .. m : k \in 1 .. n
  OBVIOUS
<1>3. \A k \in 1 .. m : f[k] \in Nat /\ f[k] <= g[k]
  BY <1>2
<1>4. Summable(f) /\ Summable(g)
  BY <1>1, <1>3 DEF Summable
<1>5. DOMAIN f \subseteq DOMAIN g
  BY <1>2
<1> QED BY <1>3, <1>4, <1>5, TotalNat, TotalGrows

\* The same with the next term.
LEMMA TotalPartNext ==
  ASSUME NEW m \in Nat, NEW n \in Nat, m < n, NEW f, NEW g, DOMAIN f = 1 .. m, DOMAIN g = 1 .. n,
         \A k \in 1 .. n : g[k] \in Nat, \A k \in 1 .. m : f[k] = g[k]
  PROVE  Total(f) \in Nat /\ Total(g) \in Nat /\ Total(f) + g[m + 1] <= Total(g)
<1> DEFINE h == [k \in 1 .. m + 1 |-> g[k]]
<1>1. DOMAIN h = 1 .. m + 1 /\ m + 1 \in Nat /\ m + 1 <= n /\ \A k \in 1 .. m + 1 : h[k] = g[k]
  OBVIOUS
<1>2. Total(h) \in Nat /\ Total(g) \in Nat /\ Total(h) <= Total(g)
  <2> HIDE DEF h
  <2> QED BY <1>1, TotalPart
<1>3. Total(f) \in Nat
  BY TotalPart
<1>4. Total(h) = Total(f) + h[m + 1]
  <2>1. IsFiniteSet(1 .. m) /\ IsFiniteSet(1 .. m + 1)
    <3>1. 1 \in Int /\ m + 1 \in Int /\ m \in Int
      OBVIOUS
    <3> QED BY <3>1, FS_Interval
  <2>2. \A k \in 1 .. m + 1 : k \in 1 .. n
    OBVIOUS
  <2>3. \A k \in 1 .. m : k \in 1 .. m + 1
    OBVIOUS
  <2> HIDE DEF h
  <2>4. Summable(h)
    BY <1>1, <2>1, <2>2 DEF Summable
  <2>5. Summable(f)
    BY <2>1, <2>2, <2>3 DEF Summable
  <2>6. m + 1 \notin DOMAIN f /\ DOMAIN h = DOMAIN f \cup {m + 1} /\ \A k \in DOMAIN f : h[k] = f[k]
    BY <1>1, <2>3
  <2>7. PICK x : x = m + 1
    OBVIOUS
  <2>8. x \notin DOMAIN f /\ DOMAIN h = DOMAIN f \cup {x} /\ \A k \in DOMAIN f : h[k] = f[k]
    BY <2>6, <2>7
  <2>9. Total(h) = Total(f) + h[x]
    BY SMTT(60), <2>4, <2>5, <2>8, TotalAdds
  <2> QED BY <2>7, <2>9
<1>5. h[m + 1] = g[m + 1] /\ g[m + 1] \in Nat
  OBVIOUS
<1> QED
  <2> HIDE DEF h
  <2> QED BY <1>2, <1>3, <1>4, <1>5

\* The sum of what the cabinets and the Binary rows of a sound package need.
LEMMA ExpandsTerms ==
  ASSUME NEW p, IsPackage(p), KnownTo(p, Len(p.media) + 1)
  PROVE  /\ \A i \in 1 .. Len(p.media) : Cabinet(p, i).expands \in Nat
         /\ \A b \in 1 .. Len(p.binary) : Size(p.binary[b].payload) \in Nat
         /\ Expands(p) = Total([i \in 1 .. Len(p.media) |-> Cabinet(p, i).expands])
                           + Total([b \in 1 .. Len(p.binary) |-> Size(p.binary[b].payload)])
<1>1. Len(p.media) \in Nat /\ DOMAIN p.media = 1 .. Len(p.media) /\ DOMAIN p.binary = 1 .. Len(p.binary)
  BY PackageMedia, PackageBinary
<1>2. ASSUME NEW i \in 1 .. Len(p.media) PROVE Cabinet(p, i).expands \in Nat
  <2>1. i \in 1 .. (Len(p.media) + 1) - 1
    BY <1>1
  <2>2. p.media[i].cabinet \in DOMAIN p.streams
    BY <2>1 DEF KnownTo
  <2> QED BY <2>2, PackageCabinet DEF CabinetStream
<1>3. \A b \in 1 .. Len(p.binary) : Size(p.binary[b].payload) \in Nat
  BY PackageBinary, SizeNat
<1>4. Expands(p) = Total([i \in 1 .. Len(p.media) |-> Cabinet(p, i).expands])
                           + Total([b \in 1 .. Len(p.binary) |-> Size(p.binary[b].payload)])
  BY <1>1 DEF Expands, Cabinet
<1> QED BY <1>2, <1>3, <1>4

\* When signing begins the package has been found sound.
LEMMA SignsSound ==
  ASSUME Preflight, BudgetInv, ReadHashes, step' # "end"
  PROVE  Sound(original)
<1>1. /\ step = "binaries" /\ db = original /\ IsPackage(original) /\ binaries \in Nat
      /\ binaries = Len(db.binary) /\ ~(\E i \in 1 .. Len(db.hash) : db.hash[i].options # 0)
  <2>1. step = "binaries" /\ binaries = Len(db.binary) /\ ~(\E i \in 1 .. Len(db.hash) : db.hash[i].options # 0)
    BY DEF ReadHashes, Invalid, Leave, Goto
  <2> QED BY <2>1, OriginalFacts DEF Preflight, Types
<1>2. /\ MediaSound(original) /\ FilesSound(original)
      /\ \A i \in 1 .. Len(original.media) : CabinetSound(original, i)
      /\ \A i, k \in 1 .. Len(original.media) : NamesApart(original, i, k)
      /\ RowsSound(original)
  <2>1. \A i : Read(i)
    BY <1>1 DEF Read
  <2> QED BY <1>1, <2>1 DEF Preflight, SoundInv, Cabs
<1>3. \A r \in 1 .. Len(original.hash) : original.hash[r].options = 0
  BY <1>1
<1>4. Start(original, Len(original.media) + 1) + Len(original.binary) <= MemberLimit
  <2>1. Len(work) = Start(original, Cabs + 1) + binaries
    BY <1>1 DEF Preflight, WorkInv
  <2>2. Len(work) <= MemberLimit
    BY DEF BudgetInv
  <2> QED BY <1>1, <2>1, <2>2 DEF Cabs
<1>5. Expands(original) <= ExpansionLimit
  <2>1. ReadCabs = Len(original.media) /\ binaries = Len(original.binary)
    BY <1>1 DEF ReadCabs, Cabs
  <2>2. KnownTo(original, Len(original.media) + 1)
    BY <1>1, KnownCabinets DEF Cabs
  <2>3. expanded = Total([i \in 1 .. Len(original.media) |-> Cabinet(original, i).expands])
                     + Total([b \in 1 .. Len(original.binary) |-> Size(original.binary[b].payload)])
    BY <1>1, <2>1, Accounted
  <2>4. Expands(original) = expanded
    BY <1>1, <2>2, <2>3, ExpandsTerms
  <2> QED BY <2>4 DEF BudgetInv
<1>6. Preflighted(original)
  BY <1>2, <1>3, <1>4, <1>5 DEF Preflighted
<1> QED BY <1>1, <1>6, PreflightedSound

-----------------------------------------------------------------------------
\* No sound package is refused.

\* Its Media table is accepted,
LEMMA MediaAccepted ==
  ASSUME Preflight, Preflighted(original), ReadMedia
  PROVE  step' # "end"
<1>1. step = "media"
  BY DEF ReadMedia, Invalid, Leave, Goto
<1>2. IsPackage(original) /\ db = original
  BY <1>1, OriginalFacts DEF Preflight, Types
<1>3. Len(original.media) \in Nat /\ \A i \in 1 .. Len(original.media) : original.media[i].last \in Int
  BY <1>2, PackageMedia
<1>4. MediaSound(original)
  BY DEF Preflighted
<1>5. ASSUME NEW i \in 1 .. Len(original.media) PROVE ~(original.media[i].last < Previous(i))
  <2>1. Previous(i) = LastBefore(original, i)
    BY <1>2 DEF Previous, LastBefore
  <2>2. LastBefore(original, i) \in Int
    <3>1. i # 1 => i - 1 \in 1 .. Len(original.media)
      BY <1>3
    <3> QED BY <1>3, <3>1 DEF LastBefore
  <2>3. original.media[i].last >= LastBefore(original, i)
    BY <1>4 DEF MediaSound
  <2> QED BY <1>3, <2>1, <2>2, <2>3
<1>6. ~MediaInvalid
  BY <1>2, <1>4, <1>5 DEF MediaInvalid, MediaSound
<1> QED BY <1>6 DEF ReadMedia, Goto

\* so is its File table,
LEMMA FilesAccepted ==
  ASSUME Preflight, Preflighted(original), ReadFiles
  PROVE  step' # "end"
<1>1. step = "files"
  BY DEF ReadFiles, Invalid, Leave, Goto
<1>2. IsPackage(original) /\ db = original
  BY <1>1, OriginalFacts DEF Preflight, Types
<1>3. \A r \in 1 .. Len(original.file) : original.file[r].sequence \in Int /\ original.file[r].size \in Int
  BY <1>2, PackageFile
<1>4. FilesSound(original)
  BY DEF Preflighted
<1>5. \A r \in 1 .. Len(original.file) : ~(original.file[r].sequence <= 0) /\ ~(original.file[r].size < 0)
  BY <1>3, <1>4 DEF FilesSound
<1>6. ~FilesInvalid
  BY <1>2, <1>4, <1>5 DEF FilesInvalid, FilesSound
<1> QED BY <1>6 DEF ReadFiles, Goto

\* Before the cabinets have all been read there is room for the next one.
LEMMA CabinetFits ==
  ASSUME Preflight, BudgetInv, Preflighted(original), step = "cabinets", NEW i \in 1 .. Cabs, i = at[1]
  PROVE  /\ Len(MembersOf(original, i)) <= MemberLimit - Len(work)
         /\ Cabinet(original, i).expands <= ExpansionLimit - expanded
<1>1. IsPackage(original) /\ Cabs \in Nat /\ Cabs = Len(original.media) /\ binaries = 0 /\ ReadCabs = i - 1
  BY OriginalFacts DEF Preflight, PlaceInv, Cabs, ReadCabs
<1>2. \A k \in 1 .. Cabs : original.media[k].cabinet \in DOMAIN original.streams
  BY <1>1 DEF Preflighted, CabinetSound
<1>3. KnownTo(original, Cabs + 1) /\ KnownTo(original, i)
  BY <1>1, <1>2 DEF KnownTo
<1>4. Len(MembersOf(original, i)) \in Nat /\ Len(original.binary) \in Nat
  BY <1>1, <1>2, PackageCabinet, PackageBinary
<1>5. Len(work) = Start(original, i)
  BY DEF Preflight, WorkInv
<1>6. /\ Start(original, i) \in Nat /\ Start(original, Cabs + 1) \in Nat
      /\ Start(original, i) + Len(MembersOf(original, i)) <= Start(original, Cabs + 1)
  <2>1. i \in 1 .. Len(original.media) + 1 /\ Cabs + 1 \in 1 .. Len(original.media) + 1 /\ i < Cabs + 1
    BY <1>1
  <2> QED BY <1>1, <1>3, <2>1, StartNat, StartGrows
<1>7. Start(original, Cabs + 1) + Len(original.binary) <= MemberLimit
  BY <1>1 DEF Preflighted
<1>8. Len(MembersOf(original, i)) <= MemberLimit - Len(work)
  BY <1>4, <1>5, <1>6, <1>7, LimitsAssumption
<1> DEFINE f == [k \in 1 .. i - 1 |-> Cabinet(original, k).expands]
           g == [k \in 1 .. Cabs |-> Cabinet(original, k).expands]
           d == [b \in 1 .. Len(original.binary) |-> Size(original.binary[b].payload)]
<1>9. /\ \A k \in 1 .. Cabs : Cabinet(original, k).expands \in Nat
      /\ \A b \in 1 .. Len(original.binary) : Size(original.binary[b].payload) \in Nat
      /\ Expands(original) = Total(g) + Total(d)
  BY <1>1, <1>3, ExpandsTerms
<1>10. expanded = Total(f)
  <2>1. expanded = Total(f) + Total([b \in 1 .. binaries |-> Size(original.binary[b].payload)])
    BY <1>1, Accounted
  <2>2. Total([b \in 1 .. binaries |-> Size(original.binary[b].payload)]) = 0
    <3>1. DOMAIN [b \in 1 .. binaries |-> Size(original.binary[b].payload)] = {}
      BY <1>1
    <3> QED BY <3>1, TotalNone
  <2>3. Total(f) \in Nat
    <3>1. i - 1 \in Nat /\ i - 1 <= Cabs /\ DOMAIN f = 1 .. i - 1 /\ DOMAIN g = 1 .. Cabs
      BY <1>1
    <3>2. (\A k \in 1 .. Cabs : g[k] \in Nat) /\ \A k \in 1 .. i - 1 : f[k] = g[k]
      BY <1>1, <1>9
    <3> HIDE DEF f, g
    <3> QED BY <1>1, <3>1, <3>2, TotalPart
  <2> HIDE DEF f
  <2> QED BY <2>1, <2>2, <2>3
<1>11. Total(f) + Cabinet(original, i).expands <= Total(g) /\ Total(f) \in Nat /\ Total(g) \in Nat
  <2>1. PICK m \in Nat : m = i - 1 /\ m < Cabs /\ m + 1 = i
    BY <1>1
  <2>2. DOMAIN f = 1 .. m /\ DOMAIN g = 1 .. Cabs
    BY <2>1
  <2>3. \A k \in 1 .. Cabs : g[k] \in Nat
    BY <1>9
  <2>4. \A k \in 1 .. m : f[k] = g[k]
    BY <1>1, <2>1
  <2>5. g[m + 1] = Cabinet(original, i).expands
    BY <2>1
  <2> HIDE DEF f, g
  <2>6. Cabs \in Nat /\ m < Cabs
    BY <1>1, <2>1
  <2>7. Total(f) \in Nat /\ Total(g) \in Nat /\ Total(f) + g[m + 1] <= Total(g)
    BY <2>2, <2>3, <2>4, <2>6, TotalPartNext
  <2> QED BY <2>5, <2>7
<1>12. Total(d) \in Nat
  <2>1. DOMAIN d = 1 .. Len(original.binary) /\ \A b \in 1 .. Len(original.binary) : d[b] \in Nat
    BY <1>9
  <2> HIDE DEF d
  <2> QED BY <1>4, <2>1, TotalPart
<1>13. Expands(original) <= ExpansionLimit
  BY DEF Preflighted
<1>14. Cabinet(original, i).expands <= ExpansionLimit - expanded
  <2>1. Cabinet(original, i).expands \in Nat
    BY <1>9
  <2> HIDE DEF f, g, d
  <2> QED BY <1>9, <1>10, <1>11, <1>12, <1>13, <2>1, LimitsAssumption
<1> QED BY <1>8, <1>14

\* each of its cabinets,
LEMMA CabinetAccepted ==
  ASSUME Preflight, BudgetInv, Preflighted(original), PreflightCabinet
  PROVE  step' # "end"
<1>0. step = "cabinets" /\ IsPackage(original) /\ Cabs \in Nat /\ Cabs = Len(original.media) /\ db = original
  <2>1. step = "cabinets"
    BY Zenon DEF PreflightCabinet
  <2> QED BY <2>1, OriginalFacts DEF Preflight, Types, Cabs
<1>1. PICK i \in 1 .. Cabs : i = at[1]
  <2>1. Len(cabinets) = Cabs /\ at[1] \in 1 .. Cabs + 1
    BY <1>0, CabinetsAre DEF Preflight, PlaceInv
  <2>2. \E k \in 1 .. Len(cabinets) : k >= at[1]
    BY Zenon DEF PreflightCabinet, Unread
  <2> QED BY <1>0, <2>1, <2>2
<1>2. cabinets[i].name = original.media[i].cabinet /\ cabinets[i].first = LastBefore(original, i) + 1
      /\ cabinets[i].last = original.media[i].last
  BY <1>0, CabinetIs
<1>3. CabinetSound(original, i)
  BY <1>0 DEF Preflighted
<1>4. /\ original.media[i].cabinet \in DOMAIN original.streams
      /\ Cabinet(original, i).regular
      /\ TotalDeclared(MembersOf(original, i)) <= Cabinet(original, i).expands
      /\ \A j \in 1 .. Len(MembersOf(original, i)) :
           Size(MembersOf(original, i)[j].payload) = MembersOf(original, i)[j].size
  BY <1>3 DEF CabinetSound
<1>5. Inspects(Cabinet(original, i))
  <2>1. \A j, k \in 1 .. Len(MembersOf(original, i)) :
          j # k => MembersOf(original, i)[j].name # MembersOf(original, i)[k].name
    <3>1. NamesApart(original, i, i)
      BY <1>0 DEF Preflighted
    <3> QED BY <3>1 DEF NamesApart
  <2>2. /\ Len(MembersOf(original, i)) <= MemberLimit - Len(work)
        /\ Cabinet(original, i).expands <= ExpansionLimit - expanded
    BY <1>0, <1>1, CabinetFits
  <2> QED BY <1>4, <2>1, <2>2 DEF Inspects, MembersOf
<1>6. Maps(i, MembersOf(original, i))
  <2> SUFFICES ASSUME NEW j \in 1 .. Len(MembersOf(original, i))
               PROVE  \E r \in 1 .. Len(db.file) :
                        /\ db.file[r].id = MembersOf(original, i)[j].name
                        /\ db.file[r].id \notin Found
                        /\ db.file[r].sequence \in cabinets[i].first .. cabinets[i].last
                        /\ db.file[r].size = MembersOf(original, i)[j].size
    BY DEF Maps
  <2>1. HasRow(original, i, MembersOf(original, i)[j])
    BY <1>3 DEF CabinetSound
  <2>2. PICK r \in 1 .. Len(original.file) :
          /\ original.file[r].id = MembersOf(original, i)[j].name
          /\ original.file[r].sequence \in LastBefore(original, i) + 1 .. original.media[i].last
          /\ original.file[r].size = MembersOf(original, i)[j].size
    BY <2>1 DEF HasRow
  <2>3. original.file[r].id \notin Found
    <3> SUFFICES ASSUME original.file[r].id \in Found PROVE FALSE
      OBVIOUS
    <3>1. PICK k \in 1 .. Cabs : Read(k) /\ \E l \in 1 .. Len(MembersOf(original, k)) :
                                   original.file[r].id = MembersOf(original, k)[l].name
      BY <1>0, FoundIs
    <3>2. PICK l \in 1 .. Len(MembersOf(original, k)) : original.file[r].id = MembersOf(original, k)[l].name
      BY <3>1
    <3>3. k < i
      BY <1>0, <1>1, <3>1 DEF Read
    <3>4. NamesApart(original, i, k)
      BY <1>0 DEF Preflighted
    <3>5. i = k
      BY <2>2, <3>2, <3>4 DEF NamesApart
    <3> QED BY <1>0, <3>3, <3>5
  <2> QED BY <1>0, <1>2, <2>2, <2>3
<1>7. SizesHold(MembersOf(original, i))
  BY <1>4 DEF SizesHold
<1>8. PICK stream : stream = Cabinet(original, i) /\ stream = db.streams[cabinets[i].name]
  BY <1>0, <1>2 DEF Cabinet
<1>9. /\ Inspects(stream) /\ Maps(i, stream.members) /\ FdiExtracts(stream.members)
      /\ GcabExtracts(stream.members) /\ SizesHold(stream.members)
      /\ cabinets[i].name \in DOMAIN db.streams
  BY Zenon, <1>0, <1>2, <1>4, <1>5, <1>6, <1>7, <1>8 DEF MembersOf, FdiExtracts, GcabExtracts
<1> QED BY Zenon, <1>1, <1>8, <1>9 DEF PreflightCabinet, Goto

\* the set of its File rows,
LEMMA RowsAccepted ==
  ASSUME Preflight, Preflighted(original), CheckRows
  PROVE  step' # "end"
<1>1. step = "cabinets" /\ Unread = {}
  BY DEF CheckRows, Invalid, Leave, Goto
<1>2. IsPackage(original) /\ db = original /\ Cabs \in Nat
  BY <1>1, OriginalFacts DEF Preflight, Types
<1>3. Len(cabinets) = Cabs /\ at[1] \in 1 .. Cabs + 1
  BY <1>1, CabinetsAre DEF Preflight, PlaceInv
<1>4. \A i \in 1 .. Cabs : Read(i)
  <2>1. ~(at[1] \in 1 .. Cabs)
    BY <1>1, <1>3 DEF Unread
  <2>2. at[1] = Cabs + 1
    BY <1>2, <1>3, <2>1
  <2> QED BY <1>1, <1>2, <2>2 DEF Read
<1>5. \A r \in 1 .. Len(original.file) : original.file[r].id \in Found
  <2> SUFFICES ASSUME NEW r \in 1 .. Len(original.file) PROVE original.file[r].id \in Found
    OBVIOUS
  <2>1. \E i \in 1 .. Cabs : \E j \in 1 .. Len(MembersOf(original, i)) :
          original.file[r].id = MembersOf(original, i)[j].name
    BY DEF Preflighted, RowsSound, Cabs
  <2> QED BY <1>1, <1>4, <2>1, FoundIs
<1> QED BY <1>2, <1>5 DEF CheckRows, Goto

\* each of its Binary rows,
LEMMA BinaryAccepted ==
  ASSUME Preflight, BudgetInv, Preflighted(original), PreflightBinary
  PROVE  step' # "end"
<1>0. step = "binaries" /\ IsPackage(original) /\ Cabs \in Nat /\ Cabs = Len(original.media)
      /\ Bins = Len(original.binary) /\ Bins \in Nat /\ binaries \in Nat /\ expanded \in Nat
      /\ db = original /\ binaries < Bins
  <2>1. step = "binaries" /\ binaries < Len(db.binary)
    BY DEF PreflightBinary
  <2> QED BY <2>1, OriginalFacts DEF Preflight, Types, Cabs, Bins
<1>1. Len(work) = Start(original, Cabs + 1) + binaries /\ Start(original, Cabs + 1) \in Nat
  <2>1. Cabs + 1 \in 1 .. Cabs + 1
    BY <1>0
  <2> QED BY <1>0, <2>1, Places DEF Preflight, WorkInv
<1>2. Start(original, Cabs + 1) + Bins <= MemberLimit
  BY <1>0 DEF Preflighted
<1>3. ~(Len(work) >= MemberLimit)
  BY <1>0, <1>1, <1>2, LimitsAssumption
<1> DEFINE f == [k \in 1 .. binaries |-> Size(original.binary[k].payload)]
           g == [k \in 1 .. Bins |-> Size(original.binary[k].payload)]
           c == [k \in 1 .. Cabs |-> Cabinet(original, k).expands]
<1>4. /\ \A k \in 1 .. Cabs : Cabinet(original, k).expands \in Nat
      /\ \A b \in 1 .. Bins : Size(original.binary[b].payload) \in Nat
      /\ Expands(original) = Total(c) + Total(g)
  BY <1>0, KnownCabinets, ExpandsTerms
<1>5. expanded = Total(c) + Total(f)
  <2>1. ReadCabs = Cabs
    BY <1>0 DEF ReadCabs
  <2> QED BY <1>0, <2>1, Accounted
<1>6. Total(f) + Size(original.binary[binaries + 1].payload) <= Total(g) /\ Total(f) \in Nat /\ Total(g) \in Nat
  <2>1. PICK m \in Nat : m = binaries /\ m < Bins
    BY <1>0
  <2>2. DOMAIN f = 1 .. m /\ DOMAIN g = 1 .. Bins
    BY <2>1
  <2>3. \A k \in 1 .. Bins : g[k] \in Nat
    BY <1>4
  <2>4. \A k \in 1 .. m : f[k] = g[k]
    BY <1>0, <2>1
  <2>5. g[m + 1] = Size(original.binary[binaries + 1].payload)
    BY <1>0, <2>1
  <2> HIDE DEF f, g
  <2>6. Total(f) \in Nat /\ Total(g) \in Nat /\ Total(f) + g[m + 1] <= Total(g)
    BY ZenonT(60), <1>0, <2>1, <2>2, <2>3, <2>4, TotalPartNext
  <2> QED BY <2>5, <2>6
<1>7. Total(c) \in Nat
  <2>1. DOMAIN c = 1 .. Cabs /\ \A b \in 1 .. Cabs : c[b] \in Nat
    BY <1>4
  <2> HIDE DEF c
  <2> QED BY <1>0, <2>1, TotalPart
<1>8. Expands(original) <= ExpansionLimit
  BY DEF Preflighted
<1>9. Size(original.binary[binaries + 1].payload) <= ExpansionLimit - expanded
  <2>1. Size(original.binary[binaries + 1].payload) \in Nat
    BY <1>0, <1>4
  <2>2. PICK x \in Nat, y \in Nat, z \in Nat, u \in Nat :
          x = Total(c) /\ y = Total(f) /\ z = Total(g) /\ u = Size(original.binary[binaries + 1].payload)
    BY <1>6, <1>7, <2>1
  <2> HIDE DEF c, f, g
  <2>3. expanded = x + y /\ y + u <= z /\ x + z <= ExpansionLimit
    BY <1>4, <1>5, <1>6, <1>8, <2>2
  <2>4. u <= ExpansionLimit - (x + y)
    BY <2>3, LimitsAssumption
  <2> QED BY <2>2, <2>3, <2>4
<1>10. ~NoRoom(db.binary[binaries + 1].payload)
  <2>1. Size(original.binary[binaries + 1].payload) \in Nat
    BY <1>0, <1>4
  <2> QED BY <1>0, <1>3, <1>9, <2>1, LimitsAssumption DEF NoRoom, TooLong
<1> QED BY <1>10 DEF PreflightBinary, Goto

\* and its hashes.
LEMMA HashesAccepted ==
  ASSUME Preflight, Preflighted(original), ReadHashes
  PROVE  step' # "end"
<1>1. step = "binaries"
  BY DEF ReadHashes, Invalid, Leave, Goto
<1>2. db = original
  BY <1>1 DEF Preflight, Types
<1>3. ~(\E i \in 1 .. Len(db.hash) : db.hash[i].options # 0)
  BY <1>2 DEF Preflighted
<1> QED BY <1>3 DEF ReadHashes, Goto

-----------------------------------------------------------------------------

\* The inductive invariant with the verdict of the preflight.
SoundSafe ==
  /\ BudgetSafe
  /\ step = "sign" => Sound(original)
  /\ step = "end" => PreflightFirst

\* Every step keeps it.
LEMMA SoundStep ==
  ASSUME SoundSafe, [RewriteNext]_rewriteVars
  PROVE  SoundSafe'
<1>1. BudgetSafe /\ BudgetSafe' /\ RunningInv
  BY BudgetStep DEF SoundSafe, BudgetSafe
<1>2. CASE step = "end"
  <2>1. UNCHANGED <<original, calls, step, outcome>>
    BY <1>2, EndStays DEF rewriteVars, input
  <2>2. Sound(original)' = Sound(original')
    OBVIOUS
  <2> QED BY <1>1, <1>2, <2>1 DEF SoundSafe, PreflightFirst
<1>3. CASE step # "end"
  <2>0. Preflight /\ BudgetInv /\ (step = "sign" => Signing) /\ (step = "sign" => Sound(original))
    BY <1>1, <1>3 DEF SoundSafe, BudgetSafe, RunningInv
  <2>1. IsPackage(original) /\ calls \in Nat /\ (step # "sign" => calls = 0) /\ outcome = "running"
    BY <2>0, OriginalFacts DEF Preflight, Types
  <2>2. CASE step' = "end"
    <3>1. original' = original
      BY <1>3, <2>2, Ending DEF Invalid, Leave, Commit, ReturnUnchanged, Return, CommitFails, Fail, CallbackThrows, input
    <3>2. ASSUME calls' > 0 \/ outcome' = "done" PROVE Sound(original)
      <4>1. step = "sign"
        BY <1>3, <2>1, <2>2, <3>2, Ending DEF Invalid, Leave, Commit, ReturnUnchanged, AllDone, CommitFails, Fail, CallbackThrows
      <4> QED BY <2>0, <4>1
    <3>3. ASSUME outcome' = "rejected", calls' = 0, Sound(original) PROVE FALSE
      <4>1. Preflighted(original)
        BY <2>1, <3>3, SoundPreflighted
      <4>2. ~ReadMedia /\ ~ReadFiles /\ ~PreflightCabinet /\ ~CheckRows /\ ~PreflightBinary /\ ~ReadHashes
        BY <2>0, <2>2, <4>1, MediaAccepted, FilesAccepted, CabinetAccepted, RowsAccepted, BinaryAccepted, HashesAccepted
      <4>3. ~SignPayload
        BY <2>1, <3>3 DEF SignPayload
      <4>4. ~Commit /\ ~ReturnUnchanged /\ ~CommitFails /\ ~Fail /\ ~CallbackThrows
        BY <3>3 DEF Commit, ReturnUnchanged, Return, CommitFails, Fail, CallbackThrows, Leave
      <4> QED BY <1>3, <2>2, <4>2, <4>3, <4>4, Ending
    <3>4. PreflightFirst'
      BY <3>1, <3>2, <3>3 DEF PreflightFirst
    <3> QED BY <1>1, <2>2, <3>4 DEF SoundSafe
  <2>3. CASE step' # "end"
    <3>1. original' = original
      BY Zenon, <1>3, <2>3, GoingOn DEF rewriteVars, ReadMedia, ReadFiles, PreflightCabinet, CheckRows, PreflightBinary,
         ReadHashes, SkipPayload, PreservePayload, SignPayload, FinishCabinet, Invalid, Leave, Goto, input
    <3>2. ASSUME step' = "sign" PROVE Sound(original)
      <4>1. step = "sign" \/ ReadHashes
        BY <1>3, <2>3, <3>2, GoingOn DEF rewriteVars, ReadMedia, ReadFiles, PreflightCabinet, CheckRows, PreflightBinary,
           SkipPayload, PreservePayload, SignPayload, FinishCabinet, Invalid, Leave, Goto
      <4> QED BY <2>0, <2>3, <4>1, SignsSound
    <3> QED BY <1>1, <2>3, <3>1, <3>2 DEF SoundSafe
  <2> QED BY <2>2, <2>3
<1> QED BY <1>2, <1>3

\* For every set of installers and all limits: when the first file is signed the whole
\* installer has been found in order, and one that is refused before that is not in order.
THEOREM PreflightIsFirst == RewriteSpec => []PreflightFirst
<1>1. RewriteInit => SoundSafe
  BY RunningInit, BudgetInit DEF SoundSafe, BudgetSafe, RewriteInit
<1>2. SoundSafe /\ [RewriteNext]_rewriteVars => SoundSafe'
  BY SoundStep
<1>3. SoundSafe => PreflightFirst
  <2> SUFFICES ASSUME SoundSafe PROVE PreflightFirst
    OBVIOUS
  <2>1. CASE step = "end"
    BY <2>1 DEF SoundSafe
  <2>2. CASE step # "end"
    <3>1. Preflight
      BY <2>2 DEF SoundSafe, BudgetSafe, RunningInv
    <3>2. outcome = "running" /\ calls \in Nat /\ (step # "sign" => calls = 0)
      BY <3>1 DEF Preflight, Types
    <3> QED BY <3>2 DEF SoundSafe, PreflightFirst
  <2> QED BY <2>1, <2>2
<1> QED
  BY <1>1, <1>2, <1>3, PTL DEF RewriteSpec

-----------------------------------------------------------------------------
\* The package that is committed.

\* What a commit makes of the database.
Committed(p) ==
  /\ DOMAIN p = {"storages", "compressed", "code", "media", "file", "streams", "binary", "hash"}
  /\ p.code = "renewed"
  /\ p.storages = original.storages /\ p.compressed = original.compressed /\ p.media = original.media
  /\ p.file = db.file /\ p.streams = db.streams /\ p.binary = db.binary /\ p.hash = db.hash

\* Its cabinets hold the treated payloads, and need no more than is accounted for.
LEMMA FinalCabinet ==
  ASSUME Preflight, Signing, AllDone, NEW p, Committed(p), NEW i \in 1 .. Cabs
  PROVE  /\ p.media[i].cabinet \in DOMAIN p.streams
         /\ Cabinet(p, i) \in CabinetStream
         /\ Cabinet(p, i).regular
         /\ Len(MembersOf(p, i)) = Len(MembersOf(original, i))
         /\ \A j \in 1 .. Len(MembersOf(original, i)) :
              /\ MembersOf(p, i)[j].name = MembersOf(original, i)[j].name
              /\ MembersOf(p, i)[j].size = Size(Treated(OldPayload(i, j)))
              /\ MembersOf(p, i)[j].payload = Treated(OldPayload(i, j))
         /\ TotalDeclared(MembersOf(p, i)) <= Cabinet(p, i).expands
         /\ Cabinet(p, i).expands \in Nat /\ Cabinet(p, i).expands <= Spent(i)
<1>0. step = "sign" /\ IsPackage(original) /\ Read(i)
  BY AllPassed, OriginalFacts DEF Preflight, Read
<1>1. /\ original.media[i].cabinet \in DOMAIN original.streams
      /\ Len(MembersOf(original, i)) \in Nat
      /\ MembersOf(original, i) \in Seq(CabinetMember)
  BY <1>0, ReadMembers
<1>2. /\ Cabinet(original, i) \in CabinetStream
      /\ DOMAIN MembersOf(original, i) = 1 .. Len(MembersOf(original, i))
      /\ \A j \in 1 .. Len(MembersOf(original, i)) : MembersOf(original, i)[j] \in CabinetMember
  BY <1>0, <1>1, PackageCabinet DEF Cabs
<1>3. p.media[i].cabinet = original.media[i].cabinet /\ p.media[i].cabinet \in DOMAIN p.streams
      /\ Cabinet(p, i) = db.streams[original.media[i].cabinet]
  BY <1>1 DEF Committed, Signing, StreamsInv, Cabinet
<1>4. /\ Cabinet(original, i).expands \in Nat /\ OldSizes(i) \in Nat /\ NowSizes(i) \in Nat
      /\ OldSizes(i) <= Cabinet(original, i).expands
      /\ OldSizes(i) = TotalDeclared(MembersOf(original, i))
  BY <1>0, SpentFacts
<1>5. ASSUME NEW j \in 1 .. Len(MembersOf(original, i))
      PROVE  /\ OldPayload(i, j) \in PayloadFiles /\ Treated(OldPayload(i, j)) \in PayloadFiles
             /\ Size(Treated(OldPayload(i, j))) \in Nat
             /\ Now(Place(i, j), OldPayload(i, j)) = Treated(OldPayload(i, j))
             /\ Treated(OldPayload(i, j)) = OldPayload(i, j) <=> ~Unsigned(OldPayload(i, j))
  BY <1>0, OldPayloads, TreatedFacts, AllPassed
<1>6. NowSizes(i) = TotalSize([j \in 1 .. Len(MembersOf(original, i)) |-> Treated(OldPayload(i, j))])
  <2>1. [j \in 1 .. Len(MembersOf(original, i)) |-> Now(Place(i, j), OldPayload(i, j))]
          = [j \in 1 .. Len(MembersOf(original, i)) |-> Treated(OldPayload(i, j))]
    BY <1>5
  <2> QED BY <2>1 DEF NowSizes
<1>7. CabinetSound(original, i)
  BY <1>0 DEF Preflight, SoundInv
<1>8. CASE Finished(i)
  <2>1. Cabinet(p, i) = RebuiltStream(i)
    BY <1>3, <1>8 DEF Signing, StreamsInv
  <2>2. PICK s : s = RebuiltStream(i)
    OBVIOUS
  <2>3. PICK n \in Nat : n = Len(MembersOf(original, i))
    BY <1>1
  <2>4. /\ Len(s.members) = n /\ DOMAIN s.members = 1 .. n /\ s.regular = TRUE /\ s.expands = NowSizes(i)
        /\ \A j \in 1 .. n :
             /\ s.members[j].name = MembersOf(original, i)[j].name
             /\ s.members[j].size = Size(Treated(OldPayload(i, j)))
             /\ s.members[j].payload = Treated(OldPayload(i, j))
    BY <1>0, <1>6, <2>2, <2>3, RebuiltMembers
  <2>5. s \in CabinetStream
    <3>1. s.members \in Seq(CabinetMember)
      <4> DEFINE M == [j \in 1 .. n |-> [name |-> MembersOf(original, i)[j].name,
                              size |-> Size(Treated(OldPayload(i, j))),
                              meta |-> MembersOf(original, i)[j].meta, payload |-> Treated(OldPayload(i, j))]]
      <4>1. s.members = M
        BY <2>2, <2>3 DEF RebuiltStream
      <4>2. \A j \in 1 .. n : MembersOf(original, i)[j].name \in STRING /\ MembersOf(original, i)[j].meta \in STRING
        BY <1>2, <2>3 DEF CabinetMember
      <4>3. \A j \in 1 .. n : M[j] \in CabinetMember
        BY <1>5, <2>3, <4>2 DEF CabinetMember
      <4>4. DOMAIN M = 1 .. n /\ M = [j \in 1 .. n |-> M[j]]
        OBVIOUS
      <4> HIDE DEF M
      <4> QED BY <4>1, <4>3, <4>4, FunctionSeq
    <3>2. s = [regular |-> TRUE, made |-> "mszip", expands |-> NowSizes(i), members |-> s.members]
      BY <1>6, <2>2 DEF RebuiltStream
    <3>3. PICK e \in Nat, M \in Seq(CabinetMember) : e = NowSizes(i) /\ M = s.members
      BY <1>4, <3>1
    <3>4. s = [regular |-> TRUE, made |-> "mszip", expands |-> e, members |-> M]
      BY <3>2, <3>3
    <3> QED BY <3>4 DEF CabinetStream
  <2>6. TotalDeclared(s.members) = NowSizes(i)
    <3> DEFINE f == [k \in DOMAIN s.members |-> s.members[k].size]
               t == [j \in 1 .. n |-> Treated(OldPayload(i, j))]
               g == [k \in DOMAIN t |-> Size(t[k])]
    <3>1. DOMAIN f = 1 .. n /\ DOMAIN g = 1 .. n /\ \A k \in 1 .. n : f[k] = g[k]
      BY <2>4
    <3>2. Total(f) = Total(g)
      <4> HIDE DEF f, g
      <4> QED BY <3>1, TotalSame
    <3>3. NowSizes(i) = TotalSize(t)
      BY <1>6, <2>3
    <3>4. TotalSize(t) = Total(g) /\ TotalDeclared(s.members) = Total(f)
      BY DEF TotalSize, TotalDeclared
    <3> HIDE DEF f, g, t
    <3> QED BY <3>2, <3>3, <3>4
  <2>7. NowSizes(i) <= Spent(i)
    BY <1>4 DEF Spent
  <2>8. MembersOf(p, i) = s.members /\ Cabinet(p, i) = s
    BY <2>1, <2>2 DEF MembersOf
  <2> QED BY <1>3, <1>4, <2>3, <2>4, <2>5, <2>6, <2>7, <2>8
<1>9. CASE ~Finished(i)
  <2>1. Cabinet(p, i) = Cabinet(original, i)
    <3>1. \A k \in 1 .. Cabs : original.media[k].cabinet = original.media[i].cabinet => k = i
      BY <1>0 DEF Preflight, SoundInv, MediaSound, Cabs
    <3>2. \A k \in 1 .. Cabs : original.media[k].cabinet = original.media[i].cabinet => ~Finished(k)
      BY <1>9, <3>1
    <3>3. db.streams[original.media[i].cabinet] = original.streams[original.media[i].cabinet]
      BY <1>1, <3>2 DEF Signing, StreamsInv
    <3> QED BY <1>3, <3>3 DEF Cabinet
  <2>2. \A j \in 1 .. Len(MembersOf(original, i)) : ~Unsigned(OldPayload(i, j))
    BY <1>9, AllPassed
  <2>3. MembersOf(p, i) = MembersOf(original, i)
    BY <2>1 DEF MembersOf
  <2>4. ASSUME NEW j \in 1 .. Len(MembersOf(original, i))
        PROVE  /\ MembersOf(p, i)[j].name = MembersOf(original, i)[j].name
               /\ MembersOf(p, i)[j].size = Size(Treated(OldPayload(i, j)))
               /\ MembersOf(p, i)[j].payload = Treated(OldPayload(i, j))
    <3>1. Treated(OldPayload(i, j)) = OldPayload(i, j)
      BY <1>5, <2>2
    <3>2. Size(MembersOf(original, i)[j].payload) = MembersOf(original, i)[j].size
      BY <1>7 DEF CabinetSound
    <3> QED BY <2>3, <3>1, <3>2 DEF OldPayload
  <2>5. NowSizes(i) = OldSizes(i)
    <3>1. [j \in 1 .. Len(MembersOf(original, i)) |-> Treated(OldPayload(i, j))]
            = [j \in 1 .. Len(MembersOf(original, i)) |-> OldPayload(i, j)]
      BY <1>5, <2>2
    <3> QED BY <1>6, <3>1 DEF OldSizes
  <2>6. Spent(i) = Cabinet(original, i).expands
    BY <1>4, <2>5 DEF Spent
  <2>7. Cabinet(original, i).regular /\ TotalDeclared(MembersOf(original, i)) <= Cabinet(original, i).expands
    BY <1>7 DEF CabinetSound
  <2> QED BY <1>2, <1>3, <1>4, <2>1, <2>3, <2>4, <2>6, <2>7
<1> QED BY <1>8, <1>9

\* Its File rows have the sizes of the treated payloads.
LEMMA FinalRow ==
  ASSUME Preflight, Signing, AllDone, NEW p, Committed(p), NEW r \in DOMAIN original.file
  PROVE  /\ p.file[r] \in [id: STRING, size: Int, sequence: Int, attributes: SUBSET STRING, version: BOOLEAN]
         /\ p.file[r].id = original.file[r].id /\ p.file[r].sequence = original.file[r].sequence
         /\ p.file[r].attributes = original.file[r].attributes
         /\ p.file[r].size \in Nat
         /\ \A i \in 1 .. Cabs : \A j \in 1 .. Len(MembersOf(original, i)) :
              original.file[r].id = MembersOf(original, i)[j].name => p.file[r].size = Size(Treated(OldPayload(i, j)))
<1>0. step = "sign" /\ IsPackage(original)
  BY AllPassed, OriginalFacts DEF Preflight
<1>1. DOMAIN original.file = 1 .. Len(original.file)
      /\ original.file[r] \in [id: STRING, size: Int, sequence: Int, attributes: SUBSET STRING, version: BOOLEAN]
  BY <1>0, PackageFile
<1>2. p.file[r] = [original.file[r] EXCEPT !.size = p.file[r].size]
  <2>1. db.file = [s \in DOMAIN original.file |-> [original.file[s] EXCEPT !.size = db.file[s].size]]
    BY DEF Signing, FileInv
  <2>2. db.file[r] = [original.file[r] EXCEPT !.size = db.file[r].size]
    BY <2>1
  <2> QED BY <2>2 DEF Committed
<1>3. ASSUME NEW i \in 1 .. Cabs, NEW j \in 1 .. Len(MembersOf(original, i)),
             original.file[r].id = MembersOf(original, i)[j].name
      PROVE  p.file[r].size = Size(Treated(OldPayload(i, j))) /\ p.file[r].size \in Nat
  <2>1. db.file[r].size = Size(Now(Place(i, j), OldPayload(i, j)))
    BY <1>3 DEF Signing, FileInv
  <2>2. Now(Place(i, j), OldPayload(i, j)) = Treated(OldPayload(i, j))
    BY AllPassed
  <2>3. Size(Treated(OldPayload(i, j))) \in Nat
    BY <1>0, OldPayloads, SizeNat
  <2> QED BY <2>1, <2>2, <2>3 DEF Committed
<1>4. p.file[r].size \in Nat
  <2>1. \E i \in 1 .. Cabs : \E j \in 1 .. Len(MembersOf(original, i)) :
          original.file[r].id = MembersOf(original, i)[j].name
    BY <1>0, <1>1 DEF Preflight, SoundInv, RowsSound, Cabs
  <2> QED BY <1>3, <2>1
<1>5. PICK n \in Nat : n = p.file[r].size
  BY <1>4
<1>6. p.file[r] = [original.file[r] EXCEPT !.size = n]
  BY <1>2, <1>5
<1>7. /\ p.file[r] \in [id: STRING, size: Int, sequence: Int, attributes: SUBSET STRING, version: BOOLEAN]
      /\ p.file[r].id = original.file[r].id /\ p.file[r].sequence = original.file[r].sequence
      /\ p.file[r].attributes = original.file[r].attributes
  BY <1>1, <1>6
<1> QED BY <1>3, <1>4, <1>7

\* Its MsiFileHash rows.
LEMMA FinalHash ==
  ASSUME Preflight, Signing, AllDone, NEW p, Committed(p), NEW r \in DOMAIN original.hash
  PROVE  /\ p.hash[r].options = original.hash[r].options
         /\ \A i \in 1 .. Cabs : \A j \in 1 .. Len(MembersOf(original, i)) :
              /\ original.hash[r].id = MembersOf(original, i)[j].name
              /\ Unversioned(original, original.hash[r].id)
              /\ original.hash[r].of = OldPayload(i, j)
              => p.hash[r].of = Treated(OldPayload(i, j))
<1>0. step = "sign" /\ IsPackage(original)
  BY AllPassed, OriginalFacts DEF Preflight
<1>1. original.hash[r] \in [id: STRING, options: Int, of: PayloadFiles]
  BY <1>0, PackageHash
<1>2. db.hash[r] = [original.hash[r] EXCEPT !.of = db.hash[r].of]
  <2>1. db.hash = [s \in DOMAIN original.hash |-> [original.hash[s] EXCEPT !.of = db.hash[s].of]]
    BY DEF Signing, HashInv, HashRows
  <2> QED BY <2>1
<1>3. p.hash[r].options = original.hash[r].options
  <2>1. PICK q : q = db.hash[r].of
    OBVIOUS
  <2>2. db.hash[r] = [original.hash[r] EXCEPT !.of = q]
    BY <1>2, <2>1
  <2> QED BY <1>1, <2>2 DEF Committed
<1>4. ASSUME NEW i \in 1 .. Cabs, NEW j \in 1 .. Len(MembersOf(original, i)),
             original.hash[r].id = MembersOf(original, i)[j].name,
             Unversioned(original, original.hash[r].id), original.hash[r].of = OldPayload(i, j)
      PROVE  p.hash[r].of = Treated(OldPayload(i, j))
  <2>1. db.hash[r].of = Now(Place(i, j), OldPayload(i, j))
    BY <1>4 DEF Signing, HashInv, HashRows
  <2> QED BY <2>1, AllPassed DEF Committed
<1> QED BY <1>3, <1>4

\* Its Binary rows.
LEMMA FinalBinary ==
  ASSUME Preflight, Signing, AllDone, NEW p, Committed(p)
  PROVE  /\ DOMAIN p.binary = 1 .. Bins /\ Len(p.binary) = Bins
         /\ p.binary \in Seq([name: STRING, payload: PayloadFiles])
         /\ \A b \in 1 .. Bins : p.binary[b].payload = Treated(original.binary[b].payload)
         /\ \A b \in 1 .. Bins : Size(p.binary[b].payload) = SpentBinary(b) /\ SpentBinary(b) \in Nat
         /\ \A b \in 1 .. Bins : ~Unsigned(p.binary[b].payload)
<1>0. step = "sign" /\ IsPackage(original) /\ Bins \in Nat
  BY AllPassed, OriginalFacts DEF Preflight
<1>1. ASSUME NEW b \in 1 .. Bins
      PROVE  /\ p.binary[b] \in [name: STRING, payload: PayloadFiles]
             /\ p.binary[b].payload = Treated(original.binary[b].payload)
             /\ Size(p.binary[b].payload) = SpentBinary(b) /\ SpentBinary(b) \in Nat
             /\ ~Unsigned(p.binary[b].payload)
  <2>1. original.binary[b] \in [name: STRING, payload: PayloadFiles]
    BY <1>0, PackageBinary DEF Bins
  <2>2. p.binary[b] = [original.binary[b] EXCEPT !.payload = Now(BinaryPlace(b), original.binary[b].payload)]
    BY DEF Signing, BinaryInv, Committed
  <2>3. Now(BinaryPlace(b), original.binary[b].payload) = Treated(original.binary[b].payload)
    BY AllPassed
  <2>4. PICK q \in PayloadFiles : q = Treated(original.binary[b].payload) /\ ~Unsigned(q) /\ Size(q) \in Nat
    BY <1>0, OldPayloads, TreatedFacts
  <2>5. p.binary[b] = [original.binary[b] EXCEPT !.payload = q]
    BY <2>2, <2>3, <2>4
  <2>6. p.binary[b] \in [name: STRING, payload: PayloadFiles] /\ p.binary[b].payload = q
    BY <2>1, <2>5
  <2>7. SpentBinary(b) = Size(q)
    BY <2>3, <2>4 DEF SpentBinary
  <2> QED BY <2>4, <2>6, <2>7
<1>2. PICK f : f = p.binary
  OBVIOUS
<1>3. DOMAIN f = 1 .. Bins /\ f = [b \in 1 .. Bins |-> f[b]]
  <2>1. f = [b \in 1 .. Bins |->
               [original.binary[b] EXCEPT !.payload = Now(BinaryPlace(b), original.binary[b].payload)]]
    BY <1>2 DEF Signing, BinaryInv, Committed
  <2> QED BY <2>1
<1>4. f \in Seq([name: STRING, payload: PayloadFiles]) /\ Len(f) = Bins
  <2> DEFINE R == [name: STRING, payload: PayloadFiles]
  <2>1. \A b \in 1 .. Bins : f[b] \in [name: STRING, payload: PayloadFiles]
    BY <1>1, <1>2
  <2>2. \A b \in 1 .. Bins : f[b] \in R
    BY <2>1
  <2>3. f \in Seq(R) /\ Len(f) = Bins
    <3> HIDE DEF R
    <3> QED BY <1>0, <1>3, <2>2, FunctionSeq
  <2> QED BY <2>3
<1> QED BY <1>1, <1>2, <1>3, <1>4

\* It is a package.
LEMMA FinalPackage ==
  ASSUME Preflight, Signing, AllDone, NEW p, Committed(p)
  PROVE  IsPackage(p) /\ Len(p.file) = Len(original.file) /\ Len(p.hash) = Len(original.hash)
<1>0. step = "sign" /\ IsPackage(original) /\ Cabs \in Nat
  BY AllPassed, OriginalFacts DEF Preflight
<1>1. p.file \in Seq([id: STRING, size: Int, sequence: Int, attributes: SUBSET STRING, version: BOOLEAN])
      /\ Len(p.file) = Len(original.file)
  <2>1. Len(original.file) \in Nat /\ DOMAIN original.file = 1 .. Len(original.file)
    BY <1>0, PackageFile
  <2>2. PICK f : f = p.file
    OBVIOUS
  <2>3. DOMAIN f = 1 .. Len(original.file) /\ f = [r \in 1 .. Len(original.file) |-> f[r]]
    <3>1. f = [s \in DOMAIN original.file |-> [original.file[s] EXCEPT !.size = db.file[s].size]]
      BY <2>2 DEF Signing, FileInv, Committed
    <3> QED BY <2>1, <3>1
  <2>4. \A r \in 1 .. Len(original.file) :
          f[r] \in [id: STRING, size: Int, sequence: Int, attributes: SUBSET STRING, version: BOOLEAN]
    BY <2>1, <2>2, FinalRow
  <2>5. f \in Seq([id: STRING, size: Int, sequence: Int, attributes: SUBSET STRING, version: BOOLEAN])
        /\ Len(f) = Len(original.file)
    <3> DEFINE R == [id: STRING, size: Int, sequence: Int, attributes: SUBSET STRING, version: BOOLEAN]
    <3>1. \A r \in 1 .. Len(original.file) : f[r] \in R
      BY <2>4
    <3>2. f \in Seq(R) /\ Len(f) = Len(original.file)
      <4> HIDE DEF R
      <4> QED BY <2>1, <2>3, <3>1, FunctionSeq
    <3> QED BY <3>2
  <2> QED BY <2>2, <2>5
<1>2. p.hash \in Seq([id: STRING, options: Int, of: PayloadFiles]) /\ Len(p.hash) = Len(original.hash)
  <2>1. /\ Len(original.hash) \in Nat /\ DOMAIN original.hash = 1 .. Len(original.hash)
        /\ \A r \in 1 .. Len(original.hash) : original.hash[r] \in [id: STRING, options: Int, of: PayloadFiles]
    BY <1>0, PackageHash
  <2>2. PICK f : f = p.hash
    OBVIOUS
  <2>3. DOMAIN f = 1 .. Len(original.hash) /\ f = [r \in 1 .. Len(original.hash) |-> f[r]]
        /\ \A r \in 1 .. Len(original.hash) : f[r] = [original.hash[r] EXCEPT !.of = f[r].of]
    <3>1. f = [s \in DOMAIN original.hash |-> [original.hash[s] EXCEPT !.of = f[s].of]]
      BY <2>2 DEF Signing, HashInv, HashRows, Committed
    <3> QED BY <2>1, <3>1
  <2>4. ASSUME NEW r \in 1 .. Len(original.hash) PROVE f[r] \in [id: STRING, options: Int, of: PayloadFiles]
    <3>1. f[r].of \in PayloadFiles
      BY <2>1, <2>2 DEF Signing, HashInv, HashTypes, Committed
    <3>2. PICK q \in PayloadFiles : q = f[r].of
      BY <3>1
    <3>3. f[r] = [original.hash[r] EXCEPT !.of = q]
      BY <2>3, <3>2
    <3> QED BY <2>1, <3>3
  <2>5. f \in Seq([id: STRING, options: Int, of: PayloadFiles]) /\ Len(f) = Len(original.hash)
    <3> DEFINE R == [id: STRING, options: Int, of: PayloadFiles]
    <3>1. \A r \in 1 .. Len(original.hash) : f[r] \in R
      BY <2>4
    <3>2. f \in Seq(R) /\ Len(f) = Len(original.hash)
      <4> HIDE DEF R
      <4> QED BY ZenonT(60), <2>1, <2>3, <3>1, FunctionSeq
    <3> QED BY <3>2
  <2> QED BY <2>2, <2>5
<1>3. ASSUME NEW c \in DOMAIN p.streams PROVE p.streams[c] \in CabinetStream
  <2>1. c \in DOMAIN original.streams /\ p.streams[c] = db.streams[c]
    BY DEF Committed, Signing, StreamsInv
  <2>2. CASE \E i \in 1 .. Cabs : original.media[i].cabinet = c /\ Finished(i)
    <3>1. PICK i \in 1 .. Cabs : original.media[i].cabinet = c
      BY <2>2
    <3>2. Cabinet(p, i) \in CabinetStream
      BY FinalCabinet
    <3> QED BY <3>1, <3>2 DEF Cabinet, Committed
  <2>3. CASE ~(\E i \in 1 .. Cabs : original.media[i].cabinet = c /\ Finished(i))
    <3>1. db.streams[c] = original.streams[c]
      BY <2>1, <2>3 DEF Signing, StreamsInv
    <3>2. original.streams[c] \in CabinetStream
      BY <1>0, <2>1 DEF IsPackage
    <3> QED BY <2>1, <3>1, <3>2
  <2> QED BY <2>2, <2>3
<1>4. p.binary \in Seq([name: STRING, payload: PayloadFiles])
  BY FinalBinary
<1>5. p.media \in Seq([cabinet: STRING, last: Int, embedded: BOOLEAN])
      /\ p.storages \in BOOLEAN /\ p.compressed \in BOOLEAN /\ p.code \in {"given", "renewed"}
      /\ DOMAIN p = {"storages", "compressed", "code", "media", "file", "streams", "binary", "hash"}
  BY <1>0 DEF IsPackage, Committed
<1>6. IsPackage(p)
  BY <1>1, <1>2, <1>3, <1>4, <1>5 DEF IsPackage
<1> QED BY <1>1, <1>2, <1>6

\* What it needs fits.
LEMMA FinalFits ==
  ASSUME Preflight, Signing, AllDone, BudgetInv, NEW p, Committed(p)
  PROVE  /\ Start(p, Len(p.media) + 1) + Len(p.binary) <= MemberLimit
         /\ Expands(p) <= ExpansionLimit
<1>0. step = "sign" /\ IsPackage(original) /\ Cabs \in Nat /\ Bins \in Nat /\ Cabs = Len(original.media)
      /\ binaries = Bins /\ IsPackage(p) /\ p.media = original.media
  BY AllPassed, OriginalFacts, FinalPackage DEF Preflight, PlaceInv, Cabs, Committed
<1>1. /\ DOMAIN p.media = 1 .. Cabs /\ DOMAIN p.binary = 1 .. Bins /\ Len(p.binary) = Bins
  BY <1>0, PackageMedia, FinalBinary
<1>2. Start(p, Cabs + 1) = Start(original, Cabs + 1)
  <2>1. \A k \in 1 .. (Cabs + 1) - 1 : Len(MembersOf(p, k)) = Len(MembersOf(original, k))
    <3>1. (Cabs + 1) - 1 = Cabs
      BY <1>0
    <3> QED BY <3>1, FinalCabinet
  <2>2. [k \in 1 .. (Cabs + 1) - 1 |-> Len(MembersOf(p, k))] = [k \in 1 .. (Cabs + 1) - 1 |-> Len(MembersOf(original, k))]
    BY <2>1
  <2> QED BY <2>2 DEF Start
<1>3. Start(p, Len(p.media) + 1) + Len(p.binary) <= MemberLimit
  <2>1. Len(work) = Start(original, Cabs + 1) + Bins /\ Len(work) <= MemberLimit
    BY <1>0 DEF Preflight, WorkInv, BudgetInv
  <2> QED BY <1>0, <1>1, <1>2, <2>1
<1>4. PICK f, g : f = [i \in 1 .. Cabs |-> Spent(i)] /\ g = [b \in 1 .. Bins |-> SpentBinary(b)]
  OBVIOUS
<1>5. PICK h, l : h = [i \in 1 .. Cabs |-> Cabinet(p, i).expands] /\ l = [b \in 1 .. Bins |-> Size(p.binary[b].payload)]
  OBVIOUS
<1>6. expanded = Total(f) + Total(g) /\ expanded <= ExpansionLimit
  <2>1. ReadCabs = Cabs
    BY <1>0 DEF ReadCabs
  <2> QED BY <1>0, <1>4, <2>1 DEF BudgetInv
<1>7. Expands(p) = Total(h) + Total(l)
  BY <1>1, <1>5 DEF Expands, Cabinet
<1>8. ASSUME NEW i \in 1 .. Cabs PROVE f[i] \in Nat /\ h[i] \in Nat /\ h[i] <= f[i]
  <2>1. Spent(i) \in Nat
    BY <1>0, SpentFacts DEF Read
  <2>2. Cabinet(p, i).expands \in Nat /\ Cabinet(p, i).expands <= Spent(i)
    BY FinalCabinet
  <2> QED BY <1>4, <1>5, <2>1, <2>2
<1>9. l = g
  <2>1. \A b \in 1 .. Bins : Size(p.binary[b].payload) = SpentBinary(b)
    BY FinalBinary
  <2> QED BY <1>4, <1>5, <2>1
<1>10. \A b \in 1 .. Bins : g[b] \in Nat
  <2>1. \A b \in 1 .. Bins : SpentBinary(b) \in Nat
    BY FinalBinary
  <2> QED BY <1>4, <2>1
<1>11. IsFiniteSet(1 .. Cabs) /\ IsFiniteSet(1 .. Bins)
  <2>1. Cabs \in Int /\ Bins \in Int /\ 1 \in Int
    BY <1>0
  <2> QED BY <2>1, FS_Interval
<1>12. DOMAIN f = 1 .. Cabs /\ DOMAIN h = 1 .. Cabs /\ DOMAIN g = 1 .. Bins
  BY <1>4, <1>5
<1>13. Summable(f) /\ Summable(g) /\ Summable(h)
  BY <1>8, <1>10, <1>11, <1>12 DEF Summable
<1>14. Total(h) <= Total(f)
  BY <1>8, <1>12, <1>13, TotalGrows
<1>15. Total(f) \in Nat /\ Total(g) \in Nat /\ Total(h) \in Nat
  BY <1>13, TotalNat
<1>16. Expands(p) <= ExpansionLimit
  <2>1. Total(h) + Total(g) <= Total(f) + Total(g)
    BY <1>14, <1>15
  <2>2. Expands(p) <= expanded
    BY <1>6, <1>7, <1>9, <2>1
  <2>3. expanded \in Nat /\ Expands(p) \in Nat /\ ExpansionLimit \in Nat
    BY <1>6, <1>7, <1>9, <1>15, LimitsAssumption
  <2> QED BY <1>6, <2>2, <2>3
<1> QED BY <1>3, <1>16

\* It is sound.
LEMMA FinalSound ==
  ASSUME Preflight, Signing, AllDone, BudgetInv, NEW p, Committed(p)
  PROVE  Sound(p)
<1>0. step = "sign" /\ IsPackage(original) /\ Cabs \in Nat /\ Cabs = Len(original.media)
      /\ IsPackage(p) /\ p.media = original.media /\ Len(p.file) = Len(original.file)
      /\ Len(p.hash) = Len(original.hash)
      /\ p.storages = original.storages /\ p.compressed = original.compressed
  BY AllPassed, OriginalFacts, FinalPackage DEF Preflight, Cabs, Committed
<1>1. DOMAIN original.file = 1 .. Len(original.file) /\ DOMAIN original.hash = 1 .. Len(original.hash)
  BY <1>0, PackageFile, PackageHash
<1>2. \A i : Read(i)
  BY <1>0 DEF Read
<1>3. MediaSound(p)
  BY <1>0 DEF Preflight, SoundInv, MediaSound, LastBefore
<1>4. \A r \in 1 .. Len(p.file) :
        /\ p.file[r].id = original.file[r].id /\ p.file[r].sequence = original.file[r].sequence
        /\ p.file[r].attributes = original.file[r].attributes
        /\ p.file[r].size \in Nat
  BY <1>0, <1>1, FinalRow
<1>5. FilesSound(p)
  <2>1. FilesSound(original)
    BY <1>0 DEF Preflight, SoundInv
  <2>2. ASSUME NEW r \in 1 .. Len(p.file)
        PROVE  /\ "noncompressed" \notin p.file[r].attributes
               /\ "compressed" \in p.file[r].attributes \/ p.compressed
               /\ p.file[r].sequence > 0
               /\ p.file[r].size >= 0
    <3>1. /\ "noncompressed" \notin original.file[r].attributes
          /\ "compressed" \in original.file[r].attributes \/ original.compressed
          /\ original.file[r].sequence > 0
      BY <1>0, <2>1 DEF FilesSound
    <3>2. p.file[r].attributes = original.file[r].attributes
          /\ p.file[r].sequence = original.file[r].sequence /\ p.file[r].size \in Nat
      BY <1>4
    <3> QED BY <1>0, <3>1, <3>2
  <2>3. ASSUME NEW r \in 1 .. Len(p.file), NEW s \in 1 .. Len(p.file), r # s
        PROVE  p.file[r].sequence # p.file[s].sequence /\ p.file[r].id # p.file[s].id
    <3>1. original.file[r].sequence # original.file[s].sequence
          /\ original.file[r].id # original.file[s].id
      BY <1>0, <2>1, <2>3 DEF FilesSound
    <3> QED BY <1>4, <3>1
  <2> QED BY <2>2, <2>3 DEF FilesSound
<1>6. ASSUME NEW i \in 1 .. Cabs PROVE CabinetSound(p, i)
  <2>1. /\ p.media[i].cabinet \in DOMAIN p.streams /\ Cabinet(p, i).regular
        /\ TotalDeclared(MembersOf(p, i)) <= Cabinet(p, i).expands
        /\ Len(MembersOf(p, i)) = Len(MembersOf(original, i))
    BY FinalCabinet
  <2>2. ASSUME NEW j \in 1 .. Len(MembersOf(p, i))
        PROVE  Size(MembersOf(p, i)[j].payload) = MembersOf(p, i)[j].size /\ HasRow(p, i, MembersOf(p, i)[j])
    <3>0. j \in 1 .. Len(MembersOf(original, i))
      BY <2>1
    <3>1. /\ MembersOf(p, i)[j].name = MembersOf(original, i)[j].name
          /\ MembersOf(p, i)[j].size = Size(Treated(OldPayload(i, j)))
          /\ MembersOf(p, i)[j].payload = Treated(OldPayload(i, j))
      BY <3>0, FinalCabinet
    <3>2. CabinetSound(original, i)
      BY <1>2 DEF Preflight, SoundInv
    <3>3. HasRow(original, i, MembersOf(original, i)[j])
      BY <3>0, <3>2 DEF CabinetSound
    <3>4. PICK r \in 1 .. Len(original.file) :
            /\ original.file[r].id = MembersOf(original, i)[j].name
            /\ original.file[r].sequence \in LastBefore(original, i) + 1 .. original.media[i].last
      BY <3>3 DEF HasRow
    <3>5. p.file[r].size = Size(Treated(OldPayload(i, j)))
      BY <1>1, <3>0, <3>4, FinalRow
    <3>6. r \in 1 .. Len(p.file) /\ p.file[r].id = MembersOf(p, i)[j].name
          /\ p.file[r].sequence \in LastBefore(p, i) + 1 .. p.media[i].last
      BY <1>0, <1>4, <3>1, <3>4 DEF LastBefore
    <3>7. HasRow(p, i, MembersOf(p, i)[j])
      BY <3>1, <3>5, <3>6 DEF HasRow
    <3> QED BY <3>1, <3>7
  <2> QED BY <2>1, <2>2 DEF CabinetSound
<1>7. ASSUME NEW i \in 1 .. Cabs, NEW k \in 1 .. Cabs PROVE NamesApart(p, i, k)
  <2>1. NamesApart(original, i, k)
    BY <1>2 DEF Preflight, SoundInv
  <2>2. /\ Len(MembersOf(p, i)) = Len(MembersOf(original, i))
        /\ \A j \in 1 .. Len(MembersOf(original, i)) : MembersOf(p, i)[j].name = MembersOf(original, i)[j].name
    BY FinalCabinet
  <2>3. /\ Len(MembersOf(p, k)) = Len(MembersOf(original, k))
        /\ \A j \in 1 .. Len(MembersOf(original, k)) : MembersOf(p, k)[j].name = MembersOf(original, k)[j].name
    BY FinalCabinet
  <2> QED BY <2>1, <2>2, <2>3 DEF NamesApart
<1>8. RowsSound(p)
  <2> SUFFICES ASSUME NEW r \in 1 .. Len(p.file)
               PROVE  \E i \in 1 .. Len(p.media) : \E j \in 1 .. Len(MembersOf(p, i)) :
                        p.file[r].id = MembersOf(p, i)[j].name
    BY DEF RowsSound
  <2>1. RowsSound(original)
    BY <1>0 DEF Preflight, SoundInv
  <2>2. PICK i \in 1 .. Cabs : \E j \in 1 .. Len(MembersOf(original, i)) :
          original.file[r].id = MembersOf(original, i)[j].name
    BY <1>0, <2>1 DEF RowsSound
  <2>3. PICK j \in 1 .. Len(MembersOf(original, i)) : original.file[r].id = MembersOf(original, i)[j].name
    BY <2>2
  <2>4. /\ Len(MembersOf(p, i)) = Len(MembersOf(original, i))
        /\ MembersOf(p, i)[j].name = MembersOf(original, i)[j].name
    BY FinalCabinet
  <2> QED BY <1>0, <1>4, <2>3, <2>4
<1>9. \A r \in 1 .. Len(p.hash) : p.hash[r].options = 0
  <2>1. \A r \in 1 .. Len(original.hash) : original.hash[r].options = 0
    BY <1>0 DEF Preflight, SoundInv
  <2>2. \A r \in 1 .. Len(original.hash) : p.hash[r].options = original.hash[r].options
    BY <1>1, FinalHash
  <2> QED BY <1>0, <2>1, <2>2
<1>10. Preflighted(p)
  <2>1. \A i \in 1 .. Len(p.media) : CabinetSound(p, i)
    BY <1>0, <1>6
  <2>2. \A i, k \in 1 .. Len(p.media) : NamesApart(p, i, k)
    BY <1>0, <1>7
  <2> QED BY <1>3, <1>5, <1>8, <1>9, <2>1, <2>2, FinalFits DEF Preflighted
<1> QED BY <1>0, <1>10, PreflightedSound

\* No PE file in it is without a signature, and the hashes that held hold again.
LEMMA FinalSigned ==
  ASSUME Preflight, Signing, AllDone, NEW p, Committed(p)
  PROVE  AllSigned(p) /\ HashesHold(p, original)
<1>0. step = "sign" /\ IsPackage(original) /\ Cabs = Len(original.media) /\ IsPackage(p) /\ p.media = original.media
  BY AllPassed, OriginalFacts, FinalPackage DEF Preflight, Cabs, Committed
<1>1. \A i \in 1 .. Cabs : Len(MembersOf(original, i)) \in Nat
  BY <1>0, Places
<1>2. ASSUME NEW m \in Members(p)
      PROVE  ~(Member(p, m).payload.pe /\ Member(p, m).payload.signature = "none")
  <2>1. PICK i \in 1 .. Cabs : i = m[1]
    BY <1>0, MembersPairs
  <2>2. m[2] \in 1 .. MemberLimit /\ m[2] <= Len(MembersOf(p, i)) /\ Member(p, m) = MembersOf(p, i)[m[2]]
    BY <1>0, <2>1, MembersPairs
  <2>3. Len(MembersOf(p, i)) = Len(MembersOf(original, i))
    BY FinalCabinet
  <2>4. PICK j \in 1 .. Len(MembersOf(original, i)) : j = m[2]
    BY <1>1, <2>2, <2>3, LimitsAssumption
  <2>5. Member(p, m).payload = Treated(OldPayload(i, j))
    BY <2>2, <2>4, FinalCabinet
  <2>6. ~Unsigned(Treated(OldPayload(i, j)))
    BY <1>0, OldPayloads, TreatedFacts
  <2> QED BY <2>5, <2>6 DEF Unsigned
<1>3. ASSUME NEW b \in DOMAIN p.binary
      PROVE  ~(p.binary[b].payload.pe /\ p.binary[b].payload.signature = "none")
  <2>1. b \in 1 .. Bins
    BY FinalBinary
  <2>2. ~Unsigned(p.binary[b].payload)
    BY <2>1, FinalBinary
  <2> QED BY <2>2 DEF Unsigned
<1>4. ASSUME NEW r \in DOMAIN original.hash, NEW m \in Members(original),
             Member(original, m).name = original.hash[r].id,
             Unversioned(original, original.hash[r].id),
             original.hash[r].of = Member(original, m).payload
      PROVE  p.hash[r].of = Member(p, m).payload
  <2>1. PICK i \in 1 .. Cabs : i = m[1]
    BY <1>0, MembersPairs
  <2>2. m[2] \in 1 .. MemberLimit /\ m[2] <= Len(MembersOf(original, i))
        /\ Member(original, m) = MembersOf(original, i)[m[2]] /\ m = <<i, m[2]>>
    BY <1>0, <2>1, MembersPairs
  <2>3. PICK j \in 1 .. Len(MembersOf(original, i)) : j = m[2]
    BY <1>1, <2>2, LimitsAssumption
  <2>4. Member(p, m) = MembersOf(p, i)[j]
    BY <1>0, <2>2, <2>3, MembersAre
  <2>5. Member(p, m).payload = Treated(OldPayload(i, j))
    BY <2>4, FinalCabinet
  <2>6. /\ original.hash[r].id = MembersOf(original, i)[j].name
        /\ original.hash[r].of = OldPayload(i, j)
    BY <1>4, <2>2, <2>3 DEF OldPayload
  <2>7. p.hash[r].of = Treated(OldPayload(i, j))
    BY <1>4, <2>6, FinalHash
  <2> QED BY <2>5, <2>7
<1>5. AllSigned(p)
  BY <1>2, <1>3 DEF AllSigned
<1>6. HashesHold(p, original)
  BY <1>4 DEF HashesHold
<1> QED BY <1>5, <1>6

\* When nothing was signed there was nothing to sign.
LEMMA NothingUnsigned ==
  ASSUME Preflight, Signing, AllDone, NothingSigned
  PROVE  AllSigned(original) /\ HashesHold(original, original)
<1>0. step = "sign" /\ IsPackage(original) /\ Cabs = Len(original.media) /\ DOMAIN original.binary = 1 .. Bins
  BY AllPassed, OriginalFacts, PackageBinary DEF Preflight, Cabs, Bins
<1>1. \A i \in 1 .. Cabs : Len(MembersOf(original, i)) \in Nat
  BY <1>0, Places
<1>2. /\ \A i \in 1 .. Cabs : ~Changed(i)
      /\ \A b \in 1 .. Bins : BinaryPlace(b) < Cursor => ~Unsigned(original.binary[b].payload)
  BY DEF Signing, CountInv, NothingSigned
<1>3. ASSUME NEW m \in Members(original)
      PROVE  ~(Member(original, m).payload.pe /\ Member(original, m).payload.signature = "none")
  <2>1. PICK i \in 1 .. Cabs : i = m[1]
    BY <1>0, MembersPairs
  <2>2. m[2] \in 1 .. MemberLimit /\ m[2] <= Len(MembersOf(original, i))
        /\ Member(original, m) = MembersOf(original, i)[m[2]]
    BY <1>0, <2>1, MembersPairs
  <2>3. PICK j \in 1 .. Len(MembersOf(original, i)) : j = m[2]
    BY <1>1, <2>2, LimitsAssumption
  <2>4. ~Unsigned(OldPayload(i, j))
    BY <1>2, AllPassed
  <2> QED BY <2>2, <2>3, <2>4 DEF Unsigned, OldPayload
<1>4. \A b \in 1 .. Bins : ~Unsigned(original.binary[b].payload)
  BY <1>2, AllPassed
<1>5. AllSigned(original)
  BY <1>0, <1>3, <1>4 DEF AllSigned, Unsigned
<1> QED BY <1>5 DEF HashesHold

\* For every set of installers and all limits: a rewriting that succeeds leaves an
\* installer in order with every PE file signed, hashes of unversioned files that are right
\* again, and a new PackageCode exactly if it changed.
THEOREM RewriteIsWhole == RewriteSpec => []RewrittenWhole
<1>1. RewriteInit => SoundSafe /\ RewrittenWhole
  BY RunningInit, BudgetInit DEF SoundSafe, BudgetSafe, RewriteInit, RewrittenWhole
<1>2. ASSUME SoundSafe /\ RewrittenWhole, [RewriteNext]_rewriteVars
      PROVE  (SoundSafe /\ RewrittenWhole)'
  <2>0. SoundSafe'
    BY <1>2, SoundStep
  <2>1. CASE step = "end"
    <3>1. disk' = disk /\ original' = original /\ outcome' = outcome
      BY <2>1, <1>2, EndStays DEF rewriteVars, input
    <3>2. PICK p, q : p = disk /\ q = original
      OBVIOUS
    <3>3. outcome = "done" => AllSigned(p) /\ Sound(p) /\ HashesHold(p, q) /\ (p.code = "renewed") = (p # q)
      BY <1>2, <3>2 DEF RewrittenWhole
    <3>4. p = disk' /\ q = original'
      BY <3>1, <3>2
    <3>5. RewrittenWhole'
      BY <3>1, <3>3, <3>4 DEF RewrittenWhole
    <3> QED BY <2>0, <3>5
  <2>2. CASE step # "end" /\ outcome' # "done"
    BY <2>0, <2>2 DEF RewrittenWhole
  <2>3. CASE step # "end" /\ outcome' = "done"
    <3>1. /\ Preflight /\ Signing /\ AllDone /\ original' = original
          /\ \/ ~NothingSigned /\ disk' = [db EXCEPT !.code = "renewed"]
             \/ NothingSigned /\ disk' = original
      BY <1>2, <2>3, Done DEF SoundSafe, BudgetSafe
    <3>2. BudgetInv /\ Sound(original) /\ IsPackage(original) /\ Untouched(original)
      <4>1. step = "sign"
        BY <3>1 DEF AllDone
      <4> QED BY <1>2, <3>1, <4>1, OriginalFacts DEF SoundSafe, BudgetSafe, Preflight
    <3>3. PICK p, q : p = disk' /\ q = original
      OBVIOUS
    <3>4. AllSigned(p) /\ Sound(p) /\ HashesHold(p, q) /\ (p.code = "renewed") = (p # q)
      <4>1. CASE NothingSigned
        <5>1. p = original /\ original.code = "given"
          BY <3>1, <3>2, <3>3, <4>1 DEF Untouched
        <5> QED BY <3>1, <3>2, <3>3, <4>1, <5>1, NothingUnsigned
      <4>2. CASE ~NothingSigned
        <5>1. p = [db EXCEPT !.code = "renewed"]
          BY <3>1, <3>3, <4>2
        <5>2. DOMAIN db = DOMAIN original
              /\ DOMAIN original = {"storages", "compressed", "code", "media", "file", "streams", "binary", "hash"}
          BY <3>1, <3>2 DEF Signing, SameTables, IsPackage
        <5>3. Committed(p)
          BY <3>1, <5>1, <5>2 DEF Committed, Signing, SameTables
        <5>4. p.code = "renewed" /\ p # q
          BY <3>2, <3>3, <5>3 DEF Committed, Untouched
        <5>5. Sound(p) /\ AllSigned(p) /\ HashesHold(p, original)
          BY <3>1, <3>2, <5>3, FinalSound, FinalSigned
        <5> QED BY <3>3, <5>4, <5>5
      <4> QED BY <4>1, <4>2
    <3>5. q = original'
      BY <3>1, <3>3
    <3>6. RewrittenWhole'
      BY <3>3, <3>4, <3>5 DEF RewrittenWhole
    <3> QED BY <2>0, <3>6
  <2> QED BY <2>1, <2>2, <2>3
<1> QED
  BY <1>1, <1>2, PTL DEF RewriteSpec
=============================================================================
