------------------------------ MODULE PmmProofs -----------------------------
(***************************************************************************)
(* Pmm, for every memory map, every number of orders and all requests: as  *)
(* long as what init_pmm carves is aligned from HEAP_START on, no page is  *)
(* in two places, none is lost, and to its callers the allocator is a Heap.*)
(***************************************************************************)
EXTENDS Pmm, Integers, FiniteSetTheorems, TLAPS

---------------------------------------------------------------------------
\* The least and the greatest of a set of numbers, from the well-foundedness of the finite
\* sets under inclusion.
LEMMA LeastNumber ==
  ASSUME NEW S, S \subseteq Nat, S # {}
  PROVE  \E n \in S : \A m \in S : n <= m
<1> DEFINE T == {0 .. n : n \in S}
<1>1. T \subseteq FiniteSubsetsOf(Nat) /\ T # {}
  <2>1. ASSUME NEW n \in S PROVE 0 .. n \in FiniteSubsetsOf(Nat)
    <3>1. 0 \in Int /\ n \in Int /\ 0 .. n \in SUBSET Nat
      OBVIOUS
    <3> QED BY <3>1, FS_Interval, Zenon DEF FiniteSubsetsOf
  <2> QED BY <2>1
<1>2. PICK x \in T : \A y \in T : ~(<<y, x>> \in StrictSubsetOrdering(Nat))
  BY <1>1, FS_StrictSubsetOrderingWellFounded, WFMin, Zenon
<1>3. PICK n \in S : x = 0 .. n
  OBVIOUS
<1>4. ASSUME NEW m \in S, m < n PROVE FALSE
  <2>1. 0 .. m \in T /\ 0 .. m \subseteq 0 .. n /\ 0 .. m # 0 .. n /\ 0 .. n \subseteq Nat
    BY <1>4
  <2> QED BY <1>2, <1>3, <2>1 DEF StrictSubsetOrdering
<1> QED BY <1>4

LEMMA GreatestNumber ==
  ASSUME NEW S, S \subseteq Nat, S # {}, NEW top \in Nat, \A n \in S : n <= top
  PROVE  \E n \in S : \A m \in S : m <= n
<1> DEFINE T == {top - n : n \in S}
<1>1. PICK d \in T : \A e \in T : d <= e
  <2>1. \A n \in S : top - n \in Nat
    OBVIOUS
  <2>2. T \subseteq Nat /\ T # {}
    BY <2>1
  <2> HIDE DEF T
  <2> QED BY <2>2, LeastNumber
<1>2. PICK n \in S : d = top - n
  OBVIOUS
<1>3. ASSUME NEW m \in S PROVE m <= n
  <2>1. d <= top - m
    BY <1>1
  <2> QED BY <1>2, <2>1
<1> QED BY <1>3

---------------------------------------------------------------------------
\* Orders and sizes.
LEMMA Euclid ==
  ASSUME NEW a \in Nat, NEW s \in Nat \ {0}
  PROVE  /\ a = (a \div s) * s + (a % s) /\ a \div s \in Nat /\ a % s \in 0 .. s - 1
OBVIOUS

LEMMA Quotient ==
  ASSUME NEW q \in Nat, NEW s \in Nat \ {0}, NEW m \in 0 .. s - 1
  PROVE  (q * s + m) \div s = q /\ (q * s + m) % s = m
OBVIOUS

LEMMA Multiple ==
  ASSUME NEW q \in Nat, NEW s \in Nat \ {0}
  PROVE  (q * s) \div s = q /\ (q * s) % s = 0
OBVIOUS

LEMMA Divided ==
  ASSUME NEW b \in Nat, NEW s \in Nat \ {0}, b % s = 0
  PROVE  b = (b \div s) * s /\ b \div s \in Nat
<1>1. b = (b \div s) * s + (b % s) /\ b \div s \in Nat
  BY Euclid
<1>2. (b \div s) * s \in Nat
  BY <1>1
<1> QED BY <1>1, <1>2

LEMMA SizeType == \A k \in Orders : Size[k] \in Nat \ {0}
<1> DEFINE Bad == {k \in Orders : Size[k] = 0}
<1>1. SUFFICES ASSUME Bad # {} PROVE FALSE
  BY OrderAssumption
<1>2. PICK k \in Bad : \A j \in Bad : k <= j
  <2>1. Bad \subseteq Nat
    BY DEF Orders
  <2> QED BY <1>1, <2>1, LeastNumber
<1>3. k # 0 /\ k - 1 \in Orders /\ Size[k] = 2 * Size[k - 1] /\ Size[k - 1] \in Nat
  BY OrderAssumption DEF Orders
<1>4. k - 1 \in Bad
  BY <1>3
<1> QED BY <1>2, <1>3, <1>4 DEF Orders

LEMMA SizeNext ==
  ASSUME NEW k \in Orders, k + 1 \in Orders
  PROVE  Size[k + 1] = 2 * Size[k]
<1>1. k \in Nat /\ k + 1 # 0 /\ (k + 1) - 1 = k
  BY DEF Orders
<1> QED BY <1>1, OrderAssumption

LEMMA SizeDivides ==
  \A k, j \in Orders : k <= j => \E m \in Nat \ {0} : Size[j] = m * Size[k]
<1> SUFFICES ASSUME NEW k \in Orders
             PROVE  \A j \in Orders : k <= j => \E m \in Nat \ {0} : Size[j] = m * Size[k]
  OBVIOUS
<1> DEFINE Bad == {j \in Orders : k <= j /\ ~\E m \in Nat \ {0} : Size[j] = m * Size[k]}
<1>1. SUFFICES ASSUME Bad # {} PROVE FALSE
  OBVIOUS
<1>2. PICK j \in Bad : \A i \in Bad : j <= i
  <2>1. Bad \subseteq Nat
    BY DEF Orders
  <2> QED BY <1>1, <2>1, LeastNumber
<1>3. j # k
  <2>1. Size[k] = 1 * Size[k]
    BY SizeType
  <2> QED BY <1>2, <2>1
<1>4. j - 1 \in Orders /\ k <= j - 1 /\ j # 0 /\ j \in Nat /\ j \in Orders
  <2>1. j \in Orders /\ k <= j
    BY <1>2
  <2> QED BY <2>1, <1>3, OrderAssumption DEF Orders
<1>5. j - 1 \notin Bad
  BY <1>2, <1>4
<1>6. PICK m \in Nat \ {0} : Size[j - 1] = m * Size[k]
  BY <1>4, <1>5
<1>7. Size[j] = (2 * m) * Size[k]
  <2>1. Size[j] = 2 * Size[j - 1]
    BY <1>4, OrderAssumption
  <2> QED BY <1>6, <2>1, SizeType
<1> QED BY <1>2, <1>7, 2 * m \in Nat \ {0}

\* Aligned blocks: a number is in one block of each size, and two blocks that meet are nested.
LEMMA Start ==
  ASSUME NEW a \in Nat, NEW s \in Nat \ {0}
  PROVE  /\ a - (a % s) \in Nat /\ (a - (a % s)) % s = 0
         /\ a \in (a - (a % s)) .. (a - (a % s)) + s - 1
<1>1. a = (a \div s) * s + (a % s) /\ a \div s \in Nat /\ a % s \in 0 .. s - 1
  BY Euclid
<1>2. a - (a % s) = (a \div s) * s /\ (a \div s) * s \in Nat
  BY <1>1
<1>3. (a - (a % s)) % s = 0
  BY <1>1, <1>2, Multiple
<1> QED BY <1>1, <1>2, <1>3

LEMMA SameBlock ==
  ASSUME NEW s \in Nat \ {0}, NEW a \in Nat, NEW b \in Nat, NEW p \in Nat,
         a % s = 0, b % s = 0, p \in a .. a + s - 1, p \in b .. b + s - 1
  PROVE  a = b
<1>1. \A c \in Nat : c % s = 0 /\ p \in c .. c + s - 1 => c = (p \div s) * s
  <2> TAKE c \in Nat
  <2> HAVE c % s = 0 /\ p \in c .. c + s - 1
  <2>1. c = (c \div s) * s /\ c \div s \in Nat
    BY Euclid
  <2> DEFINE q == c \div s
             m == p - c
  <2>2. p = q * s + m /\ m \in 0 .. s - 1 /\ c = q * s /\ q \in Nat
    BY <2>1
  <2> HIDE DEF q, m
  <2>3. (q * s + m) \div s = q
    BY <2>2, Quotient
  <2> QED BY <2>2, <2>3
<1> QED BY <1>1

LEMMA Nested ==
  ASSUME NEW k \in Orders, NEW j \in Orders, k <= j, NEW a \in Nat, NEW b \in Nat,
         a % Size[k] = 0, b % Size[j] = 0, NEW p \in Extent(a, k), p \in Extent(b, j)
  PROVE  Extent(a, k) \subseteq Extent(b, j)
<1> DEFINE s == Size[k]
<1>1. s \in Nat \ {0}
  BY SizeType
<1>2. PICK m \in Nat \ {0} : Size[j] = m * s
  BY SizeDivides
<1>3. PICK q \in Nat : a = q * s
  BY <1>1, Divided
<1>4. PICK r \in Nat : b = (r * m) * s
  <2>1. PICK r \in Nat : b = r * Size[j]
    BY SizeType, Divided
  <2>2. b = r * (m * s)
    BY <1>2, <2>1
  <2>3. r * (m * s) = (r * m) * s
    <3>1. \A x, y, z \in Nat : x * (y * z) = (x * y) * z
      OBVIOUS
    <3> QED BY <1>1, <3>1
  <2> QED BY <2>2, <2>3
<1>5. p \in q * s .. q * s + s - 1 /\ p \in (r * m) * s .. (r * m) * s + m * s - 1
  BY <1>2, <1>3, <1>4 DEF Extent
<1> DEFINE l == r * m
<1>6. l \in Nat /\ l * s + m * s = (l + m) * s
  BY <1>1
<1>7. l <= q /\ q + 1 <= l + m
  <2>1. l * s < (q + 1) * s /\ q * s < (l + m) * s
    BY <1>1, <1>5, <1>6
  <2> HIDE DEF l, s
  <2>2. CASE l > q
    <3>1. PICK d \in Nat : l = q + 1 + d
      BY <1>6, <2>2
    <3>2. l * s = (q + 1) * s + d * s /\ d * s \in Nat /\ (q + 1) * s \in Nat
      BY <1>1, <3>1
    <3> QED BY <2>1, <3>2
  <2>3. CASE q >= l + m
    <3>1. PICK d \in Nat : q = (l + m) + d
      BY <1>6, <2>3
    <3>2. q * s = (l + m) * s + d * s /\ d * s \in Nat /\ (l + m) * s \in Nat
      BY <1>1, <1>6, <3>1
    <3> QED BY <2>1, <3>2
  <2> QED BY <1>6, <2>2, <2>3
<1>8. l * s <= q * s /\ (q + 1) * s <= (l + m) * s
  <2> HIDE DEF l, s
  <2>1. \A x, y \in Nat : x <= y => x * s <= y * s
    <3> TAKE x, y \in Nat
    <3> HAVE x <= y
    <3>1. PICK d \in Nat : y = x + d
      OBVIOUS
    <3>2. y * s = x * s + d * s /\ d * s \in Nat /\ x * s \in Nat
      BY <1>1, <3>1
    <3> QED BY <3>2
  <2> QED BY <1>6, <1>7, <2>1
<1>9. a + s - 1 <= b + m * s - 1 /\ b <= a
  <2>1. a = q * s /\ b = l * s
    BY <1>3, <1>4
  <2>2. (q + 1) * s = q * s + s
    <3> HIDE DEF s
    <3> QED BY <1>1
  <2> HIDE DEF l, s
  <2> QED BY <1>1, <1>6, <1>8, <2>1, <2>2
<1> QED BY <1>1, <1>2, <1>9 DEF Extent

\* A block and its buddy are the halves of the block of the next order, and a block of the
\* next order is one of its halves and that one's buddy.
LEMMA BuddyOf ==
  ASSUME NEW k \in Orders, k + 1 \in Orders, NEW b \in Nat, b % Size[k] = 0
  PROVE  /\ Buddy(b, k) \in Nat
         /\ Buddy(b, k) # b
         /\ Least(b, Buddy(b, k)) \in {b, Buddy(b, k)}
         /\ Least(b, Buddy(b, k)) % Size[k + 1] = 0
         /\ Extent(b, k) \cap Extent(Buddy(b, k), k) = {}
         /\ Extent(b, k) \cup Extent(Buddy(b, k), k) = Extent(Least(b, Buddy(b, k)), k + 1)
<1> DEFINE s == Size[k]
<1>1. s \in Nat \ {0} /\ 2 * s \in Nat \ {0} /\ Size[k + 1] = 2 * s
  BY SizeType, SizeNext
<1>2. PICK q \in Nat : b \div s = q /\ b = q * s
  BY <1>1, Divided
<1>3. CASE q % 2 = 0
  <2>1. PICK m \in Nat : q = 2 * m
    BY <1>3
  <2>2. Buddy(b, k) = b + s
    BY <1>2, <1>3 DEF Buddy
  <2>3. b = m * (2 * s)
    BY <1>1, <1>2, <2>1
  <2>4. b % Size[k + 1] = 0
    BY <1>1, <2>3, Multiple
  <2>5. Least(b, Buddy(b, k)) = b
    BY <1>1, <2>2 DEF Least
  <2> QED BY <1>1, <2>2, <2>4, <2>5 DEF Extent
<1>4. CASE q % 2 = 1
  <2>1. PICK m \in Nat : q = 2 * m + 1
    BY <1>4
  <2>2. Buddy(b, k) = b - s
    BY <1>2, <1>4 DEF Buddy
  <2>3. b = m * (2 * s) + s /\ m * (2 * s) \in Nat
    BY <1>1, <1>2, <2>1
  <2> DEFINE d == m * (2 * s)
  <2>4. d % Size[k + 1] = 0
    BY <1>1, Multiple
  <2>5. d = b - s /\ b = d + s /\ d \in Nat
    BY <1>1, <2>3
  <2> HIDE DEF d
  <2>6. Least(b, Buddy(b, k)) = d /\ Buddy(b, k) = d
    BY <1>1, <2>2, <2>5 DEF Least
  <2> QED BY <1>1, <2>4, <2>5, <2>6 DEF Extent
<1> QED BY <1>2, <1>3, <1>4

LEMMA HalvesOf ==
  ASSUME NEW k \in Orders, k + 1 \in Orders, NEW b \in Nat, b % Size[k + 1] = 0
  PROVE  /\ b % Size[k] = 0
         /\ Buddy(b, k) = b + Size[k]
         /\ Buddy(b, k) % Size[k] = 0
         /\ Least(b, Buddy(b, k)) = b
<1> DEFINE s == Size[k]
<1>1. s \in Nat \ {0} /\ 2 * s \in Nat \ {0} /\ Size[k + 1] = 2 * s
  BY SizeType, SizeNext
<1>2. PICK q \in Nat : b = q * (2 * s)
  <2> DEFINE t == Size[k + 1]
  <2>1. t \in Nat \ {0} /\ b % t = 0 /\ t = 2 * s
    BY <1>1
  <2> HIDE DEF s, t
  <2>2. b = (b \div t) * t /\ b \div t \in Nat
    BY <2>1, Divided
  <2> QED BY <2>1, <2>2
<1>3. b = (2 * q) * s /\ b + s = (2 * q + 1) * s
  BY <1>1, <1>2
<1>4. b \div s = 2 * q /\ b % s = 0 /\ (b + s) % s = 0
  BY <1>1, <1>3, Multiple, 2 * q \in Nat, 2 * q + 1 \in Nat
<1>5. Buddy(b, k) = b + s
  BY <1>4 DEF Buddy
<1> QED BY <1>1, <1>4, <1>5 DEF Least

---------------------------------------------------------------------------
\* The hypothesis of the theorems: every block that init_pmm carves, and that is aligned as
\* an address, is aligned from HEAP_START on too, which is how get_buddy counts.
BlocksAligned ==
  \A r \in Regions, k \in Orders : \A a \in Carved(r, k) : (a - Base) % Size[k] = 0

\* It would hold on every machine if HEAP_START were a multiple of the largest block.
THEOREM AlignedHeapSuffices == Base % Size[MaxOrder - 1] = 0 => BlocksAligned
<1> SUFFICES ASSUME Base % Size[MaxOrder - 1] = 0,
                    NEW r \in Regions, NEW k \in Orders, NEW a \in Carved(r, k)
             PROVE  (a - Base) % Size[k] = 0
  BY DEF BlocksAligned
<1>1. MaxOrder - 1 \in Orders /\ k <= MaxOrder - 1
  BY OrderAssumption DEF Orders
<1>2. PICK m \in Nat \ {0} : Size[MaxOrder - 1] = m * Size[k]
  BY <1>1, SizeDivides
<1>3. Base \in Nat /\ a \in Nat /\ Base <= a /\ a % Size[k] = 0
  BY MapAssumption DEF Carved, Above, AlignedIn
<1> DEFINE s == Size[k]
<1>4. s \in Nat \ {0} /\ Size[MaxOrder - 1] \in Nat \ {0}
  BY <1>1, SizeType
<1>5. PICK q \in Nat : Base = q * Size[MaxOrder - 1]
  BY <1>3, <1>4, Divided
<1>6. PICK x \in Nat : a = x * s
  BY <1>3, <1>4, Divided
<1> HIDE DEF s
<1>7. Base = (q * m) * s
  <2>1. \A u, v, w \in Nat : u * (v * w) = (u * v) * w
    OBVIOUS
  <2> QED BY <1>2, <1>4, <1>5, <2>1 DEF s
<1> DEFINE y == q * m
<1>8. y \in Nat
  OBVIOUS
<1>9. Base = y * s
  BY <1>7
<1> HIDE DEF y
<1>10. y <= x
  <2>1. CASE x < y
    <3>1. PICK d \in Nat \ {0} : y = x + d
      BY <1>8, <2>1
    <3>2. y * s = x * s + d * s /\ d * s \in Nat \ {0} /\ x * s \in Nat
      BY <1>4, <3>1
    <3> QED BY <1>3, <1>6, <1>9, <3>2
  <2> QED BY <1>8, <2>1
<1>11. a - Base = (x - y) * s /\ x - y \in Nat
  BY <1>4, <1>6, <1>8, <1>9, <1>10
<1> QED BY <1>4, <1>11, Multiple DEF s

---------------------------------------------------------------------------
\* The pages that have a number are those up to the last usable one.
LEMMA UsablePages == Usable \subseteq Pages /\ MaxBlocks \in Nat
<1>1. Usable \subseteq Nat
  BY MapAssumption DEF Usable, Above
<1>2. CASE Usable = {}
  BY <1>2 DEF MaxBlocks
<1>3. CASE Usable # {}
  <2>1. PICK s \in Regions : \A r \in Regions : r.limit <= s.limit
    BY <1>3, MapAssumption DEF Usable
  <2>2. s.limit \in Nat /\ \A p \in Usable : p <= s.limit
    BY <2>1, MapAssumption DEF Usable, Above
  <2>3. \E p \in Usable : \A q \in Usable : q <= p
    BY <1>1, <1>3, <2>2, GreatestNumber
  <2> DEFINE top == CHOOSE p \in Usable : \A q \in Usable : q <= p
  <2>4. top \in Usable /\ \A q \in Usable : q <= top
    BY <2>3
  <2>5. MaxBlocks = 1 + top
    BY <1>3 DEF MaxBlocks
  <2> HIDE DEF top
  <2> QED BY <1>1, <2>4, <2>5 DEF Pages
<1> QED BY <1>2, <1>3

LEMMA ExtentFacts ==
  ASSUME NEW b \in Nat, NEW k \in Orders
  PROVE  /\ b \in Extent(b, k) /\ Extent(b, k) \subseteq Nat
         /\ IsFiniteSet(Extent(b, k)) /\ Cardinality(Extent(b, k)) = Size[k]
<1>1. Size[k] \in Nat \ {0}
  BY SizeType
<1>2. b \in Int /\ b + Size[k] - 1 \in Int /\ b <= b + Size[k] - 1
  BY <1>1
<1>3. /\ IsFiniteSet(b .. b + Size[k] - 1)
      /\ Cardinality(b .. b + Size[k] - 1) = (b + Size[k] - 1) - b + 1
  BY <1>2, FS_Interval
<1> QED BY <1>1, <1>2, <1>3 DEF Extent

---------------------------------------------------------------------------
\* Sets of pieces: sound when they are aligned and apart and cover the memory of the map.
ExtentOf(x) == Extent(x[2], x[3])
Cover(H) == UNION {ExtentOf(x) : x \in H}
Apart(H) == \A x, y \in H : x # y => ExtentOf(x) \cap ExtentOf(y) = {}
Aligned(x) == x[2] \in Nat /\ x[3] \in Orders /\ x[2] % Size[x[3]] = 0
Sound(H) == (\A x \in H : Aligned(x)) /\ Apart(H) /\ Cover(H) = Usable

\* Pieces may be exchanged for pieces that cover the same.
LEMMA Exchange ==
  ASSUME NEW H, Sound(H), NEW R, R \subseteq H,
         NEW A, \A x \in A : Aligned(x), Apart(A), Cover(A) = Cover(R)
  PROVE  Sound((H \ R) \cup A)
<1>1. \A x \in (H \ R) \cup A : Aligned(x)
  BY DEF Sound
<1>2. ASSUME NEW x \in H \ R, NEW y \in A PROVE ExtentOf(x) \cap ExtentOf(y) = {}
  <2>1. SUFFICES ASSUME NEW p \in ExtentOf(x), p \in ExtentOf(y) PROVE FALSE
    OBVIOUS
  <2>2. p \in Cover(R)
    BY <2>1 DEF Cover
  <2>3. PICK z \in R : p \in ExtentOf(z)
    BY <2>2 DEF Cover
  <2> QED BY <2>1, <2>3 DEF Sound, Apart
<1>3. Apart((H \ R) \cup A)
  BY <1>2 DEF Sound, Apart
<1>4. Cover((H \ R) \cup A) = Cover(H)
  <2>1. Cover((H \ R) \cup A) = Cover(H \ R) \cup Cover(A)
    BY DEF Cover
  <2>2. Cover(H) = Cover(H \ R) \cup Cover(R)
    BY DEF Cover
  <2> QED BY <2>1, <2>2
<1> QED BY <1>1, <1>3, <1>4 DEF Sound

LEMMA SoundPages ==
  ASSUME NEW H, Sound(H), NEW x \in H
  PROVE  x[2] \in Pages /\ x[3] \in Orders /\ ExtentOf(x) \subseteq Usable /\ ExtentOf(x) \subseteq Pages
<1>1. ExtentOf(x) \subseteq Usable
  BY DEF Sound, Cover
<1>2. x[2] \in Nat /\ x[3] \in Orders /\ x[2] \in ExtentOf(x)
  BY ExtentFacts DEF Sound, Aligned, ExtentOf
<1> QED BY <1>1, <1>2, UsablePages

---------------------------------------------------------------------------
\* init_pmm: the carved blocks are apart and cover the memory of the map.
LEMMA CarvedFacts ==
  ASSUME NEW r \in Regions, NEW k \in Orders, NEW a \in Carved(r, k)
  PROVE  /\ a \in Nat /\ Base <= a /\ a % Size[k] = 0
         /\ Extent(a, k) \subseteq Above(r) /\ Above(r) \subseteq Nat
BY MapAssumption DEF Carved, Above, AlignedIn

LEMMA RegionsApart ==
  ASSUME NEW r \in Regions, NEW s \in Regions, NEW p \in Above(r), p \in Above(s)
  PROVE  r = s
BY MapAssumption DEF Above

\* Two blocks of a region that meet are one: neither lies in a larger one.
LEMMA CarvedApart ==
  ASSUME NEW r \in Regions, NEW k \in Orders, NEW j \in Orders, k <= j,
         NEW a \in Carved(r, k), NEW b \in Carved(r, j),
         NEW p \in Extent(a, k), p \in Extent(b, j)
  PROVE  k = j /\ a = b
<1>1. a \in Nat /\ a % Size[k] = 0 /\ b \in Nat /\ b % Size[j] = 0 /\ Extent(b, j) \subseteq Above(r)
      /\ p \in Nat /\ a \in Extent(a, k)
  BY CarvedFacts, ExtentFacts
<1>2. CASE k = j
  <2>1. a = b
    BY <1>1, <1>2, SizeType, SameBlock DEF Extent
  <2> QED BY <1>2, <2>1
<1>3. CASE k < j
  <2>1. k + 1 \in Orders /\ k + 1 <= j
    BY <1>3, OrderAssumption DEF Orders
  <2> DEFINE c == a - (a % Size[k + 1])
  <2>2. c \in Nat /\ c % Size[k + 1] = 0 /\ a \in Extent(c, k + 1)
    BY <1>1, <2>1, SizeType, Start DEF Extent
  <2>3. a \in Extent(b, j)
    <3>1. Extent(a, k) \subseteq Extent(b, j)
      BY <1>1, Nested
    <3> QED BY <1>1, <3>1
  <2>4. Extent(c, k + 1) \subseteq Extent(b, j)
    <3> HIDE DEF c
    <3> QED BY <1>1, <2>1, <2>2, <2>3, Nested
  <2>5. AlignedIn(r, c, k + 1)
    BY <1>1, <2>2, <2>4 DEF AlignedIn
  <2> QED BY <2>1, <2>5 DEF Carved
<1> QED BY <1>2, <1>3 DEF Orders

\* A page is in the same block of order k + 1 as the block of order k that it is in.
LEMMA SameStart ==
  ASSUME NEW q \in Nat, NEW s \in Nat \ {0}, NEW t \in Nat, t = 2 * s
  PROVE  (q - (q % s)) - ((q - (q % s)) % t) = q - (q % t)
<1>1. t \in Nat \ {0}
  OBVIOUS
<1>2. PICK n \in Nat, m \in 0 .. t - 1 : q = n * t + m /\ q % t = m
  BY <1>1, Euclid
<1>3. n * t = (2 * n) * s /\ n * t \in Nat
  OBVIOUS
<1>4. q - (q % t) = n * t
  BY <1>2, <1>3
<1>5. CASE m < s
  <2>1. m \in 0 .. s - 1 /\ q = (2 * n) * s + m
    BY <1>2, <1>3, <1>5
  <2>2. 2 * n \in Nat
    OBVIOUS
  <2>3. q % s = m
    <3>1. ((2 * n) * s + m) % s = m
      BY <2>1, <2>2, Quotient
    <3> QED BY <2>1, <3>1
  <2>4. (n * t) % t = 0
    BY <1>1, Multiple
  <2>5. q - (q % s) = n * t
    <3>1. q % s = q % t
      BY <1>2, <2>3
    <3> QED BY <1>4, <3>1
  <2>6. n * t - ((n * t) % t) = n * t
    BY <1>3, <2>4
  <2> QED BY <1>4, <2>5, <2>6
<1>6. CASE m >= s
  <2>1. m - s \in 0 .. s - 1 /\ s \in 0 .. t - 1 /\ m \in Nat
    BY <1>1, <1>6
  <2>2. 2 * n + 1 \in Nat
    OBVIOUS
  <2>3. q = (2 * n + 1) * s + (m - s)
    <3>1. (2 * n + 1) * s = (2 * n) * s + s /\ (2 * n) * s \in Nat
      OBVIOUS
    <3> QED BY <1>2, <1>3, <2>1, <3>1
  <2>4. q % s = m - s
    <3>1. ((2 * n + 1) * s + (m - s)) % s = m - s
      BY <2>1, <2>2, Quotient
    <3> QED BY <2>3, <3>1
  <2>5. (n * t + s) % t = s
    BY <1>1, <2>1, Quotient
  <2>6. q - (q % s) = n * t + s
    BY <1>2, <1>3, <2>1, <2>4
  <2>7. (n * t + s) - ((n * t + s) % t) = n * t
    BY <1>3, <2>5
  <2> QED BY <1>4, <2>6, <2>7
<1> QED BY <1>1, <1>2, <1>5, <1>6

\* Every page is in a carved block: the largest one that is aligned and fits.
LEMMA CarvedCovers ==
  ASSUME NEW r \in Regions, NEW q \in Above(r)
  PROVE  \E k \in Orders : \E a \in Carved(r, k) : q \in Extent(a, k)
<1>1. q \in Nat
  BY MapAssumption DEF Above
<1> DEFINE K == {k \in Orders : AlignedIn(r, q - (q % Size[k]), k)}
<1>2. PICK k \in K : \A j \in K : j <= k
  <2>1. K \subseteq Nat /\ MaxOrder \in Nat /\ \A j \in K : j <= MaxOrder
    BY OrderAssumption DEF Orders
  <2>2. 0 \in K
    <3>1. 0 \in Orders /\ Size[0] = 1
      BY OrderAssumption DEF Orders
    <3>2. q % 1 = 0
      BY <1>1
    <3> QED BY <1>1, <3>1, <3>2 DEF AlignedIn, Extent
  <2> HIDE DEF K
  <2> QED BY <2>1, <2>2, GreatestNumber
<1> DEFINE a == q - (q % Size[k])
<1>3. k \in Orders /\ AlignedIn(r, a, k)
  BY <1>2
<1>4. q \in Extent(a, k) /\ a \in Nat
  BY <1>1, <1>3, SizeType, Start DEF Extent
<1>5. a \in Above(r)
  BY <1>3, <1>4, ExtentFacts DEF AlignedIn
<1>6. k + 1 \in Orders => ~AlignedIn(r, a - (a % Size[k + 1]), k + 1)
  <2> HAVE k + 1 \in Orders
  <2>1. a - (a % Size[k + 1]) = q - (q % Size[k + 1])
    BY <1>1, <1>3, SizeType, SizeNext, SameStart
  <2>2. k + 1 \notin K
    BY <1>2 DEF Orders
  <2> QED BY <2>1, <2>2
<1> HIDE DEF a
<1>7. a \in Carved(r, k)
  BY <1>3, <1>5, <1>6 DEF Carved
<1> QED BY <1>3, <1>4, <1>7

\* The lists that init_pmm leaves are sound.
ListPieces(fl) == {x \in Pieces : x[2] \in fl[x[3]]}
FirstLists == [k \in Orders |-> {a - Base : a \in UNION {Carved(r, k) : r \in Regions}}]

LEMMA PieceFacts ==
  /\ \A x \in Pieces : /\ x[1] = "list" /\ x[2] \in Pages /\ x[3] \in Orders
                       /\ x = <<"list", x[2], x[3]>>
  /\ \A b \in Pages, k \in Orders : <<"list", b, k>> \in Pieces
BY DEF Pieces

LEMMA FirstPiece ==
  ASSUME NEW x \in ListPieces(FirstLists)
  PROVE  /\ x = <<"list", x[2], x[3]>> /\ x[2] \in Nat /\ x[3] \in Orders
         /\ \E r \in Regions : x[2] + Base \in Carved(r, x[3])
<1>1. x = <<"list", x[2], x[3]>> /\ x[2] \in Pages /\ x[3] \in Orders /\ x[2] \in FirstLists[x[3]]
  BY PieceFacts DEF ListPieces
<1>2. PICK r \in Regions : \E a \in Carved(r, x[3]) : x[2] = a - Base
  BY <1>1 DEF FirstLists
<1> PICK a \in Carved(r, x[3]) : x[2] = a - Base
  BY <1>2
<1>3. x[2] + Base = a
  BY <1>1, <1>2, CarvedFacts, MapAssumption
<1> QED BY <1>1, <1>2, <1>3 DEF Pages

LEMMA Shifted ==
  ASSUME NEW b \in Nat, NEW k \in Orders, NEW p \in Extent(b, k)
  PROVE  p \in Nat /\ p + Base \in Extent(b + Base, k)
BY SizeType, MapAssumption DEF Extent

LEMMA FirstSound ==
  ASSUME BlocksAligned
  PROVE  Sound(ListPieces(FirstLists)) /\ FirstLists \in [Orders -> SUBSET Pages]
<1> DEFINE H == ListPieces(FirstLists)
<1>1. ASSUME NEW x \in H PROVE Aligned(x)
  <2>1. PICK r \in Regions : x[2] + Base \in Carved(r, x[3])
    BY FirstPiece
  <2>2. x[2] \in Nat /\ x[3] \in Orders /\ (x[2] + Base) - Base = x[2]
    BY FirstPiece, MapAssumption
  <2> QED BY <2>1, <2>2 DEF BlocksAligned, Aligned
<1>2. Apart(H)
  <2>1. SUFFICES ASSUME NEW x \in H, NEW y \in H, NEW p \in ExtentOf(x), p \in ExtentOf(y)
                 PROVE  x = y
    BY DEF Apart
  <2>2. PICK r \in Regions : x[2] + Base \in Carved(r, x[3])
    BY FirstPiece
  <2>3. PICK s \in Regions : y[2] + Base \in Carved(s, y[3])
    BY FirstPiece
  <2>4. /\ x[2] \in Nat /\ x[3] \in Orders /\ x = <<"list", x[2], x[3]>>
        /\ y[2] \in Nat /\ y[3] \in Orders /\ y = <<"list", y[2], y[3]>>
    BY FirstPiece
  <2>5. p + Base \in Extent(x[2] + Base, x[3]) /\ p + Base \in Extent(y[2] + Base, y[3])
    <3>1. p \in Extent(x[2], x[3]) /\ p \in Extent(y[2], y[3])
      BY <2>1 DEF ExtentOf
    <3> QED BY <2>4, <3>1, Shifted
  <2>6. r = s
    BY <2>2, <2>3, <2>4, <2>5, CarvedFacts, RegionsApart
  <2>7. x[3] = y[3] /\ x[2] + Base = y[2] + Base
    <3>1. x[3] <= y[3] \/ y[3] <= x[3]
      BY <2>4 DEF Orders
    <3> QED BY <2>2, <2>3, <2>4, <2>5, <2>6, <3>1, CarvedApart
  <2>8. x[2] = y[2]
    BY <2>4, <2>7, MapAssumption
  <2> QED BY <2>4, <2>7, <2>8
<1>3. ASSUME NEW r \in Regions, NEW k \in Orders, NEW a \in Carved(r, k)
      PROVE  /\ a - Base \in Nat
             /\ Extent(a - Base, k) = {p - Base : p \in Extent(a, k)}
             /\ Extent(a - Base, k) \subseteq Usable
  <2>1. a \in Nat /\ Base <= a /\ Base \in Nat /\ Extent(a, k) \subseteq Above(r) /\ Size[k] \in Nat
    BY CarvedFacts, MapAssumption, SizeType
  <2>2. ASSUME NEW p \in Extent(a - Base, k) PROVE p + Base \in Extent(a, k) /\ p = (p + Base) - Base
    BY <2>1 DEF Extent
  <2>3. ASSUME NEW p \in Extent(a, k) PROVE p - Base \in Extent(a - Base, k)
    BY <2>1 DEF Extent
  <2>4. Extent(a - Base, k) = {p - Base : p \in Extent(a, k)}
    BY <2>2, <2>3
  <2> QED BY <2>1, <2>4 DEF Usable
<1>4. ASSUME NEW x \in H PROVE ExtentOf(x) \subseteq Usable
  <2>1. PICK r \in Regions : x[2] + Base \in Carved(r, x[3])
    BY FirstPiece
  <2>2. x[3] \in Orders /\ (x[2] + Base) - Base = x[2]
    BY FirstPiece, MapAssumption
  <2> QED BY <1>3, <2>1, <2>2 DEF ExtentOf
<1>5. FirstLists \in [Orders -> SUBSET Pages]
  <2>1. ASSUME NEW r \in Regions, NEW k \in Orders, NEW a \in Carved(r, k) PROVE a - Base \in Pages
    BY <1>3, UsablePages, ExtentFacts
  <2> QED BY <2>1 DEF FirstLists
<1>6. ASSUME NEW p \in Usable PROVE p \in Cover(H)
  <2>1. PICK r \in Regions : \E q \in Above(r) : p = q - Base
    BY DEF Usable
  <2> PICK q \in Above(r) : p = q - Base
    BY <2>1
  <2>2. PICK k \in Orders : \E a \in Carved(r, k) : q \in Extent(a, k)
    BY CarvedCovers
  <2> PICK a \in Carved(r, k) : q \in Extent(a, k)
    BY <2>2
  <2>3. p \in Extent(a - Base, k)
    BY <1>3, <2>1, <2>2
  <2> DEFINE x == <<"list", a - Base, k>>
  <2>4. a - Base \in FirstLists[k]
    BY DEF FirstLists
  <2>5. x \in H
    BY <1>5, <2>4, PieceFacts DEF ListPieces
  <2> QED BY <2>3, <2>5 DEF Cover, ExtentOf
<1> HIDE DEF H
<1>7. Cover(H) = Usable
  BY <1>4, <1>6 DEF Cover
<1> QED BY <1>1, <1>2, <1>5, <1>7 DEF Sound, H

---------------------------------------------------------------------------
\* The inductive invariant: besides the properties, that every piece is aligned for its order,
\* and how far a call is when it has a block in hand.
CallerPieces(l) == {<<"caller", e[1], e[2]>> : e \in l}
Hand(c, o) == IF o.block # None THEN {<<c, o.block, o.cur>>} ELSE {}
HandPieces(f) == UNION {Hand(c, f[c]) : c \in Contexts}

OpOK(o) ==
  /\ o.block # None <=> o.pc \in {"split", "merge", "join", "put"}
  /\ o.pc # "scan" => o.cur \in Orders
  /\ o.pc \in {"scan", "take", "split"} => o.order <= o.cur
  /\ o.pc = "join" => o.cur < MaxOrder - 1

ShapeInv ==
  /\ free_lists \in [Orders -> SUBSET Pages]
  /\ bitmap \subseteq Pages
  /\ order_map \in [Pages -> Orders]
  /\ used_memory \in Nat
  /\ lock \in [Contexts -> Orders \cup {None}]
  /\ op \in [Contexts -> Call_]
  /\ live \subseteq Pages \X Orders
OpInv == \A c \in Contexts : OpOK(op[c])
IInv == ShapeInv /\ OpInv /\ Sound(Held) /\ BitmapIsTrue /\ UsedIsTrue

\* The parts of Held, and how a change of one of them changes it.
LEMMA HeldParts ==
  /\ Held = ListPieces(free_lists) \cup CallerPieces(live) \cup HandPieces(op)
  /\ Held' = ListPieces(free_lists') \cup CallerPieces(live') \cup HandPieces(op')
<1>1. HandPieces(op) = {<<c, op[c].block, op[c].cur>> : c \in {d \in Contexts : InHand(d)}}
  BY DEF HandPieces, Hand, InHand
<1>2. HandPieces(op') = {<<c, op[c].block, op[c].cur>> : c \in {d \in Contexts : InHand(d)}}'
  BY DEF HandPieces, Hand, InHand
<1> QED BY <1>1, <1>2 DEF Held, ListPieces, CallerPieces

LEMMA ListAdded ==
  ASSUME NEW fl \in [Orders -> SUBSET Pages], NEW k \in Orders, NEW b \in Pages
  PROVE  /\ [fl EXCEPT ![k] = @ \cup {b}] \in [Orders -> SUBSET Pages]
         /\ ListPieces([fl EXCEPT ![k] = @ \cup {b}]) = ListPieces(fl) \cup {<<"list", b, k>>}
<1> DEFINE new == [fl EXCEPT ![k] = @ \cup {b}]
<1>1. \A x \in Pieces : x[2] \in new[x[3]] <=> x[2] \in fl[x[3]] \/ x = <<"list", b, k>>
  BY PieceFacts
<1>2. <<"list", b, k>> \in Pieces
  BY PieceFacts
<1>3. new \in [Orders -> SUBSET Pages]
  OBVIOUS
<1> HIDE DEF new
<1>4. ListPieces(new) = ListPieces(fl) \cup {<<"list", b, k>>}
  BY <1>1, <1>2 DEF ListPieces
<1> QED BY <1>3, <1>4 DEF new

LEMMA ListRemoved ==
  ASSUME NEW fl \in [Orders -> SUBSET Pages], NEW k \in Orders, NEW b \in fl[k]
  PROVE  /\ [fl EXCEPT ![k] = @ \ {b}] \in [Orders -> SUBSET Pages]
         /\ <<"list", b, k>> \in ListPieces(fl)
         /\ ListPieces([fl EXCEPT ![k] = @ \ {b}]) = ListPieces(fl) \ {<<"list", b, k>>}
<1> DEFINE new == [fl EXCEPT ![k] = @ \ {b}]
<1>1. \A x \in Pieces : x[2] \in new[x[3]] <=> x[2] \in fl[x[3]] /\ x # <<"list", b, k>>
  BY PieceFacts
<1>2. <<"list", b, k>> \in Pieces
  BY PieceFacts
<1>3. new \in [Orders -> SUBSET Pages]
  OBVIOUS
<1> HIDE DEF new
<1>4. ListPieces(new) = ListPieces(fl) \ {<<"list", b, k>>} /\ <<"list", b, k>> \in ListPieces(fl)
  BY <1>1, <1>2 DEF ListPieces
<1> QED BY <1>3, <1>4 DEF new

LEMMA CallersChanged ==
  ASSUME NEW l, l \subseteq Pages \X Orders, NEW e \in Pages \X Orders
  PROVE  /\ CallerPieces(l \cup {e}) = CallerPieces(l) \cup {<<"caller", e[1], e[2]>>}
         /\ CallerPieces(l \ {e}) = CallerPieces(l) \ {<<"caller", e[1], e[2]>>}
<1>1. \A d \in l \cup {e} : d = <<d[1], d[2]>>
  OBVIOUS
<1>2. \A d \in l : <<"caller", d[1], d[2]>> = <<"caller", e[1], e[2]>> => d = e
  BY <1>1
<1> QED BY <1>2 DEF CallerPieces

\* A call that goes on from op[c] to n.
LEMMA Goes ==
  ASSUME ShapeInv, OpInv, NEW c \in Contexts, NEW n \in Call_, OpOK(n), Goto(c, n)
  PROVE  /\ op' \in [Contexts -> Call_] /\ OpInv'
         /\ Hand(c, op[c]) \subseteq HandPieces(op)
         /\ HandPieces(op') = (HandPieces(op) \ Hand(c, op[c])) \cup Hand(c, n)
<1>1. op' = [op EXCEPT ![c] = n] /\ op \in [Contexts -> Call_]
  BY DEF Goto, ShapeInv
<1>2. op'[c] = n /\ \A d \in Contexts \ {c} : op'[d] = op[d]
  BY <1>1
<1>3. op' \in [Contexts -> Call_]
  BY <1>1
<1>4. OpInv'
  <2>1. \A d \in Contexts : OpOK(op'[d])
    BY <1>2 DEF OpInv
  <2> QED BY <2>1 DEF OpInv, OpOK
<1>5. \A d \in Contexts : \A o : \A x \in Hand(d, o) : x[1] = d
  BY DEF Hand
<1> QED BY <1>2, <1>3, <1>4, <1>5 DEF HandPieces

LEMMA Tags ==
  /\ \A x \in ListPieces(free_lists) : x[1] = "list"
  /\ \A x \in CallerPieces(live) : x[1] = "caller"
  /\ \A x \in HandPieces(op) : x[1] \notin {"list", "caller"}
<1>1. \A x \in ListPieces(free_lists) : x[1] = "list"
  BY PieceFacts DEF ListPieces
<1>2. \A x \in CallerPieces(live) : x[1] = "caller"
  BY DEF CallerPieces
<1>3. \A c \in Contexts : c \notin {"list", "caller"}
  BY ContextAssumption DEF Contexts
<1>4. \A x \in HandPieces(op) : x[1] \notin {"list", "caller"}
  BY <1>3 DEF HandPieces, Hand
<1> QED BY <1>1, <1>2, <1>4

---------------------------------------------------------------------------
\* The exchanges of pieces that the steps make.
LEMMA PairCover ==
  ASSUME NEW x, NEW y
  PROVE  Cover({x, y}) = ExtentOf(x) \cup ExtentOf(y) /\ Cover({x}) = ExtentOf(x)
BY DEF Cover

LEMMA Relabelled ==
  ASSUME NEW x, NEW y, Aligned(x), y[2] = x[2], y[3] = x[3]
  PROVE  (\A w \in {y} : Aligned(w)) /\ Apart({y}) /\ Cover({y}) = Cover({x})
BY DEF Aligned, Apart, Cover, ExtentOf

LEMMA Joined ==
  ASSUME NEW x, NEW y, NEW z, Aligned(x), x[3] + 1 \in Orders,
         y[2] = Buddy(x[2], x[3]), y[3] = x[3],
         z[2] = Least(x[2], Buddy(x[2], x[3])), z[3] = x[3] + 1
  PROVE  (\A w \in {z} : Aligned(w)) /\ Apart({z}) /\ Cover({z}) = Cover({y, x})
<1>1. x[2] \in Nat /\ x[2] % Size[x[3]] = 0 /\ x[3] \in Orders
  BY DEF Aligned
<1>2. /\ y[2] \in Nat /\ z[2] \in {x[2], y[2]} /\ z[2] % Size[z[3]] = 0
      /\ Extent(x[2], x[3]) \cup Extent(y[2], x[3]) = Extent(z[2], z[3])
  BY <1>1, BuddyOf
<1>3. Aligned(z)
  BY <1>1, <1>2 DEF Aligned
<1>4. ExtentOf(x) \cup ExtentOf(y) = ExtentOf(z)
  BY <1>2 DEF ExtentOf
<1>5. Apart({z})
  BY DEF Apart
<1>6. Cover({y, x}) = ExtentOf(y) \cup ExtentOf(x) /\ Cover({z}) = ExtentOf(z)
  BY PairCover
<1>7. Cover({z}) = Cover({y, x})
  BY <1>4, <1>6
<1> QED BY <1>3, <1>5, <1>7

LEMMA Halved ==
  ASSUME NEW x, NEW y, NEW z, NEW k \in Orders, Aligned(x), x[3] = k + 1,
         y[2] = Buddy(x[2], k), y[3] = k, z[2] = Least(x[2], Buddy(x[2], k)), z[3] = k
  PROVE  /\ (\A w \in {y, z} : Aligned(w)) /\ Apart({y, z}) /\ Cover({y, z}) = Cover({x})
         /\ y[2] \in ExtentOf(x) /\ z[2] = x[2]
<1>1. x[2] \in Nat /\ x[2] % Size[k + 1] = 0 /\ k + 1 \in Orders
  BY DEF Aligned
<1>2. x[2] % Size[k] = 0 /\ y[2] % Size[k] = 0 /\ z[2] = x[2]
  BY <1>1, HalvesOf
<1>3. /\ y[2] \in Nat
      /\ Extent(z[2], k) \cap Extent(y[2], k) = {}
      /\ Extent(z[2], k) \cup Extent(y[2], k) = Extent(x[2], k + 1)
  <2>1. Least(x[2], Buddy(x[2], k)) = x[2] /\ x[2] \in Nat /\ x[2] % Size[k] = 0
    BY <1>1, <1>2
  <2>2. /\ Buddy(x[2], k) \in Nat
        /\ Extent(x[2], k) \cap Extent(Buddy(x[2], k), k) = {}
        /\ Extent(x[2], k) \cup Extent(Buddy(x[2], k), k) = Extent(Least(x[2], Buddy(x[2], k)), k + 1)
    BY <1>1, <2>1, BuddyOf
  <2> QED BY <1>2, <2>1, <2>2
<1>4. Aligned(y) /\ Aligned(z)
  BY <1>1, <1>2, <1>3 DEF Aligned
<1>5. ExtentOf(z) \cap ExtentOf(y) = {} /\ ExtentOf(z) \cup ExtentOf(y) = ExtentOf(x)
  BY <1>3 DEF ExtentOf
<1>6. Apart({y, z})
  BY <1>5 DEF Apart
<1>7. y[2] \in Extent(y[2], k)
  BY <1>3, ExtentFacts
<1>8. y[2] \in ExtentOf(x)
  <2>1. y[2] \in ExtentOf(y)
    BY <1>7 DEF ExtentOf
  <2> QED BY <1>5, <2>1
<1>9. Cover({y, z}) = Cover({x})
  <2>1. Cover({y, z}) = ExtentOf(y) \cup ExtentOf(z) /\ Cover({x}) = ExtentOf(x)
    BY PairCover
  <2> QED BY <1>5, <2>1
<1> QED BY <1>2, <1>4, <1>6, <1>8, <1>9

\* The piece that a call has in hand.
LEMMA InHandFacts ==
  ASSUME IInv, NEW c \in Contexts, op[c].block # None
  PROVE  LET b == op[c].block
             k == op[c].cur
         IN  /\ b \in Pages /\ b \in Nat /\ k \in Orders
             /\ <<c, b, k>> \in Held /\ Aligned(<<c, b, k>>)
             /\ Extent(b, k) \subseteq Usable /\ Extent(b, k) \subseteq Pages
             /\ Hand(c, op[c]) = {<<c, b, k>>}
<1> DEFINE x == <<c, op[c].block, op[c].cur>>
<1>1. Hand(c, op[c]) = {x}
  BY DEF Hand
<1>2. x \in Held
  BY <1>1, HeldParts DEF HandPieces
<1>3. Aligned(x)
  BY <1>2 DEF IInv, Sound
<1>4. x[2] \in Pages /\ x[3] \in Orders /\ ExtentOf(x) \subseteq Usable /\ ExtentOf(x) \subseteq Pages
  BY <1>2, SoundPages DEF IInv
<1> QED BY <1>1, <1>2, <1>3, <1>4 DEF ExtentOf, Pages

---------------------------------------------------------------------------
\* A step of a call that moves no piece.
LEMMA Stays ==
  ASSUME IInv, NEW c \in Contexts, NEW n \in Call_, OpOK(n), Goto(c, n),
         n.block = op[c].block, n.cur = op[c].cur \/ n.block = None,
         UNCHANGED <<free_lists, live>>
  PROVE  op' \in [Contexts -> Call_] /\ OpInv' /\ Sound(Held')
<1>1. Hand(c, n) = Hand(c, op[c])
  BY DEF Hand
<1>2. HandPieces(op') = HandPieces(op)
  BY <1>1, Goes DEF IInv
<1>3. Held' = Held
  BY <1>2, HeldParts
<1> QED BY <1>3, Goes DEF IInv

\* A step that takes a piece from a list into the hand of the call, or the other way.
LEMMA Grabs ==
  ASSUME IInv, NEW c \in Contexts, NEW n \in Call_, OpOK(n), Goto(c, n),
         op[c].block = None, NEW k \in Orders, NEW b \in free_lists[k],
         n.block = b, n.cur = k, b # None, Remove(k, b), UNCHANGED live
  PROVE  op' \in [Contexts -> Call_] /\ OpInv' /\ free_lists' \in [Orders -> SUBSET Pages] /\ Sound(Held')
<1>1. free_lists \in [Orders -> SUBSET Pages]
  BY DEF IInv, ShapeInv
<1> DEFINE x == <<"list", b, k>>
           y == <<c, b, k>>
<1>2. Hand(c, op[c]) = {} /\ Hand(c, n) = {y}
  BY DEF Hand
<1>3. HandPieces(op') = HandPieces(op) \cup {y}
  BY <1>2, Goes DEF IInv
<1>4. /\ free_lists' \in [Orders -> SUBSET Pages]
      /\ ListPieces(free_lists') = ListPieces(free_lists) \ {x}
      /\ x \in ListPieces(free_lists)
  <2>1. free_lists' = [free_lists EXCEPT ![k] = @ \ {b}]
    BY DEF Remove
  <2> QED BY <1>1, <2>1, ListRemoved
<1>5. x[1] = "list" /\ x[2] = y[2] /\ x[3] = y[3]
  OBVIOUS
<1> HIDE DEF x, y
<1>6. x \in Held /\ Held' = (Held \ {x}) \cup {y}
  BY <1>3, <1>4, <1>5, Tags, HeldParts
<1>7. (\A w \in {y} : Aligned(w)) /\ Apart({y}) /\ Cover({y}) = Cover({x})
  <2>1. Aligned(x)
    BY <1>6 DEF IInv, Sound
  <2> QED BY <1>5, <2>1, Relabelled
<1>8. Sound((Held \ {x}) \cup {y})
  BY <1>6, <1>7, Exchange DEF IInv
<1> QED BY <1>4, <1>6, <1>8, Goes DEF IInv

\* A call that ends and leaves its block on a list.
LEMMA Leaves ==
  ASSUME IInv, NEW c \in Contexts, op[c].block # None, Return(c),
         Add(op[c].cur, op[c].block), UNCHANGED live
  PROVE  op' \in [Contexts -> Call_] /\ OpInv' /\ free_lists' \in [Orders -> SUBSET Pages] /\ Sound(Held')
<1> DEFINE b == op[c].block
           k == op[c].cur
           x == <<c, b, k>>
           y == <<"list", b, k>>
<1>1. /\ b \in Pages /\ k \in Orders /\ x \in Held /\ Aligned(x) /\ Hand(c, op[c]) = {x}
      /\ free_lists \in [Orders -> SUBSET Pages]
  BY InHandFacts DEF IInv, ShapeInv
<1>2. Idle \in Call_ /\ OpOK(Idle) /\ Hand(c, Idle) = {}
  <2>1. 0 \in Orders /\ 0 \in 0 .. MaxOrder
    BY OrderAssumption DEF Orders
  <2> QED BY <2>1 DEF Idle, Call_, OpOK, Hand
<1>3. /\ op' \in [Contexts -> Call_] /\ OpInv'
      /\ HandPieces(op') = HandPieces(op) \ {x} /\ x \in HandPieces(op)
  BY <1>1, <1>2, Goes DEF IInv, Return
<1>4. /\ free_lists' \in [Orders -> SUBSET Pages]
      /\ ListPieces(free_lists') = ListPieces(free_lists) \cup {y}
  <2>1. free_lists' = [free_lists EXCEPT ![k] = @ \cup {b}]
    BY DEF Add
  <2> QED BY <1>1, <2>1, ListAdded
<1>5. x[1] \notin {"list", "caller"} /\ y[1] = "list" /\ x[2] = y[2] /\ x[3] = y[3]
  BY <1>3, Tags
<1> HIDE DEF x, y, b, k
<1>6. x \in Held /\ Held' = (Held \ {x}) \cup {y}
  BY <1>1, <1>3, <1>4, <1>5, Tags, HeldParts
<1>7. (\A w \in {y} : Aligned(w)) /\ Apart({y}) /\ Cover({y}) = Cover({x})
  BY <1>1, <1>5, Relabelled
<1>8. Sound((Held \ {x}) \cup {y})
  BY <1>6, <1>7, Exchange DEF IInv
<1> QED BY <1>3, <1>4, <1>6, <1>8

\* The step in which Join merges the block with its buddy.
LEMMA Merges ==
  ASSUME IInv, NEW c \in Contexts, op[c].pc = "join",
         LET k     == op[c].cur
             buddy == Buddy(op[c].block, k)
         IN  /\ buddy \in free_lists[k]
             /\ Remove(k, buddy)
             /\ Goto(c, [pc |-> "merge", order |-> 0, cur |-> k + 1,
                         block |-> Least(op[c].block, buddy)]),
         UNCHANGED live
  PROVE  op' \in [Contexts -> Call_] /\ OpInv' /\ free_lists' \in [Orders -> SUBSET Pages] /\ Sound(Held')
<1> DEFINE b == op[c].block
           k == op[c].cur
           d == Buddy(b, k)
           l == Least(b, d)
           x == <<c, b, k>>
           y == <<"list", d, k>>
           z == <<c, l, k + 1>>
           n == [pc |-> "merge", order |-> 0, cur |-> k + 1, block |-> l]
<1>1. op[c] \in Call_ /\ OpOK(op[c]) /\ free_lists \in [Orders -> SUBSET Pages]
  BY DEF IInv, ShapeInv, OpInv
<1>2. b # None /\ k + 1 \in Orders
  BY <1>1, OrderAssumption DEF OpOK, Orders
<1>3. b \in Pages /\ b \in Nat /\ k \in Orders /\ x \in Held /\ Aligned(x) /\ Hand(c, op[c]) = {x}
  BY <1>2, InHandFacts
<1>4. d \in Pages /\ d \in free_lists[k]
  BY <1>1, <1>3
<1>5. l \in Pages /\ l # None
  <2>1. l \in {b, d} /\ None \notin Pages
    BY ContextAssumption DEF Least, Pages
  <2> QED BY <1>3, <1>4, <2>1
<1>6. Goto(c, n)
  OBVIOUS
<1>7. n \in Call_ /\ OpOK(n) /\ Hand(c, n) = {z}
  <2>1. k + 1 \in 0 .. MaxOrder /\ 0 \in Orders
    BY <1>2, OrderAssumption DEF Orders
  <2>2. n \in Call_
    BY <1>1, <1>5, <2>1 DEF Call_
  <2>3. n.block # None /\ n.pc = "merge" /\ n.cur = k + 1 /\ n.block = l
    BY <1>5
  <2> HIDE DEF n
  <2>4. OpOK(n)
    BY <1>2, <2>3 DEF OpOK
  <2> QED BY <2>2, <2>3, <2>4 DEF Hand
<1> HIDE DEF n
<1>9. /\ op' \in [Contexts -> Call_] /\ OpInv' /\ x \in HandPieces(op)
      /\ HandPieces(op') = (HandPieces(op) \ {x}) \cup {z}
  BY <1>3, <1>6, <1>7, Goes DEF IInv
<1>10. /\ free_lists' \in [Orders -> SUBSET Pages]
       /\ y \in ListPieces(free_lists)
       /\ ListPieces(free_lists') = ListPieces(free_lists) \ {y}
  <2>1. free_lists' = [free_lists EXCEPT ![k] = @ \ {d}]
    BY DEF Remove
  <2> QED BY <1>1, <1>3, <1>4, <2>1, ListRemoved
<1>11. /\ x[1] \notin {"list", "caller"} /\ y[1] = "list"
       /\ y[2] = Buddy(x[2], x[3]) /\ y[3] = x[3]
       /\ z[2] = Least(x[2], Buddy(x[2], x[3])) /\ z[3] = x[3] + 1 /\ x[3] + 1 \in Orders
  BY <1>2, <1>9, Tags
<1> HIDE DEF x, y, z
<1>12. {y, x} \subseteq Held /\ Held' = (Held \ {y, x}) \cup {z}
  BY <1>9, <1>10, <1>11, Tags, HeldParts
<1>13. (\A w \in {z} : Aligned(w)) /\ Apart({z}) /\ Cover({z}) = Cover({y, x})
  BY <1>3, <1>11, Joined
<1>14. Sound((Held \ {y, x}) \cup {z})
  BY <1>12, <1>13, Exchange DEF IInv
<1> QED BY <1>9, <1>10, <1>12, <1>14

\* The half that Split puts on a list has a number: the block does not go back.
LEMMA Splits ==
  ASSUME IInv, NEW c \in Contexts, Split(c)
  PROVE  op' \in [Contexts -> Call_] /\ OpInv' /\ free_lists' \in [Orders -> SUBSET Pages] /\ Sound(Held')
<1> DEFINE b == op[c].block
           k == op[c].cur - 1
           d == Buddy(b, k)
           l == Least(b, d)
           x == <<c, b, op[c].cur>>
           y == <<"list", d, k>>
           z == <<c, l, k>>
           n == [pc |-> "split", order |-> op[c].order, cur |-> k, block |-> l]
<1>1. /\ op[c] \in Call_ /\ OpOK(op[c]) /\ free_lists \in [Orders -> SUBSET Pages]
      /\ op[c].pc = "split" /\ op[c].cur > op[c].order /\ live' = live
  BY DEF IInv, ShapeInv, OpInv, Split, At
<1>2. b # None /\ op[c].cur \in Orders /\ op[c].order \in Orders
  BY <1>1 DEF OpOK, Call_
<1>3. k \in Orders /\ k + 1 = op[c].cur /\ op[c].order <= k
  <2>1. \A i, j \in Orders : i > j => i - 1 \in Orders /\ (i - 1) + 1 = i /\ j <= i - 1
    BY OrderAssumption DEF Orders
  <2> QED BY <1>1, <1>2, <2>1
<1>4. /\ b \in Pages /\ b \in Nat /\ x \in Held /\ Aligned(x) /\ Hand(c, op[c]) = {x}
      /\ Extent(b, op[c].cur) \subseteq Pages
  BY <1>2, InHandFacts
<1>5. /\ x[2] = b /\ x[3] = k + 1 /\ y[2] = Buddy(x[2], k) /\ y[3] = k /\ y[1] = "list"
      /\ z[2] = Least(x[2], Buddy(x[2], k)) /\ z[3] = k /\ x[3] = op[c].cur
  BY <1>3
<1>6. y = <<"list", d, k>> /\ y[2] = d /\ z[2] = l
  OBVIOUS
<1>7. /\ \A w \in {y, z} : Aligned(w)
      /\ Apart({y, z})
      /\ Cover({y, z}) = Cover({x})
      /\ y[2] \in ExtentOf(x) /\ z[2] = x[2]
  <2> HIDE DEF x, y, z, k
  <2> QED BY <1>3, <1>4, <1>5, Halved
<1>8. d \in Pages /\ l = b
  <2> HIDE DEF x, y, z, l, d
  <2> QED BY <1>4, <1>5, <1>6, <1>7 DEF ExtentOf
<1>9. d < MaxBlocks
  BY <1>8, UsablePages DEF Pages
<1>10. Add(k, d) /\ Goto(c, n)
  BY <1>9 DEF Split
<1>11. n \in Call_ /\ OpOK(n) /\ Hand(c, n) = {z}
  <2>1. k \in 0 .. MaxOrder
    BY <1>3, OrderAssumption DEF Orders
  <2>2. n \in Call_
    BY <1>2, <1>4, <1>8, <2>1 DEF Call_
  <2>3. n.block = l /\ n.pc = "split" /\ n.cur = k /\ n.order = op[c].order /\ l # None
    BY <1>2, <1>8
  <2> HIDE DEF n
  <2>4. OpOK(n)
    BY <1>3, <2>3 DEF OpOK
  <2> QED BY <2>2, <2>3, <2>4 DEF Hand
<1> HIDE DEF n
<1>12. /\ op' \in [Contexts -> Call_] /\ OpInv' /\ x \in HandPieces(op)
       /\ HandPieces(op') = (HandPieces(op) \ {x}) \cup {z}
  BY <1>4, <1>10, <1>11, Goes DEF IInv
<1>13. /\ free_lists' \in [Orders -> SUBSET Pages]
       /\ ListPieces(free_lists') = ListPieces(free_lists) \cup {y}
  <2>1. free_lists' = [free_lists EXCEPT ![k] = @ \cup {d}]
    BY <1>10 DEF Add
  <2> QED BY <1>1, <1>3, <1>8, <2>1, ListAdded
<1> HIDE DEF x, y, z
<1>14. x \in Held /\ Held' = (Held \ {x}) \cup {y, z}
  BY <1>1, <1>5, <1>12, <1>13, Tags, HeldParts
<1>15. Sound((Held \ {x}) \cup {y, z})
  BY <1>7, <1>14, Exchange DEF IInv
<1> QED BY <1>12, <1>13, <1>14, <1>15

---------------------------------------------------------------------------
\* What the callers own.
Owned(l) == UNION {Extent(e[1], e[2]) : e \in l}

LEMMA OwnerFacts ==
  ASSUME IInv, NEW e \in live
  PROVE  /\ e \in Pages \X Orders /\ e = <<e[1], e[2]>> /\ e[1] \in Nat
         /\ <<"caller", e[1], e[2]>> \in CallerPieces(live)
         /\ <<"caller", e[1], e[2]>> \in Held
         /\ Aligned(<<"caller", e[1], e[2]>>)
         /\ e[1] \in Extent(e[1], e[2])
         /\ Extent(e[1], e[2]) \subseteq Usable /\ Extent(e[1], e[2]) \subseteq Pages
         /\ order_map[e[1]] = e[2] /\ e[1] \in bitmap
<1> DEFINE x == <<"caller", e[1], e[2]>>
<1>1. e \in Pages \X Orders /\ e = <<e[1], e[2]>> /\ e[1] \in Nat
  BY DEF IInv, ShapeInv, Pages
<1>2. x \in CallerPieces(live)
  BY DEF CallerPieces
<1>3. x \in Held
  BY <1>2, HeldParts
<1>4. Aligned(x)
  BY <1>3 DEF IInv, Sound
<1>5. e[1] \in Extent(e[1], e[2])
  BY <1>1, ExtentFacts
<1>6. ExtentOf(x) \subseteq Usable /\ ExtentOf(x) \subseteq Pages
  BY <1>3, SoundPages DEF IInv
<1>7. order_map[e[1]] = e[2] /\ e[1] \in bitmap
  BY <1>5 DEF IInv, BitmapIsTrue
<1> QED BY <1>1, <1>2, <1>3, <1>4, <1>5, <1>6, <1>7 DEF ExtentOf

LEMMA OwnersAreApart ==
  ASSUME IInv, NEW e \in live, NEW f \in live, e # f
  PROVE  Extent(e[1], e[2]) \cap Extent(f[1], f[2]) = {} /\ e[1] # f[1]
<1>1. /\ e = <<e[1], e[2]>> /\ f = <<f[1], f[2]>>
      /\ <<"caller", e[1], e[2]>> \in Held /\ <<"caller", f[1], f[2]>> \in Held
      /\ e[1] \in Extent(e[1], e[2]) /\ f[1] \in Extent(f[1], f[2])
  BY OwnerFacts
<1> DEFINE x == <<"caller", e[1], e[2]>>
           y == <<"caller", f[1], f[2]>>
<1>2. x # y
  BY <1>1
<1>3. ExtentOf(x) \cap ExtentOf(y) = {}
  BY <1>1, <1>2 DEF IInv, Sound, Apart
<1>4. Extent(e[1], e[2]) \cap Extent(f[1], f[2]) = {}
  BY <1>3 DEF ExtentOf
<1> QED BY <1>1, <1>4

LEMMA PagesFinite == IsFiniteSet(Pages) /\ Cardinality(Pages) = MaxBlocks
<1>1. MaxBlocks \in Nat /\ 0 \in Int /\ MaxBlocks - 1 \in Int
  BY UsablePages
<1>2. IsFiniteSet(0 .. MaxBlocks - 1)
      /\ Cardinality(0 .. MaxBlocks - 1) = IF 0 > MaxBlocks - 1 THEN 0 ELSE MaxBlocks - 1 - 0 + 1
  BY <1>1, FS_Interval, Zenon
<1> QED BY <1>1, <1>2 DEF Pages

\* The pages of a block are counted once.
LEMMA Counted ==
  ASSUME NEW S, NEW b \in Nat, NEW k \in Orders, S \subseteq Pages, S \cap Extent(b, k) = {}
  PROVE  /\ IsFiniteSet(S) /\ Cardinality(S) \in Nat /\ Cardinality(S) <= MaxBlocks
         /\ Cardinality(S \cup Extent(b, k)) = Cardinality(S) + Size[k]
<1>1. IsFiniteSet(Pages) /\ Cardinality(Pages) = MaxBlocks
  BY PagesFinite
<1>2. IsFiniteSet(S) /\ Cardinality(S) <= MaxBlocks
  BY <1>1, FS_Subset
<1>3. Cardinality(S) \in Nat
  BY <1>2, FS_CardinalityType
<1>4. IsFiniteSet(Extent(b, k)) /\ Cardinality(Extent(b, k)) = Size[k] /\ Size[k] \in Nat
  BY ExtentFacts, SizeType
<1>5. Cardinality(S \cup Extent(b, k)) =
        Cardinality(S) + Cardinality(Extent(b, k)) - Cardinality(S \cap Extent(b, k))
  BY <1>2, <1>4, FS_Union
<1>6. Cardinality(S \cap Extent(b, k)) = 0
  BY FS_EmptySet, Zenon
<1> QED BY <1>2, <1>3, <1>4, <1>5, <1>6

LEMMA UsedFacts ==
  ASSUME IInv
  PROVE  Owned(live) \subseteq Pages /\ bitmap = Owned(live) /\ used_memory = Cardinality(Owned(live))
BY OwnerFacts DEF Owned, IInv, BitmapIsTrue, UsedIsTrue

\* Grant: the block has numbers, so the caller gets it.
LEMMA Grants ==
  ASSUME IInv, NEW c \in Contexts, Grant(c)
  PROVE  ShapeInv' /\ OpInv' /\ Sound(Held') /\ BitmapIsTrue' /\ UsedIsTrue'
         /\ \E e \in Pages \X Orders :
              /\ live' = live \cup {e}
              /\ Extent(e[1], e[2]) \subseteq Usable \ Owned(live)
              /\ e[1] \in Extent(e[1], e[2])
<1> DEFINE b == op[c].block
           k == op[c].order
           e == <<b, k>>
           x == <<c, b, k>>
           y == <<"caller", b, k>>
<1>1. /\ op[c] \in Call_ /\ OpOK(op[c]) /\ op[c].pc = "split" /\ op[c].cur = k
      /\ live \subseteq Pages \X Orders /\ ShapeInv
  BY DEF IInv, ShapeInv, OpInv, Grant, At
<1>2. b # None
  BY <1>1 DEF OpOK
<1>3. /\ b \in Pages /\ b \in Nat /\ k \in Orders /\ x \in Held /\ Aligned(x) /\ Hand(c, op[c]) = {x}
      /\ Extent(b, k) \subseteq Usable /\ Extent(b, k) \subseteq Pages
  BY <1>1, <1>2, InHandFacts
<1>4. /\ bitmap' = bitmap \cup Extent(b, k)
      /\ order_map' = [order_map EXCEPT ![b] = k]
      /\ used_memory' = used_memory + Size[k]
      /\ live' = live \cup {e}
      /\ Return(c) /\ free_lists' = free_lists /\ lock' = lock
  BY <1>3 DEF Grant, Mark
<1>5. Idle \in Call_ /\ OpOK(Idle) /\ Hand(c, Idle) = {}
  <2>1. 0 \in Orders /\ 0 \in 0 .. MaxOrder
    BY OrderAssumption DEF Orders
  <2> QED BY <2>1 DEF Idle, Call_, OpOK, Hand
<1>6. /\ op' \in [Contexts -> Call_] /\ OpInv'
      /\ HandPieces(op') = HandPieces(op) \ {x} /\ x \in HandPieces(op)
  BY <1>3, <1>4, <1>5, Goes DEF IInv, Return
<1>7. e \in Pages \X Orders /\ e[1] = b /\ e[2] = k
  BY <1>3
<1>8. CallerPieces(live') = CallerPieces(live) \cup {y}
  BY <1>1, <1>4, <1>7, CallersChanged
<1>9. x[1] \notin {"list", "caller"} /\ y[1] = "caller" /\ x[2] = b /\ x[3] = k /\ y[2] = b /\ y[3] = k
  BY <1>6, Tags
<1> HIDE DEF x, y, b, k
<1>10. Held' = (Held \ {x}) \cup {y}
  BY <1>4, <1>6, <1>8, <1>9, Tags, HeldParts
<1>11. Sound(Held')
  <2>1. (\A w \in {y} : Aligned(w)) /\ Apart({y}) /\ Cover({y}) = Cover({x})
    BY <1>3, <1>9, Relabelled
  <2> QED BY <1>3, <1>10, <2>1, Exchange DEF IInv
<1>12. ASSUME NEW f \in live
       PROVE  /\ Extent(f[1], f[2]) \cap Extent(b, k) = {}
              /\ f[1] \notin Extent(b, k) /\ f[1] \in Pages
  <2> DEFINE z == <<"caller", f[1], f[2]>>
  <2>1. z \in Held /\ f[1] \in Extent(f[1], f[2]) /\ f[1] \in Pages
    BY OwnerFacts
  <2>2. z # x
    <3>1. z[1] = "caller"
      OBVIOUS
    <3> QED BY <1>9, <3>1
  <2>3. ExtentOf(z) \cap ExtentOf(x) = {}
    BY <1>3, <2>1, <2>2 DEF IInv, Sound, Apart
  <2>4. Extent(f[1], f[2]) \cap Extent(b, k) = {}
    BY <1>9, <2>3 DEF ExtentOf
  <2> QED BY <2>1, <2>4
<1>13. Owned(live) \cap Extent(b, k) = {} /\ Owned(live') = Owned(live) \cup Extent(b, k)
  BY <1>4, <1>7, <1>12 DEF Owned
<1>14. b \in Extent(b, k)
  BY <1>3, ExtentFacts
<1>15. BitmapIsTrue'
  <2>1. bitmap' = Owned(live')
    BY <1>4, <1>13, UsedFacts
  <2>2. order_map \in [Pages -> Orders]
    BY <1>1 DEF ShapeInv
  <2>3. \A f \in live' : order_map'[f[1]] = f[2]
    BY <1>3, <1>4, <1>7, <1>12, <1>14, <2>2, OwnerFacts
  <2> QED BY <2>1, <2>3 DEF BitmapIsTrue, Owned
<1>16. UsedIsTrue' /\ used_memory' \in Nat
  <2>1. used_memory' = Cardinality(Owned(live'))
    <3>1. Owned(live) \subseteq Pages /\ used_memory = Cardinality(Owned(live))
      BY UsedFacts
    <3>2. Cardinality(Owned(live) \cup Extent(b, k)) = Cardinality(Owned(live)) + Size[k]
      BY <1>3, <1>13, <3>1, Counted, Zenon
    <3> QED BY <1>4, <1>13, <3>1, <3>2
  <2>2. Size[k] \in Nat /\ used_memory \in Nat
    BY <1>1, <1>3, SizeType DEF ShapeInv
  <2> QED BY <1>4, <2>1, <2>2 DEF UsedIsTrue, Owned
<1>17. ShapeInv'
  BY <1>1, <1>3, <1>4, <1>6, <1>7, <1>16 DEF ShapeInv
<1> QED BY <1>3, <1>4, <1>6, <1>7, <1>11, <1>13, <1>14, <1>15, <1>16, <1>17

\* Free: what the caller owned is in the hand of the call.
LEMMA Frees ==
  ASSUME IInv, NEW c \in Contexts, Free(c)
  PROVE  ShapeInv' /\ OpInv' /\ Sound(Held') /\ BitmapIsTrue' /\ UsedIsTrue'
         /\ \E e \in live : live' = live \ {e}
<1>1. PICK e \in live :
        /\ live' = live \ {e}
        /\ IF e[1] \in bitmap
           THEN /\ bitmap' = bitmap \ Extent(e[1], order_map[e[1]])
                /\ order_map' = [order_map EXCEPT ![e[1]] = 0]
                /\ used_memory' = used_memory - Freed(e[1])
                /\ Goto(c, [pc |-> "merge", order |-> 0, cur |-> order_map[e[1]], block |-> e[1]])
           ELSE UNCHANGED <<bitmap, order_map, used_memory, op>>
  BY DEF Free
<1> DEFINE b == e[1]
           k == e[2]
           x == <<"caller", b, k>>
           y == <<c, b, k>>
           n == [pc |-> "merge", order |-> 0, cur |-> k, block |-> b]
<1>2. /\ ShapeInv /\ OpInv /\ op[c] \in Call_ /\ OpOK(op[c]) /\ op[c].pc = "idle"
      /\ UNCHANGED <<free_lists, lock>>
  BY DEF IInv, ShapeInv, OpInv, Free, At
<1>3. /\ e \in Pages \X Orders /\ e = <<b, k>> /\ b \in Nat /\ b \in Pages /\ k \in Orders
      /\ x \in CallerPieces(live) /\ x \in Held /\ Aligned(x)
      /\ b \in Extent(b, k) /\ Extent(b, k) \subseteq Pages
      /\ order_map[b] = k /\ b \in bitmap
  BY OwnerFacts
<1>4. /\ live' = live \ {e}
      /\ bitmap' = bitmap \ Extent(b, k)
      /\ order_map' = [order_map EXCEPT ![b] = 0]
      /\ used_memory' = used_memory - Size[k]
      /\ Goto(c, n)
  BY <1>1, <1>3 DEF Freed
<1>5. n \in Call_ /\ OpOK(n) /\ Hand(c, n) = {y} /\ Hand(c, op[c]) = {}
  <2>1. 0 \in Orders /\ k \in 0 .. MaxOrder
    BY <1>3, OrderAssumption DEF Orders
  <2>2. b # None
    BY <1>3, ContextAssumption
  <2>3. op[c].block = None
    BY <1>2 DEF OpOK
  <2> QED BY <1>3, <2>1, <2>2, <2>3 DEF Call_, OpOK, Hand
<1>6. /\ op' \in [Contexts -> Call_] /\ OpInv'
      /\ HandPieces(op') = HandPieces(op) \cup {y}
  BY <1>2, <1>4, <1>5, Goes
<1>7. CallerPieces(live') = CallerPieces(live) \ {x}
  BY <1>2, <1>3, <1>4, CallersChanged DEF ShapeInv
<1>8. x[1] = "caller" /\ x[2] = b /\ x[3] = k /\ y[2] = b /\ y[3] = k
  OBVIOUS
<1> HIDE DEF x, y, n, b, k
<1>9. Held' = (Held \ {x}) \cup {y}
  BY <1>2, <1>3, <1>6, <1>7, <1>8, Tags, HeldParts
<1>10. Sound(Held')
  <2>1. (\A w \in {y} : Aligned(w)) /\ Apart({y}) /\ Cover({y}) = Cover({x})
    BY <1>3, <1>8, Relabelled
  <2> QED BY <1>3, <1>9, <2>1, Exchange DEF IInv
<1>11. \A f \in live' : /\ f \in live /\ f[1] \in Pages /\ f[1] # b
                        /\ Extent(f[1], f[2]) \cap Extent(b, k) = {}
  BY <1>4, OwnerFacts, OwnersAreApart DEF b, k
<1>12. Owned(live') \cap Extent(b, k) = {} /\ Owned(live) = Owned(live') \cup Extent(b, k)
  <2>1. live = live' \cup {e}
    BY <1>4
  <2> QED BY <1>11, <2>1 DEF Owned, b, k
<1>13. Owned(live') \subseteq Pages
  BY <1>12, UsedFacts
<1>14. BitmapIsTrue'
  <2>1. bitmap' = Owned(live')
    BY <1>4, <1>12, UsedFacts
  <2>2. order_map \in [Pages -> Orders]
    BY <1>2 DEF ShapeInv
  <2>3. \A f \in live' : order_map'[f[1]] = f[2]
    BY <1>4, <1>11, <2>2, OwnerFacts
  <2> QED BY <2>1, <2>3 DEF BitmapIsTrue, Owned
<1>15. UsedIsTrue' /\ used_memory' \in Nat
  <2>1. /\ Cardinality(Owned(live')) \in Nat
        /\ used_memory = Cardinality(Owned(live')) + Size[k]
    <3>1. /\ Cardinality(Owned(live')) \in Nat
          /\ Cardinality(Owned(live') \cup Extent(b, k)) = Cardinality(Owned(live')) + Size[k]
      BY <1>3, <1>12, <1>13, Counted, Zenon
    <3>2. used_memory = Cardinality(Owned(live))
      BY UsedFacts
    <3> QED BY <1>12, <3>1, <3>2
  <2>2. Size[k] \in Nat
    BY <1>3, SizeType
  <2>3. used_memory' = Cardinality(Owned(live'))
    BY <1>4, <2>1, <2>2
  <2> QED BY <2>1, <2>3 DEF UsedIsTrue, Owned
<1>16. ShapeInv'
  <2>1. 0 \in Orders
    BY OrderAssumption DEF Orders
  <2> QED BY <1>2, <1>3, <1>4, <1>6, <1>15, <2>1 DEF ShapeInv
<1> QED BY <1>4, <1>6, <1>10, <1>14, <1>15, <1>16

---------------------------------------------------------------------------
\* Nothing but Grant and Free changes what the callers own.
LEMMA AccountsStay ==
  ASSUME IInv, UNCHANGED <<bitmap, order_map, used_memory, live>>
  PROVE  BitmapIsTrue' /\ UsedIsTrue'
BY DEF IInv, BitmapIsTrue, UsedIsTrue

LEMMA LockStays ==
  ASSUME ShapeInv, NEW c \in Contexts, Unlock(c) \/ UNCHANGED lock
  PROVE  lock' \in [Contexts -> Orders \cup {None}]
BY DEF ShapeInv, Unlock

LEMMA IdleFacts == Idle \in Call_ /\ OpOK(Idle) /\ Idle.block = None /\ 0 \in Orders
<1>1. 0 \in Orders /\ 0 \in 0 .. MaxOrder
  BY OrderAssumption DEF Orders
<1> QED BY <1>1 DEF Idle, Call_, OpOK

LEMMA OrderOf == \A n \in Requests : GetOrder(n) \in Orders
<1> TAKE n \in Requests
<1> DEFINE K == {k \in Orders : Size[k] >= n \/ k = MaxOrder - 1}
<1>1. PICK k \in K : \A j \in K : k <= j
  <2>1. K \subseteq Nat /\ MaxOrder - 1 \in K
    BY OrderAssumption DEF Orders
  <2> HIDE DEF K
  <2> QED BY <2>1, LeastNumber
<1>2. /\ k \in Orders
      /\ Size[k] >= n \/ k = MaxOrder - 1
      /\ \A j \in Orders : j < k => Size[j] < n
  <2>1. ASSUME NEW j \in Orders, j < k PROVE Size[j] < n
    <3>1. j \notin K
      BY <1>1, <2>1 DEF Orders
    <3>2. Size[j] \in Nat /\ n \in Nat
      BY SizeType, RequestAssumption
    <3> QED BY <2>1, <3>1, <3>2
  <2> QED BY <1>1, <2>1
<1> QED BY <1>2 DEF GetOrder

LEMMA ListLocked ==
  ASSUME ShapeInv, OpInv, NEW c \in Contexts, Changes(c)
  PROVE  ListOf(c) \in Orders
<1>1. /\ op[c] \in Call_ /\ OpOK(op[c])
      /\ \/ op[c].pc \in {"take", "join", "put"}
         \/ op[c].pc = "split" /\ op[c].cur > op[c].order
  BY DEF ShapeInv, OpInv, Changes
<1>2. op[c].cur \in Orders /\ op[c].order \in Orders
  BY <1>1 DEF OpOK, Call_
<1>3. op[c].pc = "split" => op[c].cur - 1 \in Orders
  <2>1. \A i, j \in Orders : i > j => i - 1 \in Orders
    BY OrderAssumption DEF Orders
  <2> QED BY <1>1, <1>2, <2>1
<1> QED BY <1>2, <1>3 DEF ListOf

---------------------------------------------------------------------------
\* The steps that only go on.
LEMMA MallocGoes ==
  ASSUME IInv, NEW c \in Contexts, Malloc(c)
  PROVE  op' \in [Contexts -> Call_] /\ OpInv' /\ Sound(Held')
<1>1. PICK m \in Requests :
        Goto(c, [pc |-> "scan", order |-> GetOrder(m), cur |-> GetOrder(m), block |-> None])
  BY DEF Malloc
<1> DEFINE k == GetOrder(m)
           n == [pc |-> "scan", order |-> k, cur |-> k, block |-> None]
<1>2. k \in Orders /\ k \in 0 .. MaxOrder /\ k <= k
  BY OrderOf, OrderAssumption DEF Orders
<1> HIDE DEF k
<1>3. n \in Call_ /\ OpOK(n) /\ n.block = None /\ n.cur = k
  BY <1>2 DEF Call_, OpOK
<1>4. op[c].block = None /\ UNCHANGED <<free_lists, live>>
  BY DEF Malloc, At, IInv, OpInv, OpOK, shared
<1>5. Goto(c, n)
  BY <1>1 DEF k
<1> HIDE DEF n
<1> QED BY <1>3, <1>4, <1>5, Stays

LEMMA ScanGoes ==
  ASSUME IInv, NEW c \in Contexts, Scan(c)
  PROVE  op' \in [Contexts -> Call_] /\ OpInv' /\ Sound(Held')
<1>1. op[c] \in Call_ /\ OpOK(op[c]) /\ op[c].pc = "scan" /\ UNCHANGED <<free_lists, live>>
  BY DEF IInv, ShapeInv, OpInv, Scan, At, shared
<1>2. op[c].block = None /\ op[c].order \in Orders /\ op[c].cur \in 0 .. MaxOrder
      /\ op[c].order <= op[c].cur
  BY <1>1 DEF OpOK, Call_
<1>3. CASE Return(c)
  BY <1>1, <1>2, <1>3, IdleFacts, Stays DEF Return
<1>4. CASE op[c].cur # MaxOrder /\ Goto(c, [op[c] EXCEPT !.cur = @ + 1])
  <2> DEFINE n == [op[c] EXCEPT !.cur = @ + 1]
  <2>1. /\ n \in Call_ /\ n.pc = "scan" /\ n.block = None /\ n.cur = op[c].cur + 1
        /\ n.order = op[c].order
    BY <1>1, <1>2, <1>4, OrderAssumption DEF Call_
  <2>2. n.order <= n.cur
    BY <1>2, <2>1 DEF Orders
  <2> HIDE DEF n
  <2>3. OpOK(n)
    BY <2>1, <2>2 DEF OpOK
  <2>4. Goto(c, n)
    BY <1>4 DEF n
  <2> QED BY <1>1, <1>2, <2>1, <2>3, <2>4, Stays
<1>5. CASE op[c].cur # MaxOrder /\ Goto(c, [op[c] EXCEPT !.pc = "take"])
  <2> DEFINE n == [op[c] EXCEPT !.pc = "take"]
  <2>1. /\ n \in Call_ /\ n.pc = "take" /\ n.block = None /\ n.cur = op[c].cur
        /\ n.order = op[c].order
    BY <1>1, <1>2 DEF Call_
  <2>2. n.cur \in Orders /\ n.order <= n.cur
    BY <1>2, <1>5, <2>1, OrderAssumption DEF Orders
  <2> HIDE DEF n
  <2>3. OpOK(n)
    BY <2>1, <2>2 DEF OpOK
  <2>4. Goto(c, n)
    BY <1>5 DEF n
  <2> QED BY <1>1, <1>2, <2>1, <2>3, <2>4, Stays
<1> QED BY <1>3, <1>4, <1>5 DEF Scan

\* A call that has a block in hand and only changes where it is.
LEMMA HandStays ==
  ASSUME IInv, NEW c \in Contexts, op[c].block # None, NEW pc \in {"put", "join"},
         pc = "join" => op[c].cur < MaxOrder - 1,
         Goto(c, [op[c] EXCEPT !.pc = pc]), UNCHANGED <<free_lists, live>>
  PROVE  op' \in [Contexts -> Call_] /\ OpInv' /\ Sound(Held')
<1> DEFINE n == [op[c] EXCEPT !.pc = pc]
<1>1. op[c] \in Call_ /\ op[c].cur \in Orders
  BY InHandFacts DEF IInv, ShapeInv
<1>2. n \in Call_ /\ n.pc = pc /\ n.block = op[c].block /\ n.cur = op[c].cur
  BY <1>1 DEF Call_
<1> HIDE DEF n
<1>3. OpOK(n)
  BY <1>1, <1>2 DEF OpOK
<1>4. Goto(c, n)
  BY DEF n
<1> QED BY <1>2, <1>3, <1>4, Stays

LEMMA MergeGoes ==
  ASSUME IInv, NEW c \in Contexts, Merge(c)
  PROVE  op' \in [Contexts -> Call_] /\ OpInv' /\ Sound(Held')
<1>1. OpOK(op[c]) /\ op[c].pc = "merge" /\ UNCHANGED <<free_lists, live>>
  BY DEF IInv, OpInv, Merge, At, shared
<1>2. op[c].block # None
  BY <1>1 DEF OpOK
<1>3. \/ op[c].cur < MaxOrder - 1 /\ Goto(c, [op[c] EXCEPT !.pc = "join"])
      \/ Goto(c, [op[c] EXCEPT !.pc = "put"])
  BY DEF Merge
<1> QED BY <1>1, <1>2, <1>3, HandStays

\* The steps that move a block between a list and a call.
LEMMA TakeGoes ==
  ASSUME IInv, NEW c \in Contexts, Take(c)
  PROVE  op' \in [Contexts -> Call_] /\ OpInv' /\ free_lists' \in [Orders -> SUBSET Pages] /\ Sound(Held')
<1> DEFINE k == op[c].cur
<1>1. /\ op[c] \in Call_ /\ OpOK(op[c]) /\ op[c].pc = "take" /\ live' = live
      /\ free_lists \in [Orders -> SUBSET Pages]
  BY DEF IInv, ShapeInv, OpInv, Take, At
<1>2. op[c].block = None /\ k \in Orders /\ op[c].order <= k
  BY <1>1 DEF OpOK
<1>3. CASE Return(c) /\ UNCHANGED free_lists
  BY <1>1, <1>2, <1>3, IdleFacts, Stays DEF Return
<1>4. ASSUME NEW b \in free_lists[k], Remove(k, b),
             Goto(c, [op[c] EXCEPT !.pc = "split", !.block = b])
      PROVE  op' \in [Contexts -> Call_] /\ OpInv' /\ free_lists' \in [Orders -> SUBSET Pages] /\ Sound(Held')
  <2> DEFINE n == [op[c] EXCEPT !.pc = "split", !.block = b]
  <2>1. b \in Pages /\ b # None
    BY <1>1, <1>2, ContextAssumption DEF Pages
  <2>2. /\ n \in Call_ /\ n.pc = "split" /\ n.block = b /\ n.cur = k /\ n.order = op[c].order
    BY <1>1, <2>1 DEF Call_
  <2> HIDE DEF n
  <2>3. OpOK(n)
    BY <1>2, <2>1, <2>2 DEF OpOK
  <2>4. Goto(c, n)
    BY <1>4 DEF n
  <2> QED BY <1>1, <1>2, <1>4, <2>1, <2>2, <2>3, <2>4, Grabs
<1> QED BY <1>3, <1>4 DEF Take

LEMMA JoinGoes ==
  ASSUME IInv, NEW c \in Contexts, Join(c)
  PROVE  op' \in [Contexts -> Call_] /\ OpInv' /\ free_lists' \in [Orders -> SUBSET Pages] /\ Sound(Held')
<1> DEFINE buddy == Buddy(op[c].block, op[c].cur)
<1>1. /\ OpOK(op[c]) /\ op[c].pc = "join" /\ live' = live
      /\ free_lists \in [Orders -> SUBSET Pages]
  BY DEF IInv, ShapeInv, OpInv, Join, At
<1>2. op[c].block # None
  BY <1>1 DEF OpOK
<1>3. CASE Goto(c, [op[c] EXCEPT !.pc = "put"]) /\ UNCHANGED free_lists
  BY <1>1, <1>2, <1>3, HandStays
<1>4. CASE buddy \in free_lists[op[c].cur]
  <2>1. /\ Remove(op[c].cur, buddy)
        /\ Goto(c, [pc |-> "merge", order |-> 0, cur |-> op[c].cur + 1,
                    block |-> Least(op[c].block, buddy)])
    BY <1>4 DEF Join, Listed
  <2> QED BY <1>1, <1>4, <2>1, Merges
<1> QED BY <1>3, <1>4 DEF Join, Listed

LEMMA PutGoes ==
  ASSUME IInv, NEW c \in Contexts, Put(c)
  PROVE  op' \in [Contexts -> Call_] /\ OpInv' /\ free_lists' \in [Orders -> SUBSET Pages] /\ Sound(Held')
<1>1. OpOK(op[c]) /\ op[c].pc = "put" /\ live' = live
  BY DEF IInv, OpInv, Put, At
<1>2. op[c].block # None
  BY <1>1 DEF OpOK
<1> QED BY <1>1, <1>2, Leaves DEF Put

---------------------------------------------------------------------------
\* The invariant is inductive.
LEMMA InitInv == BlocksAligned /\ Init => IInv
<1> SUFFICES ASSUME BlocksAligned, Init PROVE IInv
  OBVIOUS
<1>1. /\ free_lists = FirstLists /\ bitmap = {} /\ order_map = [b \in Pages |-> 0]
      /\ used_memory = 0 /\ lock = [c \in Contexts |-> None]
      /\ op = [c \in Contexts |-> Idle] /\ live = {}
  BY DEF Init, FirstLists
<1>2. ShapeInv
  BY <1>1, IdleFacts, FirstSound DEF ShapeInv
<1>3. OpInv
  BY <1>1, IdleFacts DEF OpInv
<1>4. Sound(Held)
  <2>1. CallerPieces(live) = {} /\ HandPieces(op) = {}
    BY <1>1, IdleFacts DEF CallerPieces, HandPieces, Hand
  <2>2. Held = ListPieces(FirstLists)
    BY <1>1, <2>1, HeldParts
  <2> QED BY <2>2, FirstSound
<1>5. BitmapIsTrue
  BY <1>1 DEF BitmapIsTrue
<1>6. UsedIsTrue
  <2>1. UNION {Extent(e[1], e[2]) : e \in live} = {}
    BY <1>1
  <2> QED BY <1>1, <2>1, FS_EmptySet DEF UsedIsTrue
<1> QED BY <1>2, <1>3, <1>4, <1>5, <1>6 DEF IInv

LEMMA StepInv == IInv /\ [Next]_vars => IInv'
<1> SUFFICES ASSUME IInv, [Next]_vars PROVE IInv'
  OBVIOUS
<1> USE DEF shared
<1>1. ShapeInv /\ OpInv
  BY DEF IInv
<1>2. CASE UNCHANGED vars
  <2>1. Held' = Held
    BY <1>2, HeldParts DEF vars
  <2>2. ShapeInv' /\ OpInv' /\ BitmapIsTrue' /\ UsedIsTrue'
    BY <1>2 DEF IInv, vars, ShapeInv, OpInv, BitmapIsTrue, UsedIsTrue
  <2> QED BY <2>1, <2>2 DEF IInv
<1>3. ASSUME NEW c \in Contexts, Call(c) \/ Go(c) PROVE IInv'
  <2>1. CASE Lock(c)
    <3>1. UNCHANGED <<free_lists, bitmap, order_map, used_memory, op, live>>
      BY <2>1 DEF Lock
    <3>2. lock' \in [Contexts -> Orders \cup {None}]
      BY <1>1, <2>1, ListLocked DEF Lock, ShapeInv
    <3>3. Held' = Held
      BY <3>1, HeldParts
    <3>4. ShapeInv' /\ OpInv'
      BY <1>1, <3>1, <3>2 DEF ShapeInv, OpInv
    <3> QED BY <3>1, <3>3, <3>4, AccountsStay DEF IInv
  <2>2. CASE Malloc(c)
    <3>1. op' \in [Contexts -> Call_] /\ OpInv' /\ Sound(Held')
      BY <2>2, MallocGoes
    <3>2. UNCHANGED <<free_lists, bitmap, order_map, used_memory, lock, live>>
      BY <2>2 DEF Malloc
    <3> QED BY <1>1, <3>1, <3>2, AccountsStay DEF IInv, ShapeInv
  <2>3. CASE Scan(c)
    <3>1. op' \in [Contexts -> Call_] /\ OpInv' /\ Sound(Held')
      BY <2>3, ScanGoes
    <3>2. UNCHANGED <<free_lists, bitmap, order_map, used_memory, lock, live>>
      BY <2>3 DEF Scan
    <3> QED BY <1>1, <3>1, <3>2, AccountsStay DEF IInv, ShapeInv
  <2>4. CASE Merge(c)
    <3>1. op' \in [Contexts -> Call_] /\ OpInv' /\ Sound(Held')
      BY <2>4, MergeGoes
    <3>2. UNCHANGED <<free_lists, bitmap, order_map, used_memory, lock, live>>
      BY <2>4 DEF Merge
    <3> QED BY <1>1, <3>1, <3>2, AccountsStay DEF IInv, ShapeInv
  <2>5. CASE Take(c)
    <3>1. op' \in [Contexts -> Call_] /\ OpInv' /\ free_lists' \in [Orders -> SUBSET Pages] /\ Sound(Held')
      BY <2>5, TakeGoes
    <3>2. UNCHANGED <<bitmap, order_map, used_memory, live>> /\ lock' \in [Contexts -> Orders \cup {None}]
      BY <1>1, <2>5, LockStays DEF Take
    <3> QED BY <1>1, <3>1, <3>2, AccountsStay DEF IInv, ShapeInv
  <2>6. CASE Split(c)
    <3>1. op' \in [Contexts -> Call_] /\ OpInv' /\ free_lists' \in [Orders -> SUBSET Pages] /\ Sound(Held')
      BY <2>6, Splits
    <3>2. UNCHANGED <<bitmap, order_map, used_memory, live>> /\ lock' \in [Contexts -> Orders \cup {None}]
      BY <1>1, <2>6, LockStays DEF Split
    <3> QED BY <1>1, <3>1, <3>2, AccountsStay DEF IInv, ShapeInv
  <2>7. CASE Join(c)
    <3>1. op' \in [Contexts -> Call_] /\ OpInv' /\ free_lists' \in [Orders -> SUBSET Pages] /\ Sound(Held')
      BY <2>7, JoinGoes
    <3>2. UNCHANGED <<bitmap, order_map, used_memory, live>> /\ lock' \in [Contexts -> Orders \cup {None}]
      BY <1>1, <2>7, LockStays DEF Join
    <3> QED BY <1>1, <3>1, <3>2, AccountsStay DEF IInv, ShapeInv
  <2>8. CASE Put(c)
    <3>1. op' \in [Contexts -> Call_] /\ OpInv' /\ free_lists' \in [Orders -> SUBSET Pages] /\ Sound(Held')
      BY <2>8, PutGoes
    <3>2. UNCHANGED <<bitmap, order_map, used_memory, live>> /\ lock' \in [Contexts -> Orders \cup {None}]
      BY <1>1, <2>8, LockStays DEF Put
    <3> QED BY <1>1, <3>1, <3>2, AccountsStay DEF IInv, ShapeInv
  <2>9. CASE Grant(c)
    BY <2>9, Grants DEF IInv
  <2>10. CASE Free(c)
    BY <2>10, Frees DEF IInv
  <2> QED BY <1>3, <2>1, <2>2, <2>3, <2>4, <2>5, <2>6, <2>7, <2>8, <2>9, <2>10 DEF Call, Go
<1> QED BY <1>2, <1>3 DEF Next

LEMMA Invariance == BlocksAligned => (Spec => []IInv)
BY InitInv, StepInv, PTL DEF Spec

LEMMA InvImplies == IInv => TypeOK /\ NoOverlap /\ NoneLost /\ BlocksApart
<1> SUFFICES ASSUME IInv PROVE TypeOK /\ NoOverlap /\ NoneLost /\ BlocksApart
  OBVIOUS
<1>1. TypeOK
  <2>1. Owned(live) \subseteq Pages /\ used_memory = Cardinality(Owned(live))
    BY UsedFacts
  <2>2. IsFiniteSet(Pages) /\ Cardinality(Pages) = MaxBlocks
    BY PagesFinite
  <2>3. Cardinality(Owned(live)) <= MaxBlocks
    BY <2>1, <2>2, FS_Subset
  <2>4. used_memory \in 0 .. MaxBlocks
    BY <2>1, <2>3, UsablePages DEF IInv, ShapeInv
  <2> QED BY <2>4 DEF TypeOK, IInv, ShapeInv
<1>2. NoOverlap
  BY DEF NoOverlap, IInv, Sound, Apart, ExtentOf
<1>3. NoneLost
  BY DEF NoneLost, IInv, Sound, Cover, ExtentOf
<1>4. BlocksApart
  BY OwnersAreApart DEF BlocksApart
<1> QED BY <1>1, <1>2, <1>3, <1>4

---------------------------------------------------------------------------
\* The theorems.

\* Every variable of the allocator has its type: no list, no bit, no order and no count ever
\* leaves the memory of the map (pmm.c:253-348).
THEOREM TypeCorrect == BlocksAligned => (Spec => []TypeOK)
BY Invariance, InvImplies, PTL

\* No page is in two places, on lists, with callers or in the hands of calls, however the
\* calls of the two contexts interleave (pmm.c:253-301, 306-348).
THEOREM NeverInTwoPlaces == BlocksAligned => (Spec => []NoOverlap)
BY Invariance, InvImplies, PTL

\* No page is lost: what init_pmm found stays on a list, with a caller or with a call
\* (pmm.c:266, 273, 289, 341-348).
THEOREM NeverLost == BlocksAligned => (Spec => []NoneLost)
BY Invariance, InvImplies, PTL

\* The bitmap marks what has an owner, and the order map knows how large it is
\* (pmm.c:293-295, 317-327).
THEOREM BitmapStaysTrue == BlocksAligned => (Spec => []BitmapIsTrue)
<1>1. IInv => BitmapIsTrue
  BY DEF IInv
<1> QED BY <1>1, Invariance, PTL

\* pmm_get_used_memory counts the pages that have an owner (pmm.c:298, 332).
THEOREM UsedStaysTrue == BlocksAligned => (Spec => []UsedIsTrue)
<1>1. IInv => UsedIsTrue
  BY DEF IInv
<1> QED BY <1>1, Invariance, PTL

\* Blocks of different owners are apart, which is what cmd_memtest relies on: the run that
\* violates it does so on a map whose blocks are not aligned from HEAP_START on (cmd.c:338-360).
THEOREM OwnersApart == BlocksAligned => (Spec => []BlocksApart)
BY Invariance, InvImplies, PTL

LEMMA OwnedSets == UNION {Extent(e[1], e[2]) : e \in live} = Owned(live)
BY DEF Owned

LEMMA HeapStep ==
  ASSUME IInv, [Next]_vars
  PROVE  \/ HeapOfCallers!Allocate \/ HeapOfCallers!Release
         \/ UNCHANGED {Extent(e[1], e[2]) : e \in live}
<1> DEFINE own(l) == {Extent(e[1], e[2]) : e \in l}
<1>1. CASE live' = live
  BY <1>1
<1>2. ASSUME NEW c \in Contexts, Grant(c) PROVE HeapOfCallers!Allocate \/ live' = live
  <2>1. PICK e \in Pages \X Orders :
          /\ live' = live \cup {e}
          /\ Extent(e[1], e[2]) \subseteq Usable \ Owned(live)
          /\ e[1] \in Extent(e[1], e[2])
    BY <1>2, Grants
  <2> DEFINE x == Extent(e[1], e[2])
  <2>2. own(live') = own(live) \cup {x}
    BY <2>1
  <2>3. x \in (SUBSET (Usable \ UNION own(live))) \ {{}}
    BY <2>1, OwnedSets
  <2> QED BY <2>2, <2>3 DEF HeapOfCallers!Allocate
<1>3. ASSUME NEW c \in Contexts, Free(c) PROVE HeapOfCallers!Release
  <2>1. PICK e \in live : live' = live \ {e}
    BY <1>3, Frees
  <2> DEFINE x == Extent(e[1], e[2])
  <2>2. \A f \in live \ {e} : Extent(f[1], f[2]) # x
    BY OwnersAreApart, OwnerFacts
  <2>3. own(live') = own(live) \ {x} /\ x \in own(live)
    BY <2>1, <2>2
  <2> QED BY <2>3 DEF HeapOfCallers!Release
<1>4. live' = live \/ \E c \in Contexts : Grant(c) \/ Free(c)
  BY DEF Next, vars, Call, Go, Malloc, Lock, Scan, Take, Split, Merge, Join, Put
<1> QED BY <1>1, <1>2, <1>3, <1>4

\* To its callers the allocator is a Heap: it hands out memory of the map that nobody owns,
\* and takes back what somebody does (pmm.c:253-348).
THEOREM IsAHeap == BlocksAligned => (Spec => HeapSpec)
<1>1. Init => HeapOfCallers!Init
  BY DEF Init, HeapOfCallers!Init
<1>2. IInv /\ [Next]_vars =>
        [HeapOfCallers!Allocate \/ HeapOfCallers!Release]_{Extent(e[1], e[2]) : e \in live}
  BY HeapStep
<1> QED BY <1>1, <1>2, Invariance, PTL DEF Spec, HeapSpec, HeapOfCallers!Spec
=============================================================================
