----------------------------- MODULE ShellProofs ----------------------------
(***************************************************************************)
(* Shell, for every disk, all arguments, texts and outputs, and every size *)
(* of screen, line, path and buffer: at the prompt no memory is held, an   *)
(* editor that shows no change holds what its file holds, a file is lost   *)
(* only by what was told to lose it, and the line on the screen is the     *)
(* line that Enter will run.                                               *)
(***************************************************************************)
EXTENDS Shell, FiniteSetTheorems, SequenceTheorems, TLAPS

---------------------------------------------------------------------------
\* The least and the greatest of a set of numbers, from the well-foundedness of the finite
\* sets under inclusion; and what they give, induction up to a number.
LEMMA LeastNumber ==
  ASSUME NEW S, S \subseteq Nat, S # {}
  PROVE  \E n \in S : \A m \in S : n <= m
<1> DEFINE T == {0 .. n : n \in S}
<1>1. T \subseteq FiniteSubsetsOf(Nat) /\ T # {}
  <2>1. ASSUME NEW n \in S PROVE 0 .. n \in FiniteSubsetsOf(Nat)
    <3>1. 0 \in Int /\ n \in Int /\ 0 .. n \in SUBSET Nat
      OBVIOUS
    <3> QED BY <3>1, FS_Interval, Zenon DEF FiniteSubsetsOf
  <2> QED BY <2>1
<1>2. PICK x \in T : \A y \in T : ~(<<y, x>> \in StrictSubsetOrdering(Nat))
  BY <1>1, FS_StrictSubsetOrderingWellFounded, WFMin, Zenon
<1>3. PICK n \in S : x = 0 .. n
  OBVIOUS
<1>4. ASSUME NEW m \in S, m < n PROVE FALSE
  <2>1. 0 .. m \in T /\ 0 .. m \subseteq 0 .. n /\ 0 .. m # 0 .. n /\ 0 .. n \subseteq Nat
    BY <1>4
  <2> QED BY <1>2, <1>3, <2>1 DEF StrictSubsetOrdering
<1> QED BY <1>4

LEMMA GreatestNumber ==
  ASSUME NEW S, S \subseteq Nat, S # {}, NEW top \in Nat, \A n \in S : n <= top
  PROVE  \E n \in S : \A m \in S : m <= n
<1> DEFINE T == {top - n : n \in S}
<1>1. PICK d \in T : \A e \in T : d <= e
  <2>1. \A n \in S : top - n \in Nat
    OBVIOUS
  <2>2. T \subseteq Nat /\ T # {}
    BY <2>1
  <2> HIDE DEF T
  <2> QED BY <2>2, LeastNumber
<1>2. PICK n \in S : d = top - n
  OBVIOUS
<1>3. ASSUME NEW m \in S PROVE m <= n
  <2>1. d <= top - m
    BY <1>1
  <2> QED BY <1>2, <2>1
<1> QED BY <1>3

LEMMA UpToNumber ==
  ASSUME NEW n \in Nat, NEW Good, 0 \in Good, \A k \in 1 .. n : k - 1 \in Good => k \in Good
  PROVE  0 .. n \subseteq Good
<1> DEFINE Bad == (0 .. n) \ Good
<1>1. SUFFICES ASSUME Bad # {} PROVE FALSE
  OBVIOUS
<1>2. PICK k \in Bad : \A j \in Bad : k <= j
  <2>1. Bad \subseteq Nat
    OBVIOUS
  <2> QED BY <1>1, <2>1, LeastNumber
<1>3. k \in 1 .. n /\ k - 1 \in 0 .. n /\ k - 1 \notin Bad
  BY <1>2
<1> QED BY <1>3

---------------------------------------------------------------------------
\* Folds.  A fold over a sequence is its base, and then one application after another:
\* first that there is such a function on the parts of the sequence, then that of each
\* of the three folds of the model.
Top(S) == CHOOSE x \in S : \A y \in S : x >= y

LEMMA TopIs ==
  ASSUME NEW k \in Nat \ {0}
  PROVE  Top(1 .. k) = k
<1>1. k \in 1 .. k /\ \A y \in 1 .. k : k >= y
  OBVIOUS
<1>2. \A x \in 1 .. k : (\A y \in 1 .. k : x >= y) => x = k
  OBVIOUS
<1> QED BY <1>1, <1>2 DEF Top

IsFold(f, n, T, base, g) ==
  /\ f \in [SUBSET (1 .. n) -> T]
  /\ f = [S \in SUBSET (1 .. n) |-> IF S = {} THEN base ELSE g[<<Top(S), f[S \ {Top(S)}]>>]]

LEMMA FoldExists ==
  ASSUME NEW n \in Nat, NEW T, NEW base \in T, NEW g \in [(1 .. n) \X T -> T]
  PROVE  \E f : IsFold(f, n, T, base, g)
<1> DEFINE Is(f, m) == IsFold(f, m, T, base, g)
           Good == {m \in 0 .. n : \E f : Is(f, m)}
<1>1. 0 \in Good
  <2>1. SUBSET (1 .. 0) = {{}}
    OBVIOUS
  <2>2. Is([S \in {{}} |-> base], 0)
    BY <2>1 DEF IsFold
  <2> HIDE DEF Is
  <2> QED BY <2>2
<1>2. ASSUME NEW m \in 1 .. n, m - 1 \in Good PROVE m \in Good
  <2>1. PICK f : Is(f, m - 1)
    BY <1>2
  <2> DEFINE h == [S \in SUBSET (1 .. m) |->
                     IF m \in S THEN g[<<m, f[S \ {m}]>>] ELSE f[S]]
  <2>2. ASSUME NEW S \in SUBSET (1 .. m)
        PROVE  h[S] \in T /\ h[S] = IF S = {} THEN base ELSE g[<<Top(S), h[S \ {Top(S)}]>>]
    <3>1. CASE m \in S
      <4>1. Top(S) = m
        <5>1. m \in S /\ \A y \in S : m >= y
          BY <3>1
        <5>2. \A x \in S : (\A y \in S : x >= y) => x = m
          BY <3>1
        <5> QED BY <5>1, <5>2 DEF Top
      <4>2. S \ {m} \in SUBSET (1 .. m) /\ m \notin S \ {m} /\ S \ {m} \in SUBSET (1 .. m - 1)
        OBVIOUS
      <4>3. f[S \ {m}] \in T /\ <<m, f[S \ {m}]>> \in (1 .. n) \X T
        BY <2>1, <4>2 DEF IsFold
      <4>4. h[S] = g[<<m, f[S \ {m}]>>] /\ h[S \ {m}] = f[S \ {m}]
        BY <3>1, <4>2
      <4>5. g[<<m, f[S \ {m}]>>] \in T
        BY <4>3
      <4> QED BY <3>1, <4>1, <4>4, <4>5
    <3>2. CASE m \notin S /\ S # {}
      <4>1. S \in SUBSET (1 .. m - 1)
        BY <3>2
      <4>2. f[S] = g[<<Top(S), f[S \ {Top(S)}]>>] /\ f[S] \in T
        BY <2>1, <3>2, <4>1 DEF IsFold
      <4>3. S \ {Top(S)} \in SUBSET (1 .. m) /\ m \notin S \ {Top(S)}
        BY <3>2
      <4> QED BY <3>2, <4>2, <4>3
    <3>3. CASE S = {}
      <4>1. f[{}] = base
        BY <2>1 DEF IsFold
      <4> QED BY <3>3, <4>1
    <3> QED BY <3>1, <3>2, <3>3
  <2>3. Is(h, m)
    BY <2>2 DEF IsFold
  <2> HIDE DEF Is, h
  <2> QED BY <2>3
<1>3. n \in Good
  <2> HIDE DEF Good
  <2>1. 0 .. n \subseteq Good
    BY <1>1, <1>2, UpToNumber
  <2> QED BY <2>1
<1> QED BY <1>3

\* The parts of a fold are those of the initial segments.
LEMMA Segments ==
  ASSUME NEW n \in Nat, NEW k \in 1 .. n
  PROVE  /\ 1 .. k \in SUBSET (1 .. n) /\ 1 .. k # {}
         /\ Top(1 .. k) = k /\ (1 .. k) \ {k} = 1 .. k - 1
<1>1. Top(1 .. k) = k
  BY TopIs
<1> QED BY <1>1

---------------------------------------------------------------------------
\* The screen.
Con_ == [screen : [Cells -> Glyphs], pen : 0 .. Width * Height - 1]

LEMMA ScreenSize == Width \in Nat \ {0, 1} /\ Height \in Nat \ {0}
                    /\ Width * Height \in Nat /\ Width * Height >= Width
<1>1. Width \in Nat \ {0, 1} /\ Height \in Nat \ {0}
  BY ConsoleAssumption
<1>2. PICK h \in Nat : Height = h + 1
  <2>1. Height - 1 \in Nat /\ Height = (Height - 1) + 1
    BY <1>1
  <2> QED BY <2>1
<1>3. Width * Height = Width * h + Width /\ Width * h \in Nat
  BY <1>1, <1>2
<1> QED BY <1>1, <1>3

LEMMA NewRow ==
  ASSUME NEW p \in 0 .. Width * Height - 1
  PROVE  /\ (p \div Width + 1) * Width \in Nat
         /\ p < (p \div Width + 1) * Width
         /\ (p \div Width + 1) * Width <= Width * Height
<1> DEFINE q == p \div Width
<1>1. Width \in Nat \ {0, 1} /\ Height \in Nat \ {0} /\ Width * Height \in Nat /\ p \in Nat
  BY ScreenSize
<1>2. p = q * Width + (p % Width) /\ q \in Nat /\ p % Width \in 0 .. Width - 1
  BY <1>1
<1> HIDE DEF q
<1>3. (q + 1) * Width = q * Width + Width /\ q * Width \in Nat
  BY <1>1, <1>2
<1>4. q < Height
  <2>1. SUFFICES ASSUME q >= Height PROVE FALSE
    BY <1>1, <1>2
  <2>2. PICK d \in Nat : q = Height + d
    <3>1. q - Height \in Nat /\ q = Height + (q - Height)
      BY <1>1, <1>2, <2>1
    <3> QED BY <3>1
  <2>3. q * Width = Width * Height + d * Width /\ d * Width \in Nat
    BY <1>1, <2>2
  <2> QED BY <1>1, <1>2, <2>3
<1>5. (q + 1) * Width <= Width * Height
  <2>1. PICK d \in Nat : Height = (q + 1) + d
    <3>1. Height - (q + 1) \in Nat /\ Height = (q + 1) + (Height - (q + 1))
      BY <1>1, <1>2, <1>4
    <3> QED BY <3>1
  <2>2. Width * Height = (q + 1) * Width + d * Width /\ d * Width \in Nat /\ (q + 1) * Width \in Nat
    BY <1>1, <1>2, <2>1
  <2> QED BY <2>2
<1> QED BY <1>1, <1>2, <1>3, <1>5 DEF q

LEMMA ScrolledIs ==
  ASSUME NEW screen_ \in [Cells -> Glyphs], NEW p \in 0 .. Width * Height
  PROVE  Scrolled([screen |-> screen_, pen |-> p]) \in Con_
<1>1. Width \in Nat \ {0, 1} /\ Width * Height \in Nat /\ Width * Height >= Width
  BY ScreenSize
<1>2. CASE p < Width * Height
  BY <1>1, <1>2 DEF Scrolled, Con_
<1>3. CASE p = Width * Height
  <2> DEFINE s == [i \in Cells |-> IF i + Width \in Cells THEN screen_[i + Width] ELSE " "]
  <2>1. s \in [Cells -> Glyphs]
    BY ConsoleAssumption
  <2>2. Scrolled([screen |-> screen_, pen |-> p]) = [screen |-> s, pen |-> p - Width]
    <3> DEFINE con == [screen |-> screen_, pen |-> p]
    <3>1. con.screen = screen_ /\ con.pen = p /\ ~(p < Width * Height)
      BY <1>1, <1>3
    <3> HIDE DEF con
    <3>2. Scrolled(con) = [screen |-> s, pen |-> p - Width]
      BY <3>1, Zenon DEF Scrolled
    <3> QED BY <3>2 DEF con
  <2> HIDE DEF s
  <2> QED BY <1>1, <1>3, <2>1, <2>2 DEF Con_
<1> QED BY <1>1, <1>2, <1>3

LEMMA ConIs ==
  ASSUME NEW con \in Con_
  PROVE  /\ con = [screen |-> con.screen, pen |-> con.pen]
         /\ con.screen \in [Cells -> Glyphs] /\ con.pen \in 0 .. Width * Height - 1
         /\ con.pen \in Nat /\ con.pen < Width * Height
         /\ con.pen + 1 \in Cells /\ con.pen + 1 \in 0 .. Width * Height
BY ScreenSize DEF Con_, Cells

\* What is printed for each kind of character.
LEMMA pcNewline ==
  ASSUME NEW con \in Con_
  PROVE  pc(con, "\n") = Scrolled([screen |-> con.screen, pen |-> (con.pen \div Width + 1) * Width])
<1>1. [con EXCEPT !.pen = (@ \div Width + 1) * Width]
        = [screen |-> con.screen, pen |-> (con.pen \div Width + 1) * Width]
  BY DEF Con_
<1> QED BY <1>1 DEF pc

LEMMA pcBackspace ==
  ASSUME NEW con \in Con_
  PROVE  pc(con, "bs") = IF con.pen % Width # 0 THEN [screen |-> con.screen, pen |-> con.pen - 1]
                         ELSE con
<1>1. [con EXCEPT !.pen = @ - 1] = [screen |-> con.screen, pen |-> con.pen - 1]
  BY DEF Con_
<1>2. "bs" # "\n"
  BY SMT
<1> QED BY <1>1, <1>2 DEF pc

LEMMA pcOther ==
  ASSUME NEW con \in Con_, NEW c, c # "\n", c # "bs"
  PROVE  pc(con, c) = Scrolled([screen |-> [con.screen EXCEPT ![con.pen + 1] = c],
                                pen |-> con.pen + 1])
BY Zenon DEF pc

LEMMA pcType ==
  ASSUME NEW con \in Con_, NEW c \in Glyphs
  PROVE  pc(con, c) \in Con_
<1>1. CASE c = "\n"
  <2> DEFINE r == (con.pen \div Width + 1) * Width
  <2>1. r \in 0 .. Width * Height /\ con.screen \in [Cells -> Glyphs]
    BY ConIs, NewRow, ScreenSize
  <2>2. pc(con, c) = Scrolled([screen |-> con.screen, pen |-> r])
    BY <1>1, pcNewline
  <2> HIDE DEF r
  <2> QED BY <2>1, <2>2, ScrolledIs
<1>2. CASE c = "bs"
  <2>1. con.pen % Width # 0 => con.pen - 1 \in 0 .. Width * Height - 1
    BY ConIs, ScreenSize
  <2>2. con.pen % Width # 0 => [screen |-> con.screen, pen |-> con.pen - 1] \in Con_
    BY <2>1, ConIs DEF Con_
  <2> QED BY <1>2, <2>2, pcBackspace
<1>3. CASE c # "\n" /\ c # "bs"
  <2> DEFINE s == [con.screen EXCEPT ![con.pen + 1] = c]
             p == con.pen + 1
  <2>1. s \in [Cells -> Glyphs] /\ p \in 0 .. Width * Height
    BY ConIs
  <2>2. pc(con, c) = Scrolled([screen |-> s, pen |-> p])
    BY <1>3, pcOther
  <2> HIDE DEF s, p
  <2> QED BY <2>1, <2>2, ScrolledIs
<1> QED BY <1>1, <1>2, <1>3

LEMMA PrintedIs ==
  ASSUME NEW con \in Con_, NEW s \in Seq(Glyphs)
  PROVE  \E f \in [0 .. Len(s) -> Con_] :
           /\ f[0] = con /\ f[Len(s)] = Printed(con, s)
           /\ \A k \in 1 .. Len(s) : f[k] = pc(f[k - 1], s[k])
<1> DEFINE n == Len(s)
           g == [z \in (1 .. n) \X Con_ |-> pc(z[2], s[z[1]])]
           Is(it) == it = [S \in SUBSET (1 .. n) |->
                             IF S = {} THEN con ELSE pc(it[S \ {Top(S)}], s[Top(S)])]
           it == CHOOSE i : Is(i)
<1>1. n \in Nat /\ DOMAIN s = 1 .. n /\ \A k \in 1 .. n : s[k] \in Glyphs
  BY LenProperties, ElementOfSeq
<1>2. Printed(con, s) = it[1 .. n]
  BY <1>1, Zenon DEF Printed, FoldLeft, MapThenFoldSet, Max, Top
<1>3. Is(it)
  <2>1. g \in [(1 .. n) \X Con_ -> Con_]
    BY <1>1, pcType
  <2>2. \A z \in (1 .. n) \X Con_ : g[z] = pc(z[2], s[z[1]])
    OBVIOUS
  <2> HIDE DEF g
  <2>3. PICK f : IsFold(f, n, Con_, con, g)
    BY <1>1, <2>1, FoldExists
  <2>4. ASSUME NEW S \in SUBSET (1 .. n), S # {}
        PROVE  <<Top(S), f[S \ {Top(S)}]>> \in (1 .. n) \X Con_
    <3>1. Top(S) \in S
      <4>1. S \subseteq Nat /\ \A m \in S : m <= n
        BY <1>1
      <4>2. \E x \in S : \A y \in S : x >= y
        BY <1>1, <2>4, <4>1, GreatestNumber
      <4> QED BY <4>2 DEF Top
    <3> QED BY <2>3, <3>1 DEF IsFold
  <2>5. Is(f)
    BY <2>2, <2>3, <2>4 DEF IsFold
  <2> QED BY <2>5
<1> DEFINE h == [k \in 0 .. n |-> it[1 .. k]]
<1> HIDE DEF it
<1>4. h[0] = con /\ \A k \in 1 .. n : h[k] = pc(h[k - 1], s[k])
  <2>1. it[{}] = con /\ 1 .. 0 = {}
    BY <1>3
  <2>2. ASSUME NEW k \in 1 .. n PROVE it[1 .. k] = pc(it[1 .. k - 1], s[k])
    <3>1. 1 .. k \in SUBSET (1 .. n) /\ 1 .. k # {} /\ Top(1 .. k) = k /\ (1 .. k) \ {k} = 1 .. k - 1
      BY <1>1, Segments
    <3> QED BY <1>3, <3>1, Zenon
  <2> QED BY <1>1, <2>1, <2>2
<1>5. \A k \in 0 .. n : h[k] \in Con_
  <2> DEFINE Good == {k \in 0 .. n : h[k] \in Con_}
  <2>1. 0 \in Good
    BY <1>1, <1>4
  <2>2. ASSUME NEW k \in 1 .. n, k - 1 \in Good PROVE k \in Good
    <3>0. k \in 0 .. n /\ s[k] \in Glyphs
      BY <1>1
    <3>1. h[k - 1] \in Con_ /\ s[k] \in Glyphs /\ h[k] = pc(h[k - 1], s[k]) /\ k \in 0 .. n
      <4>1. h[k - 1] \in Con_
        BY <2>2
      <4>2. h[k] = pc(h[k - 1], s[k])
        BY <1>4
      <4> HIDE DEF h, n
      <4> QED BY <3>0, <4>1, <4>2
    <3>2. h[k] \in Con_
      BY <3>1, pcType
    <3> QED BY <3>1, <3>2
  <2> HIDE DEF Good
  <2>3. 0 .. n \subseteq Good
    BY <1>1, <2>1, <2>2, UpToNumber
  <2> QED BY <2>3 DEF Good
<1>6. h \in [0 .. n -> Con_] /\ h[n] = Printed(con, s)
  BY <1>1, <1>2, <1>5
<1> HIDE DEF h
<1> QED BY <1>4, <1>6

---------------------------------------------------------------------------
\* Paths.
Arg_   == [abs : BOOLEAN, parts : Seq(Names)]
Path   == Seq(Names)
Entry_ == [path : Seq(Names), dir : BOOLEAN, parent : 1 .. MaxFiles, data : Seq(Chars)]
CwdInv == cwd \in Path /\ Len(cwd) <= MaxPath

LEMMA IntoType ==
  ASSUME NEW at \in Path, NEW part \in Names
  PROVE  Into(at, part) \in Path /\ Len(Into(at, part)) <= Len(at) + 1 /\ Len(at) \in Nat
<1>1. Append(at, part) \in Path /\ Len(Append(at, part)) = Len(at) + 1 /\ Len(at) \in Nat
  BY AppendProperties, LenProperties DEF Path
<1>2. Up(at) \in Path /\ Len(Up(at)) <= Len(at)
  <2>1. CASE at = Root
    BY <1>1, <2>1 DEF Up
  <2>2. CASE at # Root
    <3>1. \A i \in 1 .. Len(at) - 1 : at[i] \in Names
      BY <1>1, ElementOfSeq DEF Path
    <3>2. Front(at) \in Path /\ Len(Front(at)) <= Len(at)
      BY <1>1, <3>1, SubSeqProperties DEF Front, Path
    <3> QED BY <2>2, <3>2 DEF Up
  <2> QED BY <2>1, <2>2
<1>3. CASE part = "."
  <2>1. Into(at, part) = at
    BY <1>3, Zenon DEF Into
  <2> QED BY <1>1, <2>1
<1>4. CASE part # "." /\ part = ".."
  <2>1. Into(at, part) = Up(at)
    BY <1>4, Zenon DEF Into
  <2> QED BY <1>1, <1>2, <2>1
<1>5. CASE part # "." /\ part # ".."
  <2>1. Into(at, part) = Append(at, part)
    BY <1>5, Zenon DEF Into
  <2> QED BY <1>1, <2>1
<1> QED BY <1>3, <1>4, <1>5

LEMMA JoinedType ==
  ASSUME CwdInv, NEW arg \in Arg_
  PROVE  Joined(arg) \in Path /\ Len(Joined(arg)) \in Nat
<1>1. arg.parts \in Path /\ arg.abs \in BOOLEAN /\ cwd \in Path
  BY DEF CwdInv, Path, Arg_
<1>2. cwd \o arg.parts \in Path
  BY <1>1, ConcatProperties DEF Path
<1>3. Joined(arg) \in Path
  BY <1>1, <1>2 DEF Joined
<1> QED BY <1>3, LenProperties DEF Path

LEMMA NormalType ==
  ASSUME CwdInv, NEW arg \in Arg_
  PROVE  Normal(arg) \in Path /\ Len(Normal(arg)) \in Nat /\ Len(Normal(arg)) <= Len(Joined(arg))
<1> DEFINE s == Joined(arg)
           n == Len(s)
           g == [z \in (1 .. n) \X Path |-> Into(z[2], s[z[1]])]
           Is(it) == it = [S \in SUBSET (1 .. n) |->
                             IF S = {} THEN Root ELSE Into(it[S \ {Top(S)}], s[Top(S)])]
           it == CHOOSE i : Is(i)
<1>1. n \in Nat /\ DOMAIN s = 1 .. n /\ \A k \in 1 .. n : s[k] \in Names
  BY JoinedType, LenProperties, ElementOfSeq DEF Path
<1>2. Normal(arg) = it[1 .. n]
  BY <1>1, Zenon DEF Normal, FoldLeft, MapThenFoldSet, Max, Top
<1> HIDE DEF s
<1>3. Is(it)
  <2>1. g \in [(1 .. n) \X Path -> Path] /\ Root \in Path
    BY <1>1, IntoType, EmptySeq DEF Path, Root
  <2>2. \A z \in (1 .. n) \X Path : g[z] = Into(z[2], s[z[1]])
    OBVIOUS
  <2> HIDE DEF g
  <2>3. PICK f : IsFold(f, n, Path, Root, g)
    BY <1>1, <2>1, FoldExists
  <2>4. ASSUME NEW S \in SUBSET (1 .. n), S # {}
        PROVE  <<Top(S), f[S \ {Top(S)}]>> \in (1 .. n) \X Path
    <3>1. Top(S) \in S
      <4>1. S \subseteq Nat /\ \A m \in S : m <= n
        BY <1>1
      <4>2. \E x \in S : \A y \in S : x >= y
        BY <1>1, <2>4, <4>1, GreatestNumber
      <4> QED BY <4>2 DEF Top
    <3> QED BY <2>3, <3>1 DEF IsFold
  <2>5. Is(f)
    BY <2>2, <2>3, <2>4 DEF IsFold
  <2> QED BY <2>5
<1> DEFINE h == [k \in 0 .. n |-> it[1 .. k]]
           Good == {k \in 0 .. n : h[k] \in Path /\ Len(h[k]) <= k}
<1> HIDE DEF it
<1>4. 0 \in Good
  <2>1. it[{}] = Root /\ 1 .. 0 = {}
    BY <1>3
  <2>2. Root \in Path /\ Len(Root) = 0
    BY EmptySeq DEF Path, Root
  <2> QED BY <1>1, <2>1, <2>2
<1>5. ASSUME NEW k \in 1 .. n, k - 1 \in Good PROVE k \in Good
  <2>1. 1 .. k \in SUBSET (1 .. n) /\ 1 .. k # {} /\ Top(1 .. k) = k /\ (1 .. k) \ {k} = 1 .. k - 1
    BY <1>1, Segments
  <2>2. it[1 .. k] = Into(it[1 .. k - 1], s[k])
    BY <1>3, <2>1, Zenon
  <2>3. h[k] = Into(h[k - 1], s[k]) /\ h[k - 1] \in Path /\ Len(h[k - 1]) <= k - 1 /\ k \in 0 .. n
    BY <1>1, <1>5, <2>2
  <2>4. h[k] \in Path /\ Len(h[k]) <= Len(h[k - 1]) + 1 /\ Len(h[k - 1]) \in Nat
    BY <1>1, <2>3, IntoType
  <2>5. Len(h[k]) \in Nat
    BY <2>4, LenProperties DEF Path
  <2> QED BY <2>3, <2>4, <2>5
<1>6. n \in Good
  <2> HIDE DEF Good
  <2>1. 0 .. n \subseteq Good
    BY <1>1, <1>4, <1>5, UpToNumber
  <2> QED BY <1>1, <2>1
<1>7. Normal(arg) \in Path /\ Len(Normal(arg)) <= n
  BY <1>1, <1>2, <1>6
<1> QED BY <1>7, LenProperties DEF Path, s

---------------------------------------------------------------------------
\* The sectors in use: a sum over the table.
Weight(x) == IF x.dir THEN 0 ELSE SectorsOf(Len(x.data))

LEMMA WeightType ==
  ASSUME NEW x \in Entry_
  PROVE  Weight(x) \in Nat
<1>1. x.dir \in BOOLEAN /\ Len(x.data) \in Nat
  BY LenProperties DEF Entry_
<1>2. SectorSize \in Nat \ {0}
  BY FilesAssumption
<1>3. SectorsOf(Len(x.data)) \in Nat
  <2> DEFINE l == Len(x.data)
  <2>1. l + SectorSize - 1 \in Nat
    BY <1>1, <1>2
  <2> HIDE DEF l
  <2>2. (l + SectorSize - 1) \div SectorSize \in Nat
    BY <1>2, <2>1
  <2> QED BY <2>2 DEF SectorsOf, l
<1> QED BY <1>1, <1>3 DEF Weight

LEMMA UsedIs ==
  ASSUME NEW e \in Seq(Entry_)
  PROVE  \E f \in [0 .. Len(e) -> Nat] :
           /\ f[0] = 0 /\ f[Len(e)] = Used(e)
           /\ \A k \in 1 .. Len(e) : f[k] = f[k - 1] + Weight(e[k])
<1> DEFINE n == Len(e)
           g == [z \in (1 .. n) \X Nat |-> z[2] + Weight(e[z[1]])]
           Is(it) == it = [S \in SUBSET (1 .. n) |->
                             IF S = {} THEN 0
                             ELSE IF e[Top(S)].dir THEN it[S \ {Top(S)}]
                             ELSE it[S \ {Top(S)}] + SectorsOf(Len(e[Top(S)].data))]
           it == CHOOSE i : Is(i)
<1>1. n \in Nat /\ DOMAIN e = 1 .. n /\ \A k \in 1 .. n : e[k] \in Entry_ /\ e[k].dir \in BOOLEAN
  <2>1. \A x \in Entry_ : x.dir \in BOOLEAN
    BY DEF Entry_
  <2>2. n \in Nat /\ DOMAIN e = 1 .. n /\ \A k \in 1 .. n : e[k] \in Entry_
    BY LenProperties, ElementOfSeq
  <2> QED BY <2>1, <2>2
<1>2. Used(e) = it[1 .. n]
  BY <1>1, Zenon DEF Used, FoldLeft, MapThenFoldSet, Max, Top
<1>3. Is(it)
  <2>1. g \in [(1 .. n) \X Nat -> Nat]
    BY <1>1, WeightType
  <2>2. \A z \in (1 .. n) \X Nat : g[z] = z[2] + Weight(e[z[1]])
    OBVIOUS
  <2> HIDE DEF g
  <2>3. PICK f : IsFold(f, n, Nat, 0, g)
    BY <1>1, <2>1, FoldExists
  <2>4. ASSUME NEW S \in SUBSET (1 .. n), S # {}
        PROVE  /\ Top(S) \in 1 .. n /\ f[S \ {Top(S)}] \in Nat
               /\ <<Top(S), f[S \ {Top(S)}]>> \in (1 .. n) \X Nat
    <3>1. Top(S) \in S
      <4>1. S \subseteq Nat /\ \A m \in S : m <= n
        BY <1>1
      <4>2. \E x \in S : \A y \in S : x >= y
        BY <1>1, <2>4, <4>1, GreatestNumber
      <4> QED BY <4>2 DEF Top
    <3> QED BY <2>3, <3>1 DEF IsFold
  <2>5. ASSUME NEW S \in SUBSET (1 .. n), S # {}
        PROVE  f[S] = IF e[Top(S)].dir THEN f[S \ {Top(S)}]
                      ELSE f[S \ {Top(S)}] + SectorsOf(Len(e[Top(S)].data))
    <3>1. f[S] = f[S \ {Top(S)}] + Weight(e[Top(S)])
      BY <2>2, <2>3, <2>4, <2>5 DEF IsFold
    <3>2. f[S \ {Top(S)}] \in Nat
      BY <2>4, <2>5
    <3>3. CASE e[Top(S)].dir
      <4>1. Weight(e[Top(S)]) = 0
        BY <3>3, Zenon DEF Weight
      <4>2. f[S] = f[S \ {Top(S)}]
        BY <3>1, <3>2, <4>1
      <4> QED BY <3>3, <4>2, Zenon
    <3>4. CASE ~e[Top(S)].dir
      <4>1. Weight(e[Top(S)]) = SectorsOf(Len(e[Top(S)].data))
        BY <3>4, Zenon DEF Weight
      <4> QED BY <3>1, <3>4, <4>1, Zenon
    <3> QED BY <3>3, <3>4
  <2>6. f = [S \in SUBSET (1 .. n) |-> f[S]] /\ f[{}] = 0
    BY <2>3 DEF IsFold
  <2>7. Is(f)
    BY <2>5, <2>6
  <2> QED BY <2>7
<1> DEFINE h == [k \in 0 .. n |-> it[1 .. k]]
           Good == {k \in 0 .. n : h[k] \in Nat}
<1> HIDE DEF it
<1>4. h[0] = 0
  <2>1. it[{}] = 0 /\ 1 .. 0 = {}
    BY <1>3
  <2> QED BY <1>1, <2>1
<1>5. ASSUME NEW k \in 1 .. n, h[k - 1] \in Nat PROVE h[k] = h[k - 1] + Weight(e[k]) /\ h[k] \in Nat
  <2>1. 1 .. k \in SUBSET (1 .. n) /\ 1 .. k # {} /\ Top(1 .. k) = k /\ (1 .. k) \ {k} = 1 .. k - 1
    BY <1>1, Segments
  <2>2. it[1 .. k] = IF e[k].dir THEN it[1 .. k - 1] ELSE it[1 .. k - 1] + SectorsOf(Len(e[k].data))
    BY <1>3, <2>1, Zenon
  <2>3. h[k] = it[1 .. k] /\ h[k - 1] = it[1 .. k - 1]
    BY <1>1
  <2> HIDE DEF h
  <2> QED BY <1>1, <1>5, <2>2, <2>3, WeightType DEF Weight
<1>6. \A k \in 0 .. n : h[k] \in Nat
  <2>1. 0 \in Good
    BY <1>1, <1>4
  <2>2. \A k \in 1 .. n : k - 1 \in Good => k \in Good
    BY <1>1, <1>5
  <2> HIDE DEF Good
  <2>3. 0 .. n \subseteq Good
    BY <1>1, <2>1, <2>2, UpToNumber
  <2> QED BY <2>3 DEF Good
<1>7. h \in [0 .. n -> Nat] /\ h[n] = Used(e)
  BY <1>1, <1>2, <1>6
<1> HIDE DEF h
<1>8. \A k \in 1 .. n : h[k] = h[k - 1] + Weight(e[k])
  BY <1>1, <1>5, <1>6
<1> QED BY <1>4, <1>7, <1>8

LEMMA SumsAgree ==
  ASSUME NEW n \in Nat, NEW e \in Seq(Entry_), NEW d \in Seq(Entry_), n <= Len(e), n <= Len(d),
         \A k \in 1 .. n : Weight(d[k]) = Weight(e[k]),
         NEW f \in [0 .. Len(e) -> Nat], NEW g \in [0 .. Len(d) -> Nat], f[0] = g[0],
         \A k \in 1 .. Len(e) : f[k] = f[k - 1] + Weight(e[k]),
         \A k \in 1 .. Len(d) : g[k] = g[k - 1] + Weight(d[k])
  PROVE  f[n] = g[n]
<1> DEFINE Good == {k \in 0 .. n : f[k] = g[k]}
<1>1. Len(e) \in Nat /\ Len(d) \in Nat
  BY LenProperties
<1>2. 0 \in Good
  OBVIOUS
<1>3. ASSUME NEW k \in 1 .. n, k - 1 \in Good PROVE k \in Good
  <2>1. k \in 1 .. Len(e) /\ k \in 1 .. Len(d) /\ k \in 0 .. n /\ f[k - 1] = g[k - 1]
    BY <1>1, <1>3
  <2>2. f[k] = f[k - 1] + Weight(e[k]) /\ g[k] = g[k - 1] + Weight(d[k]) /\ Weight(d[k]) = Weight(e[k])
    BY <2>1
  <2> QED BY <2>1, <2>2
<1>4. 0 .. n \subseteq Good
  <2> HIDE DEF Good
  <2> QED BY <1>2, <1>3, UpToNumber
<1> QED BY <1>4

---------------------------------------------------------------------------
\* The table.
TableOK(e) ==
  /\ e \in Seq(Entry_) /\ Len(e) \in 1 .. MaxFiles /\ Used(e) <= Sectors
  /\ \A i \in DOMAIN e : Len(e[i].path) <= MaxPath /\ e[i].path # NoPath

LEMMA FromFunction ==
  ASSUME NEW S, NEW n \in Nat, NEW f \in [1 .. n -> S]
  PROVE  f \in Seq(S) /\ Len(f) = n /\ DOMAIN f = 1 .. n
BY SeqDef

LEMMA EntryIs ==
  ASSUME NEW x \in Entry_
  PROVE  x.path \in Path /\ x.dir \in BOOLEAN /\ x.parent \in 1 .. MaxFiles /\ x.data \in Seq(Chars)
BY DEF Entry_, Path

LEMMA TableIs ==
  ASSUME NEW e \in Seq(Entry_)
  PROVE  /\ Len(e) \in Nat /\ DOMAIN e = 1 .. Len(e) /\ e \in [1 .. Len(e) -> Entry_]
         /\ \A i \in 1 .. Len(e) : e[i] \in Entry_
BY LenProperties, ElementOfSeq

LEMMA FindIs ==
  ASSUME NEW e \in Seq(Entry_), NEW p
  PROVE  /\ Find(e, p) \in 0 .. Len(e)
         /\ Find(e, p) # 0 => Find(e, p) \in 1 .. Len(e) /\ e[Find(e, p)].path = p
                              /\ \A j \in 1 .. Find(e, p) - 1 : e[j].path # p
         /\ Find(e, p) = 0 => \A i \in 1 .. Len(e) : e[i].path # p
<1>1. Len(e) \in Nat /\ DOMAIN e = 1 .. Len(e)
  BY TableIs
<1>2. CASE \E i \in DOMAIN e : e[i].path = p
  <2> DEFINE S == {i \in 1 .. Len(e) : e[i].path = p}
  <2>1. PICK i \in S : \A j \in S : i <= j
    <3>1. S \subseteq Nat /\ S # {}
      BY <1>1, <1>2
    <3> HIDE DEF S
    <3> QED BY <3>1, LeastNumber
  <2>2. i \in DOMAIN e /\ e[i].path = p /\ \A j \in 1 .. i - 1 : e[j].path # p
    BY <1>1, <2>1
  <2>3. Find(e, p) \in DOMAIN e /\ e[Find(e, p)].path = p /\ \A j \in 1 .. Find(e, p) - 1 : e[j].path # p
    <3>1. Find(e, p) = CHOOSE i_1 \in DOMAIN e : /\ e[i_1].path = p
                                                /\ \A j \in 1 .. i_1 - 1 : e[j].path # p
      BY <1>2, Zenon DEF Find
    <3> QED BY <2>2, <3>1, Zenon
  <2> QED BY <1>1, <2>3
<1>3. CASE ~\E i \in DOMAIN e : e[i].path = p
  <2>1. Find(e, p) = 0
    BY <1>3, Zenon DEF Find
  <2> QED BY <1>1, <1>3, <2>1
<1> QED BY <1>2, <1>3

LEMMA Added ==
  ASSUME NEW e, TableOK(e), Len(e) < MaxFiles, NEW x \in Entry_,
         Len(x.path) <= MaxPath, x.path # NoPath, Used(e) + Weight(x) <= Sectors
  PROVE  TableOK(Append(e, x))
<1> DEFINE d == Append(e, x)
<1>1. e \in Seq(Entry_) /\ Len(e) \in 1 .. MaxFiles /\ MaxFiles \in Nat
  BY FilesAssumption DEF TableOK
<1>2. /\ d \in Seq(Entry_) /\ Len(d) = Len(e) + 1 /\ DOMAIN d = 1 .. Len(d) /\ DOMAIN e = 1 .. Len(e)
      /\ \A i \in 1 .. Len(e) : d[i] = e[i]
      /\ d[Len(e) + 1] = x
  BY <1>1, AppendProperties, LenProperties
<1> HIDE DEF d
<1>3. Used(d) = Used(e) + Weight(x)
  <2>1. PICK f \in [0 .. Len(e) -> Nat] : /\ f[0] = 0 /\ f[Len(e)] = Used(e)
                                          /\ \A k \in 1 .. Len(e) : f[k] = f[k - 1] + Weight(e[k])
    BY <1>1, UsedIs
  <2>2. PICK g \in [0 .. Len(d) -> Nat] : /\ g[0] = 0 /\ g[Len(d)] = Used(d)
                                          /\ \A k \in 1 .. Len(d) : g[k] = g[k - 1] + Weight(d[k])
    BY <1>2, UsedIs
  <2>3. \A k \in 1 .. Len(e) : Weight(d[k]) = Weight(e[k])
    BY <1>2, Zenon
  <2>4. f[Len(e)] = g[Len(e)]
    <3>1. Len(e) \in Nat /\ Len(e) <= Len(e) /\ Len(e) <= Len(d) /\ f[0] = g[0]
      BY <1>1, <1>2, <2>1, <2>2
    <3> QED BY <1>1, <1>2, <2>1, <2>2, <2>3, <3>1, SumsAgree, Zenon
  <2>5. g[Len(d)] = g[Len(d) - 1] + Weight(d[Len(d)]) /\ Len(d) - 1 = Len(e)
    <3>1. Len(d) \in 1 .. Len(d) /\ Len(d) - 1 = Len(e)
      BY <1>1, <1>2
    <3> QED BY <2>2, <3>1
  <2> QED BY <1>2, <2>1, <2>2, <2>4, <2>5
<1>4. \A i \in DOMAIN d : Len(d[i].path) <= MaxPath /\ d[i].path # NoPath
  BY <1>1, <1>2 DEF TableOK
<1> QED BY <1>1, <1>2, <1>3, <1>4 DEF TableOK, d

LEMMA DropIs ==
  ASSUME NEW e \in Seq(Entry_), NEW i \in 1 .. Len(e), Len(e) <= MaxFiles
  PROVE  /\ Drop(e, i) \in Seq(Entry_) /\ Len(Drop(e, i)) = Len(e) - 1
         /\ DOMAIN Drop(e, i) = 1 .. Len(e) - 1
         /\ \A k \in 1 .. Len(e) - 1 :
              LET x == IF k = i THEN e[Len(e)] ELSE e[k]
                  y == Drop(e, i)[k]
              IN  y.path = x.path /\ y.dir = x.dir /\ y.data = x.data
<1> DEFINE last == Len(e)
           fill == [e EXCEPT ![i] = e[last]]
           Follow(f) == IF i # last /\ f.parent = last THEN [f EXCEPT !.parent = i] ELSE f
           d == [k \in 1 .. last - 1 |-> Follow(fill[k])]
<1>1. last \in Nat /\ DOMAIN e = 1 .. last /\ e \in [1 .. last -> Entry_] /\ last \in 1 .. last
      /\ i \in 1 .. MaxFiles /\ last - 1 \in Nat /\ MaxFiles \in Nat
  BY TableIs, FilesAssumption
<1>2. ASSUME NEW k \in 1 .. last - 1
      PROVE  fill[k] = (IF k = i THEN e[last] ELSE e[k]) /\ fill[k] \in Entry_
  BY <1>1
<1>3. ASSUME NEW f \in Entry_
      PROVE  /\ Follow(f) \in Entry_
             /\ Follow(f).path = f.path /\ Follow(f).dir = f.dir /\ Follow(f).data = f.data
  BY <1>1 DEF Entry_
<1>4. Drop(e, i) = d
  BY DEF Drop
<1> HIDE DEF fill, Follow
<1>5. d \in [1 .. last - 1 -> Entry_] /\ \A k \in 1 .. last - 1 : d[k] = Follow(fill[k])
  BY <1>2, <1>3
<1> HIDE DEF d, last
<1>6. d \in Seq(Entry_) /\ Len(d) = last - 1 /\ DOMAIN d = 1 .. last - 1
  BY <1>1, <1>5, FromFunction
<1>7. ASSUME NEW k \in 1 .. last - 1
      PROVE  LET x == IF k = i THEN e[last] ELSE e[k]
             IN  d[k].path = x.path /\ d[k].dir = x.dir /\ d[k].data = x.data
  BY <1>2, <1>3, <1>5
<1> QED BY <1>4, <1>6, <1>7 DEF last

LEMMA Dropped ==
  ASSUME NEW e, TableOK(e), NEW i \in 2 .. Len(e)
  PROVE  TableOK(Drop(e, i))
<1> DEFINE n == Len(e)
           d == Drop(e, i)
<1>1. e \in Seq(Entry_) /\ n \in 1 .. MaxFiles /\ MaxFiles \in Nat /\ i \in 1 .. n
      /\ DOMAIN e = 1 .. n /\ n \in 2 .. MaxFiles
  BY FilesAssumption, TableIs DEF TableOK
<1>2. /\ d \in Seq(Entry_) /\ Len(d) = n - 1 /\ DOMAIN d = 1 .. n - 1
      /\ \A k \in 1 .. n - 1 : LET x == IF k = i THEN e[n] ELSE e[k]
                               IN  d[k].path = x.path /\ d[k].dir = x.dir /\ d[k].data = x.data
  <2>1. Len(e) <= MaxFiles /\ i \in 1 .. Len(e)
    BY <1>1
  <2> QED BY <1>1, <2>1, DropIs, Zenon
<1> HIDE DEF d, n
<1>3. ASSUME NEW k \in 1 .. n - 1
      PROVE  Weight(d[k]) = Weight(IF k = i THEN e[n] ELSE e[k])
  BY <1>2 DEF Weight
<1>4. \A k \in 1 .. n : Weight(e[k]) \in Nat
  BY <1>1, TableIs, WeightType DEF n
<1>5. Used(d) <= Used(e)
  <2>1. PICK f \in [0 .. n -> Nat] : /\ f[0] = 0 /\ f[n] = Used(e)
                                     /\ \A k \in 1 .. n : f[k] = f[k - 1] + Weight(e[k])
    BY <1>1, UsedIs DEF n
  <2>2. PICK g \in [0 .. n - 1 -> Nat] : /\ g[0] = 0 /\ g[n - 1] = Used(d)
                                         /\ \A k \in 1 .. n - 1 : g[k] = g[k - 1] + Weight(d[k])
    <3>1. PICK g \in [0 .. Len(d) -> Nat] : /\ g[0] = 0 /\ g[Len(d)] = Used(d)
                                            /\ \A k \in 1 .. Len(d) : g[k] = g[k - 1] + Weight(d[k])
      BY <1>2, UsedIs
    <3> QED BY <1>2, <3>1
  <2> DEFINE Good == {k \in 0 .. n - 1 : g[k] = IF k < i THEN f[k] ELSE f[k] - Weight(e[i]) + Weight(e[n])}
  <2>3. 0 \in Good
    BY <1>1, <2>1, <2>2
  <2>4. ASSUME NEW k \in 1 .. n - 1, k - 1 \in Good PROVE k \in Good
    <3>1. /\ f[k] = f[k - 1] + Weight(e[k]) /\ g[k] = g[k - 1] + Weight(d[k])
          /\ f[k] \in Nat /\ f[k - 1] \in Nat /\ g[k] \in Nat /\ g[k - 1] \in Nat /\ k \in 0 .. n - 1
          /\ Weight(e[k]) \in Nat /\ Weight(e[i]) \in Nat /\ Weight(e[n]) \in Nat
      <4>1. k \in 1 .. n /\ k \in 0 .. n /\ k - 1 \in 0 .. n /\ k - 1 \in 0 .. n - 1 /\ k \in 0 .. n - 1
            /\ n \in 1 .. n /\ i \in 1 .. n
        BY <1>1
      <4> QED BY <1>4, <2>1, <2>2, <4>1
    <3>2. Weight(d[k]) = IF k = i THEN Weight(e[n]) ELSE Weight(e[k])
      BY <1>3
    <3>3. g[k - 1] = IF k - 1 < i THEN f[k - 1] ELSE f[k - 1] - Weight(e[i]) + Weight(e[n])
      BY <2>4
    <3>4. g[k] = IF k < i THEN f[k] ELSE f[k] - Weight(e[i]) + Weight(e[n])
      <4>1. i \in Nat /\ k \in Nat
        BY <1>1
      <4>2. CASE k < i
        BY <3>1, <3>2, <3>3, <4>1, <4>2
      <4>3. CASE k = i
        <5>1. Weight(d[k]) = Weight(e[n]) /\ Weight(e[k]) = Weight(e[i]) /\ g[k - 1] = f[k - 1]
          BY <3>2, <3>3, <4>1, <4>3
        <5> QED BY <3>1, <4>1, <4>3, <5>1
      <4>4. CASE k > i
        <5>1. Weight(d[k]) = Weight(e[k]) /\ g[k - 1] = f[k - 1] - Weight(e[i]) + Weight(e[n])
          BY <3>2, <3>3, <4>1, <4>4
        <5> DEFINE w == Weight(e[k])
                   out == Weight(e[i])
                   in == Weight(e[n])
                   f0 == f[k - 1]
                   f1 == f[k]
                   g0 == g[k - 1]
                   g1 == g[k]
        <5>2. /\ f1 = f0 + w /\ g1 = g0 + w /\ g0 = f0 - out + in
              /\ f0 \in Nat /\ w \in Nat /\ out \in Nat /\ in \in Nat
          BY <3>1, <5>1
        <5> HIDE DEF w, out, in, f0, f1, g0, g1
        <5>3. g1 = f1 - out + in
          BY <5>2
        <5> QED BY <4>1, <4>4, <5>3 DEF f1, g1, out, in
      <4> QED BY <4>1, <4>2, <4>3, <4>4
    <3> QED BY <3>1, <3>4
  <2>5. n - 1 \in Good
    <3> HIDE DEF Good
    <3>1. n - 1 \in Nat
      BY <1>1
    <3>2. 0 .. n - 1 \subseteq Good
      BY <2>3, <2>4, <3>1, UpToNumber
    <3> QED BY <3>1, <3>2
  <2>6. /\ f[n] = f[n - 1] + Weight(e[n]) /\ f[n - 1] \in Nat /\ f[n] \in Nat
        /\ Weight(e[n]) \in Nat /\ Weight(e[i]) \in Nat
    BY <1>1, <1>4, <2>1
  <2>7. Used(d) = IF n - 1 < i THEN f[n - 1] ELSE f[n - 1] - Weight(e[i]) + Weight(e[n])
    BY <2>2, <2>5
  <2>8. CASE i = n
    BY <1>1, <2>1, <2>6, <2>7, <2>8
  <2>9. CASE i # n
    <3>1. ~(n - 1 < i)
      BY <1>1, <2>9
    <3>2. Used(d) = f[n - 1] - Weight(e[i]) + Weight(e[n])
      BY <2>7, <3>1
    <3> QED BY <2>1, <2>6, <3>2
  <2> QED BY <2>8, <2>9
<1>6. ASSUME NEW k \in DOMAIN d PROVE Len(d[k].path) <= MaxPath /\ d[k].path # NoPath
  <2>1. PICK j \in 1 .. n : d[k].path = e[j].path
    BY <1>1, <1>2
  <2> QED BY <1>1, <2>1 DEF TableOK
<1>7. Used(e) <= Sectors /\ Used(e) \in Nat /\ Used(d) \in Nat /\ Sectors \in Nat
  <2>1. \A t \in Seq(Entry_) : Used(t) \in Nat
    BY UsedIs, TableIs
  <2> QED BY <1>1, <1>2, <2>1, FilesAssumption DEF TableOK
<1> QED BY <1>1, <1>2, <1>5, <1>6, <1>7 DEF TableOK, d

LEMMA Rewritten ==
  ASSUME NEW e, TableOK(e), NEW i \in 1 .. Len(e), NEW c \in Seq(Chars), Len(c) = Len(e[i].data)
  PROVE  /\ TableOK([e EXCEPT ![i].data = c])
         /\ Len([e EXCEPT ![i].data = c]) = Len(e)
         /\ \A k \in 1 .. Len(e) :
              LET y == [e EXCEPT ![i].data = c][k]
              IN  /\ y.path = e[k].path /\ y.dir = e[k].dir
                  /\ y.data = IF k = i THEN c ELSE e[k].data
<1> DEFINE n == Len(e)
           x == [e[i] EXCEPT !.data = c]
           d == [e EXCEPT ![i] = x]
<1>1. e \in Seq(Entry_) /\ n \in 1 .. MaxFiles /\ MaxFiles \in Nat
      /\ DOMAIN e = 1 .. n /\ e[i] \in Entry_ /\ e \in [1 .. n -> Entry_]
  BY FilesAssumption, TableIs DEF TableOK
<1>2. [e EXCEPT ![i].data = c] = d
  OBVIOUS
<1>3. x \in Entry_ /\ x.path = e[i].path /\ x.dir = e[i].dir /\ x.data = c
  BY <1>1 DEF Entry_
<1> HIDE DEF x
<1>4. d \in [1 .. n -> Entry_] /\ \A k \in 1 .. n : d[k] = IF k = i THEN x ELSE e[k]
  BY <1>1, <1>3
<1> HIDE DEF d
<1>5. d \in Seq(Entry_) /\ Len(d) = n /\ DOMAIN d = 1 .. n
  BY <1>1, <1>4, FromFunction
<1> HIDE DEF n
<1>6. \A k \in 1 .. n : Weight(d[k]) = Weight(e[k])
  BY <1>3, <1>4 DEF Weight
<1>7. Used(d) = Used(e)
  <2>1. PICK f \in [0 .. n -> Nat] : /\ f[0] = 0 /\ f[n] = Used(e)
                                     /\ \A k \in 1 .. n : f[k] = f[k - 1] + Weight(e[k])
    BY <1>1, UsedIs DEF n
  <2>2. PICK g \in [0 .. Len(d) -> Nat] : /\ g[0] = 0 /\ g[Len(d)] = Used(d)
                                          /\ \A k \in 1 .. Len(d) : g[k] = g[k - 1] + Weight(d[k])
    BY <1>5, UsedIs
  <2>3. n \in Nat /\ n <= Len(e) /\ n <= Len(d) /\ n = Len(e) /\ n = Len(d) /\ f[0] = g[0]
    BY <1>1, <1>5, <2>1, <2>2 DEF n
  <2>4. f[n] = g[n]
    <3>1. f \in [0 .. Len(e) -> Nat] /\ \A k \in 1 .. Len(e) : f[k] = f[k - 1] + Weight(e[k])
      BY <2>1, <2>3
    <3> QED BY <1>1, <1>5, <1>6, <2>2, <2>3, <3>1, SumsAgree, Zenon
  <2> QED BY <2>1, <2>2, <2>3, <2>4
<1>8. TableOK(d)
  <2>1. \A k \in DOMAIN d : Len(d[k].path) <= MaxPath /\ d[k].path # NoPath
    BY <1>1, <1>3, <1>4, <1>5 DEF TableOK
  <2> QED BY <1>1, <1>5, <1>7, <2>1 DEF TableOK
<1>9. \A k \in 1 .. n : /\ d[k].path = e[k].path /\ d[k].dir = e[k].dir
                        /\ d[k].data = IF k = i THEN c ELSE e[k].data
  BY <1>3, <1>4
<1> QED BY <1>2, <1>5, <1>8, <1>9, Zenon DEF n

---------------------------------------------------------------------------
\* The calls keep the table one.
PathOK(p) == p = NoPath \/ (p \in Path /\ Len(p) <= MaxPath)

LEMMA NormsType ==
  ASSUME TableOK(ents), CwdInv, NEW arg \in Arg_, NEW p \in Norms(arg)
  PROVE  PathOK(p)
<1>1. CASE TooLong(arg)
  <2>1. CASE p = NoPath
    BY <2>1 DEF PathOK
  <2>2. CASE p # NoPath
    <3>1. PICK i \in DOMAIN ents : p = ents[i].path
      BY <1>1, <2>2, Zenon DEF Norms
    <3>2. ents[i] \in Entry_
      BY <3>1, TableIs DEF TableOK
    <3> QED BY <3>1, <3>2, EntryIs DEF TableOK, PathOK
  <2> QED BY <2>1, <2>2
<1>2. CASE ~TooLong(arg)
  <2>1. p = Normal(arg)
    BY <1>2, Zenon DEF Norms
  <2>2. p \in Path /\ Len(p) \in Nat /\ Len(p) <= Len(Joined(arg)) /\ Len(Joined(arg)) \in Nat
    BY <2>1, NormalType, JoinedType
  <2>3. Len(Joined(arg)) <= MaxPath
    BY <1>2, <2>2, FilesAssumption DEF TooLong
  <2> QED BY <2>2, <2>3, FilesAssumption DEF PathOK
<1> QED BY <1>1, <1>2

LEMMA ParentType ==
  ASSUME NEW e, TableOK(e), NEW p
  PROVE  Parent(e, p) \in 0 .. MaxFiles /\ (p = NoPath => Parent(e, p) = 0)
<1>1. e \in Seq(Entry_) /\ Len(e) \in 1 .. MaxFiles /\ MaxFiles \in Nat
  BY FilesAssumption DEF TableOK
<1>2. \A q : Find(e, q) \in 0 .. MaxFiles
  <2>1. ASSUME NEW q PROVE Find(e, q) \in 0 .. Len(e)
    BY <1>1, FindIs
  <2> QED BY <1>1, <2>1
<1>3. CASE p = NoPath
  <2>1. p # Root
    BY <1>3 DEF NoPath, Root
  <2>2. Parent(e, p) = 0
    BY <1>3, <2>1 DEF Parent
  <2> QED BY <1>1, <2>2
<1>4. CASE p # NoPath /\ p = Root
  <2>1. Parent(e, p) = 1
    BY <1>4, Zenon DEF Parent
  <2> QED BY <1>1, <1>4, <2>1
<1>5. CASE p # NoPath /\ p # Root
  <2>1. Parent(e, p) = Find(e, Front(p))
    BY <1>5, Zenon DEF Parent
  <2> QED BY <1>2, <1>5, <2>1
<1> QED BY <1>3, <1>4, <1>5

LEMMA ZerosType ==
  ASSUME NEW n \in Nat
  PROVE  Zeros(n) \in Seq(Chars) /\ Len(Zeros(n)) = n /\ DOMAIN Zeros(n) = 1 .. n
         /\ \A k \in 1 .. n : Zeros(n)[k] = "0"
<1>1. Zeros(n) \in [1 .. n -> Chars]
  BY FilesAssumption DEF Zeros
<1>2. Zeros(n) \in Seq(Chars) /\ Len(Zeros(n)) = n /\ DOMAIN Zeros(n) = 1 .. n
  BY <1>1, FromFunction
<1> QED BY <1>2 DEF Zeros

LEMMA EntryType ==
  ASSUME NEW e, TableOK(e), NEW p, PathOK(p), NEW dir \in BOOLEAN, NEW data \in Seq(Chars),
         MayAdd(e, p)
  PROVE  /\ Entry(e, p, dir, data) \in Entry_
         /\ Entry(e, p, dir, data).path = p
         /\ Entry(e, p, dir, data).data = data
         /\ Len(p) <= MaxPath /\ p # NoPath /\ Len(e) < MaxFiles
<1>1. Parent(e, p) \in 1 .. MaxFiles /\ p # NoPath /\ Len(e) < MaxFiles
  BY ParentType, FilesAssumption DEF MayAdd
<1>2. p \in Path /\ Len(p) <= MaxPath
  BY <1>1 DEF PathOK
<1> QED BY <1>1, <1>2 DEF Entry, Entry_, Path

LEMMA MadeDirOK ==
  ASSUME NEW e, TableOK(e), NEW p, PathOK(p), MayAdd(e, p)
  PROVE  /\ TableOK(MadeDir(e, p))
         /\ Len(MadeDir(e, p)) = Len(e) + 1
         /\ \A k \in 1 .. Len(e) : MadeDir(e, p)[k] = e[k]
         /\ LET x == MadeDir(e, p)[Len(e) + 1] IN x.path = p /\ x.dir
<1> DEFINE none == <<>>
           x == Entry(e, p, TRUE, none)
<1>1. none \in Seq(Chars)
  BY EmptySeq
<1> HIDE DEF none
<1>2. x \in Entry_ /\ x.path = p /\ x.dir = TRUE /\ Len(p) <= MaxPath /\ p # NoPath /\ Len(e) < MaxFiles
  <2>1. x.dir = TRUE
    BY DEF Entry
  <2>2. \A dir \in BOOLEAN : Entry(e, p, dir, none) \in Entry_ /\ Entry(e, p, dir, none).path = p
    BY <1>1, EntryType
  <2> QED BY <1>1, <2>1, <2>2, EntryType
<1> HIDE DEF x
<1>3. Weight(x) = 0
  BY <1>2 DEF Weight
<1>4. Used(e) + Weight(x) <= Sectors
  <2>1. Used(e) \in Nat
    BY UsedIs, TableIs DEF TableOK
  <2> QED BY <1>3, <2>1 DEF TableOK
<1>5. TableOK(Append(e, x))
  BY <1>2, <1>4, Added
<1>6. Len(Append(e, x)) = Len(e) + 1 /\ Append(e, x)[Len(e) + 1] = x
      /\ \A k \in 1 .. Len(e) : Append(e, x)[k] = e[k]
  BY <1>2, AppendProperties DEF TableOK
<1>7. MadeDir(e, p) = Append(e, x)
  BY DEF MadeDir, x, none
<1> QED BY <1>2, <1>5, <1>6, <1>7

LEMMA CreatedOK ==
  ASSUME NEW e, TableOK(e), NEW p, PathOK(p), NEW n \in Nat, MayCreate(e, p, n)
  PROVE  /\ TableOK(Created(e, p, n))
         /\ Len(Created(e, p, n)) = Len(e) + 1
         /\ \A k \in 1 .. Len(e) : Created(e, p, n)[k] = e[k]
         /\ LET x == Created(e, p, n)[Len(e) + 1]
            IN  x.path = p /\ ~x.dir /\ x.data = Zeros(n)
<1> DEFINE x == Entry(e, p, FALSE, Zeros(n))
<1>1. Zeros(n) \in Seq(Chars) /\ Len(Zeros(n)) = n /\ MayAdd(e, p)
  BY ZerosType DEF MayCreate
<1>2. x \in Entry_ /\ x.path = p /\ x.dir = FALSE /\ x.data = Zeros(n)
      /\ Len(p) <= MaxPath /\ p # NoPath /\ Len(e) < MaxFiles
  <2> DEFINE z == Zeros(n)
  <2>1. x.dir = FALSE /\ x.data = z
    BY DEF Entry
  <2> HIDE DEF z
  <2>2. \A dir \in BOOLEAN : Entry(e, p, dir, z) \in Entry_ /\ Entry(e, p, dir, z).path = p
    BY <1>1, EntryType DEF z
  <2> QED BY <1>1, <2>1, <2>2, EntryType DEF z
<1>3. Created(e, p, n) = Append(e, x)
  BY DEF Created
<1> HIDE DEF x
<1>4. Weight(x) = SectorsOf(n)
  BY <1>1, <1>2 DEF Weight
<1>5. Used(e) + Weight(x) <= Sectors
  BY <1>4 DEF MayCreate
<1>6. TableOK(Append(e, x))
  BY <1>2, <1>5, Added
<1>7. Len(Append(e, x)) = Len(e) + 1 /\ Append(e, x)[Len(e) + 1] = x
      /\ \A k \in 1 .. Len(e) : Append(e, x)[k] = e[k]
  BY <1>2, AppendProperties DEF TableOK
<1> QED BY <1>2, <1>3, <1>6, <1>7

LEMMA DeletedOK ==
  ASSUME NEW e, TableOK(e), NEW p
  PROVE  TableOK(Deleted(e, p))
<1> DEFINE i == Find(e, p)
<1>1. i \in 0 .. Len(e) /\ Len(e) \in Nat
  BY FindIs, TableIs DEF TableOK
<1>2. CASE MayDelete(e, i)
  <2>1. i \in 2 .. Len(e)
    BY <1>1, <1>2 DEF MayDelete
  <2>2. Deleted(e, p) = Drop(e, i)
    BY <1>2, Zenon DEF Deleted
  <2> HIDE DEF i
  <2> QED BY <2>1, <2>2, Dropped
<1>3. CASE ~MayDelete(e, i)
  <2>1. Deleted(e, p) = e
    BY <1>3, Zenon DEF Deleted
  <2> QED BY <2>1
<1> QED BY <1>2, <1>3

\* The first characters of a text.
LEMMA UptoIs ==
  ASSUME NEW S, NEW s \in Seq(S), NEW n \in 0 .. Len(s)
  PROVE  /\ Upto(s, n) \in Seq(S) /\ Len(Upto(s, n)) = n
         /\ \A k \in 1 .. n : Upto(s, n)[k] = s[k]
<1>1. n \in Int /\ 1 \in Int /\ Len(s) \in Nat /\ \A k \in 1 .. n : s[k] \in S
  BY LenProperties, ElementOfSeq
<1>2. SubSeq(s, 1, n) \in Seq(S) /\ Len(SubSeq(s, 1, n)) = (IF 1 <= n THEN n - 1 + 1 ELSE 0)
      /\ \A k \in 1 .. n - 1 + 1 : SubSeq(s, 1, n)[k] = s[1 + k - 1]
  BY <1>1, SubSeqProperties
<1> QED BY <1>1, <1>2 DEF Upto

LEMMA RestIs ==
  ASSUME NEW S, NEW s \in Seq(S), NEW n \in 0 .. Len(s)
  PROVE  SubSeq(s, n + 1, Len(s)) \in Seq(S) /\ Len(SubSeq(s, n + 1, Len(s))) = Len(s) - n
<1>1. n + 1 \in Int /\ Len(s) \in Nat /\ \A k \in n + 1 .. Len(s) : s[k] \in S
  BY LenProperties, ElementOfSeq
<1>2. SubSeq(s, n + 1, Len(s)) \in Seq(S)
      /\ Len(SubSeq(s, n + 1, Len(s))) = (IF n + 1 <= Len(s) THEN Len(s) - (n + 1) + 1 ELSE 0)
  BY <1>1, SubSeqProperties
<1> QED BY <1>1, <1>2

LEMMA WrittenIs ==
  ASSUME NEW old \in Seq(Chars), NEW new \in Seq(Chars), NEW k \in 0 .. Len(new), Len(new) <= Len(old)
  PROVE  /\ Written(old, new, k) \in Seq(Chars) /\ Len(Written(old, new, k)) = Len(old)
         /\ Len(new) = Len(old) => Written(old, new, Len(new)) = new
<1>1. Len(old) \in Nat /\ Len(new) \in Nat /\ k \in 0 .. Len(old)
  BY LenProperties
<1>2. Upto(new, k) \in Seq(Chars) /\ Len(Upto(new, k)) = k
  BY UptoIs
<1>3. SubSeq(old, k + 1, Len(old)) \in Seq(Chars) /\ Len(SubSeq(old, k + 1, Len(old))) = Len(old) - k
  BY <1>1, RestIs
<1>4. Written(old, new, k) \in Seq(Chars) /\ Len(Written(old, new, k)) = k + (Len(old) - k)
  <2> DEFINE u == Upto(new, k)
             r == SubSeq(old, k + 1, Len(old))
  <2>1. u \in Seq(Chars) /\ r \in Seq(Chars) /\ Len(u) = k /\ Len(r) = Len(old) - k
    BY <1>2, <1>3
  <2>2. Written(old, new, k) = u \o r
    BY Zenon DEF Written
  <2> HIDE DEF u, r
  <2>3. u \o r \in Seq(Chars) /\ Len(u \o r) = Len(u) + Len(r)
    BY <2>1, ConcatProperties
  <2> QED BY <2>1, <2>2, <2>3
<1>5. ASSUME Len(new) = Len(old) PROVE Written(old, new, Len(new)) = new
  <2>1. Upto(new, Len(new)) = new
    BY SubSeqFull DEF Upto
  <2>2. SubSeq(old, Len(new) + 1, Len(old)) = <<>>
    <3>1. Len(new) + 1 \in Int /\ Len(old) \in Int /\ Len(old) < Len(new) + 1
      BY <1>1, <1>5
    <3> QED BY <3>1, SubSeqEmpty
  <2> QED BY <2>1, <2>2, ConcatEmptySeq DEF Written
<1> QED BY <1>1, <1>4, <1>5

LEMMA WritesOK ==
  ASSUME NEW e, TableOK(e), NEW p, NEW d \in Seq(Chars), NEW w \in Writes(e, p, d)
  PROVE  LET i == Find(e, p) IN
         /\ TableOK(w.ents) /\ Len(w.ents) = Len(e) /\ w.ok \in BOOLEAN
         /\ \A k \in 1 .. Len(e) : /\ w.ents[k].path = e[k].path /\ w.ents[k].dir = e[k].dir
                                   /\ k # i => w.ents[k].data = e[k].data
         /\ w.ok => /\ i \in 1 .. Len(e) /\ ~e[i].dir /\ Len(d) <= Len(e[i].data)
                    /\ w.ents[i].data = Written(e[i].data, d, Len(d))
<1> DEFINE i == Find(e, p)
           old == e[i].data
           Left(k) == [e EXCEPT ![i].data = Written(old, d, k)]
<1>1. e \in Seq(Entry_) /\ Len(e) \in Nat /\ i \in 0 .. Len(e) /\ Len(d) \in Nat
  BY TableIs, FindIs, LenProperties DEF TableOK
<1>2. CASE ~IsFile(e, i) \/ Len(d) > Len(old)
  <2>1. w = [ok |-> FALSE, ents |-> e]
    BY <1>2, Zenon DEF Writes
  <2> HIDE DEF i, old
  <2>2. w.ents = e /\ w.ok = FALSE
    BY <2>1
  <2> QED BY <1>1, <2>2 DEF i
<1>3. CASE ~(~IsFile(e, i) \/ Len(d) > Len(old))
  <2>1. w \in {[ok |-> TRUE, ents |-> Left(Len(d))]} \cup
             {[ok |-> FALSE, ents |-> Left(k)] : k \in {k \in 0 .. Len(d) - 1 : k % SectorSize = 0}}
    BY <1>3, Zenon DEF Writes
  <2>2. i \in 1 .. Len(e) /\ ~e[i].dir
    BY <1>1, <1>3 DEF IsFile
  <2>3. old \in Seq(Chars) /\ Len(old) \in Nat
    <3>1. e[i] \in Entry_
      BY <1>1, <2>2, TableIs
    <3>2. old \in Seq(Chars)
      BY <3>1, EntryIs
    <3> QED BY <3>2, LenProperties
  <2>4. Len(d) <= Len(old)
    BY <1>1, <1>3, <2>3
  <2>5. PICK k \in 0 .. Len(d) : w.ents = Left(k) /\ w.ok \in BOOLEAN /\ (w.ok => k = Len(d))
    <3>1. CASE w = [ok |-> TRUE, ents |-> Left(Len(d))]
      <4> HIDE DEF Left
      <4>1. w.ents = Left(Len(d)) /\ w.ok = TRUE /\ Len(d) \in 0 .. Len(d)
        BY <1>1, <3>1
      <4> QED BY <4>1
    <3>2. CASE w # [ok |-> TRUE, ents |-> Left(Len(d))]
      <4>1. PICK k \in 0 .. Len(d) - 1 : w = [ok |-> FALSE, ents |-> Left(k)]
        <5> HIDE DEF Left
        <5> QED BY <2>1, <3>2
      <4> HIDE DEF Left
      <4>2. w.ents = Left(k) /\ w.ok = FALSE /\ k \in 0 .. Len(d)
        BY <1>1, <4>1
      <4> QED BY <4>2
    <3> QED BY <3>1, <3>2
  <2> DEFINE c == Written(old, d, k)
  <2>6. c \in Seq(Chars) /\ Len(c) = Len(old)
    BY <2>3, <2>4, WrittenIs
  <2>7. w.ents = [e EXCEPT ![i].data = c] /\ (w.ok => c = Written(old, d, Len(d)))
    BY <2>5
  <2> HIDE DEF i, c
  <2>8. /\ TableOK([e EXCEPT ![i].data = c])
        /\ Len([e EXCEPT ![i].data = c]) = Len(e)
        /\ \A j \in 1 .. Len(e) : LET y == [e EXCEPT ![i].data = c][j]
                                  IN  /\ y.path = e[j].path /\ y.dir = e[j].dir
                                      /\ y.data = IF j = i THEN c ELSE e[j].data
    BY <2>2, <2>6, Rewritten
  <2>9. /\ TableOK(w.ents) /\ Len(w.ents) = Len(e)
        /\ \A j \in 1 .. Len(e) : /\ w.ents[j].path = e[j].path /\ w.ents[j].dir = e[j].dir
                                  /\ w.ents[j].data = IF j = i THEN c ELSE e[j].data
    BY <2>7, <2>8, Zenon
  <2>10. w.ok => w.ents[i].data = Written(old, d, Len(d))
    BY <2>2, <2>7, <2>9
  <2> QED BY <2>2, <2>4, <2>5, <2>9, <2>10 DEF i
<1> QED BY <1>2, <1>3

LEMMA ReadsIs ==
  ASSUME NEW e, TableOK(e), NEW p, NEW n \in Nat, NEW r \in Reads(e, p, n)
  PROVE  LET i == Find(e, p) IN
         /\ r.ok \in BOOLEAN /\ r.data \in Seq(Chars) /\ Len(r.data) \in Nat /\ Len(r.data) <= n
         /\ r.ok => /\ i \in 1 .. Len(e) /\ ~e[i].dir /\ Len(e[i].data) \in Nat
                    /\ r.data = Upto(e[i].data, IF n < Len(e[i].data) THEN n ELSE Len(e[i].data))
<1> DEFINE i == Find(e, p)
           d == e[i].data
           m == IF n < Len(d) THEN n ELSE Len(d)
<1>1. e \in Seq(Entry_) /\ Len(e) \in Nat /\ i \in 0 .. Len(e)
  BY TableIs, FindIs DEF TableOK
<1>2. CASE ~IsFile(e, i)
  <2>1. r = [ok |-> FALSE, data |-> <<>>]
    BY <1>2, Zenon DEF Reads
  <2> DEFINE none == <<>>
  <2>2. none \in Seq(Chars) /\ Len(none) = 0
    BY EmptySeq
  <2> HIDE DEF none
  <2>3. r.ok = FALSE /\ r.data = none
    BY <2>1 DEF none
  <2>4. r.ok \in BOOLEAN /\ ~r.ok
    BY <2>3, Zenon
  <2>5. r.data \in Seq(Chars) /\ Len(r.data) \in Nat /\ Len(r.data) <= n
    BY <2>2, <2>3
  <2> QED BY <2>4, <2>5
<1>3. CASE IsFile(e, i)
  <2>1. r \in {[ok |-> TRUE, data |-> Upto(d, m)]} \cup
             {[ok |-> FALSE, data |-> Upto(d, k)] : k \in {k \in 0 .. m - 1 : k % SectorSize = 0}}
    BY <1>3, Zenon DEF Reads
  <2>2. i \in 1 .. Len(e) /\ ~e[i].dir
    BY <1>1, <1>3 DEF IsFile
  <2>3. d \in Seq(Chars) /\ Len(d) \in Nat
    <3>1. e[i] \in Entry_
      BY <1>1, <2>2, TableIs
    <3>2. d \in Seq(Chars)
      BY <3>1, EntryIs
    <3> QED BY <3>2, LenProperties
  <2>4. m \in 0 .. Len(d) /\ m <= n
    BY <2>3
  <2> HIDE DEF m
  <2>5. PICK k \in 0 .. m : r.data = Upto(d, k) /\ r.ok \in BOOLEAN /\ (r.ok => k = m)
    <3>1. CASE r = [ok |-> TRUE, data |-> Upto(d, m)]
      <4>1. r.data = Upto(d, m) /\ r.ok = TRUE /\ m \in 0 .. m
        BY <2>4, <3>1
      <4> QED BY <4>1
    <3>2. CASE r # [ok |-> TRUE, data |-> Upto(d, m)]
      <4>1. PICK k \in 0 .. m - 1 : r = [ok |-> FALSE, data |-> Upto(d, k)]
        BY <2>1, <3>2
      <4>2. r.data = Upto(d, k) /\ r.ok = FALSE /\ k \in 0 .. m
        BY <2>4, <4>1
      <4> QED BY <4>2
    <3> QED BY <3>1, <3>2
  <2>6. k \in 0 .. Len(d) /\ k <= n /\ k \in Nat
    BY <2>3, <2>4
  <2>7. Upto(d, k) \in Seq(Chars) /\ Len(Upto(d, k)) = k
    BY <2>3, <2>6, UptoIs
  <2> QED BY <2>2, <2>3, <2>5, <2>6, <2>7 DEF m
<1> QED BY <1>2, <1>3

LEMMA ChdirOK ==
  ASSUME TableOK(ents), CwdInv, NEW p, PathOK(p)
  PROVE  Chdir(ents, p) \in Path /\ Len(Chdir(ents, p)) <= MaxPath
<1>1. CASE IsDir(ents, Find(ents, p))
  <2>1. Chdir(ents, p) = p
    BY <1>1, Zenon DEF Chdir
  <2>2. Find(ents, p) # 0
    BY <1>1, Zenon DEF IsDir
  <2>3. Find(ents, p) \in DOMAIN ents /\ ents[Find(ents, p)].path = p
    BY <2>2, FindIs, TableIs DEF TableOK
  <2>4. p # NoPath
    BY <2>3 DEF TableOK
  <2> QED BY <2>1, <2>4 DEF PathOK
<1>2. CASE ~IsDir(ents, Find(ents, p))
  <2>1. Chdir(ents, p) = cwd
    BY <1>2, Zenon DEF Chdir
  <2> QED BY <2>1 DEF CwdInv
<1> QED BY <1>1, <1>2

---------------------------------------------------------------------------
\* What is on the screen.
BlankBehind(con) == \A i \in Cells : i > con.pen => con.screen[i] = " "
ConOK(con) == con \in Con_ /\ BlankBehind(con)

\* Whether the screen was scrolled or not, it shows what it showed, d cells further up.
LEMMA ScrolledBy ==
  ASSUME NEW s \in [Cells -> Glyphs], NEW p \in 0 .. Width * Height
  PROVE  \E d \in {0, Width} :
           LET r == Scrolled([screen |-> s, pen |-> p]) IN
           /\ r \in Con_ /\ r.pen = p - d
           /\ \A i \in Cells : /\ i + d \in Cells => r.screen[i] = s[i + d]
                               /\ i + d \notin Cells => r.screen[i] = " "
<1> DEFINE con == [screen |-> s, pen |-> p]
           r == Scrolled(con)
           Shows(d) == /\ r \in Con_ /\ r.pen = p - d
                       /\ \A i \in Cells : /\ i + d \in Cells => r.screen[i] = s[i + d]
                                           /\ i + d \notin Cells => r.screen[i] = " "
<1> SUFFICES \E d \in {0, Width} : Shows(d)
  OBVIOUS
<1>1. Width \in Nat \ {0, 1} /\ Width * Height \in Nat /\ Width * Height >= Width
  BY ScreenSize
<1>2. r \in Con_
  BY ScrolledIs
<1>3. con.screen = s /\ con.pen = p
  OBVIOUS
<1> HIDE DEF con
<1>4. CASE p < Width * Height
  <2>1. r = con
    BY <1>3, <1>4, Zenon DEF Scrolled
  <2>2. r.pen = p - 0 /\ \A i \in Cells : i + 0 \in Cells /\ r.screen[i] = s[i + 0]
    BY <1>1, <1>3, <2>1 DEF Cells
  <2>3. Shows(0)
    BY <1>2, <2>2
  <2> HIDE DEF Shows
  <2> QED BY <2>3
<1>5. CASE p = Width * Height
  <2> DEFINE t == [i \in Cells |-> IF i + Width \in Cells THEN s[i + Width] ELSE " "]
             q == p - Width
  <2>1. ~(con.pen < Width * Height)
    BY <1>1, <1>3, <1>5
  <2>2. r = [screen |-> t, pen |-> q]
    BY <1>3, <2>1, Zenon DEF Scrolled
  <2>3. \A i \in Cells : /\ i + Width \in Cells => t[i] = s[i + Width]
                         /\ i + Width \notin Cells => t[i] = " "
    OBVIOUS
  <2> HIDE DEF t, r, q
  <2>4. r.screen = t /\ r.pen = q
    BY <2>2
  <2>5. r.pen = p - Width /\ \A i \in Cells : /\ i + Width \in Cells => r.screen[i] = s[i + Width]
                                              /\ i + Width \notin Cells => r.screen[i] = " "
    BY <2>3, <2>4 DEF q
  <2>6. Shows(Width)
    BY <1>2, <2>5 DEF r
  <2> HIDE DEF Shows
  <2> QED BY <2>6
<1>6. p < Width * Height \/ p = Width * Height
  BY <1>1
<1> QED BY <1>4, <1>5, <1>6, Zenon

LEMMA GlyphPrinted ==
  ASSUME NEW con \in Con_, NEW c \in Glyphs, c # "\n", c # "bs"
  PROVE  \E d \in {0, Width} :
           LET r == pc(con, c) IN
           /\ r \in Con_ /\ r.pen = (con.pen + 1) - d
           /\ \A i \in Cells : /\ i + d \in Cells =>
                                    r.screen[i] = IF i + d = con.pen + 1 THEN c ELSE con.screen[i + d]
                               /\ i + d \notin Cells => r.screen[i] = " "
<1> DEFINE s == [con.screen EXCEPT ![con.pen + 1] = c]
           p == con.pen + 1
           r == Scrolled([screen |-> s, pen |-> p])
<1>1. s \in [Cells -> Glyphs] /\ p \in 0 .. Width * Height
      /\ \A j \in Cells : s[j] = IF j = con.pen + 1 THEN c ELSE con.screen[j]
  BY ConIs
<1>2. pc(con, c) = r
  BY pcOther
<1> HIDE DEF s
<1>3. PICK d \in {0, Width} : /\ r \in Con_ /\ r.pen = p - d
                              /\ \A i \in Cells : /\ i + d \in Cells => r.screen[i] = s[i + d]
                                                  /\ i + d \notin Cells => r.screen[i] = " "
  <2> HIDE DEF p
  <2> QED BY <1>1, ScrolledBy
<1> HIDE DEF r
<1> DEFINE Shown(i) == r.screen[i] = IF i + d = con.pen + 1 THEN c ELSE con.screen[i + d]
<1>4. /\ r \in Con_ /\ r.pen = (con.pen + 1) - d
      /\ \A i \in Cells : /\ i + d \in Cells => Shown(i)
                          /\ i + d \notin Cells => r.screen[i] = " "
  <2>1. \A i \in Cells : i + d \in Cells => s[i + d] = IF i + d = con.pen + 1 THEN c ELSE con.screen[i + d]
    BY <1>1
  <2>2. \A i \in Cells : i + d \in Cells => Shown(i)
    BY <1>3, <2>1, Zenon
  <2>3. r.pen = (con.pen + 1) - d
    BY <1>3, Zenon
  <2> HIDE DEF Shown, p
  <2> QED BY <1>3, <2>2, <2>3
<1> QED BY <1>2, <1>4, Zenon

LEMMA NewlinePrinted ==
  ASSUME NEW con \in Con_
  PROVE  \E d \in {0, Width} :
           LET r == pc(con, "\n")
               row == (con.pen \div Width + 1) * Width
           IN  /\ r \in Con_ /\ r.pen = row - d /\ row > con.pen /\ row \in Nat
               /\ \A i \in Cells : /\ i + d \in Cells => r.screen[i] = con.screen[i + d]
                                   /\ i + d \notin Cells => r.screen[i] = " "
<1> DEFINE row == (con.pen \div Width + 1) * Width
           r == Scrolled([screen |-> con.screen, pen |-> row])
<1>1. con.screen \in [Cells -> Glyphs] /\ row \in 0 .. Width * Height /\ row > con.pen /\ row \in Nat
  BY ConIs, NewRow, ScreenSize
<1>2. pc(con, "\n") = r
  BY pcNewline
<1>3. PICK d \in {0, Width} : /\ r \in Con_ /\ r.pen = row - d
                              /\ \A i \in Cells : /\ i + d \in Cells => r.screen[i] = con.screen[i + d]
                                                  /\ i + d \notin Cells => r.screen[i] = " "
  <2> HIDE DEF row
  <2> QED BY <1>1, ScrolledBy
<1> HIDE DEF r
<1> QED BY <1>1, <1>2, <1>3, Zenon

LEMMA pcOK ==
  ASSUME NEW con, ConOK(con), NEW c \in Glyphs, c # "bs"
  PROVE  ConOK(pc(con, c))
<1> DEFINE r == pc(con, c)
<1>1. con \in Con_ /\ con.pen \in Nat /\ \A i \in Cells : i > con.pen => con.screen[i] = " "
  BY ConIs DEF ConOK, BlankBehind
<1>2. Width \in Nat /\ \A i \in Cells : i \in Nat
  BY ScreenSize DEF Cells
<1>3. CASE c = "\n"
  <2>1. PICK d \in {0, Width} :
          /\ r \in Con_
          /\ \E row \in Nat : r.pen = row - d /\ row > con.pen
          /\ \A i \in Cells : /\ i + d \in Cells => r.screen[i] = con.screen[i + d]
                              /\ i + d \notin Cells => r.screen[i] = " "
    BY <1>1, <1>3, NewlinePrinted, Zenon
  <2> HIDE DEF r
  <2>2. ASSUME NEW i \in Cells, i > r.pen PROVE r.screen[i] = " "
    <3>1. i + d > con.pen /\ d \in Nat
      <4>1. d \in Nat /\ i \in Nat /\ con.pen \in Nat
        <5>1. d = 0 \/ d = Width
          BY <2>1
        <5>2. 0 \in Nat
          OBVIOUS
        <5> QED BY <1>1, <1>2, <5>1, <5>2, Zenon
      <4>2. PICK row \in Nat : r.pen = row - d /\ row > con.pen
        BY <2>1
      <4> QED BY <2>2, <4>1, <4>2
    <3> QED BY <1>1, <2>1, <3>1
  <2> QED BY <2>1, <2>2 DEF ConOK, BlankBehind, r
<1>4. CASE c # "\n"
  <2>1. PICK d \in {0, Width} :
          /\ r \in Con_ /\ r.pen = (con.pen + 1) - d
          /\ \A i \in Cells : /\ i + d \in Cells =>
                                   r.screen[i] = IF i + d = con.pen + 1 THEN c ELSE con.screen[i + d]
                              /\ i + d \notin Cells => r.screen[i] = " "
    BY <1>1, <1>4, GlyphPrinted, Zenon
  <2> HIDE DEF r
  <2>2. ASSUME NEW i \in Cells, i > r.pen PROVE r.screen[i] = " "
    <3>1. i + d > con.pen + 1 /\ i + d > con.pen /\ d \in Nat
      <4>1. d \in Nat /\ i \in Nat /\ con.pen \in Nat
        <5>1. d = 0 \/ d = Width
          BY <2>1
        <5>2. 0 \in Nat
          OBVIOUS
        <5> QED BY <1>1, <1>2, <5>1, <5>2, Zenon
      <4>2. r.pen = (con.pen + 1) - d
        BY <2>1
      <4> HIDE DEF r
      <4> QED BY <2>2, <4>1, <4>2
    <3>2. CASE i + d \in Cells
      <4>1. i + d # con.pen + 1
        <5>1. i \in Nat /\ con.pen \in Nat
          BY <1>1, <1>2
        <5> QED BY <3>1, <5>1
      <4>2. r.screen[i] = con.screen[i + d]
        BY <2>1, <3>2, <4>1
      <4> QED BY <1>1, <3>1, <3>2, <4>2
    <3> QED BY <2>1, <3>2
  <2> QED BY <2>1, <2>2 DEF ConOK, BlankBehind, r
<1> QED BY <1>3, <1>4

LEMMA PrintedOK ==
  ASSUME NEW con, ConOK(con), NEW s \in Seq(Glyphs), \A k \in DOMAIN s : s[k] # "bs"
  PROVE  /\ ConOK(Printed(con, s))
         /\ s # <<>> => \E c : ConOK(c) /\ Printed(con, s) = pc(c, s[Len(s)])
<1>1. Len(s) \in Nat /\ DOMAIN s = 1 .. Len(s) /\ \A k \in 1 .. Len(s) : s[k] \in Glyphs /\ s[k] # "bs"
  BY LenProperties, ElementOfSeq
<1>2. con \in Con_
  BY DEF ConOK
<1>3. PICK f \in [0 .. Len(s) -> Con_] : /\ f[0] = con /\ f[Len(s)] = Printed(con, s)
                                         /\ \A k \in 1 .. Len(s) : f[k] = pc(f[k - 1], s[k])
  BY <1>2, PrintedIs
<1> DEFINE Good == {k \in 0 .. Len(s) : ConOK(f[k])}
<1>4. 0 \in Good
  BY <1>1, <1>3
<1>5. ASSUME NEW k \in 1 .. Len(s), k - 1 \in Good PROVE k \in Good
  <2>1. ConOK(f[k - 1]) /\ s[k] \in Glyphs /\ s[k] # "bs" /\ f[k] = pc(f[k - 1], s[k]) /\ k \in 0 .. Len(s)
    BY <1>1, <1>3, <1>5
  <2>2. ConOK(f[k])
    BY <2>1, pcOK
  <2> QED BY <2>1, <2>2
<1>6. \A k \in 0 .. Len(s) : ConOK(f[k])
  <2> HIDE DEF Good
  <2>1. 0 .. Len(s) \subseteq Good
    BY <1>1, <1>4, <1>5, UpToNumber
  <2> QED BY <2>1 DEF Good
<1>7. ASSUME s # <<>> PROVE \E c : ConOK(c) /\ Printed(con, s) = pc(c, s[Len(s)])
  <2>1. Len(s) \in Nat \ {0}
    BY <1>7, EmptySeq
  <2>2. Len(s) \in 1 .. Len(s) /\ Len(s) - 1 \in 0 .. Len(s)
    BY <2>1
  <2> QED BY <1>3, <1>6, <2>2
<1>8. Len(s) \in 0 .. Len(s)
  BY <1>1
<1> QED BY <1>3, <1>6, <1>7, <1>8

---------------------------------------------------------------------------
\* The invariant.
\* No two entries bear the same name, and the root is a directory.
NamesOK(e) == e[1].dir /\ \A i, j \in DOMAIN e : e[i].path = e[j].path => i = j

\* The path p is that of a file which holds c.
FileAt(e, p, c) == IsFile(e, Find(e, p)) /\ e[Find(e, p)].data = c

FilesInv == TableOK(ents) /\ NamesOK(ents) /\ CwdInv

Cmds  == {"none", "cat", "cp", "mv", "echo", "touch", "rm", "ls", "memtest", "bench", "save"}
Steps == {"none", "load", "clear", "make", "put", "saved", "remove", "take", "give"}
Writing == {"clear", "make", "put"}
Job_  == [cmd : Cmds, argc : Nat, src : Arg_, dst : Arg_, data : Seq(Chars),
          step : Steps, ok : BOOLEAN]

\* Each command has its steps, and the one of the editor is its save.
JobShape(j) ==
  /\ j \in Job_
  /\ j.step = "none" => j = Idle
  /\ j.step = "load" => j.cmd \in {"cat", "cp", "mv"}
  /\ j.step \in Writing => j.cmd # "cat"
  /\ j.step = "remove" => j.cmd \in {"rm", "mv"}
  /\ j.step = "put" /\ j.cmd # "save" => j.ok
JobInv ==
  /\ JobShape(job)
  /\ ~editing => job.cmd # "save" /\ job.step # "saved"
  /\ editing => \/ job = Idle
                \/ /\ job.cmd = "save" /\ job.step \in Writing \cup {"saved"}
                   /\ job.argc = 0 /\ job.dst = filepath /\ job.data = buf

TextInv ==
  /\ buf \in Seq(Chars) /\ Len(buf) <= MaxText /\ cursor \in 0 .. Len(buf)
  /\ dirty \in BOOLEAN /\ top_line \in Nat
  /\ LinesBefore(buf, cursor) \in top_line .. top_line + Rows - 1
EditInv ==
  /\ editing \in BOOLEAN /\ filepath \in Arg_ /\ cmd_mode \in BOOLEAN
  /\ TextInv

\* What is held: the path of the editor, the arguments of the command, and
\* the blocks that its step has taken.
Blocks == IF job.step = "give" THEN Len(job.data)
          ELSE IF job.step \in Writing THEN Buffer ELSE 0
HeldInv == argc = (IF editing THEN 1 ELSE 0) /\ held = argc + job.argc + Blocks

\* The file that a command writes: gone, then made of zeros, then written.
TargetInv ==
  ~TooLong(job.dst) =>
    /\ job.step = "make" /\ job.cmd # "touch" => \A c : ~FileAt(ents, Normal(job.dst), c)
    /\ job.step = "put" => \A c : FileAt(ents, Normal(job.dst), c) => c = Zeros(Len(c))
    /\ job.step = "put" /\ job.ok => FileAt(ents, Normal(job.dst), Zeros(Len(job.data)))
    /\ job.step = "saved" /\ job.ok => FileAt(ents, Normal(job.dst), job.data)

\* mv carries what the file holds, and removes it when its copy holds it.
Moves(c) == /\ job.cmd = "mv" /\ ~TooLong(job.src) /\ ~TooLong(job.dst)
            /\ Normal(job.src) # Normal(job.dst)
            /\ FileAt(ents, Normal(job.src), c) /\ c # <<>>
MoveInv ==
  \A c : Moves(c) => /\ job.step \in Writing => job.data = c
                     /\ job.step = "remove" /\ job.ok => FileAt(ents, Normal(job.dst), c)

ConInv == ConOK(Con) /\ line \in Seq(Glyphs) /\ Len(line) <= MaxLine

\* All but the screen; and all of it.
CoreInv == FilesInv /\ JobInv /\ EditInv /\ HeldInv /\ TargetInv /\ MoveInv /\ CleanMeansSaved
IInv    == CoreInv /\ ConInv

---------------------------------------------------------------------------
\* The text of the editor.
LEMMA LinesBeforeIs ==
  ASSUME NEW b, NEW pos \in Nat
  PROVE  LinesBefore(b, pos) \in Nat /\ LinesBefore(b, 0) = 0
<1>1. IsFiniteSet(1 .. pos)
  BY FS_Interval
<1>2. IsFiniteSet({i \in 1 .. pos : Newline(b, i)})
  BY <1>1, FS_Subset
<1>3. {i \in 1 .. 0 : Newline(b, i)} = {}
  OBVIOUS
<1> QED BY <1>2, <1>3, FS_CardinalityType, FS_EmptySet DEF LinesBefore

LEMMA ScrollOK ==
  ASSUME NEW b, NEW pos \in Nat, top_line \in Nat
  PROVE  /\ Scroll(b, pos) \in Nat
         /\ LinesBefore(b, pos) \in Scroll(b, pos) .. Scroll(b, pos) + Rows - 1
<1> DEFINE cl == LinesBefore(b, pos)
<1>1. cl \in Nat /\ Rows \in Nat \ {0}
  BY LinesBeforeIs, EditorAssumption
<1> HIDE DEF cl
<1> DEFINE s == CASE cl < top_line -> cl [] cl >= top_line + Rows -> cl - Rows + 1 [] OTHER -> top_line
<1>2. s \in Nat /\ cl \in s .. s + Rows - 1
  <2>1. CASE cl < top_line
    <3>1. s = cl
      BY <2>1, <1>1
    <3> QED BY <1>1, <3>1
  <2>2. CASE cl >= top_line + Rows
    <3>1. s = cl - Rows + 1
      BY <2>2, <1>1
    <3> QED BY <1>1, <2>2, <3>1
  <2>3. CASE ~(cl < top_line) /\ ~(cl >= top_line + Rows)
    <3>1. s = top_line
      BY <2>3, Zenon
    <3> QED BY <1>1, <2>3, <3>1
  <2> QED BY <2>1, <2>2, <2>3
<1>3. Scroll(b, pos) = s
  BY Zenon DEF Scroll, cl
<1> QED BY <1>2, <1>3 DEF cl

LEMMA LineStartIs ==
  ASSUME NEW b, NEW pos \in Nat
  PROVE  LineStart(b, pos) \in 0 .. pos
<1> DEFINE S == {s \in 0 .. pos : s = 0 \/ Newline(b, s)}
<1>1. S \subseteq Nat /\ S # {} /\ \A n \in S : n <= pos
  <2>1. 0 \in S
    OBVIOUS
  <2> QED BY <2>1
<1>2. S \subseteq 0 .. pos
  OBVIOUS
<1>3. LineStart(b, pos) = Latest(S)
  BY DEF LineStart
<1> HIDE DEF S
<1>4. \E n \in S : \A m \in S : m <= n
  BY <1>1, GreatestNumber
<1>5. Latest(S) \in S
  BY <1>4, Zenon DEF Latest
<1> QED BY <1>2, <1>3, <1>5

LEMMA LineEndIs ==
  ASSUME NEW b, NEW n \in Nat, Len(b) = n, NEW pos \in 0 .. n
  PROVE  LineEnd(b, pos) \in pos .. n
<1> DEFINE S == {e \in pos .. n : e = n \/ Newline(b, e + 1)}
<1>1. n \in S
  OBVIOUS
<1>2. S \subseteq pos .. n /\ S \subseteq Nat
  OBVIOUS
<1>3. LineEnd(b, pos) = First(S)
  BY DEF LineEnd
<1> HIDE DEF S
<1>4. \E m \in S : \A k \in S : m <= k
  BY <1>1, <1>2, LeastNumber
<1>5. First(S) \in S
  BY <1>4, Zenon DEF First
<1> QED BY <1>2, <1>3, <1>5

\* A character more, and one less.
LEMMA InsertedIs ==
  ASSUME NEW b \in Seq(Chars), NEW pos \in 0 .. Len(b), NEW c \in Chars
  PROVE  LET r == Upto(b, pos) \o <<c>> \o SubSeq(b, pos + 1, Len(b))
         IN  r \in Seq(Chars) /\ Len(r) = Len(b) + 1
<1> DEFINE u == Upto(b, pos)
           v == SubSeq(b, pos + 1, Len(b))
           w == <<c>>
<1>1. Len(b) \in Nat
  BY LenProperties
<1>2. u \in Seq(Chars) /\ Len(u) = pos /\ v \in Seq(Chars) /\ Len(v) = Len(b) - pos
  BY UptoIs, RestIs
<1>3. w \in Seq(Chars) /\ Len(w) = 1
  OBVIOUS
<1> HIDE DEF u, v, w
<1>4. u \o w \in Seq(Chars) /\ Len(u \o w) = pos + 1
  <2>1. u \o w \in Seq(Chars) /\ Len(u \o w) = Len(u) + Len(w)
    BY <1>2, <1>3, ConcatProperties
  <2> QED BY <1>2, <1>3, <2>1
<1>5. (u \o w) \o v \in Seq(Chars) /\ Len((u \o w) \o v) = pos + 1 + (Len(b) - pos)
  BY <1>2, <1>4, ConcatProperties
<1>6. pos + 1 + (Len(b) - pos) = Len(b) + 1
  BY <1>1
<1> QED BY <1>5, <1>6 DEF u, v, w

LEMMA RemovedIs ==
  ASSUME NEW b \in Seq(Chars), NEW pos \in 1 .. Len(b)
  PROVE  RemoveAt(b, pos) \in Seq(Chars) /\ Len(RemoveAt(b, pos)) = Len(b) - 1
<1>1. Len(b) \in Nat /\ pos \in Nat /\ pos - 1 \in 0 .. Len(b) /\ pos \in 0 .. Len(b)
  BY LenProperties
<1> DEFINE u == SubSeq(b, 1, pos - 1)
           v == SubSeq(b, pos + 1, Len(b))
<1>2. u \in Seq(Chars) /\ Len(u) = pos - 1
  BY <1>1, UptoIs DEF Upto
<1>3. v \in Seq(Chars) /\ Len(v) = Len(b) - pos
  BY <1>1, RestIs
<1>4. RemoveAt(b, pos) = u \o v
  BY Zenon DEF RemoveAt
<1> HIDE DEF u, v
<1>5. u \o v \in Seq(Chars) /\ Len(u \o v) = Len(u) + Len(v)
  BY <1>2, <1>3, ConcatProperties
<1>6. (pos - 1) + (Len(b) - pos) = Len(b) - 1
  BY <1>1
<1> QED BY <1>2, <1>3, <1>4, <1>5, <1>6

LEMMA RenderOK ==
  ASSUME top_line \in Nat, buf' \in Seq(Chars), Len(buf') <= MaxText, cursor' \in 0 .. Len(buf'),
         dirty' \in BOOLEAN, Render
  PROVE  TextInv'
<1>1. cursor' \in Nat
  OBVIOUS
<1>2. top_line' = Scroll(buf', cursor')
  BY DEF Render
<1>3. /\ Scroll(buf', cursor') \in Nat
      /\ LinesBefore(buf', cursor') \in Scroll(buf', cursor') .. Scroll(buf', cursor') + Rows - 1
  BY <1>1, ScrollOK
<1>4. top_line' \in Nat /\ LinesBefore(buf', cursor') \in top_line' .. top_line' + Rows - 1
  BY <1>2, <1>3, Zenon
<1> QED BY <1>4 DEF TextInv

LEMMA SetOK ==
  ASSUME TextInv, NEW b \in Seq(Chars), Len(b) <= MaxText, NEW c \in 0 .. Len(b), Set(b, c)
  PROVE  TextInv' /\ dirty'
<1>1. buf' = b /\ cursor' = c /\ Render /\ dirty' = TRUE
  BY DEF Set
<1>2. TextInv'
  BY <1>1, RenderOK DEF TextInv
<1> QED BY <1>1, <1>2

LEMMA MoveOK ==
  ASSUME TextInv, NEW c \in 0 .. Len(buf), Move(c)
  PROVE  TextInv' /\ buf' = buf /\ dirty' = dirty
<1>1. buf' = buf /\ dirty' = dirty /\ cursor' = c /\ Render
  BY DEF Move
<1>2. TextInv'
  BY <1>1, RenderOK DEF TextInv
<1> QED BY <1>1, <1>2

\* A key leaves a text, with the cursor in it and on the screen, and one that
\* changes the text marks it as changed.
LEMMA TextKeyOK ==
  ASSUME TextInv, Ins \/ Delb \/ Delf \/ KeyLeft \/ KeyRight \/ KeyUp \/ KeyDown
  PROVE  TextInv' /\ (dirty' \/ (buf' = buf /\ dirty' = dirty))
<1>1. /\ buf \in Seq(Chars) /\ Len(buf) \in Nat /\ Len(buf) <= MaxText /\ MaxText \in Nat
      /\ cursor \in 0 .. Len(buf) /\ cursor \in Nat
  BY LenProperties, EditorAssumption DEF TextInv
<1>2. CASE Ins
  <2>1. {"x", "\n"} \subseteq Chars
    BY FilesAssumption
  <2>2. PICK c \in {"x", "\n"} :
          Set(Upto(buf, cursor) \o <<c>> \o SubSeq(buf, cursor + 1, Len(buf)), cursor + 1)
    BY <1>2, Zenon DEF Ins
  <2> DEFINE b == Upto(buf, cursor) \o <<c>> \o SubSeq(buf, cursor + 1, Len(buf))
  <2>3. c \in Chars
    BY <2>1
  <2>4. b \in Seq(Chars) /\ Len(b) = Len(buf) + 1
    BY <1>1, <2>3, InsertedIs
  <2>5. Len(buf) < MaxText
    BY <1>2 DEF Ins
  <2>6. Set(b, cursor + 1)
    BY <2>2
  <2> HIDE DEF b
  <2>7. Len(b) <= MaxText /\ cursor + 1 \in 0 .. Len(b)
    BY <1>1, <2>4, <2>5
  <2> QED BY <2>4, <2>6, <2>7, SetOK
<1>3. CASE Delb
  <2> DEFINE b == RemoveAt(buf, cursor)
  <2>1. cursor > 0 /\ Set(b, cursor - 1)
    BY <1>3 DEF Delb
  <2>2. cursor \in 1 .. Len(buf)
    BY <1>1, <2>1
  <2>3. b \in Seq(Chars) /\ Len(b) = Len(buf) - 1
    BY <1>1, <2>2, RemovedIs
  <2> HIDE DEF b
  <2>4. Len(b) <= MaxText /\ cursor - 1 \in 0 .. Len(b)
    BY <1>1, <2>2, <2>3
  <2> QED BY <2>1, <2>3, <2>4, SetOK
<1>4. CASE Delf
  <2> DEFINE b == RemoveAt(buf, cursor + 1)
  <2>1. cursor < Len(buf) /\ Set(b, cursor)
    BY <1>4 DEF Delf
  <2>2. cursor + 1 \in 1 .. Len(buf)
    BY <1>1, <2>1
  <2>3. b \in Seq(Chars) /\ Len(b) = Len(buf) - 1
    BY <1>1, <2>2, RemovedIs
  <2> HIDE DEF b
  <2>4. Len(b) <= MaxText /\ cursor \in 0 .. Len(b)
    BY <1>1, <2>2, <2>3
  <2> QED BY <2>1, <2>3, <2>4, SetOK
<1>5. CASE KeyLeft
  <2>1. cursor - 1 \in 0 .. Len(buf) /\ Move(cursor - 1)
    BY <1>1, <1>5 DEF KeyLeft
  <2> QED BY <2>1, MoveOK
<1>6. CASE KeyRight
  <2>1. cursor + 1 \in 0 .. Len(buf) /\ Move(cursor + 1)
    BY <1>1, <1>6 DEF KeyRight
  <2> QED BY <2>1, MoveOK
<1>7. CASE KeyUp
  <2> DEFINE s  == LineStart(buf, cursor)
             ps == LineStart(buf, s - 1)
  <2>1. s \in 0 .. cursor
    BY <1>1, LineStartIs
  <2>2. IF s = 0 THEN Move(0) ELSE Move(ps + AtMost(cursor - s, s - 1 - ps))
    BY <1>7, Zenon DEF KeyUp
  <2>3. CASE s = 0
    <3>1. Move(0) /\ 0 \in 0 .. Len(buf)
      BY <1>1, <2>2, <2>3
    <3> QED BY <3>1, MoveOK
  <2>4. CASE s # 0
    <3> HIDE DEF s
    <3>1. s - 1 \in Nat
      BY <2>1, <2>4
    <3>2. ps \in 0 .. s - 1
      BY <3>1, LineStartIs
    <3>3. Move(ps + AtMost(cursor - s, s - 1 - ps))
      BY <2>2, <2>4, Zenon
    <3> HIDE DEF ps
    <3>4. ps + AtMost(cursor - s, s - 1 - ps) \in 0 .. Len(buf)
      BY <1>1, <2>1, <3>1, <3>2 DEF AtMost
    <3> QED BY <3>3, <3>4, MoveOK
  <2> QED BY <2>3, <2>4
<1>8. CASE KeyDown
  <2> DEFINE s   == LineStart(buf, cursor)
             end == LineEnd(buf, cursor)
             ne  == LineEnd(buf, end + 1)
  <2>1. s \in 0 .. cursor /\ end \in cursor .. Len(buf)
    BY <1>1, LineStartIs, LineEndIs
  <2>2. IF end >= Len(buf) THEN Move(Len(buf))
        ELSE Move(end + 1 + AtMost(cursor - s, ne - end - 1))
    BY <1>8, Zenon DEF KeyDown
  <2>3. CASE end >= Len(buf)
    <3>1. Move(Len(buf)) /\ Len(buf) \in 0 .. Len(buf)
      BY <1>1, <2>2, <2>3
    <3> QED BY <3>1, MoveOK
  <2>4. CASE ~(end >= Len(buf))
    <3> HIDE DEF end, s
    <3>1. end + 1 \in 0 .. Len(buf)
      BY <1>1, <2>1, <2>4
    <3>2. ne \in end + 1 .. Len(buf)
      BY <1>1, <3>1, LineEndIs
    <3>3. Move(end + 1 + AtMost(cursor - s, ne - end - 1))
      BY <2>2, <2>4, Zenon
    <3> HIDE DEF ne
    <3>4. end + 1 + AtMost(cursor - s, ne - end - 1) \in 0 .. Len(buf)
      BY <1>1, <2>1, <3>1, <3>2 DEF AtMost
    <3> QED BY <3>3, <3>4, MoveOK
  <2> QED BY <2>3, <2>4
<1> QED BY <1>2, <1>3, <1>4, <1>5, <1>6, <1>7, <1>8

---------------------------------------------------------------------------
\* What is where.
LEMMA FindUnique ==
  ASSUME NEW e \in Seq(Entry_), NamesOK(e), NEW i \in 1 .. Len(e)
  PROVE  Find(e, e[i].path) = i
<1>1. DOMAIN e = 1 .. Len(e) /\ Len(e) \in Nat
  BY TableIs
<1> DEFINE p == e[i].path
<1>2. Find(e, p) # 0
  BY FindIs
<1>3. Find(e, p) \in 1 .. Len(e) /\ e[Find(e, p)].path = p
  BY <1>2, FindIs
<1> QED BY <1>1, <1>3, Zenon DEF NamesOK

LEMMA FileAtIs ==
  ASSUME NEW e \in Seq(Entry_), NamesOK(e), NEW p, NEW c
  PROVE  FileAt(e, p, c) <=> \E i \in 1 .. Len(e) : e[i].path = p /\ ~e[i].dir /\ e[i].data = c
<1>1. ASSUME FileAt(e, p, c)
      PROVE  \E i \in 1 .. Len(e) : e[i].path = p /\ ~e[i].dir /\ e[i].data = c
  <2>1. Find(e, p) # 0 /\ ~e[Find(e, p)].dir /\ e[Find(e, p)].data = c
    BY <1>1, Zenon DEF FileAt, IsFile
  <2>2. Find(e, p) \in 1 .. Len(e) /\ e[Find(e, p)].path = p
    BY <2>1, FindIs, Zenon
  <2> QED BY <2>1, <2>2, Zenon
<1>2. ASSUME NEW i \in 1 .. Len(e), e[i].path = p, ~e[i].dir, e[i].data = c
      PROVE  FileAt(e, p, c)
  <2>1. Find(e, p) = i
    BY <1>2, FindUnique, Zenon
  <2>2. i # 0
    OBVIOUS
  <2> QED BY <1>2, <2>1, <2>2, Zenon DEF FileAt, IsFile
<1> QED BY <1>1, <1>2

LEMMA KeptIs ==
  ASSUME NEW e, TableOK(e), NamesOK(e), NEW c
  PROVE  (\E i \in DOMAIN e : ~e[i].dir /\ e[i].data = c) <=> \E p : FileAt(e, p, c)
<1>1. e \in Seq(Entry_) /\ DOMAIN e = 1 .. Len(e)
  BY TableIs DEF TableOK
<1>2. ASSUME NEW p, FileAt(e, p, c) PROVE \E i \in DOMAIN e : ~e[i].dir /\ e[i].data = c
  <2>1. PICK i \in 1 .. Len(e) : e[i].path = p /\ ~e[i].dir /\ e[i].data = c
    BY <1>1, <1>2, FileAtIs
  <2> QED BY <1>1, <2>1, Zenon
<1>3. ASSUME NEW i \in DOMAIN e, ~e[i].dir, e[i].data = c PROVE \E p : FileAt(e, p, c)
  <2>1. FileAt(e, e[i].path, c)
    BY <1>1, <1>3, FileAtIs, Zenon
  <2> QED BY <2>1
<1> QED BY <1>2, <1>3, Zenon

\* A table with the same names in the same places.
LEMMA NamesSame ==
  ASSUME NEW e \in Seq(Entry_), NamesOK(e), Len(e) >= 1, NEW d \in Seq(Entry_), Len(d) = Len(e),
         \A k \in 1 .. Len(e) : d[k].path = e[k].path /\ d[k].dir = e[k].dir
  PROVE  NamesOK(d) /\ \A p : Find(d, p) = Find(e, p)
<1>1. DOMAIN e = 1 .. Len(e) /\ DOMAIN d = 1 .. Len(e) /\ Len(e) \in Nat
  BY TableIs
<1>2. 1 \in 1 .. Len(e)
  BY <1>1
<1>3. NamesOK(d)
  BY <1>1, <1>2, Zenon DEF NamesOK
<1>4. ASSUME NEW p PROVE Find(d, p) = Find(e, p)
  <2>1. CASE Find(e, p) = 0
    <3>1. \A k \in 1 .. Len(d) : d[k].path # p
      <4>1. \A k \in 1 .. Len(e) : e[k].path # p
        BY <2>1, FindIs
      <4> QED BY <4>1, Zenon
    <3>2. Find(d, p) = 0
      BY <3>1, FindIs
    <3> QED BY <2>1, <3>2
  <2>2. CASE Find(e, p) # 0
    <3>1. Find(e, p) \in 1 .. Len(e) /\ e[Find(e, p)].path = p
      BY <2>2, FindIs, ZenonT(60)
    <3>2. Find(e, p) \in 1 .. Len(d) /\ d[Find(e, p)].path = p
      BY <3>1, Zenon
    <3> QED BY <1>3, <3>2, FindUnique, Zenon
  <2> QED BY <2>1, <2>2
<1> QED BY <1>3, <1>4

\* An entry more.
LEMMA NamesAdded ==
  ASSUME NEW e, TableOK(e), NamesOK(e), NEW x \in Entry_, Find(e, x.path) = 0,
         NEW d \in Seq(Entry_), Len(d) = Len(e) + 1, d[Len(e) + 1] = x,
         \A k \in 1 .. Len(e) : d[k] = e[k]
  PROVE  /\ NamesOK(d)
         /\ \A p, c : FileAt(d, p, c) <=> FileAt(e, p, c) \/ (~x.dir /\ p = x.path /\ c = x.data)
<1>1. e \in Seq(Entry_) /\ DOMAIN e = 1 .. Len(e) /\ DOMAIN d = 1 .. Len(e) + 1
      /\ Len(e) \in Nat /\ 1 \in 1 .. Len(e)
  BY TableIs DEF TableOK
<1>2. \A k \in 1 .. Len(e) : e[k].path # x.path
  BY <1>1, FindIs, Zenon
<1>3. \A k \in 1 .. Len(e) + 1 : k \in 1 .. Len(e) \/ k = Len(e) + 1
  BY <1>1
<1>4. 1 .. Len(e) \subseteq 1 .. Len(e) + 1 /\ Len(e) + 1 \in 1 .. Len(e) + 1
  BY <1>1
<1>5. d[1].dir
  BY <1>1, Zenon DEF NamesOK
<1>6. ASSUME NEW i \in 1 .. Len(e) + 1, NEW j \in 1 .. Len(e) + 1, d[i].path = d[j].path
      PROVE  i = j
  <2>1. CASE i \in 1 .. Len(e) /\ j \in 1 .. Len(e)
    BY <1>1, <1>6, <2>1, Zenon DEF NamesOK
  <2>2. CASE i \in 1 .. Len(e) /\ j = Len(e) + 1
    BY <1>2, <1>6, <2>2, Zenon
  <2>3. CASE i = Len(e) + 1 /\ j \in 1 .. Len(e)
    BY <1>2, <1>6, <2>3, Zenon
  <2> QED BY <1>3, <2>1, <2>2, <2>3, Zenon
<1>7. NamesOK(d)
  BY <1>1, <1>5, <1>6, Zenon DEF NamesOK
<1>8. ASSUME NEW p, NEW c
      PROVE  FileAt(d, p, c) <=> FileAt(e, p, c) \/ (~x.dir /\ p = x.path /\ c = x.data)
  <2>1. FileAt(d, p, c) <=> \E i \in 1 .. Len(e) + 1 : d[i].path = p /\ ~d[i].dir /\ d[i].data = c
    <3>1. FileAt(d, p, c) <=> \E i \in 1 .. Len(d) : d[i].path = p /\ ~d[i].dir /\ d[i].data = c
      BY <1>7, FileAtIs
    <3> QED BY <3>1, Zenon
  <2>2. FileAt(e, p, c) <=> \E i \in 1 .. Len(e) : e[i].path = p /\ ~e[i].dir /\ e[i].data = c
    BY <1>1, FileAtIs
  <2>3. ASSUME FileAt(d, p, c) PROVE FileAt(e, p, c) \/ (~x.dir /\ p = x.path /\ c = x.data)
    BY <1>3, <2>1, <2>2, <2>3, Zenon
  <2>4. ASSUME FileAt(e, p, c) PROVE FileAt(d, p, c)
    BY <1>4, <2>1, <2>2, <2>4, Zenon
  <2>5. ASSUME ~x.dir, p = x.path, c = x.data PROVE FileAt(d, p, c)
    BY <1>4, <2>1, <2>5, Zenon
  <2> QED BY <2>3, <2>4, <2>5, Zenon
<1> QED BY <1>7, <1>8

LEMMA MadeDirNames ==
  ASSUME NEW e, TableOK(e), NamesOK(e), NEW p, PathOK(p), MayAdd(e, p)
  PROVE  LET d == MadeDir(e, p) IN
         TableOK(d) /\ NamesOK(d) /\ \A q, c : FileAt(d, q, c) <=> FileAt(e, q, c)
<1> DEFINE d == MadeDir(e, p)
           x == d[Len(e) + 1]
<1>1. /\ TableOK(d) /\ Len(d) = Len(e) + 1 /\ (\A k \in 1 .. Len(e) : d[k] = e[k])
      /\ x.path = p /\ x.dir
  BY MadeDirOK
<1> HIDE DEF d
<1>2. d \in Seq(Entry_) /\ Len(e) \in Nat
  BY <1>1, TableIs DEF TableOK
<1>3. x \in Entry_
  BY <1>1, <1>2, TableIs
<1>4. Find(e, x.path) = 0
  BY <1>1 DEF MayAdd
<1> HIDE DEF x
<1>5. NamesOK(d)
      /\ \A q, c : FileAt(d, q, c) <=> FileAt(e, q, c) \/ (~x.dir /\ q = x.path /\ c = x.data)
  BY <1>1, <1>2, <1>3, <1>4, NamesAdded, ZenonT(60) DEF x
<1>6. \A q, c : FileAt(d, q, c) <=> FileAt(e, q, c)
  BY <1>1, <1>5, Zenon
<1> QED BY <1>1, <1>5, <1>6 DEF d

LEMMA CreatedNames ==
  ASSUME NEW e, TableOK(e), NamesOK(e), NEW p, PathOK(p), NEW n \in Nat, MayCreate(e, p, n)
  PROVE  LET d == Created(e, p, n) IN
         TableOK(d) /\ NamesOK(d)
         /\ \A q, c : FileAt(d, q, c) <=> FileAt(e, q, c) \/ (q = p /\ c = Zeros(n))
<1> DEFINE d == Created(e, p, n)
           x == d[Len(e) + 1]
<1>1. /\ TableOK(d) /\ Len(d) = Len(e) + 1 /\ (\A k \in 1 .. Len(e) : d[k] = e[k])
      /\ x.path = p /\ ~x.dir /\ x.data = Zeros(n)
  BY CreatedOK
<1> HIDE DEF d
<1>2. d \in Seq(Entry_) /\ Len(e) \in Nat
  BY <1>1, TableIs DEF TableOK
<1>3. x \in Entry_
  BY <1>1, <1>2, TableIs
<1>4. Find(e, x.path) = 0
  BY <1>1 DEF MayCreate, MayAdd
<1> HIDE DEF x
<1>5. NamesOK(d)
      /\ \A q, c : FileAt(d, q, c) <=> FileAt(e, q, c) \/ (~x.dir /\ q = x.path /\ c = x.data)
  BY <1>1, <1>2, <1>3, <1>4, NamesAdded, Zenon DEF x
<1>6. \A q, c : FileAt(d, q, c) <=> FileAt(e, q, c) \/ (q = p /\ c = Zeros(n))
  BY <1>1, <1>5, Zenon
<1> QED BY <1>1, <1>5, <1>6 DEF d

\* Only what a call deletes is gone, and it is gone.
LEMMA DeletedNames ==
  ASSUME NEW e, TableOK(e), NamesOK(e), NEW p
  PROVE  LET d == Deleted(e, p) IN
         TableOK(d) /\ NamesOK(d) /\ \A q, c : FileAt(d, q, c) <=> FileAt(e, q, c) /\ q # p
<1> DEFINE i == Find(e, p)
           n == Len(e)
           d == Deleted(e, p)
<1>1. /\ e \in Seq(Entry_) /\ DOMAIN e = 1 .. n /\ n \in Nat /\ n >= 1 /\ n <= MaxFiles /\ MaxFiles \in Nat
      /\ i \in 0 .. n /\ i \in Nat
      /\ (i # 0 => i \in 1 .. n /\ e[i].path = p)
  BY TableIs, FindIs, FilesAssumption DEF TableOK
<1>2. TableOK(d)
  BY DeletedOK
<1>3. CASE MayDelete(e, i)
  <2> DEFINE src(k) == IF k = i THEN n ELSE k
  <2>1. i \in 2 .. n
    BY <1>1, <1>3 DEF MayDelete
  <2>2. d = Drop(e, i)
    BY <1>3, Zenon DEF Deleted
  <2> HIDE DEF i, n, d
  <2>3. /\ d \in Seq(Entry_) /\ Len(d) = n - 1 /\ DOMAIN d = 1 .. n - 1
        /\ \A k \in 1 .. n - 1 : /\ d[k].path = e[src(k)].path /\ d[k].dir = e[src(k)].dir
                                 /\ d[k].data = e[src(k)].data
    <3>1. i \in 1 .. n
      BY <2>1
    <3>2. /\ Drop(e, i) \in Seq(Entry_) /\ Len(Drop(e, i)) = n - 1 /\ DOMAIN Drop(e, i) = 1 .. n - 1
          /\ \A k \in 1 .. n - 1 :
               LET x == IF k = i THEN e[n] ELSE e[k]
                   y == Drop(e, i)[k]
               IN  y.path = x.path /\ y.dir = x.dir /\ y.data = x.data
      BY <1>1, <3>1, DropIs DEF n
    <3>3. \A k : (IF k = i THEN e[n] ELSE e[k]) = e[src(k)]
      BY Zenon
    <3> QED BY <2>2, <3>2, <3>3, Zenon
  <2>4. \A k \in 1 .. n - 1 : src(k) \in 1 .. n /\ (src(k) = i => FALSE)
    BY <1>1, <2>1
  <2>5. \A k, m \in 1 .. n - 1 : src(k) = src(m) => k = m
    BY <1>1, <2>1
  <2>6. \A m \in 1 .. n : m # i => \E k \in 1 .. n - 1 : src(k) = m
    <3> SUFFICES ASSUME NEW m \in 1 .. n, m # i PROVE \E k \in 1 .. n - 1 : src(k) = m
      OBVIOUS
    <3>1. CASE m = n
      <4>1. i \in 1 .. n - 1 /\ src(i) = m
        BY <1>1, <2>1, <3>1
      <4> QED BY <4>1
    <3>2. CASE m # n
      <4>1. m \in 1 .. n - 1 /\ src(m) = m
        BY <1>1, <3>2
      <4> QED BY <4>1
    <3> QED BY <3>1, <3>2
  <2>7. 1 \in 1 .. n - 1 /\ src(1) = 1
    BY <1>1, <2>1
  <2> HIDE DEF src
  <2>8. d[1].dir
    BY <2>3, <2>7, Zenon DEF NamesOK
  <2>9. NamesOK(d)
    <3>1. ASSUME NEW k \in 1 .. n - 1, NEW m \in 1 .. n - 1, d[k].path = d[m].path PROVE k = m
      <4>1. e[src(k)].path = e[src(m)].path /\ src(k) \in DOMAIN e /\ src(m) \in DOMAIN e
        BY <1>1, <2>3, <2>4, <3>1, Zenon
      <4>2. src(k) = src(m)
        BY <4>1, Zenon DEF NamesOK
      <4> QED BY <2>5, <4>2, Zenon
    <3> QED BY <2>3, <2>8, <3>1, Zenon DEF NamesOK
  <2>10. e[i].path = p /\ i \in 1 .. n
    BY <1>1, <2>1
  <2>11. ASSUME NEW q, NEW c
         PROVE  FileAt(d, q, c) <=> FileAt(e, q, c) /\ q # p
    <3>1. FileAt(d, q, c) <=> \E k \in 1 .. n - 1 : d[k].path = q /\ ~d[k].dir /\ d[k].data = c
      <4>1. FileAt(d, q, c) <=> \E k \in 1 .. Len(d) : d[k].path = q /\ ~d[k].dir /\ d[k].data = c
        BY <2>3, <2>9, FileAtIs
      <4> QED BY <2>3, <4>1, Zenon
    <3>2. FileAt(e, q, c) <=> \E m \in 1 .. n : e[m].path = q /\ ~e[m].dir /\ e[m].data = c
      BY <1>1, FileAtIs DEF n
    <3>3. ASSUME FileAt(d, q, c) PROVE FileAt(e, q, c) /\ q # p
      <4>1. PICK k \in 1 .. n - 1 : d[k].path = q /\ ~d[k].dir /\ d[k].data = c
        BY <3>1, <3>3, Zenon
      <4>2. src(k) \in 1 .. n /\ e[src(k)].path = q /\ ~e[src(k)].dir /\ e[src(k)].data = c
        BY <2>3, <2>4, <4>1, Zenon
      <4>3. q # p
        BY <1>1, <2>4, <2>10, <4>2, Zenon DEF NamesOK
      <4> QED BY <3>2, <4>2, <4>3, Zenon
    <3>4. ASSUME FileAt(e, q, c), q # p PROVE FileAt(d, q, c)
      <4>1. PICK m \in 1 .. n : e[m].path = q /\ ~e[m].dir /\ e[m].data = c
        BY <3>2, <3>4, Zenon
      <4>2. m # i
        BY <2>10, <3>4, <4>1, Zenon
      <4>3. PICK k \in 1 .. n - 1 : src(k) = m
        BY <2>6, <4>2, Zenon
      <4> QED BY <2>3, <3>1, <4>1, <4>3, Zenon
    <3> QED BY <3>3, <3>4, Zenon
  <2> QED BY <1>2, <2>9, <2>11 DEF d
<1>4. CASE ~MayDelete(e, i)
  <2>1. d = e
    BY <1>4, Zenon DEF Deleted
  <2>2. ASSUME NEW c, FileAt(e, p, c) PROVE FALSE
    <3>1. i # 0 /\ ~e[i].dir
      BY <2>2, Zenon DEF FileAt, IsFile
    <3> HIDE DEF i
    <3>2. i # 1
      BY <3>1, Zenon DEF NamesOK
    <3>3. i > 1
      BY <1>1, <3>1, <3>2
    <3> QED BY <1>4, <3>1, <3>3, Zenon DEF MayDelete
  <2> HIDE DEF d
  <2>3. \A q, c : FileAt(d, q, c) <=> FileAt(e, q, c) /\ q # p
    BY <2>1, <2>2, Zenon
  <2> QED BY <1>2, <2>1, <2>3 DEF d
<1> QED BY <1>3, <1>4

\* A write leaves the other files, and does what it says when it says so.
LEMMA WritesNames ==
  ASSUME NEW e, TableOK(e), NamesOK(e), NEW p, NEW new \in Seq(Chars), NEW w \in Writes(e, p, new)
  PROVE  /\ TableOK(w.ents) /\ NamesOK(w.ents) /\ w.ok \in BOOLEAN
         /\ \A q, c : q # p => (FileAt(w.ents, q, c) <=> FileAt(e, q, c))
         /\ w.ok => \A c : FileAt(e, p, c) =>
                       Len(new) <= Len(c) /\ FileAt(w.ents, p, Written(c, new, Len(new)))
<1> DEFINE i == Find(e, p)
           d == w.ents
<1>1. /\ TableOK(d) /\ Len(d) = Len(e) /\ w.ok \in BOOLEAN
      /\ \A k \in 1 .. Len(e) : /\ d[k].path = e[k].path /\ d[k].dir = e[k].dir
                                /\ k # i => d[k].data = e[k].data
      /\ w.ok => /\ i \in 1 .. Len(e) /\ ~e[i].dir /\ Len(new) <= Len(e[i].data)
                 /\ d[i].data = Written(e[i].data, new, Len(new))
  BY WritesOK
<1>2. e \in Seq(Entry_) /\ d \in Seq(Entry_) /\ Len(e) >= 1
  BY <1>1 DEF TableOK
<1>3. NamesOK(d) /\ \A q : Find(d, q) = Find(e, q)
  BY <1>1, <1>2, NamesSame
<1> HIDE DEF d
<1>4. ASSUME NEW q, NEW c, q # p PROVE FileAt(d, q, c) <=> FileAt(e, q, c)
  <2> DEFINE m == Find(e, q)
  <2>1. CASE m = 0
    BY <1>3, <2>1, Zenon DEF FileAt, IsFile
  <2>2. CASE m # 0
    <3>1. m \in 1 .. Len(e) /\ e[m].path = q
      BY <1>2, <2>2, FindIs
    <3>2. i # m
      <4>1. CASE i = 0
        BY <2>2, <4>1
      <4>2. CASE i # 0
        <5>1. e[i].path = p
          BY <1>2, <4>2, FindIs
        <5> QED BY <1>4, <3>1, <5>1, Zenon
      <4> QED BY <4>1, <4>2
    <3> HIDE DEF i
    <3>3. d[m].dir = e[m].dir /\ d[m].data = e[m].data
      BY <1>1, <3>1, <3>2, Zenon
    <3>4. Find(d, q) = m
      BY <1>3, Zenon
    <3> QED BY <3>3, <3>4, Zenon DEF FileAt, IsFile
  <2> QED BY <2>1, <2>2
<1>5. ASSUME w.ok, NEW c, FileAt(e, p, c)
      PROVE  Len(new) <= Len(c) /\ FileAt(d, p, Written(c, new, Len(new)))
  <2>1. i # 0 /\ ~e[i].dir /\ e[i].data = c
    BY <1>5, Zenon DEF FileAt, IsFile
  <2>2. Find(d, p) = i
    BY <1>3, Zenon
  <2>3. i \in 1 .. Len(e) /\ Len(new) <= Len(e[i].data) /\ d[i].data = Written(e[i].data, new, Len(new))
    BY <1>1, <1>5, Zenon
  <2> HIDE DEF i
  <2>4. ~d[i].dir
    BY <1>1, <2>1, <2>3, Zenon
  <2>5. Len(new) <= Len(c)
    BY <2>1, <2>3, Zenon
  <2>6. FileAt(d, p, Written(c, new, Len(new)))
    BY <2>1, <2>2, <2>3, <2>4, Zenon DEF FileAt, IsFile
  <2> QED BY <2>5, <2>6
<1>6. (\A q, c : q # p => (FileAt(d, q, c) <=> FileAt(e, q, c)))
      /\ (w.ok => \A c : FileAt(e, p, c) =>
                    Len(new) <= Len(c) /\ FileAt(d, p, Written(c, new, Len(new))))
  BY <1>4, <1>5
<1> QED BY <1>1, <1>3, <1>6, Zenon DEF d

---------------------------------------------------------------------------
\* The command.
LEMMA ArgIs ==
  /\ NoArg \in Arg_ /\ Args \subseteq Arg_ /\ Texts \subseteq Seq(Chars)
  /\ "none" \in Cmds /\ "none" \in Steps /\ <<>> \in Seq(Chars)
<1> DEFINE none == <<>>
<1>1. none \in Seq(Names) /\ none \in Seq(Chars)
  BY EmptySeq
<1> HIDE DEF none
<1>2. \A abs \in BOOLEAN : [abs |-> abs, parts |-> none] \in Arg_
  BY <1>1 DEF Arg_
<1>3. NoArg \in Arg_
  <2>1. TRUE \in BOOLEAN
    OBVIOUS
  <2>2. [abs |-> TRUE, parts |-> none] \in Arg_
    BY <1>2, <2>1, Zenon
  <2> QED BY <2>2 DEF NoArg, none
<1> QED BY <1>1, <1>3, ArgsAssumption DEF Arg_, Cmds, Steps, none

LEMMA IdleIs ==
  /\ Idle \in Job_ /\ Idle.cmd = "none" /\ Idle.step = "none" /\ Idle.argc = 0
  /\ Idle.src = NoArg /\ Idle.dst = NoArg /\ Idle.data = <<>> /\ Idle.ok
<1> DEFINE none == <<>>
<1>1. none \in Seq(Chars) /\ NoArg \in Arg_ /\ "none" \in Cmds /\ "none" \in Steps
  BY ArgIs
<1>2. Idle = [cmd |-> "none", argc |-> 0, src |-> NoArg, dst |-> NoArg, data |-> none,
              step |-> "none", ok |-> TRUE]
  BY DEF Idle
<1> HIDE DEF none
<1>3. Idle.cmd = "none" /\ Idle.step = "none" /\ Idle.argc = 0 /\ Idle.ok = TRUE
      /\ Idle.src = NoArg /\ Idle.dst = NoArg /\ Idle.data = none
  BY <1>2
<1>4. Idle \in Job_
  BY <1>1, <1>2 DEF Job_
<1> QED BY <1>3, <1>4 DEF none

LEMMA JobIs ==
  ASSUME NEW cmd \in Cmds, NEW n \in Nat, NEW src \in Arg_, NEW dst \in Arg_, NEW step \in Steps
  PROVE  LET k == Job(cmd, n, src, dst, step)
         IN  /\ k \in Job_ /\ k.cmd = cmd /\ k.argc = n /\ k.src = src /\ k.dst = dst
             /\ k.step = step /\ k.data = <<>> /\ k.ok
<1> DEFINE k == Job(cmd, n, src, dst, step)
<1>1. k = [Idle EXCEPT !.cmd = cmd, !.argc = n, !.src = src, !.dst = dst, !.step = step]
  BY DEF Job
<1>2. Idle \in Job_ /\ Idle.data = <<>> /\ Idle.ok
  BY IdleIs
<1> DEFINE none == <<>>
<1>3. Idle.data = none
  BY <1>2
<1> HIDE DEF k, none
<1>4. k \in Job_
  BY <1>1, <1>2 DEF Job_
<1>5. k.cmd = cmd /\ k.argc = n /\ k.src = src /\ k.dst = dst /\ k.step = step /\ k.data = none
  BY <1>1, <1>2, <1>3 DEF Job_
<1>6. k.ok
  BY <1>1, <1>2 DEF Job_
<1> QED BY <1>4, <1>5, <1>6 DEF k, none

LEMMA WithData ==
  ASSUME NEW k \in Job_, NEW data \in Seq(Chars)
  PROVE  LET j == [k EXCEPT !.data = data]
         IN  /\ j \in Job_ /\ j.cmd = k.cmd /\ j.argc = k.argc /\ j.src = k.src /\ j.dst = k.dst
             /\ j.step = k.step /\ j.data = data /\ j.ok = k.ok
BY DEF Job_

\* What a line starts is the first step of a command.
Begun(j) ==
  /\ JobShape(j) /\ j.cmd \notin {"none", "save"} /\ j.ok
  /\ j.step \in {"load", "clear", "make", "remove", "take"}
  /\ j.cmd = "mv" => j.step = "load"
  /\ j.step = "make" => j.cmd = "touch"
  /\ j.step \in Writing => j.cmd \in {"echo", "touch"}
Firsts == {<<"cat", "load">>, <<"cp", "load">>, <<"mv", "load">>, <<"echo", "clear">>, <<"touch", "make">>,
           <<"rm", "remove">>, <<"ls", "take">>, <<"memtest", "take">>, <<"bench", "take">>}

LEMMA BegunIs ==
  ASSUME NEW j \in Job_, j.ok, <<j.cmd, j.step>> \in Firsts
  PROVE  Begun(j)
<1>1. PICK cs \in Firsts : <<j.cmd, j.step>> = cs
  OBVIOUS
<1>2. j.cmd = cs[1] /\ j.step = cs[2]
  BY <1>1
<1>3. CASE cs = <<"cat", "load">>
  BY <1>2, <1>3 DEF Begun, JobShape, Writing
<1>4. CASE cs = <<"cp", "load">>
  BY <1>2, <1>4 DEF Begun, JobShape, Writing
<1>5. CASE cs = <<"mv", "load">>
  BY <1>2, <1>5 DEF Begun, JobShape, Writing
<1>6. CASE cs = <<"echo", "clear">>
  BY <1>2, <1>6 DEF Begun, JobShape, Writing
<1>7. CASE cs = <<"touch", "make">>
  BY <1>2, <1>7 DEF Begun, JobShape, Writing
<1>8. CASE cs = <<"rm", "remove">>
  BY <1>2, <1>8 DEF Begun, JobShape, Writing
<1>9. CASE cs = <<"ls", "take">>
  BY <1>2, <1>9 DEF Begun, JobShape, Writing
<1>10. CASE cs = <<"memtest", "take">>
  BY <1>2, <1>10 DEF Begun, JobShape, Writing
<1>11. CASE cs = <<"bench", "take">>
  BY <1>2, <1>11 DEF Begun, JobShape, Writing
<1> QED BY <1>1, <1>3, <1>4, <1>5, <1>6, <1>7, <1>8, <1>9, <1>10, <1>11, Zenon DEF Firsts

LEMMA BeginIs ==
  ASSUME Begin
  PROVE  Begun(job') /\ held' = held + job'.argc /\ UNCHANGED filesVars
<1>2. /\ NoArg \in Arg_ /\ Args \subseteq Arg_ /\ Texts \subseteq Seq(Chars)
      /\ 0 \in Nat /\ 1 \in Nat /\ 2 \in Nat /\ 3 \in Nat
  BY ArgIs
<1>3. \A cs \in Firsts : cs[1] \in Cmds /\ cs[2] \in Steps /\ cs = <<cs[1], cs[2]>>
  BY DEF Firsts, Cmds, Steps
<1>4. ASSUME NEW cmd, NEW step, <<cmd, step>> \in Firsts, NEW n \in Nat, NEW src \in Arg_, NEW dst \in Arg_
      PROVE  Begun(Job(cmd, n, src, dst, step))
  <2>1. cmd \in Cmds /\ step \in Steps
    BY <1>3, <1>4
  <2> DEFINE j == Job(cmd, n, src, dst, step)
  <2>2. j \in Job_ /\ j.cmd = cmd /\ j.step = step /\ j.ok
    BY <2>1, JobIs
  <2> HIDE DEF j
  <2>3. <<j.cmd, j.step>> \in Firsts
    BY <1>4, <2>2
  <2>4. Begun(j)
    BY <2>2, <2>3, BegunIs
  <2> QED BY <2>4 DEF j
<1>5. ASSUME NEW b \in Args, NEW t \in Texts
      PROVE  Begun([Job("echo", 3, NoArg, b, "clear") EXCEPT !.data = t])
  <2> DEFINE k == Job("echo", 3, NoArg, b, "clear")
             j == [k EXCEPT !.data = t]
  <2>1. "echo" \in Cmds /\ "clear" \in Steps /\ b \in Arg_ /\ t \in Seq(Chars)
    BY <1>2 DEF Cmds, Steps
  <2>2. k \in Job_ /\ k.cmd = "echo" /\ k.step = "clear" /\ k.ok
    BY <1>2, <2>1, JobIs
  <2> HIDE DEF k
  <2>3. j \in Job_ /\ j.cmd = k.cmd /\ j.step = k.step /\ j.ok = k.ok
    BY <2>1, <2>2, WithData
  <2> HIDE DEF j
  <2>4. <<j.cmd, j.step>> \in Firsts /\ j.ok
    BY <2>2, <2>3 DEF Firsts
  <2>5. Begun(j)
    BY <2>3, <2>4, BegunIs
  <2> QED BY <2>5 DEF j, k
<1>6. \A j : Start(j) => job' = j /\ held' = held + j.argc /\ UNCHANGED filesVars
  BY Zenon DEF Start
<1>7. \A j : Begun(j) /\ Start(j) => Begun(job') /\ held' = held + job'.argc /\ UNCHANGED filesVars
  BY <1>6, Zenon
<1>8. /\ <<"cat", "load">> \in Firsts /\ <<"cp", "load">> \in Firsts /\ <<"mv", "load">> \in Firsts
      /\ <<"touch", "make">> \in Firsts /\ <<"rm", "remove">> \in Firsts /\ <<"ls", "take">> \in Firsts
      /\ <<"memtest", "take">> \in Firsts /\ <<"bench", "take">> \in Firsts
  BY DEF Firsts
<1>9. \E j : Begun(j) /\ Start(j)
  <2>1. CASE Cat
    BY <1>2, <1>4, <1>8, <2>1, Zenon DEF Cat
  <2>2. CASE Cp
    BY <1>2, <1>4, <1>8, <2>2, Zenon DEF Cp
  <2>3. CASE Mv
    BY <1>2, <1>4, <1>8, <2>3, Zenon DEF Mv
  <2>4. CASE Echo
    BY <1>5, <2>4, Zenon DEF Echo
  <2>5. CASE Touch
    BY <1>2, <1>4, <1>8, <2>5, Zenon DEF Touch
  <2>6. CASE Rm
    BY <1>2, <1>4, <1>8, <2>6, Zenon DEF Rm
  <2>7. CASE Ls
    BY <1>2, <1>4, <1>8, <2>7, Zenon DEF Ls
  <2>8. CASE Memtest
    BY <1>2, <1>4, <1>8, <2>8, Zenon DEF Memtest
  <2>9. CASE Bench
    BY <1>2, <1>4, <1>8, <2>9, Zenon DEF Bench
  <2> QED BY <2>1, <2>2, <2>3, <2>4, <2>5, <2>6, <2>7, <2>8, <2>9, Zenon DEF Begin
<1> QED BY <1>7, <1>9, Zenon

\* What a step of a command makes of the job, the memory and the table.
StepOK ==
  /\ TableOK(ents') /\ NamesOK(ents') /\ cwd' = cwd
  /\ JobShape(job')
  /\ \/ job' = Idle
     \/ job'.cmd = job.cmd /\ job'.argc = job.argc /\ job'.src = job.src /\ job'.dst = job.dst
  /\ job.cmd = "save" => job'.step \in {"make", "put", "saved"} /\ job'.data = job.data
  /\ job.cmd # "save" => job'.step # "saved"
  /\ \A x \in Nat : held = x + job.argc + Blocks => held' = x + job'.argc + Blocks'
SaveSteps == job.cmd = "save" => job.step \in Writing \cup {"saved"}

LEMMA JobFields ==
  ASSUME JobShape(job)
  PROVE  /\ job.cmd \in Cmds /\ job.argc \in Nat /\ job.src \in Arg_ /\ job.dst \in Arg_
         /\ job.data \in Seq(Chars) /\ job.step \in Steps /\ job.ok \in BOOLEAN
         /\ Len(job.data) \in Nat /\ Buffer \in {0, 1} /\ Blocks \in Nat
<1>1. /\ job.cmd \in Cmds /\ job.argc \in Nat /\ job.src \in Arg_ /\ job.dst \in Arg_
      /\ job.data \in Seq(Chars) /\ job.step \in Steps /\ job.ok \in BOOLEAN
  BY DEF JobShape, Job_
<1>2. Len(job.data) \in Nat
  BY <1>1, LenProperties
<1>3. Buffer \in {0, 1}
  BY DEF Buffer
<1> QED BY <1>1, <1>2, <1>3 DEF Blocks

LEMMA IdleOK ==
  ASSUME job' = Idle
  PROVE  /\ JobShape(job') /\ job'.argc = 0 /\ Blocks' = 0 /\ job'.step = "none" /\ job'.cmd = "none"
         /\ TargetInv' /\ MoveInv'
<1> DEFINE j == job'
<1>1. j \in Job_ /\ j.cmd = "none" /\ j.step = "none" /\ j.argc = 0 /\ j = Idle
  BY IdleIs
<1>2. JobShape(j)
  BY <1>1 DEF JobShape, Writing
<1>3. Blocks' = 0
  BY <1>1 DEF Blocks, Writing
<1>4. TargetInv'
  BY <1>1 DEF TargetInv
<1>5. MoveInv'
  BY <1>1 DEF MoveInv, Moves
<1> QED BY <1>1, <1>2, <1>3, <1>4, <1>5

LEMMA WithStep ==
  ASSUME NEW j \in Job_, NEW step \in Steps, NEW ok \in BOOLEAN, NEW data \in Seq(Chars)
  PROVE  /\ LET k == [j EXCEPT !.step = step] IN
            k \in Job_ /\ k.cmd = j.cmd /\ k.argc = j.argc /\ k.src = j.src /\ k.dst = j.dst
            /\ k.data = j.data /\ k.step = step /\ k.ok = j.ok
         /\ LET k == [j EXCEPT !.step = step, !.ok = ok] IN
            k \in Job_ /\ k.cmd = j.cmd /\ k.argc = j.argc /\ k.src = j.src /\ k.dst = j.dst
            /\ k.data = j.data /\ k.step = step /\ k.ok = ok
         /\ LET k == [j EXCEPT !.step = step, !.data = data] IN
            k \in Job_ /\ k.cmd = j.cmd /\ k.argc = j.argc /\ k.src = j.src /\ k.dst = j.dst
            /\ k.data = data /\ k.step = step /\ k.ok = j.ok
         /\ LET k == [j EXCEPT !.step = step, !.ok = ok, !.data = data] IN
            k \in Job_ /\ k.cmd = j.cmd /\ k.argc = j.argc /\ k.src = j.src /\ k.dst = j.dst
            /\ k.data = data /\ k.step = step /\ k.ok = ok
<1>1. LET k == [j EXCEPT !.step = step] IN
      k \in Job_ /\ k.cmd = j.cmd /\ k.argc = j.argc /\ k.src = j.src /\ k.dst = j.dst
      /\ k.data = j.data /\ k.step = step /\ k.ok = j.ok
  BY DEF Job_
<1>2. LET k == [j EXCEPT !.step = step, !.ok = ok] IN
      k \in Job_ /\ k.cmd = j.cmd /\ k.argc = j.argc /\ k.src = j.src /\ k.dst = j.dst
      /\ k.data = j.data /\ k.step = step /\ k.ok = ok
  BY DEF Job_
<1>3. LET k == [j EXCEPT !.step = step, !.data = data] IN
      k \in Job_ /\ k.cmd = j.cmd /\ k.argc = j.argc /\ k.src = j.src /\ k.dst = j.dst
      /\ k.data = data /\ k.step = step /\ k.ok = j.ok
  BY DEF Job_
<1>4. LET k == [j EXCEPT !.step = step, !.ok = ok, !.data = data] IN
      k \in Job_ /\ k.cmd = j.cmd /\ k.argc = j.argc /\ k.src = j.src /\ k.dst = j.dst
      /\ k.data = data /\ k.step = step /\ k.ok = ok
  BY DEF Job_
<1> QED BY <1>1, <1>2, <1>3, <1>4

\* The copy is over.
LEMMA AfterIs ==
  ASSUME JobShape(job), NEW ok \in BOOLEAN, NEW blocks \in Nat, After(ok, blocks)
  PROVE  \/ /\ job.cmd = "mv" /\ job' \in Job_ /\ job'.step = "remove" /\ job'.ok = ok
            /\ job'.cmd = job.cmd /\ job'.argc = job.argc /\ job'.src = job.src /\ job'.dst = job.dst
            /\ held' = held - blocks
         \/ job.cmd # "mv" /\ job' = Idle /\ held' = held - blocks - job.argc
<1>1. CASE job.cmd = "mv"
  <2> DEFINE none == <<>>
  <2>1. job' = [job EXCEPT !.step = "remove", !.ok = ok, !.data = none] /\ held' = held - blocks
    BY <1>1, Zenon DEF After
  <2>2. none \in Seq(Chars) /\ "remove" \in Steps /\ job \in Job_
    BY ArgIs DEF Steps, JobShape
  <2> HIDE DEF none
  <2>3. /\ job' \in Job_ /\ job'.step = "remove" /\ job'.ok = ok
        /\ job'.cmd = job.cmd /\ job'.argc = job.argc /\ job'.src = job.src /\ job'.dst = job.dst
    BY <2>1, <2>2 DEF Job_
  <2> QED BY <1>1, <2>1, <2>3
<1>2. CASE job.cmd # "mv"
  BY <1>2, Zenon DEF After
<1> QED BY <1>1, <1>2

\* Once the copy is over, mv removes its source if there is a copy.
LEMMA AfterOK ==
  ASSUME JobShape(job), job.cmd # "save", NEW ok \in BOOLEAN, NEW blocks \in Nat, After(ok, blocks),
         Blocks = blocks, TableOK(ents'), NamesOK(ents'), cwd' = cwd, held \in Nat
  PROVE  /\ StepOK /\ TargetInv'
         /\ (ok => \A c : Moves(c)' => FileAt(ents', Normal(job.dst), c)) => MoveInv'
<1>1. CASE /\ job.cmd = "mv" /\ job' \in Job_ /\ job'.step = "remove" /\ job'.ok = ok
           /\ job'.cmd = job.cmd /\ job'.argc = job.argc /\ job'.src = job.src /\ job'.dst = job.dst
           /\ held' = held - blocks
  <2> DEFINE j == job'
  <2>1. JobShape(j)
    BY <1>1 DEF JobShape, Writing
  <2>2. Blocks' = 0
    BY <1>1 DEF Blocks, Writing
  <2>3. \A x \in Nat : held = x + job.argc + Blocks => held' = x + job'.argc + Blocks'
    <3>1. job.argc \in Nat /\ job'.argc = job.argc /\ held' = held - blocks
      BY <1>1, JobFields
    <3> QED BY <2>2, <3>1
  <2>4. StepOK
    BY <1>1, <2>1, <2>3 DEF StepOK
  <2>5. TargetInv'
    BY <1>1 DEF TargetInv
  <2>6. ASSUME ok => \A c : Moves(c)' => FileAt(ents', Normal(job.dst), c)
        PROVE  MoveInv'
    <3>1. Normal(job.dst)' = Normal(job.dst)
      BY <1>1, Zenon DEF Normal, Joined
    <3>2. ASSUME NEW c, Moves(c)'
          PROVE  /\ job'.step \in Writing => job'.data = c
                 /\ job'.step = "remove" /\ job'.ok => FileAt(ents, Normal(job.dst), c)'
      <4>1. job'.step \notin Writing /\ job'.ok = ok
        BY <1>1 DEF Writing
      <4>2. ok => FileAt(ents', Normal(job.dst)', c)
        BY <2>6, <3>1, <3>2, Zenon
      <4> QED BY <4>1, <4>2
    <3> QED BY <3>2, Zenon DEF MoveInv
  <2> QED BY <2>4, <2>5, <2>6
<1>2. CASE job.cmd # "mv" /\ job' = Idle /\ held' = held - blocks - job.argc
  <2>1. /\ JobShape(job') /\ job'.argc = 0 /\ Blocks' = 0 /\ job'.step = "none" /\ TargetInv' /\ MoveInv'
    BY <1>2, IdleOK
  <2>2. \A x \in Nat : held = x + job.argc + Blocks => held' = x + job'.argc + Blocks'
    <3>1. job.argc \in Nat /\ held' = held - blocks - job.argc
      BY <1>2, JobFields
    <3> QED BY <2>1, <3>1
  <2>3. StepOK
    BY <1>2, <2>1, <2>2 DEF StepOK
  <2> QED BY <2>1, <2>3
<1> QED BY <1>1, <1>2, AfterIs

LEMMA UptoAll ==
  ASSUME NEW s \in Seq(Chars)
  PROVE  Upto(s, Len(s)) = s
<1>1. Len(s) \in Nat /\ Len(s) \in 0 .. Len(s)
  BY LenProperties
<1>2. Upto(s, Len(s)) \in Seq(Chars) /\ Len(Upto(s, Len(s))) = Len(s)
      /\ \A k \in 1 .. Len(s) : Upto(s, Len(s))[k] = s[k]
  BY <1>1, UptoIs
<1> DEFINE u == Upto(s, Len(s))
<1> HIDE DEF u
<1> QED BY <1>2, SeqEqual DEF u

\* A path short enough is looked up as it is.
LEMMA NormsIs ==
  ASSUME NEW arg, ~TooLong(arg), NEW p \in Norms(arg)
  PROVE  p = Normal(arg)
BY Zenon DEF Norms

LEMMA NotWritten ==
  ASSUME job'.step \notin {"make", "put", "saved"}
  PROVE  TargetInv'
BY DEF TargetInv

\* What is read into a buffer of n characters.
LEMMA BufferIs ==
  ASSUME NEW n \in Nat, NEW got \in Seq(Chars), Len(got) <= n, NEW junk \in [Len(got) + 1 .. n -> {"0", "x"}]
  PROVE  LET d == [k \in 1 .. n |-> IF k \in DOMAIN got THEN got[k] ELSE junk[k]]
         IN  d \in Seq(Chars) /\ (Len(got) = n => d = got)
<1> DEFINE d == [k \in 1 .. n |-> IF k \in DOMAIN got THEN got[k] ELSE junk[k]]
<1>1. DOMAIN got = 1 .. Len(got) /\ Len(got) \in Nat /\ {"0", "x"} \subseteq Chars
      /\ \A k \in 1 .. Len(got) : got[k] \in Chars
  BY LenProperties, ElementOfSeq, FilesAssumption
<1>2. ASSUME NEW k \in 1 .. n PROVE d[k] \in Chars
  <2>1. CASE k \in DOMAIN got
    BY <1>1, <2>1
  <2>2. CASE k \notin DOMAIN got
    <3>1. k \in Len(got) + 1 .. n
      BY <1>1, <2>2
    <3> QED BY <1>1, <2>2, <3>1
  <2> QED BY <2>1, <2>2
<1>3. d \in [1 .. n -> Chars]
  BY <1>2
<1>4. ASSUME Len(got) = n PROVE \A k \in 1 .. n : d[k] = got[k]
  BY <1>1, <1>4
<1> HIDE DEF d
<1>5. d \in Seq(Chars) /\ Len(d) = n
  BY <1>3, FromFunction
<1>6. ASSUME Len(got) = n PROVE d = got
  BY <1>4, <1>5, <1>6, SeqEqual
<1> QED BY <1>5, <1>6 DEF d

LEMMA LoadOK ==
  ASSUME FilesInv, JobShape(job), SaveSteps, held \in Nat, TargetInv, MoveInv, Load
  PROVE  StepOK /\ TargetInv' /\ MoveInv'
<1>1. job.step = "load" /\ ents' = ents /\ cwd' = cwd /\ TableOK(ents) /\ NamesOK(ents) /\ CwdInv
  BY Zenon DEF Load, Step, filesVars, FilesInv
<1>2. job.cmd \in {"cat", "cp", "mv"} /\ job.cmd # "save" /\ Blocks = 0
  BY <1>1 DEF JobShape, Blocks, Writing
<1>3. TableOK(ents') /\ NamesOK(ents')
  BY <1>1
<1>4. ASSUME GiveUp(FALSE) PROVE StepOK /\ TargetInv' /\ MoveInv'
  <2> DEFINE ok == FALSE
             zero == 0
  <2>1. ok \in BOOLEAN /\ zero \in Nat /\ After(ok, zero) /\ Blocks = zero /\ ~ok
    BY <1>2, <1>4 DEF GiveUp
  <2> HIDE DEF ok, zero
  <2> QED BY <1>1, <1>2, <1>3, <2>1, AfterOK
<1>5. PICK p \in Norms(job.src), q \in Norms(job.src) :
        LET i == Find(ents, p)
            n == IF i # 0 /\ ents[i].data # <<>> THEN Len(ents[i].data) ELSE 1
        IN  \/ GiveUp(FALSE)
            \/ i = 0 /\ GiveUp(FALSE)
            \/ /\ i # 0
               /\ \E r \in Reads(ents, q, n) :
                    \/ ~r.ok /\ GiveUp(FALSE)
                    \/ r.ok /\ job.cmd = "cat" /\ End
                    \/ /\ r.ok /\ job.cmd # "cat"
                       /\ \E junk \in [Len(r.data) + 1 .. n -> {"0", "x"}] :
                            job' = [job EXCEPT !.step = "clear", !.data =
                                      [k \in 1 .. n |-> IF k \in DOMAIN r.data THEN r.data[k]
                                                        ELSE junk[k]]]
                       /\ held' = held + 1
  BY Zenon DEF Load
<1> DEFINE i == Find(ents, p)
           n == IF i # 0 /\ ents[i].data # <<>> THEN Len(ents[i].data) ELSE 1
<1>6. n \in Nat /\ (i # 0 => i \in 1 .. Len(ents) /\ ents[i].data \in Seq(Chars) /\ Len(ents[i].data) \in Nat)
  <2>1. i # 0 => i \in 1 .. Len(ents)
    BY <1>1, FindIs DEF TableOK
  <2>2. i # 0 => ents[i].data \in Seq(Chars)
    BY <1>1, <2>1, TableIs, EntryIs DEF TableOK
  <2> HIDE DEF i
  <2>3. i # 0 => Len(ents[i].data) \in Nat
    BY <2>2, LenProperties
  <2> QED BY <2>1, <2>2, <2>3
<1>7. CASE GiveUp(FALSE)
  BY <1>4, <1>7
<1>8. CASE ~GiveUp(FALSE)
  <2>1. PICK r \in Reads(ents, q, n) :
          \/ r.ok /\ job.cmd = "cat" /\ End
          \/ /\ r.ok /\ job.cmd # "cat"
             /\ \E junk \in [Len(r.data) + 1 .. n -> {"0", "x"}] :
                  job' = [job EXCEPT !.step = "clear", !.data =
                            [k \in 1 .. n |-> IF k \in DOMAIN r.data THEN r.data[k]
                                              ELSE junk[k]]]
             /\ held' = held + 1
    BY <1>5, <1>8, Zenon
  <2>2. i # 0
    BY <1>5, <1>8, Zenon
  <2>3. CASE End
    <3>1. job' = Idle /\ held' = held - job.argc
      BY <2>3, Zenon DEF End
    <3>2. /\ JobShape(job') /\ job'.argc = 0 /\ Blocks' = 0 /\ job'.step = "none"
          /\ TargetInv' /\ MoveInv'
      BY <3>1, IdleOK
    <3>3. \A x \in Nat : held = x + job.argc + Blocks => held' = x + job'.argc + Blocks'
      BY <1>2, <3>1, <3>2, JobFields
    <3> QED BY <1>1, <1>2, <1>3, <3>1, <3>2, <3>3 DEF StepOK
  <2>4. CASE ~End
    <3>1. r.ok /\ job.cmd \in {"cp", "mv"} /\ held' = held + 1
      BY <1>2, <2>1, <2>4
    <3>2. PICK junk \in [Len(r.data) + 1 .. n -> {"0", "x"}] :
            job' = [job EXCEPT !.step = "clear", !.data =
                      [k \in 1 .. n |-> IF k \in DOMAIN r.data THEN r.data[k] ELSE junk[k]]]
      BY <2>1, <2>4, Zenon
    <3> DEFINE d == [k \in 1 .. n |-> IF k \in DOMAIN r.data THEN r.data[k] ELSE junk[k]]
               m == Find(ents, q)
    <3>3. /\ r.data \in Seq(Chars) /\ Len(r.data) \in Nat /\ Len(r.data) <= n
          /\ r.ok => /\ m \in 1 .. Len(ents) /\ ~ents[m].dir /\ Len(ents[m].data) \in Nat
                     /\ r.data = Upto(ents[m].data, IF n < Len(ents[m].data) THEN n ELSE Len(ents[m].data))
      BY <1>1, <1>6, ReadsIs
    <3>4. d \in Seq(Chars) /\ (Len(r.data) = n => d = r.data)
      <4>1. n \in Nat /\ r.data \in Seq(Chars) /\ Len(r.data) <= n
        BY <1>6, <3>3
      <4>2. junk \in [Len(r.data) + 1 .. n -> {"0", "x"}]
        OBVIOUS
      <4> HIDE DEF n
      <4> QED BY <4>1, <4>2, BufferIs
    <3>5. job' = [job EXCEPT !.step = "clear", !.data = d]
      BY <3>2
    <3> HIDE DEF d, n
    <3>6. /\ job' \in Job_ /\ job'.step = "clear" /\ job'.data = d /\ job'.cmd = job.cmd /\ job'.argc = job.argc
          /\ job'.src = job.src /\ job'.dst = job.dst
      BY <3>4, <3>5 DEF Job_, JobShape, Steps
    <3>7. JobShape(job') /\ Blocks' = 1
      BY <3>1, <3>6 DEF JobShape, Blocks, Writing, Buffer
    <3>8. \A x \in Nat : held = x + job.argc + Blocks => held' = x + job'.argc + Blocks'
      BY <1>2, <3>1, <3>6, <3>7, JobFields
    <3>9. StepOK
      BY <1>1, <1>2, <1>3, <3>6, <3>7, <3>8 DEF StepOK
    <3>10. TargetInv'
      BY <3>6, NotWritten
    <3>11. ASSUME NEW c, Moves(c)' PROVE job'.data = c
      <4>1. ~TooLong(job.src)
        <5>1. ~TooLong(job.src)' /\ job'.src = job.src
          BY <3>6, <3>11 DEF Moves
        <5> QED BY <1>1, <3>6, <5>1, Zenon DEF TooLong, Joined
      <4>2. p = Normal(job.src) /\ q = p
        BY <4>1, NormsIs, Zenon
      <4>3. FileAt(ents, p, c) /\ c # <<>>
        <5>1. FileAt(ents', Normal(job.src)', c) /\ c # <<>>
          BY <3>11, Zenon DEF Moves
        <5>2. Normal(job.src)' = Normal(job.src)
          BY <1>1, <3>6, Zenon DEF Normal, Joined
        <5> QED BY <1>1, <4>2, <5>1, <5>2
      <4>4. m = i /\ ents[i].data = c
        BY <4>2, <4>3, Zenon DEF FileAt
      <4>5. n = Len(c) /\ c \in Seq(Chars)
        BY <1>6, <2>2, <4>3, <4>4 DEF n
      <4>6. r.data = Upto(c, Len(c))
        BY <1>6, <2>2, <3>1, <3>3, <4>4, <4>5
      <4>7. r.data = c
        BY <4>5, <4>6, UptoAll
      <4> QED BY <3>4, <3>6, <4>5, <4>7
    <3>12. MoveInv'
      <4>1. job'.step # "remove"
        BY <3>6
      <4> QED BY <3>11, <4>1, Zenon DEF MoveInv
    <3> QED BY <3>9, <3>10, <3>12
  <2> QED BY <2>3, <2>4
<1> QED BY <1>7, <1>8

LEMMA PathsSame ==
  ASSUME cwd' = cwd, job'.src = job.src, job'.dst = job.dst
  PROVE  /\ Normal(job.dst)' = Normal(job.dst) /\ Normal(job.src)' = Normal(job.src)
         /\ TooLong(job.dst)' = TooLong(job.dst) /\ TooLong(job.src)' = TooLong(job.src)
<1>1. Normal(job.dst)' = Normal(job.dst)
  BY Zenon DEF Normal, Joined
<1>2. Normal(job.src)' = Normal(job.src)
  BY Zenon DEF Normal, Joined
<1>3. TooLong(job.dst)' = TooLong(job.dst)
  BY Zenon DEF TooLong, Joined
<1>4. TooLong(job.src)' = TooLong(job.src)
  BY Zenon DEF TooLong, Joined
<1> QED BY <1>1, <1>2, <1>3, <1>4

LEMMA ClearOK ==
  ASSUME FilesInv, JobShape(job), SaveSteps, held \in Nat, TargetInv, MoveInv, Clear
  PROVE  StepOK /\ TargetInv' /\ MoveInv'
<1>1. job.step = "clear" /\ job' = [job EXCEPT !.step = "make"] /\ cwd' = cwd /\ held' = held
      /\ TableOK(ents) /\ NamesOK(ents) /\ CwdInv
  BY Zenon DEF Clear, Step, Goto, FilesInv
<1>2. PICK p \in Norms(job.dst) : ents' = Deleted(ents, p)
  BY Zenon DEF Clear
<1>3. /\ job' \in Job_ /\ job'.step = "make" /\ job'.data = job.data /\ job'.cmd = job.cmd
      /\ job'.argc = job.argc /\ job'.src = job.src /\ job'.dst = job.dst /\ job'.ok = job.ok
  BY <1>1 DEF Job_, JobShape, Steps
<1>4. JobShape(job') /\ Blocks' = Blocks
  BY <1>1, <1>3 DEF JobShape, Blocks, Writing, Buffer
<1>5. /\ TableOK(ents') /\ NamesOK(ents')
      /\ \A q, c : FileAt(ents', q, c) <=> FileAt(ents, q, c) /\ q # p
  BY <1>1, <1>2, DeletedNames
<1>6. StepOK
  <2>1. \A x \in Nat : held = x + job.argc + Blocks => held' = x + job'.argc + Blocks'
    BY <1>1, <1>3, <1>4
  <2> QED BY <1>1, <1>3, <1>4, <1>5, <2>1 DEF StepOK
<1>7. Normal(job.dst)' = Normal(job.dst) /\ Normal(job.src)' = Normal(job.src)
      /\ TooLong(job.dst)' = TooLong(job.dst) /\ TooLong(job.src)' = TooLong(job.src)
  BY <1>1, <1>3, PathsSame
<1>8. TargetInv'
  <2>1. ASSUME ~TooLong(job.dst) PROVE \A c : ~FileAt(ents', Normal(job.dst), c)
    BY <1>5, <2>1, NormsIs, Zenon
  <2> QED BY <1>3, <1>7, <2>1 DEF TargetInv
<1>9. MoveInv'
  <2>1. ASSUME NEW c, Moves(c)' PROVE job'.data = c
    <3>1. Moves(c)
      BY <1>3, <1>5, <1>7, <2>1, Zenon DEF Moves
    <3>2. job.step \in Writing
      BY <1>1 DEF Writing
    <3>3. job.data = c
      BY <3>1, <3>2, Zenon DEF MoveInv
    <3> QED BY <1>3, <3>3
  <2>2. job'.step # "remove"
    BY <1>3
  <2> QED BY <2>1, <2>2, Zenon DEF MoveInv
<1> QED BY <1>6, <1>8, <1>9

LEMMA MakeOK ==
  ASSUME FilesInv, JobShape(job), SaveSteps, held \in Nat, TargetInv, MoveInv, Make
  PROVE  StepOK /\ TargetInv' /\ MoveInv'
<1>1. job.step = "make" /\ cwd' = cwd /\ TableOK(ents) /\ NamesOK(ents) /\ CwdInv
  BY Zenon DEF Make, Step, FilesInv
<1> DEFINE n == Len(job.data)
           z == Zeros(n)
<1>2. PICK p \in Norms(job.dst) :
        LET may == MayCreate(ents, p, n) IN
        /\ ents' = IF may THEN Created(ents, p, n) ELSE ents
        /\ \/ /\ job.cmd = "save" \/ (may /\ job.cmd # "touch")
              /\ job' = [job EXCEPT !.step = "put", !.ok = may]
              /\ UNCHANGED held
           \/ /\ job.cmd # "save" /\ (~may \/ job.cmd = "touch")
              /\ After(may, Buffer)
  BY Zenon DEF Make
<1> DEFINE may == MayCreate(ents, p, n)
<1>3. /\ n \in Nat /\ may \in BOOLEAN /\ PathOK(p) /\ z \in Seq(Chars) /\ Len(z) = n
      /\ Buffer \in Nat /\ Blocks = Buffer /\ job.cmd # "cat"
  <2>1. n \in Nat /\ job.dst \in Arg_ /\ Buffer \in {0, 1}
    BY JobFields
  <2>2. z \in Seq(Chars) /\ Len(z) = n
    BY <2>1, ZerosType
  <2>3. PathOK(p)
    BY <1>1, <2>1, NormsType
  <2>4. may \in BOOLEAN
    BY DEF MayCreate, MayAdd
  <2>5. Blocks = Buffer /\ job.cmd # "cat"
    BY <1>1 DEF Blocks, Writing, JobShape
  <2> QED BY <2>1, <2>2, <2>3, <2>4, <2>5
<1> HIDE DEF n, z
<1>4. /\ TableOK(ents') /\ NamesOK(ents')
      /\ may => \A q, c : FileAt(ents', q, c) <=> FileAt(ents, q, c) \/ (q = p /\ c = z)
      /\ ~may => ents' = ents
  <2>1. CASE may
    <3>1. ents' = Created(ents, p, n)
      BY <1>2, <2>1, Zenon
    <3>2. LET d == Created(ents, p, n) IN
          TableOK(d) /\ NamesOK(d) /\ \A q, c : FileAt(d, q, c) <=> FileAt(ents, q, c) \/ (q = p /\ c = Zeros(n))
      BY <1>1, <1>3, <2>1, CreatedNames
    <3> QED BY <2>1, <3>1, <3>2 DEF z
  <2>2. CASE ~may
    <3>1. ents' = ents
      BY <1>2, <2>2, Zenon
    <3> QED BY <1>1, <2>2, <3>1
  <2> QED BY <2>1, <2>2
<1> HIDE DEF may
<1>5. ~TooLong(job.dst) => p = Normal(job.dst)
  BY NormsIs, Zenon
<1>6. ASSUME NEW q, NEW c, ~TooLong(job.dst), q # Normal(job.dst), FileAt(ents', q, c)
      PROVE  FileAt(ents, q, c)
  <2>1. CASE may
    BY <1>4, <1>5, <1>6, <2>1, Zenon
  <2>2. CASE ~may
    BY <1>4, <1>6, <2>2, Zenon
  <2> QED BY <2>1, <2>2
<1>7. CASE /\ job.cmd = "save" \/ (may /\ job.cmd # "touch")
           /\ job' = [job EXCEPT !.step = "put", !.ok = may] /\ held' = held
  <2>1. /\ job' \in Job_ /\ job'.step = "put" /\ job'.data = job.data /\ job'.cmd = job.cmd
        /\ job'.argc = job.argc /\ job'.src = job.src /\ job'.dst = job.dst /\ job'.ok = may
    BY <1>3, <1>7 DEF Job_, JobShape, Steps
  <2>2. JobShape(job') /\ Blocks' = Blocks
    BY <1>1, <1>3, <1>7, <2>1 DEF JobShape, Blocks, Writing, Buffer
  <2>3. StepOK
    <3>1. \A x \in Nat : held = x + job.argc + Blocks => held' = x + job'.argc + Blocks'
      BY <1>7, <2>1, <2>2
    <3> QED BY <1>1, <1>4, <2>1, <2>2, <3>1 DEF StepOK
  <2>4. Normal(job.dst)' = Normal(job.dst) /\ Normal(job.src)' = Normal(job.src)
        /\ TooLong(job.dst)' = TooLong(job.dst) /\ TooLong(job.src)' = TooLong(job.src)
    BY <1>1, <2>1, PathsSame
  <2>5. job.cmd # "touch"
    BY <1>7
  <2>6. ASSUME ~TooLong(job.dst)
        PROVE  /\ \A c : FileAt(ents', Normal(job.dst), c) => c = Zeros(Len(c))
               /\ may => FileAt(ents', Normal(job.dst), z)
    <3>1. \A c : ~FileAt(ents, Normal(job.dst), c)
      BY <1>1, <2>5, <2>6, Zenon DEF TargetInv
    <3>2. CASE may
      <4>1. \A c : FileAt(ents', Normal(job.dst), c) <=> c = z
        BY <1>4, <1>5, <2>6, <3>1, <3>2, Zenon
      <4>2. z = Zeros(Len(z))
        BY <1>3 DEF z
      <4>3. \A c : c = z => c = Zeros(Len(c))
        BY <4>2
      <4> QED BY <4>1, <4>3, Zenon
    <3>3. CASE ~may
      BY <1>4, <3>1, <3>3, Zenon
    <3> QED BY <3>2, <3>3
  <2>7. TargetInv'
    <3>1. z = Zeros(Len(job'.data))
      BY <2>1 DEF z, n
    <3> QED BY <2>1, <2>4, <2>6, <3>1 DEF TargetInv
  <2>8. MoveInv'
    <3>1. ASSUME NEW c, Moves(c)' PROVE job'.data = c
      <4>1. Moves(c)
        BY <1>6, <2>1, <2>4, <3>1, Zenon DEF Moves
      <4>2. job.step \in Writing
        BY <1>1 DEF Writing
      <4>3. job.data = c
        BY <4>1, <4>2, Zenon DEF MoveInv
      <4> QED BY <2>1, <4>3
    <3>2. job'.step # "remove"
      BY <2>1
    <3> QED BY <3>1, <3>2, Zenon DEF MoveInv
  <2> QED BY <2>3, <2>7, <2>8
<1>8. CASE job.cmd # "save" /\ (~may \/ job.cmd = "touch") /\ After(may, Buffer)
  <2>1. StepOK /\ TargetInv' /\ ((may => \A c : Moves(c)' => FileAt(ents', Normal(job.dst), c)) => MoveInv')
    BY <1>1, <1>3, <1>4, <1>8, AfterOK
  <2>2. CASE ~may
    BY <2>1, <2>2
  <2>3. CASE job.cmd = "touch"
    <3>1. job' = Idle
      BY <1>3, <1>8, <2>3, AfterIs
    <3> QED BY <2>1, <3>1, IdleOK
  <2> QED BY <1>8, <2>2, <2>3
<1> QED BY <1>2, <1>7, <1>8 DEF may

LEMMA PutOK ==
  ASSUME FilesInv, JobShape(job), SaveSteps, held \in Nat, TargetInv, MoveInv, Put
  PROVE  StepOK /\ TargetInv' /\ MoveInv'
<1>1. job.step = "put" /\ cwd' = cwd /\ TableOK(ents) /\ NamesOK(ents) /\ CwdInv
  BY Zenon DEF Put, Step, FilesInv
<1> DEFINE data == job.data
           n == Len(data)
           z == Zeros(n)
<1>p. PICK p \in Norms(job.dst) : \E w \in Writes(ents, p, data) :
        /\ ents' = w.ents
        /\ IF job.cmd = "save"
           THEN job' = [job EXCEPT !.step = "saved", !.ok = @ /\ w.ok] /\ UNCHANGED held
           ELSE After(w.ok, Buffer)
  BY Zenon DEF Put
<1>2. PICK w \in Writes(ents, p, data) :
        /\ ents' = w.ents
        /\ IF job.cmd = "save"
           THEN job' = [job EXCEPT !.step = "saved", !.ok = @ /\ w.ok] /\ UNCHANGED held
           ELSE After(w.ok, Buffer)
  BY <1>p, Zenon
<1>3. /\ n \in Nat /\ data \in Seq(Chars) /\ z \in Seq(Chars) /\ Len(z) = n /\ job.ok \in BOOLEAN
      /\ Buffer \in Nat /\ Blocks = Buffer
  <2>1. n \in Nat /\ data \in Seq(Chars) /\ Buffer \in {0, 1} /\ job.ok \in BOOLEAN
    BY JobFields
  <2>2. z \in Seq(Chars) /\ Len(z) = n
    BY <2>1, ZerosType
  <2>3. Blocks = Buffer
    BY <1>1 DEF Blocks, Writing
  <2> QED BY <2>1, <2>2, <2>3
<1>4. /\ TableOK(ents') /\ NamesOK(ents') /\ w.ok \in BOOLEAN
      /\ \A q, c : q # p => (FileAt(ents', q, c) <=> FileAt(ents, q, c))
      /\ w.ok => \A c : FileAt(ents, p, c) =>
                    Len(data) <= Len(c) /\ FileAt(ents', p, Written(c, data, Len(data)))
  <2>1. data \in Seq(Chars)
    BY <1>3
  <2> HIDE DEF data
  <2>2. /\ TableOK(w.ents) /\ NamesOK(w.ents) /\ w.ok \in BOOLEAN
        /\ \A q, c : q # p => (FileAt(w.ents, q, c) <=> FileAt(ents, q, c))
        /\ w.ok => \A c : FileAt(ents, p, c) =>
                      Len(data) <= Len(c) /\ FileAt(w.ents, p, Written(c, data, Len(data)))
    BY <1>1, <2>1, WritesNames
  <2> QED BY <1>2, <2>2
<1>5. ~TooLong(job.dst) => p = Normal(job.dst)
  BY NormsIs, Zenon
\* The file was created as long as what is written to it.
<1>6. ASSUME ~TooLong(job.dst), job.ok, w.ok
      PROVE  FileAt(ents', Normal(job.dst), data)
  <2>1. FileAt(ents, Normal(job.dst), z)
    BY <1>1, <1>6, Zenon DEF TargetInv
  <2>2. FileAt(ents', Normal(job.dst), Written(z, data, Len(data)))
    BY <1>4, <1>5, <1>6, <2>1, Zenon
  <2>3. Written(z, data, Len(data)) = data
    <3>1. n \in 0 .. n /\ n <= n
      BY <1>3
    <3> HIDE DEF z, data
    <3>2. Len(data) \in 0 .. Len(data) /\ Len(data) <= Len(z) /\ Len(data) = Len(z)
      BY <1>3, <3>1
    <3> QED BY <1>3, <3>2, WrittenIs
  <2> QED BY <2>2, <2>3, Zenon
<1>7. CASE job.cmd = "save"
  <2> DEFINE ok == job.ok /\ w.ok
  <2>1. job' = [job EXCEPT !.step = "saved", !.ok = ok] /\ held' = held
    BY <1>2, <1>7, Zenon
  <2>2. ok \in BOOLEAN
    BY <1>3, <1>4
  <2> HIDE DEF ok
  <2>3. /\ job' \in Job_ /\ job'.step = "saved" /\ job'.data = data /\ job'.cmd = job.cmd
        /\ job'.argc = job.argc /\ job'.src = job.src /\ job'.dst = job.dst /\ job'.ok = ok
    BY <2>1, <2>2 DEF Job_, JobShape, Steps
  <2>4. JobShape(job') /\ Blocks' = 0 /\ Blocks = 0
    BY <1>3, <1>7, <2>3 DEF JobShape, Blocks, Writing, Buffer
  <2>5. StepOK
    <3>1. \A x \in Nat : held = x + job.argc + Blocks => held' = x + job'.argc + Blocks'
      BY <2>1, <2>3, <2>4
    <3> QED BY <1>1, <1>4, <1>7, <2>3, <2>4, <3>1 DEF StepOK
  <2>6. TargetInv'
    <3>1. Normal(job.dst)' = Normal(job.dst) /\ TooLong(job.dst)' = TooLong(job.dst)
      BY <1>1, <2>3, PathsSame
    <3>2. ~TooLong(job.dst) /\ ok => FileAt(ents', Normal(job.dst), data)
      BY <1>6, Zenon DEF ok
    <3> QED BY <2>3, <3>1, <3>2 DEF TargetInv
  <2>7. MoveInv'
    <3>1. job'.step \notin Writing /\ job'.step # "remove"
      BY <2>3 DEF Writing
    <3> QED BY <3>1, Zenon DEF MoveInv
  <2> QED BY <2>5, <2>6, <2>7
<1>8. CASE job.cmd # "save"
  <2>1. After(w.ok, Buffer)
    BY <1>2, <1>8, Zenon
  <2> DEFINE ok == w.ok
  <2>2. ok \in BOOLEAN
    BY <1>4
  <2>3. job.ok
    BY <1>1, <1>8 DEF JobShape
  <2> HIDE DEF ok
  <2>4. After(ok, Buffer)
    BY <2>1 DEF ok
  <2>5. /\ StepOK /\ TargetInv'
        /\ (ok => \A c : Moves(c)' => FileAt(ents', Normal(job.dst), c)) => MoveInv'
    BY <1>1, <1>3, <1>4, <1>8, <2>2, <2>4, AfterOK
  <2>6. ASSUME ok, NEW c, Moves(c)' PROVE FileAt(ents', Normal(job.dst), c)
    <3>1. job'.cmd = "mv"
      BY <2>6, Zenon DEF Moves
    <3>2. job'.src = job.src /\ job'.dst = job.dst /\ job'.cmd = job.cmd
      <4>1. job' # Idle
        BY <3>1, IdleIs
      <4> QED BY <2>5, <4>1 DEF StepOK
    <3>3. /\ Normal(job.dst)' = Normal(job.dst) /\ Normal(job.src)' = Normal(job.src)
          /\ TooLong(job.dst)' = TooLong(job.dst) /\ TooLong(job.src)' = TooLong(job.src)
      BY <1>1, <3>2, PathsSame
    <3>4. ~TooLong(job.dst) /\ ~TooLong(job.src) /\ Normal(job.src) # Normal(job.dst)
          /\ FileAt(ents', Normal(job.src), c) /\ c # <<>>
      BY <2>6, <3>3, Zenon DEF Moves
    <3>5. FileAt(ents, Normal(job.src), c)
      BY <1>4, <1>5, <3>4, Zenon
    <3>6. Moves(c)
      BY <3>1, <3>2, <3>4, <3>5, Zenon DEF Moves
    <3>7. job.step \in Writing
      BY <1>1 DEF Writing
    <3>8. data = c
      BY <3>6, <3>7, Zenon DEF MoveInv
    <3>9. w.ok
      BY <2>6 DEF ok
    <3> QED BY <1>6, <2>3, <3>4, <3>8, <3>9, Zenon
  <2> QED BY <2>5, <2>6, Zenon
<1> QED BY <1>7, <1>8

LEMMA EndedOK ==
  ASSUME JobShape(job), job.cmd # "save", NEW blocks \in Nat, Blocks = blocks, held \in Nat,
         TableOK(ents'), NamesOK(ents'), cwd' = cwd,
         job' = Idle, held' = held - blocks - job.argc
  PROVE  StepOK /\ TargetInv' /\ MoveInv'
<1>1. /\ JobShape(job') /\ job'.argc = 0 /\ Blocks' = 0 /\ job'.step = "none" /\ job'.cmd = "none"
      /\ TargetInv' /\ MoveInv'
  BY IdleOK
<1>2. \A x \in Nat : held = x + job.argc + Blocks => held' = x + job'.argc + Blocks'
  BY <1>1, JobFields
<1> QED BY <1>1, <1>2 DEF StepOK

LEMMA UnlinkOK ==
  ASSUME FilesInv, JobShape(job), SaveSteps, held \in Nat, Unlink
  PROVE  StepOK /\ TargetInv' /\ MoveInv'
<1>1. /\ job.step = "remove" /\ cwd' = cwd /\ TableOK(ents) /\ NamesOK(ents)
      /\ job' = Idle /\ held' = held - job.argc
  BY Zenon DEF Unlink, Step, FilesInv, End
<1>2. PICK p \in Norms(job.src) : ents' = Deleted(ents, p)
  BY Zenon DEF Unlink
<1>3. TableOK(ents') /\ NamesOK(ents')
  BY <1>1, <1>2, DeletedNames
<1> DEFINE zero == 0
<1>4. zero \in Nat /\ Blocks = zero /\ job.cmd # "save" /\ held' = held - zero - job.argc
  <2>1. Blocks = zero /\ job.cmd # "save"
    BY <1>1 DEF Blocks, Writing, JobShape
  <2> QED BY <1>1, <2>1, JobFields
<1> HIDE DEF zero
<1> QED BY <1>1, <1>3, <1>4, EndedOK

LEMMA TakeOK ==
  ASSUME FilesInv, JobShape(job), SaveSteps, held \in Nat, Take
  PROVE  StepOK /\ TargetInv' /\ MoveInv'
<1>1. job.step = "take" /\ ents' = ents /\ cwd' = cwd /\ TableOK(ents) /\ NamesOK(ents)
  BY Zenon DEF Take, Step, FilesInv, filesVars
<1>2. PICK n \in 0 .. Asked : job' = [job EXCEPT !.step = "give", !.data = Zeros(n)] /\ held' = held + n
  BY Zenon DEF Take
<1> DEFINE z == Zeros(n)
<1>3. n \in Nat /\ z \in Seq(Chars) /\ Len(z) = n
  <2>1. Asked \in Nat
    BY ArgsAssumption DEF Asked
  <2>2. n \in Nat
    BY <2>1
  <2> QED BY <2>2, ZerosType
<1>4. job' = [job EXCEPT !.step = "give", !.data = z]
  BY <1>2
<1> HIDE DEF z
<1>5. /\ job' \in Job_ /\ job'.step = "give" /\ job'.data = z /\ job'.cmd = job.cmd
      /\ job'.argc = job.argc /\ job'.src = job.src /\ job'.dst = job.dst
  BY <1>3, <1>4 DEF Job_, JobShape, Steps
<1>6. JobShape(job') /\ Blocks' = n /\ Blocks = 0 /\ job.cmd # "save"
  BY <1>1, <1>3, <1>5 DEF JobShape, Blocks, Writing, SaveSteps
<1>7. \A x \in Nat : held = x + job.argc + Blocks => held' = x + job'.argc + Blocks'
  BY <1>2, <1>3, <1>5, <1>6, JobFields
<1>8. StepOK
  BY <1>1, <1>5, <1>6, <1>7 DEF StepOK
<1>9. TargetInv'
  BY <1>5, NotWritten
<1>10. MoveInv'
  <2>1. job'.step \notin Writing /\ job'.step # "remove"
    BY <1>5 DEF Writing
  <2> QED BY <2>1, Zenon DEF MoveInv
<1> QED BY <1>8, <1>9, <1>10

LEMMA GiveOK ==
  ASSUME FilesInv, JobShape(job), SaveSteps, held \in Nat, Give
  PROVE  StepOK /\ TargetInv' /\ MoveInv'
<1>1. /\ job.step = "give" /\ ents' = ents /\ cwd' = cwd /\ TableOK(ents) /\ NamesOK(ents)
      /\ job' = Idle /\ held' = held - Len(job.data) - job.argc
  BY Zenon DEF Give, Step, FilesInv, filesVars
<1> DEFINE blocks == Len(job.data)
<1>2. blocks \in Nat /\ Blocks = blocks /\ job.cmd # "save" /\ held' = held - blocks - job.argc
  BY <1>1, JobFields DEF Blocks, Writing, SaveSteps
<1>3. TableOK(ents') /\ NamesOK(ents')
  BY <1>1
<1> HIDE DEF blocks
<1> QED BY <1>1, <1>2, <1>3, EndedOK

\* Every step of a command keeps what is true of the job and of the files.
LEMMA JobStepOK ==
  ASSUME FilesInv, JobShape(job), SaveSteps, held \in Nat, TargetInv, MoveInv, JobStep
  PROVE  StepOK /\ TargetInv' /\ MoveInv'
BY LoadOK, ClearOK, MakeOK, PutOK, UnlinkOK, TakeOK, GiveOK DEF JobStep

---------------------------------------------------------------------------
\* The prompt and the line.
LEMMA OnScreenIs ==
  ASSUME NEW con \in Con_, OnScreen(con)
  PROVE  Con' = con /\ screen' = con.screen /\ pen' = con.pen
<1>1. screen' = con.screen /\ pen' = con.pen
  BY DEF OnScreen
<1>2. con = [screen |-> con.screen, pen |-> con.pen]
  BY ConIs
<1> QED BY <1>1, <1>2 DEF Con

LEMMA ConNow ==
  ASSUME ConInv
  PROVE  ConOK(Con) /\ Con \in Con_ /\ Con.screen = screen /\ Con.pen = pen
BY DEF ConInv, ConOK, Con

LEMMA BlankOK == ConOK(BlankCon)
<1>1. " " \in Glyphs /\ 0 \in 0 .. Width * Height - 1
  <2>1. " " \in Glyphs
    BY ConsoleAssumption
  <2>2. Width \in Nat \ {0, 1} /\ Width * Height \in Nat /\ Width * Height >= Width
    BY ScreenSize
  <2> DEFINE size == Width * Height
  <2>3. size \in Nat /\ size >= 1
    BY <2>2
  <2> HIDE DEF size
  <2>4. 0 \in 0 .. size - 1
    BY <2>3
  <2> QED BY <2>1, <2>4 DEF size
<1> DEFINE s == Fill(" ")
<1>2. s \in [Cells -> Glyphs] /\ \A i \in Cells : s[i] = " "
  BY <1>1 DEF Fill
<1> HIDE DEF s
<1>3. BlankCon = [screen |-> s, pen |-> 0]
  BY DEF BlankCon, s
<1>4. BlankCon.screen = s /\ BlankCon \in Con_
  BY <1>1, <1>2, <1>3 DEF Con_
<1> QED BY <1>2, <1>4, Zenon DEF ConOK, BlankBehind

LEMMA EnteredOK ==
  ASSUME ConInv
  PROVE  ConOK(Entered)
<1> DEFINE s == <<"\n">>
<1>1. s \in Seq(Glyphs) /\ \A k \in DOMAIN s : s[k] # "bs"
  <2>1. "\n" \in Glyphs /\ "\n" # "bs"
    BY ConsoleAssumption
  <2> QED BY <2>1
<1> HIDE DEF s
<1>2. ConOK(Printed(Con, s))
  BY <1>1, ConNow, PrintedOK
<1> QED BY <1>2 DEF Entered, s

LEMMA OutputOK ==
  ASSUME NEW con, ConOK(con), NEW out \in Outputs
  PROVE  ConOK(Printed(con, out))
<1>1. out \in Seq(Glyphs) /\ \A k \in DOMAIN out : out[k] # "bs"
  BY OutputsAssumption
<1> QED BY <1>1, PrintedOK

LEMMA PromptIs ==
  ASSUME cwd' \in Path
  PROVE  /\ Prompt \in Seq(Glyphs) /\ Prompt # <<>> /\ Prompt[Len(Prompt)] = "$"
         /\ \A k \in DOMAIN Prompt : Prompt[k] # "bs"
<1> DEFINE n == 1 + Len(cwd')
           p == [k \in 1 .. n |-> "$"]
<1>1. n \in Nat /\ n >= 1
  BY LenProperties DEF Path
<1>2. "$" \in Glyphs /\ "$" # "bs"
  BY ConsoleAssumption
<1> HIDE DEF n
<1>3. p \in [1 .. n -> Glyphs] /\ \A k \in 1 .. n : p[k] = "$"
  BY <1>2
<1> HIDE DEF p
<1>4. p \in Seq(Glyphs) /\ Len(p) = n /\ DOMAIN p = 1 .. n
  BY <1>1, <1>3, FromFunction
<1>5. p # <<>>
  BY <1>1, <1>4, EmptySeq
<1>6. p[Len(p)] = "$"
  BY <1>1, <1>3, <1>4
<1>7. Prompt = p
  BY DEF Prompt, p, n
<1> QED BY <1>2, <1>3, <1>4, <1>5, <1>6, <1>7

\* After a prompt the screen shows it last, and the line is empty.
LEMMA PromptedOK ==
  ASSUME NEW con, ConOK(con), cwd' \in Path, Prompted(con, Prompt)
  PROVE  ConInv' /\ LineShown'
<1> DEFINE s == [i \in Cells |-> IF i <= con.pen THEN "h" ELSE con.screen[i]]
           old == [con EXCEPT !.screen = s]
<1>1. con \in Con_ /\ con.pen \in Nat /\ con.screen \in [Cells -> Glyphs] /\ BlankBehind(con)
  BY ConIs DEF ConOK
<1>2. s \in [Cells -> Glyphs] /\ \A i \in Cells : i > con.pen => s[i] = con.screen[i]
  <2>1. "h" \in Glyphs
    BY ConsoleAssumption
  <2>2. Cells \subseteq Nat
    BY ScreenSize DEF Cells
  <2> QED BY <1>1, <2>1, <2>2
<1>3. OnScreen(Printed(old, Prompt)) /\ line' = <<>>
  BY Zenon DEF Prompted
<1> HIDE DEF s
<1>4. old \in Con_ /\ old.pen = con.pen /\ old.screen = s
  BY <1>1, <1>2 DEF Con_
<1> HIDE DEF old
<1>5. ConOK(old)
  BY <1>1, <1>2, <1>4 DEF ConOK, BlankBehind
<1> DEFINE r == Printed(old, Prompt)
<1>6. ConOK(r) /\ \E c : ConOK(c) /\ r = pc(c, "$")
  BY <1>5, PromptIs, PrintedOK
<1> HIDE DEF r
<1>7. OnScreen(r)
  BY <1>3 DEF r
<1>8. r.pen > 0 => r.screen[r.pen] = "$"
  <2>1. PICK c : ConOK(c) /\ r = pc(c, "$")
    BY <1>6
  <2>2. c \in Con_ /\ c.pen \in Nat /\ "$" \in Glyphs /\ "$" # "\n" /\ "$" # "bs"
    BY <2>1, ConIs, ConsoleAssumption DEF ConOK
  <2>3. PICK d \in {0, Width} :
          /\ r \in Con_ /\ r.pen = (c.pen + 1) - d
          /\ \A i \in Cells : /\ i + d \in Cells =>
                                   r.screen[i] = IF i + d = c.pen + 1 THEN "$" ELSE c.screen[i + d]
                              /\ i + d \notin Cells => r.screen[i] = " "
    BY <2>1, <2>2, GlyphPrinted
  <2>4. d \in Nat
    BY ScreenSize
  <2>5. c.pen + 1 \in Cells
    BY <2>2, ConIs
  <2>6. ASSUME r.pen > 0 PROVE r.pen \in Cells /\ r.pen + d = c.pen + 1
    <3>1. r.pen \in Nat /\ r.pen < Width * Height /\ Width * Height \in Nat
      BY <2>3, ConIs, ScreenSize
    <3>2. r.pen \in Cells
      BY <2>6, <3>1 DEF Cells
    <3>3. r.pen = (c.pen + 1) - d
      BY <2>3
    <3>4. c.pen \in Nat
      BY <2>2
    <3>5. r.pen + d = c.pen + 1
      BY <2>4, <3>1, <3>3, <3>4
    <3> QED BY <3>2, <3>5
  <2> QED BY <2>3, <2>5, <2>6
<1>9. r \in Con_ /\ Con' = r /\ screen' = r.screen /\ pen' = r.pen
  BY <1>6, <1>7, OnScreenIs DEF ConOK
<1>10. line' \in Seq(Glyphs) /\ Len(line') = 0 /\ MaxLine \in Nat
  <2> DEFINE none == <<>>
  <2>1. none \in Seq(Glyphs) /\ Len(none) = 0
    BY EmptySeq
  <2>2. line' = none
    BY <1>3
  <2> HIDE DEF none
  <2>3. MaxLine \in Nat
    BY ConsoleAssumption
  <2> QED BY <2>1, <2>2, <2>3
<1>11. ConInv'
  <2>1. ConOK(Con')
    BY <1>6, <1>9
  <2> QED BY <1>10, <2>1 DEF ConInv
<1>12. LineShown'
  <2>1. \A i \in Cells : i > pen' => screen'[i] = " "
    BY <1>6, <1>9 DEF ConOK, BlankBehind
  <2>2. pen' \in Nat /\ (pen' > 0 => screen'[pen'] = "$")
    BY <1>8, <1>9, ConIs
  <2>3. pen' - Len(line') = pen' /\ (Len(line') < pen' <=> pen' > 0)
    <3> DEFINE n == Len(line')
               p == pen'
    <3>1. n = 0 /\ p \in Nat
      BY <1>10, <2>2
    <3> HIDE DEF n, p
    <3>2. p - n = p /\ (n < p <=> p > 0)
      BY <3>1
    <3> QED BY <3>2 DEF n, p
  <2>4. Len(line') < pen' => screen'[pen' - Len(line')] = "$"
    BY <2>2, <2>3, Zenon
  <2>5. 1 .. Len(line') = {}
    BY <1>10
  <2> QED BY <2>1, <2>4, <2>5 DEF LineShown
<1> QED BY <1>11, <1>12

\* What the eraser does: at the left edge nothing but a blank, elsewhere the
\* cell before the pen is blank and the pen on it.
LEMMA RubbedOut ==
  ASSUME NEW con, ConOK(con)
  PROVE  LET r == Printed(con, Rubout) IN
         /\ ConOK(r)
         /\ (con.pen % Width) # 0 =>
              /\ r.pen = con.pen - 1 /\ con.pen \in Cells
              /\ \A i \in Cells : r.screen[i] = IF i = con.pen THEN " " ELSE con.screen[i]
<1> DEFINE s == Rubout
           r == Printed(con, Rubout)
           p == con.pen
           blank == " "
<1>1. s \in Seq(Glyphs) /\ Len(s) = 3 /\ s[1] = "bs" /\ s[2] = blank /\ s[3] = "bs"
  <2> DEFINE bs == "bs"
  <2>1. bs \in Glyphs /\ blank \in Glyphs
    BY ConsoleAssumption
  <2>2. s = <<bs, blank, bs>>
    BY DEF Rubout
  <2> HIDE DEF bs, blank, s
  <2>3. s \in Seq(Glyphs) /\ Len(s) = 3 /\ s[1] = bs /\ s[2] = blank /\ s[3] = bs
    BY <2>1, <2>2
  <2> QED BY <2>3 DEF bs
<1>2. con \in Con_ /\ p \in Nat /\ p < Width * Height /\ Width * Height \in Nat /\ Width \in Nat \ {0, 1}
      /\ con.screen \in [Cells -> Glyphs] /\ BlankBehind(con)
  BY ConIs, ScreenSize DEF ConOK
<1>3. blank \in Glyphs /\ blank # "\n" /\ blank # "bs"
  BY ConsoleAssumption
<1> HIDE DEF blank
<1>4. \E a \in Con_, b \in Con_ : a = pc(con, "bs") /\ b = pc(a, blank) /\ r = pc(b, "bs") /\ r \in Con_
  <2> HIDE DEF s
  <2>1. PICK f \in [0 .. Len(s) -> Con_] : /\ f[0] = con /\ f[Len(s)] = Printed(con, s)
                                           /\ \A k \in 1 .. Len(s) : f[k] = pc(f[k - 1], s[k])
    BY <1>1, <1>2, PrintedIs
  <2>2. f \in [0 .. 3 -> Con_] /\ f[3] = r /\ \A k \in 1 .. 3 : f[k] = pc(f[k - 1], s[k])
    BY <1>1, <2>1 DEF s
  <2>3. f[1] = pc(con, "bs") /\ f[2] = pc(f[1], blank) /\ f[3] = pc(f[2], "bs")
    <3>1. f[1] = pc(f[1 - 1], s[1]) /\ f[2] = pc(f[2 - 1], s[2]) /\ f[3] = pc(f[3 - 1], s[3])
      BY <2>2
    <3>2. 1 - 1 = 0 /\ 2 - 1 = 1 /\ 3 - 1 = 2
      OBVIOUS
    <3> QED BY <1>1, <2>1, <3>1, <3>2
  <2>4. f[1] \in Con_ /\ f[2] \in Con_ /\ f[3] \in Con_
    BY <2>2
  <2> HIDE DEF r
  <2> QED BY <2>2, <2>3, <2>4
<1>5. PICK a \in Con_, b \in Con_ : a = pc(con, "bs") /\ b = pc(a, blank) /\ r = pc(b, "bs") /\ r \in Con_
  BY <1>4
<1> HIDE DEF r, s
<1>6. CASE (p % Width) # 0
  <2>1. p \in Cells /\ p - 1 \in Nat /\ p \in 0 .. Width * Height
    <3>1. p # 0
      BY <1>2, <1>6
    <3> QED BY <1>2, <3>1 DEF Cells
  <2>2. a = [screen |-> con.screen, pen |-> p - 1]
    BY <1>2, <1>5, <1>6, pcBackspace, Zenon
  <2>3. a.screen = con.screen /\ a.pen = p - 1 /\ (p - 1) + 1 = p
    BY <1>2, <2>2
  <2> DEFINE t == [con.screen EXCEPT ![p] = blank]
  <2>4. b = Scrolled([screen |-> t, pen |-> p])
    <3>1. b = Scrolled([screen |-> [a.screen EXCEPT ![a.pen + 1] = blank], pen |-> a.pen + 1])
      BY <1>3, <1>5, pcOther, Zenon
    <3> QED BY <2>3, <3>1
  <2>5. t \in [Cells -> Glyphs] /\ \A i \in Cells : t[i] = IF i = p THEN blank ELSE con.screen[i]
    BY <1>2, <1>3, <2>1
  <2> HIDE DEF t
  <2> DEFINE v == [screen |-> t, pen |-> p]
  <2>6. v.screen = t /\ v.pen = p
    OBVIOUS
  <2>7. b = v
    <3> HIDE DEF v
    <3>1. b = Scrolled(v)
      BY <2>4 DEF v
    <3> QED BY <1>2, <2>6, <3>1, Zenon DEF Scrolled
  <2>8. b.screen = t /\ b.pen = p
    BY <2>6, <2>7, Zenon
  <2>9. r = [screen |-> b.screen, pen |-> b.pen - 1]
    <3>1. (b.pen % Width) # 0
      BY <1>6, <2>8, Zenon
    <3> QED BY <1>5, <3>1, pcBackspace, Zenon
  <2>10. r.screen = t /\ r.pen = p - 1
    BY <2>8, <2>9
  <2>11. \A i \in Cells : r.screen[i] = IF i = p THEN " " ELSE con.screen[i]
    BY <2>5, <2>10 DEF blank
  <2>12. BlankBehind(r)
    <3>1. ASSUME NEW i \in Cells, i > r.pen PROVE r.screen[i] = " "
      <4>1. i \in Nat
        BY <1>2 DEF Cells
      <4>2. i = p \/ i > p
        BY <1>2, <2>10, <3>1, <4>1
      <4>3. i > p => con.screen[i] = " "
        BY <1>2, Zenon DEF BlankBehind
      <4> QED BY <2>11, <4>2, <4>3, Zenon
    <3> QED BY <3>1 DEF BlankBehind
  <2>13. ConOK(r)
    BY <1>5, <2>12 DEF ConOK
  <2> QED BY <2>1, <2>10, <2>11, <2>13 DEF r
<1>7. CASE (p % Width) = 0
  <2>1. a = con
    BY <1>2, <1>5, <1>7, pcBackspace, Zenon
  <2>b. b = pc(con, blank)
    BY <1>5, <2>1, Zenon
  <2>2. PICK d \in {0, Width} :
          /\ b \in Con_ /\ b.pen = (con.pen + 1) - d
          /\ \A i \in Cells : /\ i + d \in Cells =>
                                   b.screen[i] = IF i + d = con.pen + 1 THEN blank ELSE con.screen[i + d]
                              /\ i + d \notin Cells => b.screen[i] = " "
    <3>1. con \in Con_ /\ blank \in Glyphs /\ blank # "\n" /\ blank # "bs"
      BY <1>2, <1>3
    <3> HIDE DEF p
    <3> QED BY <2>b, <3>1, GlyphPrinted, ZenonT(60)
  <2>3. d \in Nat
    BY <1>2
  <2>4. ASSUME NEW i \in Cells, i > b.pen - 1 PROVE b.screen[i] = " "
    <3>0. i \in Nat
      BY <1>2 DEF Cells
    <3>1. i \in Nat /\ b.pen = (p + 1) - d
      BY <2>2, <3>0, Zenon
    <3>2. i + d = p + 1 \/ i + d > p
      BY <1>2, <2>3, <2>4, <3>1
    <3>3. CASE i + d \notin Cells
      BY <2>2, <3>3
    <3>4. CASE i + d \in Cells
      <4>1. b.screen[i] = IF i + d = p + 1 THEN blank ELSE con.screen[i + d]
        BY <2>2, <3>4
      <4>2. i + d > p => con.screen[i + d] = " "
        BY <1>2, <3>4, Zenon DEF BlankBehind
      <4> QED BY <3>2, <4>1, <4>2, Zenon DEF blank
    <3> QED BY <3>3, <3>4
  <2>5. r.screen = b.screen /\ (r.pen = b.pen \/ r.pen = b.pen - 1) /\ b.pen \in Nat
    <3>1. b.pen \in Nat
      BY <1>5, ConIs
    <3>2. r = IF (b.pen % Width) # 0 THEN [screen |-> b.screen, pen |-> b.pen - 1] ELSE b
      BY <1>5, pcBackspace, Zenon
    <3>3. CASE (b.pen % Width) # 0
      BY <3>1, <3>2, <3>3
    <3>4. CASE ~((b.pen % Width) # 0)
      BY <3>1, <3>2, <3>4, Zenon
    <3> QED BY <3>3, <3>4
  <2>6. BlankBehind(r)
    <3>1. ASSUME NEW i \in Cells, i > r.pen PROVE r.screen[i] = " "
      <4>1. i \in Nat
        BY <1>2 DEF Cells
      <4>2. i > b.pen - 1
        BY <2>5, <3>1, <4>1
      <4> QED BY <2>4, <2>5, <4>2
    <3> QED BY <3>1 DEF BlankBehind
  <2>7. ConOK(r)
    BY <1>5, <2>6 DEF ConOK
  <2> QED BY <1>7, <2>7 DEF r
<1> QED BY <1>6, <1>7

LEMMA PrintedOne ==
  ASSUME NEW con \in Con_, NEW c \in Glyphs
  PROVE  Printed(con, <<c>>) = pc(con, c)
<1> DEFINE s == <<c>>
<1>1. s \in Seq(Glyphs) /\ Len(s) = 1 /\ s[1] = c
  OBVIOUS
<1> HIDE DEF s
<1>2. PICK f \in [0 .. Len(s) -> Con_] : /\ f[0] = con /\ f[Len(s)] = Printed(con, s)
                                         /\ \A k \in 1 .. Len(s) : f[k] = pc(f[k - 1], s[k])
  BY <1>1, PrintedIs
<1>3. f[1] = pc(f[1 - 1], s[1]) /\ 1 - 1 = 0
  BY <1>1, <1>2
<1> QED BY <1>1, <1>2, <1>3 DEF s

LEMMA TypeShown ==
  ASSUME ConInv, Type
  PROVE  ConInv' /\ (LineShown => LineShown')
<1> DEFINE x == "x"
           n == Len(line)
           p == pen
           q == pen'
           size == Width * Height
<1>1. /\ line \in Seq(Glyphs) /\ n \in Nat /\ n < MaxLine /\ MaxLine \in Nat
      /\ line' = Append(line, x) /\ OnScreen(Printed(Con, <<x>>))
  BY LenProperties, ConsoleAssumption DEF ConInv, Type
<1>2. x \in Glyphs /\ x # "\n" /\ x # "bs"
  BY ConsoleAssumption
<1> HIDE DEF x
<1>3. line' \in Seq(Glyphs) /\ Len(line') = n + 1 /\ line'[n + 1] = x
      /\ \A j \in 1 .. n : line'[j] = line[j]
  <2>1. /\ Append(line, x) \in Seq(Glyphs) /\ Len(Append(line, x)) = Len(line) + 1
        /\ \A i \in 1 .. Len(line) : Append(line, x)[i] = line[i]
        /\ Append(line, x)[Len(line) + 1] = x
    BY <1>1, <1>2, AppendProperties
  <2> QED BY <1>1, <2>1
<1>4. /\ Con \in Con_ /\ ConOK(Con) /\ Con.screen = screen /\ Con.pen = p
      /\ p \in Nat /\ p < size /\ size \in Nat
  BY ConNow, ConIs, ScreenSize
<1> DEFINE r == pc(Con, x)
<1>5. ConOK(r) /\ OnScreen(r) /\ r \in Con_
  <2>1. Printed(Con, <<x>>) = r
    BY <1>2, <1>4, PrintedOne
  <2>2. ConOK(r)
    BY <1>2, <1>4, pcOK
  <2> QED BY <1>1, <2>1, <2>2 DEF ConOK
<1>6. PICK d \in {0, Width} :
        /\ r \in Con_ /\ r.pen = (Con.pen + 1) - d
        /\ \A i \in Cells : /\ i + d \in Cells =>
                                 r.screen[i] = IF i + d = Con.pen + 1 THEN x ELSE Con.screen[i + d]
                            /\ i + d \notin Cells => r.screen[i] = " "
  BY <1>2, <1>4, GlyphPrinted
<1> HIDE DEF r
<1>7. Con' = r /\ screen' = r.screen /\ pen' = r.pen
  BY <1>5, OnScreenIs
<1>8. d \in Nat
  BY ScreenSize
<1>9. q = (p + 1) - d /\ q \in Nat /\ q < size
  <2>1. r.pen = (p + 1) - d
    BY <1>4, <1>6, Zenon
  <2> QED BY <1>5, <1>7, <2>1, ConIs
<1>10. \A i \in Cells : i + d \in Cells => screen'[i] = IF i + d = p + 1 THEN x ELSE screen[i + d]
  BY <1>4, <1>6, <1>7, Zenon
<1>11. ConInv'
  <2>1. ConOK(Con')
    BY <1>5, <1>7
  <2>2. Len(line') <= MaxLine
    BY <1>1, <1>3
  <2> QED BY <1>3, <2>1, <2>2 DEF ConInv
<1>12. \A i : i \in Cells <=> i \in Nat /\ 1 <= i /\ i <= size
  BY <1>4 DEF Cells
<1> HIDE DEF n, p, q, size
<1>13. ASSUME LineShown PROVE LineShown'
  <2>1. \A k \in 1 .. n : k <= p => screen[p - k + 1] = line[n - k + 1]
    BY <1>13 DEF LineShown, n, p
  <2>2. n < p => screen[p - n] = "$"
    BY <1>13 DEF LineShown, n, p
  <2>3. ASSUME NEW k \in 1 .. n + 1, k <= q PROVE screen'[q - k + 1] = line'[(n + 1) - k + 1]
    <3> DEFINE i == q - k + 1
    <3>1. i \in Cells /\ k \in Nat
      <4>1. i \in Nat /\ 1 <= i /\ i <= size
        BY <1>1, <1>4, <1>9, <2>3
      <4> QED BY <1>1, <1>12, <4>1
    <3>2. CASE k = 1
      <4>1. i + d = p + 1 /\ p + 1 \in Nat /\ p + 1 <= size /\ 1 <= p + 1 /\ (n + 1) - k + 1 = n + 1
        BY <1>1, <1>4, <1>8, <1>9, <3>2
      <4>2. i + d \in Cells
        BY <1>12, <4>1
      <4> HIDE DEF i
      <4>3. screen'[i] = x
        BY <1>10, <3>1, <4>1, <4>2, Zenon
      <4> QED BY <1>3, <4>1, <4>3 DEF i
    <3>3. CASE k # 1
      <4> DEFINE m == k - 1
      <4>1. /\ m \in 1 .. n /\ m <= p /\ i + d = p - m + 1 /\ p - m + 1 \in Nat
            /\ 1 <= p - m + 1 /\ p - m + 1 <= size /\ p - m + 1 # p + 1
            /\ (n + 1) - k + 1 = n - m + 1 /\ n - m + 1 \in 1 .. n
        BY <1>1, <1>4, <1>8, <1>9, <2>3, <3>1, <3>3
      <4> HIDE DEF i, m
      <4>2. i + d \in Cells /\ i + d # p + 1
        BY <1>12, <4>1, Zenon
      <4>3. screen'[i] = screen[p - m + 1]
        BY <1>10, <3>1, <4>1, <4>2, Zenon
      <4>4. screen[p - m + 1] = line[n - m + 1] /\ line'[n - m + 1] = line[n - m + 1]
        BY <1>3, <2>1, <4>1, Zenon
      <4>5. screen'[i] = line'[(n + 1) - k + 1]
        BY <4>1, <4>3, <4>4, Zenon
      <4> QED BY <4>5 DEF i
    <3> QED BY <3>2, <3>3
  <2>4. n + 1 < q => screen'[q - (n + 1)] = "$"
    <3> SUFFICES ASSUME n + 1 < q PROVE screen'[q - (n + 1)] = "$"
      OBVIOUS
    <3> DEFINE i == q - (n + 1)
    <3>1. /\ i \in Nat /\ 1 <= i /\ i <= size /\ i + d = p - n /\ n < p
          /\ p - n \in Nat /\ 1 <= p - n /\ p - n <= size /\ p - n # p + 1
      BY <1>1, <1>4, <1>8, <1>9
    <3> HIDE DEF i
    <3>2. i \in Cells /\ i + d \in Cells /\ i + d # p + 1
      BY <1>12, <3>1, Zenon
    <3>3. screen'[i] = screen[p - n]
      BY <1>10, <3>1, <3>2, Zenon
    <3> QED BY <2>2, <3>1, <3>3 DEF i
  <2>5. \A i \in Cells : i > q => screen'[i] = " "
    BY <1>5, <1>7 DEF ConOK, BlankBehind, q
  <2>6. q = pen' /\ n + 1 = Len(line')
    BY <1>3 DEF q
  <2> HIDE DEF n
  <2>7. \A k \in 1 .. Len(line') : k <= pen' => screen'[pen' - k + 1] = line'[Len(line') - k + 1]
    <3>1. \A k \in 1 .. n + 1 : k <= q => screen'[q - k + 1] = line'[(n + 1) - k + 1]
      BY <2>3
    <3> QED BY <2>6, <3>1
  <2>8. Len(line') < pen' => screen'[pen' - Len(line')] = "$"
    BY <2>4, <2>6, Zenon
  <2>9. \A i \in Cells : i > pen' => screen'[i] = " "
    BY <2>5, <2>6, Zenon
  <2> QED BY <2>7, <2>8, <2>9 DEF LineShown
<1> QED BY <1>11, <1>13

LEMMA EraseShown ==
  ASSUME ConInv, Erase
  PROVE  ConInv' /\ (LineShown /\ ~ErasedAtEdge => LineShown')
<1> DEFINE n == Len(line)
           p == pen
           q == pen'
           size == Width * Height
<1>1. /\ line \in Seq(Glyphs) /\ line # <<>> /\ n \in Nat /\ n >= 1 /\ n <= MaxLine /\ MaxLine \in Nat
      /\ line' = Front(line) /\ OnScreen(Printed(Con, Rubout))
  <2>1. line \in Seq(Glyphs) /\ line # <<>> /\ n <= MaxLine /\ line' = Front(line)
        /\ OnScreen(Printed(Con, Rubout))
    BY DEF ConInv, Erase
  <2>2. n \in Nat /\ n >= 1 /\ MaxLine \in Nat
    <3>1. n \in Nat \ {0}
      BY <2>1, EmptySeq
    <3>2. MaxLine \in Nat
      BY ConsoleAssumption
    <3> QED BY <3>1, <3>2
  <2> QED BY <2>1, <2>2
<1>2. line' \in Seq(Glyphs) /\ Len(line') = n - 1 /\ \A j \in 1 .. n - 1 : line'[j] = line[j]
  <2>1. n - 1 \in 0 .. Len(line)
    BY <1>1
  <2>2. /\ Upto(line, n - 1) \in Seq(Glyphs) /\ Len(Upto(line, n - 1)) = n - 1
        /\ \A k \in 1 .. n - 1 : Upto(line, n - 1)[k] = line[k]
    BY <1>1, <2>1, UptoIs
  <2>3. line' = Upto(line, n - 1)
    BY <1>1, Zenon DEF Front, Upto
  <2> QED BY <2>2, <2>3, Zenon
<1>3. /\ Con \in Con_ /\ ConOK(Con) /\ Con.screen = screen /\ Con.pen = p
      /\ p \in Nat /\ p < size /\ size \in Nat
  BY ConNow, ConIs, ScreenSize
<1> DEFINE r == Printed(Con, Rubout)
<1>4. /\ ConOK(r)
      /\ (Con.pen % Width) # 0 =>
           /\ r.pen = Con.pen - 1 /\ Con.pen \in Cells
           /\ \A i \in Cells : r.screen[i] = IF i = Con.pen THEN " " ELSE Con.screen[i]
  BY <1>3, RubbedOut
<1> HIDE DEF r
<1>5. r \in Con_ /\ Con' = r /\ screen' = r.screen /\ pen' = r.pen
  BY <1>1, <1>4, OnScreenIs DEF ConOK, r
<1>6. ConInv'
  <2>1. ConOK(Con')
    BY <1>4, <1>5
  <2>2. Len(line') <= MaxLine
    BY <1>1, <1>2
  <2> QED BY <1>2, <2>1, <2>2 DEF ConInv
<1>7. \A i : i \in Cells <=> i \in Nat /\ 1 <= i /\ i <= size
  BY <1>3 DEF Cells
<1>8. ASSUME LineShown, ~ErasedAtEdge PROVE LineShown'
  <2>1. (pen % Width) # 0
    BY <1>1, <1>8, Zenon DEF ErasedAtEdge
  <2>2. q = p - 1 /\ p \in Cells
        /\ \A i \in Cells : screen'[i] = IF i = p THEN " " ELSE screen[i]
    BY <1>3, <1>4, <1>5, <2>1, Zenon
  <2>3. \A k \in 1 .. n : k <= p => screen[p - k + 1] = line[n - k + 1]
    BY <1>8 DEF LineShown
  <2>4. n < p => screen[p - n] = "$"
    BY <1>8 DEF LineShown
  <2> HIDE DEF n, p, q, size
  <2>5. /\ q = p - 1 /\ p \in Nat /\ p < size /\ size \in Nat /\ n \in Nat /\ n >= 1
        /\ q \in Nat /\ p >= 1
    <3>1. q = p - 1 /\ p \in Nat /\ p < size /\ size \in Nat /\ n \in Nat /\ n >= 1
      BY <1>1, <1>3, <2>2, Zenon
    <3>2. p >= 1
      BY <1>7, <2>2, Zenon
    <3> QED BY <3>1, <3>2
  <2>6. ASSUME NEW k \in 1 .. n - 1, k <= q PROVE screen'[q - k + 1] = line'[(n - 1) - k + 1]
    <3> DEFINE m == k + 1
               i == p - m + 1
    <3>1. /\ k \in Nat /\ m \in 1 .. n /\ m <= p /\ q - k + 1 = i /\ i \in Nat /\ 1 <= i /\ i <= size /\ i # p
          /\ (n - 1) - k + 1 = n - m + 1 /\ n - m + 1 \in 1 .. n - 1
      BY <2>5, <2>6
    <3> HIDE DEF i, m
    <3>2. i \in Cells
      BY <1>7, <3>1, Zenon
    <3>3. screen'[i] = screen[i]
      BY <2>2, <3>1, <3>2, Zenon
    <3>4. screen[i] = line[n - m + 1] /\ line'[n - m + 1] = line[n - m + 1]
      BY <1>2, <2>3, <3>1, Zenon DEF i
    <3> QED BY <3>1, <3>3, <3>4, Zenon
  <2>7. n - 1 < q => screen'[q - (n - 1)] = "$"
    <3> SUFFICES ASSUME n - 1 < q PROVE screen'[q - (n - 1)] = "$"
      OBVIOUS
    <3> DEFINE i == p - n
    <3>1. i \in Nat /\ 1 <= i /\ i <= size /\ q - (n - 1) = i /\ n < p /\ i # p
      BY <2>5
    <3> HIDE DEF i
    <3>2. i \in Cells
      BY <1>7, <3>1, Zenon
    <3>3. screen'[i] = screen[i]
      BY <2>2, <3>1, <3>2, Zenon
    <3> QED BY <2>4, <3>1, <3>3 DEF i
  <2>8. \A k \in 1 .. n - 1 : k <= q => screen'[q - k + 1] = line'[(n - 1) - k + 1]
    BY <2>6
  <2>9. q = pen' /\ n - 1 = Len(line')
    BY <1>2 DEF q
  <2>10. \A k \in 1 .. Len(line') : k <= pen' => screen'[pen' - k + 1] = line'[Len(line') - k + 1]
    BY <2>8, <2>9
  <2>11. Len(line') < pen' => screen'[pen' - Len(line')] = "$"
    BY <2>7, <2>9, Zenon
  <2>12. \A i \in Cells : i > pen' => screen'[i] = " "
    BY <1>4, <1>5 DEF ConOK, BlankBehind
  <2> QED BY <2>10, <2>11, <2>12 DEF LineShown
<1> QED BY <1>6, <1>8

---------------------------------------------------------------------------
\* The steps of the shell keep all but the screen.
LEMMA HeldIs ==
  ASSUME CoreInv
  PROVE  /\ held \in Nat /\ argc \in Nat /\ SaveSteps /\ JobShape(job)
         /\ held = argc + job.argc + Blocks /\ job.argc \in Nat /\ Blocks \in Nat
         /\ editing \in BOOLEAN /\ (editing => argc = 1) /\ (~editing => argc = 0)
<1>1. JobShape(job) /\ JobInv /\ HeldInv /\ EditInv
  BY DEF CoreInv, JobInv
<1>2. job.argc \in Nat /\ Blocks \in Nat /\ editing \in BOOLEAN
  BY <1>1, JobFields DEF EditInv
<1>3. argc \in Nat /\ (editing => argc = 1) /\ (~editing => argc = 0)
  BY <1>1, <1>2 DEF HeldInv
<1>4. held = argc + job.argc + Blocks
  BY <1>1 DEF HeldInv
<1>5. held \in Nat
  BY <1>2, <1>3, <1>4
<1>6. SaveSteps
  <2>1. CASE editing
    BY <1>1, <2>1, IdleIs DEF JobInv, SaveSteps
  <2>2. CASE ~editing
    BY <1>1, <2>2 DEF JobInv, SaveSteps
  <2> QED BY <2>1, <2>2
<1> QED BY <1>1, <1>2, <1>3, <1>4, <1>5, <1>6

\* What an editor that shows no change claims, in terms of FileAt.
LEMMA CleanIs ==
  CleanMeansSaved <=> (editing /\ job = Idle /\ ~dirty /\ ~doubt => FileAt(ents, Normal(filepath), buf))
BY Zenon DEF CleanMeansSaved, FileAt

LEMMA EditSame ==
  ASSUME EditInv, UNCHANGED editorVars
  PROVE  EditInv' /\ editing' = editing /\ argc' = argc /\ filepath' = filepath /\ buf' = buf
         /\ dirty' = dirty /\ doubt' = doubt
<1>1. /\ editing' = editing /\ argc' = argc /\ filepath' = filepath /\ buf' = buf /\ cursor' = cursor
      /\ dirty' = dirty /\ doubt' = doubt /\ top_line' = top_line /\ cmd_mode' = cmd_mode
  BY DEF editorVars, text
<1>2. LinesBefore(buf, cursor)' = LinesBefore(buf, cursor)
  BY <1>1, Zenon
<1>3. TextInv'
  BY <1>1, <1>2 DEF EditInv, TextInv
<1> QED BY <1>1, <1>3 DEF EditInv

LEMMA CoreSame ==
  ASSUME CoreInv, UNCHANGED <<filesVars, jobVars, editorVars>>
  PROVE  CoreInv'
<1>1. /\ ents' = ents /\ cwd' = cwd /\ job' = job /\ held' = held /\ EditInv
      /\ editing' = editing /\ argc' = argc /\ filepath' = filepath /\ buf' = buf
      /\ dirty' = dirty /\ doubt' = doubt /\ EditInv'
  BY EditSame DEF filesVars, jobVars, CoreInv
<1>2. FilesInv'
  BY <1>1 DEF CoreInv, FilesInv, CwdInv
<1>3. JobInv'
  BY <1>1 DEF CoreInv, JobInv
<1>4. HeldInv'
  <2>1. Blocks' = Blocks
    BY <1>1 DEF Blocks, Buffer
  <2> QED BY <1>1, <2>1 DEF CoreInv, HeldInv
<1>5. /\ Normal(job.dst)' = Normal(job.dst) /\ Normal(job.src)' = Normal(job.src)
      /\ TooLong(job.dst)' = TooLong(job.dst) /\ TooLong(job.src)' = TooLong(job.src)
  BY <1>1, PathsSame
<1>6. TargetInv'
  BY <1>1, <1>5 DEF CoreInv, TargetInv
<1>7. MoveInv'
  BY <1>1, <1>5 DEF CoreInv, MoveInv, Moves
<1>8. CleanMeansSaved'
  <2>1. Normal(filepath)' = Normal(filepath)
    BY <1>1, Zenon DEF Normal, Joined
  <2> QED BY <1>1, <2>1, Zenon DEF CoreInv, CleanMeansSaved
<1> QED BY <1>1, <1>2, <1>3, <1>4, <1>6, <1>7, <1>8, Zenon DEF CoreInv

\* At the prompt only the files need be looked at.
LEMMA IdleKeeps ==
  ASSUME CoreInv, AtPrompt, FilesInv', UNCHANGED jobVars, UNCHANGED editorVars
  PROVE  CoreInv'
<1>1. /\ job = Idle /\ job' = Idle /\ held' = held /\ EditInv /\ ~editing
      /\ editing' = editing /\ argc' = argc /\ EditInv'
  BY EditSame DEF jobVars, CoreInv, AtPrompt
<1>2. /\ JobShape(job') /\ job'.argc = 0 /\ Blocks' = 0 /\ job'.step = "none" /\ job'.cmd = "none"
      /\ TargetInv' /\ MoveInv'
  BY <1>1, IdleOK
<1>3. JobInv'
  BY <1>1, <1>2 DEF JobInv
<1>4. held = 0 /\ argc = 0
  <2>1. Blocks = 0 /\ job.argc = 0
    BY <1>1, IdleIs DEF Blocks, Writing
  <2>2. held = argc + job.argc + Blocks /\ argc = 0
    BY <1>1, HeldIs
  <2> QED BY <2>1, <2>2
<1>5. HeldInv'
  BY <1>1, <1>2, <1>4 DEF HeldInv
<1>6. CleanMeansSaved'
  BY <1>1, Zenon DEF CleanMeansSaved
<1> QED BY <1>1, <1>2, <1>3, <1>5, <1>6, Zenon DEF CoreInv

LEMMA FilesNow ==
  ASSUME FilesInv
  PROVE  TableOK(ents) /\ NamesOK(ents) /\ CwdInv
BY DEF FilesInv

LEMMA CdOK ==
  ASSUME CoreInv, AtPrompt, Cd, UNCHANGED editorVars
  PROVE  CoreInv'
<1>1. TableOK(ents) /\ NamesOK(ents) /\ CwdInv
  BY FilesNow DEF CoreInv
<1>2. PICK a \in Args \cup {NoArg} : \E p \in Norms(a) : /\ cwd' = Chdir(ents, p)
                                                          /\ UNCHANGED <<ents, jobVars>>
  BY Zenon DEF Cd
<1>3. PICK p \in Norms(a) : cwd' = Chdir(ents, p) /\ UNCHANGED <<ents, jobVars>>
  BY <1>2
<1>4. a \in Arg_
  BY ArgIs
<1>5. PathOK(p)
  BY <1>1, <1>4, NormsType
<1>6. cwd' \in Path /\ Len(cwd') <= MaxPath /\ ents' = ents /\ UNCHANGED jobVars
  BY <1>1, <1>3, <1>5, ChdirOK
<1>7. FilesInv'
  BY <1>1, <1>6 DEF FilesInv, CwdInv
<1> QED BY <1>6, <1>7, IdleKeeps

\* A directory that is made takes nothing from the files.
LEMMA MkdirOK ==
  ASSUME CoreInv, AtPrompt, Mkdir, UNCHANGED editorVars
  PROVE  CoreInv' /\ \A q, c : FileAt(ents, q, c) => FileAt(ents', q, c)
<1>1. TableOK(ents) /\ NamesOK(ents) /\ CwdInv
  BY FilesNow DEF CoreInv
<1>2. PICK a \in Args : \E p \in Norms(a) : ents' = IF MayAdd(ents, p) THEN MadeDir(ents, p) ELSE ents
  BY Zenon DEF Mkdir
<1>3. PICK p \in Norms(a) : ents' = IF MayAdd(ents, p) THEN MadeDir(ents, p) ELSE ents
  BY <1>2
<1>4. PathOK(p)
  BY <1>1, ArgIs, NormsType
<1>5. cwd' = cwd /\ UNCHANGED jobVars
  BY Zenon DEF Mkdir, jobVars
<1>6. TableOK(ents') /\ NamesOK(ents') /\ \A q, c : FileAt(ents, q, c) => FileAt(ents', q, c)
  <2>1. CASE MayAdd(ents, p)
    <3>1. ents' = MadeDir(ents, p)
      BY <1>3, <2>1, Zenon
    <3> QED BY <1>1, <1>4, <2>1, <3>1, MadeDirNames
  <2>2. CASE ~MayAdd(ents, p)
    <3>1. ents' = ents
      BY <1>3, <2>2, Zenon
    <3> QED BY <1>1, <3>1
  <2> QED BY <2>1, <2>2
<1>7. FilesInv'
  BY <1>1, <1>5, <1>6 DEF FilesInv, CwdInv
<1> QED BY <1>5, <1>6, <1>7, IdleKeeps

\* A command that begins holds its arguments.
LEMMA BegunOK ==
  ASSUME CoreInv, AtPrompt, Begin, UNCHANGED editorVars
  PROVE  CoreInv' /\ job' # Idle /\ UNCHANGED filesVars
<1>1. Begun(job') /\ held' = held + job'.argc /\ ents' = ents /\ cwd' = cwd
  BY BeginIs DEF filesVars
<1>2. job = Idle /\ EditInv /\ ~editing /\ editing' = editing /\ argc' = argc /\ EditInv'
  BY EditSame DEF CoreInv, AtPrompt
<1>3. /\ JobShape(job') /\ job'.cmd \notin {"none", "save"}
      /\ job'.step \in {"load", "clear", "make", "remove", "take"}
      /\ (job'.cmd = "mv" => job'.step = "load") /\ (job'.step = "make" => job'.cmd = "touch")
      /\ (job'.step \in Writing => job'.cmd \in {"echo", "touch"})
  BY <1>1 DEF Begun
<1>4. job' # Idle
  BY <1>3, IdleIs
<1>5. FilesInv'
  BY <1>1 DEF CoreInv, FilesInv, CwdInv
<1>6. JobInv'
  BY <1>2, <1>3 DEF JobInv
<1>7. HeldInv'
  <2>1. Blocks' = 0
    BY <1>3 DEF Blocks, Buffer, Writing
  <2>2. Blocks = 0 /\ job.argc = 0
    BY <1>2, IdleIs DEF Blocks, Writing
  <2>3. held = argc + job.argc + Blocks /\ argc = 0 /\ job'.argc \in Nat
    BY <1>2, <1>3, HeldIs DEF JobShape, Job_
  <2>4. held' = job'.argc
    BY <1>1, <2>2, <2>3
  <2>5. held' = argc' + job'.argc + Blocks' /\ argc' = 0
    BY <1>2, <2>1, <2>3, <2>4
  <2> QED BY <1>2, <2>5 DEF HeldInv
<1>8. TargetInv'
  BY <1>3 DEF TargetInv
<1>9. MoveInv'
  <2>1. ASSUME NEW c, Moves(c)' PROVE job'.step \notin Writing /\ job'.step # "remove"
    BY <1>3, <2>1 DEF Moves, Writing
  <2> QED BY <2>1, Zenon DEF MoveInv
<1>10. CleanMeansSaved'
  BY <1>2, Zenon DEF CleanMeansSaved
<1> QED BY <1>1, <1>2, <1>4, <1>5, <1>6, <1>7, <1>8, <1>9, <1>10 DEF CoreInv, filesVars

\* A step of a command is taken by one that runs; the save does not end here.
LEMMA StepOfJob ==
  ASSUME JobStep
  PROVE  job # Idle /\ job.step # "none"
<1>1. job.step # "none"
  BY DEF JobStep, Load, Clear, Make, Put, Unlink, Take, Give, Step
<1> QED BY <1>1, IdleIs

LEMMA DoJobOK ==
  ASSUME CoreInv, JobStep, UNCHANGED editorVars
  PROVE  CoreInv' /\ StepOK /\ (editing => job' # Idle)
<1>1. StepOK /\ TargetInv' /\ MoveInv'
  BY HeldIs, JobStepOK DEF CoreInv
<1>2. /\ EditInv /\ JobInv /\ editing' = editing /\ argc' = argc /\ EditInv' /\ buf' = buf
      /\ filepath' = filepath /\ editing \in BOOLEAN
  BY EditSame DEF CoreInv, EditInv
<1>3. /\ TableOK(ents') /\ NamesOK(ents') /\ cwd' = cwd /\ JobShape(job')
      /\ \A x \in Nat : held = x + job.argc + Blocks => held' = x + job'.argc + Blocks'
  BY <1>1 DEF StepOK
<1>4. FilesInv'
  BY <1>3 DEF CoreInv, FilesInv, CwdInv
<1>5. job # Idle
  BY StepOfJob
<1>6. ASSUME editing
      PROVE  /\ job'.cmd = "save" /\ job'.step \in Writing \cup {"saved"} /\ job' # Idle
             /\ job'.argc = 0 /\ job'.dst = filepath' /\ job'.data = buf'
  <2>1. job.cmd = "save" /\ job.argc = 0 /\ job.dst = filepath /\ job.data = buf
    BY <1>2, <1>5, <1>6 DEF JobInv
  <2>2. job'.step \in {"make", "put", "saved"} /\ job'.data = job.data
    BY <1>1, <2>1 DEF StepOK
  <2>3. job' # Idle
    BY <2>2, IdleIs
  <2>4. job'.cmd = job.cmd /\ job'.argc = job.argc /\ job'.dst = job.dst
    BY <1>1, <2>3 DEF StepOK
  <2> QED BY <1>2, <2>1, <2>2, <2>3, <2>4 DEF Writing
<1>7. ASSUME ~editing PROVE job'.cmd # "save" /\ job'.step # "saved"
  <2>1. job.cmd # "save"
    BY <1>2, <1>7 DEF JobInv
  <2> QED BY <1>1, <2>1, IdleIs DEF StepOK
<1>8. JobInv'
  BY <1>2, <1>3, <1>6, <1>7 DEF JobInv
<1>9. HeldInv'
  <2>1. argc \in Nat /\ held = argc + job.argc + Blocks /\ HeldInv
    BY HeldIs DEF CoreInv
  <2>2. held' = argc + job'.argc + Blocks'
    BY <1>3, <2>1
  <2> QED BY <1>2, <2>1, <2>2, Zenon DEF HeldInv
<1>10. CleanMeansSaved'
  BY <1>2, <1>6, Zenon DEF CleanMeansSaved
<1> QED BY <1>1, <1>2, <1>4, <1>6, <1>8, <1>9, <1>10 DEF CoreInv

\* A text that is shown from its start has its cursor on the screen.
LEMMA TextStart ==
  ASSUME buf' \in Seq(Chars), Len(buf') <= MaxText, cursor' = 0, top_line' = 0, dirty' \in BOOLEAN
  PROVE  TextInv'
<1> DEFINE zero == 0
<1>1. LinesBefore(buf', zero) = 0 /\ cursor' = zero
  BY LinesBeforeIs
<1> HIDE DEF zero
<1>2. LinesBefore(buf', cursor') = 0
  BY <1>1, Zenon
<1>3. Len(buf') \in Nat /\ 0 \in 0 .. 0 + Rows - 1
  BY EditorAssumption, LenProperties
<1>4. LinesBefore(buf', cursor') \in top_line' .. top_line' + Rows - 1
  BY <1>2, <1>3
<1>5. cursor' \in 0 .. Len(buf')
  BY <1>3
<1> QED BY <1>4, <1>5 DEF TextInv

\* An editor that is left, or lost, leaves nothing behind but the files.
LEMMA ClosedOK ==
  ASSUME Close, job' = Idle, held' = 0, FilesInv'
  PROVE  CoreInv'
<1>1. /\ editing' = FALSE /\ filepath' = NoArg /\ buf' = <<>> /\ cursor' = 0
      /\ dirty' = FALSE /\ top_line' = 0 /\ cmd_mode' = FALSE /\ argc' = 0 /\ doubt' = FALSE
  BY DEF Close
<1>2. /\ JobShape(job') /\ job'.argc = 0 /\ Blocks' = 0 /\ job'.step = "none" /\ job'.cmd = "none"
      /\ TargetInv' /\ MoveInv'
  BY IdleOK
<1>3. JobInv'
  BY <1>1, <1>2 DEF JobInv
<1>4. HeldInv'
  BY <1>1, <1>2 DEF HeldInv
<1>5. TextInv'
  <2> DEFINE none == <<>>
  <2>1. buf' = none /\ none \in Seq(Chars) /\ Len(none) = 0 /\ MaxText \in Nat
    BY <1>1, EditorAssumption
  <2> HIDE DEF none
  <2>2. buf' \in Seq(Chars) /\ Len(buf') <= MaxText
    BY <2>1
  <2> QED BY <1>1, <2>2, TextStart
<1>6. EditInv'
  BY <1>1, <1>5, ArgIs DEF EditInv
<1>7. CleanMeansSaved'
  BY <1>1, Zenon DEF CleanMeansSaved
<1> QED BY <1>2, <1>3, <1>4, <1>6, <1>7 DEF CoreInv

LEMMA QuitOK ==
  ASSUME CoreInv, Quit
  PROVE  CoreInv' /\ UNCHANGED filesVars
<1>1. editing /\ job = Idle /\ Close /\ held' = held - argc /\ ents' = ents /\ cwd' = cwd /\ job' = job
  BY Zenon DEF Quit, filesVars
<1>2. FilesInv'
  BY <1>1 DEF CoreInv, FilesInv, CwdInv
<1>3. Blocks = 0 /\ job.argc = 0
  BY <1>1, IdleIs DEF Blocks, Writing
<1>4. held = argc + job.argc + Blocks /\ argc = 1
  BY <1>1, HeldIs
<1>5. held' = 0
  BY <1>1, <1>3, <1>4
<1>6. CoreInv'
  BY <1>1, <1>2, <1>5, ClosedOK
<1> QED BY <1>1, <1>6 DEF filesVars

LEMMA RestartOK ==
  ASSUME CoreInv, cwd' = Root, job' = Idle, held' = 0, Close, UNCHANGED ents
  PROVE  CoreInv'
<1>1. TableOK(ents) /\ NamesOK(ents) /\ MaxPath \in Nat
  BY FilesNow, FilesAssumption DEF CoreInv
<1>2. cwd' \in Path /\ Len(cwd') = 0
  BY DEF Root, Path
<1>3. FilesInv'
  BY <1>1, <1>2 DEF FilesInv, CwdInv
<1> QED BY <1>3, ClosedOK

\* The text of an editor that opens: what was read, and zeros.
LEMMA OpenedIs ==
  ASSUME NEW s \in Seq(Chars), NEW n \in Nat
  PROVE  LET got == AtMost(Len(s), n)
             b   == Upto(s, got) \o Zeros(n - got)
         IN  b \in Seq(Chars) /\ Len(b) = n /\ (Len(s) = n => b = s)
<1> DEFINE got == AtMost(Len(s), n)
           u == Upto(s, got)
           z == Zeros(n - got)
<1>1. Len(s) \in Nat /\ got \in 0 .. Len(s) /\ n - got \in Nat /\ got \in Nat /\ (Len(s) = n => got = n)
  BY LenProperties DEF AtMost
<1>2. u \in Seq(Chars) /\ Len(u) = got
  BY <1>1, UptoIs
<1>3. z \in Seq(Chars) /\ Len(z) = n - got
  BY <1>1, ZerosType
<1>4. Len(s) = n => u = s
  <2>1. Upto(s, Len(s)) = s
    BY UptoAll
  <2> QED BY <1>1, <2>1
<1> HIDE DEF got, u, z
<1>5. u \o z \in Seq(Chars) /\ Len(u \o z) = n
  <2>1. u \o z \in Seq(Chars) /\ Len(u \o z) = Len(u) + Len(z)
    BY <1>2, <1>3, ConcatProperties
  <2> QED BY <1>1, <1>2, <1>3, <2>1
<1>6. ASSUME Len(s) = n PROVE u \o z = s
  <2>1. n - got = 0
    BY <1>1, <1>6
  <2>2. z = <<>>
    BY <1>3, <2>1, EmptySeq
  <2>3. u = s
    BY <1>4, <1>6
  <2>4. s \o <<>> = s
    BY ConcatEmptySeq
  <2> QED BY <2>2, <2>3, <2>4
<1> QED BY <1>5, <1>6 DEF got, u, z

LEMMA OpenOK ==
  ASSUME CoreInv, AtPrompt, Open
  PROVE  CoreInv' /\ UNCHANGED filesVars /\ editing'
<1>1. TableOK(ents) /\ NamesOK(ents) /\ CwdInv /\ ents \in Seq(Entry_) /\ job = Idle /\ ~editing
  BY FilesNow DEF CoreInv, TableOK, AtPrompt
<1>2. PICK a \in Args : \E p, q \in Norms(a) :
    LET i  == Find(ents, p)
        n  == IF i = 0 THEN 0 ELSE AtMost(Len(ents[i].data), MaxText)
    IN  /\ \E r \in IF n = 0 THEN {[ok |-> TRUE, data |-> <<>>]} ELSE Reads(ents, q, n) :
             LET got == AtMost(Len(r.data), n) IN
             /\ buf' = Upto(r.data, got) \o Zeros(n - got)
             /\ doubt' = (~r.ok \/ ~IsFile(ents, i) \/ n # Len(ents[i].data) \/ TooLong(a))
        /\ editing' = TRUE /\ filepath' = a
        /\ cursor' = 0 /\ dirty' = FALSE /\ top_line' = 0 /\ cmd_mode' = FALSE
        /\ argc' = 1 /\ held' = held + 1
        /\ UNCHANGED <<filesVars, job>>
  BY Zenon DEF Open
<1>3. PICK p \in Norms(a), q \in Norms(a) :
    LET i  == Find(ents, p)
        n  == IF i = 0 THEN 0 ELSE AtMost(Len(ents[i].data), MaxText)
    IN  /\ \E r \in IF n = 0 THEN {[ok |-> TRUE, data |-> <<>>]} ELSE Reads(ents, q, n) :
             LET got == AtMost(Len(r.data), n) IN
             /\ buf' = Upto(r.data, got) \o Zeros(n - got)
             /\ doubt' = (~r.ok \/ ~IsFile(ents, i) \/ n # Len(ents[i].data) \/ TooLong(a))
        /\ editing' = TRUE /\ filepath' = a
        /\ cursor' = 0 /\ dirty' = FALSE /\ top_line' = 0 /\ cmd_mode' = FALSE
        /\ argc' = 1 /\ held' = held + 1
        /\ UNCHANGED <<filesVars, job>>
  BY <1>2, Zenon
<1> DEFINE i == Find(ents, p)
           n == IF i = 0 THEN 0 ELSE AtMost(Len(ents[i].data), MaxText)
           R == IF n = 0 THEN {[ok |-> TRUE, data |-> <<>>]} ELSE Reads(ents, q, n)
<1>4. PICK r \in R :
        /\ buf' = Upto(r.data, AtMost(Len(r.data), n)) \o Zeros(n - AtMost(Len(r.data), n))
        /\ doubt' = (~r.ok \/ ~IsFile(ents, i) \/ n # Len(ents[i].data) \/ TooLong(a))
  BY <1>3, Zenon
<1>5. /\ editing' = TRUE /\ filepath' = a /\ cursor' = 0 /\ dirty' = FALSE /\ top_line' = 0
      /\ cmd_mode' = FALSE /\ argc' = 1 /\ held' = held + 1 /\ ents' = ents /\ cwd' = cwd /\ job' = job
  BY <1>3, Zenon DEF filesVars
<1>6. a \in Arg_
  BY ArgIs
<1>7. i \in 0 .. Len(ents) /\ (i # 0 => i \in 1 .. Len(ents) /\ ents[i].data \in Seq(Chars))
  BY <1>1, FindIs, TableIs, EntryIs
<1>8. n \in Nat /\ n <= MaxText /\ (i # 0 => Len(ents[i].data) \in Nat)
  BY <1>7, LenProperties, EditorAssumption DEF AtMost
<1> HIDE DEF i
<1>9. r.data \in Seq(Chars)
  <2>1. CASE n = 0
    <3>1. r.data = <<>>
      BY <2>1
    <3>2. <<>> \in Seq(Chars)
      OBVIOUS
    <3> QED BY <3>1, <3>2
  <2>2. CASE n # 0
    <3>1. r \in Reads(ents, q, n)
      BY <2>2
    <3> HIDE DEF n
    <3> QED BY <1>1, <1>8, <3>1, ReadsIs
  <2> QED BY <2>1, <2>2
<1>10. ASSUME ~doubt' PROVE FileAt(ents, Normal(a), r.data) /\ Len(r.data) = n
  <2>1. r.ok /\ IsFile(ents, i) /\ n = Len(ents[i].data) /\ ~TooLong(a)
    BY <1>4, <1>10
  <2>2. p = Normal(a) /\ q = Normal(a)
    BY <2>1, NormsIs
  <2>3. i # 0
    BY <2>1 DEF IsFile
  <2>4. r.data = ents[i].data
    <3>1. CASE n = 0
      <4>1. r.data = <<>>
        BY <3>1
      <4>2. ents[i].data = <<>>
        BY <1>7, <2>1, <2>3, <3>1, EmptySeq
      <4> QED BY <4>1, <4>2
    <3>2. CASE n # 0
      <4>1. r \in Reads(ents, p, n)
        BY <2>2, <3>2
      <4> HIDE DEF n
      <4>2. r.data = Upto(ents[i].data, IF n < Len(ents[i].data) THEN n ELSE Len(ents[i].data))
        BY <1>1, <1>8, <2>1, <4>1, ReadsIs DEF i
      <4>3. r.data = Upto(ents[i].data, Len(ents[i].data))
        BY <2>1, <4>2
      <4> QED BY <1>7, <2>3, <4>3, UptoAll
    <3> QED BY <3>1, <3>2
  <2>5. i = Find(ents, Normal(a))
    BY <2>2 DEF i
  <2> QED BY <2>1, <2>4, <2>5, Zenon DEF FileAt
<1> HIDE DEF n, R
<1>11. buf' \in Seq(Chars) /\ Len(buf') = n /\ (Len(r.data) = n => buf' = r.data)
  BY <1>4, <1>8, <1>9, OpenedIs
<1>12. TextInv'
  BY <1>5, <1>8, <1>11, TextStart
<1>13. EditInv'
  BY <1>5, <1>6, <1>12 DEF EditInv
<1>14. FilesInv'
  BY <1>1, <1>5 DEF FilesInv, CwdInv
<1>15. job' = Idle
  BY <1>1, <1>5
<1>16. /\ JobShape(job') /\ job'.argc = 0 /\ Blocks' = 0 /\ job'.step = "none" /\ job'.cmd = "none"
       /\ TargetInv' /\ MoveInv'
  BY <1>15, IdleOK
<1>17. JobInv'
  BY <1>5, <1>15, <1>16 DEF JobInv
<1>18. HeldInv'
  <2>1. Blocks = 0 /\ job.argc = 0
    BY <1>1, IdleIs DEF Blocks, Writing
  <2>2. held = argc + job.argc + Blocks /\ argc = 0
    BY <1>1, HeldIs
  <2>3. held' = 1
    BY <1>5, <2>1, <2>2
  <2> QED BY <1>5, <1>16, <2>3 DEF HeldInv
<1>19. CleanMeansSaved'
  <2>1. ASSUME ~doubt' PROVE FileAt(ents', Normal(filepath)', buf')
    <3>1. Normal(filepath)' = Normal(a)
      BY <1>5, Zenon DEF Normal, Joined
    <3> QED BY <1>5, <1>10, <1>11, <2>1, <3>1
  <2> QED BY <2>1, Zenon DEF CleanMeansSaved, FileAt
<1> QED BY <1>5, <1>13, <1>14, <1>16, <1>17, <1>18, <1>19 DEF CoreInv, filesVars

\* A key changes the text, or starts its save.
LEMMA KeyOK ==
  ASSUME CoreInv, Key
  PROVE  CoreInv' /\ UNCHANGED filesVars /\ editing'
<1>1. /\ editing /\ job = Idle /\ editing' = editing /\ filepath' = filepath /\ argc' = argc
      /\ doubt' = doubt /\ held' = held /\ ents' = ents /\ cwd' = cwd
      /\ EditInv /\ TextInv /\ cmd_mode \in BOOLEAN /\ filepath \in Arg_ /\ editing \in BOOLEAN
  BY DEF Key, filesVars, CoreInv, EditInv
<1>2. FilesInv'
  BY <1>1 DEF CoreInv, FilesInv, CwdInv
<1>3. Blocks = 0 /\ job.argc = 0 /\ held = argc + job.argc + Blocks /\ argc = 1
  BY <1>1, HeldIs, IdleIs DEF Blocks, Writing
<1>4. held = 1
  BY <1>3
<1>5. TextInv' /\ cmd_mode' \in BOOLEAN /\ (dirty' \/ (buf' = buf /\ dirty' = dirty)) /\ (~Save => job' = Idle)
  <2>1. CASE TextKey
    <3>1. (Ins \/ Delb \/ Delf \/ KeyLeft \/ KeyRight \/ KeyUp \/ KeyDown) /\ cmd_mode' = cmd_mode /\ job' = job
      BY <2>1, Zenon DEF TextKey
    <3>2. TextInv' /\ (dirty' \/ (buf' = buf /\ dirty' = dirty))
      BY <1>1, <3>1, TextKeyOK
    <3> QED BY <1>1, <3>1, <3>2
  <2>2. CASE Colon \/ Save
    <3>1. /\ buf' = buf /\ cursor' = cursor /\ dirty' = dirty /\ top_line' = top_line
          /\ cmd_mode' \in BOOLEAN /\ (~Save => job' = job)
      BY <2>2 DEF Colon, Save, text
    <3>2. LinesBefore(buf, cursor)' = LinesBefore(buf, cursor)
      BY <3>1, Zenon
    <3>3. TextInv'
      BY <1>1, <3>1, <3>2 DEF TextInv
    <3> QED BY <1>1, <3>1, <3>3
  <2>3. CASE Other
    <3>1. Move(cursor) /\ cmd_mode' = FALSE /\ job' = job
      BY <2>3 DEF Other
    <3>2. cursor \in 0 .. Len(buf)
      BY <1>1 DEF TextInv
    <3>3. TextInv' /\ buf' = buf /\ dirty' = dirty
      BY <1>1, <3>1, <3>2, MoveOK
    <3> QED BY <1>1, <3>1, <3>3
  <2> QED BY <2>1, <2>2, <2>3, Zenon DEF Key
<1>6. EditInv'
  BY <1>1, <1>5 DEF EditInv
<1>7. CASE job' = Idle
  <2>1. /\ JobShape(job') /\ job'.argc = 0 /\ Blocks' = 0 /\ job'.step = "none" /\ job'.cmd = "none"
        /\ TargetInv' /\ MoveInv'
    BY <1>7, IdleOK
  <2>2. JobInv'
    BY <1>1, <1>7, <2>1 DEF JobInv
  <2>3. HeldInv'
    BY <1>1, <1>3, <1>4, <2>1 DEF HeldInv
  <2>4. CleanMeansSaved'
    <3>1. Normal(filepath)' = Normal(filepath)
      BY <1>1, Zenon DEF Normal, Joined
    <3>2. CleanMeansSaved
      BY DEF CoreInv
    <3>3. ASSUME ~dirty', ~doubt' PROVE FileAt(ents', Normal(filepath)', buf')
      BY <1>1, <1>5, <3>1, <3>2, <3>3, CleanIs
    <3> QED BY <3>3, Zenon DEF CleanMeansSaved, FileAt
  <2> QED BY <1>1, <1>2, <1>6, <2>1, <2>2, <2>3, <2>4 DEF CoreInv, filesVars
<1>8. CASE Save
  <2> DEFINE k == Job("save", 0, NoArg, filepath, "clear")
             none == NoArg
             save == "save"
             clear == "clear"
             zero == 0
  <2>1. job' = [k EXCEPT !.data = buf] /\ buf' = buf
    BY <1>8, Zenon DEF Save, text
  <2>2. k \in Job_ /\ k.cmd = "save" /\ k.argc = 0 /\ k.dst = filepath /\ k.step = "clear" /\ k.ok
    <3>1. save \in Cmds /\ zero \in Nat /\ none \in Arg_ /\ clear \in Steps
      BY ArgIs DEF Cmds, Steps
    <3> HIDE DEF none, save, clear, zero, k
    <3>2. LET j == Job(save, zero, none, filepath, clear)
          IN  j \in Job_ /\ j.cmd = save /\ j.argc = zero /\ j.dst = filepath /\ j.step = clear /\ j.ok
      BY <1>1, <3>1, JobIs
    <3>3. k = Job(save, zero, none, filepath, clear)
      BY Zenon DEF none, save, clear, zero, k
    <3> QED BY <3>2, <3>3 DEF save, clear, zero
  <2>3. buf \in Seq(Chars)
    BY <1>1 DEF TextInv
  <2> HIDE DEF k
  <2>4. /\ job' \in Job_ /\ job'.cmd = "save" /\ job'.argc = 0 /\ job'.dst = filepath
        /\ job'.step = "clear" /\ job'.ok /\ job'.data = buf
    BY <2>1, <2>2, <2>3, WithData
  <2>5. JobShape(job') /\ job' # Idle
    BY <2>4, IdleIs DEF JobShape, Writing
  <2>6. JobInv'
    BY <1>1, <2>1, <2>4, <2>5 DEF JobInv, Writing
  <2>7. Blocks' = 0
    BY <2>4 DEF Blocks, Writing, Buffer
  <2>8. HeldInv'
    BY <1>1, <1>3, <1>4, <2>4, <2>7 DEF HeldInv
  <2>9. TargetInv'
    BY <2>4 DEF TargetInv
  <2>10. MoveInv'
    BY <2>4 DEF MoveInv, Moves
  <2>11. CleanMeansSaved'
    BY <2>5, Zenon DEF CleanMeansSaved
  <2> QED BY <1>1, <1>2, <1>6, <2>6, <2>8, <2>9, <2>10, <2>11 DEF CoreInv, filesVars
<1> QED BY <1>5, <1>7, <1>8

\* The save that ends leaves in the file what the editor holds.
LEMMA SavedOK ==
  ASSUME CoreInv, Saved
  PROVE  CoreInv' /\ UNCHANGED filesVars /\ editing'
<1>1. /\ job.step = "saved" /\ job' = Idle /\ dirty' = FALSE /\ doubt' = (~job.ok \/ TooLong(filepath))
      /\ buf' = buf /\ cursor' = cursor /\ Render /\ editing' = editing /\ filepath' = filepath
      /\ cmd_mode' = cmd_mode /\ argc' = argc /\ held' = held /\ ents' = ents /\ cwd' = cwd
  BY Zenon DEF Saved, Step, text, filesVars
<1>2. EditInv /\ TextInv /\ JobInv /\ TargetInv /\ editing \in BOOLEAN
  BY DEF CoreInv, EditInv
<1>3. editing /\ job.cmd = "save" /\ job.argc = 0 /\ job.dst = filepath /\ job.data = buf
  <2>1. editing
    BY <1>1, <1>2 DEF JobInv
  <2> QED BY <1>1, <1>2, <2>1, IdleIs DEF JobInv
<1>4. FilesInv'
  BY <1>1 DEF CoreInv, FilesInv, CwdInv
<1>5. TextInv'
  BY <1>1, <1>2, RenderOK DEF TextInv
<1>6. EditInv'
  BY <1>1, <1>2, <1>5 DEF EditInv
<1>7. /\ JobShape(job') /\ job'.argc = 0 /\ Blocks' = 0 /\ job'.step = "none" /\ job'.cmd = "none"
      /\ TargetInv' /\ MoveInv'
  BY <1>1, IdleOK
<1>8. JobInv'
  BY <1>1, <1>3, <1>7 DEF JobInv
<1>9. HeldInv'
  <2>1. Blocks = 0
    BY <1>1 DEF Blocks, Writing
  <2>2. held = argc + job.argc + Blocks /\ argc = 1
    BY <1>3, HeldIs
  <2>3. held' = 1
    BY <1>1, <1>3, <2>1, <2>2
  <2> QED BY <1>1, <1>3, <1>7, <2>2, <2>3 DEF HeldInv
<1>10. CleanMeansSaved'
  <2>1. Normal(filepath)' = Normal(filepath)
    BY <1>1, Zenon DEF Normal, Joined
  <2>2. ASSUME ~doubt' PROVE FileAt(ents, Normal(filepath), buf)
    <3>1. job.ok /\ ~TooLong(filepath)
      BY <1>1, <2>2
    <3>2. ~TooLong(job.dst)
      BY <1>3, <3>1
    <3>3. FileAt(ents, Normal(job.dst), job.data)
      BY <1>1, <1>2, <3>1, <3>2, Zenon DEF TargetInv
    <3> QED BY <1>3, <3>3
  <2>3. ASSUME ~doubt' PROVE FileAt(ents', Normal(filepath)', buf')
    BY <1>1, <2>1, <2>2, <2>3
  <2> QED BY <2>3, Zenon DEF CleanMeansSaved, FileAt
<1> QED BY <1>1, <1>3, <1>4, <1>6, <1>7, <1>8, <1>9, <1>10 DEF CoreInv, filesVars

LEMMA CoreStep ==
  ASSUME CoreInv, [Next]_vars
  PROVE  CoreInv'
<1>1. CASE UNCHANGED <<filesVars, jobVars, editorVars>>
  BY <1>1, CoreSame
<1>2. CASE Typed \/ EmptyLine \/ ClearScreen \/ UNCHANGED vars
  BY <1>1, <1>2, Zenon DEF Typed, EmptyLine, ClearScreen, vars
<1>3. CASE RunAtOnce
  <2>1. AtPrompt /\ UNCHANGED editorVars /\ (Cd \/ Mkdir \/ Show)
    BY <1>3, Zenon DEF RunAtOnce, May, AtOnce
  <2>2. CASE Show
    BY <1>1, <2>1, <2>2 DEF Show
  <2> QED BY <2>1, <2>2, CdOK, MkdirOK
<1>4. CASE RunJob
  BY <1>4, BegunOK, Zenon DEF RunJob, May
<1>5. CASE DoJob
  BY <1>5, DoJobOK, Zenon DEF DoJob
<1>6. CASE Nano
  BY <1>6, OpenOK, Zenon DEF Nano, May
<1>7. CASE Edit \/ DoSaved \/ Leave
  BY <1>7, KeyOK, SavedOK, QuitOK, Zenon DEF Edit, DoSaved, Leave
<1>8. CASE Restart
  BY <1>8, RestartOK, Zenon DEF Restart
<1> QED BY <1>2, <1>3, <1>4, <1>5, <1>6, <1>7, <1>8, Zenon DEF Next

---------------------------------------------------------------------------
\* The screen under the steps of the shell.
LEMMA ConSame ==
  ASSUME ConInv, UNCHANGED consoleVars
  PROVE  ConInv' /\ (LineShown' <=> LineShown)
<1>1. screen' = screen /\ pen' = pen /\ line' = line
  BY DEF consoleVars
<1>2. Con' = Con
  BY <1>1 DEF Con
<1>3. ConInv'
  BY <1>1, <1>2 DEF ConInv
<1>4. LineShown' <=> LineShown
  BY <1>1 DEF LineShown
<1> QED BY <1>3, <1>4

LEMMA ShownEmpty ==
  ASSUME NEW con, ConOK(con), OnScreen(con), line' = <<>>
  PROVE  ConInv'
<1>1. con \in Con_
  BY DEF ConOK
<1>2. Con' = con
  BY <1>1, OnScreenIs
<1> DEFINE none == <<>>
<1>3. none \in Seq(Glyphs) /\ Len(none) <= MaxLine
  <2>1. MaxLine \in Nat
    BY ConsoleAssumption
  <2>2. none \in Seq(Glyphs) /\ Len(none) = 0
    OBVIOUS
  <2> HIDE DEF none
  <2> QED BY <2>1, <2>2
<1>4. line' = none
  OBVIOUS
<1> HIDE DEF none
<1> QED BY <1>2, <1>3, <1>4 DEF ConInv

\* While the shell waits for a line, and only then, the line is shown.
Stays == AtPrompt' /\ ~LineShown' => AtPrompt /\ (ErasedAtEdge \/ ~LineShown)

LEMMA ConStep ==
  ASSUME IInv, CoreInv', [Next]_vars
  PROVE  ConInv' /\ Stays
<1>1. CoreInv /\ ConInv /\ cwd' \in Path
  BY DEF IInv, CoreInv, FilesInv, CwdInv
<1>2. \A con : ConOK(con) /\ Prompted(con, Prompt) => ConInv' /\ LineShown'
  BY <1>1, PromptedOK
<1>3. \A con : ConOK(con) /\ OnScreen(con) /\ line' = <<>> => ConInv'
  BY ShownEmpty
<1>4. ConOK(Entered) /\ ConOK(BlankCon) /\ ConOK(Con)
  BY <1>1, EnteredOK, BlankOK, ConNow
<1>5. \A con : \A out \in Outputs : ConOK(con) => ConOK(Printed(con, out))
  BY OutputOK
<1>6. CASE Typed
  <2>1. AtPrompt /\ (Type \/ Erase)
    BY <1>6 DEF Typed
  <2>2. CASE Type
    <3>1. ConInv' /\ (LineShown => LineShown')
      BY <1>1, <2>2, TypeShown
    <3> QED BY <2>1, <3>1 DEF Stays
  <2>3. CASE Erase
    <3>1. ConInv' /\ (LineShown /\ ~ErasedAtEdge => LineShown')
      BY <1>1, <2>3, EraseShown
    <3> QED BY <2>1, <3>1 DEF Stays
  <2> QED BY <2>1, <2>2, <2>3
<1>7. CASE EmptyLine
  BY <1>2, <1>4, <1>7, Zenon DEF EmptyLine, Stays
<1>8. CASE RunAtOnce
  <2>1. PICK out \in Outputs : Prompted(Printed(Entered, out), Prompt)
    BY <1>8, Zenon DEF RunAtOnce
  <2> QED BY <1>2, <1>4, <1>5, <2>1, Zenon DEF Stays
<1>9. CASE ClearScreen \/ Leave \/ Restart
  BY <1>2, <1>4, <1>9, Zenon DEF ClearScreen, Leave, Restart, Stays
<1>10. CASE RunJob
  <2>1. ConInv'
    BY <1>3, <1>4, <1>10, Zenon DEF RunJob
  <2>2. job' # Idle
    BY <1>1, <1>10, BegunOK, Zenon DEF RunJob, May
  <2>3. ~AtPrompt'
    BY <2>2 DEF AtPrompt, Idle, Job, NoArg
  <2> QED BY <2>1, <2>3, Zenon DEF Stays
<1>11. CASE DoJob
  <2>1. CASE job' = Idle
    <3>1. PICK out \in Outputs : Prompted(Printed(Con, out), Prompt)
      BY <1>11, <2>1, Zenon DEF DoJob
    <3> QED BY <1>2, <1>4, <1>5, <3>1, Zenon DEF Stays
  <2>2. CASE job' # Idle
    <3>1. UNCHANGED consoleVars
      BY <1>11, <2>2, Zenon DEF DoJob
    <3>2. ConInv'
      BY <1>1, <3>1, ConSame
    <3>3. ~AtPrompt'
      BY <2>2 DEF AtPrompt, Idle, NoArg
    <3> QED BY <3>2, <3>3, Zenon DEF Stays
  <2> QED BY <2>1, <2>2
<1>12. CASE Nano \/ Edit \/ DoSaved
  <2>1. editing'
    BY <1>1, <1>12, OpenOK, KeyOK, SavedOK, Zenon DEF Nano, May, Edit, DoSaved
  <2>2. ConInv'
    <3>1. CASE Nano
      BY <1>3, <1>4, <3>1, Zenon DEF Nano
    <3>2. CASE Edit \/ DoSaved
      BY <1>1, <3>2, ConSame, Zenon DEF Edit, DoSaved
    <3> QED BY <1>12, <3>1, <3>2
  <2>3. ~AtPrompt'
    BY <2>1 DEF AtPrompt
  <2> QED BY <2>2, <2>3, Zenon DEF Stays
<1>13. CASE UNCHANGED vars
  <2>1. UNCHANGED consoleVars /\ job' = job /\ editing' = editing
    BY <1>13, Zenon DEF vars, jobVars, editorVars
  <2>2. ConInv' /\ (LineShown' <=> LineShown)
    BY <1>1, <2>1, ConSame
  <2>3. AtPrompt' <=> AtPrompt
    BY <2>1 DEF AtPrompt, Idle, NoArg
  <2> QED BY <2>2, <2>3, Zenon DEF Stays
<1> QED BY <1>6, <1>7, <1>8, <1>9, <1>10, <1>11, <1>12, <1>13, Zenon DEF Next

LEMMA IInvStep ==
  ASSUME IInv, [Next]_vars
  PROVE  IInv' /\ Stays
<1>1. CoreInv'
  BY CoreStep DEF IInv
<1>2. ConInv' /\ Stays
  BY <1>1, ConStep
<1> QED BY <1>1, <1>2 DEF IInv

\* A system that starts has an empty prompt and nothing that runs.
LEMMA IInvInit ==
  ASSUME Init
  PROVE  IInv
<1>1. /\ ents \in Disks /\ job = Idle /\ held = 0
      /\ editing = FALSE /\ filepath = NoArg /\ cursor = 0
      /\ dirty = FALSE /\ top_line = 0 /\ cmd_mode = FALSE /\ argc = 0 /\ doubt = FALSE
  BY Zenon DEF Init, EditorInit, CommandsInit, FilesInit, Blank
<1> DEFINE none == <<>>
           s == Fill(" ")
<1>13. cwd = none /\ buf = none /\ line = none
  BY Zenon DEF Init, EditorInit, CommandsInit, FilesInit, Blank, Root
<1>14. pen = 1 /\ screen = [s EXCEPT ![1] = "$"]
  BY Zenon DEF Init
<1>15. \A S : none \in Seq(S) /\ Len(none) = 0
  OBVIOUS
<1> HIDE DEF none, s
<1>2. TableOK(ents) /\ NamesOK(ents)
  BY <1>1, DisksAssumption DEF TableOK, NamesOK, Table, Entry_
<1>3. FilesInv
  <2>1. cwd \in Path /\ Len(cwd) = 0
    BY <1>13, <1>15 DEF Path
  <2>2. MaxPath \in Nat
    BY FilesAssumption
  <2> QED BY <1>2, <2>1, <2>2 DEF FilesInv, CwdInv
<1>4. /\ job \in Job_ /\ job.argc = 0 /\ job.step = "none" /\ job.cmd = "none"
  BY <1>1, IdleIs
<1>5. JobInv
  BY <1>1, <1>4 DEF JobInv, JobShape, Writing
<1>6. Blocks = 0
  BY <1>4 DEF Blocks, Writing
<1>7. HeldInv
  BY <1>1, <1>4, <1>6 DEF HeldInv
<1>8. TargetInv /\ MoveInv
  BY <1>4 DEF TargetInv, MoveInv, Moves
<1>9. CleanMeansSaved
  BY <1>1, Zenon DEF CleanMeansSaved
<1>10. TextInv
  <2> DEFINE zero == 0
  <2>1. LinesBefore(buf, zero) = 0
    BY LinesBeforeIs
  <2>2. cursor = zero /\ buf = none /\ none \in Seq(Chars) /\ Len(none) = 0
    BY <1>1, <1>13, <1>15
  <2> HIDE DEF zero
  <2>3. LinesBefore(buf, cursor) = 0
    BY <2>1, <2>2, Zenon
  <2>4. 0 \in 0 .. Len(buf) /\ Len(buf) <= MaxText /\ 0 \in 0 .. 0 + Rows - 1
    BY <2>2, EditorAssumption
  <2>5. cursor \in 0 .. Len(buf) /\ buf \in Seq(Chars)
    BY <2>2, <2>4 DEF zero
  <2>6. LinesBefore(buf, cursor) \in top_line .. top_line + Rows - 1
    BY <1>1, <2>3, <2>4
  <2> QED BY <1>1, <2>4, <2>5, <2>6 DEF TextInv
<1>11. EditInv
  BY <1>1, <1>10, ArgIs DEF EditInv
<1>12. ConInv
  <2>1. none \in Seq(Glyphs) /\ Len(none) = 0 /\ line = none
    BY <1>13, <1>15
  <2>2. MaxLine \in Nat /\ "$" \in Glyphs /\ " " \in Glyphs
    BY ConsoleAssumption
  <2>3. s \in [Cells -> Glyphs] /\ \A i \in Cells : s[i] = " "
    BY <2>2 DEF Fill, s
  <2>4. pen \in 0 .. Width * Height - 1
    <3>1. Width \in Nat \ {0, 1} /\ Width * Height \in Nat /\ Width * Height >= Width
      BY ScreenSize
    <3> DEFINE size == Width * Height
    <3>2. size \in Nat /\ size >= 2
      BY <3>1
    <3> HIDE DEF size
    <3>3. pen \in 0 .. size - 1
      BY <1>14, <3>2
    <3> QED BY <3>3 DEF size
  <2>6. screen \in [Cells -> Glyphs] /\ \A i \in Cells : i > 1 => screen[i] = " "
    <3>1. Cells \subseteq Nat
      BY ScreenSize DEF Cells
    <3>2. screen \in [Cells -> Glyphs] /\ \A i \in Cells : i # 1 => screen[i] = s[i]
      BY <1>14, <2>2, <2>3
    <3>3. \A i \in Cells : i > 1 => i # 1
      BY <3>1
    <3> QED BY <2>3, <3>2, <3>3, Zenon
  <2>7. ConOK(Con)
    <3>1. Con.screen = screen /\ Con.pen = pen /\ Con \in Con_
      BY <2>4, <2>6 DEF Con, Con_
    <3>2. BlankBehind(Con)
      BY <1>14, <2>6, <3>1 DEF BlankBehind
    <3> QED BY <3>1, <3>2 DEF ConOK
  <2>8. Len(line) <= MaxLine /\ line \in Seq(Glyphs)
    <3>1. Len(line) = 0 /\ line \in Seq(Glyphs)
      BY <2>1, Zenon
    <3>2. MaxLine \in Nat
      BY <2>2
    <3> DEFINE n == Len(line)
    <3>3. n <= MaxLine
      <4>1. n = 0
        BY <3>1
      <4> HIDE DEF n
      <4> QED BY <3>2, <4>1
    <3> QED BY <3>1, <3>3
  <2> QED BY <2>7, <2>8 DEF ConInv
<1> QED BY <1>3, <1>5, <1>7, <1>8, <1>9, <1>11, <1>12 DEF CoreInv, IInv

---------------------------------------------------------------------------
\* What a file holds, lost by a step of a command.
LEMMA LostByJob ==
  ASSUME CoreInv, JobStep, NEW at, NEW c, FileAt(ents, at, c), \A q : ~FileAt(ents', q, c)
  PROVE  c = Zeros(Len(c)) \/ ToldTo(c) \/ MovedAstray
<1>1. /\ TableOK(ents) /\ NamesOK(ents) /\ CwdInv /\ JobShape(job) /\ TargetInv /\ MoveInv
      /\ job.dst \in Arg_ /\ job.data \in Seq(Chars) /\ Len(job.data) \in Nat
  BY FilesNow, HeldIs, JobFields DEF CoreInv
<1>2. \A arg : \A p \in Norms(arg) : p = at => Holds(arg, c)
  BY Zenon DEF Holds, FileAt
<1>3. CASE Load \/ Take \/ Give
  <2>1. ents' = ents
    BY <1>3, Zenon DEF Load, Take, Give, filesVars
  <2> QED BY <2>1, Zenon
<1>4. CASE Clear
  <2>1. PICK p \in Norms(job.dst) : ents' = Deleted(ents, p)
    BY <1>4, Zenon DEF Clear
  <2>2. \A q : FileAt(ents', q, c) <=> FileAt(ents, q, c) /\ q # p
    BY <1>1, <2>1, DeletedNames
  <2>3. p = at
    BY <2>2
  <2> QED BY <1>2, <1>4, <2>3, Zenon DEF ToldTo, Clear
<1>5. CASE Make
  <2> DEFINE n == Len(job.data)
  <2>1. PICK p \in Norms(job.dst) : ents' = IF MayCreate(ents, p, n) THEN Created(ents, p, n) ELSE ents
    BY <1>5, Zenon DEF Make
  <2>2. PathOK(p)
    BY <1>1, NormsType
  <2>3. n \in Nat
    BY <1>1
  <2> HIDE DEF n
  <2>4. CASE MayCreate(ents, p, n)
    <3>1. ents' = Created(ents, p, n)
      BY <2>1, <2>4, Zenon
    <3>2. \A q, d : FileAt(ents', q, d) <=> FileAt(ents, q, d) \/ (q = p /\ d = Zeros(n))
      BY <1>1, <2>2, <2>3, <2>4, <3>1, CreatedNames
    <3> QED BY <3>2, Zenon
  <2>5. CASE ~MayCreate(ents, p, n)
    BY <2>1, <2>5, Zenon
  <2> QED BY <2>4, <2>5
<1>6. CASE Put
  <2>1. PICK p \in Norms(job.dst) : \E w \in Writes(ents, p, job.data) : ents' = w.ents
    BY <1>6, Zenon DEF Put
  <2>2. PICK w \in Writes(ents, p, job.data) : ents' = w.ents
    BY <2>1
  <2>3. \A q, d : q # p => (FileAt(w.ents, q, d) <=> FileAt(ents, q, d))
    BY <1>1, WritesNames
  <2>4. p = at
    BY <2>2, <2>3, Zenon
  <2>5. CASE TooLong(job.dst)
    BY <1>2, <1>6, <2>4, <2>5, Zenon DEF ToldTo, Put
  <2>6. CASE ~TooLong(job.dst)
    <3>1. at = Normal(job.dst) /\ job.step = "put"
      BY <1>6, <2>4, <2>6, NormsIs, Zenon DEF Put, Step
    <3> QED BY <1>1, <2>6, <3>1, Zenon DEF TargetInv
  <2> QED BY <2>5, <2>6
<1>7. CASE Unlink
  <2>1. PICK p \in Norms(job.src) : ents' = Deleted(ents, p)
    BY <1>7, Zenon DEF Unlink
  <2>2. \A q : FileAt(ents', q, c) <=> FileAt(ents, q, c) /\ q # p
    BY <1>1, <2>1, DeletedNames
  <2>3. p = at
    BY <2>2
  <2>4. Holds(job.src, c) /\ job.step = "remove"
    BY <1>2, <1>7, <2>3, Zenon DEF Unlink, Step
  <2>5. job.cmd = "rm" \/ job.cmd = "mv"
    BY <1>1, <2>4 DEF JobShape
  <2>6. CASE job.cmd = "rm"
    BY <2>4, <2>6, Zenon DEF ToldTo
  <2>7. ASSUME job.cmd = "mv", ~MovedAstray PROVE c = Zeros(Len(c))
    <3>1. /\ Normal(job.src) # Normal(job.dst) /\ ~TooLong(job.src) /\ ~TooLong(job.dst) /\ job.ok
      BY <2>4, <2>7, Zenon DEF MovedAstray, Step
    <3>2. at = Normal(job.src)
      BY <2>3, <3>1, NormsIs
    <3>3. ~FileAt(ents, Normal(job.dst), c)
      BY <2>2, <2>3, <3>1, <3>2
    <3>4. ~Moves(c)
      BY <1>1, <2>4, <3>1, <3>3, Zenon DEF MoveInv
    <3>5. c = <<>>
      BY <2>7, <3>1, <3>2, <3>4, Zenon DEF Moves
    <3>6. Zeros(0) = <<>>
      BY ZerosType, EmptySeq
    <3> QED BY <3>5, <3>6
  <2> QED BY <2>5, <2>6, <2>7
<1> QED BY <1>3, <1>4, <1>5, <1>6, <1>7, Zenon DEF JobStep

LEMMA LostStep ==
  ASSUME IInv, IInv', [Next]_vars, NEW c \in Kept \ Kept'
  PROVE  c = Zeros(Len(c)) \/ ToldTo(c) \/ MovedAstray
<1>1. /\ CoreInv /\ TableOK(ents) /\ NamesOK(ents) /\ TableOK(ents') /\ NamesOK(ents')
  BY DEF IInv, CoreInv, FilesInv
<1>2. PICK at : FileAt(ents, at, c)
  <2>1. \E i \in DOMAIN ents : ~ents[i].dir /\ ents[i].data = c
    BY Zenon DEF Kept
  <2> QED BY <1>1, <2>1, KeptIs
<1>3. \A q : ~FileAt(ents', q, c)
  <2>1. ~ \E i \in DOMAIN ents' : ~ents'[i].dir /\ ents'[i].data = c
    BY Zenon DEF Kept
  <2> QED BY <1>1, <2>1, KeptIs
<1>4. ents' # ents
  BY <1>2, <1>3, Zenon
<1>5. CASE DoJob
  BY <1>1, <1>2, <1>3, <1>5, LostByJob DEF DoJob
<1>6. CASE RunAtOnce
  <2>1. AtPrompt /\ UNCHANGED editorVars /\ (Cd \/ Mkdir \/ Show)
    BY <1>6, Zenon DEF RunAtOnce, May, AtOnce
  <2>2. CASE Mkdir
    <3>1. \A q, d : FileAt(ents, q, d) => FileAt(ents', q, d)
      BY <1>1, <2>1, <2>2, MkdirOK
    <3> QED BY <1>2, <1>3, <3>1, Zenon
  <2>3. CASE Cd \/ Show
    BY <1>4, <2>3, Zenon DEF Cd, Show, filesVars
  <2> QED BY <2>1, <2>2, <2>3
<1>7. CASE Typed \/ EmptyLine \/ ClearScreen \/ Restart \/ UNCHANGED vars
  BY <1>4, <1>7, Zenon DEF Typed, EmptyLine, ClearScreen, Restart, vars, filesVars
<1>8. CASE RunJob \/ Nano
  <2>1. UNCHANGED filesVars
    BY <1>1, <1>8, BegunOK, OpenOK, Zenon DEF RunJob, Nano, May
  <2> QED BY <1>4, <2>1 DEF filesVars
<1>9. CASE Edit \/ DoSaved \/ Leave
  <2>1. UNCHANGED filesVars
    BY <1>1, <1>9, KeyOK, SavedOK, QuitOK, Zenon DEF Edit, DoSaved, Leave
  <2> QED BY <1>4, <2>1 DEF filesVars
<1> QED BY <1>5, <1>6, <1>7, <1>8, <1>9, Zenon DEF Next

---------------------------------------------------------------------------
\* The theorems.

(* The invariant holds in every state: what is held is accounted for, the  *)
(* file a command writes is as far as its step says, and the screen shows  *)
(* nothing behind the pen (cmd.c, editor.c, shell.c, text.c).              *)
THEOREM Invariance == Spec => []IInv
<1>1. Init => IInv
  BY IInvInit
<1>2. IInv /\ [Next]_vars => IInv'
  BY IInvStep
<1> QED BY <1>1, <1>2, PTL DEF Spec

(* The types; the table has its root and fits on the disk, whatever the    *)
(* commands make of it, and the line of the editor's cursor is on the      *)
(* screen (xcfs.c, editor.c:112-115).                                      *)
THEOREM TypeCorrect == Spec => []TypeOK
<1>1. IInv => TypeOK
  <2> SUFFICES ASSUME IInv PROVE TypeOK
    OBVIOUS
  <2>1. CoreInv /\ ConInv /\ TableOK(ents) /\ CwdInv /\ EditInv /\ TextInv
    BY DEF IInv, CoreInv, FilesInv, EditInv
  <2>2. \A i \in DOMAIN ents : ents[i].parent \in 1 .. MaxFiles /\ ents[i].dir \in BOOLEAN
    BY <2>1, TableIs, EntryIs DEF TableOK
  <2>3. Len(ents) \in 1 .. MaxFiles /\ Used(ents) <= Sectors /\ Len(cwd) <= MaxPath
    BY <2>1 DEF TableOK, CwdInv
  <2>4. job.step \in {"none", "load", "clear", "make", "put", "saved", "remove", "take", "give"}
    BY <2>1, HeldIs, JobFields DEF Steps
  <2>5. held \in Nat
    BY <2>1, HeldIs
  <2>6. /\ Len(buf) <= MaxText /\ cursor \in 0 .. Len(buf) /\ dirty \in BOOLEAN /\ cmd_mode \in BOOLEAN
        /\ LinesBefore(buf, cursor) \in top_line .. top_line + Rows - 1
    BY <2>1 DEF EditInv, TextInv
  <2>7. DOMAIN screen = Cells /\ pen \in 0 .. Width * Height - 1 /\ Len(line) <= MaxLine
    BY <2>1, ConNow, ConIs DEF ConInv
  <2> QED BY <2>2, <2>3, <2>4, <2>5, <2>6, <2>7 DEF TypeOK
<1> QED BY <1>1, Invariance, PTL

(* Whenever the shell waits for a line, the heap has back every block that *)
(* a command took, for its arguments, its buffer or its list, whichever of *)
(* its calls failed (shell.c:73-85, 148; cmd.c:64-80, 163-180, 329-366).   *)
THEOREM MemoryComesBack == Spec => []MemoryReturned
<1>1. IInv => MemoryReturned
  <2> SUFFICES ASSUME IInv, AtPrompt PROVE held = 0
    BY DEF MemoryReturned
  <2>1. CoreInv /\ job = Idle /\ ~editing
    BY DEF IInv, AtPrompt
  <2>2. Blocks = 0 /\ job.argc = 0
    BY <2>1, IdleIs DEF Blocks, Writing
  <2>3. held = argc + job.argc + Blocks /\ argc = 0
    BY <2>1, HeldIs
  <2> QED BY <2>2, <2>3
<1> QED BY <1>1, Invariance, PTL

(* An editor that shows no change holds what its file holds, unless the    *)
(* file could not be read or written whole: opening and saving are what    *)
(* clears the mark, and the steps of the save leave the file as the text   *)
(* is (editor.c:53-72, 144-151, 181-185).                                  *)
THEOREM CleanIsSaved == Spec => []CleanMeansSaved
<1>1. IInv => CleanMeansSaved
  BY DEF IInv, CoreInv
<1> QED BY <1>1, Invariance, PTL

(* What a file holds is lost only by a command that was told to lose it or *)
(* by a move that went astray; a move that copied lost nothing, whatever   *)
(* calls of it failed before (cmd.c:99-118, 140-192, editor.c:144-151).    *)
THEOREM LostOnlyWhenTold == Spec => LostOnlyBy
<1>1. IInv /\ IInv' /\ [Next]_vars =>
        [\A c \in Kept \ Kept' : c = Zeros(Len(c)) \/ ToldTo(c) \/ MovedAstray]_vars
  BY LostStep
<1> QED BY <1>1, Invariance, PTL DEF Spec, LostOnlyBy

(* The line on the screen is the line that Enter will run, as far as it is *)
(* on it, through every command and every scroll, until a character is     *)
(* erased at the left edge (text.c:80-107, keyboard.c:267-288).            *)
THEOREM LineIsShown == Spec => LineStaysShown
<1>1. IInv /\ [Next]_vars =>
        [AtPrompt' /\ ~LineShown' => AtPrompt /\ (ErasedAtEdge \/ ~LineShown)]_vars
  BY IInvStep DEF Stays
<1> QED BY <1>1, Invariance, PTL DEF Spec, LineStaysShown
=============================================================================
