---------------------------- MODULE LinkFileProofs ----------------------------
(***************************************************************************)
(* The search for hello_world.txt and the links to it, for every directory *)
(* tree, whatever the user may do with its directories and types, and      *)
(* however many of them can be open.                                       *)
(***************************************************************************)
EXTENDS LinkFile, FiniteSetTheorems, SequenceTheorems, WellFoundedInduction,
  TLAPS

(* Counting up from 0.                                                     *)
LEMMA CountUp ==
  ASSUME NEW S, NEW m \in Nat, 0 \in S,
         \A n \in 0 .. m - 1 : n \in S => n + 1 \in S
  PROVE  \A n \in 0 .. m : n \in S
<1> SUFFICES ASSUME NEW k \in 0 .. m, k \notin S
             PROVE  FALSE
  OBVIOUS
<1> DEFINE Missing == {n \in 0 .. m : n \notin S}
           R == OpToRel(<, Nat)
<1>1. Missing \subseteq Nat /\ Missing # {}
  OBVIOUS
<1>2. PICK l \in Missing : \A n \in Missing : ~(<<n, l>> \in R)
  <2> HIDE DEF Missing, R
  <2> QED
    BY <1>1, NatLessThanWellFounded, WFMin DEF R
<1>3. l \in 1 .. m /\ l \notin S
  OBVIOUS
<1>4. l - 1 \in 0 .. m - 1 /\ l - 1 + 1 = l
  BY <1>3
<1>5. l - 1 \notin S
  BY <1>3, <1>4
<1>6. l - 1 \in Missing /\ l - 1 < l
  BY <1>3, <1>4, <1>5
<1>7. <<l - 1, l>> \in R
  BY <1>3, <1>4, <1>6 DEF OpToRel
<1> QED
  BY <1>2, <1>6, <1>7

LEMMA LeastNat ==
  ASSUME NEW S, S \subseteq Nat, S # {}
  PROVE  \E l \in S : \A n \in S : l <= n
<1> DEFINE R == OpToRel(<, Nat)
<1>1. PICK l \in S : \A n \in S : ~(<<n, l>> \in R)
  <2> HIDE DEF R
  <2> QED
    BY NatLessThanWellFounded, WFMin DEF R
<1>2. \A n \in S : l <= n
  <2> SUFFICES ASSUME NEW n \in S, ~(l <= n)
               PROVE  FALSE
    OBVIOUS
  <2>1. n \in Nat /\ l \in Nat /\ n < l
    OBVIOUS
  <2>2. <<n, l>> \in R
    BY <2>1 DEF OpToRel
  <2> QED
    BY <1>1, <2>2
<1> QED
  BY <1>2

-----------------------------------------------------------------------------
(* The directories.                                                        *)
Height == Cardinality(Dir)

LEMMA HeightIsNat == Height \in Nat
BY LinkAssumption, FS_CardinalityType DEF Height

TreeInv ==
  /\ parent \in [Dir -> Dir] /\ parent[Root] = Root
  /\ \A d \in Dir : Root \in Ancestors(d)
  /\ called \in [Dir -> Name \union {"/"}]
  /\ \A d \in Dir : called[d] = "/" <=> d = Root
  /\ \A c, d \in Dir \ {Root} :
       parent[c] = parent[d] /\ called[c] = called[d] => c = d
  /\ enter \subseteq Dir /\ read \subseteq Dir
  /\ version \in [Dir -> Nat]
  /\ \A c \in Dir \ {Root} : called[c] = hello => version[parent[c]] = 0

(* The directories above d, one after the other: the recursive definition  *)
(* defines something.                                                      *)
LEMMA UpDefined ==
  ASSUME NEW d, NEW m \in Nat
  PROVE  \E f : f = [n \in 0 .. m |-> IF n = 0 THEN d ELSE parent[f[n - 1]]]
<1> DEFINE Climb(f, k) == f = [n \in 0 .. k |-> IF n = 0 THEN d ELSE parent[f[n - 1]]]
           S == {k \in Nat : \E f : Climb(f, k)}
<1>1. 0 \in S
  <2> DEFINE f == [n \in 0 .. 0 |-> d]
  <2>1. Climb(f, 0)
    OBVIOUS
  <2> QED
    BY <2>1
<1>2. ASSUME NEW k \in 0 .. m - 1, k \in S
      PROVE  k + 1 \in S
  <2>1. PICK f : Climb(f, k)
    BY <1>2
  <2> DEFINE g == [n \in 0 .. k + 1 |-> IF n = k + 1 THEN parent[f[k]] ELSE f[n]]
             h == [n \in 0 .. k + 1 |-> IF n = 0 THEN d ELSE parent[g[n - 1]]]
  <2>2. \A n \in 0 .. k : f[n] = IF n = 0 THEN d ELSE parent[f[n - 1]]
    BY <2>1
  <2>3. ASSUME NEW n \in 0 .. k + 1
        PROVE  g[n] = h[n]
    <3>1. CASE n = k + 1
      <4>1. n # 0 /\ n - 1 = k /\ k \in 0 .. k + 1 /\ k # k + 1
        BY <3>1
      <4> QED
        BY <3>1, <4>1
    <3>2. CASE n # k + 1 /\ n # 0
      <4>1. n \in 0 .. k /\ n - 1 \in 0 .. k + 1 /\ n - 1 # k + 1
        BY <3>2
      <4> QED
        BY <2>2, <3>2, <4>1
    <3>3. CASE n # k + 1 /\ n = 0
      BY <2>2, <3>3
    <3> QED
      BY <3>1, <3>2, <3>3
  <2>4. g = h
    BY <2>3
  <2>5. Climb(g, k + 1)
    BY <2>4
  <2> HIDE DEF g, Climb
  <2> QED
    BY <2>5
<1>3. m \in S
  <2> HIDE DEF S
  <2>1. \A n \in 0 .. m : n \in S
    BY <1>1, <1>2, CountUp
  <2> QED
    BY <2>1
<1> QED
  BY <1>3

LEMMA Upwards ==
  ASSUME TreeInv, NEW d \in Dir
  PROVE  \E up \in [0 .. Height -> Dir] :
           /\ up[0] = d
           /\ \A n \in 1 .. Height : up[n] = parent[up[n - 1]]
           /\ Ancestors(d) = {up[n] : n \in 0 .. Height}
<1> DEFINE Climb(f) == f = [n \in 0 .. Height |-> IF n = 0 THEN d ELSE parent[f[n - 1]]]
           up == CHOOSE f : Climb(f)
<1>1. \E f : Climb(f)
  <2>1. \A m \in Nat :
          \E f : f = [n \in 0 .. m |-> IF n = 0 THEN d ELSE parent[f[n - 1]]]
    BY UpDefined
  <2> QED
    BY <2>1, HeightIsNat
<1>2. Climb(up)
  <2> HIDE DEF Climb
  <2> QED
    BY <1>1
<1>3. Ancestors(d) = {up[n] : n \in 0 .. Height}
  BY DEF Ancestors, Height
<1> HIDE DEF up
<1>4. \A n \in 0 .. Height : up[n] = IF n = 0 THEN d ELSE parent[up[n - 1]]
  BY <1>2
<1>4a. up = [n \in 0 .. Height |-> up[n]]
  BY <1>2
<1>5. \A n \in 0 .. Height : up[n] \in Dir
  <2> DEFINE S == {n \in 0 .. Height : up[n] \in Dir}
  <2>1. 0 \in S
    BY <1>4, HeightIsNat
  <2>2. ASSUME NEW n \in 0 .. Height - 1, n \in S
        PROVE  n + 1 \in S
    <3>1. n + 1 \in 0 .. Height /\ n + 1 # 0 /\ n + 1 - 1 = n
      BY HeightIsNat
    <3>2. up[n + 1] = parent[up[n]]
      BY <1>4, <3>1
    <3>3. up[n] \in Dir
      BY <2>2
    <3>4. parent[up[n]] \in Dir
      BY <3>3 DEF TreeInv
    <3> QED
      BY <3>1, <3>2, <3>4
  <2> HIDE DEF S
  <2>3. \A n \in 0 .. Height : n \in S
    BY <2>1, <2>2, CountUp, HeightIsNat
  <2> QED
    BY <2>3 DEF S
<1>6. up \in [0 .. Height -> Dir]
  BY <1>4a, <1>5
<1>7. up[0] = d
  BY <1>4, HeightIsNat
<1>8. ASSUME NEW n \in 1 .. Height
      PROVE  up[n] = parent[up[n - 1]]
  <2>1. n \in 0 .. Height /\ n # 0
    BY HeightIsNat
  <2> QED
    BY <1>4, <2>1
<1> QED
  BY <1>3, <1>6, <1>7, <1>8

LEMMA AncestorsAreDirs ==
  ASSUME TreeInv, NEW d \in Dir
  PROVE  /\ d \in Ancestors(d) /\ Ancestors(d) \subseteq Dir
         /\ IsFiniteSet(Ancestors(d))
<1>1. d \in Ancestors(d) /\ Ancestors(d) \subseteq Dir
  <2>1. PICK up \in [0 .. Height -> Dir] :
          up[0] = d /\ Ancestors(d) = {up[n] : n \in 0 .. Height}
    BY Upwards
  <2>2. 0 \in 0 .. Height
    BY HeightIsNat
  <2> QED
    BY <2>1, <2>2
<1> QED
  BY <1>1, LinkAssumption, FS_Subset

LEMMA ParentIsAncestor ==
  ASSUME TreeInv, NEW d \in Dir, NEW x \in Ancestors(d)
  PROVE  parent[x] \in Ancestors(d)
<1>1. PICK up \in [0 .. Height -> Dir] :
        /\ \A n \in 1 .. Height : up[n] = parent[up[n - 1]]
        /\ Ancestors(d) = {up[n] : n \in 0 .. Height}
  BY Upwards
<1>2. PICK n \in 0 .. Height : up[n] = x
  BY <1>1
<1>3. CASE n < Height
  <2>1. n + 1 \in 1 .. Height /\ n + 1 - 1 = n /\ n + 1 \in 0 .. Height
    BY <1>3, HeightIsNat
  <2>2. up[n + 1] = parent[x]
    BY <1>1, <1>2, <2>1
  <2> QED
    BY <1>1, <2>1, <2>2
<1>4. CASE n = Height
  <2>1. PICK k \in 0 .. Height : up[k] = Root
    BY <1>1 DEF TreeInv
  <2> DEFINE S == {j \in 0 .. Height - k : up[k + j] = Root}
  <2>2. 0 \in S
    BY <2>1, HeightIsNat
  <2>3. ASSUME NEW j \in 0 .. Height - k - 1, j \in S
        PROVE  j + 1 \in S
    <3>1. /\ k + (j + 1) \in 1 .. Height /\ k + (j + 1) - 1 = k + j
          /\ j + 1 \in 0 .. Height - k
      BY HeightIsNat
    <3>2. up[k + (j + 1)] = parent[up[k + j]]
      BY <1>1, <3>1
    <3> QED
      BY <2>3, <3>1, <3>2 DEF TreeInv
  <2>4. Height - k \in Nat
    BY HeightIsNat
  <2>5. Height - k \in S
    <3> HIDE DEF S
    <3>1. \A j \in 0 .. Height - k : j \in S
      BY <2>2, <2>3, <2>4, CountUp
    <3> QED
      BY <2>4, <3>1
  <2>6. up[Height] = Root
    BY <2>5, HeightIsNat
  <2> QED
    BY <1>2, <1>4, <2>6 DEF TreeInv
<1> QED
  BY <1>3, <1>4, HeightIsNat

LEMMA AncestorsOfAncestor ==
  ASSUME TreeInv, NEW d \in Dir, NEW x \in Ancestors(d)
  PROVE  Ancestors(x) \subseteq Ancestors(d)
<1> x \in Dir
  BY AncestorsAreDirs
<1>1. PICK up \in [0 .. Height -> Dir] :
        /\ up[0] = x
        /\ \A n \in 1 .. Height : up[n] = parent[up[n - 1]]
        /\ Ancestors(x) = {up[n] : n \in 0 .. Height}
  BY Upwards
<1> DEFINE S == {n \in 0 .. Height : up[n] \in Ancestors(d)}
<1>2. 0 \in S
  BY <1>1, HeightIsNat
<1>3. ASSUME NEW n \in 0 .. Height - 1, n \in S
      PROVE  n + 1 \in S
  <2>1. n + 1 \in 1 .. Height /\ n + 1 - 1 = n /\ n + 1 \in 0 .. Height
    BY HeightIsNat
  <2>2. up[n + 1] = parent[up[n]] /\ up[n] \in Ancestors(d)
    BY <1>1, <1>3, <2>1
  <2> QED
    BY <2>1, <2>2, ParentIsAncestor
<1>4. \A n \in 0 .. Height : n \in S
  <2> HIDE DEF S
  <2> QED
    BY <1>2, <1>3, CountUp, HeightIsNat
<1> QED
  BY <1>1, <1>4

(* On the way down from an ancestor of d to d there is a next directory.   *)
LEMMA NextDown ==
  ASSUME TreeInv, NEW d \in Dir, NEW x \in Ancestors(d), x # d
  PROVE  \E c \in Children(x) : c \in Ancestors(d)
<1>1. PICK up \in [0 .. Height -> Dir] :
        /\ up[0] = d
        /\ \A n \in 1 .. Height : up[n] = parent[up[n - 1]]
        /\ Ancestors(d) = {up[n] : n \in 0 .. Height}
  BY Upwards
<1> DEFINE S == {n \in 0 .. Height : up[n] = x}
<1>2. PICK l \in S : \A n \in S : l <= n
  <2>1. S \subseteq Nat /\ S # {}
    BY <1>1, HeightIsNat
  <2> HIDE DEF S
  <2> QED
    BY <2>1, LeastNat
<1>3. l # 0
  BY <1>1, <1>2
<1>4. l \in 1 .. Height /\ l - 1 \in 0 .. Height /\ ~(l <= l - 1)
  BY <1>2, <1>3, HeightIsNat
<1>5. parent[up[l - 1]] = x /\ up[l - 1] \in Dir
  BY <1>1, <1>2, <1>4
<1>6. up[l - 1] # Root
  BY <1>2, <1>4, <1>5 DEF TreeInv
<1> QED
  BY <1>1, <1>4, <1>5, <1>6 DEF Children

(* How far a directory is from the root.                                   *)
Ways(p, d) ==
  {m \in Nat : \E f \in [0 .. m -> Dir] :
     f[0] = d /\ f[m] = Root /\ \A j \in 0 .. m - 1 : f[j + 1] = p[f[j]]}
Depth(p, d) == CHOOSE m \in Ways(p, d) : \A n \in Ways(p, d) : m <= n

LEMMA DepthIsWay ==
  ASSUME TreeInv, NEW d \in Dir
  PROVE  /\ Depth(parent, d) \in Ways(parent, d) /\ Depth(parent, d) \in Nat
         /\ \A n \in Ways(parent, d) : Depth(parent, d) <= n
<1>1. PICK up \in [0 .. Height -> Dir] :
        /\ up[0] = d
        /\ \A n \in 1 .. Height : up[n] = parent[up[n - 1]]
        /\ Ancestors(d) = {up[n] : n \in 0 .. Height}
  BY Upwards
<1>2. PICK m \in 0 .. Height : up[m] = Root
  BY <1>1 DEF TreeInv
<1> DEFINE f == [n \in 0 .. m |-> up[n]]
<1>3. /\ m \in Nat /\ f \in [0 .. m -> Dir] /\ f[0] = d /\ f[m] = Root
  BY <1>1, <1>2, HeightIsNat
<1>4. \A j \in 0 .. m - 1 : f[j + 1] = parent[f[j]]
  <2> TAKE j \in 0 .. m - 1
  <2>1. j + 1 \in 1 .. Height /\ j + 1 - 1 = j /\ j \in 0 .. m /\ j + 1 \in 0 .. m
    BY HeightIsNat
  <2> QED
    BY <1>1, <2>1
<1>5. m \in Ways(parent, d)
  <2> HIDE DEF f
  <2> QED
    BY <1>3, <1>4 DEF Ways
<1>6. \E l \in Ways(parent, d) : \A n \in Ways(parent, d) : l <= n
  <2>1. Ways(parent, d) \subseteq Nat
    BY DEF Ways
  <2> QED
    BY <1>5, <2>1, LeastNat
<1>7. /\ Depth(parent, d) \in Ways(parent, d)
      /\ \A n \in Ways(parent, d) : Depth(parent, d) <= n
  BY <1>6 DEF Depth
<1> QED
  BY <1>7 DEF Ways

LEMMA ChildIsDeeper ==
  ASSUME TreeInv, NEW c \in Dir \ {Root}
  PROVE  Depth(parent, parent[c]) < Depth(parent, c)
<1> DEFINE m == Depth(parent, c)
<1>1. m \in Ways(parent, c) /\ m \in Nat
  BY DepthIsWay
<1> HIDE DEF m
<1>2. PICK f \in [0 .. m -> Dir] :
        f[0] = c /\ f[m] = Root /\ \A j \in 0 .. m - 1 : f[j + 1] = parent[f[j]]
  BY <1>1 DEF Ways
<1>3. m - 1 \in Nat
  BY <1>1, <1>2
<1> DEFINE g == [j \in 0 .. m - 1 |-> f[j + 1]]
<1>4. g \in [0 .. m - 1 -> Dir] /\ g[m - 1] = Root
  BY <1>1, <1>2, <1>3
<1>5. g[0] = parent[c]
  <2>1. 0 \in 0 .. m - 1 /\ 0 + 1 = 1
    BY <1>1, <1>3
  <2>2. f[0 + 1] = parent[f[0]]
    BY <1>2, <2>1
  <2> QED
    BY <1>2, <2>1, <2>2
<1>6. \A j \in 0 .. (m - 1) - 1 : g[j + 1] = parent[g[j]]
  <2> TAKE j \in 0 .. (m - 1) - 1
  <2>1. j \in 0 .. m - 1 /\ j + 1 \in 0 .. m - 1
    BY <1>1
  <2>2. f[(j + 1) + 1] = parent[f[j + 1]]
    BY <1>2, <2>1
  <2> QED
    BY <2>1, <2>2
<1>7. m - 1 \in Ways(parent, parent[c])
  <2> HIDE DEF g
  <2> QED
    BY <1>3, <1>4, <1>5, <1>6 DEF Ways
<1>8. parent[c] \in Dir
  BY DEF TreeInv
<1>9. Depth(parent, parent[c]) <= m - 1 /\ Depth(parent, parent[c]) \in Nat
  BY <1>7, <1>8, DepthIsWay
<1> QED
  BY <1>1, <1>9 DEF m

LEMMA AncestorIsNoDeeper ==
  ASSUME TreeInv, NEW d \in Dir, NEW x \in Ancestors(d)
  PROVE  Depth(parent, x) <= Depth(parent, d)
<1>1. PICK up \in [0 .. Height -> Dir] :
        /\ up[0] = d
        /\ \A n \in 1 .. Height : up[n] = parent[up[n - 1]]
        /\ Ancestors(d) = {up[n] : n \in 0 .. Height}
  BY Upwards
<1> DEFINE S == {n \in 0 .. Height : Depth(parent, up[n]) <= Depth(parent, d)}
<1>2. 0 \in S
  <2>1. Depth(parent, d) \in Nat
    BY DepthIsWay
  <2> QED
    BY <1>1, <2>1, HeightIsNat
<1>3. ASSUME NEW n \in 0 .. Height - 1, n \in S
      PROVE  n + 1 \in S
  <2>1. n + 1 \in 1 .. Height /\ n + 1 - 1 = n /\ n \in 0 .. Height /\ n + 1 \in 0 .. Height
    BY HeightIsNat
  <2>2. up[n + 1] = parent[up[n]] /\ up[n] \in Dir /\ up[n + 1] \in Dir
    BY <1>1, <2>1
  <2>3. Depth(parent, up[n + 1]) <= Depth(parent, up[n])
    <3>1. CASE up[n] = Root
      BY <2>2, <3>1, DepthIsWay DEF TreeInv
    <3>2. CASE up[n] # Root
      BY <2>2, <3>2, ChildIsDeeper, DepthIsWay
    <3> QED
      BY <3>1, <3>2
  <2>4. /\ Depth(parent, up[n + 1]) \in Nat /\ Depth(parent, up[n]) \in Nat
        /\ Depth(parent, d) \in Nat
    BY <2>2, DepthIsWay
  <2> QED
    BY <1>3, <2>1, <2>3, <2>4
<1>4. \A n \in 0 .. Height : n \in S
  <2> HIDE DEF S
  <2> QED
    BY <1>2, <1>3, CountUp, HeightIsNat
<1> QED
  BY <1>1, <1>4

(* A directory and one below it: they are different, and what is above the *)
(* upper one is above the lower.                                           *)
LEMMA ChildBelow ==
  ASSUME TreeInv, NEW x \in Dir, NEW c \in Children(x)
  PROVE  /\ c \in Dir /\ c # Root /\ parent[c] = x
         /\ Ancestors(x) \subseteq Ancestors(c)
         /\ Depth(parent, x) < Depth(parent, c)
<1>1. c \in Dir /\ c # Root /\ parent[c] = x
  BY DEF Children
<1>2. x \in Ancestors(c)
  BY <1>1, AncestorsAreDirs, ParentIsAncestor
<1> QED
  BY <1>1, <1>2, AncestorsOfAncestor, ChildIsDeeper

-----------------------------------------------------------------------------
(* Paths.                                                                  *)
LEMMA FollowIs ==
  /\ \A d : Follow(d, <<>>) = d
  /\ \A d, a : Follow(d, <<a>>) = Walk(d, a)
  /\ \A d, a, b : Follow(d, <<a, b>>) = Walk(Walk(d, a), b)
<1> DEFINE At(f, d, path) ==
             f = [n \in 0 .. Len(path) |-> IF n = 0 THEN d ELSE Walk(f[n - 1], path[n])]
<1>1. ASSUME NEW d, NEW path, \E f : At(f, d, path)
      PROVE  \E f : At(f, d, path) /\ Follow(d, path) = f[Len(path)]
  <2> DEFINE at == CHOOSE f : At(f, d, path)
  <2>1. At(at, d, path)
    <3> HIDE DEF At
    <3> QED
      BY <1>1
  <2>2. Follow(d, path) = at[Len(path)]
    BY DEF Follow
  <2> HIDE DEF at, At
  <2> QED
    BY <2>1, <2>2
<1>2. ASSUME NEW d
      PROVE  Follow(d, <<>>) = d
  <2> DEFINE f == [n \in 0 .. 0 |-> d]
  <2>1. At(f, d, <<>>)
    OBVIOUS
  <2>2. PICK g : At(g, d, <<>>) /\ Follow(d, <<>>) = g[Len(<<>>)]
    <3> HIDE DEF At, f
    <3> QED
      BY <1>1, <2>1
  <2> QED
    BY <2>2
<1>3. ASSUME NEW d, NEW a
      PROVE  Follow(d, <<a>>) = Walk(d, a)
  <2> DEFINE f == [n \in 0 .. 1 |-> IF n = 0 THEN d ELSE Walk(d, a)]
             path == <<a>>
  <2>1. At(f, d, path)
    <3>1. f = [n \in 0 .. 1 |-> IF n = 0 THEN d ELSE Walk(f[n - 1], path[n])]
      OBVIOUS
    <3> HIDE DEF f
    <3> QED
      BY <3>1
  <2>2. PICK g : At(g, d, path) /\ Follow(d, path) = g[Len(path)]
    <3> HIDE DEF At, f, path
    <3> QED
      BY <1>1, <2>1
  <2>3. g[0] = d /\ g[1] = Walk(g[0], a) /\ Len(path) = 1
    BY <2>2
  <2> QED
    BY <2>2, <2>3
<1>4. ASSUME NEW d, NEW a, NEW b
      PROVE  Follow(d, <<a, b>>) = Walk(Walk(d, a), b)
  <2> DEFINE f == [n \in 0 .. 2 |-> IF n = 0 THEN d ELSE IF n = 1 THEN Walk(d, a)
                                    ELSE Walk(Walk(d, a), b)]
             path == <<a, b>>
  <2>1. At(f, d, path)
    <3>1. f = [n \in 0 .. 2 |-> IF n = 0 THEN d ELSE Walk(f[n - 1], path[n])]
      OBVIOUS
    <3> HIDE DEF f
    <3> QED
      BY <3>1
  <2>2. PICK g : At(g, d, path) /\ Follow(d, path) = g[Len(path)]
    <3> HIDE DEF At, f, path
    <3> QED
      BY <1>1, <2>1
  <2>3. g[0] = d /\ g[1] = Walk(g[0], a) /\ g[2] = Walk(g[1], b) /\ Len(path) = 2
    BY <2>2
  <2> QED
    BY <2>2, <2>3
<1> QED
  BY <1>2, <1>3, <1>4

LEMMA NamesDiffer ==
  ASSUME NEW n \in Name
  PROVE  n # "/" /\ n # "." /\ n # ".."
BY LinkAssumption

LEMMA WalkIs ==
  ASSUME TreeInv, NEW d \in Dir \union {None}, NEW name
  PROVE  /\ Walk(d, name) \in Dir \union {None}
         /\ d # None /\ name = "/" => Walk(d, name) = Root
         /\ d # None /\ name \in Name /\ Walk(d, name) # None =>
              Walk(d, name) \in Children(d) /\ called[Walk(d, name)] = name
         /\ d # None /\ name = hello /\ Walk(d, name) # None =>
              name \in Name /\ version[d] = 0
<1>1. CASE d = None
  <2>1. Walk(d, name) = None
    BY <1>1, LinkAssumption DEF Walk, TreeInv
  <2> QED
    BY <1>1, <2>1
<1>2. CASE d # None /\ name = "/"
  <2>1. Walk(d, name) = Root
    BY <1>2 DEF Walk
  <2> QED
    BY <1>2, <2>1, LinkAssumption, NamesDiffer DEF hello
<1>3. CASE d # None /\ name # "/" /\ d \notin enter
  <2>1. Walk(d, name) = None
    BY <1>3 DEF Walk
  <2> QED
    BY <1>3, <2>1
<1>4. CASE d \in enter /\ name \in {".", ".."}
  <2>1. Walk(d, name) \in Dir
    BY <1>4, LinkAssumption DEF Walk, TreeInv
  <2> QED
    BY <1>4, <2>1, NamesDiffer DEF hello
<1>5. CASE d \in enter /\ name \notin {"/", ".", ".."}
  <2> DEFINE C == {c \in Children(d) : called[c] = name}
  <2>1. Walk(d, name) = IF \E c \in Children(d) : called[c] = name
                        THEN CHOOSE c \in Children(d) : called[c] = name ELSE None
    BY <1>5, LinkAssumption DEF Walk, TreeInv
  <2>2. \/ Walk(d, name) = None
        \/ Walk(d, name) \in Children(d) /\ called[Walk(d, name)] = name
    BY <2>1
  <2>3. \A c \in Children(d) : c \in Dir /\ called[c] \in Name
    BY DEF Children, TreeInv
  <2>4. name = hello /\ Walk(d, name) # None => name \in Name /\ version[d] = 0
    BY <2>2, <2>3 DEF Children, TreeInv
  <2> QED
    BY <1>5, <2>2, <2>3, <2>4
<1> QED
  BY <1>1, <1>2, <1>3, <1>4, <1>5, LinkAssumption DEF TreeInv

(* A name read in a directory leads to the directory that has it.          *)
LEMMA WalkToChild ==
  ASSUME TreeInv, NEW d \in enter, NEW c \in Children(d)
  PROVE  Walk(d, called[c]) = c /\ called[c] \in Name
<1>1. c \in Dir \ {Root} /\ parent[c] = d /\ d \in Dir
  BY DEF Children, TreeInv
<1>2. called[c] \in Name
  BY <1>1 DEF TreeInv
<1>3. called[c] \notin {"/", ".", ".."}
  BY <1>2, NamesDiffer
<1>4. Walk(d, called[c]) = CHOOSE x \in Children(d) : called[x] = called[c]
  BY <1>1, <1>3, LinkAssumption DEF Walk
<1>5. \A x \in Children(d) : called[x] = called[c] => x = c
  BY <1>1 DEF Children, TreeInv
<1> QED
  BY <1>2, <1>4, <1>5

(* The paths the user can type.                                            *)
LEMMA TypedIs ==
  ASSUME NEW p \in Typed
  PROVE  \/ p = <<>>
         \/ \E a \in Name \union {".", "..", "/"} : p = <<a>>
         \/ \E a \in Name \union {"..", "/"}, n \in Name : p = <<a, n>>
BY DEF Typed

LEMMA FollowType ==
  ASSUME TreeInv, NEW d \in Dir, NEW p \in Typed \union {<<hello>>}
  PROVE  /\ Follow(d, p) \in Dir \union {None}
         /\ Follow(d, p) # None => p \in Typed
<1>1. CASE p = <<>>
  BY <1>1, FollowIs DEF hello
<1>2. ASSUME NEW a, p = <<a>>
      PROVE  /\ Follow(d, p) \in Dir \union {None}
             /\ a = hello /\ Follow(d, p) # None => a \in Name
  BY <1>2, FollowIs, WalkIs, LinkAssumption
<1>3. ASSUME NEW a, NEW b, p = <<a, b>>
      PROVE  Follow(d, p) \in Dir \union {None}
  <2>1. Walk(d, a) \in Dir \union {None}
    BY WalkIs
  <2>2. Walk(Walk(d, a), b) \in Dir \union {None}
    BY <2>1, WalkIs
  <2> QED
    BY <1>3, <2>2, FollowIs
<1>4. CASE p \in Typed
  BY <1>1, <1>2, <1>3, <1>4, TypedIs
<1>5. CASE p = <<hello>>
  <2>1. hello \in Name => p \in Typed
    BY <1>5 DEF Typed
  <2> QED
    BY <1>2, <1>5, <2>1
<1> QED
  BY <1>4, <1>5

(* The file system does not change under the search.                       *)
LEMMA SameTree ==
  ASSUME UNCHANGED treeVars
  PROVE  /\ \A d : Ancestors(d)' = Ancestors(d) /\ Children(d)' = Children(d)
         /\ \A d, p : Follow(d, p)' = Follow(d, p)
         /\ \A d : Up(d)' = Up(d)
         /\ dir' = dir => Named' = Named
<1>1. ASSUME NEW d
      PROVE  Ancestors(d)' = Ancestors(d) /\ Children(d)' = Children(d)
  BY DEF Ancestors, Children, treeVars
<1>2. ASSUME NEW d, NEW p
      PROVE  Follow(d, p)' = Follow(d, p)
  BY DEF Follow, Walk, Children, treeVars
<1>3. dir' = dir => Named' = Named
  <2> SUFFICES ASSUME dir' = dir
               PROVE  Named' = Named
    OBVIOUS
  <2> QED
    BY DEF Named, Follow, Walk, Children, treeVars
<1>4. \A d : Up(d)' = Up(d)
  BY DEF Up, treeVars
<1> QED
  BY <1>1, <1>2, <1>3, <1>4

-----------------------------------------------------------------------------
(* The inductive invariant.  Types first: of every activation too.         *)
Activation == [dir : Dir, path : Typed \ {<<>>},
               rest : SUBSET (Name \union {".", "..", hello}),
               statbuf : {"any", "directory", "file"}]

LinkTypes ==
  /\ TreeInv
  /\ pc \in {"input", "call", "read", "exit"} \union Links
  /\ dir \in Typed /\ call \in Typed \union {<<hello>>}
  /\ cwd \in Dir /\ matched \in Dir \union {None}
  /\ ret_dir \in {<<>>} \union {Append(p, hello) : p \in Typed \ {<<>>}}
  /\ stack \in Seq(Activation) /\ Len(stack) <= MaxOpen
  /\ link \in [Links -> {<<>>} \union (Dir \X Nat)]

(* Where the program stands, when every directory that can be listed can   *)
(* be entered.                                                             *)
CwdInv ==
  /\ pc = "input" => dir = <<>> /\ matched = None
  /\ pc # "call" /\ pc # "read" => stack = <<>>
  /\ pc = "input" \/ (pc = "call" /\ stack = <<>>) => cwd = Home
  /\ pc = "call" /\ stack = <<>> => call = dir /\ matched = None
  /\ pc = "call" /\ stack # <<>> => \E c \in Children(Frame.dir) : call = <<called[c]>>
  /\ stack # <<>> => cwd = Frame.dir
  /\ Returned => cwd = IF Opens THEN Up(Named) ELSE Home

(* The activations go down from the directory the user named, each reads a *)
(* directory that is in the one before it.                                 *)
StackInv ==
  /\ stack # <<>> => Opens /\ stack[1].dir = Named /\ stack[1].path = dir
  /\ \A k \in DOMAIN stack : /\ stack[k].dir \in read
                              /\ stack[k].rest \subseteq Entries(stack[k].dir)
  /\ \A k \in DOMAIN stack : k + 1 \in DOMAIN stack =>
       stack[k + 1].dir \in Children(stack[k].dir)
  /\ \A j, k \in DOMAIN stack : j < k =>
       /\ stack[j].dir \in Ancestors(stack[k].dir)
       /\ Depth(parent, stack[j].dir) < Depth(parent, stack[k].dir)

(* What has been found.                                                    *)
FoundInv ==
  /\ matched = None <=> ret_dir = <<>>
  /\ matched # None => Opens
  /\ matched # None /\ matched = Named => ret_dir = Append(dir, hello)
  /\ ~Searched => \A l \in Links : link[l] = <<>>
  /\ matched # None /\ matched = Named /\ (is_valid_file_name(dir) \/ dir[1] = "/") =>
       \A l \in Links : link[l] # <<>> => link[l][1] = matched

(* A file the search must come to, and that it has not come to yet: main() *)
(* has not begun, it is in what an activation has left, or in a directory  *)
(* on the way to it that an activation has left or is being called for.    *)
Wanted(d) ==
  /\ version[d] # 0 /\ Named \in Ancestors(d)
  /\ Within(d) \subseteq read /\ Cardinality(Within(d)) <= MaxOpen
StillToCome(d) ==
  \/ pc = "call" /\ stack = <<>>
  \/ /\ pc = "call" /\ stack # <<>>
     /\ \E c \in Children(Frame.dir) : c \in Ancestors(d) /\ call = <<called[c]>>
  \/ \E k \in DOMAIN stack : stack[k].dir = d /\ hello \in stack[k].rest
  \/ \E k \in DOMAIN stack : \E c \in Children(stack[k].dir) :
       c \in Ancestors(d) /\ called[c] \in stack[k].rest
SearchInv ==
  ret_dir = <<>> /\ Named # None =>
    \A d \in Dir : Wanted(d) => ~Searched /\ StillToCome(d)

Standing == CwdInv /\ StackInv /\ FoundInv /\ SearchInv
LinkInv ==
  /\ LinkTypes
  /\ read \subseteq enter => Standing

LEMMA FrontIs ==
  ASSUME NEW S, NEW s \in Seq(S), s # <<>>
  PROVE  /\ Front(s) \in Seq(S) /\ Len(Front(s)) = Len(s) - 1 /\ Len(s) \in Nat \ {0}
         /\ \A k \in 1 .. Len(s) - 1 : Front(s)[k] = s[k]
         /\ Last(s) = s[Len(s)] /\ Last(s) \in S
<1>1. Len(s) \in Nat \ {0}
  OBVIOUS
<1> DEFINE m == Len(s) - 1
<1>2. /\ Front(s) = SubSeq(s, 1, m) /\ 1 \in Int /\ m \in Nat
      /\ \A k \in 1 .. m : k \in 1 .. Len(s) /\ s[k] \in S /\ 1 + k - 1 = k
      /\ m - 1 + 1 = m
  BY <1>1 DEF Front
<1> HIDE DEF m
<1>3. /\ Front(s) \in Seq(S) /\ Len(Front(s)) = m
      /\ \A k \in 1 .. m : Front(s)[k] = s[k]
  <2>1. \A k \in 1 .. m : s[k] \in S
    BY <1>2
  <2>2. /\ SubSeq(s, 1, m) \in Seq(S)
        /\ Len(SubSeq(s, 1, m)) = IF 1 <= m THEN m - 1 + 1 ELSE 0
        /\ \A k \in 1 .. m - 1 + 1 : SubSeq(s, 1, m)[k] = s[1 + k - 1]
    BY <1>2, <2>1, SubSeqProperties
  <2> QED
    BY <1>2, <2>2
<1>4. Last(s) = s[Len(s)] /\ Len(s) \in DOMAIN s
  BY <1>1 DEF Last
<1> QED
  BY <1>1, <1>3, <1>4 DEF m

LEMMA StackIs ==
  ASSUME LinkTypes
  PROVE  /\ stack \in Seq(Activation) /\ Len(stack) \in Nat
         /\ DOMAIN stack = 1 .. Len(stack) /\ TreeInv
         /\ \A k \in 1 .. Len(stack) : stack[k].dir \in Dir
         /\ stack = <<>> <=> Len(stack) = 0
         /\ stack # <<>> => /\ Frame = stack[Len(stack)] /\ Frame \in Activation
                            /\ Frame.dir \in Dir
<1>1. stack \in Seq(Activation) /\ TreeInv
  BY DEF LinkTypes
<1>2. Len(stack) \in Nat /\ DOMAIN stack = 1 .. Len(stack)
  BY <1>1
<1>3. ASSUME NEW k \in 1 .. Len(stack)
      PROVE  stack[k].dir \in Dir
  <2>1. stack[k] \in Activation
    BY <1>1
  <2> QED
    BY <2>1 DEF Activation
<1>4. stack = <<>> <=> Len(stack) = 0
  BY <1>1
<1>5. ASSUME stack # <<>>
      PROVE  Frame = stack[Len(stack)] /\ Frame \in Activation /\ Frame.dir \in Dir
  <2>1. Frame = stack[Len(stack)] /\ Frame \in Activation
    BY <1>1, <1>5, FrontIs DEF Frame
  <2> QED
    BY <2>1 DEF Activation
<1> QED
  BY <1>1, <1>2, <1>3, <1>4, <1>5

LEMMA TreeKept ==
  ASSUME TreeInv, UNCHANGED treeVars, version' \in [Dir -> Nat],
         \A d \in Dir : version[d] = 0 => version'[d] = 0
  PROVE  TreeInv'
<1>1. \A d : Ancestors(d)' = Ancestors(d)
  BY SameTree
<1> QED
  BY <1>1 DEF TreeInv, treeVars

LEMMA TreeSame ==
  ASSUME TreeInv, UNCHANGED <<treeVars, version>>
  PROVE  TreeInv'
<1>1. version' \in [Dir -> Nat] /\ \A d \in Dir : version[d] = 0 => version'[d] = 0
  BY DEF TreeInv
<1> QED
  BY <1>1, TreeKept DEF treeVars

LEMMA EntriesType ==
  ASSUME TreeInv, NEW d \in Dir
  PROVE  Entries(d) \subseteq Name \union {".", "..", hello}
<1>1. \A c \in Children(d) : called[c] \in Name
  BY DEF Children, TreeInv
<1> QED
  BY <1>1 DEF Entries

LEMMA InitTypes == Init => LinkTypes
<1> SUFFICES ASSUME Init
             PROVE  LinkTypes
  OBVIOUS
<1>1. TreeInv
  <2>1. PICK r \in Rights : enter = r.enter /\ read = r.read
    BY DEF Init, TreeInit
  <2>2. r \in [enter : SUBSET Dir, read : SUBSET Dir]
    BY <2>1, LinkAssumption
  <2>3. enter \subseteq Dir /\ read \subseteq Dir
    BY <2>1, <2>2
  <2>4. parent \in [Dir -> Dir] /\ parent[Root] = Root
    BY LinkAssumption DEF Init, TreeInit
  <2> QED
    BY <2>3, <2>4 DEF Init, TreeInit, TreeInv
<1>2. <<>> \in Typed /\ Home \in Dir /\ MaxOpen \in Nat
  BY LinkAssumption DEF Typed
<1>3. link \in [Links -> {<<>>} \union (Dir \X Nat)]
  BY DEF Init
<1>4. stack \in Seq(Activation) /\ Len(stack) <= MaxOpen
  BY <1>2 DEF Init
<1> QED
  BY <1>1, <1>2, <1>3, <1>4 DEF Init, LinkTypes

(* What opendir() makes of a path.                                         *)
LEMMA ResolveType ==
  ASSUME LinkTypes
  PROVE  /\ Resolve(call) \in Dir \union {None}
         /\ Resolve(call) # None => call \in Typed \ {<<>>}
<1>1. CASE call = <<>>
  BY <1>1 DEF Resolve
<1>2. CASE call # <<>>
  <2>1. Resolve(call) = Follow(cwd, call)
    BY <1>2 DEF Resolve
  <2> QED
    BY <1>2, <2>1, FollowType DEF LinkTypes
<1> QED
  BY <1>1, <1>2

LEMMA SeenIs ==
  ASSUME LinkTypes, stack # <<>>, NEW entry \in Frame.rest,
         NEW st \in {"any", "directory", "file"}
  PROVE  LET n == Len(stack)
             t == Seen(entry, st)
         IN  /\ Frame = stack[n] /\ Frame \in Activation /\ n \in DOMAIN stack
             /\ t \in Seq(Activation) /\ Len(t) = n /\ DOMAIN t = DOMAIN stack /\ t # <<>>
             /\ \A k \in 1 .. n - 1 : t[k] = stack[k]
             /\ t[n].dir = Frame.dir /\ t[n].path = Frame.path
             /\ t[n].rest = Frame.rest \ {entry}
<1> DEFINE n == Len(stack)
           r == [Frame EXCEPT !.rest = @ \ {entry}, !.statbuf = st]
<1>1. stack \in Seq(Activation)
  BY DEF LinkTypes
<1>2. /\ Front(stack) \in Seq(Activation) /\ Len(Front(stack)) = n - 1 /\ n \in Nat \ {0}
      /\ \A k \in 1 .. n - 1 : Front(stack)[k] = stack[k]
      /\ Frame = stack[n] /\ Frame \in Activation
  BY <1>1, FrontIs DEF Frame
<1>3. /\ r \in Activation /\ r.dir = Frame.dir /\ r.path = Frame.path
      /\ r.rest = Frame.rest \ {entry}
  BY <1>2 DEF Activation
<1>4. Seen(entry, st) = Front(stack) \o <<r>>
  BY DEF Seen
<1> HIDE DEF r, n
<1>5. /\ Seen(entry, st) \in Seq(Activation) /\ Len(Seen(entry, st)) = n
      /\ Seen(entry, st)[n] = r
      /\ \A k \in 1 .. n - 1 : Seen(entry, st)[k] = Front(stack)[k]
  BY <1>2, <1>3, <1>4
<1> QED
  BY <1>1, <1>2, <1>3, <1>5 DEF n

LEMMA NextTypes == LinkTypes /\ [Next]_vars => LinkTypes'
<1> SUFFICES ASSUME LinkTypes, [Next]_vars
             PROVE  LinkTypes'
  OBVIOUS
<1> USE DEF LinkTypes
<1>1. CASE get_filepath_from_user
  BY <1>1, TreeSame DEF get_filepath_from_user
<1>2. CASE Open
  <2>1. TreeInv'
    BY <1>2, TreeSame DEF Open
  <2>2. <<>> \in Typed
    BY DEF Typed
  <2> DEFINE d == Resolve(call)
             r == [dir |-> d, path |-> call, rest |-> Entries(d), statbuf |-> "any"]
  <2>3. CASE d = None \/ d \notin read \/ Len(stack) >= MaxOpen
    BY <1>2, <2>1, <2>2, <2>3 DEF Open
  <2>4. CASE ~(d = None \/ d \notin read \/ Len(stack) >= MaxOpen)
    <3>1. d \in Dir /\ call \in Typed \ {<<>>}
      BY <2>4, ResolveType
    <3>2. r \in Activation
      BY <3>1, EntriesType DEF Activation
    <3>3. stack' = Append(stack, r) /\ cwd' \in {cwd, d}
      BY <1>2, <2>4 DEF Open
    <3> HIDE DEF r
    <3>4. stack' \in Seq(Activation) /\ Len(stack') <= MaxOpen
      BY <2>4, <3>2, <3>3, LinkAssumption
    <3> QED
      BY <1>2, <2>1, <2>2, <3>1, <3>3, <3>4 DEF Open
  <2> QED
    BY <2>3, <2>4
<1>3. CASE ReadEntry
  <2>1. TreeInv'
    BY <1>3, TreeSame DEF ReadEntry
  <2>2. stack # <<>> /\ Frame \in Activation
    BY <1>3, FrontIs DEF ReadEntry, Frame
  <2>3. PICK entry \in Frame.rest :
          \E st \in lstat(entry) :
            /\ stack' = Seen(entry, st)
            /\ IF st = "directory" /\ entry \notin {".", ".."}
               THEN call' = <<entry>> /\ pc' = "call"
               ELSE UNCHANGED <<call, pc>>
    BY <1>3 DEF ReadEntry
  <2>3a. PICK st \in lstat(entry) :
          /\ stack' = Seen(entry, st)
          /\ IF st = "directory" /\ entry \notin {".", ".."}
             THEN call' = <<entry>> /\ pc' = "call"
             ELSE UNCHANGED <<call, pc>>
    BY <2>3
  <2>4. st \in {"any", "directory", "file"}
    BY <2>2, <2>3a DEF lstat, Activation
  <2>5. stack' \in Seq(Activation) /\ Len(stack') <= MaxOpen
    BY <2>2, <2>3a, <2>4, SeenIs
  <2>6. entry \in Name \union {".", "..", hello}
    BY <2>2 DEF Activation
  <2>7. call' \in Typed \union {<<hello>>} /\ pc' \in {"call", pc}
    BY <2>3a, <2>6 DEF Typed
  <2> QED
    BY <1>3, <2>1, <2>5, <2>7 DEF ReadEntry
<1>4. CASE Match
  <2>1. TreeInv'
    BY <1>4, TreeSame DEF Match
  <2>2. stack # <<>> /\ Frame \in Activation
    BY <1>4, FrontIs DEF Match, Frame
  <2>3. stack' \in Seq(Activation) /\ Len(stack') <= MaxOpen
    <3>1. stack' = Front(stack) /\ Len(stack) - 1 <= MaxOpen
      BY <1>4, <2>2, FrontIs, LinkAssumption DEF Match
    <3> QED
      BY <2>2, <3>1, FrontIs
  <2>4. ret_dir' \in {Append(p, hello) : p \in Typed \ {<<>>}} /\ matched' \in Dir
    BY <1>4, <2>2 DEF Match, Activation
  <2>5. cwd' \in Dir
    BY <1>4 DEF Match, Up, TreeInv
  <2> QED
    BY <1>4, <2>1, <2>3, <2>4, <2>5 DEF Match
<1>5. CASE Leave
  <2>1. TreeInv'
    BY <1>5, TreeSame DEF Leave
  <2>2. stack' \in Seq(Activation) /\ Len(stack') <= MaxOpen
    <3>1. stack' = Front(stack) /\ stack # <<>> /\ stack \in Seq(Activation)
      BY <1>5 DEF Leave
    <3>2. Len(stack) - 1 <= MaxOpen /\ Len(stack) \in Nat
      BY <3>1, LinkAssumption
    <3> QED
      BY <3>1, <3>2, FrontIs
  <2>3. cwd' \in Dir
    BY <1>5 DEF Leave, Up, TreeInv
  <2> QED
    BY <1>5, <2>1, <2>2, <2>3 DEF Leave
<1>6. CASE Return
  BY <1>6, TreeSame DEF Return, Links
<1>7. ASSUME NEW l \in Links, link_to(l), pc' \in {"soft_link.txt", "exit"}
      PROVE  LinkTypes'
  <2>1. TreeInv'
    BY <1>7, TreeSame DEF link_to
  <2>2. FileAt(ret_dir) \in {<<>>} \union (Dir \X Nat)
    <3>1. CASE FileAt(ret_dir) = <<>>
      BY <3>1
    <3>2. CASE FileAt(ret_dir) # <<>>
      <4> DEFINE d == Follow(cwd, Front(ret_dir))
      <4>1. FileAt(ret_dir) = <<d, version[d]>> /\ d \in enter
        BY <3>2 DEF FileAt
      <4> QED
        BY <4>1 DEF TreeInv
    <3> QED
      BY <3>1, <3>2
  <2>3. link' \in [Links -> {<<>>} \union (Dir \X Nat)]
    BY <1>7, <2>2 DEF link_to
  <2> QED
    BY <1>7, <2>1, <2>3 DEF link_to, Links
<1>8. CASE Replace
  <2>1. /\ version' \in [Dir -> Nat]
        /\ \A d \in Dir : version[d] = 0 => version'[d] = 0
    BY <1>8 DEF Replace, TreeInv
  <2>2. TreeInv'
    BY <1>8, <2>1, TreeKept DEF Replace
  <2> QED
    BY <1>8, <2>2 DEF Replace
<1>9. CASE UNCHANGED vars
  BY <1>9, TreeSame DEF vars
<1> QED
  BY <1>1, <1>2, <1>3, <1>4, <1>5, <1>6, <1>7, <1>8, <1>9 DEF Next,
    search_file_in_directory, create_hard_link_file, create_soft_link_file, Done, Links

(* Every variable keeps its type: what is read is known, no more is open   *)
(* than can be, and every path is one typed or one entry of a directory.   *)
THEOREM LinkTypesCorrect == Spec => []TypeOK
<1>1. LinkTypes => TypeOK
  <2> SUFFICES ASSUME LinkTypes
               PROVE  TypeOK
    OBVIOUS
  <2>1. \A k \in DOMAIN stack : stack[k] \in Activation
    BY DEF LinkTypes
  <2>2. \A l \in Links : link[l] = <<>> \/ link[l][1] \in Dir
    BY DEF LinkTypes
  <2> QED
    BY <2>1, <2>2 DEF LinkTypes, TypeOK, Activation
<1> QED
  BY <1>1, InitTypes, NextTypes, PTL DEF Spec

-----------------------------------------------------------------------------
(* What the steps do, where every directory that can be listed can be      *)
(* entered.                                                                *)
LEMMA OpenResolves ==
  ASSUME LinkTypes, read \subseteq enter, CwdInv, StackInv, pc = "call"
  PROVE  /\ stack = <<>> => call = dir /\ cwd = Home /\ Resolve(call) = Named
         /\ stack # <<>> => \A c \in Children(Frame.dir) :
                              call = <<called[c]>> => Resolve(call) = c
<1>1. CASE stack = <<>>
  <2>1. call = dir /\ cwd = Home
    BY <1>1 DEF CwdInv
  <2> QED
    BY <1>1, <2>1 DEF Resolve, Named
<1>2. ASSUME stack # <<>>, NEW c \in Children(Frame.dir), call = <<called[c]>>
      PROVE  Resolve(call) = c
  <2>1. cwd = Frame.dir /\ cwd \in enter /\ TreeInv
    <3>1. Frame.dir \in read
      BY <1>2, StackIs DEF StackInv
    <3> QED
      BY <1>2, <3>1 DEF CwdInv, LinkTypes
  <2>2. Walk(cwd, called[c]) = c
    BY <2>1, WalkToChild
  <2>3. Resolve(call) = Follow(cwd, <<called[c]>>)
    BY <1>2 DEF Resolve
  <2> QED
    BY <2>2, <2>3, FollowIs
<1> QED
  BY <1>1, <1>2

(* A directory just opened that a file is in or below: all that is needed  *)
(* to come to the file is among its entries.                               *)
LEMMA EntriesLeadOn ==
  ASSUME TreeInv, NEW d \in Dir, version[d] # 0, NEW x \in Ancestors(d)
  PROVE  \/ x = d /\ hello \in Entries(x)
         \/ \E c \in Children(x) : c \in Ancestors(d) /\ called[c] \in Entries(x)
<1>1. CASE x = d
  BY <1>1 DEF Entries
<1>2. CASE x # d
  <2>1. PICK c \in Children(x) : c \in Ancestors(d)
    BY <1>2, NextDown
  <2> QED
    BY <2>1 DEF Entries
<1> QED
  BY <1>1, <1>2

(* The activations and the directory about to be searched are all between  *)
(* the directory named and the file.                                       *)
LEMMA StackFits ==
  ASSUME LinkTypes, StackInv, stack # <<>>, NEW d \in Dir, Named \in Ancestors(d),
         NEW c \in Children(Frame.dir), c \in Ancestors(d)
  PROVE  c \in Within(d) /\ Len(stack) + 1 <= Cardinality(Within(d))
<1> DEFINE n == Len(stack)
<1>1. /\ n \in Nat \ {0} /\ DOMAIN stack = 1 .. n /\ Frame = stack[n]
      /\ \A k \in 1 .. n : stack[k].dir \in Dir
  BY StackIs
<1> HIDE DEF n
<1> DEFINE f == [k \in 1 .. n + 1 |-> IF k <= n THEN stack[k].dir ELSE c]
           W == Within(d)
<1>2. TreeInv /\ Frame.dir \in Dir
  BY StackIs
<1>3. /\ c \in Dir /\ parent[c] = Frame.dir
      /\ Ancestors(Frame.dir) \subseteq Ancestors(c)
      /\ Depth(parent, Frame.dir) < Depth(parent, c)
  BY <1>2, ChildBelow
<1>4. Ancestors(c) \subseteq Ancestors(d)
  BY <1>2, AncestorsOfAncestor
<1>5. ASSUME NEW k \in 1 .. n
      PROVE  /\ stack[k].dir \in Ancestors(d)
             /\ Depth(parent, stack[k].dir) < Depth(parent, c)
  <2>1. CASE k = n
    BY <1>1, <1>2, <1>3, <1>4, <2>1, AncestorsAreDirs
  <2>2. CASE k < n
    <3>1. /\ stack[k].dir \in Ancestors(Frame.dir)
          /\ Depth(parent, stack[k].dir) < Depth(parent, Frame.dir)
      BY <1>1, <2>2 DEF StackInv
    <3>2. /\ Depth(parent, stack[k].dir) \in Nat /\ Depth(parent, Frame.dir) \in Nat
          /\ Depth(parent, c) \in Nat
      BY <1>1, <1>2, <1>3, DepthIsWay
    <3> QED
      BY <1>3, <1>4, <3>1, <3>2
  <2> QED
    BY <1>1, <2>1, <2>2
<1>6. stack[1].dir = Named /\ 1 \in 1 .. n /\ Named \in Dir
  BY <1>1 DEF StackInv
<1>7. \A k \in 1 .. n + 1 : f[k] \in Dir /\ f[k] \in Ancestors(d)
  BY <1>1, <1>3, <1>5
<1>8. \A j, k \in 1 .. n + 1 : j < k => Depth(parent, f[j]) < Depth(parent, f[k])
  <2> SUFFICES ASSUME NEW j \in 1 .. n + 1, NEW k \in 1 .. n + 1, j < k
               PROVE  Depth(parent, f[j]) < Depth(parent, f[k])
    OBVIOUS
  <2>1. j \in 1 .. n /\ f[j] = stack[j].dir
    BY <1>1
  <2>2. CASE k <= n
    BY <1>1, <2>1, <2>2 DEF StackInv
  <2>3. CASE k = n + 1
    BY <1>1, <1>5, <2>1, <2>3
  <2> QED
    BY <1>1, <2>2, <2>3
<1>9. f[1] = Named
  BY <1>1, <1>6
<1> HIDE DEF f
<1>10. ASSUME NEW k \in 1 .. n + 1
       PROVE  f[k] \in W
  <2>1. CASE k = 1
    BY <1>7, <1>9, <2>1 DEF Within
  <2>2. CASE k # 1
    <3>1. Depth(parent, Named) < Depth(parent, f[k])
      BY <1>1, <1>8, <1>9, <2>2
    <3>2. Depth(parent, Named) \in Nat /\ Depth(parent, f[k]) \in Nat
      BY <1>2, <1>6, <1>7, DepthIsWay
    <3>3. f[k] \notin Ancestors(Named)
      BY <1>2, <1>6, <3>1, <3>2, AncestorIsNoDeeper
    <3> QED
      BY <1>7, <3>3 DEF Within
  <2> QED
    BY <2>1, <2>2
<1>11. ASSUME NEW j \in 1 .. n + 1, NEW k \in 1 .. n + 1, f[j] = f[k]
       PROVE  j = k
  <2>1. Depth(parent, f[j]) \in Nat
    BY <1>2, <1>7, DepthIsWay
  <2>2. ~(j < k) /\ ~(k < j)
    BY <1>8, <1>11, <2>1
  <2> QED
    BY <1>1, <2>2
<1>12. f \in Injection(1 .. n + 1, W)
  <2>1. f \in [1 .. n + 1 -> W]
    BY <1>10 DEF f
  <2> HIDE DEF W
  <2> QED
    BY <1>11, <2>1 DEF Injection, IsInjective
<1>13. IsFiniteSet(W)
  BY <1>2, AncestorsAreDirs, FS_Subset DEF Within
<1>14. Cardinality(1 .. n + 1) <= Cardinality(W)
  <2> HIDE DEF W
  <2> QED
    BY <1>12, <1>13, FS_Injection
<1>15. Cardinality(1 .. n + 1) = n + 1
  <2>1. n + 1 \in Int /\ 1 \in Int /\ ~(1 > n + 1)
    BY <1>1
  <2> DEFINE b == n + 1
  <2> HIDE DEF b
  <2>2. Cardinality(1 .. b) = IF 1 > b THEN 0 ELSE b - 1 + 1
    BY <2>1, FS_Interval DEF b
  <2> QED
    BY <1>1, <2>1, <2>2 DEF b
<1>16. c \in W
  <2>1. n + 1 \in 1 .. n + 1 /\ ~(n + 1 <= n)
    BY <1>1
  <2>2. f[n + 1] = c
    BY <2>1 DEF f
  <2> QED
    BY <1>10, <2>1, <2>2
<1> QED
  BY <1>14, <1>15, <1>16 DEF n

(* A directory pushed keeps the order of the activations.                  *)
LEMMA PushKeepsStack ==
  ASSUME LinkTypes, StackInv, NEW x \in read,
         UNCHANGED <<treeVars, version, dir>>, Opens,
         stack = <<>> => x = Named /\ call = dir,
         stack # <<>> => x \in Children(Frame.dir),
         stack' = Append(stack, [dir |-> x, path |-> call,
                                 rest |-> Entries(x), statbuf |-> "any"])
  PROVE  StackInv'
<1> DEFINE n == Len(stack)
           r == [dir |-> x, path |-> call, rest |-> Entries(x), statbuf |-> "any"]
<1>0. x \in Dir
  BY DEF LinkTypes, TreeInv
<1>1. /\ stack \in Seq(Activation) /\ n \in Nat /\ DOMAIN stack = 1 .. n /\ TreeInv
      /\ \A k \in 1 .. n : stack[k].dir \in Dir
      /\ stack # <<>> => n # 0 /\ Frame = stack[n]
      /\ stack = <<>> => n = 0
  BY StackIs
<1>2. /\ DOMAIN stack' = 1 .. n + 1 /\ stack' # <<>> /\ stack'[n + 1] = r
      /\ \A k \in 1 .. n : stack'[k] = stack[k]
  BY <1>1
<1>3. r.dir = x /\ r.path = call /\ r.rest = Entries(x)
  OBVIOUS
<1> HIDE DEF r, n
<1>4. /\ \A d : Ancestors(d)' = Ancestors(d) /\ Children(d)' = Children(d)
      /\ Named' = Named /\ Opens' = Opens /\ dir' = dir /\ parent' = parent
      /\ read' = read
  BY SameTree DEF Opens, treeVars
<1>5. \A d : Entries(d)' = Entries(d)
  BY <1>4 DEF Entries, treeVars
<1>6. (stack'[1].dir = Named /\ stack'[1].path = dir)
  BY <1>1, <1>2, <1>3 DEF StackInv
<1>7. \A k \in DOMAIN stack' : /\ stack'[k].dir \in read
                               /\ stack'[k].rest \subseteq Entries(stack'[k].dir)
  BY <1>1, <1>2, <1>3 DEF StackInv
<1>8. \A k \in DOMAIN stack' : k + 1 \in DOMAIN stack' =>
        stack'[k + 1].dir \in Children(stack'[k].dir)
  <2> SUFFICES ASSUME NEW k \in 1 .. n + 1, k + 1 \in 1 .. n + 1
               PROVE  stack'[k + 1].dir \in Children(stack'[k].dir)
    BY <1>2
  <2>1. CASE k = n
    <3>1. n # 0 /\ stack # <<>>
      BY <1>1, <2>1
    <3> QED
      BY <1>1, <1>2, <1>3, <2>1, <3>1
  <2>2. CASE k < n
    <3>1. k \in 1 .. n /\ k + 1 \in 1 .. n
      BY <1>1, <2>2
    <3> QED
      BY <1>1, <1>2, <3>1 DEF StackInv
  <2> QED
    BY <1>1, <2>1, <2>2
<1>9. ASSUME NEW j \in 1 .. n + 1, NEW k \in 1 .. n + 1, j < k
      PROVE  /\ stack'[j].dir \in Ancestors(stack'[k].dir)
             /\ Depth(parent, stack'[j].dir) < Depth(parent, stack'[k].dir)
  <2>1. CASE k <= n
    <3>1. j \in 1 .. n /\ k \in 1 .. n
      BY <1>1, <1>9, <2>1
    <3>2. /\ stack[j].dir \in Ancestors(stack[k].dir)
          /\ Depth(parent, stack[j].dir) < Depth(parent, stack[k].dir)
      BY <1>1, <1>9, <3>1 DEF StackInv
    <3> QED
      BY <1>2, <3>1, <3>2
  <2>2. CASE k = n + 1
    <3>1. n # 0 /\ stack # <<>> /\ j \in 1 .. n /\ n \in 1 .. n
      BY <1>1, <1>9, <2>2
    <3>2. /\ Frame = stack[n] /\ Frame.dir \in Dir /\ x \in Children(Frame.dir)
          /\ Ancestors(Frame.dir) \subseteq Ancestors(x)
          /\ Depth(parent, Frame.dir) < Depth(parent, x)
      BY <1>0, <1>1, <3>1, ChildBelow
    <3>3. /\ stack[j].dir \in Ancestors(Frame.dir)
          /\ Depth(parent, stack[j].dir) <= Depth(parent, Frame.dir)
      <4>1. CASE j = n
        BY <1>1, <3>1, <3>2, <4>1, AncestorsAreDirs, DepthIsWay
      <4>2. CASE j < n
        <5>1. /\ stack[j].dir \in Ancestors(stack[n].dir)
              /\ Depth(parent, stack[j].dir) < Depth(parent, stack[n].dir)
          BY <1>1, <3>1, <4>2 DEF StackInv
        <5>2. Depth(parent, stack[j].dir) \in Nat /\ Depth(parent, stack[n].dir) \in Nat
          BY <1>1, <3>1, DepthIsWay
        <5> QED
          BY <3>2, <5>1, <5>2
      <4> QED
        BY <1>1, <3>1, <4>1, <4>2
    <3>4. /\ Depth(parent, stack[j].dir) \in Nat /\ Depth(parent, Frame.dir) \in Nat
          /\ Depth(parent, x) \in Nat
      BY <1>0, <1>1, <3>1, <3>2, DepthIsWay
    <3> QED
      BY <1>2, <1>3, <2>2, <3>1, <3>2, <3>3, <3>4
  <2> QED
    BY <1>1, <2>1, <2>2
<1> QED
  BY <1>2, <1>4, <1>5, <1>6, <1>7, <1>8, <1>9 DEF StackInv

(* The two facts that only speak of what does not change in a search.      *)
LEMMA SameWishes ==
  ASSUME UNCHANGED <<treeVars, version, dir>>
  PROVE  /\ \A d : Wanted(d)' <=> Wanted(d)
         /\ Named' = Named /\ (Opens' <=> Opens)
         /\ \A d : Ancestors(d)' = Ancestors(d) /\ Children(d)' = Children(d)
         /\ \A d : Entries(d)' = Entries(d) /\ Up(d)' = Up(d)
<1>1. /\ \A d : Ancestors(d)' = Ancestors(d) /\ Children(d)' = Children(d)
      /\ Named' = Named /\ \A d : Up(d)' = Up(d)
  BY SameTree
<1>2. \A d : Within(d)' = Within(d)
  BY <1>1 DEF Within
<1>3. \A d : Wanted(d)' <=> Wanted(d)
  BY <1>1, <1>2 DEF Wanted, treeVars
<1> QED
  BY <1>1, <1>3 DEF Opens, Entries, treeVars

LEMMA InputStands ==
  ASSUME LinkTypes, read \subseteq enter, Standing, get_filepath_from_user
  PROVE  Standing'
<1>1. /\ pc = "input" /\ stack = <<>> /\ cwd = Home /\ matched = None
      /\ ret_dir = <<>> /\ \A l \in Links : link[l] = <<>>
  BY DEF get_filepath_from_user, Standing, CwdInv, FoundInv, Searched
<1>2. /\ pc' = "call" /\ call' = dir' /\ stack' = <<>> /\ cwd' = Home /\ matched' = None
      /\ ret_dir' = <<>> /\ \A l \in Links : link'[l] = <<>>
  BY <1>1 DEF get_filepath_from_user
<1>3. CwdInv'
  BY <1>2 DEF CwdInv, Returned, Searched
<1>4. StackInv'
  BY <1>2 DEF StackInv
<1>5. FoundInv'
  BY <1>2 DEF FoundInv, Searched
<1>6. SearchInv'
  BY <1>2 DEF SearchInv, StillToCome, Searched
<1> QED
  BY <1>3, <1>4, <1>5, <1>6 DEF Standing

(* opendir() fails: for a directory that is not there or cannot be listed, *)
(* or for want of a descriptor.                                            *)
LEMMA FailedOpenStands ==
  ASSUME LinkTypes, read \subseteq enter, Standing, Open,
         Resolve(call) \notin read \/ Len(stack) >= MaxOpen
  PROVE  Standing'
<1>1. /\ pc = "call" /\ pc' = "read"
      /\ UNCHANGED <<stack, cwd, ret_dir, matched, link, treeVars, version, dir>>
  BY LinkAssumption DEF Open, LinkTypes, TreeInv
<1>2. /\ Named' = Named /\ (Opens' <=> Opens) /\ \A d : Wanted(d)' <=> Wanted(d)
      /\ \A d : Ancestors(d)' = Ancestors(d) /\ Children(d)' = Children(d)
      /\ \A d : Entries(d)' = Entries(d) /\ Up(d)' = Up(d)
      /\ parent' = parent /\ called' = called /\ read' = read
  BY <1>1, SameWishes DEF treeVars
<1>3. Len(stack) \in Nat /\ (stack = <<>> <=> Len(stack) = 0) /\ MaxOpen \in Nat
  BY StackIs, LinkAssumption
<1>4. CASE stack = <<>>
  <2>1. ~Opens /\ cwd = Home /\ matched = None
    BY <1>1, <1>3, <1>4, OpenResolves DEF Opens, Standing, CwdInv
  <2>2. CwdInv'
    BY <1>1, <1>2, <1>4, <2>1 DEF CwdInv, Returned, Searched
  <2>3. StackInv'
    BY <1>1, <1>4 DEF StackInv
  <2>4. FoundInv'
    BY <1>1, <1>2, <2>1 DEF Standing, FoundInv, Searched
  <2>5. SearchInv'
    <3> SUFFICES ASSUME Named # None, NEW d \in Dir, Wanted(d)
                 PROVE  FALSE
      BY <1>2 DEF SearchInv
    <3>1. Named \in Dir /\ TreeInv
      BY AncestorsAreDirs, StackIs DEF Wanted
    <3>2. Named \in Within(d) /\ IsFiniteSet(Within(d))
      BY <3>1, AncestorsAreDirs, FS_Subset DEF Within, Wanted
    <3>2a. MaxOpen = 0
      BY <2>1, <3>2 DEF Opens, Wanted
    <3>3. Cardinality(Within(d)) \in Nat /\ Cardinality(Within(d)) # 0
      BY <3>2, FS_CardinalityType, FS_EmptySet
    <3> QED
      BY <3>2a, <3>3 DEF Wanted
  <2> QED
    BY <2>2, <2>3, <2>4, <2>5 DEF Standing
<1>5. CASE stack # <<>>
  <2>1. PICK c \in Children(Frame.dir) : call = <<called[c]>>
    BY <1>1, <1>5 DEF Standing, CwdInv
  <2>2. ASSUME NEW x \in Children(Frame.dir), call = <<called[x]>>, x \in read
        PROVE  Len(stack) >= MaxOpen
    BY <1>1, <1>5, <2>2, OpenResolves DEF Standing
  <2>3. CwdInv'
    BY <1>1, <1>2, <1>5 DEF Standing, CwdInv, Frame, Returned, Searched
  <2>4. StackInv'
    BY <1>1, <1>2 DEF Standing, StackInv
  <2>5. FoundInv'
    BY <1>1, <1>2 DEF Standing, FoundInv, Searched
  <2>6. SearchInv'
    <3> SUFFICES ASSUME ret_dir = <<>>, Named # None, NEW d \in Dir, Wanted(d)
                 PROVE  ~Searched' /\ StillToCome(d)'
      BY <1>1, <1>2 DEF SearchInv
    <3>1. StillToCome(d)
      BY DEF Standing, SearchInv
    <3>2. ASSUME NEW x \in Children(Frame.dir), x \in Ancestors(d), call = <<called[x]>>
          PROVE  FALSE
      <4>1. x \in Within(d) /\ Len(stack) + 1 <= Cardinality(Within(d))
        BY <1>5, <3>2, StackFits DEF Standing, Wanted
      <4>1a. Len(stack) >= MaxOpen
        BY <2>2, <3>2, <4>1 DEF Wanted
      <4>2. Cardinality(Within(d)) <= MaxOpen /\ IsFiniteSet(Within(d))
        BY StackIs, AncestorsAreDirs, FS_Subset DEF Within, Wanted
      <4>3. Cardinality(Within(d)) \in Nat
        BY <4>2, FS_CardinalityType
      <4> QED
        BY <1>3, <4>1, <4>1a, <4>2, <4>3
    <3>3. \/ \E k \in DOMAIN stack : stack[k].dir = d /\ hello \in stack[k].rest
          \/ \E k \in DOMAIN stack : \E x \in Children(stack[k].dir) :
               x \in Ancestors(d) /\ called[x] \in stack[k].rest
      BY <1>5, <3>1, <3>2 DEF StillToCome
    <3> QED
      BY <1>1, <1>2, <3>3 DEF StillToCome, Searched
  <2> QED
    BY <2>3, <2>4, <2>5, <2>6 DEF Standing
<1> QED
  BY <1>4, <1>5

LEMMA OpenStands ==
  ASSUME LinkTypes, read \subseteq enter, Standing, Open,
         Resolve(call) \in read, Len(stack) < MaxOpen
  PROVE  Standing'
<1> DEFINE x == Resolve(call)
           n == Len(stack)
           r == [dir |-> x, path |-> call, rest |-> Entries(x), statbuf |-> "any"]
<1>1. /\ pc = "call" /\ pc' = "read"
      /\ UNCHANGED <<ret_dir, matched, link, treeVars, version, dir>>
  BY DEF Open
<1>2. x \in Dir /\ x # None /\ TreeInv /\ n \in Nat /\ MaxOpen \in Nat
  BY StackIs, LinkAssumption DEF LinkTypes, TreeInv
<1>3. stack' = Append(stack, r) /\ cwd' = x
  BY <1>2 DEF Open
<1>4. /\ Named' = Named /\ (Opens' <=> Opens) /\ \A d : Wanted(d)' <=> Wanted(d)
      /\ \A d : Ancestors(d)' = Ancestors(d) /\ Children(d)' = Children(d)
      /\ \A d : Entries(d)' = Entries(d) /\ Up(d)' = Up(d)
      /\ parent' = parent /\ called' = called /\ read' = read
  BY <1>1, SameWishes DEF treeVars
<1>5. /\ stack = <<>> => x = Named /\ call = dir
      /\ stack # <<>> => x \in Children(Frame.dir)
  BY <1>1, OpenResolves DEF Standing, CwdInv
<1>6. Opens
  BY <1>2, <1>5 DEF Opens, Standing, StackInv
<1>7. StackInv'
  BY <1>1, <1>2, <1>3, <1>5, <1>6, PushKeepsStack DEF Standing
<1>8. /\ DOMAIN stack' = 1 .. n + 1 /\ Len(stack') = n + 1
      /\ stack' # <<>> /\ stack'[n + 1] = r /\ n + 1 \in 1 .. n + 1
      /\ \A k \in 1 .. n : stack'[k] = stack[k] /\ k \in 1 .. n + 1
      /\ DOMAIN stack = 1 .. n
  <2>1. stack \in Seq(Activation)
    BY StackIs
  <2> QED
    BY <1>2, <1>3, <2>1
<1>9. r.dir = x /\ r.rest = Entries(x)
  OBVIOUS
<1> HIDE DEF r, n, x
<1>10. Frame' = r
  BY <1>8 DEF Frame, Last
<1>11. CwdInv'
  BY <1>1, <1>3, <1>8, <1>9, <1>10 DEF CwdInv, Returned, Searched
<1>12. FoundInv'
  BY <1>1, <1>4 DEF Standing, FoundInv, Searched
<1>13. SearchInv'
  <2> SUFFICES ASSUME ret_dir = <<>>, Named # None, NEW d \in Dir, Wanted(d)
               PROVE  StillToCome(d)'
    BY <1>1, <1>4 DEF SearchInv, Searched
  <2>1. StillToCome(d)
    BY DEF Standing, SearchInv
  <2>2. ASSUME x \in Ancestors(d)
        PROVE  StillToCome(d)'
    <3>1. \/ x = d /\ hello \in Entries(x)
          \/ \E c \in Children(x) : c \in Ancestors(d) /\ called[c] \in Entries(x)
      BY <1>2, <2>2, EntriesLeadOn DEF Wanted
    <3> QED
      BY <1>4, <1>8, <1>9, <3>1 DEF StillToCome
  <2>3. CASE stack = <<>>
    BY <1>5, <2>2, <2>3 DEF Wanted
  <2>4. ASSUME stack # <<>>, NEW c \in Children(Frame.dir), c \in Ancestors(d),
               call = <<called[c]>>
        PROVE  StillToCome(d)'
    <3>1. x = c
      BY <1>1, <2>4, OpenResolves DEF Standing, x
    <3> QED
      BY <2>2, <2>4, <3>1
  <2>5. CASE \E k \in DOMAIN stack : stack[k].dir = d /\ hello \in stack[k].rest
    BY <1>8, <2>5 DEF StillToCome
  <2>6. CASE \E k \in DOMAIN stack : \E c \in Children(stack[k].dir) :
               c \in Ancestors(d) /\ called[c] \in stack[k].rest
    BY <1>4, <1>8, <2>6 DEF StillToCome
  <2> QED
    BY <2>1, <2>3, <2>4, <2>5, <2>6 DEF StillToCome
<1> QED
  BY <1>7, <1>11, <1>12, <1>13 DEF Standing

LEMMA ReadStands ==
  ASSUME LinkTypes, read \subseteq enter, Standing, ReadEntry
  PROVE  Standing'
<1> DEFINE n == Len(stack)
<1>1. /\ pc = "read" /\ stack # <<>>
      /\ UNCHANGED <<treeVars, version, dir, cwd, ret_dir, matched, link>>
  BY DEF ReadEntry
<1>2. PICK entry \in Frame.rest :
        \E st \in lstat(entry) :
          /\ st = "file" => entry # hello
          /\ stack' = Seen(entry, st)
          /\ IF st = "directory" /\ entry \notin {".", ".."}
             THEN call' = <<entry>> /\ pc' = "call"
             ELSE UNCHANGED <<call, pc>>
  BY DEF ReadEntry
<1>3. PICK st \in lstat(entry) :
        /\ st = "file" => entry # hello
        /\ stack' = Seen(entry, st)
        /\ IF st = "directory" /\ entry \notin {".", ".."}
           THEN call' = <<entry>> /\ pc' = "call"
           ELSE UNCHANGED <<call, pc>>
  BY <1>2
<1>4. /\ Named' = Named /\ (Opens' <=> Opens) /\ \A d : Wanted(d)' <=> Wanted(d)
      /\ \A d : Ancestors(d)' = Ancestors(d) /\ Children(d)' = Children(d)
      /\ \A d : Entries(d)' = Entries(d) /\ Up(d)' = Up(d)
      /\ parent' = parent /\ called' = called /\ read' = read
  BY <1>1, SameWishes DEF treeVars
<1>5. /\ TreeInv /\ n \in Nat \ {0} /\ DOMAIN stack = 1 .. n
      /\ Frame = stack[n] /\ Frame \in Activation /\ Frame.dir \in Dir
  BY <1>1, StackIs
<1>6. st \in {"any", "directory", "file"}
  BY <1>3, <1>5 DEF lstat, Activation
<1>7. /\ Len(stack') = n /\ DOMAIN stack' = 1 .. n /\ stack' # <<>>
      /\ \A k \in 1 .. n - 1 : stack'[k] = stack[k]
      /\ stack'[n].dir = Frame.dir /\ stack'[n].path = Frame.path
      /\ stack'[n].rest = Frame.rest \ {entry}
  BY <1>1, <1>3, <1>5, <1>6, SeenIs
<1> HIDE DEF n
<1>8. /\ \A k \in 1 .. n : stack'[k].dir = stack[k].dir /\ stack'[k].path = stack[k].path
      /\ \A k \in 1 .. n : \A e \in stack[k].rest :
           e \in stack'[k].rest \/ (k = n /\ e = entry)
      /\ \A k \in 1 .. n : stack'[k].rest \subseteq stack[k].rest
  <2> SUFFICES ASSUME NEW k \in 1 .. n
               PROVE  /\ stack'[k].dir = stack[k].dir /\ stack'[k].path = stack[k].path
                      /\ \A e \in stack[k].rest : e \in stack'[k].rest \/ (k = n /\ e = entry)
                      /\ stack'[k].rest \subseteq stack[k].rest
    OBVIOUS
  <2>1. CASE k = n
    BY <1>5, <1>7, <2>1
  <2>2. CASE k \in 1 .. n - 1
    BY <1>7, <2>2
  <2> QED
    BY <1>5, <2>1, <2>2
<1>9. Frame'.dir = Frame.dir /\ cwd = Frame.dir
  BY <1>1, <1>7 DEF Frame, Last, Standing, CwdInv
<1>9a. cwd \in enter
  BY <1>5, <1>9 DEF Standing, StackInv
<1>10. entry \in Entries(Frame.dir)
  BY <1>5 DEF Standing, StackInv
<1>11. /\ entry = hello /\ version[cwd] # 0 => lstat(entry) = {"file"}
       /\ \A c \in Children(cwd) : entry = called[c] =>
            lstat(entry) = {"directory"} /\ entry \notin {".", ".."}
  <2>1. ASSUME NEW c \in Children(cwd), entry = called[c]
        PROVE  lstat(entry) = {"directory"} /\ entry \notin {".", ".."}
    <3>1. Walk(cwd, entry) = c /\ entry \in Name /\ c \in Dir /\ c # None
      BY <1>5, <1>9, <1>9a, <2>1, WalkToChild, LinkAssumption DEF Children
    <3> QED
      BY <3>1, NamesDiffer DEF lstat
  <2>2. version[cwd] # 0 => Walk(cwd, hello) = None
    BY <1>5, <1>9, WalkIs, LinkAssumption
  <2> QED
    BY <1>9a, <2>1, <2>2 DEF lstat
<1>12. st = "directory" /\ entry \notin {".", ".."} =>
         \E c \in Children(Frame.dir) : entry = called[c]
  <2>1. entry = hello => version[cwd] # 0 \/ \E c \in Children(Frame.dir) : entry = called[c]
    BY <1>9, <1>10 DEF Entries, hello
  <2> QED
    BY <1>3, <1>9, <1>10, <1>11, <2>1 DEF Entries
<1>13. CwdInv'
  <2>1. CASE st = "directory" /\ entry \notin {".", ".."}
    <3>1. pc' = "call" /\ call' = <<entry>>
      BY <1>3, <2>1
    <3> QED
      BY <1>1, <1>4, <1>7, <1>9, <1>12, <2>1, <3>1 DEF CwdInv, Returned, Searched
  <2>2. CASE ~(st = "directory" /\ entry \notin {".", ".."})
    <3>1. pc' = "read"
      BY <1>1, <1>3, <2>2
    <3> QED
      BY <1>1, <1>7, <1>9, <3>1 DEF CwdInv, Returned, Searched
  <2> QED
    BY <2>1, <2>2
<1>14. pc' \in {"read", "call"} /\ ~Searched /\ ~Searched'
  BY <1>1, <1>3 DEF Searched
<1>15. StackInv'
  <2>1. stack'[1].dir = Named /\ stack'[1].path = dir /\ Opens
    BY <1>1, <1>5, <1>8 DEF Standing, StackInv
  <2>2. \A k \in 1 .. n : stack'[k].rest \subseteq Entries(stack'[k].dir)
    BY <1>5, <1>8 DEF Standing, StackInv
  <2> QED
    BY <1>1, <1>4, <1>5, <1>7, <1>8, <2>1, <2>2 DEF Standing, StackInv
<1>16. FoundInv'
  BY <1>1, <1>4, <1>14 DEF Standing, FoundInv
<1>17. SearchInv'
  <2> SUFFICES ASSUME ret_dir = <<>>, Named # None, NEW d \in Dir, Wanted(d)
               PROVE  StillToCome(d)'
    BY <1>1, <1>4, <1>14 DEF SearchInv
  <2>1. StillToCome(d)
    BY DEF Standing, SearchInv
  <2>2. ASSUME NEW k \in 1 .. n, stack[k].dir = d, hello \in stack[k].rest
        PROVE  StillToCome(d)'
    <3>1. ~(k = n /\ entry = hello)
      BY <1>3, <1>5, <1>9, <1>11, <2>2 DEF Wanted
    <3> QED
      BY <1>7, <1>8, <2>2, <3>1 DEF StillToCome
  <2>3. ASSUME NEW k \in 1 .. n, NEW c \in Children(stack[k].dir),
               c \in Ancestors(d), called[c] \in stack[k].rest
        PROVE  StillToCome(d)'
    <3>1. CASE k = n /\ entry = called[c]
      <4>1. st = "directory" /\ entry \notin {".", ".."}
        BY <1>3, <1>5, <1>9, <1>11, <3>1
      <4>2. pc' = "call" /\ call' = <<entry>>
        BY <1>3, <4>1
      <4> QED
        BY <1>4, <1>5, <1>7, <1>9, <2>3, <3>1, <4>2 DEF StillToCome
    <3>2. CASE ~(k = n /\ entry = called[c])
      BY <1>4, <1>7, <1>8, <2>3, <3>2 DEF StillToCome
    <3> QED
      BY <3>1, <3>2
  <2> QED
    BY <1>1, <1>5, <2>1, <2>2, <2>3 DEF StillToCome
<1> QED
  BY <1>13, <1>15, <1>16, <1>17 DEF Standing

(* The activation on top returns: the current directory is its caller's,   *)
(* or the parent of the directory named.                                   *)
LEMMA ReturnStands ==
  ASSUME LinkTypes, read \subseteq enter, CwdInv, StackInv, pc = "read", stack # <<>>,
         UNCHANGED <<treeVars, version, pc, dir, call>>,
         cwd' = Up(cwd), stack' = Front(stack)
  PROVE  /\ CwdInv' /\ StackInv'
         /\ DOMAIN stack' = 1 .. Len(stack) - 1
         /\ \A k \in 1 .. Len(stack) - 1 : stack'[k] = stack[k]
<1> DEFINE n == Len(stack)
<1>1. /\ TreeInv /\ n \in Nat \ {0} /\ DOMAIN stack = 1 .. n
      /\ Frame = stack[n] /\ Frame.dir \in Dir
  BY StackIs
<1>2. /\ DOMAIN stack' = 1 .. n - 1 /\ Len(stack') = n - 1 /\ stack' \in Seq(Activation)
      /\ \A k \in 1 .. n - 1 : stack'[k] = stack[k] /\ k \in 1 .. n
      /\ stack' = <<>> <=> n = 1
  <2>1. stack \in Seq(Activation)
    BY StackIs
  <2>2. /\ stack' \in Seq(Activation) /\ Len(stack') = n - 1
        /\ \A k \in 1 .. n - 1 : stack'[k] = stack[k]
    BY <2>1, FrontIs
  <2> QED
    BY <1>1, <2>2
<1> HIDE DEF n
<1>3. /\ Named' = Named /\ (Opens' <=> Opens)
      /\ \A d : Ancestors(d)' = Ancestors(d) /\ Children(d)' = Children(d)
      /\ \A d : Entries(d)' = Entries(d) /\ Up(d)' = Up(d)
      /\ parent' = parent /\ read' = read
  BY SameWishes DEF treeVars
<1>4. cwd = Frame.dir /\ Opens /\ stack[1].dir = Named /\ stack[1].path = dir
  BY DEF CwdInv, StackInv
<1>5. n = 1 => cwd' = Up(Named)
  BY <1>1, <1>4
<1>6. n # 1 => cwd' = Frame'.dir
  <2> SUFFICES ASSUME n # 1
               PROVE  cwd' = Frame'.dir
    OBVIOUS
  <2>1. n - 1 \in 1 .. n /\ n - 1 + 1 = n /\ n \in 1 .. n /\ n - 1 \in 1 .. n - 1
    BY <1>1
  <2>2. stack[n].dir \in Children(stack[n - 1].dir)
    BY <1>1, <2>1 DEF StackInv
  <2>3. Frame' = stack[n - 1]
    BY <1>2, <2>1 DEF Frame, Last
  <2>4. /\ stack[n].dir \in enter /\ stack[n - 1].dir \in enter
        /\ parent[stack[n].dir] = stack[n - 1].dir
    BY <1>1, <2>1, <2>2 DEF StackInv, Children
  <2> QED
    BY <1>1, <1>4, <2>3, <2>4 DEF Up
<1>7. CwdInv'
  BY <1>2, <1>3, <1>4, <1>5, <1>6 DEF CwdInv, Returned, Searched
<1>8. StackInv'
  <2>1. stack' # <<>> => stack'[1].dir = Named /\ stack'[1].path = dir
    <3> SUFFICES ASSUME stack' # <<>>
                 PROVE  stack'[1].dir = Named /\ stack'[1].path = dir
      OBVIOUS
    <3>1. 1 \in 1 .. n - 1
      BY <1>1, <1>2
    <3> QED
      BY <1>2, <1>4, <3>1
  <2> QED
    BY <1>1, <1>2, <1>3, <1>4, <2>1 DEF StackInv
<1> QED
  BY <1>2, <1>7, <1>8 DEF n

LEMMA MatchStands ==
  ASSUME LinkTypes, read \subseteq enter, Standing, Match
  PROVE  Standing'
<1> DEFINE n == Len(stack)
<1>1. /\ pc = "read" /\ stack # <<>> /\ stack' = Front(stack) /\ cwd' = Up(cwd)
      /\ ret_dir' = Append(Frame.path, hello) /\ matched' = Frame.dir
      /\ UNCHANGED <<treeVars, version, pc, dir, call, link>>
  BY DEF Match
<1>2. CwdInv' /\ StackInv'
  BY <1>1, ReturnStands DEF Standing
<1>3. /\ TreeInv /\ n \in Nat \ {0} /\ DOMAIN stack = 1 .. n
      /\ Frame = stack[n] /\ Frame \in Activation /\ Frame.dir \in Dir
      /\ \A k \in 1 .. n : stack[k].dir \in Dir
  BY <1>1, StackIs
<1>4. Named' = Named /\ (Opens' <=> Opens)
  BY <1>1, SameWishes
<1>5. Opens /\ stack[1].dir = Named /\ stack[1].path = dir
  BY <1>1 DEF Standing, StackInv
<1>6. Frame.dir = Named => n = 1
  <2> SUFFICES ASSUME Frame.dir = Named, n # 1
               PROVE  FALSE
    OBVIOUS
  <2>1. 1 \in 1 .. n /\ n \in 1 .. n /\ 1 < n
    BY <1>3
  <2>2. Depth(parent, stack[1].dir) < Depth(parent, stack[n].dir)
    BY <1>3, <2>1 DEF Standing, StackInv
  <2>3. Depth(parent, Frame.dir) \in Nat
    BY <1>3, DepthIsWay
  <2> QED
    BY <1>3, <1>5, <2>2, <2>3
<1>7. ret_dir' # <<>>
  <2>1. \A p \in Typed : Append(p, hello) # <<>>
    BY DEF Typed
  <2> QED
    BY <1>1, <1>3, <2>1 DEF Activation
<1>8. matched' # None
  BY <1>1, <1>3, LinkAssumption
<1>9. FoundInv'
  <2>1. ~Searched' /\ \A l \in Links : link'[l] = <<>>
    BY <1>1 DEF Standing, FoundInv, Searched
  <2>2. matched' = Named => ret_dir' = Append(dir, hello)
    BY <1>1, <1>3, <1>5, <1>6
  <2> QED
    BY <1>1, <1>4, <1>5, <1>7, <1>8, <2>1, <2>2 DEF FoundInv
<1>10. SearchInv'
  BY <1>7 DEF SearchInv
<1> QED
  BY <1>2, <1>9, <1>10 DEF Standing

LEMMA LeaveStands ==
  ASSUME LinkTypes, read \subseteq enter, Standing, Leave
  PROVE  Standing'
<1> DEFINE n == Len(stack)
<1>1. /\ pc = "read" /\ stack # <<>> /\ stack' = Front(stack) /\ cwd' = Up(cwd)
      /\ Frame.rest = {}
      /\ UNCHANGED <<treeVars, version, pc, dir, call, ret_dir, matched, link>>
  BY DEF Leave
<1>2. /\ CwdInv' /\ StackInv' /\ DOMAIN stack' = 1 .. n - 1
      /\ \A k \in 1 .. n - 1 : stack'[k] = stack[k]
  BY <1>1, ReturnStands DEF Standing
<1>3. n \in Nat \ {0} /\ DOMAIN stack = 1 .. n /\ Frame = stack[n]
  BY <1>1, StackIs
<1> HIDE DEF n
<1>4. /\ Named' = Named /\ (Opens' <=> Opens) /\ \A d : Wanted(d)' <=> Wanted(d)
      /\ \A d : Ancestors(d)' = Ancestors(d) /\ Children(d)' = Children(d)
      /\ called' = called
  BY <1>1, SameWishes DEF treeVars
<1>5. ~Searched /\ ~Searched'
  BY <1>1 DEF Searched
<1>6. FoundInv'
  BY <1>1, <1>4, <1>5 DEF Standing, FoundInv
<1>7. SearchInv'
  <2> SUFFICES ASSUME ret_dir = <<>>, Named # None, NEW d \in Dir, Wanted(d)
               PROVE  StillToCome(d)'
    BY <1>1, <1>4, <1>5 DEF SearchInv
  <2>1. StillToCome(d)
    BY DEF Standing, SearchInv
  <2>2. \A k \in 1 .. n : stack[k].rest # {} => k \in 1 .. n - 1
    BY <1>1, <1>3
  <2>3. CASE \E k \in DOMAIN stack : stack[k].dir = d /\ hello \in stack[k].rest
    BY <1>2, <1>3, <2>2, <2>3 DEF StillToCome
  <2>4. CASE \E k \in DOMAIN stack : \E c \in Children(stack[k].dir) :
               c \in Ancestors(d) /\ called[c] \in stack[k].rest
    BY <1>2, <1>3, <1>4, <2>2, <2>4 DEF StillToCome
  <2> QED
    BY <1>1, <2>1, <2>3, <2>4 DEF StillToCome
<1> QED
  BY <1>2, <1>6, <1>7 DEF Standing

LEMMA EndStands ==
  ASSUME LinkTypes, read \subseteq enter, Standing, Return
  PROVE  Standing'
<1>1. /\ pc = "read" /\ stack = <<>> /\ pc' = "hard_link.txt"
      /\ UNCHANGED <<treeVars, version, dir, call, stack, cwd, ret_dir, matched, link>>
  BY DEF Return
<1>2. /\ Named' = Named /\ (Opens' <=> Opens) /\ \A d : Wanted(d)' <=> Wanted(d)
      /\ parent' = parent /\ \A d : Up(d)' = Up(d)
  BY <1>1, SameWishes DEF treeVars
<1>3. CwdInv'
  BY <1>1, <1>2 DEF Standing, CwdInv, Returned, Searched
<1>4. StackInv'
  BY <1>1 DEF StackInv
<1>5. FoundInv'
  BY <1>1, <1>2 DEF Standing, FoundInv, Searched
<1>6. SearchInv'
  <2> SUFFICES ASSUME ret_dir = <<>>, Named # None, NEW d \in Dir, Wanted(d)
               PROVE  FALSE
    BY <1>1, <1>2 DEF SearchInv
  <2>1. StillToCome(d)
    BY DEF Standing, SearchInv
  <2> QED
    BY <1>1, <2>1 DEF StillToCome
<1> QED
  BY <1>3, <1>4, <1>5, <1>6 DEF Standing

LEMMA FrontOfAppend ==
  ASSUME NEW S, NEW s \in Seq(S), NEW x \in S
  PROVE  Front(Append(s, x)) = s
<1> DEFINE t == Append(s, x)
<1>1. /\ t \in Seq(S) /\ t # <<>> /\ Len(t) = Len(s) + 1 /\ Len(s) \in Nat
      /\ \A k \in 1 .. Len(s) : t[k] = s[k]
  OBVIOUS
<1> HIDE DEF t
<1>2. /\ Front(t) \in Seq(S) /\ Len(Front(t)) = Len(s)
      /\ \A k \in 1 .. Len(s) : Front(t)[k] = s[k]
  BY <1>1, FrontIs
<1> QED
  BY <1>2, SeqEqual DEF t

(* After the search ret_dir leads from the current directory to the match, *)
(* if that is in the directory named by a plain name or a full path.       *)
LEMMA FileAtNamed ==
  ASSUME LinkTypes, read \subseteq enter, Standing, Searched,
         matched # None, matched = Named,
         is_valid_file_name(dir) \/ dir[1] = "/",
         FileAt(ret_dir) # <<>>
  PROVE  FileAt(ret_dir)[1] = matched
<1>1. /\ ret_dir = Append(dir, hello) /\ cwd = Up(Named) /\ Named \in Dir
      /\ Named # None /\ TreeInv /\ cwd \in Dir /\ Home \in Dir /\ Root \in Dir
      /\ Named \in enter
  BY LinkAssumption DEF Standing, FoundInv, CwdInv, Returned, Opens, LinkTypes
<1>2. Front(ret_dir) = dir /\ dir # <<>>
  <2> DEFINE S == Name \union {".", "..", "/", hello}
  <2>1. \A a, b \in S : <<>> \in Seq(S) /\ <<a>> \in Seq(S) /\ <<a, b>> \in Seq(S)
    OBVIOUS
  <2>2. dir \in Seq(S)
    <3>1. Name \subseteq S /\ {".", "..", "/"} \subseteq S
      OBVIOUS
    <3> HIDE DEF S
    <3> QED
      <4>1. CASE dir = <<>>
        BY <2>1, <3>1, <4>1
      <4>2. ASSUME NEW a \in S, dir = <<a>>
            PROVE  dir \in Seq(S)
        BY <2>1, <4>2
      <4>3. ASSUME NEW a \in S, NEW b \in S, dir = <<a, b>>
            PROVE  dir \in Seq(S)
        BY <2>1, <4>3
      <4>4. \/ dir = <<>>
            \/ \E a \in S : dir = <<a>>
            \/ \E a, b \in S : dir = <<a, b>>
        BY <3>1, TypedIs DEF LinkTypes
      <4> QED
        BY <4>1, <4>2, <4>3, <4>4
  <2>3. hello \in S
    OBVIOUS
  <2> QED
    BY <1>1, <2>2, <2>3, FrontOfAppend DEF Named
<1>3. Follow(Home, dir) = Named
  BY <1>2 DEF Named
<1>4. Follow(cwd, dir) = Named
  <2>1. ASSUME NEW n \in Name, dir = <<n>>
        PROVE  Follow(cwd, dir) = Named
    <3>1. Walk(Home, n) = Named
      BY <1>3, <2>1, FollowIs
    <3>2. Named \in Children(Home)
      BY <1>1, <3>1, WalkIs, LinkAssumption
    <3>3. Home \in enter
      <4>1. Walk(Home, n) # None /\ Home # None
        BY <1>1, <3>1, LinkAssumption
      <4> QED
        BY <4>1, NamesDiffer DEF Walk
    <3>4. cwd = Home
      BY <1>1, <3>2, <3>3 DEF Children, Up
    <3> QED
      BY <1>3, <3>4
  <2>2. ASSUME NEW n \in Name, dir = <<"/", n>>
        PROVE  Follow(cwd, dir) = Named
    <3>1. Walk(cwd, "/") = Root /\ Walk(Home, "/") = Root
      BY <1>1, WalkIs, LinkAssumption
    <3> QED
      BY <1>3, <2>2, <3>1, FollowIs
  <2>3. CASE dir = <<"/">>
    <3>1. Walk(cwd, "/") = Root /\ Walk(Home, "/") = Root
      BY <1>1, WalkIs, LinkAssumption
    <3> QED
      BY <1>3, <2>3, <3>1, FollowIs
  <2>4. ASSUME NEW a \in {".", ".."}, dir = <<a>>
        PROVE  FALSE
    BY <2>4, NamesDiffer DEF is_valid_file_name
  <2>5. ASSUME NEW a \in Name \union {".."}, NEW n \in Name, dir = <<a, n>>
        PROVE  FALSE
    BY <2>5, NamesDiffer DEF is_valid_file_name
  <2>6. \/ \E n \in Name : dir = <<n>> \/ dir = <<"/", n>>
        \/ \E a \in {".", ".."} : dir = <<a>>
        \/ \E a \in Name \union {".."}, n \in Name : dir = <<a, n>>
        \/ dir = <<"/">>
    BY <1>2, TypedIs DEF LinkTypes
  <2> QED
    BY <2>1, <2>2, <2>3, <2>4, <2>5, <2>6
<1> QED
  BY <1>2, <1>4 DEF FileAt

LEMMA LinkStands ==
  ASSUME LinkTypes, read \subseteq enter, Standing, NEW l \in Links, link_to(l),
         Searched, Searched', pc \in Links
  PROVE  Standing'
<1>1. UNCHANGED <<treeVars, version, dir, call, stack, cwd, ret_dir, matched>>
  BY DEF link_to
<1>2. /\ Named' = Named /\ (Opens' <=> Opens) /\ \A d : Wanted(d)' <=> Wanted(d)
      /\ parent' = parent /\ \A d : Up(d)' = Up(d)
  BY <1>1, SameWishes DEF treeVars
<1>3. pc' \notin {"input", "call", "read"} /\ stack = <<>>
  BY DEF Searched, Standing, CwdInv
<1>4. CwdInv'
  BY <1>1, <1>2, <1>3 DEF Standing, CwdInv, Returned
<1>5. StackInv'
  BY <1>1, <1>3 DEF StackInv
<1>6. FoundInv'
  <2>1. ASSUME matched # None, matched = Named, is_valid_file_name(dir) \/ dir[1] = "/",
               NEW k \in Links, link'[k] # <<>>
        PROVE  link'[k][1] = matched
    <3>1. link'[k] = link[k] \/ link'[k] = FileAt(ret_dir)
      BY DEF link_to, LinkTypes
    <3>2. CASE link'[k] = link[k]
      BY <2>1, <3>2 DEF Standing, FoundInv
    <3>3. CASE link'[k] = FileAt(ret_dir)
      BY <2>1, <3>3, FileAtNamed
    <3> QED
      BY <3>1, <3>2, <3>3
  <2> QED
    BY <1>1, <1>2, <2>1 DEF Standing, FoundInv, is_valid_file_name
<1>7. SearchInv'
  BY <1>1, <1>2 DEF Standing, SearchInv
<1> QED
  BY <1>4, <1>5, <1>6, <1>7 DEF Standing

LEMMA ReplaceStands ==
  ASSUME LinkTypes, read \subseteq enter, Standing, Replace
  PROVE  Standing'
<1>1. /\ UNCHANGED <<treeVars, pc, dir, call, stack, cwd, ret_dir, matched, link>>
      /\ Searched
  BY DEF Replace, Searched, Links
<1>2. /\ Named' = Named /\ (Opens' <=> Opens)
      /\ \A d : Ancestors(d)' = Ancestors(d) /\ Children(d)' = Children(d)
      /\ parent' = parent /\ \A d : Up(d)' = Up(d)
  BY <1>1, SameTree DEF Opens, treeVars
<1>3. stack = <<>> /\ pc \notin {"input", "call", "read"} /\ Searched'
  BY <1>1 DEF Searched, Standing, CwdInv
<1>4. CwdInv'
  BY <1>1, <1>2, <1>3 DEF Standing, CwdInv, Returned
<1>5. StackInv'
  BY <1>1, <1>3 DEF StackInv
<1>6. FoundInv'
  BY <1>1, <1>2, <1>3 DEF Standing, FoundInv, is_valid_file_name
<1>7. \A d \in Dir : Wanted(d)' => Wanted(d)
  <2>1. \A d \in Dir : version'[d] # 0 => version[d] # 0
    BY DEF Replace, LinkTypes, TreeInv
  <2>2. \A d : Within(d)' = Within(d)
    BY <1>2 DEF Within
  <2> QED
    BY <1>1, <1>2, <2>1, <2>2 DEF Wanted, treeVars
<1>8. SearchInv'
  BY <1>1, <1>2, <1>7 DEF Standing, SearchInv
<1> QED
  BY <1>4, <1>5, <1>6, <1>8 DEF Standing

LEMMA QuietStands ==
  ASSUME LinkTypes, read \subseteq enter, Standing, UNCHANGED vars
  PROVE  Standing'
<1>1. UNCHANGED <<treeVars, version, dir>>
  BY DEF vars
<1>2. /\ Named' = Named /\ (Opens' <=> Opens) /\ \A d : Wanted(d)' <=> Wanted(d)
      /\ \A d : Ancestors(d)' = Ancestors(d) /\ Children(d)' = Children(d)
      /\ \A d : Entries(d)' = Entries(d) /\ Up(d)' = Up(d)
      /\ parent' = parent /\ called' = called /\ read' = read
  BY <1>1, SameWishes DEF treeVars
<1>3. CwdInv'
  BY <1>2 DEF vars, Standing, CwdInv, Frame, Returned, Searched
<1>4. StackInv'
  BY <1>2 DEF vars, Standing, StackInv
<1>5. FoundInv'
  BY <1>2 DEF vars, Standing, FoundInv, Searched, is_valid_file_name
<1>6. SearchInv'
  BY <1>2 DEF vars, Standing, SearchInv, StillToCome, Frame, Searched
<1> QED
  BY <1>3, <1>4, <1>5, <1>6 DEF Standing

-----------------------------------------------------------------------------
(* The invariant holds and is kept.                                        *)
LEMMA InitLink == Init => LinkInv
<1> SUFFICES ASSUME Init
             PROVE  LinkInv
  OBVIOUS
<1>1. Named = None
  BY DEF Init, Named
<1>2. CwdInv
  BY DEF Init, CwdInv, Returned, Searched, Links
<1>3. StackInv
  BY DEF Init, StackInv
<1>4. FoundInv
  BY DEF Init, FoundInv, None
<1>5. SearchInv
  BY <1>1 DEF SearchInv
<1> QED
  BY <1>2, <1>3, <1>4, <1>5, InitTypes DEF LinkInv, Standing

LEMMA NextLink == LinkInv /\ [Next]_vars => LinkInv'
<1> SUFFICES ASSUME LinkInv, [Next]_vars
             PROVE  LinkInv'
  OBVIOUS
<1>1. LinkTypes /\ LinkTypes'
  BY NextTypes DEF LinkInv
<1>2. enter' = enter /\ read' = read
  BY DEF Next, search_file_in_directory, get_filepath_from_user, Open, ReadEntry, Match,
    Leave, Return, create_hard_link_file, create_soft_link_file, link_to, Replace, Done,
    vars, treeVars
<1> SUFFICES ASSUME read \subseteq enter
             PROVE  Standing'
  BY <1>1, <1>2 DEF LinkInv
<1>3. Standing
  BY DEF LinkInv
<1>4. CASE get_filepath_from_user
  BY <1>1, <1>3, <1>4, InputStands
<1>5. CASE Open
  <2>1. CASE Resolve(call) \notin read \/ Len(stack) >= MaxOpen
    BY <1>1, <1>3, <1>5, <2>1, FailedOpenStands
  <2>2. CASE ~(Resolve(call) \notin read \/ Len(stack) >= MaxOpen)
    <3>1. Resolve(call) \in read /\ Len(stack) < MaxOpen
      BY <1>1, <2>2, StackIs, LinkAssumption
    <3> QED
      BY <1>1, <1>3, <1>5, <3>1, OpenStands
  <2> QED
    BY <2>1, <2>2
<1>6. CASE ReadEntry
  BY <1>1, <1>3, <1>6, ReadStands
<1>7. CASE Match
  BY <1>1, <1>3, <1>7, MatchStands
<1>8. CASE Leave
  BY <1>1, <1>3, <1>8, LeaveStands
<1>9. CASE Return
  BY <1>1, <1>3, <1>9, EndStands
<1>10. CASE create_hard_link_file
  BY <1>1, <1>3, <1>10, LinkStands DEF create_hard_link_file, Searched, Links
<1>11. CASE create_soft_link_file
  BY <1>1, <1>3, <1>11, LinkStands DEF create_soft_link_file, Searched, Links
<1>12. CASE Replace
  BY <1>1, <1>3, <1>12, ReplaceStands
<1>13. CASE UNCHANGED vars
  BY <1>1, <1>3, <1>13, QuietStands
<1> QED
  BY <1>4, <1>5, <1>6, <1>7, <1>8, <1>9, <1>10, <1>11, <1>12, <1>13
    DEF Next, search_file_in_directory, Done

LEMMA LinkInvariant == Spec => []LinkInv
BY InitLink, NextLink, PTL DEF Spec

-----------------------------------------------------------------------------
(* Where the program stands in any tree, also when the current directory   *)
(* is not the one it reads.                                                *)
ControlInv ==
  /\ pc = "input" \/ Searched => stack = <<>>
  /\ pc = "input" \/ (pc = "call" /\ stack = <<>>) => cwd = Home
  /\ pc = "call" /\ stack = <<>> => call = dir
  /\ pc = "call" /\ stack # <<>> => \E a \in Name \union {hello} : call = <<a>>
  /\ stack # <<>> => stack[1].dir = Named /\ Opens
  /\ Returned /\ ~Opens => cwd = Home

(* Each activation reads a directory found in one at or above that of its  *)
(* caller, and through which chdir("..") leads back.                       *)
AboveInv ==
  Named \in enter =>
    /\ \A k \in DOMAIN stack : k + 1 \in DOMAIN stack =>
         \E d \in Ancestors(stack[k].dir) \intersect enter :
           stack[k + 1].dir \in Children(d)
    /\ stack # <<>> => cwd \in enter /\ cwd \in Ancestors(Frame.dir)
    /\ Returned /\ Opens => cwd \in Ancestors(Named)

WayInv == LinkTypes /\ ControlInv /\ AboveInv

LEMMA ChildAncestors ==
  ASSUME TreeInv, NEW d \in Dir, NEW c \in Children(d)
  PROVE  Ancestors(c) \subseteq {c} \union Ancestors(d)
<1>1. c \in Dir /\ parent[c] = d /\ d \in Ancestors(d)
  BY AncestorsAreDirs DEF Children
<1>2. PICK up \in [0 .. Height -> Dir] :
        /\ up[0] = c
        /\ \A n \in 1 .. Height : up[n] = parent[up[n - 1]]
        /\ Ancestors(c) = {up[n] : n \in 0 .. Height}
  BY <1>1, Upwards
<1> DEFINE S == {n \in 0 .. Height : up[n] \in {c} \union Ancestors(d)}
<1>3. 0 \in S
  BY <1>2, HeightIsNat
<1>4. ASSUME NEW n \in 0 .. Height - 1, n \in S
      PROVE  n + 1 \in S
  <2>1. n + 1 \in 1 .. Height /\ n + 1 - 1 = n /\ n + 1 \in 0 .. Height
    BY HeightIsNat
  <2>2. up[n + 1] = parent[up[n]] /\ up[n] \in {c} \union Ancestors(d)
    BY <1>2, <1>4, <2>1
  <2>3. parent[up[n]] \in Ancestors(d)
    BY <1>1, <2>2, ParentIsAncestor
  <2> QED
    BY <2>1, <2>2, <2>3
<1>5. \A n \in 0 .. Height : n \in S
  <2> HIDE DEF S
  <2> QED
    BY <1>3, <1>4, CountUp, HeightIsNat
<1> QED
  BY <1>2, <1>5

LEMMA UpIs ==
  ASSUME TreeInv, NEW d \in Dir, NEW x \in Ancestors(d)
  PROVE  Up(x) \in Ancestors(d)
BY ParentIsAncestor DEF Up

(* Steps that leave the search alone.                                      *)
LEMMA ElsewhereWay ==
  ASSUME WayInv, UNCHANGED <<treeVars, cwd, stack>>,
         \/ get_filepath_from_user
         \/ UNCHANGED <<dir, call>> /\ (Returned' <=> Returned) /\ (pc' = pc \/ Searched')
  PROVE  ControlInv' /\ AboveInv'
<1>1. /\ \A d : Ancestors(d)' = Ancestors(d) /\ Children(d)' = Children(d)
      /\ enter' = enter /\ Frame' = Frame
  BY SameTree DEF Frame, treeVars
<1>2. CASE get_filepath_from_user
  <2>1. pc = "input" /\ pc' = "call" /\ call' = dir'
    BY <1>2 DEF get_filepath_from_user
  <2>2. stack' = <<>> /\ cwd' = Home /\ ~Returned'
    BY <2>1 DEF WayInv, ControlInv, Returned, Searched
  <2> QED
    BY <2>1, <2>2 DEF ControlInv, AboveInv, Returned, Searched
<1>3. CASE UNCHANGED <<dir, call>> /\ (Returned' <=> Returned) /\ (pc' = pc \/ Searched')
  <2>1. Named' = Named /\ (Opens' <=> Opens)
    BY <1>3, SameTree DEF Opens, treeVars
  <2>2. Searched' => stack = <<>>
    BY <1>3 DEF WayInv, ControlInv, Returned
  <2>3. ControlInv'
    BY <1>3, <2>1, <2>2 DEF WayInv, ControlInv, Searched
  <2>4. AboveInv'
    BY <1>1, <1>3, <2>1 DEF WayInv, AboveInv
  <2> QED
    BY <2>3, <2>4
<1> QED
  BY <1>2, <1>3

LEMMA OpenWay ==
  ASSUME WayInv, Open
  PROVE  ControlInv' /\ AboveInv'
<1> DEFINE n == Len(stack)
           x == Resolve(call)
           r == [dir |-> x, path |-> call, rest |-> Entries(x), statbuf |-> "any"]
<1>1. /\ pc = "call" /\ pc' = "read" /\ ~Searched /\ ~Searched'
      /\ UNCHANGED <<ret_dir, matched, link, treeVars, version, dir>>
  BY DEF Open, Searched
<1>2. /\ \A d : Ancestors(d)' = Ancestors(d) /\ Children(d)' = Children(d)
      /\ enter' = enter /\ Named' = Named /\ (Opens' <=> Opens)
  BY <1>1, SameTree DEF Opens, treeVars
<1>3. /\ LinkTypes /\ TreeInv /\ stack \in Seq(Activation) /\ n \in Nat
      /\ DOMAIN stack = 1 .. n /\ cwd \in Dir
      /\ \A k \in 1 .. n : stack[k].dir \in Dir
      /\ stack = <<>> <=> n = 0
      /\ stack # <<>> => Frame = stack[n] /\ Frame.dir \in Dir
  BY StackIs DEF WayInv, LinkTypes
<1>4. stack = <<>> => x = Named /\ cwd = Home
  BY <1>1 DEF WayInv, ControlInv, Resolve, Named
<1>5. ASSUME stack # <<>>, x # None
      PROVE  x \in Children(cwd) /\ cwd \in enter
  <2>1. PICK a \in Name \union {hello} : call = <<a>>
    BY <1>1, <1>5 DEF WayInv, ControlInv
  <2>2. x = Walk(cwd, a) /\ a \notin {"/", ".", ".."}
    BY <2>1, FollowIs, NamesDiffer DEF Resolve, hello
  <2> QED
    BY <1>3, <1>5, <2>2, LinkAssumption DEF Walk
<1>6. CASE x = None \/ x \notin read \/ n >= MaxOpen
  <2>1. UNCHANGED <<stack, cwd>>
    BY <1>6 DEF Open
  <2>2. stack = <<>> => ~Opens
    BY <1>3, <1>4, <1>6, LinkAssumption DEF Opens
  <2>3. ControlInv'
    BY <1>1, <1>2, <1>4, <2>1, <2>2 DEF WayInv, ControlInv, Returned
  <2>4. AboveInv'
    BY <1>1, <1>2, <2>1, <2>2 DEF WayInv, AboveInv, Returned, Frame
  <2> QED
    BY <2>3, <2>4
<1>7. CASE ~(x = None \/ x \notin read \/ n >= MaxOpen)
  <2>1. /\ stack' = Append(stack, r) /\ cwd' = IF x \in enter THEN x ELSE cwd
        /\ x \in Dir /\ x \in read /\ MaxOpen # 0
    <3>1. x \in Dir
      BY <1>7 DEF WayInv, LinkTypes, TreeInv
    <3> QED
      BY <1>3, <1>7, <3>1, LinkAssumption DEF Open
  <2>2. /\ DOMAIN stack' = 1 .. n + 1 /\ Len(stack') = n + 1 /\ stack' # <<>>
        /\ stack'[n + 1] = r /\ n + 1 \in 1 .. n + 1
        /\ \A k \in 1 .. n : stack'[k] = stack[k] /\ k \in 1 .. n + 1
    BY <1>3, <2>1
  <2>3. r.dir = x
    OBVIOUS
  <2> HIDE DEF r, n, x
  <2>4. Frame' = r
    BY <2>2 DEF Frame, Last
  <2>5. stack'[1].dir = Named /\ Opens
    <3>1. CASE stack = <<>>
      BY <1>3, <1>4, <1>7, <2>1, <2>2, <2>3, <3>1 DEF Opens
    <3>2. CASE stack # <<>>
      <4>1. 1 \in 1 .. n
        BY <1>3, <3>2
      <4> QED
        BY <2>2, <3>2, <4>1 DEF WayInv, ControlInv
    <3> QED
      BY <3>1, <3>2
  <2>6. ControlInv'
    BY <1>1, <1>2, <2>2, <2>5 DEF ControlInv, Returned
  <2>7. ASSUME Named \in enter
        PROVE  cwd' \in enter /\ cwd' \in Ancestors(x)
    <3>1. CASE x \in enter
      BY <1>3, <2>1, <3>1, AncestorsAreDirs
    <3>2. CASE x \notin enter
      <4>1. x \in Children(cwd) /\ cwd \in enter
        BY <1>4, <1>5, <1>7, <2>7, <3>2
      <4>2. cwd \in Ancestors(x)
        BY <1>3, <2>1, <4>1, AncestorsAreDirs, ParentIsAncestor DEF Children
      <4> QED
        BY <2>1, <3>2, <4>1, <4>2
    <3> QED
      BY <3>1, <3>2
  <2>8. ASSUME Named \in enter, NEW k \in 1 .. n + 1, k + 1 \in 1 .. n + 1
        PROVE  \E d \in Ancestors(stack'[k].dir) \intersect enter :
                 stack'[k + 1].dir \in Children(d)
    <3>1. CASE k = n
      <4>1. stack # <<>>
        BY <1>3, <2>8, <3>1
      <4>2. x \in Children(cwd) /\ cwd \in enter /\ cwd \in Ancestors(Frame.dir)
        BY <1>5, <1>7, <2>8, <4>1 DEF WayInv, AboveInv
      <4>3. Frame = stack[n] /\ stack'[n] = stack[n]
        BY <1>3, <2>2, <2>8, <3>1, <4>1
      <4> QED
        BY <2>2, <2>3, <3>1, <4>2, <4>3
    <3>2. CASE k # n
      <4>1. k \in 1 .. n /\ k + 1 \in 1 .. n
        BY <1>3, <2>8, <3>2
      <4>2. stack'[k] = stack[k] /\ stack'[k + 1] = stack[k + 1]
        BY <2>2, <4>1
      <4> QED
        BY <1>3, <2>8, <4>1, <4>2 DEF WayInv, AboveInv
    <3> QED
      BY <3>1, <3>2
  <2>9. AboveInv'
    BY <1>1, <1>2, <2>2, <2>3, <2>4, <2>7, <2>8 DEF AboveInv, Returned
  <2> QED
    BY <2>6, <2>9
<1> QED
  BY <1>6, <1>7

LEMMA ReadWay ==
  ASSUME WayInv, ReadEntry
  PROVE  ControlInv' /\ AboveInv'
<1> DEFINE n == Len(stack)
<1>1. /\ pc = "read" /\ stack # <<>>
      /\ UNCHANGED <<treeVars, version, dir, cwd, ret_dir, matched, link>>
  BY DEF ReadEntry
<1>2. PICK entry \in Frame.rest :
        \E st \in lstat(entry) :
          /\ stack' = Seen(entry, st)
          /\ IF st = "directory" /\ entry \notin {".", ".."}
             THEN call' = <<entry>> /\ pc' = "call"
             ELSE UNCHANGED <<call, pc>>
  BY DEF ReadEntry
<1>3. PICK st \in lstat(entry) :
        /\ stack' = Seen(entry, st)
        /\ IF st = "directory" /\ entry \notin {".", ".."}
           THEN call' = <<entry>> /\ pc' = "call"
           ELSE UNCHANGED <<call, pc>>
  BY <1>2
<1>4. /\ \A d : Ancestors(d)' = Ancestors(d) /\ Children(d)' = Children(d)
      /\ enter' = enter /\ Named' = Named /\ (Opens' <=> Opens)
  BY <1>1, SameTree DEF Opens, treeVars
<1>5. /\ LinkTypes /\ n \in Nat \ {0} /\ DOMAIN stack = 1 .. n
      /\ Frame = stack[n] /\ Frame \in Activation
  BY <1>1, StackIs DEF WayInv
<1>6. st \in {"any", "directory", "file"} /\ entry \in Name \union {".", "..", hello}
  BY <1>3, <1>5 DEF lstat, Activation
<1>7. /\ Len(stack') = n /\ DOMAIN stack' = 1 .. n /\ stack' # <<>>
      /\ \A k \in 1 .. n - 1 : stack'[k] = stack[k]
      /\ stack'[n].dir = Frame.dir
  BY <1>1, <1>3, <1>5, <1>6, SeenIs
<1> HIDE DEF n
<1>8. \A k \in 1 .. n : stack'[k].dir = stack[k].dir
  <2> SUFFICES ASSUME NEW k \in 1 .. n
               PROVE  stack'[k].dir = stack[k].dir
    OBVIOUS
  <2>1. CASE k = n
    BY <1>5, <1>7, <2>1
  <2>2. CASE k \in 1 .. n - 1
    BY <1>7, <2>2
  <2> QED
    BY <1>5, <2>1, <2>2
<1>9. Frame'.dir = Frame.dir /\ stack'[1].dir = stack[1].dir
  BY <1>5, <1>7, <1>8 DEF Frame, Last
<1>10. pc' \in {"read", "call"} /\ ~Returned' /\ ~Searched'
  BY <1>1, <1>3, <1>7 DEF Returned, Searched
<1>11. pc' = "call" => \E a \in Name \union {hello} : call' = <<a>>
  BY <1>1, <1>3, <1>6
<1>12. ControlInv'
  BY <1>1, <1>4, <1>7, <1>9, <1>10, <1>11 DEF WayInv, ControlInv
<1>13. AboveInv'
  <2> SUFFICES ASSUME Named \in enter
               PROVE  /\ \A k \in 1 .. n : k + 1 \in 1 .. n =>
                           \E d \in Ancestors(stack'[k].dir) \intersect enter :
                             stack'[k + 1].dir \in Children(d)
                      /\ cwd \in enter /\ cwd \in Ancestors(Frame'.dir)
    BY <1>1, <1>4, <1>7, <1>10 DEF AboveInv
  <2>1. /\ \A k \in 1 .. n : k + 1 \in 1 .. n =>
             \E d \in Ancestors(stack[k].dir) \intersect enter :
               stack[k + 1].dir \in Children(d)
        /\ cwd \in enter /\ cwd \in Ancestors(Frame.dir)
    BY <1>1, <1>5 DEF WayInv, AboveInv
  <2> QED
    BY <1>8, <1>9, <2>1
<1> QED
  BY <1>12, <1>13

LEMMA ReturnWay ==
  ASSUME WayInv, pc = "read", stack # <<>>, UNCHANGED <<treeVars, pc, dir, call>>,
         cwd' = Up(cwd), stack' = Front(stack)
  PROVE  ControlInv' /\ AboveInv'
<1> DEFINE n == Len(stack)
<1>1. /\ TreeInv /\ n \in Nat \ {0} /\ DOMAIN stack = 1 .. n /\ cwd \in Dir
      /\ Frame = stack[n] /\ Frame.dir \in Dir /\ stack \in Seq(Activation)
      /\ \A k \in 1 .. n : stack[k].dir \in Dir
  BY StackIs DEF WayInv, LinkTypes
<1>2. /\ DOMAIN stack' = 1 .. n - 1 /\ Len(stack') = n - 1
      /\ \A k \in 1 .. n - 1 : stack'[k] = stack[k] /\ k \in 1 .. n
      /\ stack' = <<>> <=> n = 1
  <2>1. /\ stack' \in Seq(Activation) /\ Len(stack') = n - 1
        /\ \A k \in 1 .. n - 1 : stack'[k] = stack[k]
    BY <1>1, FrontIs
  <2> QED
    BY <1>1, <2>1
<1> HIDE DEF n
<1>3. /\ \A d : Ancestors(d)' = Ancestors(d) /\ Children(d)' = Children(d)
      /\ enter' = enter /\ Named' = Named /\ (Opens' <=> Opens)
  BY SameTree DEF Opens, treeVars
<1>4. stack[1].dir = Named /\ Opens /\ ~Searched'
  BY DEF WayInv, ControlInv, Searched
<1>5. ControlInv'
  <2>1. stack' # <<>> => stack'[1].dir = Named
    <3> SUFFICES ASSUME stack' # <<>>
                 PROVE  stack'[1].dir = Named
      OBVIOUS
    <3>1. 1 \in 1 .. n - 1
      BY <1>1, <1>2
    <3> QED
      BY <1>2, <1>4, <3>1
  <2> QED
    BY <1>3, <1>4, <2>1 DEF ControlInv
<1>6. ASSUME Named \in enter
      PROVE  /\ stack' # <<>> => cwd' \in enter /\ cwd' \in Ancestors(Frame'.dir)
             /\ stack' = <<>> => cwd' \in Ancestors(Named)
  <2>1. cwd \in enter /\ cwd \in Ancestors(Frame.dir)
    BY <1>6 DEF WayInv, AboveInv
  <2>2. cwd' \in enter
    BY <2>1 DEF Up
  <2>3. CASE n = 1
    BY <1>1, <1>2, <1>4, <2>1, <2>3, UpIs
  <2>4. CASE n # 1
    <3>1. n - 1 \in 1 .. n - 1 /\ n - 1 \in 1 .. n /\ n - 1 + 1 = n /\ n \in 1 .. n
      BY <1>1, <2>4
    <3> DEFINE f == stack[n - 1].dir
    <3>2. f \in Dir /\ Frame'.dir = f
      BY <1>1, <1>2, <3>1 DEF Frame, Last
    <3>3. PICK d \in Ancestors(f) \intersect enter : Frame.dir \in Children(d)
      BY <1>1, <1>6, <3>1 DEF WayInv, AboveInv
    <3> HIDE DEF f
    <3>4. d \in Dir /\ Ancestors(d) \subseteq Ancestors(f)
      BY <1>1, <3>2, <3>3, AncestorsAreDirs, AncestorsOfAncestor
    <3>5. cwd' \in Ancestors(f)
      <4>1. CASE cwd = Frame.dir
        <5>1. parent[cwd] = d
          BY <3>3, <4>1 DEF Children
        <5> QED
          BY <2>1, <3>3, <5>1 DEF Up
      <4>2. CASE cwd # Frame.dir
        <5>1. cwd \in Ancestors(d)
          BY <1>1, <2>1, <3>3, <3>4, <4>2, ChildAncestors
        <5> QED
          BY <1>1, <3>2, <3>4, <5>1, UpIs
      <4> QED
        BY <4>1, <4>2
    <3> QED
      BY <1>2, <2>2, <2>4, <3>2, <3>5
  <2> QED
    BY <2>3, <2>4
<1>7. ASSUME Named \in enter, NEW k \in 1 .. n - 1, k + 1 \in 1 .. n - 1
      PROVE  \E d \in Ancestors(stack'[k].dir) \intersect enter :
               stack'[k + 1].dir \in Children(d)
  <2>1. /\ stack'[k] = stack[k] /\ stack'[k + 1] = stack[k + 1]
        /\ k \in 1 .. n /\ k + 1 \in 1 .. n
    BY <1>2, <1>7
  <2> QED
    BY <1>1, <1>7, <2>1 DEF WayInv, AboveInv
<1>8. Returned' => stack' = <<>>
  BY <1>4 DEF Returned
<1>9. AboveInv'
  BY <1>2, <1>3, <1>6, <1>7, <1>8 DEF AboveInv
<1> QED
  BY <1>5, <1>9

LEMMA WayInvariant == Spec => []WayInv
<1>1. Init => WayInv
  <2> SUFFICES ASSUME Init
               PROVE  WayInv
    OBVIOUS
  <2>1. ~Returned /\ ~Searched
    BY DEF Init, Returned, Searched, Links
  <2>2. ControlInv /\ AboveInv
    BY <2>1 DEF Init, ControlInv, AboveInv
  <2> QED
    BY <2>2, InitTypes DEF WayInv
<1>2. WayInv /\ [Next]_vars => WayInv'
  <2> SUFFICES ASSUME WayInv, [Next]_vars
               PROVE  ControlInv' /\ AboveInv'
    BY NextTypes DEF WayInv
  <2>1. CASE get_filepath_from_user
    BY <2>1, ElsewhereWay DEF get_filepath_from_user
  <2>2. CASE Open
    BY <2>2, OpenWay
  <2>3. CASE ReadEntry
    BY <2>3, ReadWay
  <2>4. CASE Match
    BY <2>4, ReturnWay DEF Match
  <2>5. CASE Leave
    BY <2>5, ReturnWay DEF Leave
  <2>6. CASE Return
    <3>1. Searched' /\ Returned' /\ Returned
      BY <2>6 DEF Return, Returned, Searched
    <3> QED
      BY <2>6, <3>1, ElsewhereWay DEF Return
  <2>7. CASE create_hard_link_file \/ create_soft_link_file
    <3>1. Searched' /\ Returned' /\ Returned
      BY <2>7 DEF create_hard_link_file, create_soft_link_file, Returned, Searched
    <3> QED
      BY <2>7, <3>1, ElsewhereWay DEF create_hard_link_file, create_soft_link_file, link_to
  <2>8. CASE Replace \/ UNCHANGED vars
    <3>1. UNCHANGED <<treeVars, cwd, stack, dir, call, pc>>
      BY <2>8 DEF Replace, vars
    <3>2. Returned' <=> Returned
      BY <3>1 DEF Returned, Searched
    <3> QED
      BY <3>1, <3>2, ElsewhereWay
  <2> QED
    BY <2>1, <2>2, <2>3, <2>4, <2>5, <2>6, <2>7, <2>8
      DEF Next, search_file_in_directory, Done
<1> QED
  BY <1>1, <1>2, PTL DEF Spec

(* However deep the tree, whichever of its directories are closed to the   *)
(* user, and whether or not the process runs out of descriptors on the     *)
(* way: if the directory named can be entered, the search works at or      *)
(* above the one it reads and ends at or above the one named; where        *)
(* listing goes with entering, chdir() into a directory and chdir("..")    *)
(* out of it match, and main() goes on in the parent of the one named.     *)
THEOREM CwdIsFollowed == Spec => []CwdFollowsSearch
<1>1. LinkInv /\ WayInv => CwdFollowsSearch
  <2> SUFFICES ASSUME LinkInv, WayInv
               PROVE  CwdFollowsSearch
    OBVIOUS
  <2>1. Returned /\ ~Opens => cwd = Home
    BY DEF WayInv, ControlInv
  <2>2. Named \in enter =>
          /\ pc = "read" /\ stack # <<>> => cwd \in Ancestors(Frame.dir)
          /\ Returned /\ Opens => cwd \in Ancestors(Named)
    BY DEF WayInv, AboveInv
  <2>3. read \subseteq enter =>
          /\ pc = "read" /\ stack # <<>> => cwd = Frame.dir
          /\ Returned /\ Opens => cwd = Up(Named)
    BY DEF LinkInv, Standing, CwdInv
  <2> QED
    BY <2>1, <2>2, <2>3 DEF CwdFollowsSearch
<1> QED
  BY <1>1, LinkInvariant, WayInvariant, PTL

(* A search that found nothing has come to every directory that is as near *)
(* to the one named as the process can have directories open, if the way   *)
(* to it can be listed.                                                    *)
THEOREM SearchMissesNothing == Spec => []SearchIsComplete
<1>1. LinkInv => SearchIsComplete
  <2> SUFFICES ASSUME LinkInv, Searched, ret_dir = <<>>, Named # None, read \subseteq enter,
                      NEW d \in Dir, version[d] # 0, Named \in Ancestors(d),
                      Within(d) \subseteq read
               PROVE  Cardinality(Within(d)) > MaxOpen
    BY DEF SearchIsComplete
  <2>1. ~Wanted(d)
    BY DEF LinkInv, Standing, SearchInv
  <2>2. IsFiniteSet(Within(d))
    BY AncestorsAreDirs, FS_Subset DEF LinkInv, LinkTypes, Within
  <2>3. Cardinality(Within(d)) \in Nat
    BY <2>2, FS_CardinalityType
  <2> QED
    BY <2>1, <2>3, LinkAssumption DEF Wanted
<1> QED
  BY <1>1, LinkInvariant, PTL

(* A file found in the directory named itself, by a plain name or a full   *)
(* path, is the one that is linked: the path the search returned is still  *)
(* true where the program stands then.                                     *)
THEOREM FoundIsLinked == Spec => []LinksWhatWasFound
<1>1. LinkInv => LinksWhatWasFound
  BY DEF LinkInv, Standing, FoundInv, LinksWhatWasFound
<1> QED
  BY <1>1, LinkInvariant, PTL

-----------------------------------------------------------------------------
(* The closed directories above the current one: only those that are above *)
(* the one the program was started in, or are that one.                    *)
OpenOr(A) == enter \union A
WayBack == Ancestors(cwd) \subseteq OpenOr(Ancestors(Home))

LEMMA RootIsAlone ==
  ASSUME TreeInv
  PROVE  Ancestors(Root) = {Root}
<1>1. PICK up \in [0 .. Height -> Dir] :
        /\ up[0] = Root
        /\ \A n \in 1 .. Height : up[n] = parent[up[n - 1]]
        /\ Ancestors(Root) = {up[n] : n \in 0 .. Height}
  BY Upwards, LinkAssumption
<1> DEFINE S == {n \in 0 .. Height : up[n] = Root}
<1>2. 0 \in S
  BY <1>1, HeightIsNat
<1>3. ASSUME NEW n \in 0 .. Height - 1, n \in S
      PROVE  n + 1 \in S
  <2>1. n + 1 \in 1 .. Height /\ n + 1 - 1 = n /\ n + 1 \in 0 .. Height
    BY HeightIsNat
  <2>2. up[n + 1] = parent[up[n]] /\ up[n] = Root
    BY <1>1, <1>3, <2>1
  <2> QED
    BY <2>1, <2>2 DEF TreeInv
<1>4. \A n \in 0 .. Height : n \in S
  <2> HIDE DEF S
  <2> QED
    BY <1>2, <1>3, CountUp, HeightIsNat
<1>5. 0 \in 0 .. Height
  BY HeightIsNat
<1> QED
  BY <1>1, <1>4, <1>5

LEMMA WalkBack ==
  ASSUME TreeInv, NEW A, NEW d \in Dir, Ancestors(d) \subseteq OpenOr(A),
         NEW name, Walk(d, name) # None
  PROVE  /\ Walk(d, name) \in Dir
         /\ Ancestors(Walk(d, name)) \subseteq {Walk(d, name)} \union OpenOr(A)
<1> DEFINE x == Walk(d, name)
<1>1. x \in Dir /\ d # None
  BY WalkIs, LinkAssumption
<1>2. CASE name = "/"
  <2>1. x = Root
    BY <1>1, <1>2, WalkIs
  <2> HIDE DEF x
  <2> QED
    BY <1>1, <2>1, RootIsAlone DEF x
<1>3. CASE name # "/"
  <2>1. \/ x = d
        \/ x = parent[d]
        \/ x \in Children(d)
    BY <1>1, <1>3 DEF Walk
  <2>2. CASE x = d
    BY <2>2
  <2>3. CASE x = parent[d]
    <3>1. Ancestors(parent[d]) \subseteq Ancestors(d)
      BY AncestorsAreDirs, ParentIsAncestor, AncestorsOfAncestor
    <3> QED
      BY <1>1, <2>3, <3>1
  <2>4. CASE x \in Children(d)
    <3>1. Ancestors(x) \subseteq {x} \union Ancestors(d)
      BY <2>4, ChildAncestors
    <3> QED
      BY <1>1, <3>1
  <2> QED
    BY <2>1, <2>2, <2>3, <2>4
<1> QED
  BY <1>2, <1>3

LEMMA FollowBack ==
  ASSUME TreeInv, NEW A, NEW d \in Dir, Ancestors(d) \subseteq OpenOr(A),
         NEW p \in Typed \union {<<hello>>}, p # <<>>, Follow(d, p) # None
  PROVE  Ancestors(Follow(d, p)) \subseteq {Follow(d, p)} \union OpenOr(A)
<1>1. ASSUME NEW a, p = <<a>>
      PROVE  Ancestors(Follow(d, p)) \subseteq {Follow(d, p)} \union OpenOr(A)
  <2>1. Follow(d, p) = Walk(d, a)
    BY <1>1, FollowIs
  <2> QED
    BY <2>1, WalkBack
<1>2. ASSUME NEW a, NEW b \in Name, p = <<a, b>>
      PROVE  Ancestors(Follow(d, p)) \subseteq {Follow(d, p)} \union OpenOr(A)
  <2> DEFINE y == Walk(d, a)
  <2>1. Follow(d, p) = Walk(y, b)
    BY <1>2, FollowIs
  <2>2. y # None /\ y \in enter
    <3> HIDE DEF y
    <3>1. Walk(y, b) # None /\ b # "/"
      BY <2>1, NamesDiffer
    <3>2. None \notin enter
      BY LinkAssumption DEF TreeInv
    <3>3. y = None => Walk(y, b) = None
      BY <3>2 DEF Walk
    <3>4. y # None /\ y \notin enter => Walk(y, b) = None
      BY <3>1 DEF Walk
    <3> QED
      BY <3>1, <3>3, <3>4
  <2>3. y \in Dir /\ Ancestors(y) \subseteq {y} \union OpenOr(A)
    BY <2>2, WalkBack
  <2> HIDE DEF y
  <2>4. Ancestors(y) \subseteq OpenOr(A)
    BY <2>2, <2>3 DEF OpenOr
  <2> QED
    BY <2>1, <2>3, <2>4, WalkBack
<1> QED
  BY <1>1, <1>2, TypedIs

(* In every tree and whatever is closed in it: each directory above the    *)
(* current one can be entered, or is at or above the one the program was   *)
(* started in.  So chdir("..") in Match and Leave fails at no directory    *)
(* the search went down to, only where the way up was closed from the      *)
(* start.                                                                  *)
THEOREM SearchCanGoBack ==
  Spec => [](\A d \in Ancestors(cwd) : d \in enter \/ d \in Ancestors(Home))
<1>1. Init => WayBack
  BY DEF Init, WayBack, OpenOr
<1>2. LinkTypes /\ WayBack /\ [Next]_vars => WayBack'
  <2> SUFFICES ASSUME LinkTypes, WayBack, [Next]_vars
               PROVE  WayBack'
    OBVIOUS
  <2>1. TreeInv /\ cwd \in Dir
    BY DEF LinkTypes
  <2>2. UNCHANGED treeVars
    BY DEF Next, search_file_in_directory, get_filepath_from_user, Open, ReadEntry, Match,
      Leave, Return, create_hard_link_file, create_soft_link_file, link_to, Replace, Done,
      vars
  <2>3. enter' = enter /\ \A d : Ancestors(d)' = Ancestors(d)
    BY <2>2, SameTree DEF treeVars
  <2>4. CASE cwd' = cwd
    BY <2>3, <2>4 DEF WayBack, OpenOr
  <2>5. CASE Open
    <3> DEFINE x == Resolve(call)
    <3>1. cwd' = cwd \/ (x \in enter /\ x # None /\ cwd' = x)
      BY <2>5, LinkAssumption DEF Open
    <3>2. CASE x \in enter /\ x # None /\ cwd' = x
      <4>1. x = Follow(cwd, call) /\ call \in Typed \union {<<hello>>} /\ call # <<>>
        BY <3>2, ResolveType DEF Resolve
      <4>2. Ancestors(x) \subseteq {x} \union OpenOr(Ancestors(Home))
        BY <2>1, <3>2, <4>1, FollowBack DEF WayBack
      <4> QED
        BY <2>3, <3>2, <4>2 DEF WayBack, OpenOr
    <3> QED
      BY <2>4, <3>1, <3>2
  <2>6. CASE cwd' = Up(cwd)
    <3>1. Ancestors(parent[cwd]) \subseteq Ancestors(cwd)
      BY <2>1, AncestorsAreDirs, ParentIsAncestor, AncestorsOfAncestor
    <3>2. cwd' = cwd \/ cwd' = parent[cwd]
      BY <2>6 DEF Up
    <3> QED
      BY <2>3, <2>4, <3>1, <3>2 DEF WayBack, OpenOr
  <2> QED
    BY <2>4, <2>5, <2>6 DEF Next, search_file_in_directory, get_filepath_from_user,
      ReadEntry, Match, Leave, Return, create_hard_link_file, create_soft_link_file,
      link_to, Replace, Done, vars
<1>3. Spec => []LinkTypes
  BY InitTypes, NextTypes, PTL DEF Spec
<1>4. WayBack => \A d \in Ancestors(cwd) : d \in enter \/ d \in Ancestors(Home)
  BY DEF WayBack, OpenOr
<1> QED
  BY <1>1, <1>2, <1>3, <1>4, PTL DEF Spec
=============================================================================
