----------------------------- MODULE ServersProofs -----------------------------
(***************************************************************************)
(* The choice of a server.  The table of nearest servers is sorted, drops  *)
(* nobody nearer than what it keeps and holds the servers by their rank,   *)
(* for every file and every size of the table; what get_best_server counts *)
(* and chooses, for every number of servers, every time a fetch can take   *)
(* and every file found in /tmp; and Ref's main() runs the two functions   *)
(* as their own modules specify them, so that what is proved of each holds *)
(* of the program, and more follows from both together.                    *)
(***************************************************************************)
EXTENDS RefServers, FiniteSetTheorems, WellFoundedInduction, TLAPS

(* What sscanf leaves in the buffers is a server again.                    *)
LEMMA ParseServer ==
  ASSUME NearestTypeOK, NEW kind \in {"whole", "cut", "bare"}, NEW d \in Distances
  PROVE  Parse(kind, d) \in Server
<1>1. pos + 1 \in Nat /\ parsed \in Server
  BY DEF NearestTypeOK
<1>2. [url |-> pos + 1, distance |-> d] \in Server
  BY <1>1 DEF Server
<1>3. [parsed EXCEPT !.url = pos + 1] \in Server
  BY <1>1 DEF Server
<1> QED
  BY <1>1, <1>2, <1>3 DEF Parse

LEMMA DistanceIsInt == \A e \in Server : e.distance \in Int
<1> SUFFICES ASSUME NEW e \in Server
             PROVE  e.distance \in Int
  OBVIOUS
<1>1. e.distance \in Distances
  BY DEF Server
<1>2. \A x \in Distances : x \in Int
  BY TableAssumption, NearestAssumption
<1> QED
  BY <1>1, <1>2

(* If the loop stops nowhere, it takes no slot: of the slots it takes      *)
(* there is a first one.                                                   *)
LEMMA NoPlace ==
  ASSUME NEW s \in Server, Place(s) = {}
  PROVE  \A k \in Index : ~Takes(s, k)
<1> SUFFICES ASSUME NEW k \in Index, Takes(s, k)
             PROVE  FALSE
  OBVIOUS
<1> DEFINE taken == {l \in Index : Takes(s, l)}
           R == OpToRel(<, Nat)
<1>1. taken \subseteq Nat /\ taken # {}
  BY DEF Index
<1>2. PICK l \in taken : \A n \in taken : ~(<<n, l>> \in R)
  <2> HIDE DEF taken, R
  <2> QED
    BY <1>1, NatLessThanWellFounded, WFMin DEF R
<1>3. \A n \in taken : ~(n < l)
  <2> SUFFICES ASSUME NEW n \in taken, n < l
               PROVE  <<n, l>> \in R
    BY <1>2
  <2> n \in Nat /\ l \in Nat
    BY <1>1
  <2> QED
    BY DEF OpToRel
<1>4. l \in Place(s)
  BY <1>3 DEF Place
<1> QED
  BY <1>4

LEMMA InsertType ==
  ASSUME nearest \in [Index -> Server], NEW s \in Server, NEW k \in Index
  PROVE  Insert(s, k) \in [Index -> Server]
<1> SUFFICES ASSUME NEW l \in Index, ~(l < k), l # k, ~Free(nearest[k])
             PROVE  nearest[l - 1] \in Server
  BY DEF Insert
<1> l - 1 \in Index
  BY TableAssumption, NearestAssumption DEF Index
<1> QED
  OBVIOUS

(* Inserting at the slot the loop stops at keeps the order.                *)
LEMMA InsertSorted ==
  ASSUME nearest \in [Index -> Server], Sorted,
         NEW s \in Server, ~Free(s), NEW k \in Place(s), nearest' = Insert(s, k)
  PROVE  Sorted'
<1> DEFINE T == Insert(s, k)
<1>1. k \in Index /\ Takes(s, k) /\ \A l \in Index : l < k => ~Takes(s, l)
  BY DEF Place
<1> SUFFICES ASSUME NEW a \in Index, NEW b \in Index, a < b, ~Free(T[b])
             PROVE  ~Free(T[a]) /\ T[a].distance <= T[b].distance
  BY DEF Sorted
<1>2. \A e \in Server : e.distance \in Int
  BY DistanceIsInt
<1>3. \A l \in Index : l < k => ~Free(nearest[l]) /\ nearest[l].distance < s.distance
  <2> SUFFICES ASSUME NEW l \in Index, l < k
               PROVE  ~Free(nearest[l]) /\ nearest[l].distance < s.distance
    OBVIOUS
  <2>1. nearest[l].distance \in Int /\ s.distance \in Int
    BY <1>2
  <2> QED
    BY <1>1, <2>1 DEF Takes
<1>4. \A l \in Index : T[l] = IF l < k THEN nearest[l]
                              ELSE IF l = k THEN s
                              ELSE IF Free(nearest[k]) THEN nearest[l] ELSE nearest[l - 1]
  BY <1>1 DEF Insert
<1>5. CASE b < k
  BY <1>1, <1>4, <1>5, TableAssumption, NearestAssumption DEF Index, Sorted
<1>6. CASE b = k
  <2>1. a < k /\ T[a] = nearest[a] /\ T[b] = s
    BY <1>1, <1>4, <1>6, TableAssumption, NearestAssumption DEF Index
  <2> QED
    BY <1>2, <1>3, <2>1
<1>7. CASE b > k /\ Free(nearest[k])
  <2>1. T[b] = nearest[b]
    BY <1>1, <1>4, <1>7, TableAssumption, NearestAssumption DEF Index
  <2> QED
    BY <1>1, <1>7, <2>1 DEF Sorted
<1>8. CASE b > k /\ ~Free(nearest[k])
  <2>1. b - 1 \in Index /\ k <= b - 1 /\ T[b] = nearest[b - 1]
    BY <1>1, <1>4, <1>8, TableAssumption, NearestAssumption DEF Index
  <2>2. s.distance <= nearest[k].distance
    BY <1>1, <1>8 DEF Takes
  <2>3. nearest[k].distance <= nearest[b - 1].distance
    <3>1. CASE k = b - 1
      BY <1>1, <1>2, <3>1
    <3>2. CASE k < b - 1
      BY <1>1, <2>1, <3>2 DEF Sorted
    <3> QED
      BY <1>1, <2>1, <3>1, <3>2, TableAssumption, NearestAssumption DEF Index
  <2>4. CASE a < k
    <3>1. T[a] = nearest[a]
      BY <1>4, <2>4
    <3>2. nearest[a].distance < s.distance /\ ~Free(nearest[a])
      BY <1>3, <2>4
    <3>3. /\ nearest[a].distance \in Int /\ s.distance \in Int
          /\ nearest[k].distance \in Int /\ nearest[b - 1].distance \in Int
      BY <1>1, <1>2, <2>1
    <3> QED
      BY <2>1, <2>2, <2>3, <3>1, <3>2, <3>3
  <2>5. CASE a = k
    <3>1. T[a] = s
      BY <1>4, <2>5, TableAssumption, NearestAssumption DEF Index
    <3>2. s.distance \in Int /\ nearest[k].distance \in Int /\ nearest[b - 1].distance \in Int
      BY <1>1, <1>2, <2>1
    <3> QED
      BY <2>1, <2>2, <2>3, <3>1, <3>2
  <2>6. CASE a > k
    <3>1. a - 1 \in Index /\ a - 1 < b - 1 /\ T[a] = nearest[a - 1]
      BY <1>1, <1>4, <1>8, <2>6, TableAssumption, NearestAssumption DEF Index
    <3> QED
      BY <2>1, <3>1 DEF Sorted
  <2> QED
    BY <1>1, <2>4, <2>5, <2>6, TableAssumption, NearestAssumption DEF Index
<1> QED
  BY <1>1, <1>5, <1>6, <1>7, <1>8, TableAssumption, NearestAssumption DEF Index
(* Inserting drops only what is no nearer than the whole table: the entry  *)
(* of the last slot, or nothing.                                           *)
LEMMA InsertKeeps ==
  ASSUME nearest \in [Index -> Server], Sorted,
         NEW s \in Server, ~Free(s), NEW k \in Place(s), nearest' = Insert(s, k),
         NEW r \in Server,
         \/ \E l \in Index : nearest[l] = r
         \/ \A l \in Index : ~Free(nearest[l]) /\ nearest[l].distance <= r.distance,
         ~Free(r)
  PROVE  \/ \E l \in Index : nearest'[l] = r
         \/ \A l \in Index : ~Free(nearest'[l]) /\ nearest'[l].distance <= r.distance
<1> DEFINE T == Insert(s, k)
           last == NEAREST_SERVERS_NUM - 1
<1>1. k \in Index /\ Takes(s, k) /\ \A l \in Index : l < k => ~Takes(s, l)
  BY DEF Place
<1>2. \A e \in Server : e.distance \in Int
  BY DistanceIsInt
<1>3. \A l \in Index : T[l] = IF l < k THEN nearest[l]
                              ELSE IF l = k THEN s
                              ELSE IF Free(nearest[k]) THEN nearest[l] ELSE nearest[l - 1]
  BY <1>1 DEF Insert
<1>4. T \in [Index -> Server]
  BY <1>1, InsertType
<1>5. last \in Index /\ \A l \in Index : l <= last
  BY TableAssumption, NearestAssumption DEF Index
<1>6. CASE \E l \in Index : nearest[l] = r
  <2>1. PICK l \in Index : nearest[l] = r
    BY <1>6
  <2>2. CASE l < k \/ (Free(nearest[k]) /\ l # k)
    <3>1. T[l] = r
      BY <1>1, <1>3, <2>1, <2>2, TableAssumption, NearestAssumption DEF Index
    <3> QED
      BY <3>1
  <2>3. CASE l = k /\ Free(nearest[k])
    BY <2>1, <2>3
  <2>4. CASE l >= k /\ ~Free(nearest[k]) /\ l < last
    <3>1. l + 1 \in Index /\ T[l + 1] = nearest[l]
      BY <1>1, <1>3, <2>4, TableAssumption, NearestAssumption DEF Index
    <3> QED
      BY <2>1, <3>1
  <2>5. CASE l >= k /\ ~Free(nearest[k]) /\ l = last
    <3>1. Sorted'
      BY InsertSorted
    <3>2. ~Free(T[last]) /\ T[last].distance <= r.distance
      <4>1. CASE last = k
        <5>1. T[last] = s /\ s.distance <= nearest[k].distance
          BY <1>1, <1>3, <2>5, <4>1 DEF Takes
        <5> QED
          BY <2>1, <2>5, <4>1, <5>1
      <4>2. CASE last > k
        <5>1. last - 1 \in Index /\ last - 1 >= k /\ last - 1 < last
          BY <1>1, <4>2, TableAssumption, NearestAssumption DEF Index
        <5>2. T[last] = nearest[last - 1]
          BY <1>1, <1>3, <1>5, <2>5, <4>2, TableAssumption, NearestAssumption DEF Index
        <5> QED
          BY <1>5, <2>1, <2>5, <5>1, <5>2 DEF Sorted
      <4> QED
        BY <1>1, <1>5, <4>1, <4>2, TableAssumption, NearestAssumption DEF Index
    <3>3. ASSUME NEW a \in Index
          PROVE  ~Free(T[a]) /\ T[a].distance <= r.distance
      <4>1. CASE a = last
        BY <3>2, <4>1
      <4>2. CASE a < last
        <5>1. ~Free(T[a]) /\ T[a].distance <= T[last].distance
          BY <1>5, <3>1, <3>2, <4>2 DEF Sorted
        <5>2. T[a].distance \in Int /\ T[last].distance \in Int /\ r.distance \in Int
          BY <1>2, <1>4, <1>5
        <5> QED
          BY <3>2, <5>1, <5>2
      <4> QED
        BY <1>5, <4>1, <4>2, TableAssumption, NearestAssumption DEF Index
    <3> QED
      BY <3>3
  <2> QED
    BY <1>1, <1>5, <2>2, <2>3, <2>4, <2>5, TableAssumption, NearestAssumption DEF Index
<1>7. CASE \A l \in Index : ~Free(nearest[l]) /\ nearest[l].distance <= r.distance
  <2>1. s.distance <= r.distance
    <3>1. s.distance <= nearest[k].distance /\ nearest[k].distance <= r.distance
      BY <1>1, <1>7 DEF Takes
    <3>2. /\ s.distance \in Int /\ r.distance \in Int
          /\ nearest[k].distance \in Int
      BY <1>1, <1>2
    <3> QED
      BY <3>1, <3>2
  <2>2. ASSUME NEW a \in Index
        PROVE  ~Free(T[a]) /\ T[a].distance <= r.distance
    <3>1. CASE a < k
      BY <1>3, <1>7, <3>1
    <3>2. CASE a = k
      BY <1>3, <2>1, <3>2, TableAssumption, NearestAssumption DEF Index
    <3>3. CASE a > k
      <4>1. a - 1 \in Index /\ T[a] = nearest[a - 1]
        BY <1>1, <1>3, <1>7, <3>3, TableAssumption, NearestAssumption DEF Index
      <4> QED
        BY <1>7, <4>1
    <3> QED
      BY <1>1, <3>1, <3>2, <3>3, TableAssumption, NearestAssumption DEF Index
  <2> QED
    BY <2>2
<1> QED
  BY <1>6, <1>7

-----------------------------------------------------------------------------
(* Every server in the history has a url, and once a server is in the      *)
(* buffers the buffers are never empty again: so no free entry is ever     *)
(* inserted into a slot that counts.                                       *)
BuffersInv ==
  /\ \A m \in DOMAIN seen : ~Free(seen[m])
  /\ Free(parsed) => /\ seen = <<>>
                     /\ \A k \in Index : Free(nearest[k])

TableInv == NearestTypeOK /\ Sorted /\ NoneNearerDropped /\ BuffersInv

LEMMA InitTable == NearestInit => TableInv
BY TableAssumption, NearestAssumption DEF NearestInit, TableInv, NearestTypeOK, Sorted, NoneNearerDropped,
  BuffersInv, Server, NoServer, Free, Index

LEMMA NextTable == TableInv /\ [NearestNext]_nearestVars => TableInv'
<1> SUFFICES ASSUME TableInv, [NearestNext]_nearestVars
             PROVE  TableInv'
  OBVIOUS
<1> USE DEF TableInv
<1>1. ASSUME NEW kind \in {"whole", "cut", "bare"}, NEW d \in Distances,
             ReadServer(Parse(kind, d))
      PROVE  TableInv'
  <2> DEFINE s == Parse(kind, d)
  <2>1. s \in Server
    BY ParseServer
  <2>2. /\ pos' = pos + 1 /\ parsed' = s /\ count' = count + 1 /\ result' = result
        /\ seen' = IF Free(s) THEN seen ELSE Append(seen, s)
        /\ \/ \E k \in Place(s) : nearest' = Insert(s, k)
           \/ Place(s) = {} /\ UNCHANGED nearest
    BY <1>1 DEF ReadServer
  <2>3. NearestTypeOK'
    <3>1. nearest' \in [Index -> Server]
      BY <2>1, <2>2, InsertType DEF NearestTypeOK, Place
    <3>2. seen' \in Seq(Server)
      BY <2>1, <2>2 DEF NearestTypeOK
    <3> QED
      BY <2>1, <2>2, <3>1, <3>2 DEF NearestTypeOK
  <2>4. CASE Free(s)
    <3>1. Free(parsed) /\ s = parsed
      BY <2>4 DEF Parse, Free, NearestTypeOK
    <3>2. seen' = <<>> /\ \A k \in Index : Free(nearest[k])
      BY <2>2, <2>4, <3>1 DEF BuffersInv
    <3>3. \A k \in Index : Free(nearest'[k])
      BY <2>2, <2>4, <3>2 DEF Insert, Place
    <3> QED
      BY <2>2, <2>3, <3>2, <3>3 DEF Sorted, NoneNearerDropped, BuffersInv
  <2>5. CASE ~Free(s) /\ Place(s) = {}
    <3>1. nearest' = nearest /\ seen' = Append(seen, s)
      BY <2>2, <2>5
    <3>2. Sorted'
      BY <3>1 DEF Sorted
    <3>3. \A k \in Index : ~Takes(s, k)
      BY <2>1, <2>5, NoPlace
    <3>4. \A k \in Index : ~Free(nearest[k]) /\ nearest[k].distance <= s.distance
      <4> TAKE k \in Index
      <4>1. nearest[k].distance \in Int /\ s.distance \in Int
        BY <2>1, DistanceIsInt DEF NearestTypeOK
      <4> QED
        BY <3>3, <4>1 DEF Takes
    <3>5. \A m \in DOMAIN seen' : (m \in DOMAIN seen /\ seen'[m] = seen[m]) \/ seen'[m] = s
      BY <2>1, <3>1 DEF NearestTypeOK
    <3>6. NoneNearerDropped'
      BY <3>1, <3>4, <3>5 DEF NoneNearerDropped
    <3>7. BuffersInv'
      BY <2>2, <2>5, <3>5 DEF BuffersInv
    <3> QED
      BY <2>3, <3>2, <3>6, <3>7
  <2>6. CASE ~Free(s) /\ Place(s) # {}
    <3>1. PICK k \in Place(s) : nearest' = Insert(s, k)
      BY <2>2, <2>6
    <3>2. seen' = Append(seen, s)
      BY <2>2, <2>6
    <3>3. Sorted'
      BY <2>1, <2>6, <3>1, InsertSorted DEF NearestTypeOK
    <3>4. \A m \in DOMAIN seen' : (m \in DOMAIN seen /\ seen'[m] = seen[m]) \/ seen'[m] = s
      BY <2>1, <3>2 DEF NearestTypeOK
    <3>5. k \in Index /\ nearest'[k] = s
      BY <3>1, TableAssumption, NearestAssumption DEF Insert, Place, Index
    <3>6. ASSUME NEW m \in DOMAIN seen
          PROVE  \/ \E l \in Index : nearest'[l] = seen[m]
                 \/ \A l \in Index : ~Free(nearest'[l]) /\ nearest'[l].distance <= seen[m].distance
      <4>1. seen[m] \in Server /\ ~Free(seen[m])
        BY DEF NearestTypeOK, BuffersInv
      <4>2. \/ \E l \in Index : nearest[l] = seen[m]
            \/ \A l \in Index : ~Free(nearest[l]) /\ nearest[l].distance <= seen[m].distance
        BY DEF NoneNearerDropped
      <4> QED
        BY <2>1, <2>6, <3>1, <4>1, <4>2, InsertKeeps DEF NearestTypeOK
    <3>7. NoneNearerDropped'
      BY <3>4, <3>5, <3>6 DEF NoneNearerDropped
    <3>8. BuffersInv'
      BY <2>2, <2>6, <3>4 DEF BuffersInv
    <3> QED
      BY <2>3, <3>3, <3>7, <3>8
  <2> QED
    BY <2>4, <2>5, <2>6
<1>2. CASE ReadOther
  BY <1>2 DEF ReadOther, NearestTypeOK, Sorted, NoneNearerDropped, BuffersInv
<1>3. CASE Return
  BY <1>3 DEF Return, NearestTypeOK, Sorted, NoneNearerDropped, BuffersInv
<1>4. CASE UNCHANGED nearestVars
  BY <1>4 DEF nearestVars, NearestTypeOK, Sorted, NoneNearerDropped, BuffersInv
<1> QED
  BY <1>1, <1>2, <1>3, <1>4 DEF NearestNext, ReadLine

(* Every variable of get_nearest_server keeps its type, whatever the file. *)
THEOREM NearestTypes == NearestSpec => []NearestTypeOK
<1>1. TableInv => NearestTypeOK
  BY DEF TableInv
<1> QED
  BY <1>1, InitTable, NextTable, PTL DEF NearestSpec

(* The table of nearest servers is always in order of distance.            *)
THEOREM TableIsSorted == NearestSpec => []Sorted
<1>1. TableInv => Sorted
  BY DEF TableInv
<1> QED
  BY <1>1, InitTable, NextTable, PTL DEF NearestSpec

(* No server is dropped in favour of one farther away.                     *)
THEOREM NearestAreKept == NearestSpec => []NoneNearerDropped
<1>1. TableInv => NoneNearerDropped
  BY DEF TableInv
<1> QED
  BY <1>1, InitTable, NextTable, PTL DEF NearestSpec

-----------------------------------------------------------------------------
(* The table by rank.  The order of the servers of a list sq: the nearer   *)
(* first, and of equals the later read.                                    *)
Before(sq, m, n) ==
  \/ sq[m].distance < sq[n].distance
  \/ sq[m].distance = sq[n].distance /\ m > n
Ahead(sq, n) == {m \in DOMAIN sq : Before(sq, m, n)}
RankIn(sq, n) == Cardinality(Ahead(sq, n))

LEMMA RankIsRankIn ==
  /\ \A n : Rank(n) = RankIn(seen, n)
  /\ \A n : Rank(n)' = RankIn(seen', n)
BY DEF Rank, RankIn, Ahead, Precedes, Before

LEMMA DistanceIn ==
  ASSUME NEW sq \in Seq(Server), NEW n \in DOMAIN sq
  PROVE  sq[n].distance \in Int
<1>1. sq[n] \in Server
  OBVIOUS
<1> QED
  BY <1>1, DistanceIsInt

(* A server has fewer before it than there are servers.                    *)
LEMMA RankBounds ==
  ASSUME NEW sq \in Seq(Server), NEW n \in DOMAIN sq
  PROVE  /\ IsFiniteSet(Ahead(sq, n))
         /\ RankIn(sq, n) \in 0 .. Len(sq) - 1
<1>1. Len(sq) \in Nat /\ DOMAIN sq = 1 .. Len(sq) /\ n \in 1 .. Len(sq)
  OBVIOUS
<1>2. n \notin Ahead(sq, n) /\ Ahead(sq, n) \subseteq 1 .. Len(sq)
  BY <1>1, DistanceIn DEF Ahead, Before
<1>3. /\ IsFiniteSet(1 .. Len(sq))
      /\ Cardinality(1 .. Len(sq)) = IF 1 > Len(sq) THEN 0 ELSE Len(sq) - 1 + 1
  BY <1>1, FS_Interval
<1>4. Cardinality(1 .. Len(sq)) = Len(sq)
  BY <1>1, <1>3
<1>5. /\ IsFiniteSet(Ahead(sq, n)) /\ Cardinality(Ahead(sq, n)) \in Nat
      /\ Cardinality(Ahead(sq, n)) <= Len(sq)
      /\ Cardinality(Ahead(sq, n)) # Len(sq)
  BY <1>1, <1>2, <1>3, <1>4, FS_Subset, FS_CardinalityType
<1> QED
  BY <1>1, <1>5 DEF RankIn

(* The ranks follow the order.                                             *)
LEMMA RankFollows ==
  ASSUME NEW sq \in Seq(Server), NEW m \in DOMAIN sq, NEW n \in DOMAIN sq
  PROVE  RankIn(sq, m) < RankIn(sq, n) <=> Before(sq, m, n)
<1>1. ASSUME NEW a \in DOMAIN sq, NEW b \in DOMAIN sq, Before(sq, a, b)
      PROVE  RankIn(sq, a) < RankIn(sq, b)
  <2>1. Ahead(sq, a) \subseteq Ahead(sq, b)
    <3> SUFFICES ASSUME NEW c \in DOMAIN sq, Before(sq, c, a)
                 PROVE  Before(sq, c, b)
      BY DEF Ahead
    <3>1. /\ sq[a].distance \in Int /\ sq[b].distance \in Int
          /\ sq[c].distance \in Int
      BY DistanceIn
    <3>2. a \in Int /\ b \in Int /\ c \in Int
      OBVIOUS
    <3> QED
      BY <1>1, <3>1, <3>2 DEF Before
  <2>2. a \in Ahead(sq, b)
    BY <1>1 DEF Ahead
  <2>3. a \notin Ahead(sq, a)
    <3>1. sq[a].distance \in Int /\ a \in Int
      BY DistanceIn
    <3> QED
      BY <3>1 DEF Ahead, Before
  <2>4. IsFiniteSet(Ahead(sq, b)) /\ RankIn(sq, a) \in Int /\ RankIn(sq, b) \in Int
    BY RankBounds
  <2>5. RankIn(sq, a) <= RankIn(sq, b) /\ RankIn(sq, a) # RankIn(sq, b)
    BY <2>1, <2>2, <2>3, <2>4, FS_Subset DEF RankIn
  <2> QED
    BY <2>4, <2>5
<1>2. RankIn(sq, m) \in Int /\ RankIn(sq, n) \in Int
  BY RankBounds
<1>3. Before(sq, m, n) \/ Before(sq, n, m) \/ m = n
  <2>1. /\ sq[m].distance \in Int /\ sq[n].distance \in Int
        /\ m \in Int /\ n \in Int
    BY DistanceIn
  <2> QED
    BY <2>1 DEF Before
<1> QED
  BY <1>1, <1>2, <1>3

(* Every rank is somebody's.                                               *)
LEMMA RankOnto ==
  ASSUME NEW sq \in Seq(Server), NEW j \in 0 .. Len(sq) - 1
  PROVE  \E n \in DOMAIN sq : RankIn(sq, n) = j
<1> DEFINE f == [n \in DOMAIN sq |-> RankIn(sq, n)]
           D == DOMAIN sq
           R == 0 .. Len(sq) - 1
<1>1. Len(sq) \in Nat /\ D = 1 .. Len(sq)
  OBVIOUS
<1>2. f \in [D -> R]
  BY RankBounds
<1>3. ASSUME NEW a \in D, NEW b \in D, f[a] = f[b]
      PROVE  a = b
  <2>1. RankIn(sq, a) \in Int /\ RankIn(sq, a) = RankIn(sq, b)
    BY <1>3, RankBounds
  <2>2. ~Before(sq, a, b) /\ ~Before(sq, b, a)
    BY <2>1, RankFollows
  <2>3. /\ sq[a].distance \in Int /\ sq[b].distance \in Int
        /\ a \in Int /\ b \in Int
    BY DistanceIn
  <2> QED
    BY <2>2, <2>3 DEF Before
<1>4. f \in Injection(D, R)
  <2> HIDE DEF f, D, R
  <2> QED
    BY <1>2, <1>3 DEF Injection, IsInjective
<1>5. IsFiniteSet(R) /\ Cardinality(D) = Len(sq) /\ Cardinality(R) = Len(sq)
  <2>1. Cardinality(1 .. Len(sq)) = IF 1 > Len(sq) THEN 0 ELSE Len(sq) - 1 + 1
    BY <1>1, FS_Interval
  <2> DEFINE b == Len(sq) - 1
  <2>2. b \in Int
    BY <1>1
  <2> HIDE DEF b
  <2>3. IsFiniteSet(0 .. b) /\ Cardinality(0 .. b) = IF 0 > b THEN 0 ELSE b - 0 + 1
    BY <2>2, FS_Interval
  <2> QED
    BY <1>1, <2>1, <2>3 DEF b
<1>6. f \in Surjection(D, R)
  <2> HIDE DEF f, D, R
  <2> QED
    BY <1>4, <1>5, FS_Injection
<1>7. \E n \in D : f[n] = j
  <2>1. j \in R
    OBVIOUS
  <2> HIDE DEF f, D, R
  <2> QED
    BY <1>6, <2>1 DEF Surjection
<1> QED
  BY <1>7

(* A server appended moves back those it is before, and nobody else.       *)
LEMMA RankAppended ==
  ASSUME NEW sq \in Seq(Server), NEW s \in Server, NEW n \in DOMAIN sq
  PROVE  RankIn(Append(sq, s), n) =
           RankIn(sq, n) + (IF s.distance <= sq[n].distance THEN 1 ELSE 0)
<1> DEFINE tq == Append(sq, s)
           N == Len(sq) + 1
<1>1. /\ N \in Nat /\ n \in 1 .. N - 1 /\ DOMAIN sq = 1 .. N - 1
      /\ DOMAIN tq = DOMAIN sq \union {N} /\ N \notin DOMAIN sq
      /\ tq[N] = s /\ \A m \in DOMAIN sq : tq[m] = sq[m]
  OBVIOUS
<1> HIDE DEF tq, N
<1>2. Before(tq, N, n) <=> s.distance <= sq[n].distance
  <2>1. s.distance \in Int /\ sq[n].distance \in Int /\ N > n
    BY <1>1, DistanceIsInt, DistanceIn
  <2> QED
    BY <1>1, <2>1 DEF Before
<1>3. \A m \in DOMAIN sq : Before(tq, m, n) <=> Before(sq, m, n)
  BY <1>1 DEF Before
<1>4. Ahead(tq, n) = Ahead(sq, n) \union (IF s.distance <= sq[n].distance THEN {N} ELSE {})
  BY <1>1, <1>2, <1>3 DEF Ahead
<1>5. IsFiniteSet(Ahead(sq, n)) /\ N \notin Ahead(sq, n) /\ RankIn(sq, n) \in Nat
  <2>1. IsFiniteSet(Ahead(sq, n)) /\ RankIn(sq, n) \in Nat
    BY RankBounds
  <2> QED
    BY <1>1, <2>1 DEF Ahead
<1>6. CASE s.distance <= sq[n].distance
  <2>1. Ahead(tq, n) = Ahead(sq, n) \union {N}
    BY <1>4, <1>6
  <2> QED
    BY <1>5, <1>6, <2>1, FS_AddElement DEF RankIn, tq
<1>7. CASE ~(s.distance <= sq[n].distance)
  <2>1. Ahead(tq, n) = Ahead(sq, n)
    BY <1>4, <1>7
  <2> QED
    BY <1>5, <1>7, <2>1 DEF RankIn, tq
<1> QED
  BY <1>6, <1>7

(* The rank the appended server gets: those below it are nearer.           *)
LEMMA RankOfLast ==
  ASSUME NEW sq \in Seq(Server), NEW s \in Server
  PROVE  LET c == RankIn(Append(sq, s), Len(sq) + 1)
         IN  /\ c \in 0 .. Len(sq)
             /\ \A n \in DOMAIN sq : RankIn(sq, n) < c <=> sq[n].distance < s.distance
<1> DEFINE tq == Append(sq, s)
           N == Len(sq) + 1
           c == RankIn(tq, N)
<1>1. /\ tq \in Seq(Server) /\ N \in Nat /\ N \in DOMAIN tq /\ Len(tq) = Len(sq) + 1
      /\ Len(sq) \in Nat /\ tq[N] = s
      /\ \A n \in DOMAIN sq : n \in DOMAIN tq /\ n \in Int /\ n < N /\ tq[n] = sq[n]
  OBVIOUS
<1> HIDE DEF tq, N
<1>2. c \in 0 .. Len(sq)
  <2>1. c \in 0 .. Len(tq) - 1
    BY <1>1, RankBounds
  <2> QED
    BY <1>1, <2>1
<1>3. ASSUME NEW n \in DOMAIN sq
      PROVE  RankIn(sq, n) < c <=> sq[n].distance < s.distance
  <2>1. RankIn(tq, n) < c <=> Before(tq, n, N)
    BY <1>1, RankFollows
  <2>2. s.distance \in Int /\ sq[n].distance \in Int
    BY DistanceIsInt, DistanceIn
  <2>3. Before(tq, n, N) <=> sq[n].distance < s.distance
    BY <1>1, <2>2 DEF Before
  <2>4. RankIn(tq, n) = RankIn(sq, n) + (IF s.distance <= sq[n].distance THEN 1 ELSE 0)
    BY RankAppended DEF tq
  <2>5. RankIn(sq, n) \in Int /\ c \in Int
    BY <1>2, RankBounds
  <2> HIDE DEF c
  <2>6. CASE sq[n].distance < s.distance
    <3>1. ~(s.distance <= sq[n].distance)
      BY <2>2, <2>6
    <3> QED
      BY <2>1, <2>3, <2>4, <2>5, <2>6, <3>1
  <2>7. CASE ~(sq[n].distance < s.distance)
    <3>1. s.distance <= sq[n].distance
      BY <2>2, <2>7
    <3>2. Before(tq, N, n)
      BY <1>1, <2>2, <3>1 DEF Before
    <3>3. c < RankIn(tq, n)
      BY <1>1, <3>2, RankFollows DEF c
    <3> QED
      BY <2>4, <2>5, <2>7, <3>1, <3>3
  <2> QED
    BY <2>6, <2>7
<1> QED
  BY <1>2, <1>3 DEF tq, N

(* The table holds the servers by rank, and behind them it is free.        *)
FreeTail == \A k \in Index : Free(nearest[k]) <=> k >= Len(seen)
RankInv == FreeTail /\ HoldsTheNearest

(* The loop stops at the slot of that rank, if there is one.               *)
LEMMA PlaceIsRank ==
  ASSUME TableInv, RankInv, NEW s \in Server, ~Free(s)
  PROVE  LET c == RankIn(Append(seen, s), Len(seen) + 1)
         IN  /\ c \in Index => Place(s) = {c}
             /\ c \notin Index => Place(s) = {}
<1> DEFINE c == RankIn(Append(seen, s), Len(seen) + 1)
<1>1. seen \in Seq(Server) /\ nearest \in [Index -> Server] /\ Len(seen) \in Nat
  BY DEF TableInv, NearestTypeOK
<1>2. /\ c \in 0 .. Len(seen)
      /\ \A n \in DOMAIN seen : RankIn(seen, n) < c <=> seen[n].distance < s.distance
  BY <1>1, RankOfLast
<1> HIDE DEF c
<1>3. ASSUME NEW l \in Index, l < Len(seen)
      PROVE  /\ ~Free(nearest[l])
             /\ l < c <=> nearest[l].distance < s.distance
  <2>1. l \in 0 .. Len(seen) - 1
    BY <1>1, <1>3 DEF Index
  <2>2. PICK n \in DOMAIN seen : RankIn(seen, n) = l
    BY <1>1, <2>1, RankOnto
  <2>3. nearest[l] = seen[n]
    BY <1>3, <2>2, RankIsRankIn, TableAssumption DEF RankInv, HoldsTheNearest, Index
  <2> QED
    BY <1>1, <1>2, <1>3, <2>2, <2>3 DEF TableInv, BuffersInv
<1>4. ASSUME NEW l \in Index
      PROVE  Takes(s, l) <=> c <= l
  <2>1. l \in Int /\ c \in Int /\ s.distance \in Int /\ nearest[l].distance \in Int
    BY <1>1, <1>2, DistanceIsInt DEF Index
  <2>2. CASE l < Len(seen)
    BY <1>3, <2>1, <2>2 DEF Takes
  <2>3. CASE l >= Len(seen)
    BY <1>1, <1>2, <2>1, <2>3 DEF RankInv, FreeTail, Takes
  <2> QED
    BY <1>1, <2>1, <2>2, <2>3
<1>5. c \in Index => Place(s) = {c}
  <2> SUFFICES ASSUME c \in Index
               PROVE  Place(s) = {c}
    OBVIOUS
  <2>1. c \in Place(s)
    BY <1>4 DEF Place, Index
  <2>2. ASSUME NEW k \in Place(s)
        PROVE  k = c
    <3>1. k \in Index /\ Takes(s, k) /\ \A l \in Index : l < k => ~Takes(s, l)
      BY DEF Place
    <3>2. c <= k /\ ~(c < k)
      BY <1>4, <3>1 DEF Index
    <3> QED
      BY <3>1, <3>2 DEF Index
  <2> QED
    BY <2>1, <2>2
<1>6. c \notin Index => Place(s) = {}
  BY <1>2, <1>4, TableAssumption DEF Place, Index
<1> QED
  BY <1>5, <1>6 DEF c

(* The insertion at that slot gives every server of the table its rank.    *)
LEMMA InsertRanks ==
  ASSUME TableInv, RankInv, NEW s \in Server, ~Free(s),
         seen' = Append(seen, s),
         \/ \E k \in Place(s) : nearest' = Insert(s, k)
         \/ Place(s) = {} /\ UNCHANGED nearest
  PROVE  RankInv'
<1> DEFINE N == Len(seen) + 1
           c == RankIn(seen', N)
<1>1. /\ seen \in Seq(Server) /\ nearest \in [Index -> Server] /\ N - 1 \in Nat
      /\ DOMAIN seen' = DOMAIN seen \union {N} /\ seen'[N] = s /\ Len(seen') = N
      /\ \A n \in DOMAIN seen : seen'[n] = seen[n] /\ n # N
  BY DEF TableInv, NearestTypeOK
<1>2. /\ c \in Index => Place(s) = {c}
      /\ c \notin Index => Place(s) = {}
  BY PlaceIsRank
<1>3. /\ c \in 0 .. N - 1
      /\ \A n \in DOMAIN seen : RankIn(seen, n) < c <=> seen[n].distance < s.distance
  BY <1>1, RankOfLast
<1>4. ASSUME NEW n \in DOMAIN seen
      PROVE  /\ RankIn(seen, n) \in 0 .. N - 2
             /\ RankIn(seen', n) = IF RankIn(seen, n) < c
                                   THEN RankIn(seen, n) ELSE RankIn(seen, n) + 1
  <2>1. RankIn(seen, n) \in 0 .. N - 2
    BY <1>1, RankBounds
  <2>2. s.distance \in Int /\ seen[n].distance \in Int
    BY <1>1, DistanceIsInt, DistanceIn
  <2>3. RankIn(seen', n) =
          RankIn(seen, n) + (IF s.distance <= seen[n].distance THEN 1 ELSE 0)
    BY <1>1, RankAppended
  <2> QED
    BY <1>3, <2>1, <2>2, <2>3
<1> HIDE DEF c, N
<1>5. c \in Index =>
        \A l \in Index : nearest'[l] = IF l < c THEN nearest[l]
                                       ELSE IF l = c THEN s
                                       ELSE IF Free(nearest[c]) THEN nearest[l]
                                       ELSE nearest[l - 1]
  BY <1>2 DEF Insert
<1>6. c \notin Index => nearest' = nearest
  BY <1>2
<1>7. \A k \in Index : Free(nearest[k]) <=> k >= N - 1
  BY <1>1 DEF RankInv, FreeTail, N
<1>8. \A n \in DOMAIN seen :
        RankIn(seen, n) < NEAREST_SERVERS_NUM => nearest[RankIn(seen, n)] = seen[n]
  BY RankIsRankIn DEF RankInv, HoldsTheNearest
<1>9. ASSUME NEW n \in DOMAIN seen', RankIn(seen', n) < NEAREST_SERVERS_NUM
      PROVE  nearest'[RankIn(seen', n)] = seen'[n]
  <2>1. CASE n = N
    BY <1>1, <1>3, <1>5, <1>9, <2>1, TableAssumption DEF c, Index
  <2>2. CASE n # N
    <3> DEFINE r == RankIn(seen, n)
    <3>1. n \in DOMAIN seen /\ seen'[n] = seen[n] /\ r \in 0 .. N - 2
      BY <1>1, <1>4, <2>2
    <3>2. RankIn(seen', n) = IF r < c THEN r ELSE r + 1
      BY <1>4, <3>1
    <3>3. r < NEAREST_SERVERS_NUM => nearest[r] = seen[n]
      BY <1>8, <3>1
    <3> HIDE DEF r
    <3>4. CASE r < c
      <4>1. RankIn(seen', n) = r /\ r \in Index
        BY <1>9, <3>1, <3>2, <3>4, TableAssumption DEF Index
      <4>2. nearest'[r] = nearest[r]
        BY <1>5, <1>6, <3>4, <4>1
      <4> QED
        BY <1>9, <3>1, <3>3, <4>1, <4>2
    <3>5. CASE c <= r
      <4>1. /\ RankIn(seen', n) = r + 1
            /\ r \in Index /\ r + 1 \in Index /\ c \in Index /\ c < N - 1
            /\ c < r + 1 /\ r + 1 - 1 = r
        BY <1>1, <1>3, <1>9, <3>1, <3>2, <3>5, TableAssumption DEF Index
      <4>2. ~Free(nearest[c])
        BY <1>1, <1>3, <1>7, <4>1
      <4>3. nearest'[r + 1] = nearest[r]
        BY <1>3, <1>5, <4>1, <4>2
      <4> QED
        BY <1>9, <3>1, <3>3, <4>1, <4>3, TableAssumption DEF Index
    <3> QED
      BY <1>3, <3>1, <3>4, <3>5
  <2> QED
    BY <2>1, <2>2
<1>10. ASSUME NEW k \in Index
       PROVE  Free(nearest'[k]) <=> k >= N
  <2>1. CASE c \notin Index
    <3>1. nearest'[k] = nearest[k] /\ k < c /\ k < N - 1
      BY <1>1, <1>3, <1>6, <2>1, TableAssumption DEF Index
    <3> QED
      BY <1>1, <1>7, <3>1 DEF Index
  <2>2. CASE c \in Index /\ k < c
    <3>1. nearest'[k] = nearest[k] /\ k < N - 1
      BY <1>1, <1>3, <1>5, <2>2 DEF Index
    <3> QED
      BY <1>1, <1>7, <3>1 DEF Index
  <2>3. CASE c \in Index /\ k = c
    BY <1>1, <1>3, <1>5, <2>3 DEF Index
  <2>4. CASE c \in Index /\ k > c /\ c = N - 1
    <3>1. nearest'[k] = nearest[k] /\ k >= N
      BY <1>1, <1>3, <1>5, <1>7, <2>4 DEF Index
    <3> QED
      BY <1>1, <1>7, <3>1 DEF Index
  <2>5. CASE c \in Index /\ k > c /\ c < N - 1
    <3>1. nearest'[k] = nearest[k - 1] /\ k - 1 \in Index
      BY <1>1, <1>3, <1>5, <1>7, <2>5, TableAssumption DEF Index
    <3> QED
      BY <1>1, <1>7, <3>1 DEF Index
  <2> QED
    BY <1>1, <1>3, <2>1, <2>2, <2>3, <2>4, <2>5 DEF Index
<1>11. FreeTail'
  BY <1>1, <1>10 DEF FreeTail
<1>12. HoldsTheNearest'
  BY <1>9, RankIsRankIn DEF HoldsTheNearest
<1> QED
  BY <1>11, <1>12 DEF RankInv

LEMMA InitRank == NearestInit => RankInv
BY TableAssumption, NearestAssumption DEF NearestInit, RankInv, FreeTail,
  HoldsTheNearest, NoServer, Free, Index

LEMMA NextRank == TableInv /\ RankInv /\ [NearestNext]_nearestVars => RankInv'
<1> SUFFICES ASSUME TableInv, RankInv, [NearestNext]_nearestVars
             PROVE  RankInv'
  OBVIOUS
<1>1. CASE UNCHANGED <<nearest, seen>>
  BY <1>1, RankIsRankIn DEF RankInv, FreeTail, HoldsTheNearest
<1>2. ASSUME NEW kind \in {"whole", "cut", "bare"}, NEW d \in Distances,
             ReadServer(Parse(kind, d))
      PROVE  RankInv'
  <2> DEFINE s == Parse(kind, d)
  <2>1. s \in Server
    BY ParseServer DEF TableInv
  <2>2. /\ seen' = IF Free(s) THEN seen ELSE Append(seen, s)
        /\ \/ \E k \in Place(s) : nearest' = Insert(s, k)
           \/ Place(s) = {} /\ UNCHANGED nearest
    BY <1>2 DEF ReadServer
  <2>3. CASE Free(s)
    <3>1. Free(parsed) /\ s = parsed
      BY <2>3 DEF Parse, Free, TableInv, NearestTypeOK
    <3>2. seen = <<>> /\ seen' = <<>> /\ \A k \in Index : Free(nearest[k])
      BY <2>2, <2>3, <3>1 DEF TableInv, BuffersInv
    <3>3. \A k \in Index : Free(nearest'[k])
      BY <2>2, <2>3, <3>2 DEF Insert, Place
    <3> QED
      BY <3>2, <3>3 DEF RankInv, FreeTail, HoldsTheNearest, Index
  <2>4. CASE ~Free(s)
    BY <2>1, <2>2, <2>4, InsertRanks
  <2> QED
    BY <2>3, <2>4
<1> QED
  BY <1>1, <1>2 DEF NearestNext, ReadLine, ReadOther, Return, nearestVars

(* The table is the beginning of the list of all servers read, in the      *)
(* order of their distance and the later of equals first: no slot is       *)
(* missed, none is filled twice.                                           *)
THEOREM TableHoldsTheNearest == NearestSpec => []HoldsTheNearest
<1>1. RankInv => HoldsTheNearest
  BY DEF RankInv
<1> QED
  BY <1>1, InitTable, NextTable, InitRank, NextRank, PTL DEF NearestSpec

-----------------------------------------------------------------------------
(* get_best_server.                                                        *)

(* Somebody up to server k sent the right content, or a former run left it.*)
HeardBy(k) == leftover = "good" \/ \E j \in answered : j <= k

(* The file and the buffer hold nothing that was not heard by server i;    *)
(* a file left from before the first server is gone after it.              *)
FileInv ==
  /\ stage \in {"idle", "resolve", "fetch", "read"} /\ line = "good" => HeardBy(i)
  /\ stage \in {"idle", "resolve", "fetch", "read"} /\ file = "good" => HeardBy(i)
  /\ stage = "idle" => i = 0
  /\ stage \in {"resolve", "fetch"} /\ i > 0 => file = "absent"
  /\ stage = "read" /\ i > 0 /\ file # "absent" => i \in resolved
  /\ stage = "fetch" => i \in resolved

(* A server with a latency was reached, the first one excepted.            *)
CountedResolved == \A k \in Tried : k > 0 /\ latency[k] # -1 => k \in resolved

(* The servers the last loop has looked at.                                *)
Compared == IF stage = "done" THEN Index
            ELSE IF stage = "select" THEN 0 .. i - 1 ELSE {}

(* The best so far, and its latency in the local variable.                 *)
SelectInv ==
  Compared # {} =>
    /\ best \in Compared /\ low = latency[best]
    /\ best # 0 => low # -1
    /\ latency[0] # -1 =>
         /\ low # -1
         /\ \A k \in Compared : latency[k] # -1 =>
              low < latency[k] \/ (low = latency[k] /\ best <= k)

BestInv ==
  BestTypeOK /\ FileInv /\ CountedAfterAnAnswer /\ CountedResolved /\ SelectInv

LEMMA InitBest == BestInit => BestInv
BY TableAssumption, BestAssumption DEF BestInit, BestInv, BestTypeOK, FileInv, HeardBy,
  CountedAfterAnAnswer, CountedResolved, SelectInv, Compared, Tried, Index,
  Stages, Contents

LEMMA NextBest == BestInv /\ [BestNext]_bestVars => BestInv'
<1> SUFFICES ASSUME BestInv, [BestNext]_bestVars
             PROVE  BestInv'
  OBVIOUS
<1> USE TableAssumption, BestAssumption DEF BestInv, Index
<1>6. ASSUME NEW n \in 0 .. NEAREST_SERVERS_NUM, get_best_server(n)
      PROVE  BestInv'
  BY <1>6 DEF get_best_server, BestTypeOK, FileInv, HeardBy,
    CountedAfterAnAnswer, CountedResolved, SelectInv, Compared, Tried, Stages,
    Contents
<1>1. CASE get_ipv4_addr
  BY <1>1 DEF get_ipv4_addr, BestTypeOK, FileInv, HeardBy, CountedAfterAnAnswer,
    CountedResolved, SelectInv, Compared, Tried, Stages, Contents
<1>2. CASE get_file
  <2>1. BestTypeOK'
    <3>1. elapsed' \in Int
      BY <1>2 DEF get_file
    <3>2. file' \in Contents \union {"absent"} /\ answered' \subseteq resolved
      BY <1>2 DEF get_file, BestTypeOK, FileInv
    <3> QED
      BY <1>2, <3>1, <3>2 DEF get_file, BestTypeOK, Stages
  <2>2. FileInv'
    BY <1>2 DEF get_file, BestTypeOK, FileInv, HeardBy, Contents
  <2>3. CountedAfterAnAnswer' /\ CountedResolved' /\ SelectInv'
    BY <1>2 DEF get_file, BestTypeOK, CountedAfterAnAnswer, CountedResolved,
      SelectInv, Compared, Tried
  <2> QED
    BY <2>1, <2>2, <2>3
<1>3. CASE ReadFile
  <2> DEFINE text == IF file \in {"absent", "empty"} THEN line ELSE file
  <2>1. /\ stage = "read" /\ line' = text /\ file' = "absent"
        /\ latency' = [latency EXCEPT ![i] = Measure(text)]
        /\ UNCHANGED <<filled, elapsed, resolved, best, low, leftover, answered>>
    BY <1>3 DEF ReadFile, unlink
  <2>2. \/ i + 1 < NEAREST_SERVERS_NUM /\ i' = i + 1 /\ stage' = "resolve"
        \/ i = NEAREST_SERVERS_NUM - 1 /\ i' = 0 /\ stage' = "select"
    BY <1>3 DEF ReadFile, NextServer, BestTypeOK
  <2>3. Tried = 0 .. i - 1 /\ Tried' = 0 .. i
    BY <2>1, <2>2 DEF Tried, BestTypeOK
  <2>4. text \in Contents /\ Measure(text) \in Int
    BY DEF BestTypeOK, Contents, Measure
  <2>5. BestTypeOK'
    BY <2>1, <2>2, <2>4 DEF BestTypeOK, Stages, Contents
  <2>6. text = "good" => HeardBy(i)
    BY <2>1 DEF FileInv, BestTypeOK, Contents
  <2>7. FileInv'
    BY <2>1, <2>2, <2>6 DEF FileInv, HeardBy, BestTypeOK
  <2>8. \A k \in Tried' : k # i => k \in Tried /\ latency'[k] = latency[k]
    BY <2>1, <2>3 DEF BestTypeOK
  <2>9. latency'[i] = Measure(text)
    BY <2>1 DEF BestTypeOK
  <2>10. CountedAfterAnAnswer'
    BY <2>1, <2>6, <2>8, <2>9 DEF CountedAfterAnAnswer, HeardBy, Measure
  <2>11. CountedResolved'
    BY <2>1, <2>8, <2>9 DEF CountedResolved, FileInv, Measure
  <2>12. SelectInv'
    BY <2>2 DEF SelectInv, Compared
  <2> QED
    BY <2>5, <2>7, <2>10, <2>11, <2>12
<1>4. CASE Select
  <2>1. BestTypeOK'
    BY <1>4 DEF Select, BestTypeOK, Stages
  <2>2. FileInv' /\ CountedAfterAnAnswer' /\ CountedResolved'
    BY <1>4 DEF Select, FileInv, CountedAfterAnAnswer, CountedResolved, Tried
  <2>3. /\ Compared = 0 .. i - 1 /\ Compared' = 0 .. i
        /\ latency' = latency /\ latency \in [Index -> Int] /\ i \in Index
    BY <1>4 DEF Select, Compared, BestTypeOK
  <2>4. SelectInv'
    <3>1. CASE i = 0
      BY <1>4, <2>3, <3>1 DEF Select, SelectInv
    <3>2. CASE i # 0 /\ Beats
      <4>1. best' = i /\ low' = latency[i] /\ latency[i] < low /\ latency[i] # -1
        BY <1>4, <3>2 DEF Select, Beats
      <4>2. 0 \in Compared /\ low \in Int
        BY <2>3, <3>2 DEF BestTypeOK
      <4>3. best' \in Compared' /\ low' = latency'[best'] /\ (best' # 0 => low' # -1)
        BY <2>3, <4>1, <4>2 DEF SelectInv
      <4>4. ASSUME latency[0] # -1, NEW k \in Compared', latency[k] # -1
            PROVE  /\ low' # -1
                   /\ low' < latency[k] \/ (low' = latency[k] /\ best' <= k)
        <5>1. /\ low # -1
              /\ \A n \in Compared : latency[n] # -1 =>
                   low < latency[n] \/ (low = latency[n] /\ best <= n)
          BY <4>2, <4>4 DEF SelectInv
        <5>2. /\ latency[k] \in Int /\ latency[i] \in Int
              /\ k \in Compared \/ k = i
          BY <2>3
        <5>3. best \in 0 .. i - 1
          BY <2>3, <4>2 DEF SelectInv
        <5> QED
          BY <2>3, <4>1, <4>2, <4>4, <5>1, <5>2, <5>3
      <4>5. 0 \in Compared'
        BY <2>3
      <4> QED
        BY <2>3, <4>3, <4>4, <4>5 DEF SelectInv
    <3>3. CASE i # 0 /\ ~Beats
      <4>1. best' = best /\ low' = low /\ ~(latency[i] < low /\ latency[i] # -1)
        BY <1>4, <3>3 DEF Select, Beats
      <4>2. 0 \in Compared /\ low \in Int
        BY <2>3, <3>3 DEF BestTypeOK
      <4>3. best' \in Compared' /\ low' = latency'[best'] /\ (best' # 0 => low' # -1)
        <5>1. best \in Compared /\ low = latency[best] /\ (best # 0 => low # -1)
          BY <4>2 DEF SelectInv
        <5>2. best \in Compared'
          BY <2>3, <5>1
        <5>3. best' = best /\ low' = low
          BY <4>1
        <5> QED
          BY <2>3, <5>1, <5>2, <5>3
      <4>4. ASSUME latency[0] # -1, NEW k \in Compared', latency[k] # -1
            PROVE  /\ low' # -1
                   /\ low' < latency[k] \/ (low' = latency[k] /\ best' <= k)
        <5>1. /\ low # -1
              /\ \A n \in Compared : latency[n] # -1 =>
                   low < latency[n] \/ (low = latency[n] /\ best <= n)
          BY <4>2, <4>4 DEF SelectInv
        <5>2. /\ latency[k] \in Int /\ latency[i] \in Int
              /\ k \in Compared \/ k = i
          BY <2>3
        <5>3. best \in 0 .. i - 1
          BY <2>3, <4>2 DEF SelectInv
        <5> QED
          BY <2>3, <4>1, <4>2, <4>4, <5>1, <5>2, <5>3
      <4>5. 0 \in Compared'
        BY <2>3
      <4> QED
        BY <2>3, <4>3, <4>4, <4>5 DEF SelectInv
    <3> QED
      BY <3>1, <3>2, <3>3
  <2> QED
    BY <2>1, <2>2, <2>4
<1>5. CASE UNCHANGED bestVars
  BY <1>5 DEF bestVars, BestTypeOK, FileInv, HeardBy, CountedAfterAnAnswer,
    CountedResolved, SelectInv, Compared, Tried
<1> QED
  BY <1>1, <1>2, <1>3, <1>4, <1>5, <1>6 DEF BestNext, Round

(* Every variable of get_best_server keeps its type, best_index included:  *)
(* main's test for an index out of range never succeeds.                   *)
THEOREM BestTypes == BestSpec => []BestTypeOK
<1>1. BestInv => BestTypeOK
  BY DEF BestInv
<1> QED
  BY <1>1, InitBest, NextBest, PTL DEF BestSpec

(* What get_best_server returns is an index of the table, never -1.        *)
ReturnsIndex == stage = "done" => best \in Index

THEOREM BestIsIndex == BestSpec => []ReturnsIndex
<1>1. BestInv => ReturnsIndex
  BY TableAssumption DEF BestInv, SelectInv, Compared, ReturnsIndex, Index
<1> QED
  BY <1>1, InitBest, NextBest, PTL DEF BestSpec

(* A server has a latency only after an answer of its own, of a server     *)
(* before it or of a former run.                                           *)
THEOREM CountedWereHeard == BestSpec => []CountedAfterAnAnswer
<1>1. BestInv => CountedAfterAnAnswer
  BY DEF BestInv
<1> QED
  BY <1>1, InitBest, NextBest, PTL DEF BestSpec

(* From the second server on no file of an earlier server is there.        *)
THEOREM FilesAreFresh == BestSpec => []NoStaleFile
<1>1. BestInv => NoStaleFile
  BY DEF BestInv, FileInv, NoStaleFile
<1> QED
  BY <1>1, InitBest, NextBest, PTL DEF BestSpec

(* If the first server is counted, the fastest counted one is chosen.      *)
THEOREM FastestIsChosen == BestSpec => []FastestOfCounted
<1>1. BestInv => FastestOfCounted
  BY TableAssumption, BestAssumption DEF BestInv, SelectInv, Compared, FastestOfCounted, Index
<1> QED
  BY <1>1, InitBest, NextBest, PTL DEF BestSpec

(* The server chosen has an address, unless it is the first.               *)
THEOREM ChosenResolved == BestSpec => []ChosenHasAddress
<1>1. BestInv => ChosenHasAddress
  BY TableAssumption, BestAssumption DEF BestInv, BestTypeOK, CountedResolved, SelectInv, Compared,
    Tried, ChosenHasAddress, Index
<1> QED
  BY <1>1, InitBest, NextBest, PTL DEF BestSpec

-----------------------------------------------------------------------------
(* Ref's main().                                                           *)

LEMMA FoundInTable == Found \in 0 .. NEAREST_SERVERS_NUM
<1> DEFINE F == {k \in Index : ~Free(nearest[k])}
<1>1. IsFiniteSet(Index) /\ Cardinality(Index) = NEAREST_SERVERS_NUM
  BY FS_Interval, TableAssumption DEF Index
<1>2. /\ IsFiniteSet(F) /\ Cardinality(F) <= Cardinality(Index)
      /\ Cardinality(F) \in Nat
  BY <1>1, FS_Subset, FS_CardinalityType
<1> QED
  BY <1>1, <1>2, TableAssumption DEF Found

(* Every step of main() is a step of one of the functions, or of neither.  *)
LEMMA StepOfParts ==
  [Next]_vars => [NearestNext]_nearestVars /\ [BestNext]_bestVars
<1> SUFFICES ASSUME [Next]_vars
             PROVE  [NearestNext]_nearestVars /\ [BestNext]_bestVars
  OBVIOUS
<1>1. CASE FetchConfig \/ FetchList
  BY <1>1 DEF FetchConfig, FetchList
<1>2. CASE get_nearest_server
  BY <1>2 DEF get_nearest_server, NearestNext
<1>3. CASE CallBest
  BY <1>3, FoundInTable DEF CallBest, BestNext
<1>4. CASE RunBest
  BY <1>4 DEF RunBest, BestNext
<1>5. CASE UNCHANGED vars
  BY <1>5 DEF vars
<1> QED
  BY <1>1, <1>2, <1>3, <1>4, <1>5 DEF Next

(* Ref implements the two functions composed.                              *)
THEOREM RunsBothFunctions == Spec => NearestSpec /\ BestSpec
<1>1. Init => NearestInit /\ BestInit
  BY DEF Init
<1> QED
  BY <1>1, StepOfParts, PTL DEF Spec, NearestSpec, BestSpec

(* The measurement comes after the choice.                                 *)
MeasureAfterChoice ==
  /\ step = "measure" => stage = "done"
  /\ step # "measure" => stage # "done"

LEMMA ChoiceFirst == Spec => []MeasureAfterChoice
<1>1. Init => MeasureAfterChoice
  BY DEF Init, BestInit, MeasureAfterChoice
<1>2. MeasureAfterChoice /\ [Next]_vars => MeasureAfterChoice'
  <2> SUFFICES ASSUME MeasureAfterChoice, [Next]_vars
               PROVE  MeasureAfterChoice'
    OBVIOUS
  <2>1. CASE FetchConfig \/ FetchList
    BY <2>1 DEF FetchConfig, FetchList, Fetched, bestVars, MeasureAfterChoice
  <2>2. CASE get_nearest_server
    BY <2>2 DEF get_nearest_server, bestVars, MeasureAfterChoice
  <2>3. CASE CallBest
    BY <2>3 DEF CallBest, get_best_server, MeasureAfterChoice
  <2>4. CASE RunBest
    BY <2>4 DEF RunBest, MeasureAfterChoice
  <2>5. CASE UNCHANGED vars
    BY <2>5 DEF vars, bestVars, MeasureAfterChoice
  <2> QED
    BY <2>1, <2>2, <2>3, <2>4, <2>5 DEF Next
<1> QED
  BY <1>1, <1>2, PTL DEF Spec

(* Of the servers with the lowest latency the nearest is chosen.           *)
THEOREM NearestOfFastestIsChosen == Spec => []NearestOfFastest
<1>1. /\ BestTypeOK /\ NearestTypeOK /\ Sorted
      /\ FastestOfCounted /\ MeasureAfterChoice /\ ReturnsIndex
      => NearestOfFastest
  <2> SUFFICES ASSUME BestTypeOK, NearestTypeOK, Sorted, FastestOfCounted,
                      MeasureAfterChoice, ReturnsIndex,
                      step = "measure", latency[0] # -1,
                      NEW k \in Index, latency[k] = latency[best],
                      ~Free(nearest[k]), ~Free(nearest[best])
               PROVE  nearest[best].distance <= nearest[k].distance
    BY DEF NearestOfFastest
  <2>1. stage = "done"
    BY DEF MeasureAfterChoice
  <2>2. latency \in [Index -> Int] /\ best \in Int /\ k \in 0 .. NEAREST_SERVERS_NUM - 1
    BY DEF BestTypeOK, Index
  <2>3. latency[best] # -1 /\ latency[k] \in Int
    BY <2>1, <2>2 DEF FastestOfCounted
  <2>4. best <= k
    BY <2>1, <2>2, <2>3 DEF FastestOfCounted
  <2>5. CASE best = k
    <3>1. nearest[k].distance \in Nat
      BY NearestAssumption DEF NearestTypeOK, Server
    <3> QED
      BY <2>5, <3>1
  <2>6. CASE best # k
    <3>1. best < k
      BY <2>2, <2>4, <2>6
    <3>2. best \in Index
      BY <2>1 DEF ReturnsIndex
    <3> QED
      BY <3>1, <3>2 DEF Sorted
  <2> QED
    BY <2>5, <2>6
<1> QED
  BY <1>1, RunsBothFunctions, ChoiceFirst, BestTypes, BestIsIndex, NearestTypes,
    TableIsSorted, FastestIsChosen, PTL

-----------------------------------------------------------------------------
(* Whatever is in the table has been read from the list.                   *)
FromList ==
  \A k \in Index : Free(nearest[k]) \/ \E m \in DOMAIN seen : nearest[k] = seen[m]

(* main() does not come to the measurement without a list, nor with one    *)
(* that broke off.                                                         *)
ListInv ==
  /\ list \in {"absent", "old", "new"} \/ step = "stopped"
  /\ list = "absent" => count = 0
  /\ step \in {"best", "measure"} => count > 0

(* get_best_server works on the servers at the head of the table, and      *)
(* resolves no other slot.                                                 *)
CallInv ==
  /\ stage # "idle" => filled = Found
  /\ stage # "idle" => step \in {"best", "measure"}
  /\ \A k \in resolved : stage # "idle" /\ k < filled

RefInv ==
  TableInv /\ BestInv /\ FromList /\ ListInv /\ CallInv /\ MeasureAfterChoice

LEMMA HeadIsFilled ==
  ASSUME Sorted, NEW k \in Index, k < Found
  PROVE  ~Free(nearest[k])
<1> SUFFICES ASSUME Free(nearest[k])
             PROVE  FALSE
  OBVIOUS
<1> DEFINE F == {l \in Index : ~Free(nearest[l])}
<1>1. F \subseteq 0 .. k - 1
  BY TableAssumption DEF Sorted, Index
<1>2. /\ IsFiniteSet(0 .. k - 1)
      /\ Cardinality(0 .. k - 1) = IF 0 > k - 1 THEN 0 ELSE (k - 1) - 0 + 1
  BY FS_Interval DEF Index
<1>3. Cardinality(F) <= Cardinality(0 .. k - 1)
  BY <1>1, <1>2, FS_Subset
<1>4. Cardinality(0 .. k - 1) = k
  BY <1>2 DEF Index
<1>5. Cardinality(F) \in Nat
  BY <1>1, <1>2, FS_Subset, FS_CardinalityType
<1>6. Found = Cardinality(F)
  BY DEF Found
<1> QED
  BY <1>3, <1>4, <1>5, <1>6 DEF Index

LEMMA FirstIsFilled ==
  ASSUME TableInv, seen # <<>>
  PROVE  ~Free(nearest[0])
<1>1. 1 \in DOMAIN seen
  BY DEF TableInv, NearestTypeOK
<1>2. ~Free(seen[1])
  BY <1>1 DEF TableInv, BuffersInv
<1>3. 0 \in Index
  BY TableAssumption DEF Index
<1>4. CASE \E k \in Index : nearest[k] = seen[1]
  <2>1. PICK k \in Index : nearest[k] = seen[1]
    BY <1>4
  <2>2. k = 0 \/ 0 < k
    BY <2>1 DEF Index
  <2> QED
    BY <1>2, <1>3, <2>1, <2>2 DEF TableInv, Sorted
<1>5. CASE \A k \in Index : ~Free(nearest[k])
  BY <1>3, <1>5
<1> QED
  BY <1>1, <1>4, <1>5 DEF TableInv, NoneNearerDropped

LEMMA InitRef == Init => RefInv
<1> SUFFICES ASSUME Init
             PROVE  RefInv
  OBVIOUS
<1>1. TableInv /\ BestInv
  BY InitTable, InitBest DEF Init
<1> QED
  BY <1>1 DEF Init, NearestInit, BestInit, RefInv, FromList, ListInv, CallInv,
    MeasureAfterChoice, NoServer, Free

LEMMA FromListKept ==
  ASSUME TableInv, FromList, ReadLine
  PROVE  FromList'
<1>1. CASE ReadOther
  BY <1>1 DEF ReadOther, FromList
<1>2. ASSUME NEW kind \in {"whole", "cut", "bare"}, NEW d \in Distances,
             ReadServer(Parse(kind, d))
      PROVE  FromList'
  <2> DEFINE s == Parse(kind, d)
  <2>1. s \in Server
    BY ParseServer DEF TableInv
  <2>2. /\ seen' = IF Free(s) THEN seen ELSE Append(seen, s)
        /\ \/ \E k \in Place(s) : nearest' = Insert(s, k)
           \/ Place(s) = {} /\ UNCHANGED nearest
    BY <1>2 DEF ReadServer
  <2>3. /\ \A m \in DOMAIN seen : m \in DOMAIN seen' /\ seen'[m] = seen[m]
        /\ ~Free(s) => \E m \in DOMAIN seen' : seen'[m] = s
    <3>1. seen \in Seq(Server)
      BY DEF TableInv, NearestTypeOK
    <3>2. CASE Free(s)
      BY <2>2, <3>2
    <3>3. CASE ~Free(s)
      <4>1. seen' = Append(seen, s)
        BY <2>2, <3>3
      <4>2. /\ Len(seen) + 1 \in DOMAIN seen' /\ seen'[Len(seen) + 1] = s
            /\ \A m \in DOMAIN seen : m \in DOMAIN seen' /\ seen'[m] = seen[m]
        BY <2>1, <3>1, <4>1
      <4> QED
        BY <4>2
    <3> QED
      BY <3>2, <3>3
  <2>4. CASE UNCHANGED nearest
    BY <2>3, <2>4 DEF FromList
  <2>5. ASSUME NEW k \in Place(s), nearest' = Insert(s, k), NEW l \in Index
        PROVE  Free(nearest'[l]) \/ \E m \in DOMAIN seen' : nearest'[l] = seen'[m]
    <3>1. \/ nearest'[l] = s
          \/ \E n \in Index : nearest'[l] = nearest[n]
      <4>1. k \in Index
        BY DEF Place
      <4>2. nearest'[l] = IF l < k THEN nearest[l]
                          ELSE IF l = k THEN s
                          ELSE IF Free(nearest[k]) THEN nearest[l]
                          ELSE nearest[l - 1]
        BY <2>5 DEF Insert
      <4>3. l > k => l - 1 \in Index
        BY <4>1, TableAssumption DEF Index
      <4>4. l < k \/ l = k \/ l > k
        BY <4>1 DEF Index
      <4> QED
        BY <4>2, <4>3, <4>4
    <3> QED
      BY <2>3, <3>1 DEF FromList
  <2> QED
    BY <2>2, <2>4, <2>5 DEF FromList
<1> QED
  BY <1>1, <1>2 DEF ReadLine

LEMMA NextRef == RefInv /\ [Next]_vars => RefInv'
<1> SUFFICES ASSUME RefInv, [Next]_vars
             PROVE  RefInv'
  OBVIOUS
<1>1. TableInv' /\ BestInv'
  BY StepOfParts, NextTable, NextBest DEF RefInv
<1>2. CASE FetchConfig
  <2>1. UNCHANGED <<nearestVars, bestVars, list>> /\ step = "config"
    BY <1>2 DEF FetchConfig
  <2>2. step' \in {"list", "stopped"}
    BY <1>2 DEF FetchConfig, Fetched
  <2> QED
    BY <1>1, <2>1, <2>2 DEF nearestVars, bestVars, RefInv, FromList, ListInv,
      CallInv, Found, MeasureAfterChoice
<1>3. CASE FetchList
  <2>1. UNCHANGED <<nearestVars, bestVars>> /\ step = "list"
    BY <1>3 DEF FetchList
  <2>2. \/ step' = "nearest" /\ list' \in {list, "new"}
        \/ step' = "stopped" /\ list' \in {list, "broken"}
    BY <1>3 DEF FetchList, Fetched, get_http_file
  <2>3. list' = "absent" => list = "absent"
    BY <2>2
  <2> QED
    BY <1>1, <2>1, <2>2, <2>3 DEF nearestVars, bestVars, RefInv, FromList,
      ListInv, CallInv, Found, MeasureAfterChoice
<1>4. CASE get_nearest_server
  <2>1. UNCHANGED <<bestVars, list>> /\ step = "nearest"
    BY <1>4 DEF get_nearest_server
  <2>2. stage = "idle" /\ resolved = {}
    BY <2>1 DEF RefInv, CallInv
  <2>3. CASE list # "absent" /\ ReadLine /\ UNCHANGED step
    <3>1. FromList'
      BY <2>3, FromListKept DEF RefInv
    <3> QED
      BY <1>1, <2>1, <2>2, <2>3, <3>1 DEF bestVars, RefInv, ListInv, CallInv,
        MeasureAfterChoice
  <2>4. CASE Return /\ step' = IF result' = 0 THEN "stopped" ELSE "best"
    <3>1. UNCHANGED <<nearest, seen, count>> /\ (count > 0 \/ step' = "stopped")
      BY <2>4 DEF Return
    <3>2. step' \in {"stopped", "best"}
      BY <2>4
    <3> QED
      BY <1>1, <2>1, <2>2, <3>1, <3>2 DEF bestVars, RefInv, FromList, ListInv,
        CallInv, Found, MeasureAfterChoice
  <2> QED
    BY <1>4, <2>3, <2>4 DEF get_nearest_server
<1>5. CASE CallBest
  BY <1>1, <1>5 DEF CallBest, get_best_server, nearestVars, RefInv, FromList,
    ListInv, CallInv, Found, MeasureAfterChoice
<1>6. CASE RunBest
  <2>1. /\ UNCHANGED <<nearestVars, list>> /\ step = "best"
        /\ step' = IF stage' = "done" THEN "measure" ELSE step
    BY <1>6 DEF RunBest
  <2>2. /\ stage # "idle" /\ stage' # "idle" /\ filled' = filled
        /\ \A k \in resolved' : k \in resolved \/ k < filled
    BY <1>6 DEF RunBest, Round, get_ipv4_addr, get_file, ReadFile, NextServer,
      Select
  <2> QED
    BY <1>1, <2>1, <2>2 DEF nearestVars, RefInv, FromList, ListInv, CallInv,
      Found, MeasureAfterChoice
<1>7. CASE UNCHANGED vars
  BY <1>1, <1>7 DEF vars, nearestVars, bestVars, RefInv, FromList, ListInv,
    CallInv, Found, MeasureAfterChoice
<1> QED
  BY <1>2, <1>3, <1>4, <1>5, <1>6, <1>7 DEF Next

(* The measurement is made with a server read from a list that did not     *)
(* break off, unless no line of it had a url.                              *)
THEOREM ListedServerIsMeasured == Spec => []MeasuresAListedServer
<1>1. RefInv => MeasuresAListedServer
  <2> SUFFICES ASSUME RefInv, step = "measure"
               PROVE  /\ list \in {"old", "new"}
                      /\ seen # <<>> => \E m \in DOMAIN seen : nearest[best] = seen[m]
    BY DEF MeasuresAListedServer
  <2>1. list \in {"old", "new"}
    BY DEF RefInv, ListInv
  <2>2. stage = "done"
    BY DEF RefInv, MeasureAfterChoice
  <2>3. best \in Index
    BY <2>2, TableAssumption DEF RefInv, BestInv, SelectInv, Compared, Index
  <2>4. best = 0 \/ best < Found
    BY <2>2, TableAssumption DEF RefInv, CallInv, BestInv, BestTypeOK,
      CountedResolved, SelectInv, Compared, Tried, Index
  <2>5. seen # <<>> => ~Free(nearest[best])
    BY <2>3, <2>4, FirstIsFilled, HeadIsFilled DEF RefInv, TableInv
  <2> QED
    BY <2>1, <2>3, <2>5 DEF RefInv, FromList
<1> QED
  BY <1>1, InitRef, NextRef, PTL DEF Spec
=============================================================================
