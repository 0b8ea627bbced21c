--------------------------- MODULE StartupProofs ---------------------------
(***************************************************************************)
(* What holds of the first half of main() in both builds, for every number *)
(* of pieces a peer sends and every size of the buffer.                    *)
(***************************************************************************)
EXTENDS Startup, FiniteSetTheorems, SequenceTheorems, TLAPS

Failures == {"no address", "no servers"}

-----------------------------------------------------------------------------
(* What the end of a fetch does: main() goes on, or stops with a message.  *)
LEMMA FinishMoves ==
  ASSUME TypeOK, NEW r \in {"refused", "broken", "whole"}, Finish(r)
  PROVE  /\ sent' = <<>> /\ taken' = 0 /\ first' = 0 /\ ended' = "no"
         /\ status' = FALSE /\ late' = FALSE /\ past' = FALSE
         /\ ret' = [ret EXCEPT ![which] = r] /\ which' \in Files
         /\ \/ Stops(r) /\ step' = "over" /\ outcome' \in Failures /\ which' = which
            \/ /\ ~Stops(r) /\ outcome' = outcome
               /\ \/ which = "config" /\ which' = "servers" /\ step' = "resolve"
                  \/ which = "servers" /\ which' = which /\ step' = "position"
<1>1. which \in Files
  BY DEF TypeOK
<1>2. Message["config"] = "no address" /\ Message["servers"] = "no servers"
  BY DEF Message
<1>3. CASE Stops(r)
  BY <1>1, <1>2, <1>3 DEF Finish, Failures, Files
<1>4. CASE ~Stops(r)
  BY <1>1, <1>4 DEF Finish, Proceed, Files
<1> QED BY <1>3, <1>4

LEMMA ProceedMoves ==
  ASSUME TypeOK, Proceed
  PROVE  /\ outcome' = outcome
         /\ \/ which = "config" /\ which' = "servers" /\ step' = "resolve"
            \/ which = "servers" /\ which' = which /\ step' = "position"
BY DEF Proceed, TypeOK, Files

-----------------------------------------------------------------------------
(* What the loop writes of a block.                                        *)
LEMMA FirstNumbers ==
  ASSUME NEW n \in Nat
  PROVE  IsFiniteSet(1 .. n) /\ Cardinality(1 .. n) = n
BY FS_Interval

LEMMA BeforeWithin ==
  ASSUME NEW t \in Seq(Pieces), NEW stop
  PROVE  Before(t, stop) \in 0 .. Len(t)
<1> DEFINE free == {n \in 1 .. Len(t) : \A i \in 1 .. n : i \notin stop}
<1>1. IsFiniteSet(1 .. Len(t)) /\ Cardinality(1 .. Len(t)) = Len(t)
  <2>1. Len(t) \in Nat
    OBVIOUS
  <2> QED BY <2>1, FirstNumbers
<1>2. IsFiniteSet(free) /\ Cardinality(free) <= Len(t)
  BY <1>1, FS_Subset
<1>3. Cardinality(free) \in Nat
  BY <1>2, FS_CardinalityType
<1> QED BY <1>2, <1>3 DEF Before

LEMMA BeforeFirst ==
  ASSUME NEW t \in Seq(Pieces), NEW stop, NEW k \in 0 .. Len(t),
         \A i \in 1 .. k : i \notin stop, k < Len(t) => k + 1 \in stop
  PROVE  Before(t, stop) = k
<1> DEFINE free == {n \in 1 .. Len(t) : \A i \in 1 .. n : i \notin stop}
<1>1. free = 1 .. k
  <2>1. \A n \in 1 .. Len(t) : n \notin 1 .. k => k < Len(t) /\ k + 1 \in 1 .. n
    OBVIOUS
  <2> QED BY <2>1
<1>2. Cardinality(1 .. k) = k
  BY FS_Interval
<1> QED BY <1>1, <1>2 DEF Before

LEMMA WithinPrefix ==
  ASSUME NEW S, NEW s \in Seq(S), NEW m \in 0 .. Len(s), NEW i \in Nat \ {0}
  PROVE  SubSeq(SubSeq(s, 1, m), i, m) = SubSeq(s, i, m)
<1>1. SubSeq(s, 1, m) \in Seq(S) /\ Len(SubSeq(s, 1, m)) = m
  OBVIOUS
<1> QED BY <1>1

(* What the C string functions see of a block, and what is written of it.  *)
LEMMA WrittenIs ==
  ASSUME NEW b \in Seq(Pieces), NEW beyond \in Seq(Pieces)
  PROVE  \/ Written(b, beyond) = b
         \/ \E i \in Nat \ {0}, n \in 0 .. Len(b \o beyond) :
              Written(b, beyond) = SubSeq(b \o beyond, i, n)
<1> DEFINE all == b \o beyond
           n == strlen(all)
           rbuf == SubSeq(all, 1, n)
           k == strstr(rbuf)
<1>1. all \in Seq(Pieces)
  OBVIOUS
<1>2. n \in 0 .. Len(all)
  BY <1>1, BeforeWithin DEF strlen
<1>3. rbuf \in Seq(Pieces) /\ Len(rbuf) = n
  BY <1>1, <1>2
<1>4. k \in 0 .. n
  BY <1>3, BeforeWithin DEF strstr
<1> HIDE DEF all, n, k
<1>5. SubSeq(rbuf, k + 3, n) = SubSeq(all, k + 3, n)
  <2>1. k + 3 \in Nat \ {0}
    BY <1>4
  <2> QED BY <1>1, <1>2, <2>1, WithinPrefix
<1>6. Written(b, beyond) = IF BlankLines(rbuf) = {} THEN b ELSE SubSeq(rbuf, k + 3, n)
  BY <1>3 DEF Written, all, n, k
<1>7. k + 3 \in Nat \ {0}
  BY <1>4
<1> QED BY <1>2, <1>5, <1>6, <1>7 DEF all

LEMMA WrittenType ==
  ASSUME NEW b \in Seq(Pieces), NEW beyond \in Beyond
  PROVE  Written(b, beyond) \in Seq(Pieces)
<1>1. beyond \in Seq(Pieces)
  <2>1. <<>> \in Seq(Pieces)
    OBVIOUS
  <2>2. "crlf" \in Pieces
    BY DEF Pieces
  <2>3. <<"crlf">> \in Seq(Pieces)
    BY <2>2
  <2>4. <<"crlf", "crlf">> \in Seq(Pieces)
    BY <2>2
  <2> QED BY <2>1, <2>3, <2>4 DEF Beyond
<1>2. b \o beyond \in Seq(Pieces)
  BY <1>1
<1>3. \A i \in Nat \ {0}, n \in 0 .. Len(b \o beyond) :
        SubSeq(b \o beyond, i, n) \in Seq(Pieces)
  <2>1. \A t \in Seq(Pieces), i \in Nat \ {0}, n \in 0 .. Len(b \o beyond) :
          n <= Len(t) => SubSeq(t, i, n) \in Seq(Pieces)
    OBVIOUS
  <2> QED BY <1>2, <2>1
<1>4. \/ Written(b, beyond) = b
      \/ \E i \in Nat \ {0}, n \in 0 .. Len(b \o beyond) :
           Written(b, beyond) = SubSeq(b \o beyond, i, n)
  BY <1>1, WrittenIs
<1> HIDE DEF Written
<1> QED BY <1>3, <1>4

(* Parts of a sequence.                                                    *)
LEMMA SubPart ==
  ASSUME NEW t \in Seq(Pieces), NEW i \in Nat \ {0}, NEW n \in 0 .. Len(t)
  PROVE  PartOf(SubSeq(t, i, n), t)
<1> DEFINE c == SubSeq(t, i, n)
           f == [j \in DOMAIN c |-> j + i - 1]
<1>1. \A j \in DOMAIN c : j \in Nat /\ j + i - 1 \in DOMAIN t /\ c[j] = t[j + i - 1]
  OBVIOUS
<1>2. f \in [DOMAIN c -> DOMAIN t]
  BY <1>1
<1>3. \A j, m \in DOMAIN c : j < m => f[j] < f[m]
  BY <1>1
<1>4. \A j \in DOMAIN c : c[j] = t[f[j]]
  BY <1>1
<1> HIDE DEF f, c
<1>5. PartOf(c, t)
  BY <1>2, <1>3, <1>4 DEF PartOf
<1> QED BY <1>5 DEF c

LEMMA WholePart ==
  ASSUME NEW t \in Seq(Pieces)
  PROVE  PartOf(t, t)
<1>1. SubSeq(t, 1, Len(t)) = t
  OBVIOUS
<1>2. PartOf(SubSeq(t, 1, Len(t)), t)
  BY SubPart
<1> QED BY <1>1, <1>2

LEMMA PartJoins ==
  ASSUME NEW c \in Seq(Pieces), NEW r \in Seq(Pieces), PartOf(c, r),
         NEW w \in Seq(Pieces), NEW b \in Seq(Pieces), PartOf(w, b)
  PROVE  PartOf(c \o w, r \o b)
<1>1. PICK f \in [DOMAIN c -> DOMAIN r] :
        /\ \A i \in DOMAIN c : c[i] = r[f[i]]
        /\ \A i, j \in DOMAIN c : i < j => f[i] < f[j]
  BY DEF PartOf
<1>2. PICK g \in [DOMAIN w -> DOMAIN b] :
        /\ \A i \in DOMAIN w : w[i] = b[g[i]]
        /\ \A i, j \in DOMAIN w : i < j => g[i] < g[j]
  BY DEF PartOf
<1> DEFINE h == [i \in DOMAIN (c \o w) |->
                   IF i <= Len(c) THEN f[i] ELSE g[i - Len(c)] + Len(r)]
<1>3. \A i \in DOMAIN (c \o w) :
        \/ i \in DOMAIN c /\ i <= Len(c) /\ (c \o w)[i] = c[i]
        \/ /\ i \in Nat /\ i > Len(c) /\ i - Len(c) \in DOMAIN w
           /\ (c \o w)[i] = w[i - Len(c)]
  OBVIOUS
<1>4. \A j \in DOMAIN r : j \in Nat /\ j <= Len(r) /\ j \in DOMAIN (r \o b) /\ (r \o b)[j] = r[j]
  OBVIOUS
<1>5. \A j \in DOMAIN b : /\ j \in Nat /\ j > 0 /\ j + Len(r) \in DOMAIN (r \o b)
                          /\ (r \o b)[j + Len(r)] = b[j]
  OBVIOUS
<1>6. \A i \in DOMAIN (c \o w) : h[i] \in DOMAIN (r \o b) /\ (c \o w)[i] = (r \o b)[h[i]]
  <2> SUFFICES ASSUME NEW i \in DOMAIN (c \o w)
               PROVE  h[i] \in DOMAIN (r \o b) /\ (c \o w)[i] = (r \o b)[h[i]]
    OBVIOUS
  <2>1. CASE i \in DOMAIN c /\ i <= Len(c) /\ (c \o w)[i] = c[i]
    <3>1. h[i] = f[i] /\ f[i] \in DOMAIN r /\ c[i] = r[f[i]]
      BY <1>1, <2>1
    <3> HIDE DEF h
    <3> QED BY <1>4, <2>1, <3>1
  <2>2. CASE /\ i \in Nat /\ i > Len(c) /\ i - Len(c) \in DOMAIN w
             /\ (c \o w)[i] = w[i - Len(c)]
    <3>1. h[i] = g[i - Len(c)] + Len(r)
      BY <2>2
    <3>2. g[i - Len(c)] \in DOMAIN b /\ w[i - Len(c)] = b[g[i - Len(c)]]
      BY <1>2, <2>2
    <3> HIDE DEF h
    <3> QED BY <1>5, <2>2, <3>1, <3>2
  <2> QED BY <1>3, <2>1, <2>2
<1>7. \A i, j \in DOMAIN (c \o w) : i < j => h[i] < h[j]
  <2> SUFFICES ASSUME NEW i \in DOMAIN (c \o w), NEW j \in DOMAIN (c \o w), i < j
               PROVE  h[i] < h[j]
    OBVIOUS
  <2>1. CASE j <= Len(c)
    <3>1. i \in DOMAIN c /\ j \in DOMAIN c
      BY <1>3, <2>1
    <3> QED BY <1>1, <2>1, <3>1
  <2>2. CASE i <= Len(c) /\ j > Len(c)
    <3>1. h[i] = f[i] /\ f[i] \in DOMAIN r
      BY <1>1, <1>3, <2>2
    <3>2. h[j] = g[j - Len(c)] + Len(r) /\ g[j - Len(c)] \in DOMAIN b
      BY <1>2, <1>3, <2>2
    <3> HIDE DEF h
    <3> QED BY <1>4, <1>5, <3>1, <3>2
  <2>3. CASE i > Len(c)
    <3>1. /\ i - Len(c) \in DOMAIN w /\ j - Len(c) \in DOMAIN w
          /\ i - Len(c) < j - Len(c) /\ j > Len(c)
      BY <1>3, <2>3
    <3>2. h[i] = g[i - Len(c)] + Len(r) /\ h[j] = g[j - Len(c)] + Len(r)
      BY <2>3, <3>1
    <3>3. g[i - Len(c)] < g[j - Len(c)]
      BY <1>2, <3>1
    <3>4. g[i - Len(c)] \in Nat /\ g[j - Len(c)] \in Nat
      BY <1>2, <1>5, <3>1
    <3>5. Len(r) \in Nat
      OBVIOUS
    <3> HIDE DEF h
    <3>6. \A x, y, n \in Nat : x < y => x + n < y + n
      OBVIOUS
    <3>7. g[i - Len(c)] + Len(r) < g[j - Len(c)] + Len(r)
      BY <3>3, <3>4, <3>5, <3>6
    <3> QED BY <3>2, <3>7
  <2> QED BY <2>1, <2>2, <2>3
<1>8. h \in [DOMAIN (c \o w) -> DOMAIN (r \o b)]
  BY <1>6
<1> HIDE DEF h
<1> QED BY <1>6, <1>7, <1>8 DEF PartOf

LEMMA PartGrows ==
  ASSUME NEW c \in Seq(Pieces), NEW r \in Seq(Pieces), NEW b \in Seq(Pieces), PartOf(c, r)
  PROVE  PartOf(c, r \o b)
<1>1. PartOf(SubSeq(b, 1, 0), b)
  BY SubPart
<1>2. SubSeq(b, 1, 0) \in Seq(Pieces) /\ c \o SubSeq(b, 1, 0) = c
  OBVIOUS
<1> QED BY <1>1, <1>2, PartJoins

LEMMA WrittenPart ==
  ASSUME NEW b \in Seq(Pieces)
  PROVE  PartOf(Written(b, <<>>), b)
<1>1. b \o <<>> = b /\ <<>> \in Seq(Pieces)
  OBVIOUS
<1>2. \A i \in Nat \ {0}, n \in 0 .. Len(b) : PartOf(SubSeq(b, i, n), b)
  BY SubPart
<1>3. \/ Written(b, <<>>) = b
      \/ \E i \in Nat \ {0}, n \in 0 .. Len(b) : Written(b, <<>>) = SubSeq(b, i, n)
  <2>1. \/ Written(b, <<>>) = b
        \/ \E i \in Nat \ {0}, n \in 0 .. Len(b \o <<>>) :
             Written(b, <<>>) = SubSeq(b \o <<>>, i, n)
    BY <1>1, WrittenIs
  <2> QED BY <1>1, <2>1
<1> QED BY <1>2, <1>3, WholePart

(* What is written of a block without NUL, with and without a blank line.  *)
LEMMA WrittenPlain ==
  ASSUME NEW b \in Seq(Pieces), \A i \in DOMAIN b : b[i] # "nul"
  PROVE  Written(b, <<>>) = IF BlankLines(b) = {} THEN b
                            ELSE SubSeq(b, strstr(b) + 3, Len(b))
<1>1. strlen(b) = Len(b)
  BY BeforeFirst DEF strlen
<1>2. b \o <<>> = b /\ SubSeq(b, 1, Len(b)) = b
  OBVIOUS
<1> QED BY <1>1, <1>2 DEF Written

LEMMA OneBlankLine ==
  ASSUME NEW r \in Seq(Pieces), NEW k \in DOMAIN r, BlankLines(r) = {k}
  PROVE  strstr(r) = k - 1
<1>1. k \in 1 .. Len(r)
  OBVIOUS
<1>2. k - 1 \in 0 .. Len(r) /\ k - 1 + 1 = k /\ \A i \in 1 .. k - 1 : i # k
  BY <1>1
<1> QED BY <1>2, BeforeFirst DEF strstr

(* The types, in three parts that few steps disturb together.              *)
FlowTypes ==
  /\ USE_HTTPS \in BOOLEAN
  /\ step \in Steps /\ which \in Files
  /\ lost \subseteq Files /\ before \subseteq Files
  /\ ret \in [Files -> {"none", "refused", "broken", "whole"}]
  /\ outcome \in {"running", "no address", "no servers", "crashed", "no list",
                  "measuring"}

FileTypes == exists \in [Files -> BOOLEAN] /\ content \in [Files -> Seq(Pieces)]

NetTypes ==
  /\ sent \in Seq(Pieces) /\ taken \in 0 .. Len(sent) /\ first \in 0 .. taken
  /\ ended \in {"no", "closed", "reset"} /\ status \in BOOLEAN
  /\ late \in BOOLEAN /\ past \in BOOLEAN

LEMMA TypeParts == TypeOK <=> FlowTypes /\ FileTypes /\ NetTypes
BY DEF TypeOK, FlowTypes, FileTypes, NetTypes

(* A connection that is not open has sent and delivered nothing.           *)
LEMMA QuietNet ==
  ASSUME NEW s, NEW t, NEW m, s = <<>>, t = 0, m = 0
  PROVE  s \in Seq(Pieces) /\ t \in 0 .. Len(s) /\ m \in 0 .. t
<1>1. s \in Seq(Pieces)
  OBVIOUS
<1>2. Len(s) = 0
  OBVIOUS
<1> QED BY <1>1, <1>2

LEMMA TypesAtStart == Init => TypeOK
<1> SUFFICES ASSUME Init PROVE TypeOK
  OBVIOUS
<1>1. FlowTypes
  BY DEF Init, FlowTypes, Steps, Files
<1>2. FileTypes
  <2>1. <<>> \in Seq(Pieces)
    OBVIOUS
  <2>2. \A f \in Files : Left[f] \union {<<>>} \subseteq Seq(Pieces)
    BY <2>1, StartupAssumption
  <2>3. UNION {Left[f] \union {<<>>} : f \in Files} \subseteq Seq(Pieces)
    BY <2>2
  <2> QED BY <2>3 DEF Init, FileTypes
<1>3. NetTypes
  <2>1. sent \in Seq(Pieces) /\ taken \in 0 .. Len(sent) /\ first \in 0 .. taken
    BY QuietNet DEF Init
  <2> QED BY <2>1 DEF Init, NetTypes
<1> QED BY <1>1, <1>2, <1>3, TypeParts

(* The end of a fetch leaves the control and the network part well typed.  *)
LEMMA FinishTypes ==
  ASSUME TypeOK, NEW r \in {"refused", "broken", "whole"}, Finish(r),
         UNCHANGED <<USE_HTTPS, before>>, lost' \subseteq Files
  PROVE  FlowTypes' /\ NetTypes'
<1>1. /\ sent' = <<>> /\ taken' = 0 /\ first' = 0 /\ ended' = "no"
      /\ status' = FALSE /\ late' = FALSE /\ past' = FALSE
      /\ ret' = [ret EXCEPT ![which] = r] /\ which' \in Files
      /\ step' \in {"over", "resolve", "position"}
      /\ outcome' \in Failures \union {outcome}
  BY FinishMoves
<1>2. NetTypes'
  <2>1. sent' \in Seq(Pieces) /\ taken' \in 0 .. Len(sent') /\ first' \in 0 .. taken'
    BY <1>1, QuietNet
  <2> QED BY <1>1, <2>1 DEF NetTypes
<1>3. FlowTypes'
  BY <1>1, TypeParts DEF FlowTypes, Steps, Failures, Files
<1> QED BY <1>2, <1>3

LEMMA FlowStep == TypeOK /\ [Next]_vars => FlowTypes'
<1> SUFFICES ASSUME TypeOK, [Next]_vars PROVE FlowTypes'
  OBVIOUS
<1>f. FlowTypes
  BY TypeParts
<1> USE DEF netVars, fileVars, history
<1>1. CASE PeerSend \/ PeerEnd \/ UNCHANGED vars
  BY <1>1, <1>f DEF PeerSend, PeerEnd, vars, FlowTypes
<1>2. CASE get_ipv4_addr
  <2>1. which' \in Files /\ step' \in Steps /\ outcome' = outcome
    BY <1>2, <1>f, ProceedMoves DEF get_ipv4_addr, Steps, Files, FlowTypes
  <2> QED BY <1>2, <1>f, <2>1 DEF get_ipv4_addr, FlowTypes
<1>3. CASE init_connection \/ SSL_connect \/ make_request
  <2>1. UNCHANGED <<USE_HTTPS, before>> /\ lost' \subseteq Files
    BY <1>3, <1>f DEF init_connection, SSL_connect, make_request, FlowTypes
  <2>2. CASE ~Finish("refused")
    BY <1>3, <1>f, <2>2 DEF init_connection, SSL_connect, make_request, FlowTypes,
                            Steps
  <2> QED BY <2>1, <2>2, FinishTypes
<1>4. CASE select \/ RecvData
  <2>1. /\ UNCHANGED <<USE_HTTPS, which, lost, ret, before, outcome>>
        /\ step' \in {"recv", "select"}
    BY <1>4 DEF select, RecvData
  <2> QED BY <1>f, <2>1 DEF FlowTypes, Steps
<1>5. CASE RecvEnd \/ RecvError
  <2>1. UNCHANGED <<USE_HTTPS, before>> /\ lost' = lost
    BY <1>5 DEF RecvEnd, RecvError, CloseOnError
  <2>2. CASE Finish("whole") \/ Finish("broken")
    BY <1>f, <2>1, <2>2, FinishTypes DEF FlowTypes
  <2>3. CASE ~Finish("whole") /\ ~Finish("broken")
    <3>1. UNCHANGED <<which, ret, outcome>> /\ step' = "select"
      BY <1>5, <2>3 DEF RecvEnd, RecvError
    <3> QED BY <1>f, <2>1, <3>1 DEF FlowTypes, Steps
  <2> QED BY <2>2, <2>3
<1>6. CASE get_ip_address_position \/ get_nearest_server
  BY <1>6, <1>f DEF get_ip_address_position, get_nearest_server, FlowTypes, Steps
<1> QED BY <1>1, <1>2, <1>3, <1>4, <1>5, <1>6 DEF Next, Program

LEMMA FileStep == TypeOK /\ [Next]_vars => FileTypes'
<1> SUFFICES ASSUME TypeOK, [Next]_vars PROVE FileTypes'
  OBVIOUS
<1>f. FileTypes /\ NetTypes /\ which \in Files
  BY TypeParts DEF FlowTypes
<1>1. CASE UNCHANGED fileVars
  BY <1>f, <1>1 DEF FileTypes, fileVars
<1>2. CASE make_request /\ ~UNCHANGED fileVars
  <2>1. /\ exists' = [exists EXCEPT ![which] = TRUE]
        /\ content' = [content EXCEPT ![which] = <<>>]
    BY <1>2 DEF make_request, fopen
  <2>2. <<>> \in Seq(Pieces)
    OBVIOUS
  <2> QED BY <1>f, <2>1, <2>2 DEF FileTypes
<1>3. CASE RecvData
  <2>1. PICK n \in taken + 1 .. Len(sent), beyond \in Beyond :
          content' = IF status
                     THEN [content EXCEPT ![which] =
                             @ \o Written(SubSeq(sent, taken + 1, n), beyond)]
                     ELSE content
    BY <1>3 DEF RecvData
  <2>2. SubSeq(sent, taken + 1, n) \in Seq(Pieces)
    BY <1>f DEF NetTypes
  <2>3. Written(SubSeq(sent, taken + 1, n), beyond) \in Seq(Pieces)
    BY <2>2, WrittenType
  <2>4. content[which] \o Written(SubSeq(sent, taken + 1, n), beyond) \in Seq(Pieces)
    BY <1>f, <2>3 DEF FileTypes
  <2>5. exists' = exists
    BY <1>3 DEF RecvData
  <2> QED BY <1>f, <2>1, <2>4, <2>5 DEF FileTypes
<1> QED
  BY <1>1, <1>2, <1>3
     DEF Next, Program, PeerSend, PeerEnd, get_ipv4_addr, init_connection,
         SSL_connect, make_request, select, RecvEnd, RecvError,
         get_ip_address_position, get_nearest_server, vars

LEMMA NetStep == TypeOK /\ [Next]_vars => NetTypes'
<1> SUFFICES ASSUME TypeOK, [Next]_vars PROVE NetTypes'
  OBVIOUS
<1>f. NetTypes /\ lost \subseteq Files /\ which \in Files
  BY TypeParts DEF FlowTypes
<1>1. CASE PeerSend
  <2>1. PICK b \in Pieces : sent' = Append(sent, b)
    BY <1>1 DEF PeerSend
  <2>2. sent' \in Seq(Pieces) /\ Len(sent') = Len(sent) + 1
    BY <1>f, <2>1 DEF NetTypes
  <2> QED BY <1>f, <1>1, <2>2 DEF PeerSend, NetTypes
<1>2. CASE PeerEnd \/ select \/ UNCHANGED <<netVars, status>>
  BY <1>f, <1>2 DEF PeerEnd, select, NetTypes, netVars
<1>3. CASE RecvData
  <2>1. PICK n \in taken + 1 .. Len(sent), beyond \in Beyond :
          /\ taken' = n /\ first' = IF taken = 0 THEN n ELSE first
          /\ past' = (past \/ Written(SubSeq(sent, taken + 1, n), beyond)
                              # Written(SubSeq(sent, taken + 1, n), <<>>))
    BY <1>3 DEF RecvData
  <2>2. UNCHANGED <<sent, ended, late, status>>
    BY <1>3 DEF RecvData
  <2>3. past' \in BOOLEAN
    BY <2>1
  <2>4. taken' \in 0 .. Len(sent) /\ first' \in 0 .. taken'
    BY <1>f, <2>1 DEF NetTypes
  <2> QED BY <1>f, <2>2, <2>3, <2>4 DEF NetTypes
<1>4. CASE \E r \in {"refused", "broken", "whole"} : Finish(r)
  <2>1. /\ sent' = <<>> /\ taken' = 0 /\ first' = 0 /\ ended' = "no"
        /\ status' = FALSE /\ late' = FALSE /\ past' = FALSE
    BY <1>4 DEF Finish
  <2>2. sent' \in Seq(Pieces) /\ taken' \in 0 .. Len(sent') /\ first' \in 0 .. taken'
    BY <2>1, QuietNet
  <2> QED BY <2>1, <2>2 DEF NetTypes
<1>5. CASE RecvEnd \/ RecvError
  <2>1. CASE status
    BY <1>4, <1>5, <2>1 DEF RecvEnd, RecvError
  <2>2. CASE ~status
    <3>1. /\ UNCHANGED <<sent, taken, first, late, past, status>>
          /\ ended' \in {"closed", ended}
      BY <1>5, <2>2 DEF RecvEnd, RecvError, netVars
    <3> QED BY <1>f, <3>1 DEF NetTypes
  <2> QED BY <2>1, <2>2
<1> QED
  BY <1>1, <1>2, <1>3, <1>4, <1>5
     DEF Next, Program, get_ipv4_addr, init_connection, SSL_connect,
         make_request, get_ip_address_position, get_nearest_server, vars

(* Every variable keeps its type.                                          *)
THEOREM StartupTypes == FairSpec => []TypeOK
<1>1. TypeOK /\ [Next]_vars => TypeOK'
  BY FlowStep, FileStep, NetStep DEF TypeOK, FlowTypes, FileTypes, NetTypes
<1> QED BY <1>1, TypesAtStart, PTL DEF FairSpec

-----------------------------------------------------------------------------
(* A step ends a fetch, or it leaves its results and the lost sockets alone. *)
Fetching == {"resolve", "connect", "handshake", "request", "select", "recv"}

Ending(r) ==
  /\ Finish(r) /\ step \in Fetching
  /\ UNCHANGED <<USE_HTTPS, exists, content, before>>
  /\ \/ r = "refused" /\ ~Connected /\ lost' \subseteq lost \union {which}
     \/ r \in {"whole", "broken"} /\ Connected /\ lost' = lost

(* The connection or the handshake succeeds.                               *)
Advance ==
  /\ step \in {"connect", "handshake"} /\ step' \in {"handshake", "request"}
  /\ UNCHANGED <<USE_HTTPS, which, exists, content, netVars, status, lost, ret,
                 before, outcome>>

(* The request was sent and the file emptied.                              *)
OpenFile ==
  /\ step = "request" /\ step' = "select"
  /\ exists' = [exists EXCEPT ![which] = TRUE]
  /\ content' = [content EXCEPT ![which] = <<>>]
  /\ UNCHANGED <<USE_HTTPS, which, netVars, status, lost, ret, before, outcome>>

(* An error or an end after select timed out is passed over.               *)
PassOver ==
  /\ step = "recv" /\ step' = "select"
  /\ UNCHANGED <<USE_HTTPS, which, exists, content, sent, taken, first, late,
                 past, status, lost, ret, before, outcome>>

LEMMA StepKinds ==
  ASSUME TypeOK, Next
  PROVE  \/ \E r \in {"refused", "broken", "whole"} : Ending(r)
         \/ PeerSend \/ PeerEnd \/ get_ipv4_addr \/ Advance \/ OpenFile
         \/ select \/ RecvData \/ PassOver
         \/ get_ip_address_position \/ get_nearest_server
<1> USE DEF netVars, fileVars, history, Connected, Fetching
<1>1. CASE init_connection
  BY <1>1 DEF init_connection, Ending, Advance
<1>2. CASE SSL_connect
  BY <1>2 DEF SSL_connect, Ending, Advance
<1>3. CASE make_request
  BY <1>3 DEF make_request, fopen, Ending, OpenFile
<1>4. CASE RecvEnd
  BY <1>4 DEF RecvEnd, Ending, PassOver
<1>5. CASE RecvError
  BY <1>5 DEF RecvError, CloseOnError, Ending, PassOver
<1> QED BY <1>1, <1>2, <1>3, <1>4, <1>5 DEF Next, Program

LEMMA EndingMoves ==
  ASSUME TypeOK, NEW r \in {"refused", "broken", "whole"}, Ending(r)
  PROVE  /\ sent' = <<>> /\ taken' = 0 /\ first' = 0 /\ ended' = "no"
         /\ status' = FALSE /\ late' = FALSE /\ past' = FALSE
         /\ ret' = [ret EXCEPT ![which] = r] /\ which' \in Files
         /\ \/ Stops(r) /\ step' = "over" /\ outcome' \in Failures /\ which' = which
            \/ /\ ~Stops(r) /\ outcome' = outcome
               /\ \/ which = "config" /\ which' = "servers" /\ step' = "resolve"
                  \/ which = "servers" /\ which' = which /\ step' = "position"
BY FinishMoves DEF Ending

-----------------------------------------------------------------------------
(* The inductive invariant.  Between two connections the network is quiet; *)
(* a timeout before recv is remembered; a fetch under way has no result,   *)
(* and neither has one that is still to come; a failure that counts has    *)
(* ended the program; a file that no fetch has read to its end was there   *)
(* before, or is being fetched, and a file being received is there.         *)
ClosedIsQuiet == ~Connected => sent = <<>> /\ taken = 0 /\ ended = "no"

TimeoutIsKept == step = "recv" /\ ~status => late

Untried ==
  step \in Fetching =>
    \A f \in Files : (f = which \/ which = "config") => ret[f] = "none"

FailureStops ==
  \A f \in Files : Stops(ret[f]) => step = "over" /\ outcome \in Failures

Inherited ==
  \A f \in Files :
    /\ content[f] # <<>> => exists[f]
    /\ exists[f] /\ f \notin before /\ ret[f] \in {"none", "refused"} =>
         Connected /\ which = f

Running ==
  /\ step # "over" => outcome = "running"
  /\ step = "nearest" => exists["config"]
  /\ Connected => exists[which]

StartInv ==
  /\ ClosedIsQuiet /\ TimeoutIsKept /\ WrittenAsReceived
  /\ Untried /\ FailureStops /\ OnlyRefusedLeaks
  /\ Inherited /\ Running /\ MeasuresOnWholeFiles /\ HttpsStopsOnFailure

Kinds ==
  \/ PeerSend \/ PeerEnd \/ get_ipv4_addr \/ Advance \/ OpenFile \/ select
  \/ RecvData \/ PassOver \/ get_ip_address_position \/ get_nearest_server
  \/ UNCHANGED vars

LEMMA StartInvAtStart == Init => StartInv
<1> SUFFICES ASSUME Init PROVE StartInv
  OBVIOUS
<1>1. ClosedIsQuiet /\ TimeoutIsKept /\ WrittenAsReceived /\ Running
  BY DEF Init, ClosedIsQuiet, TimeoutIsKept, WrittenAsReceived, Running, Connected
<1>2. \A f \in Files : ret[f] = "none"
  BY DEF Init
<1>3. Untried /\ FailureStops /\ OnlyRefusedLeaks
  BY <1>2 DEF Init, Untried, FailureStops, Stops, OnlyRefusedLeaks, Fetching
<1>4. Inherited
  BY DEF Init, Inherited
<1>5. MeasuresOnWholeFiles /\ HttpsStopsOnFailure
  BY DEF Init, MeasuresOnWholeFiles, HttpsStopsOnFailure
<1> QED BY <1>1, <1>3, <1>4, <1>5 DEF StartInv

(* The network between connections, and the timeouts.                      *)
LEMMA QuietStep ==
  ASSUME TypeOK, StartInv, [Next]_vars
  PROVE  ClosedIsQuiet' /\ TimeoutIsKept'
<1> USE DEF netVars, fileVars, history, Connected, ClosedIsQuiet, TimeoutIsKept
<1>0. ClosedIsQuiet /\ TimeoutIsKept
  BY DEF StartInv
<1>1. CASE \E r \in {"refused", "broken", "whole"} : Ending(r)
  <2>1. PICK r \in {"refused", "broken", "whole"} : Ending(r)
    BY <1>1
  <2>2. /\ sent' = <<>> /\ taken' = 0 /\ ended' = "no"
        /\ step' \in {"over", "resolve", "position"}
    BY <2>1, EndingMoves
  <2> QED BY <2>2
<1>2. CASE PeerSend \/ PeerEnd \/ UNCHANGED vars
  BY <1>0, <1>2 DEF PeerSend, PeerEnd, vars
<1>3. CASE get_ipv4_addr \/ Advance \/ OpenFile
  BY <1>0, <1>3 DEF get_ipv4_addr, Proceed, Advance, OpenFile
<1>4. CASE select \/ RecvData \/ PassOver
  BY <1>0, <1>4 DEF select, RecvData, PassOver
<1>5. CASE get_ip_address_position \/ get_nearest_server
  BY <1>0, <1>5 DEF get_ip_address_position, get_nearest_server
<1> QED BY <1>1, <1>2, <1>3, <1>4, <1>5, StepKinds

(* What a longer sequence has in common with the one it continues.         *)
LEMMA PrefixStays ==
  ASSUME NEW S, NEW s \in Seq(S), NEW e \in S, NEW n \in 0 .. Len(s)
  PROVE  SubSeq(Append(s, e), 1, n) = SubSeq(s, 1, n)
OBVIOUS

LEMMA PrefixGrows ==
  ASSUME NEW S, NEW s \in Seq(S), NEW m \in 0 .. Len(s), NEW n \in m .. Len(s)
  PROVE  /\ SubSeq(s, 1, m) \in Seq(S) /\ SubSeq(s, m + 1, n) \in Seq(S)
         /\ SubSeq(s, 1, m) \o SubSeq(s, m + 1, n) = SubSeq(s, 1, n)
OBVIOUS

LEMMA TailGrows ==
  ASSUME NEW S, NEW r \in Seq(S), NEW b \in Seq(S), NEW m \in 1 .. Len(r) + 1
  PROVE  SubSeq(r, m, Len(r)) \o b = SubSeq(r \o b, m, Len(r \o b))
<1> DEFINE left == SubSeq(r, m, Len(r)) \o b
           right == SubSeq(r \o b, m, Len(r \o b))
<1>1. /\ left \in Seq(S) /\ right \in Seq(S)
      /\ Len(left) = Len(r) + 1 - m + Len(b) /\ Len(right) = Len(left)
  OBVIOUS
<1>2. \A i \in 1 .. Len(left) : left[i] = (r \o b)[i + m - 1]
  OBVIOUS
<1>3. \A i \in 1 .. Len(left) : right[i] = (r \o b)[i + m - 1]
  OBVIOUS
<1> HIDE DEF left, right
<1>4. left = right
  BY <1>1, <1>2, <1>3, SeqEqual
<1> QED BY <1>4 DEF left, right

(* The body of a simple reply is kept by one more block.                   *)
LEMMA BodyGrows ==
  ASSUME NEW r \in Seq(Pieces), NEW b \in Seq(Pieces), NEW k \in DOMAIN r,
         k < Len(r), BlankLines(r \o b) = {k},
         \A i \in DOMAIN (r \o b) : (r \o b)[i] # "nul"
  PROVE  /\ BlankLines(r) = {k} /\ \A i \in DOMAIN r : r[i] # "nul"
         /\ Written(b, <<>>) = b
         /\ SubSeq(r, k + 2, Len(r)) \o b = SubSeq(r \o b, k + 2, Len(r \o b))
<1>1. \A i \in DOMAIN r : i \in Nat /\ i \in DOMAIN (r \o b) /\ (r \o b)[i] = r[i]
  OBVIOUS
<1>2. \A i \in DOMAIN b : /\ i \in Nat /\ i > 0 /\ i + Len(r) \in DOMAIN (r \o b)
                          /\ (r \o b)[i + Len(r)] = b[i]
  OBVIOUS
<1>3. BlankLines(r) = {k}
  <2>1. k \in BlankLines(r \o b) /\ k + 1 \in DOMAIN r
    OBVIOUS
  <2>2. k \in BlankLines(r)
    BY <1>1, <2>1 DEF BlankLines
  <2>3. BlankLines(r) \subseteq BlankLines(r \o b)
    BY <1>1 DEF BlankLines
  <2> QED BY <2>2, <2>3
<1>4. BlankLines(b) = {}
  <2> SUFFICES ASSUME NEW i \in BlankLines(b) PROVE FALSE
    OBVIOUS
  <2>1. i \in DOMAIN b /\ i + 1 \in DOMAIN b /\ b[i] = "crlf" /\ b[i + 1] = "crlf"
    BY DEF BlankLines
  <2>2. i + 1 + Len(r) = i + Len(r) + 1
    BY <1>2, <2>1
  <2>3. i + Len(r) \in BlankLines(r \o b)
    BY <1>2, <2>1, <2>2 DEF BlankLines
  <2>4. i + Len(r) = k
    BY <2>3
  <2> QED BY <1>2, <2>1, <2>4
<1>5. \A i \in DOMAIN r : r[i] # "nul"
  BY <1>1
<1>6. \A i \in DOMAIN b : b[i] # "nul"
  BY <1>2
<1>7. Written(b, <<>>) = b
  BY <1>4, <1>6, WrittenPlain
<1>8. SubSeq(r, k + 2, Len(r)) \o b = SubSeq(r \o b, k + 2, Len(r \o b))
  <2>1. k + 2 \in 1 .. Len(r) + 1
    OBVIOUS
  <2> QED BY <2>1, TailGrows
<1> QED BY <1>3, <1>5, <1>7, <1>8

LEMMA SimpleGrows ==
  ASSUME TypeOK, RecvData, WrittenAsReceived, status, ~past, ~late,
         NEW n \in taken + 1 .. Len(sent), taken' = n,
         first' = IF taken = 0 THEN n ELSE first, Simple(Received)',
         content[which] = <<>> \/ taken # 0
  PROVE  content[which] \o Written(SubSeq(sent, taken + 1, n), <<>>)
           = SubSeq(sent', strstr(Received') + 3, taken')
<1> DEFINE r == SubSeq(sent, 1, taken)
           b == SubSeq(sent, taken + 1, n)
           full == SubSeq(sent, 1, n)
           c == content[which]
<1>1. /\ sent' = sent /\ Connected /\ taken \in 0 .. Len(sent) /\ taken \in Nat
      /\ n \in taken .. Len(sent) /\ n \in Nat /\ sent \in Seq(Pieces)
      /\ first \in 0 .. taken /\ which \in Files /\ c \in Seq(Pieces)
  <2>1. sent' = sent /\ Connected
    BY DEF RecvData, Connected
  <2>2. /\ taken \in 0 .. Len(sent) /\ sent \in Seq(Pieces) /\ which \in Files
        /\ content \in [Files -> Seq(Pieces)] /\ first \in 0 .. taken
    BY DEF TypeOK
  <2>3. c \in Seq(Pieces)
    BY <2>2
  <2> HIDE DEF c
  <2> QED BY <2>1, <2>2, <2>3
<1>2. Received = r /\ Received' = full
  BY <1>1 DEF Received
<1>3. /\ r \in Seq(Pieces) /\ b \in Seq(Pieces) /\ r \o b = full
      /\ full \in Seq(Pieces) /\ Len(full) = n /\ Len(r) = taken
  <2>1. r \in Seq(Pieces) /\ b \in Seq(Pieces) /\ r \o b = full
    BY <1>1, PrefixGrows
  <2>2. full \in Seq(Pieces) /\ Len(full) = n /\ Len(r) = taken
    BY <1>1
  <2> QED BY <2>1, <2>2
<1>4. PICK k \in DOMAIN full : BlankLines(full) = {k} /\ k < first'
  BY <1>2 DEF Simple
<1>5. \A i \in DOMAIN full : full[i] # "nul"
  BY <1>2 DEF Simple
<1>6. k \in Nat /\ strstr(full) = k - 1 /\ strstr(full) + 3 = k + 2
  <2> HIDE DEF full
  <2>1. k \in Nat
    BY <1>3, <1>4
  <2>2. strstr(full) = k - 1
    BY <1>3, <1>4, OneBlankLine
  <2> QED BY <2>1, <2>2
<1>7. SubSeq(sent', strstr(Received') + 3, taken') = SubSeq(full, k + 2, n)
  <2>1. k + 2 \in Nat \ {0} /\ n \in 0 .. Len(sent) /\ sent \in Seq(Pieces)
    BY <1>1, <1>6
  <2>2. SubSeq(sent, k + 2, n) = SubSeq(SubSeq(sent, 1, n), k + 2, n)
    BY <2>1, WithinPrefix
  <2> QED BY <1>1, <1>2, <1>6, <2>2
<1> HIDE DEF full, r, b, c
<1>8. CASE taken = 0
  <2>1. b = full
    BY <1>8 DEF b, full
  <2>2. Written(b, <<>>) = SubSeq(full, k + 2, n)
    BY <1>3, <1>4, <1>5, <1>6, <2>1, WrittenPlain
  <2>3. c = <<>>
    BY <1>8 DEF c
  <2>4. Written(b, <<>>) \in Seq(Pieces)
    BY <1>3, WrittenType DEF Beyond
  <2>5. c \o Written(b, <<>>) = Written(b, <<>>)
    BY <2>3, <2>4
  <2> QED BY <1>7, <2>2, <2>5 DEF b, c
<1>9. CASE taken # 0
  <2>1. k < taken /\ k \in DOMAIN r /\ k < Len(r)
    BY <1>1, <1>3, <1>4, <1>6, <1>9
  <2>2. /\ BlankLines(r) = {k} /\ \A i \in DOMAIN r : r[i] # "nul"
        /\ Written(b, <<>>) = b
        /\ SubSeq(r, k + 2, Len(r)) \o b = SubSeq(r \o b, k + 2, Len(r \o b))
    BY <1>3, <1>4, <1>5, <2>1, BodyGrows
  <2>3. Simple(Received)
    BY <1>2, <1>4, <1>9, <2>1, <2>2 DEF Simple
  <2>4. strstr(r) = k - 1 /\ strstr(r) + 3 = k + 2
    BY <1>3, <1>6, <2>1, <2>2, OneBlankLine
  <2>5. c = SubSeq(sent, k + 2, taken)
    BY <1>1, <1>2, <2>3, <2>4 DEF WrittenAsReceived, c
  <2>6. SubSeq(sent, k + 2, taken) = SubSeq(r, k + 2, Len(r))
    <3>1. k + 2 \in Nat \ {0} /\ taken \in 0 .. Len(sent) /\ sent \in Seq(Pieces)
      BY <1>1, <1>6
    <3>2. SubSeq(sent, k + 2, taken) = SubSeq(SubSeq(sent, 1, taken), k + 2, taken)
      BY <3>1, WithinPrefix
    <3> QED BY <1>3, <3>2 DEF r
  <2>7. c \o Written(b, <<>>) = SubSeq(full, k + 2, n)
    BY <1>3, <2>2, <2>5, <2>6
  <2> QED BY <1>7, <2>7 DEF b, c
<1> QED BY <1>8, <1>9

LEMMA WrittenStep ==
  ASSUME TypeOK, StartInv, [Next]_vars
  PROVE  WrittenAsReceived'
<1> USE DEF netVars, fileVars, history, Connected
<1>0. /\ ClosedIsQuiet /\ TimeoutIsKept /\ WrittenAsReceived
      /\ FileTypes /\ NetTypes /\ which \in Files
  BY TypeParts DEF StartInv, FlowTypes
<1>1. CASE \E r \in {"refused", "broken", "whole"} : Ending(r)
  <2>1. PICK r \in {"refused", "broken", "whole"} : Ending(r)
    BY <1>1
  <2>2. step' \in {"over", "resolve", "position"}
    BY <2>1, EndingMoves
  <2> QED BY <2>2 DEF WrittenAsReceived
<1>2. CASE PeerSend
  <2>1. PICK b \in Pieces : sent' = Append(sent, b)
    BY <1>2 DEF PeerSend
  <2>2. UNCHANGED <<taken, first, late, past, content, which, step>>
    BY <1>2 DEF PeerSend
  <2>3. Received' = Received
    BY <1>0, <2>1, <2>2, PrefixStays DEF NetTypes, Received
  <2>4. taken \in Nat /\ strstr(Received) \in Nat
    <3>1. Received \in Seq(Pieces)
      BY <1>0 DEF NetTypes, Received
    <3> QED BY <1>0, <3>1, BeforeWithin DEF strstr, NetTypes
  <2>5. \A i \in Nat \ {0} : SubSeq(sent', i, taken) = SubSeq(sent, i, taken)
    BY <1>0, <2>1 DEF NetTypes
  <2>6. strstr(Received) + 3 \in Nat \ {0}
    BY <2>4
  <2>7. SubSeq(sent', strstr(Received) + 3, taken) = SubSeq(sent, strstr(Received) + 3, taken)
    BY <2>5, <2>6
  <2>8. Simple(Received)' <=> Simple(Received)
    BY <2>2, <2>3 DEF Simple
  <2>9. Connected
    BY <1>2 DEF PeerSend
  <2> SUFFICES ASSUME ~past'
               PROVE  /\ PartOf(content[which], Received)'
                      /\ Simple(Received)' /\ ~late' =>
                           content'[which'] = SubSeq(sent', strstr(Received') + 3, taken')
    BY DEF WrittenAsReceived
  <2>10. /\ PartOf(content[which], Received)
         /\ Simple(Received) /\ ~late =>
              content[which] = SubSeq(sent, strstr(Received) + 3, taken)
    BY <1>0, <2>2, <2>9 DEF WrittenAsReceived
  <2> QED BY <2>2, <2>3, <2>7, <2>8, <2>10
<1>3. CASE PeerEnd \/ PassOver \/ select \/ UNCHANGED vars
  <2>1. /\ UNCHANGED <<sent, taken, first, past, content, which>>
        /\ Connected' => Connected
        /\ late => late'
    BY <1>0, <1>3 DEF PeerEnd, PassOver, select, vars, NetTypes
  <2>2. Received' = Received
    BY <2>1 DEF Received
  <2>3. Simple(Received)' <=> Simple(Received)
    BY <2>1, <2>2 DEF Simple
  <2> QED BY <1>0, <2>1, <2>2, <2>3 DEF WrittenAsReceived
<1>4. CASE OpenFile
  <2>1. content'[which] = <<>>
    BY <1>0, <1>4 DEF OpenFile, FileTypes
  <2>2. sent \in Seq(Pieces) /\ taken = 0 /\ UNCHANGED <<sent, taken, which>>
    BY <1>0, <1>4 DEF OpenFile, ClosedIsQuiet, NetTypes
  <2>3. Received' = <<>>
    BY <2>2 DEF Received
  <2>4. PartOf(<<>>, <<>>)
    <3>1. <<>> \in Seq(Pieces)
      OBVIOUS
    <3> QED BY <3>1, WholePart
  <2>5. ~Simple(Received)'
    BY <2>3 DEF Simple
  <2> QED BY <2>1, <2>2, <2>3, <2>4, <2>5 DEF WrittenAsReceived
<1>5. CASE RecvData
  <2> SUFFICES ASSUME ~past'
               PROVE  /\ PartOf(content[which], Received)'
                      /\ Simple(Received)' /\ ~late' =>
                           content'[which'] = SubSeq(sent', strstr(Received') + 3, taken')
    BY DEF WrittenAsReceived
  <2>1. PICK n \in taken + 1 .. Len(sent), beyond \in Beyond :
          /\ taken' = n /\ first' = IF taken = 0 THEN n ELSE first
          /\ content' = IF status
                        THEN [content EXCEPT ![which] =
                                @ \o Written(SubSeq(sent, taken + 1, n), beyond)]
                        ELSE content
          /\ past' = (past \/ Written(SubSeq(sent, taken + 1, n), beyond)
                              # Written(SubSeq(sent, taken + 1, n), <<>>))
    BY <1>5 DEF RecvData
  <2>2. UNCHANGED <<sent, which, late>> /\ Connected
    BY <1>5 DEF RecvData
  <2> DEFINE b == SubSeq(sent, taken + 1, n)
             w == Written(b, <<>>)
  <2>3. ~past /\ Written(b, beyond) = w
    BY <2>1
  <2>4. /\ Received \in Seq(Pieces) /\ b \in Seq(Pieces)
        /\ Received' = Received \o b
    <3>1. taken \in 0 .. Len(sent) /\ n \in taken .. Len(sent) /\ sent \in Seq(Pieces)
      BY <1>0 DEF NetTypes
    <3> QED BY <2>1, <2>2, <3>1, PrefixGrows DEF Received
  <2>5. w \in Seq(Pieces) /\ PartOf(w, b)
    BY <2>4, WrittenType, WrittenPart DEF Beyond
  <2>6. content[which] \in Seq(Pieces) /\ PartOf(content[which], Received)
    BY <1>0, <2>2, <2>3 DEF FileTypes, WrittenAsReceived
  <2>7. CASE status
    <3>1. content'[which'] = content[which] \o w
      BY <1>0, <2>1, <2>2, <2>3, <2>7 DEF FileTypes
    <3>2. PartOf(content[which], Received)'
      BY <2>4, <2>5, <2>6, <3>1, PartJoins
    <3>3. content[which] = <<>> \/ taken # 0
      <4>1. taken = 0 => Received = <<>>
        BY <1>0 DEF Received, NetTypes
      <4>2. PartOf(content[which], <<>>) => content[which] = <<>>
        BY <2>6 DEF PartOf
      <4> QED BY <2>6, <4>1, <4>2
    <3>4. ASSUME Simple(Received)', ~late'
          PROVE  content'[which'] = SubSeq(sent', strstr(Received') + 3, taken')
      BY <1>0, <1>5, <2>1, <2>2, <2>3, <2>7, <3>1, <3>3, <3>4, SimpleGrows
    <3> QED BY <3>2, <3>4
  <2>8. CASE ~status
    <3>1. late' /\ content'[which'] = content[which]
      BY <1>0, <1>5, <2>1, <2>2, <2>8 DEF RecvData, TimeoutIsKept
    <3>2. PartOf(content[which], Received)'
      BY <2>4, <2>6, <3>1, PartGrows
    <3> QED BY <3>1, <3>2
  <2> QED BY <2>7, <2>8
<1>6. CASE get_ipv4_addr \/ Advance \/ get_ip_address_position \/ get_nearest_server
  BY <1>6 DEF get_ipv4_addr, Proceed, Advance, get_ip_address_position,
              get_nearest_server, WrittenAsReceived
<1> QED BY <1>1, <1>2, <1>3, <1>4, <1>5, <1>6, StepKinds

(* How the fetches ended, and what the ends do to main().                  *)
LEMMA ResultsStep ==
  ASSUME TypeOK, StartInv, [Next]_vars
  PROVE  Untried' /\ FailureStops' /\ OnlyRefusedLeaks'
<1> USE DEF netVars, fileVars, history
<1>0. /\ Untried /\ FailureStops /\ OnlyRefusedLeaks /\ Running
      /\ which \in Files /\ lost \subseteq Files
      /\ ret \in [Files -> {"none", "refused", "broken", "whole"}]
  BY DEF StartInv, TypeOK
<1>1. CASE \E r \in {"refused", "broken", "whole"} : Ending(r)
  <2>1. PICK r \in {"refused", "broken", "whole"} : Ending(r)
    BY <1>1
  <2>2. ret' = [ret EXCEPT ![which] = r] /\ USE_HTTPS' = USE_HTTPS
    BY <2>1, EndingMoves DEF Ending
  <2>3. /\ step \in Fetching /\ step # "over"
        /\ \/ r = "refused" /\ lost' \subseteq lost \union {which}
           \/ lost' = lost
    BY <2>1 DEF Ending, Fetching
  <2>4. ret[which] = "none"
    BY <1>0, <2>3 DEF Untried
  <2>5. OnlyRefusedLeaks'
    BY <1>0, <2>2, <2>3, <2>4 DEF OnlyRefusedLeaks
  <2>6. \A f \in Files : ~Stops(ret[f])
    BY <1>0, <2>3 DEF FailureStops
  <2>7. CASE Stops(r) /\ step' = "over" /\ outcome' \in Failures /\ which' = which
    <3>1. FailureStops'
      BY <2>7 DEF FailureStops
    <3>2. step' \notin Fetching
      BY <2>7 DEF Fetching
    <3> QED BY <2>5, <3>1, <3>2 DEF Untried
  <2>8. CASE ~Stops(r) /\ outcome' = outcome
    <3>1. FailureStops'
      BY <1>0, <2>2, <2>6, <2>8 DEF FailureStops, Stops
    <3>2. Untried'
      BY <1>0, <2>1, <2>2, <2>3, EndingMoves DEF Untried, Fetching, Files
    <3> QED BY <2>5, <3>1, <3>2
  <2> QED BY <2>1, <2>5, <2>7, <2>8, EndingMoves
<1>2. CASE Kinds
  <2>1. UNCHANGED <<USE_HTTPS, ret, lost>>
    BY <1>2 DEF Kinds, PeerSend, PeerEnd, get_ipv4_addr, Advance, OpenFile, select,
                RecvData, PassOver, get_ip_address_position, get_nearest_server, vars
  <2>2. OnlyRefusedLeaks'
    BY <1>0, <2>1 DEF OnlyRefusedLeaks
  <2>3. step = "over" => UNCHANGED <<step, outcome>>
    BY <1>2 DEF Kinds, PeerSend, PeerEnd, get_ipv4_addr, Advance, OpenFile, select,
                RecvData, PassOver, get_ip_address_position, get_nearest_server, vars,
                Connected
  <2>4. FailureStops'
    <3>1. \A f \in Files : Stops(ret[f])' <=> Stops(ret[f])
      BY <2>1 DEF Stops
    <3> QED BY <1>0, <2>3, <3>1 DEF FailureStops
  <2>5. CASE get_ipv4_addr
    <3>1. Untried'
      BY <1>0, <2>1, <2>5 DEF get_ipv4_addr, Proceed, Untried, Fetching, Files
    <3> QED BY <2>2, <2>4, <3>1
  <2>6. CASE ~get_ipv4_addr
    <3>1. which' = which /\ (step' \in Fetching => step \in Fetching)
      BY <1>2, <2>6
         DEF Kinds, PeerSend, PeerEnd, Advance, OpenFile, select, RecvData, PassOver,
             get_ip_address_position, get_nearest_server, vars, Fetching
    <3> QED BY <1>0, <2>1, <2>2, <2>4, <3>1 DEF Untried
  <2> QED BY <2>2, <2>4, <2>5, <2>6
<1> QED BY <1>1, <1>2, StepKinds DEF Kinds

(* Which files there are, and whose they are.                              *)
LEMMA FilesStep ==
  ASSUME TypeOK, StartInv, [Next]_vars
  PROVE  Inherited' /\ Running'
<1> USE DEF netVars, fileVars, history, Connected
<1>0. /\ Inherited /\ Running /\ Untried /\ which \in Files
      /\ exists \in [Files -> BOOLEAN] /\ content \in [Files -> Seq(Pieces)]
      /\ ret \in [Files -> {"none", "refused", "broken", "whole"}]
  BY DEF StartInv, TypeOK
<1>1. CASE \E r \in {"refused", "broken", "whole"} : Ending(r)
  <2>1. PICK r \in {"refused", "broken", "whole"} : Ending(r)
    BY <1>1
  <2>2. /\ ret' = [ret EXCEPT ![which] = r]
        /\ UNCHANGED <<exists, content, before>> /\ step # "over"
        /\ r = "refused" => ~Connected
    BY <2>1, EndingMoves DEF Ending, Fetching
  <2>3. ret[which] = "none"
    BY <1>0, <2>1 DEF Ending, Untried
  <2>4. Inherited'
    BY <1>0, <2>2, <2>3 DEF Inherited
  <2>5. Running'
    BY <1>0, <2>1, <2>2, EndingMoves DEF Running
  <2> QED BY <2>4, <2>5
<1>2. CASE OpenFile
  <2>1. Inherited'
    BY <1>0, <1>2 DEF OpenFile, Inherited
  <2>2. Running'
    BY <1>0, <1>2 DEF OpenFile, Running
  <2> QED BY <2>1, <2>2
<1>3. CASE RecvData
  <2>1. \A f \in Files : f # which => content'[f] = content[f]
    BY <1>0, <1>3 DEF RecvData
  <2>2. exists[which]
    BY <1>0, <1>3 DEF RecvData, Running
  <2>3. Inherited'
    BY <1>0, <1>3, <2>1, <2>2 DEF RecvData, Inherited
  <2> QED BY <1>0, <1>3, <2>3 DEF RecvData, Running
<1>4. CASE Kinds /\ ~OpenFile /\ ~RecvData
  <2>1. UNCHANGED <<exists, content, ret, before>>
    BY <1>4 DEF Kinds, PeerSend, PeerEnd, get_ipv4_addr, Advance, select, PassOver,
                get_ip_address_position, get_nearest_server, vars
  <2>2. Connected => Connected' /\ which' = which
    BY <1>4 DEF Kinds, PeerSend, PeerEnd, get_ipv4_addr, Advance, select, PassOver,
                get_ip_address_position, get_nearest_server, vars
  <2>3. Inherited'
    BY <1>0, <2>1, <2>2 DEF Inherited
  <2>4. Running'
    BY <1>0, <1>4, <2>1
       DEF Kinds, PeerSend, PeerEnd, get_ipv4_addr, Proceed, Advance, select,
           PassOver, get_ip_address_position, get_nearest_server, vars, Running
  <2> QED BY <2>3, <2>4
<1> QED BY <1>1, <1>2, <1>3, <1>4, StepKinds DEF Kinds

(* What is measured on.                                                    *)
LEMMA MeasureStep ==
  ASSUME TypeOK, StartInv, [Next]_vars
  PROVE  MeasuresOnWholeFiles' /\ HttpsStopsOnFailure'
<1> USE DEF netVars, fileVars, history
<1>0. /\ Inherited /\ Running /\ FailureStops /\ MeasuresOnWholeFiles
      /\ HttpsStopsOnFailure
      /\ ret \in [Files -> {"none", "refused", "broken", "whole"}]
  BY DEF StartInv, TypeOK
<1>1. CASE \E r \in {"refused", "broken", "whole"} : Ending(r)
  <2>1. PICK r \in {"refused", "broken", "whole"} : Ending(r)
    BY <1>1
  <2>2. outcome = "running" /\ outcome' \in Failures \union {outcome}
    BY <1>0, <2>1, EndingMoves DEF Ending, Fetching, Running
  <2> QED BY <2>2 DEF Failures, MeasuresOnWholeFiles, HttpsStopsOnFailure
<1>2. CASE get_nearest_server
  <2>1. /\ step = "nearest" /\ UNCHANGED <<USE_HTTPS, exists, content, ret, before>>
        /\ outcome' = "measuring" => FoundServers
    BY <1>2 DEF get_nearest_server
  <2>2. \A f \in Files : ~Stops(ret[f])
    BY <1>0, <2>1 DEF FailureStops
  <2>3. HttpsStopsOnFailure'
    BY <1>0, <2>1, <2>2 DEF HttpsStopsOnFailure, Stops
  <2>4. FoundServers => exists["servers"]
    <3>1. FoundServers => content["servers"] # <<>>
      BY DEF FoundServers
    <3> QED BY <1>0, <3>1 DEF Inherited, Files
  <2>5. outcome' = "measuring" => \A f \in Files : exists[f]
    BY <1>0, <2>1, <2>4 DEF Running, Files
  <2>6. \A f \in Files : ret[f] = "none" \/ ret[f] = "whole" \/ ret[f] = "refused"
    BY <1>0, <2>2 DEF Stops
  <2>7. \A f \in Files : exists[f] /\ ret[f] # "whole" => f \in before
    BY <1>0, <2>1, <2>6 DEF Inherited, Connected
  <2>8. MeasuresOnWholeFiles'
    BY <2>1, <2>5, <2>6, <2>7 DEF MeasuresOnWholeFiles
  <2> QED BY <2>3, <2>8
<1>3. CASE Kinds /\ ~get_nearest_server
  <2>1. UNCHANGED <<USE_HTTPS, ret, before>>
    BY <1>3 DEF Kinds, PeerSend, PeerEnd, get_ipv4_addr, Advance, OpenFile, select,
                RecvData, PassOver, get_ip_address_position, vars
  <2>2. outcome' = outcome \/ outcome' = "crashed"
    BY <1>3 DEF Kinds, PeerSend, PeerEnd, get_ipv4_addr, Proceed, Advance, OpenFile,
                select, RecvData, PassOver, get_ip_address_position, vars
  <2> QED BY <1>0, <2>1, <2>2 DEF MeasuresOnWholeFiles, HttpsStopsOnFailure
<1> QED BY <1>1, <1>2, <1>3, StepKinds DEF Kinds

LEMMA StartInvHolds == FairSpec => [](TypeOK /\ StartInv)
<1>1. Init => TypeOK /\ StartInv
  BY TypesAtStart, StartInvAtStart
<1>2. TypeOK /\ StartInv /\ [Next]_vars => (TypeOK /\ StartInv)'
  <2> SUFFICES ASSUME TypeOK, StartInv, [Next]_vars PROVE TypeOK' /\ StartInv'
    OBVIOUS
  <2>1. TypeOK'
    BY FlowStep, FileStep, NetStep DEF TypeOK, FlowTypes, FileTypes, NetTypes
  <2> QED
    BY <2>1, QuietStep, WrittenStep, ResultsStep, FilesStep, MeasureStep DEF StartInv
<1> QED BY <1>1, <1>2, PTL DEF FairSpec

(* http.c:164-192: whatever the peer does and in whatever blocks its reply *)
(* comes, in both builds, the file holds parts of it in order and nothing  *)
(* of an earlier run, and the whole body of a simple reply until select    *)
(* times out; unless memory behind a full buffer was read.                 *)
THEOREM FilesHoldWhatCame == FairSpec => []WrittenAsReceived
<1>1. StartInv => WrittenAsReceived
  BY DEF StartInv
<1> QED BY <1>1, StartInvHolds, PTL

(* main.c:51-104: main() never measures on a file of its own that broke    *)
(* off.                                                                    *)
THEOREM OnlyWholeFilesAreUsed == FairSpec => []MeasuresOnWholeFiles
<1>1. StartInv => MeasuresOnWholeFiles
  BY DEF StartInv
<1> QED BY <1>1, StartInvHolds, PTL

(* http.c:167-195: the paths behind the request close their socket.        *)
THEOREM RepliesLeakNothing == FairSpec => []OnlyRefusedLeaks
<1>1. StartInv => OnlyRefusedLeaks
  BY DEF StartInv
<1> QED BY <1>1, StartInvHolds, PTL

(* main.c:71-88: in the HTTPS build no failed fetch is passed over.        *)
THEOREM HttpsFailuresStop == FairSpec => []HttpsStopsOnFailure
<1>1. StartInv => HttpsStopsOnFailure
  BY DEF StartInv
<1> QED BY <1>1, StartInvHolds, PTL

=============================================================================
