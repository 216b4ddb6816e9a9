-------------------------- MODULE EpollServerProofs --------------------------
(***************************************************************************)
(* Proofs about EpollServer, for any clients, commands, descriptors and    *)
(* size of the event array: an event is still true when its turn comes,    *)
(* and each client's payments reach payment in order and at most once.     *)
(***************************************************************************)
EXTENDS EpollServer, SequenceTheorems, FiniteSetTheorems, WellFoundedInduction, TLAPS

Raised == [fd : {listenfd} \cup Fds, for : Clients \cup {NoClient}]

(* No descriptor has two events in a batch: one that is handled leaves none  *)
(* behind that has become false.                                             *)
Batch == /\ events \in Seq(Raised)
         /\ \A i \in DOMAIN events : events[i].fd = listenfd \/ events[i].for \in Clients
         /\ \A i, j \in DOMAIN events : events[i].fd = events[j].fd => i = j

Queued == /\ \A i \in DOMAIN queue : conn[queue[i]] = "queued"
          /\ \A i, j \in DOMAIN queue : queue[i] = queue[j] => i = j

OneOwner == /\ \A c \in Clients : conn[c] = "accepted" => fdOf[c] \in Fds
            /\ \A c, d \in Clients :
                  conn[c] = "accepted" /\ conn[d] = "accepted" /\ fdOf[c] = fdOf[d] => c = d

Connections == Batch /\ EventsFresh /\ Queued /\ OneOwner

Distinct(s) == \A i, j \in DOMAIN s : s[i] = s[j] => i = j

(* Nothing is on the ready list twice. *)
Listed == ready \in Seq(Sources) /\ Distinct(ready)

-----------------------------------------------------------------------------
(* A token's place among those of its client. *)
Rank(x) == 2 * x[3] + (IF x[1] = "body" THEN 1 ELSE 0)

Sorted(s) == \A i, j \in DOMAIN s : i < j /\ s[i][2] = s[j][2] => Rank(s[i]) < Rank(s[j])

Ahead(s, t) == \A i \in DOMAIN s, j \in DOMAIN t : s[i][2] = t[j][2] => Rank(s[i]) < Rank(t[j])

(* The tokens of a client are in order from its socket to payment, and those *)
(* it will send come after them.                                             *)
Stream == /\ Sorted(Pipe)
          /\ \A i \in DOMAIN Pipe : Pipe[i][3] <= sent[Pipe[i][2]]
          /\ \A c \in Clients :
                /\ Sorted(out[c]) /\ Ahead(Pipe, out[c])
                /\ \A i \in DOMAIN out[c] : out[c][i][2] = c /\ out[c][i][3] <= sent[c]

(* What one read can get. *)
Lengths == /\ \A c \in Clients : Len(out[c]) <= 2 * sent[c]
           /\ Len(buf) <= 2 * MaxSend
           /\ pc = "forward" => buf # <<>>

IInv == TypeOK /\ Connections /\ Listed /\ Stream /\ Lengths
-----------------------------------------------------------------------------
(* Sequences of tokens. *)

LEMMA TokenParts ==
    ASSUME NEW x \in Token
    PROVE  /\ x[1] \in Commands \cup {"body"} /\ x[2] \in Clients /\ x[3] \in 1 .. MaxSend
           /\ Rank(x) \in Int /\ 2 * x[3] <= Rank(x) /\ Rank(x) <= 2 * x[3] + 1
<1>1. x[1] \in Commands \cup {"body"} /\ x[2] \in Clients /\ x[3] \in 1 .. MaxSend
  BY DEF Token
<1> QED
  BY <1>1, ServerAssumption DEF Rank

LEMMA SortedConcat ==
    ASSUME NEW S, NEW s \in Seq(S), NEW t \in Seq(S), Sorted(s), Sorted(t), Ahead(s, t)
    PROVE  Sorted(s \o t)
<1> DEFINE u == s \o t
<1>1. /\ u \in Seq(S) /\ Len(u) = Len(s) + Len(t) /\ Len(s) \in Nat /\ Len(t) \in Nat
      /\ \A i \in 1 .. Len(s) + Len(t) : u[i] = IF i <= Len(s) THEN s[i] ELSE t[i - Len(s)]
  BY ConcatProperties, LenProperties
<1>2. DOMAIN u = 1 .. Len(u) /\ DOMAIN s = 1 .. Len(s) /\ DOMAIN t = 1 .. Len(t)
  BY <1>1, LenProperties
<1> HIDE DEF u
<1>3. ASSUME NEW i \in DOMAIN u, NEW j \in DOMAIN u, i < j, u[i][2] = u[j][2]
      PROVE  Rank(u[i]) < Rank(u[j])
  <2>1. CASE j <= Len(s)
    <3>1. u[i] = s[i] /\ u[j] = s[j] /\ i \in DOMAIN s /\ j \in DOMAIN s
      BY <1>1, <1>2, <1>3, <2>1
    <3> QED
      BY <1>3, <3>1 DEF Sorted
  <2>2. CASE i <= Len(s) /\ j > Len(s)
    <3>1. u[i] = s[i] /\ u[j] = t[j - Len(s)] /\ i \in DOMAIN s /\ j - Len(s) \in DOMAIN t
      BY <1>1, <1>2, <1>3, <2>2
    <3> QED
      BY <1>3, <3>1 DEF Ahead
  <2>3. CASE i > Len(s)
    <3>1. /\ u[i] = t[i - Len(s)] /\ u[j] = t[j - Len(s)] /\ i - Len(s) < j - Len(s)
          /\ i - Len(s) \in DOMAIN t /\ j - Len(s) \in DOMAIN t
      BY <1>1, <1>2, <1>3, <2>3
    <3> QED
      BY <1>3, <3>1 DEF Sorted
  <2> QED
    BY <1>1, <1>2, <1>3, <2>1, <2>2, <2>3
<1> QED
  BY <1>3 DEF Sorted, u

(* Where the elements of a concatenation come from. *)
LEMMA ConcatFrom ==
    ASSUME NEW S, NEW s \in Seq(S), NEW t \in Seq(S), NEW i \in DOMAIN (s \o t)
    PROVE  \/ \E j \in DOMAIN s : (s \o t)[i] = s[j]
           \/ \E j \in DOMAIN t : (s \o t)[i] = t[j]
<1> DEFINE u == s \o t
<1>1. /\ u \in Seq(S) /\ Len(u) = Len(s) + Len(t) /\ Len(s) \in Nat /\ Len(t) \in Nat
      /\ \A k \in 1 .. Len(s) + Len(t) : u[k] = IF k <= Len(s) THEN s[k] ELSE t[k - Len(s)]
  BY ConcatProperties, LenProperties
<1>2. DOMAIN u = 1 .. Len(u) /\ DOMAIN s = 1 .. Len(s) /\ DOMAIN t = 1 .. Len(t)
  BY <1>1, LenProperties
<1> HIDE DEF u
<1>3. \/ i \in DOMAIN s /\ u[i] = s[i]
      \/ i - Len(s) \in DOMAIN t /\ u[i] = t[i - Len(s)]
  BY <1>1, <1>2 DEF u
<1> QED
  BY <1>3 DEF u

LEMMA AheadConcat ==
    ASSUME NEW S, NEW s \in Seq(S), NEW t \in Seq(S), NEW u
    PROVE  /\ Ahead(s, u) /\ Ahead(t, u) => Ahead(s \o t, u)
           /\ Ahead(u, s) /\ Ahead(u, t) => Ahead(u, s \o t)
BY ConcatFrom DEF Ahead

(* A read takes the front of what a client sent and leaves the rest. *)
LEMMA Pieces ==
    ASSUME NEW S, NEW s \in Seq(S), NEW n \in 1 .. Len(s)
    PROVE  /\ SubSeq(s, 1, n) \in Seq(S) /\ Len(SubSeq(s, 1, n)) = n
           /\ \A i \in 1 .. n : SubSeq(s, 1, n)[i] = s[i]
           /\ SubSeq(s, n + 1, Len(s)) \in Seq(S) /\ Len(SubSeq(s, n + 1, Len(s))) = Len(s) - n
           /\ \A i \in 1 .. Len(s) - n : SubSeq(s, n + 1, Len(s))[i] = s[n + i]
<1> DEFINE p == SubSeq(s, 1, n)
           m == n + 1
           r == SubSeq(s, m, Len(s))
<1>1. Len(s) \in Nat /\ n \in Int /\ m \in Int /\ \A i \in 1 .. Len(s) : s[i] \in S
  BY LenProperties
<1>2. /\ p \in Seq(S) /\ Len(p) = (IF 1 <= n THEN n - 1 + 1 ELSE 0)
      /\ \A i \in 1 .. n - 1 + 1 : p[i] = s[1 + i - 1]
  <2>1. \A i \in 1 .. n : s[i] \in S
    BY <1>1
  <2> QED
    BY <1>1, <2>1, SubSeqProperties
<1> HIDE DEF m
<1>3. /\ r \in Seq(S) /\ Len(r) = (IF m <= Len(s) THEN Len(s) - m + 1 ELSE 0)
      /\ \A i \in 1 .. Len(s) - m + 1 : r[i] = s[m + i - 1]
  <2>1. \A i \in m .. Len(s) : s[i] \in S
    BY <1>1 DEF m
  <2> QED
    BY <1>1, <2>1, SubSeqProperties
<1> HIDE DEF p, r
<1>4. /\ p \in Seq(S) /\ Len(p) = n /\ \A i \in 1 .. n : p[i] = s[i]
  BY <1>1, <1>2
<1>5. Len(s) - m + 1 = Len(s) - n /\ (m <= Len(s) \/ Len(s) = n)
  BY <1>1 DEF m
<1>6. Len(r) = Len(s) - n
  BY <1>1, <1>3, <1>5
<1>7. ASSUME NEW i \in 1 .. Len(s) - n PROVE r[i] = s[n + i]
  <2>1. m + i - 1 = n + i
    BY <1>1 DEF m
  <2> QED
    BY <2>1, <1>3, <1>5
<1>8. r \in Seq(S)
  BY <1>3
<1> QED
  BY <1>4, <1>6, <1>7, <1>8 DEF p, r, m

(* q has what s has from k places further on. *)
Shifted(q, s, k) == \A i \in DOMAIN q : i + k \in DOMAIN s /\ q[i] = s[i + k]

(* The first token of what was read is not forwarded. *)
LEMMA Splits ==
    ASSUME NEW S, NEW s \in Seq(S), NEW n \in Nat, Sorted(s),
           NEW q \in Seq(S), NEW r \in Seq(S),
           Shifted(q, s, 1), Shifted(r, s, n), Len(q) < n
    PROVE  /\ Sorted(q) /\ Sorted(r) /\ Ahead(q, r)
           /\ \A i \in DOMAIN q : \E j \in DOMAIN s : q[i] = s[j]
           /\ \A i \in DOMAIN r : \E j \in DOMAIN s : r[i] = s[j]
<1>1. Len(q) \in Nat /\ DOMAIN q = 1 .. Len(q) /\ DOMAIN r = 1 .. Len(r)
  BY LenProperties
<1>2. \A i \in DOMAIN q : i + 1 \in DOMAIN s /\ q[i] = s[i + 1]
  BY DEF Shifted
<1>3. \A i \in DOMAIN r : i + n \in DOMAIN s /\ r[i] = s[i + n]
  BY DEF Shifted
<1>4. Sorted(q)
  <2>1. \A i, j \in DOMAIN q : i < j => i + 1 < j + 1
    BY <1>1
  <2> QED
    BY <1>2, <2>1 DEF Sorted
<1>5. Sorted(r)
  <2>1. \A i, j \in DOMAIN r : i < j => i + n < j + n
    BY <1>1
  <2> QED
    BY <1>3, <2>1 DEF Sorted
<1>6. Ahead(q, r)
  <2>1. \A i \in DOMAIN q, j \in DOMAIN r : i + 1 < j + n
    BY <1>1
  <2> QED
    BY <1>2, <1>3, <2>1 DEF Sorted, Ahead
<1> QED
  BY <1>2, <1>3, <1>4, <1>5, <1>6

LEMMA TailFrom ==
    ASSUME NEW S, NEW s \in Seq(S), s # <<>>
    PROVE  /\ 1 \in DOMAIN s /\ Tail(s) \in Seq(S)
           /\ \A i \in DOMAIN Tail(s) : i + 1 \in DOMAIN s /\ i + 1 # 1 /\ Tail(s)[i] = s[i + 1]
           /\ \A i, j \in DOMAIN Tail(s) : i + 1 = j + 1 => i = j
<1>1. /\ Tail(s) \in Seq(S) /\ Len(Tail(s)) = Len(s) - 1
      /\ \A i \in 1 .. Len(Tail(s)) : Tail(s)[i] = s[i + 1]
  BY HeadTailProperties
<1>2. DOMAIN Tail(s) = 1 .. Len(Tail(s)) /\ DOMAIN s = 1 .. Len(s) /\ Len(s) \in Nat \ {0}
  BY <1>1, LenProperties, EmptySeq
<1> QED
  BY <1>1, <1>2

LEMMA AppendFrom ==
    ASSUME NEW S, NEW s \in Seq(S), NEW x \in S
    PROVE  /\ Append(s, x) \in Seq(S) /\ Append(s, x) # <<>>
           /\ \A i \in DOMAIN Append(s, x) :
                 \/ i \in DOMAIN s /\ Append(s, x)[i] = s[i]
                 \/ i = Len(s) + 1 /\ Append(s, x)[i] = x
<1> DEFINE a == Append(s, x)
<1>1. /\ a \in Seq(S) /\ Len(a) = Len(s) + 1
      /\ \A i \in 1 .. Len(s) : a[i] = s[i]
      /\ a[Len(s) + 1] = x /\ a # <<>>
  BY AppendProperties
<1> HIDE DEF a
<1>2. DOMAIN a = 1 .. Len(s) + 1 /\ DOMAIN s = 1 .. Len(s) /\ Len(s) \in Nat
  BY <1>1, LenProperties
<1> QED
  BY <1>1, <1>2 DEF a

LEMMA SubSeqFrom ==
    ASSUME NEW S, NEW s \in Seq(S), NEW m \in 1 .. Len(s) + 1, NEW n \in 0 .. Len(s), m <= n + 1
    PROVE  /\ SubSeq(s, m, n) \in Seq(S) /\ Len(SubSeq(s, m, n)) = n - m + 1
           /\ DOMAIN SubSeq(s, m, n) = 1 .. n - m + 1
           /\ \A i \in 1 .. n - m + 1 :
                 m + i - 1 \in m .. n /\ SubSeq(s, m, n)[i] = s[m + i - 1]
<1> DEFINE p == SubSeq(s, m, n)
<1>1. Len(s) \in Nat /\ m \in Int /\ n \in Int /\ \A i \in m .. n : s[i] \in S
  BY LenProperties, ElementOfSeq
<1>2. /\ p \in Seq(S) /\ Len(p) = (IF m <= n THEN n - m + 1 ELSE 0)
      /\ \A i \in 1 .. n - m + 1 : p[i] = s[m + i - 1]
  BY <1>1, SubSeqProperties
<1> HIDE DEF p
<1>3. Len(p) = n - m + 1
  BY <1>1, <1>2
<1>4. DOMAIN p = 1 .. n - m + 1
  BY <1>2, <1>3, LenProperties
<1>5. \A i \in 1 .. n - m + 1 : m + i - 1 \in m .. n
  BY <1>1
<1> QED
  BY <1>2, <1>3, <1>4, <1>5 DEF p

LEMMA ConcatDistinct ==
    ASSUME NEW S, NEW s \in Seq(S), NEW t \in Seq(S), Distinct(s), Distinct(t),
           \A i \in DOMAIN s, j \in DOMAIN t : s[i] # t[j]
    PROVE  s \o t \in Seq(S) /\ Distinct(s \o t)
<1> DEFINE u == s \o t
<1>1. /\ u \in Seq(S) /\ Len(u) = Len(s) + Len(t) /\ Len(s) \in Nat /\ Len(t) \in Nat
      /\ \A k \in 1 .. Len(s) + Len(t) : u[k] = IF k <= Len(s) THEN s[k] ELSE t[k - Len(s)]
  BY ConcatProperties, LenProperties
<1>2. DOMAIN u = 1 .. Len(u) /\ DOMAIN s = 1 .. Len(s) /\ DOMAIN t = 1 .. Len(t)
  BY <1>1, LenProperties
<1> HIDE DEF u
<1>3. ASSUME NEW i \in DOMAIN u
      PROVE  \/ i \in DOMAIN s /\ u[i] = s[i]
             \/ i - Len(s) \in DOMAIN t /\ i \notin DOMAIN s /\ u[i] = t[i - Len(s)]
  BY <1>1, <1>2, <1>3
<1>4. ASSUME NEW i \in DOMAIN u, NEW j \in DOMAIN u, u[i] = u[j] PROVE i = j
  <2>1. CASE i \in DOMAIN s /\ j \in DOMAIN s
    <3>1. s[i] = s[j]
      BY <1>2, <1>3, <1>4, <2>1
    <3> QED
      BY <2>1, <3>1 DEF Distinct
  <2>2. CASE i \notin DOMAIN s /\ j \notin DOMAIN s
    <3>1. /\ i - Len(s) \in DOMAIN t /\ j - Len(s) \in DOMAIN t
          /\ t[i - Len(s)] = t[j - Len(s)]
      BY <1>3, <1>4, <2>2
    <3>2. i - Len(s) = j - Len(s)
      BY <3>1 DEF Distinct
    <3> QED
      BY <1>1, <1>2, <3>2
  <2> QED
    BY <1>3, <1>4, <2>1, <2>2
<1> QED
  BY <1>1, <1>4 DEF Distinct, u

LEMMA RemoveAtDistinct ==
    ASSUME NEW S, NEW s \in Seq(S), Distinct(s), NEW k \in DOMAIN s
    PROVE  RemoveAt(s, k) \in Seq(S) /\ Distinct(RemoveAt(s, k))
<1>1. DOMAIN s = 1 .. Len(s) /\ Len(s) \in Nat /\ k \in 1 .. Len(s)
  BY LenProperties
<1> DEFINE a == SubSeq(s, 1, k - 1)
           b == SubSeq(s, k + 1, Len(s))
<1>2. /\ a \in Seq(S) /\ DOMAIN a = 1 .. (k - 1) - 1 + 1
      /\ \A i \in 1 .. (k - 1) - 1 + 1 : 1 + i - 1 \in 1 .. k - 1 /\ a[i] = s[1 + i - 1]
  BY <1>1, SubSeqFrom
<1>3. /\ b \in Seq(S) /\ DOMAIN b = 1 .. Len(s) - (k + 1) + 1
      /\ \A i \in 1 .. Len(s) - (k + 1) + 1 :
            (k + 1) + i - 1 \in k + 1 .. Len(s) /\ b[i] = s[(k + 1) + i - 1]
  BY <1>1, SubSeqFrom
<1> HIDE DEF a, b
<1>4. Distinct(a)
  <2>1. \A i, j \in DOMAIN a : 1 + i - 1 = 1 + j - 1 => i = j
    BY <1>1, <1>2
  <2>2. \A i \in DOMAIN a : 1 + i - 1 \in DOMAIN s /\ a[i] = s[1 + i - 1]
    BY <1>1, <1>2
  <2> QED
    BY <2>1, <2>2 DEF Distinct
<1>5. Distinct(b)
  <2>1. \A i, j \in DOMAIN b : (k + 1) + i - 1 = (k + 1) + j - 1 => i = j
    BY <1>1, <1>3
  <2>2. \A i \in DOMAIN b : (k + 1) + i - 1 \in DOMAIN s /\ b[i] = s[(k + 1) + i - 1]
    BY <1>1, <1>3
  <2> QED
    BY <2>1, <2>2 DEF Distinct
<1>6. ASSUME NEW i \in DOMAIN a, NEW j \in DOMAIN b PROVE a[i] # b[j]
  <2>1. /\ 1 + i - 1 \in DOMAIN s /\ (k + 1) + j - 1 \in DOMAIN s
        /\ 1 + i - 1 # (k + 1) + j - 1
        /\ a[i] = s[1 + i - 1] /\ b[j] = s[(k + 1) + j - 1]
    BY <1>1, <1>2, <1>3
  <2> QED
    BY <2>1 DEF Distinct
<1>7. a \o b \in Seq(S) /\ Distinct(a \o b)
  BY <1>2, <1>3, <1>4, <1>5, <1>6, ConcatDistinct
<1> QED
  BY <1>7 DEF RemoveAt, a, b

LEMMA AppendDistinct ==
    ASSUME NEW S, NEW s \in Seq(S), Distinct(s), NEW x \in S, x \notin ToSet(s)
    PROVE  Append(s, x) \in Seq(S) /\ Distinct(Append(s, x))
<1>1. Append(s, x) \in Seq(S)
  BY AppendFrom
<1>2. ASSUME NEW i \in DOMAIN Append(s, x)
      PROVE  \/ i \in DOMAIN s /\ Append(s, x)[i] = s[i] /\ s[i] # x
             \/ i = Len(s) + 1 /\ Append(s, x)[i] = x
  BY AppendFrom DEF ToSet
<1> HIDE DEF Distinct
<1> QED
  BY <1>1, <1>2 DEF Distinct
-----------------------------------------------------------------------------
(* The ready list and the events of a batch. *)

(* What is to be read on a listed source makes a true event, and no two of   *)
(* them have the same descriptor.                                            *)
LEMMA EventsTrue ==
    ASSUME TypeOK, OneOwner, NEW s \in Sources, Pollable(s)
    PROVE  /\ EventOf(s) \in Raised
           /\ \/ EventOf(s).fd = listenfd /\ queue # <<>> /\ s = NoClient
              \/ /\ EventOf(s).fd # listenfd /\ s \in Clients /\ EventOf(s).for = s
                 /\ Owns(s, EventOf(s).fd) /\ Readable(s)
<1>1. \A fd \in Fds : fd # listenfd
  BY DEF Fds, listenfd, TypeOK
<1>2. CASE s = NoClient
  BY <1>2 DEF EventOf, Pollable, Raised, Sources
<1>3. CASE s # NoClient
  <2>1. s \in Clients /\ Readable(s) /\ conn[s] = "accepted"
    BY <1>3 DEF Pollable, Readable, Sources
  <2>2. fdOf[s] \in Fds
    BY <2>1 DEF OneOwner
  <2> QED
    BY <1>1, <1>3, <2>1, <2>2 DEF EventOf, Raised, Owns
<1> QED
  BY <1>2, <1>3

LEMMA EventsDiffer ==
    ASSUME TypeOK, OneOwner, NEW s \in Sources, NEW t \in Sources,
           Pollable(s), Pollable(t), EventOf(s).fd = EventOf(t).fd
    PROVE  s = t
BY EventsTrue DEF OneOwner, Owns

LEMMA Batches ==
    ASSUME TypeOK, OneOwner, Listed, EpollWait
    PROVE  /\ events' \in Seq(Raised)
           /\ \A i \in DOMAIN events' :
                 \E s \in Sources : Pollable(s) /\ events'[i] = EventOf(s)
           /\ \A i, j \in DOMAIN events' : events'[i].fd = events'[j].fd => i = j
           /\ Listed'
<1>1. PICK n \in 1 .. Len(ready) :
         \E hits \in SetToSeqs({i \in 1 .. n : Pollable(ready[i])}) :
          /\ events' = [i \in DOMAIN hits |-> EventOf(ready[hits[i]])]
          /\ ready' = SubSeq(ready, n + 1, Len(ready)) \o [i \in DOMAIN hits |-> ready[hits[i]]]
  BY Zenon DEF EpollWait
<1>0. PICK hits \in SetToSeqs({i \in 1 .. n : Pollable(ready[i])}) :
          /\ events' = [i \in DOMAIN hits |-> EventOf(ready[hits[i]])]
          /\ ready' = SubSeq(ready, n + 1, Len(ready)) \o [i \in DOMAIN hits |-> ready[hits[i]]]
  BY <1>1, Zenon
<1> DEFINE H == {i \in 1 .. n : Pollable(ready[i])}
           K == Cardinality(H)
           b == [i \in DOMAIN hits |-> ready[hits[i]]]
           r == SubSeq(ready, n + 1, Len(ready))
<1>2. Len(ready) \in Nat /\ DOMAIN ready = 1 .. Len(ready) /\ n \in Nat
      /\ \A i \in 1 .. Len(ready) : ready[i] \in Sources
  BY LenProperties, ElementOfSeq DEF Listed
<1>3. K \in Nat
  <2>1. H \in SUBSET (1 .. n) /\ IsFiniteSet(1 .. n)
    BY <1>2, FS_Interval
  <2> QED
    BY <2>1, FS_Subset, FS_CardinalityType
<1>4. hits \in [1 .. K -> H] /\ \A i, j \in 1 .. K : i # j => hits[i] # hits[j]
  BY DEF SetToSeqs
<1> HIDE DEF K
<1>5. /\ DOMAIN hits = 1 .. K
      /\ \A i \in 1 .. K : /\ hits[i] \in 1 .. n /\ hits[i] \in DOMAIN ready
                           /\ ready[hits[i]] \in Sources /\ Pollable(ready[hits[i]])
  BY <1>2, <1>4
<1>6. b \in Seq(Sources) /\ DOMAIN b = 1 .. K /\ \A i \in 1 .. K : b[i] = ready[hits[i]]
  <2>1. b \in [1 .. K -> Sources]
    BY <1>5
  <2> QED
    BY <1>3, <1>5, <2>1, SeqDef
<1>7. Distinct(b)
  BY <1>4, <1>5, <1>6 DEF Listed, Distinct
<1>8. /\ r \in Seq(Sources) /\ DOMAIN r = 1 .. Len(ready) - (n + 1) + 1
      /\ \A i \in 1 .. Len(ready) - (n + 1) + 1 :
            (n + 1) + i - 1 \in n + 1 .. Len(ready) /\ r[i] = ready[(n + 1) + i - 1]
  BY <1>2, SubSeqFrom DEF Listed
<1> HIDE DEF b, r, H
<1>9. Distinct(r)
  <2>1. \A i, j \in DOMAIN r : (n + 1) + i - 1 = (n + 1) + j - 1 => i = j
    BY <1>2, <1>8
  <2>2. \A i \in DOMAIN r : (n + 1) + i - 1 \in DOMAIN ready /\ r[i] = ready[(n + 1) + i - 1]
    BY <1>2, <1>8
  <2> QED
    BY <2>1, <2>2 DEF Listed, Distinct
<1>10. ASSUME NEW i \in DOMAIN r, NEW j \in DOMAIN b PROVE r[i] # b[j]
  <2>1. /\ (n + 1) + i - 1 \in DOMAIN ready /\ r[i] = ready[(n + 1) + i - 1]
        /\ hits[j] \in DOMAIN ready /\ b[j] = ready[hits[j]]
        /\ hits[j] # (n + 1) + i - 1
    BY <1>2, <1>5, <1>6, <1>8
  <2> QED
    BY <2>1 DEF Listed, Distinct
<1>11. Listed'
  <2>1. r \o b \in Seq(Sources) /\ Distinct(r \o b)
    BY <1>6, <1>7, <1>8, <1>9, <1>10, ConcatDistinct
  <2> QED
    BY <1>0, <2>1 DEF Listed, r, b
<1>12. /\ DOMAIN events' = 1 .. K
       /\ \A i \in 1 .. K : events'[i] = EventOf(ready[hits[i]])
  BY <1>0, <1>5
<1>13. events' \in Seq(Raised)
  <2>1. events' \in [1 .. K -> Raised]
    BY <1>0, <1>5, EventsTrue
  <2> QED
    BY <1>3, <2>1, SeqDef
<1>14. ASSUME NEW i \in DOMAIN events', NEW j \in DOMAIN events',
              events'[i].fd = events'[j].fd
       PROVE  i = j
  <2>1. ready[hits[i]] = ready[hits[j]]
    BY <1>5, <1>12, <1>14, EventsDiffer
  <2> QED
    BY <1>4, <1>5, <1>12, <2>1 DEF Listed, Distinct
<1> QED
  BY <1>5, <1>11, <1>12, <1>13, <1>14

(* A source that gets something to read. *)
LEMMA WakeListed ==
    ASSUME Listed, NEW s \in Sources, Wake(s)
    PROVE  Listed'
BY AppendDistinct DEF Listed, Wake

(* accept's descriptor is free. *)
LEMMA LowestFree ==
    ASSUME TypeOK, FreeFds # {}
    PROVE  Min(FreeFds) \in FreeFds
<1>1. FreeFds \subseteq Nat
  BY DEF FreeFds, Fds, TypeOK
<1>2. PICK x \in FreeFds : \A y \in FreeFds : <<y, x>> \notin OpToRel(<, Nat)
  BY <1>1, WFMin, NatLessThanWellFounded
<1>3. ASSUME NEW y \in FreeFds PROVE x <= y
  <2>1. x \in Nat /\ y \in Nat
    BY <1>1
  <2>2. <<y, x>> \notin {ss \in Nat \X Nat : ss[1] < ss[2]}
    BY <1>2 DEF OpToRel
  <2> QED
    BY <2>1, <2>2
<1> QED
  BY <1>2, <1>3 DEF Min
-----------------------------------------------------------------------------
(* Events, queue and descriptors. *)

(* A step that neither accepts nor closes, takes no event and reads nothing. *)
LEMMA ConnectionsKept ==
    ASSUME TypeOK, Connections, UNCHANGED <<limit, slots, conn, queue, fdOf, events>>,
           \A c \in Clients : Readable(c) => Readable(c)'
    PROVE  Connections'
<1>1. Batch' /\ Queued' /\ OneOwner'
  BY DEF Connections, Batch, Queued, OneOwner, Raised, Fds
<1>2. EventsFresh'
  BY DEF Connections, Batch, EventsFresh, Owns
<1> QED
  BY <1>1, <1>2 DEF Connections

LEMMA ConnectionsConnect ==
    ASSUME TypeOK, Connections, NEW c \in Clients, Connect(c), UNCHANGED <<limit, slots, events>>
    PROVE  Connections'
<1>1. /\ conn[c] = "none" /\ conn' = [conn EXCEPT ![c] = "queued"]
      /\ queue' = Append(queue, c) /\ UNCHANGED <<limit, slots, fdOf, out, eof, events>>
  BY DEF Connect
<1>2. /\ queue' # <<>>
      /\ \A i \in DOMAIN queue' : \/ i \in DOMAIN queue /\ queue'[i] = queue[i]
                                  \/ i = Len(queue) + 1 /\ queue'[i] = c
  <2>1. queue \in Seq(Clients)
    BY DEF TypeOK
  <2>2. /\ Append(queue, c) # <<>>
        /\ \A i \in DOMAIN Append(queue, c) :
              \/ i \in DOMAIN queue /\ Append(queue, c)[i] = queue[i]
              \/ i = Len(queue) + 1 /\ Append(queue, c)[i] = c
    BY <2>1, AppendFrom
  <2> QED
    BY <1>1, <2>2
<1>3. /\ conn'[c] = "queued"
      /\ \A d \in Clients : d # c => conn'[d] = conn[d]
  BY <1>1 DEF TypeOK
<1>4. Batch'
  BY <1>1 DEF Connections, Batch, Raised, Fds
<1>5. EventsFresh'
  BY <1>1, <1>2, <1>3 DEF Connections, Batch, EventsFresh, Owns, Readable
<1>6. Queued'
  <2>1. \A i \in DOMAIN queue : queue[i] \in Clients /\ queue[i] # c
    BY <1>1, LenProperties, ElementOfSeq DEF TypeOK, Connections, Queued
  <2>2. \A i \in DOMAIN queue' : conn'[queue'[i]] = "queued"
    BY <1>2, <1>3, <2>1 DEF Connections, Queued
  <2>3. \A i, j \in DOMAIN queue' : queue'[i] = queue'[j] => i = j
    BY <1>2, <2>1 DEF Connections, Queued
  <2> QED
    BY <2>2, <2>3 DEF Queued
<1>7. OneOwner'
  BY <1>1, <1>3 DEF Connections, OneOwner, Fds
<1> QED
  BY <1>4, <1>5, <1>6, <1>7 DEF Connections

LEMMA ConnectionsWait ==
    ASSUME TypeOK, Connections, Listed, EpollWait
    PROVE  Connections'
<1>1. UNCHANGED <<limit, slots, conn, queue, fdOf, out, eof>>
  BY DEF EpollWait, connVars
<1>2. OneOwner
  BY DEF Connections
<1>3. /\ events' \in Seq(Raised)
      /\ \A i, j \in DOMAIN events' : events'[i].fd = events'[j].fd => i = j
  BY <1>2, Batches
<1>4. ASSUME NEW i \in DOMAIN events'
      PROVE  \/ events'[i].fd = listenfd /\ queue # <<>>
             \/ /\ events'[i].fd # listenfd /\ events'[i].for \in Clients
                /\ Owns(events'[i].for, events'[i].fd) /\ Readable(events'[i].for)
  <2>1. PICK s \in Sources : Pollable(s) /\ events'[i] = EventOf(s)
    BY <1>2, Batches
  <2> QED
    BY <1>2, <2>1, EventsTrue
<1>5. Raised' = Raised
  BY <1>1 DEF Raised, Fds
<1>6. Batch'
  BY <1>3, <1>4, <1>5 DEF Batch
<1>7. EventsFresh'
  BY <1>1, <1>4 DEF EventsFresh, Owns, Readable
<1>8. Queued' /\ OneOwner'
  BY <1>1 DEF Connections, Queued, OneOwner, Fds
<1> QED
  BY <1>6, <1>7, <1>8 DEF Connections

(* What is left of the batch when its first event is handled. *)
LEMMA BatchTail ==
    ASSUME TypeOK, Connections, events # <<>>, events' = Tail(events), limit' = limit
    PROVE  /\ Batch' /\ 1 \in DOMAIN events
           /\ \A i \in DOMAIN events' :
                 i + 1 \in DOMAIN events /\ events'[i] = events[i + 1]
                                         /\ events'[i].fd # events[1].fd
<1>1. /\ 1 \in DOMAIN events /\ events' \in Seq(Raised)
      /\ \A i \in DOMAIN events' : i + 1 \in DOMAIN events /\ i + 1 # 1 /\ events'[i] = events[i + 1]
      /\ \A i, j \in DOMAIN events' : i + 1 = j + 1 => i = j
  BY TailFrom DEF Connections, Batch
<1>2. Raised' = Raised
  BY DEF Raised, Fds
<1> QED
  BY <1>1, <1>2 DEF Connections, Batch

LEMMA ConnectionsAccept ==
    ASSUME TypeOK, Connections, Accept
    PROVE  Connections'
<1>1. /\ events # <<>> /\ events[1].fd = listenfd /\ events' = Tail(events)
      /\ UNCHANGED <<limit, slots, out, eof>>
  BY DEF Accept, Event
<1>2. /\ Batch' /\ 1 \in DOMAIN events
      /\ \A i \in DOMAIN events' : /\ i + 1 \in DOMAIN events /\ events'[i] = events[i + 1]
                                   /\ events'[i].fd # listenfd
  BY <1>1, BatchTail
<1>3. CASE UNCHANGED <<conn, queue, fdOf>>
  <2>1. EventsFresh'
    BY <1>1, <1>2, <1>3 DEF Connections, EventsFresh, Owns, Readable
  <2>2. Queued' /\ OneOwner'
    BY <1>1, <1>3 DEF Connections, Queued, OneOwner, Fds
  <2> QED
    BY <1>2, <2>1, <2>2 DEF Connections
<1>4. CASE FreeFds # {}
  <2> DEFINE h == Head(queue)
             m == Min(FreeFds)
  <2>1. /\ conn' = [conn EXCEPT ![h] = "accepted"] /\ fdOf' = [fdOf EXCEPT ![h] = m]
        /\ queue' = Tail(queue)
    BY <1>4 DEF Accept, AcceptFirst
  <2>2. queue # <<>> /\ queue \in Seq(Clients)
    BY <1>1, <1>2 DEF Connections, EventsFresh, TypeOK
  <2>3. /\ 1 \in DOMAIN queue /\ h = queue[1] /\ h \in Clients
        /\ \A i \in DOMAIN queue' : i + 1 \in DOMAIN queue /\ i + 1 # 1 /\ queue'[i] = queue[i + 1]
        /\ \A i, j \in DOMAIN queue' : i + 1 = j + 1 => i = j
    BY <2>1, <2>2, TailFrom, HeadTailProperties
  <2>4. m \in Fds /\ \A d \in Clients : ~Owns(d, m)
    BY <1>4, LowestFree DEF FreeFds
  <2> HIDE DEF h, m
  <2>5. conn[h] = "queued"
    BY <2>3 DEF Connections, Queued
  <2>6. /\ conn'[h] = "accepted" /\ fdOf'[h] = m
        /\ \A d \in Clients : d # h => conn'[d] = conn[d] /\ fdOf'[d] = fdOf[d]
    BY <2>1, <2>3 DEF TypeOK
  <2>7. \A i \in DOMAIN queue' : queue'[i] \in Clients /\ queue'[i] # h
    BY <2>2, <2>3, LenProperties, ElementOfSeq DEF Connections, Queued
  <2>8. Queued'
    <3>1. \A i \in DOMAIN queue' : conn'[queue'[i]] = "queued"
      BY <2>3, <2>6, <2>7 DEF Connections, Queued
    <3>2. \A i, j \in DOMAIN queue' : queue'[i] = queue'[j] => i = j
      BY <2>3 DEF Connections, Queued
    <3> QED
      BY <3>1, <3>2 DEF Queued
  <2>9. OneOwner'
    <3>1. Fds' = Fds
      BY <1>1 DEF Fds
    <3>2. \A c \in Clients : conn'[c] = "accepted" => fdOf'[c] \in Fds'
      BY <2>4, <2>6, <3>1 DEF Connections, OneOwner
    <3>3. ASSUME NEW c \in Clients, NEW d \in Clients, conn'[c] = "accepted",
                 conn'[d] = "accepted", fdOf'[c] = fdOf'[d]
          PROVE  c = d
      BY <2>4, <2>6, <3>3 DEF Connections, OneOwner, Owns
    <3> QED
      BY <3>2, <3>3 DEF OneOwner
  <2>10. EventsFresh'
    BY <1>1, <1>2, <2>5, <2>6 DEF Connections, Batch, EventsFresh, Owns, Readable
  <2> QED
    BY <1>2, <2>8, <2>9, <2>10 DEF Connections
<1> QED
  BY <1>3, <1>4 DEF Accept

LEMMA ConnectionsRead ==
    ASSUME TypeOK, Connections, NEW c \in Clients, ReadData(c) \/ ReadEof(c)
    PROVE  Connections'
<1>1. /\ events # <<>> /\ events[1].fd # listenfd /\ events' = Tail(events)
      /\ conn[c] = "accepted" /\ fdOf[c] = events[1].fd /\ UNCHANGED <<limit, slots, queue>>
  BY DEF ReadData, ReadEof, Event, Owns
<1>2. /\ Batch' /\ 1 \in DOMAIN events
      /\ \A i \in DOMAIN events' :
            i + 1 \in DOMAIN events /\ events'[i] = events[i + 1]
                                    /\ events'[i].fd # events[1].fd
  BY <1>1, BatchTail
<1>3. \A d \in Clients : d # c => /\ conn'[d] = conn[d] /\ fdOf'[d] = fdOf[d]
                                  /\ out'[d] = out[d] /\ eof'[d] = eof[d]
  BY DEF ReadData, ReadEof, TypeOK
<1>4. /\ conn'[c] = "accepted" => UNCHANGED <<conn, fdOf>>
      /\ conn'[c] # "queued"
  BY <1>1 DEF ReadData, ReadEof, TypeOK
<1>5. EventsFresh'
  BY <1>1, <1>2, <1>3 DEF Connections, Batch, EventsFresh, Owns, Readable
<1>6. Queued'
  <2>1. \A i \in DOMAIN queue : queue[i] \in Clients /\ queue[i] # c
    BY <1>1, LenProperties, ElementOfSeq DEF TypeOK, Connections, Queued
  <2> QED
    BY <1>1, <1>3, <2>1 DEF Connections, Queued
<1>7. OneOwner'
  BY <1>1, <1>3, <1>4 DEF Connections, OneOwner, Fds
<1> QED
  BY <1>2, <1>5, <1>6, <1>7 DEF Connections
-----------------------------------------------------------------------------
(* What is sent, read and forwarded. *)

LEMMA StreamTypes ==
    ASSUME TypeOK, Lengths
    PROVE  /\ Pipe \in Seq(Token)
           /\ pc = "forward" => Tail(buf) \in Seq(Token) /\ Len(Tail(buf)) = Len(buf) - 1
<1>1. forwarded \in Seq(Token) /\ buf \in Seq(Token) /\ (pc = "forward" => buf # <<>>)
  BY DEF TypeOK, Lengths
<1>2. pc = "forward" => Tail(buf) \in Seq(Token) /\ Len(Tail(buf)) = Len(buf) - 1
  BY <1>1, HeadTailProperties
<1>3. pc = "forward" => forwarded \o Tail(buf) \in Seq(Token)
  BY <1>1, <1>2, ConcatProperties
<1> QED
  BY <1>1, <1>2, <1>3 DEF Pipe

LEMMA StreamKept ==
    ASSUME Stream, Pipe' = Pipe, UNCHANGED <<out, sent>>
    PROVE  Stream'
<1>1. \A c \in Clients : out'[c] = out[c]
  OBVIOUS
<1> QED
  BY <1>1 DEF Stream, Sorted, Ahead

(* A command is two tokens, after everything of its client. *)
LEMMA StreamSend ==
    ASSUME TypeOK, Stream, Lengths, NEW c \in Clients, NEW k \in Commands, Send(c, k),
           UNCHANGED <<limit, slots, payment, pc, events, cur, buf, forwarded, taken>>
    PROVE  /\ Stream' /\ Lengths' /\ out' \in [Clients -> Seq(Token)]
           /\ sent' \in [Clients -> 0 .. MaxSend]
<1> DEFINE m == LastSent(c)
           n == m + 1
           a == <<k, c, n>>
           b == <<"body", c, n>>
           t == <<a, b>>
           o == out[c] \o t
<1>0. /\ m \in Nat /\ Len(out[c]) <= 2 * m
      /\ \A i \in DOMAIN out[c] : out[c][i][2] = c /\ out[c][i][3] <= m
      /\ \A i \in DOMAIN Pipe : Pipe[i][2] = c => Pipe[i][3] <= m
  <2>1. CASE m = sent[c]
    BY <2>1 DEF TypeOK, Stream, Lengths
  <2>2. CASE m # sent[c]
    <3>1. m = 0 /\ out[c] = <<>> /\ \A i \in DOMAIN Pipe : Pipe[i][2] # c
      BY <2>2 DEF LastSent
    <3>2. Len(<<>>) = 0 /\ DOMAIN <<>> = {}
      BY EmptySeq
    <3> QED
      BY <3>1, <3>2
  <2> QED
    BY <2>1, <2>2
<1>1. /\ m < MaxSend /\ sent' = [sent EXCEPT ![c] = n]
      /\ out' = [out EXCEPT ![c] = o]
      /\ m \in Nat /\ out[c] \in Seq(Token)
  BY <1>0 DEF Send, TypeOK
<1> HIDE DEF m
<1>2. /\ sent'[c] = n /\ out'[c] = o /\ n \in 1 .. MaxSend
      /\ \A d \in Clients : d # c => out'[d] = out[d] /\ sent'[d] = sent[d]
      /\ \A d \in Clients : sent[d] \in Nat /\ sent'[d] \in 0 .. MaxSend
  <2>1. MaxSend \in Nat /\ \A d \in Clients : sent[d] \in 0 .. MaxSend
    BY ServerAssumption DEF TypeOK
  <2>2. DOMAIN sent = Clients /\ DOMAIN out = Clients
    BY DEF TypeOK
  <2> HIDE DEF n, o
  <2>3. /\ sent'[c] = n /\ out'[c] = o
        /\ \A d \in Clients : d # c => out'[d] = out[d] /\ sent'[d] = sent[d]
    BY <1>1, <2>2
  <2>4. n \in 1 .. MaxSend /\ m <= n
    BY <1>1, <2>1 DEF n
  <2>5. \A d \in Clients : sent[d] \in Nat /\ sent'[d] \in 0 .. MaxSend
    BY <2>1, <2>3, <2>4
  <2> QED
    BY <2>3, <2>4, <2>5
<1>3. a \in Token /\ b \in Token /\ k # "body" /\ a[1] = k /\ a[2] = c /\ a[3] = n
  BY <1>2, ServerAssumption DEF Token
<1>4. b[1] = "body" /\ b[2] = c /\ b[3] = n
  OBVIOUS
<1>5. t \in Seq(Token) /\ Len(t) = 2 /\ DOMAIN t = 1 .. 2 /\ t[1] = a /\ t[2] = b
  BY <1>3
<1> HIDE DEF a, b
<1>6. Rank(a) = 2 * n /\ Rank(b) = 2 * n + 1 /\ n \in Nat
  BY <1>2, <1>3, <1>4 DEF Rank
<1>7. \A i \in DOMAIN t : t[i][2] = c /\ t[i][3] = n /\ (t[i] = a \/ t[i] = b)
  <2>1. \A i \in 1 .. 2 : i = 1 \/ i = 2
    OBVIOUS
  <2> QED
    BY <1>3, <1>4, <1>5, <2>1
<1> HIDE DEF t
<1>8. Sorted(t)
  <2>1. \A i, j \in 1 .. 2 : i < j => i = 1 /\ j = 2
    OBVIOUS
  <2> QED
    BY <1>5, <1>6, <2>1 DEF Sorted
<1>9. Pipe' = Pipe /\ Pipe \in Seq(Token)
  BY StreamTypes DEF Pipe
<1>10. ASSUME NEW s \in Seq(Token), \A i \in DOMAIN s : s[i][2] = c => s[i][3] <= m
       PROVE  Ahead(s, t)
  <2>1. ASSUME NEW i \in DOMAIN s, NEW j \in DOMAIN t, s[i][2] = t[j][2]
        PROVE  Rank(s[i]) < Rank(t[j])
    <3>1. s[i] \in Token
      BY LenProperties, ElementOfSeq
    <3>2. s[i][3] <= m /\ s[i][3] \in Int /\ Rank(s[i]) \in Int /\ Rank(s[i]) <= 2 * s[i][3] + 1
      BY <1>7, <1>10, <2>1, <3>1, TokenParts
    <3>3. 2 * n <= Rank(t[j]) /\ Rank(t[j]) \in Int
      BY <1>6, <1>7
    <3> QED
      BY <1>1, <3>2, <3>3
  <2> QED
    BY <2>1 DEF Ahead
<1>11. \A i \in DOMAIN out[c] : out[c][i][2] = c /\ out[c][i][3] <= m
  BY <1>0
<1>12. /\ Sorted(out[c]) /\ Sorted(Pipe) /\ Ahead(Pipe, out[c])
       /\ \A i \in DOMAIN Pipe : Pipe[i][2] = c => Pipe[i][3] <= m
  BY <1>0 DEF Stream
<1>13. Sorted(o) /\ Ahead(Pipe, o) /\ o \in Seq(Token) /\ Len(o) = Len(out[c]) + 2
  <2>1. Ahead(out[c], t) /\ Ahead(Pipe, t)
    BY <1>1, <1>9, <1>10, <1>11, <1>12
  <2>2. Sorted(o)
    BY <1>1, <1>5, <1>8, <1>12, <2>1, SortedConcat
  <2>3. Ahead(Pipe, o)
    <3>1. out[c] \in Seq(Token) /\ t \in Seq(Token)
      BY <1>1, <1>5
    <3> QED
      BY <3>1, <1>12, <2>1, AheadConcat, Zenon
  <2>4. o \in Seq(Token) /\ Len(o) = Len(out[c]) + 2
    <3>1. out[c] \in Seq(Token) /\ t \in Seq(Token) /\ Len(t) = 2
      BY <1>1, <1>5
    <3>2. o \in Seq(Token) /\ Len(o) = Len(out[c]) + Len(t)
      BY <3>1, ConcatProperties
    <3> QED
      BY <3>1, <3>2
  <2> QED
    BY <2>2, <2>3, <2>4
<1>14. \A i \in DOMAIN o : o[i][2] = c /\ o[i][3] <= n
  <2>1. ASSUME NEW i \in DOMAIN o
        PROVE  (\E j \in DOMAIN out[c] : o[i] = out[c][j]) \/ (\E j \in DOMAIN t : o[i] = t[j])
    <3>1. out[c] \in Seq(Token) /\ t \in Seq(Token)
      BY <1>1, <1>5
    <3>2. \A S : \A u \in Seq(S) : \A v \in Seq(S) : \A l \in DOMAIN (u \o v) :
             \/ \E j \in DOMAIN u : (u \o v)[l] = u[j]
             \/ \E j \in DOMAIN v : (u \o v)[l] = v[j]
      BY ConcatFrom
    <3> QED
      BY <3>1, <3>2
  <2>2. \A i \in DOMAIN out[c] : out[c][i] \in Token /\ out[c][i][3] \in Int
    BY <1>1, LenProperties, ElementOfSeq, TokenParts
  <2>3. ASSUME NEW j \in DOMAIN out[c] PROVE out[c][j][3] <= n
    BY <1>1, <1>11, <2>2
  <2>4. n \in Nat /\ \A j \in DOMAIN t : t[j][2] = c /\ t[j][3] = n
    BY <1>2, <1>7
  <2> HIDE DEF n, o
  <2>5. ASSUME NEW i \in DOMAIN o, NEW j \in DOMAIN out[c], o[i] = out[c][j]
        PROVE  o[i][2] = c /\ o[i][3] <= n
    BY <1>11, <2>3, <2>5
  <2>6. ASSUME NEW i \in DOMAIN o, NEW j \in DOMAIN t, o[i] = t[j]
        PROVE  o[i][2] = c /\ o[i][3] <= n
    BY <2>4, <2>6
  <2> QED
    BY <2>1, <2>5, <2>6
<1> HIDE DEF o
<1>15. Stream'
  <2>1. Sorted(Pipe') /\ \A d \in Clients : Sorted(out'[d]) /\ Ahead(Pipe', out'[d])
    BY <1>2, <1>9, <1>13 DEF Stream
  <2>2. ASSUME NEW i \in DOMAIN Pipe PROVE Pipe[i][3] <= sent'[Pipe[i][2]]
    <3>1. Pipe[i] \in Token
      BY <1>9, LenProperties, ElementOfSeq
    <3>2. Pipe[i][2] \in Clients /\ Pipe[i][3] \in Int /\ Pipe[i][3] <= sent[Pipe[i][2]]
      BY <3>1, TokenParts DEF Stream
    <3>3. Pipe[i][2] = c => Pipe[i][3] <= m /\ m <= n /\ m \in Int /\ n \in Int
      BY <1>0, <1>1
    <3> QED
      BY <1>2, <3>2, <3>3
  <2>3. \A d \in Clients : \A i \in DOMAIN out'[d] : out'[d][i][2] = d /\ out'[d][i][3] <= sent'[d]
    BY <1>2, <1>14 DEF Stream
  <2> QED
    BY <1>9, <2>1, <2>2, <2>3 DEF Stream, Sorted, Ahead
<1>16. out' \in [Clients -> Seq(Token)] /\ sent' \in [Clients -> 0 .. MaxSend]
  BY <1>1, <1>2, <1>13 DEF TypeOK
<1>17. Lengths'
  <2>1. ASSUME NEW d \in Clients PROVE Len(out'[d]) <= 2 * sent'[d]
    <3>1. Len(out[d]) \in Nat /\ Len(out[d]) <= 2 * sent[d]
      BY LenProperties DEF TypeOK, Lengths
    <3>2. Len(out[c]) \in Nat /\ Len(out[c]) <= 2 * m /\ Len(out'[c]) = Len(out[c]) + 2
      BY <1>0, <1>1, <1>2, <1>13, LenProperties
    <3>3. Len(out'[c]) <= 2 * sent'[c]
      BY <1>1, <1>2, <3>2
    <3> QED
      BY <1>2, <3>1, <3>3
  <2> QED
    BY <2>1 DEF Lengths
<1> QED
  BY <1>15, <1>16, <1>17

(* What a read moves from the client's socket to payment's stays in order. *)
LEMMA StreamRead ==
    ASSUME TypeOK, Stream, Lengths, NEW c \in Clients, ReadData(c)
    PROVE  /\ Stream' /\ Lengths' /\ out' \in [Clients -> Seq(Token)] /\ buf' \in Seq(Token)
           /\ pc' \in {"forward", "reply"}
<1>1. PICK n \in 1 .. Len(out[c]) :
        /\ buf' = SubSeq(out[c], 1, n)
        /\ out' = [out EXCEPT ![c] = SubSeq(out[c], n + 1, Len(out[c]))]
  BY DEF ReadData
<1> DEFINE s == out[c]
           r == out'[c]
           q == Tail(buf')
<1>2. /\ pc = "dispatch" /\ forwarded' = forwarded /\ sent' = sent /\ pc' \in {"forward", "reply"}
      /\ s \in Seq(Token) /\ r = SubSeq(s, n + 1, Len(s))
      /\ \A d \in Clients : d # c => out'[d] = out[d]
  <2>1. pc = "dispatch" /\ forwarded' = forwarded /\ sent' = sent /\ pc' \in {"forward", "reply"}
    BY DEF ReadData, Event
  <2>2. out \in [Clients -> Seq(Token)]
    BY DEF TypeOK
  <2> QED
    BY <1>1, <2>1, <2>2
<1>3. /\ buf' \in Seq(Token) /\ Len(buf') = n /\ \A i \in 1 .. n : buf'[i] = s[i]
      /\ r \in Seq(Token) /\ Len(r) = Len(s) - n /\ \A i \in 1 .. Len(s) - n : r[i] = s[n + i]
  BY <1>1, <1>2, Pieces
<1> HIDE DEF r
<1>4. Len(s) \in Nat /\ n \in Nat \ {0} /\ n <= Len(s) /\ buf' # <<>>
  BY <1>2, <1>3, LenProperties, EmptySeq
<1>5. q \in Seq(Token) /\ Len(q) = n - 1 /\ \A i \in 1 .. n - 1 : q[i] = s[i + 1]
  <2>1. q \in Seq(Token) /\ Len(q) = Len(buf') - 1 /\ \A i \in 1 .. Len(q) : q[i] = buf'[i + 1]
    BY <1>3, <1>4, HeadTailProperties
  <2> QED
    BY <1>3, <1>4, <2>1
<1> HIDE DEF s, q
<1>6. /\ Sorted(s) /\ Sorted(Pipe) /\ Ahead(Pipe, s)
      /\ \A i \in DOMAIN s : s[i][2] = c /\ s[i][3] <= sent[c]
      /\ \A i \in DOMAIN Pipe : Pipe[i][3] <= sent[Pipe[i][2]]
  BY DEF Stream, s
<1>7. n \in 1 .. Len(s)
  BY <1>4
<1>8. /\ Sorted(q) /\ Sorted(r) /\ Ahead(q, r)
      /\ \A i \in DOMAIN q : \E j \in DOMAIN s : q[i] = s[j]
      /\ \A i \in DOMAIN r : \E j \in DOMAIN s : r[i] = s[j]
  <2>1. /\ s \in Seq(Token) /\ Sorted(s) /\ n \in Nat
        /\ q \in Seq(Token) /\ Len(q) < n /\ r \in Seq(Token)
    BY <1>2, <1>3, <1>4, <1>5, <1>6
  <2>2. /\ DOMAIN s = 1 .. Len(s) /\ DOMAIN q = 1 .. n - 1 /\ DOMAIN r = 1 .. Len(s) - n
    BY <2>1, <1>3, <1>5, LenProperties
  <2>3. Shifted(q, s, 1)
    BY <1>4, <1>5, <2>2 DEF Shifted
  <2>4. Shifted(r, s, n)
    <3>1. ASSUME NEW i \in DOMAIN r PROVE i + n \in DOMAIN s /\ r[i] = s[i + n]
      <4>1. i + n = n + i /\ i + n \in DOMAIN s /\ i \in 1 .. Len(s) - n
        BY <1>4, <2>2
      <4>2. r[i] = s[n + i]
        BY <1>3, <4>1
      <4> QED
        BY <4>1, <4>2
    <3> QED
      BY <3>1 DEF Shifted
  <2> QED
    BY <2>1, <2>3, <2>4, Splits
<1>9. /\ Ahead(Pipe, q) /\ Ahead(Pipe, r)
      /\ \A i \in DOMAIN q : q[i][2] = c /\ q[i][3] <= sent[c]
      /\ \A i \in DOMAIN r : r[i][2] = c /\ r[i][3] <= sent[c]
  BY <1>6, <1>8 DEF Ahead
<1>10. \A d \in Clients : d # c => Ahead(q, out[d])
  BY <1>9 DEF Ahead, Stream
<1>11. Pipe = forwarded /\ Pipe \in Seq(Token)
  BY <1>2, StreamTypes DEF Pipe
<1>12. \A d \in Clients : Sorted(out'[d]) /\ Ahead(Pipe, out'[d]) /\ Ahead(q, out'[d])
  BY <1>2, <1>8, <1>9, <1>10 DEF Stream, r
<1>13. \A d \in Clients : \A i \in DOMAIN out'[d] : out'[d][i][2] = d /\ out'[d][i][3] <= sent[d]
  BY <1>2, <1>9 DEF Stream, r
<1>14. /\ Sorted(Pipe') /\ \A d \in Clients : Ahead(Pipe', out'[d])
       /\ \A i \in DOMAIN Pipe' : Pipe'[i][3] <= sent[Pipe'[i][2]]
  <2>1. CASE pc' = "forward"
    <3>1. Pipe' = Pipe \o q
      BY <1>2, <1>11, <2>1 DEF Pipe, q
    <3>2. Sorted(Pipe \o q)
      BY <1>5, <1>6, <1>8, <1>9, <1>11, SortedConcat
    <3>3. \A d \in Clients : Ahead(Pipe \o q, out'[d])
      <4>1. Pipe \in Seq(Token) /\ q \in Seq(Token)
        BY <1>5, <1>11
      <4> QED
        BY <4>1, <1>12, AheadConcat, Zenon
    <3>4. ASSUME NEW i \in DOMAIN (Pipe \o q)
          PROVE  (Pipe \o q)[i][3] <= sent[(Pipe \o q)[i][2]]
      <4>1. \/ \E j \in DOMAIN Pipe : (Pipe \o q)[i] = Pipe[j]
            \/ \E j \in DOMAIN q : (Pipe \o q)[i] = q[j]
        BY <1>5, <1>11, ConcatFrom
      <4> QED
        BY <4>1, <1>6, <1>9
    <3> QED
      BY <3>1, <3>2, <3>3, <3>4
  <2>2. CASE pc' = "reply"
    <3>1. Pipe' = Pipe
      BY <1>2, <1>11, <2>2 DEF Pipe
    <3> QED
      BY <3>1, <1>6, <1>12
  <2> QED
    BY <1>2, <2>1, <2>2
<1>15. Stream'
  <2>1. Sorted(Pipe)'
    BY <1>14 DEF Sorted
  <2>2. \A d \in Clients : Ahead(Pipe, out[d])' /\ Sorted(out[d])'
    BY <1>12, <1>14 DEF Sorted, Ahead
  <2>3. \A i \in DOMAIN Pipe' : Pipe'[i][3] <= sent'[Pipe'[i][2]]
    BY <1>2, <1>14
  <2>4. \A d \in Clients : \A i \in DOMAIN out'[d] : out'[d][i][2] = d /\ out'[d][i][3] <= sent'[d]
    BY <1>2, <1>13
  <2> QED
    BY <2>1, <2>2, <2>3, <2>4 DEF Stream
<1>16. out' \in [Clients -> Seq(Token)]
  <2>1. out \in [Clients -> Seq(Token)]
    BY DEF TypeOK
  <2>2. out' = [out EXCEPT ![c] = r]
    BY <1>1, <1>2, Zenon DEF s
  <2>3. r \in Seq(Token)
    BY <1>3
  <2> QED
    BY <2>1, <2>2, <2>3
<1>17. Lengths'
  <2>1. sent[c] <= MaxSend /\ sent[c] \in Nat /\ Len(s) <= 2 * sent[c] /\ MaxSend \in Nat
    BY ServerAssumption DEF TypeOK, Lengths, s
  <2>2. Len(buf') <= 2 * MaxSend
    BY <1>3, <1>4, <2>1
  <2>3. Len(r) <= 2 * sent[c]
    BY <1>3, <1>4, <2>1
  <2>4. \A d \in Clients : Len(out'[d]) <= 2 * sent'[d]
    BY <1>2, <2>3 DEF Lengths, r
  <2> QED
    BY <1>4, <2>2, <2>4 DEF Lengths
<1> QED
  BY <1>2, <1>3, <1>15, <1>16, <1>17
-----------------------------------------------------------------------------
(* The invariant. *)

LEMMA Beginning == Init => IInv
<1> SUFFICES ASSUME Init PROVE IInv
  OBVIOUS
<1>1. <<>> \in Seq(Token) /\ <<>> \in Seq(Clients) /\ <<>> \in Seq(Raised) /\ <<>> \in Seq(Sources) /\ Len(<<>>) = 0 /\ DOMAIN <<>> = {}
  BY EmptySeq, LenProperties
<1>2. /\ MaxSend \in Nat /\ PayCap \in Nat /\ limit \in 1 .. NumFds /\ NumFds \in Nat
      /\ slots \in 1 .. MaxEvents
      /\ queue = <<>> /\ ready = <<>> /\ events = <<>> /\ buf = <<>> /\ forwarded = <<>> /\ pc = "start"
      /\ cur = listenfd /\ payment = "start" /\ taken = 0 /\ listenfd = 0
  BY ServerAssumption DEF Init, listenfd
<1>3. \A c \in Clients : /\ conn[c] = "none" /\ fdOf[c] = 0 /\ out[c] = <<>> /\ eof[c] = FALSE
                         /\ rst[c] = "no" /\ sent[c] = 0
  BY DEF Init
<1>4. TypeOK
  <2>1. /\ conn \in [Clients -> {"none", "queued", "accepted"}]
        /\ fdOf \in [Clients -> {0} \cup Fds] /\ eof \in [Clients -> BOOLEAN]
        /\ rst \in [Clients -> {"no", "sent", "in"}]
    BY DEF Init
  <2>2. out \in [Clients -> Seq(Token)] /\ sent \in [Clients -> 0 .. MaxSend]
    BY <1>1, <1>2 DEF Init
  <2>3. taken \in 0 .. Len(forwarded) /\ Len(forwarded) - taken <= PayCap + 2 * MaxSend
    BY <1>1, <1>2
  <2> QED
    BY <1>1, <1>2, <2>1, <2>2, <2>3 DEF TypeOK
<1>5. Connections
  BY <1>1, <1>2, <1>3 DEF Connections, Batch, EventsFresh, Queued, OneOwner
<1>6. Stream
  <2>1. Pipe = <<>>
    BY <1>2 DEF Pipe
  <2> QED
    BY <1>1, <1>3, <2>1 DEF Stream, Sorted, Ahead
<1>7. Lengths
  BY <1>1, <1>2, <1>3 DEF Lengths
<1>8. Listed
  BY <1>1 DEF Init, Listed, Distinct
<1> QED
  BY <1>4, <1>5, <1>6, <1>7, <1>8 DEF IInv

(* One step changes the connections, what is sent and forwarded, or neither; *)
(* of each action: what it keeps.                                            *)
LEMMA StepConnections ==
    ASSUME IInv, [Next]_vars
    PROVE  Connections'
<1>1. TypeOK /\ Connections /\ Listed
  BY DEF IInv
<1>2. CASE Client
  <2>1. UNCHANGED <<limit, slots, events>>
    BY <1>2 DEF Client
  <2>2. CASE \E c \in Clients : Connect(c)
    BY <1>1, <2>1, <2>2, ConnectionsConnect
  <2>3. CASE \E c \in Clients : Close(c) \/ ResetArrives(c)
    <3>1. UNCHANGED <<conn, queue, fdOf, out>> /\ \A c \in Clients : eof[c] => eof'[c]
      BY <1>1, <2>3 DEF Close, ResetArrives, TypeOK
    <3> QED
      BY <1>1, <2>1, <3>1, ConnectionsKept DEF Readable
  <2>4. CASE \E c \in Clients, k \in Commands : Send(c, k)
    <3>1. UNCHANGED <<conn, queue, fdOf, eof>> /\ \A c \in Clients : out[c] # <<>> => out'[c] # <<>>
      <4>1. PICK c \in Clients, k \in Commands : Send(c, k)
        BY <2>4
      <4> DEFINE t == << <<k, c, sent'[c]>>, <<"body", c, sent'[c]>> >>
      <4>2. /\ out' = [out EXCEPT ![c] = out[c] \o t]
            /\ UNCHANGED <<conn, queue, fdOf, eof>>
        BY <4>1 DEF Send
      <4> DEFINE A == (Commands \cup {"body"}) \X Clients \X {sent'[c]}
      <4>3. t \in Seq(A) /\ Len(t) = 2
        OBVIOUS
      <4> HIDE DEF t, A
      <4>4. \A s \in Seq(Token) : s \o t # <<>>
        <5>1. TAKE s \in Seq(Token)
        <5> DEFINE B == Token \cup A
        <5>2. s \in Seq(B) /\ t \in Seq(B)
          <6>1. Token \subseteq B /\ A \subseteq B
            OBVIOUS
          <6>2. Seq(Token) \subseteq Seq(B) /\ Seq(A) \subseteq Seq(B)
            BY <6>1, SeqMonotonic
          <6> QED
            BY <4>3, <6>2
        <5> HIDE DEF B
        <5>3. Len(s \o t) = Len(s) + Len(t) /\ Len(s) \in Nat /\ s \o t \in Seq(B)
          BY <5>2, ConcatProperties, LenProperties
        <5>4. Len(s \o t) # 0
          BY <4>3, <5>3
        <5> QED
          BY <5>3, <5>4, EmptySeq
      <4> QED
        BY <1>1, <4>2, <4>4 DEF TypeOK
    <3> QED
      BY <1>1, <2>1, <3>1, ConnectionsKept DEF Readable
  <2> QED
    BY <1>2, <2>2, <2>3, <2>4 DEF Client
<1>3. CASE Payment \/ InitPayment \/ Listen \/ EpollIdle \/ BatchDone \/ Forward \/ UNCHANGED vars
          \/ \E c \in Clients : Reply(c)
  <2>1. UNCHANGED <<limit, slots, conn, queue, fdOf, out, eof, events>>
    BY <1>3 DEF Payment, PaymentStart, PaymentRead, PaymentEnds, InitPayment, Listen,
                EpollIdle, BatchDone, Forward, Reply, vars, connVars
  <2> QED
    BY <1>1, <2>1, ConnectionsKept DEF Readable
<1>4. CASE EpollWait
  BY <1>1, <1>4, ConnectionsWait
<1>5. CASE Accept
  BY <1>1, <1>5, ConnectionsAccept
<1>6. CASE \E c \in Clients : ReadData(c) \/ ReadEof(c)
  BY <1>1, <1>6, ConnectionsRead
<1> QED
  BY <1>2, <1>3, <1>4, <1>5, <1>6 DEF Next, Server

(* The ready list: a source is put on it, or put back, and taken off. *)
LEMMA StepListed ==
    ASSUME IInv, [Next]_vars
    PROVE  Listed'
<1>1. TypeOK /\ Connections /\ Listed /\ OneOwner
  BY DEF IInv, Connections
<1>2. ASSUME NEW s \in Sources, Wake(s) PROVE Listed'
  BY <1>1, <1>2, WakeListed
<1>3. ASSUME UNCHANGED ready PROVE Listed'
  BY <1>1, <1>3 DEF Listed
<1>4. Clients \subseteq Sources /\ NoClient \in Sources
  BY DEF Sources
<1>5. CASE Client
  <2>1. \/ \E s \in Sources : Wake(s)
        \/ UNCHANGED ready
    BY <1>4, <1>5 DEF Client, Connect, Send, Close, ResetArrives, WakeIfRegistered
  <2> QED
    BY <1>2, <1>3, <2>1
<1>6. CASE EpollWait
  BY <1>1, <1>6, Batches
<1>7. CASE EpollIdle
  BY <1>7, EmptySeq DEF EpollIdle, Listed, Distinct
<1>8. CASE Accept
  <2>1. CASE UNCHANGED ready
    BY <1>3, <2>1
  <2>2. CASE AcceptFirst
    <3>1. queue # <<>> /\ queue \in Seq(Clients)
      <4>1. events # <<>> /\ events[1].fd = listenfd
        BY <1>8 DEF Accept, Event
      <4> QED
        BY <1>1, <4>1, TailFrom DEF Connections, Batch, EventsFresh, TypeOK
    <3>2. Head(queue) \in Sources
      BY <1>4, <3>1, HeadTailProperties
    <3> QED
      BY <1>2, <1>3, <2>2, <3>2 DEF AcceptFirst
  <2> QED
    BY <1>8, <2>1, <2>2 DEF Accept
<1>9. CASE \E c \in Clients : ReadEof(c)
  BY <1>1, <1>9, RemoveAtDistinct DEF ReadEof, Unregister, Listed
<1>10. CASE Payment \/ InitPayment \/ Listen \/ BatchDone \/ Forward \/ UNCHANGED vars
           \/ \E c \in Clients : ReadData(c) \/ Reply(c)
  BY <1>3, <1>10 DEF Payment, PaymentStart, PaymentRead, PaymentEnds, InitPayment, Listen,
                     BatchDone, Forward, ReadData, Reply, vars
<1> QED
  BY <1>5, <1>6, <1>7, <1>8, <1>9, <1>10 DEF Next, Server

LEMMA StepStream ==
    ASSUME IInv, [Next]_vars
    PROVE  /\ Stream' /\ Lengths' /\ out' \in [Clients -> Seq(Token)]
           /\ sent' \in [Clients -> 0 .. MaxSend]
           /\ buf' \in Seq(Token)
<1>1. TypeOK /\ Stream /\ Lengths
  BY DEF IInv
<1>2. /\ out \in [Clients -> Seq(Token)] /\ sent \in [Clients -> 0 .. MaxSend]
      /\ buf \in Seq(Token)
  BY <1>1 DEF TypeOK
<1>3. CASE \E c \in Clients, k \in Commands :
              /\ Send(c, k)
              /\ UNCHANGED <<limit, slots, payment, pc, events, cur, buf, forwarded, taken>>
  BY <1>1, <1>2, <1>3, StreamSend
<1>4. CASE \E c \in Clients : ReadData(c)
  <2>1. sent' = sent
    BY <1>4 DEF ReadData
  <2> QED
    BY <1>1, <1>2, <1>4, <2>1, StreamRead
<1>5. CASE Forward
  <2>1. /\ pc = "forward" /\ pc' = "reply" /\ forwarded' = forwarded \o Tail(buf)
        /\ UNCHANGED <<out, sent, buf>>
    BY <1>5 DEF Forward, connVars
  <2>2. Pipe' = Pipe
    BY <2>1 DEF Pipe
  <2> QED
    BY <1>1, <1>2, <2>1, <2>2, StreamKept DEF Lengths
<1>6. CASE \E c \in Clients : Reply(c)
  <2>1. /\ pc = "reply" /\ pc' # "forward" /\ buf' = <<>>
        /\ UNCHANGED <<out, sent, forwarded>>
    BY <1>6 DEF Reply
  <2>2. Pipe' = Pipe
    BY <2>1 DEF Pipe
  <2>3. buf' \in Seq(Token) /\ Len(buf') = 0
    BY <2>1, EmptySeq
  <2>4. Lengths'
    BY <1>1, <2>1, <2>3, ServerAssumption DEF Lengths
  <2> QED
    BY <1>1, <1>2, <2>1, <2>2, <2>3, <2>4, StreamKept
<1>7. CASE /\ UNCHANGED <<out, sent, forwarded, buf>>
           /\ pc' = pc \/ (pc # "forward" /\ pc' # "forward")
  <2>1. Pipe' = Pipe
    BY <1>7 DEF Pipe
  <2>2. Lengths'
    BY <1>1, <1>7 DEF Lengths
  <2> QED
    BY <1>1, <1>2, <1>7, <2>1, <2>2, StreamKept
<1>8. CASE Client
  <2>1. UNCHANGED <<limit, slots, payment, pc, events, cur, buf, forwarded, taken>>
    BY <1>8 DEF Client
  <2>2. \/ UNCHANGED <<out, sent>>
        \/ \E c \in Clients, k \in Commands : Send(c, k)
    BY <1>8 DEF Client, Connect, Close, ResetArrives
  <2> QED
    BY <1>3, <1>7, <2>1, <2>2
<1>9. CASE Payment \/ InitPayment \/ Listen \/ EpollWait \/ EpollIdle \/ BatchDone \/ Accept \/ UNCHANGED vars
           \/ \E c \in Clients : ReadEof(c)
  <2>1. /\ UNCHANGED <<out, sent, forwarded, buf>>
        /\ pc' = pc \/ (pc # "forward" /\ pc' # "forward")
    BY <1>9 DEF Payment, PaymentStart, PaymentRead, PaymentEnds, InitPayment, Listen,
                EpollWait, EpollIdle, BatchDone, Accept, AcceptFirst, ReadEof, vars, connVars
  <2> QED
    BY <1>7, <2>1
<1> QED
  BY <1>4, <1>5, <1>6, <1>8, <1>9 DEF Next, Server

(* The connections' types, whatever the action. *)
LEMMA StepTypes ==
    ASSUME IInv, [Next]_vars, Batch', out' \in [Clients -> Seq(Token)],
           sent' \in [Clients -> 0 .. MaxSend], buf' \in Seq(Token),
           ready' \in Seq(Sources)
    PROVE  TypeOK'
<1>1. TypeOK /\ Lengths /\ Connections
  BY DEF IInv
<1>2. /\ limit' = limit /\ Fds' = Fds /\ limit \in 1 .. NumFds
      /\ slots' \in 1 .. MaxEvents
  <2>1. limit' = limit /\ slots' = slots
    BY DEF Next, Client, Payment, PaymentStart, PaymentRead, PaymentEnds, Server, InitPayment,
           Listen, EpollWait, EpollIdle, BatchDone, Accept, AcceptFirst, ReadData, ReadEof, Forward, Reply, vars
  <2> QED
    BY <1>1, <2>1 DEF Fds, TypeOK
<1>3. \A i \in DOMAIN events' : events'[i].fd \in {listenfd} \cup Fds'
  <2>1. \A i \in DOMAIN events' : events'[i] \in Raised'
    BY LenProperties, ElementOfSeq DEF Batch
  <2> QED
    BY <2>1 DEF Raised
<1>4. /\ conn' \in [Clients -> {"none", "queued", "accepted"}]
      /\ queue' \in Seq(Clients)
      /\ fdOf' \in [Clients -> {0} \cup Fds]
  <2>1. /\ conn \in [Clients -> {"none", "queued", "accepted"}]
        /\ queue \in Seq(Clients) /\ fdOf \in [Clients -> {0} \cup Fds]
    BY <1>1 DEF TypeOK
  <2>2. CASE \E c \in Clients : Connect(c)
    BY <2>1, <2>2, AppendProperties DEF Connect
  <2>3. CASE \E c \in Clients : ReadEof(c)
    BY <2>1, <2>3 DEF ReadEof
  <2>4. CASE Accept
    <3>1. CASE FreeFds = {}
      BY <2>1, <2>4, <3>1 DEF Accept
    <3>2. CASE FreeFds # {}
      <4>1. Min(FreeFds) \in Fds
        BY <1>1, <3>2, LowestFree DEF FreeFds
      <4>2. events # <<>> /\ events[1].fd = listenfd
        BY <2>4 DEF Accept, Event
      <4>3. queue # <<>>
        BY <1>1, <4>2, TailFrom DEF Connections, Batch, EventsFresh
      <4>4. Tail(queue) \in Seq(Clients)
        BY <2>1, <4>3, HeadTailProperties
      <4> QED
        BY <2>1, <2>4, <3>2, <4>1, <4>4 DEF Accept, AcceptFirst
    <3> QED
      BY <3>1, <3>2
  <2>5. CASE UNCHANGED <<conn, queue, fdOf>>
    BY <2>1, <2>5
  <2> QED
    BY <2>2, <2>3, <2>4, <2>5
       DEF Next, Client, Close, ResetArrives, Send, Payment, PaymentStart, PaymentRead, PaymentEnds,
           Server, InitPayment, Listen, EpollWait, EpollIdle, BatchDone, ReadData, Forward, Reply,
           vars, connVars
<1>5. eof' \in [Clients -> BOOLEAN] /\ rst' \in [Clients -> {"no", "sent", "in"}]
  <2>1. eof \in [Clients -> BOOLEAN] /\ rst \in [Clients -> {"no", "sent", "in"}]
    BY <1>1 DEF TypeOK
  <2>2. CASE \E c \in Clients : Close(c) \/ ResetArrives(c) \/ ReadEof(c)
    BY <2>1, <2>2 DEF Close, ResetArrives, ReadEof
  <2>3. CASE \E c \in Clients : Reply(c)
    BY <2>1, <2>3 DEF Reply
  <2>4. CASE UNCHANGED <<eof, rst>>
    BY <2>1, <2>4
  <2> QED
    BY <2>2, <2>3, <2>4
       DEF Next, Client, Connect, Send, Payment, PaymentStart, PaymentRead, PaymentEnds,
           Server, InitPayment, Listen, EpollWait, EpollIdle, BatchDone, Accept, AcceptFirst, ReadData, Forward,
           vars, connVars
<1>6. payment' \in {"start", "bound", "listening", "serving", "ended"}
  BY <1>1 DEF TypeOK, Next, Client, Payment, PaymentStart, PaymentRead, PaymentEnds, Server,
              InitPayment, Listen, EpollWait, EpollIdle, BatchDone, Accept, AcceptFirst, ReadData, ReadEof, Forward,
              Reply, vars
<1>7. pc' \in {"start", "exit", "listen", "epoll", "dispatch", "forward", "reply", "dead"}
  BY <1>1 DEF TypeOK, Next, Client, Payment, PaymentStart, PaymentRead, PaymentEnds, Server,
              InitPayment, Listen, EpollWait, EpollIdle, BatchDone, Accept, AcceptFirst, ReadData, ReadEof, Forward,
              Reply, vars
<1>8. cur' \in {listenfd} \cup Fds
  <2>1. CASE \E c \in Clients : ReadData(c)
    <3>1. cur' = events[1].fd /\ events # <<>>
      BY <2>1 DEF ReadData, Event
    <3>2. 1 \in DOMAIN events
      BY <1>1, <3>1, TailFrom DEF Connections, Batch
    <3> QED
      BY <1>1, <3>1, <3>2 DEF TypeOK
  <2>2. CASE cur' = cur \/ cur' = listenfd
    BY <1>1, <2>2 DEF TypeOK
  <2> QED
    BY <2>1, <2>2
       DEF Next, Client, Payment, PaymentStart, PaymentRead, PaymentEnds, Server, InitPayment,
           Listen, EpollWait, EpollIdle, BatchDone, Accept, AcceptFirst, ReadEof, Forward, Reply, vars
<1>9. /\ forwarded' \in Seq(Token) /\ taken' \in 0 .. Len(forwarded')
      /\ Len(forwarded') - taken' <= PayCap + 2 * MaxSend
  <2>1. /\ forwarded \in Seq(Token) /\ taken \in 0 .. Len(forwarded) /\ Len(forwarded) \in Nat
        /\ Len(forwarded) - taken <= PayCap + 2 * MaxSend /\ PayCap \in Nat /\ MaxSend \in Nat
    BY <1>1, LenProperties, ServerAssumption DEF TypeOK
  <2>2. CASE Forward
    <3>1. /\ pc = "forward" /\ forwarded' = forwarded \o Tail(buf) /\ taken' = taken
          /\ Len(forwarded) - taken < PayCap
      BY <2>2 DEF Forward
    <3>2. Tail(buf) \in Seq(Token) /\ Len(Tail(buf)) = Len(buf) - 1 /\ Len(buf) \in Nat
      BY <1>1, <3>1, StreamTypes, LenProperties DEF TypeOK
    <3>3. forwarded' \in Seq(Token) /\ Len(forwarded') = Len(forwarded) + Len(Tail(buf))
      BY <2>1, <3>1, <3>2, ConcatProperties
    <3>4. Len(buf) <= 2 * MaxSend /\ Len(buf) >= 1
      <4>1. buf \in Seq(Token) /\ buf # <<>> /\ Len(buf) <= 2 * MaxSend
        BY <1>1, <3>1 DEF TypeOK, Lengths
      <4> QED
        BY <4>1, <3>2, EmptySeq
    <3> QED
      BY <2>1, <3>1, <3>2, <3>3, <3>4
  <2>3. CASE PaymentRead
    BY <2>1, <2>3 DEF PaymentRead
  <2>4. CASE UNCHANGED <<forwarded, taken>>
    BY <2>1, <2>4
  <2> QED
    BY <2>2, <2>3, <2>4
       DEF Next, Client, Payment, PaymentStart, PaymentEnds, Server, InitPayment,
           Listen, EpollWait, EpollIdle, BatchDone, Accept, AcceptFirst, ReadData, ReadEof, Reply, vars
<1> QED
  BY <1>2, <1>3, <1>4, <1>5, <1>6, <1>7, <1>8, <1>9 DEF TypeOK

LEMMA Step == IInv /\ [Next]_vars => IInv'
<1> SUFFICES ASSUME IInv, [Next]_vars PROVE IInv'
  OBVIOUS
<1>1. Connections' /\ Batch'
  BY StepConnections DEF Connections
<1>2. /\ Stream' /\ Lengths' /\ out' \in [Clients -> Seq(Token)]
      /\ sent' \in [Clients -> 0 .. MaxSend] /\ buf' \in Seq(Token)
  BY StepStream
<1>3. Listed'
  BY StepListed
<1>4. TypeOK'
  BY <1>1, <1>2, <1>3, StepTypes DEF Listed
<1> QED
  BY <1>1, <1>2, <1>3, <1>4 DEF IInv

(* The connections, the batch of events and the stream to payment stay as    *)
(* IInv describes them, for any number of clients and descriptors.           *)
THEOREM Invariant == Spec => []IInv
BY Beginning, Step, PTL DEF Spec

(* Every variable keeps its type, and the socket to payment never holds more *)
(* than it could with one whole read written to it when not yet full.        *)
THEOREM Types == Spec => []TypeOK
<1>1. IInv => TypeOK
  BY DEF IInv
<1> QED
  BY <1>1, Invariant, PTL

(* A pending event of the batch is still true when its turn comes, whatever  *)
(* was closed, accepted and reused before it in the same batch.              *)
THEOREM Fresh == Spec => []EventsFresh
<1>1. IInv => EventsFresh
  BY DEF IInv, Connections
<1> QED
  BY <1>1, Invariant, PTL

(* Each client's payments reach payment in the order they were sent and at   *)
(* most once.                                                                *)
THEOREM InOrder == Spec => []PaymentsInOrder
<1>1. IInv => PaymentsInOrder
  <2> SUFFICES ASSUME IInv, NEW i \in DOMAIN forwarded, NEW j \in DOMAIN forwarded,
                      i < j, forwarded[i][2] = forwarded[j][2]
               PROVE  \/ forwarded[i][3] < forwarded[j][3]
                      \/ forwarded[i][3] = forwarded[j][3] /\ forwarded[i][1] # "body"
    BY DEF PaymentsInOrder
  <2>1. forwarded \in Seq(Token) /\ Sorted(Pipe) /\ Pipe \in Seq(Token)
    BY StreamTypes DEF IInv, TypeOK, Stream
  <2>2. i \in DOMAIN Pipe /\ j \in DOMAIN Pipe /\ Pipe[i] = forwarded[i] /\ Pipe[j] = forwarded[j]
    <3>1. CASE pc = "forward"
      <4>1. Tail(buf) \in Seq(Token) /\ Pipe = forwarded \o Tail(buf)
        BY <3>1, StreamTypes DEF IInv, Pipe
      <4>2. /\ Len(Pipe) = Len(forwarded) + Len(Tail(buf))
            /\ \A l \in 1 .. Len(forwarded) + Len(Tail(buf)) :
                  Pipe[l] = IF l <= Len(forwarded) THEN forwarded[l]
                            ELSE Tail(buf)[l - Len(forwarded)]
            /\ Len(forwarded) \in Nat /\ Len(Tail(buf)) \in Nat
        BY <2>1, <4>1, ConcatProperties, LenProperties
      <4>3. DOMAIN forwarded = 1 .. Len(forwarded) /\ DOMAIN Pipe = 1 .. Len(Pipe)
        BY <2>1, LenProperties
      <4> QED
        BY <4>2, <4>3
    <3>2. CASE pc # "forward"
      BY <3>2 DEF Pipe
    <3> QED
      BY <3>1, <3>2
  <2>3. Rank(forwarded[i]) < Rank(forwarded[j])
    BY <2>1, <2>2 DEF Sorted
  <2>4. forwarded[i] \in Token /\ forwarded[j] \in Token
    BY <2>1, LenProperties, ElementOfSeq
  <2>5. forwarded[i][3] \in Int /\ forwarded[j][3] \in Int
    BY <2>4, TokenParts
  <2> QED
    BY <2>3, <2>5 DEF Rank
<1> QED
  BY <1>1, Invariant, PTL
=============================================================================
