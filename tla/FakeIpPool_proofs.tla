-------------------------- MODULE FakeIpPool_proofs --------------------------
(***************************************************************************)
(* Proofs about FakeIpPool: its types, that the two caches of the memory   *)
(* store mirror each other between operations (Mirrored), and that the     *)
(* pool implements the table of FakeIpMap (PoolIsTable).                   *)
(*                                                                         *)
(* The inductive invariant PoolInv says what the current store holds at    *)
(* every stage of a lookup, a flush and a clone as long as nothing without *)
(* a lock has overlapped an operation on it.                               *)
(***************************************************************************)
EXTENDS FakeIpPool, TLAPS, SequenceTheorems

Offsets == (First - 1)..Last

-----------------------------------------------------------------------------
(* The inductive invariant *)

\* No host and no address occurs twice.
OneToOne(c) ==
    \A i, j \in DOMAIN c : c[i][1] = c[j][1] \/ c[i][2] = c[j][2] => i = j

Busy(s) == flush.pc # "none" /\ Store(flush.pool) = s

Matching(s) == OneToOne(cacheIP[s]) /\ cacheHost[s] = Mirror(cacheIP[s])

\* What the store s holds while q alone looks up a host that was missing from it.
Looking(q, s) ==
    LET c == cacheIP[s]
        h == query[q].host
        o == offset[query[q].pool]
    IN  /\ OneToOne(c) /\ h \notin Keys(c)
        /\ \A e \in saved : e[1] # h
        /\ \A d, e \in saved : d[2] = e[2] => d = e
        /\ query[q].pc # "putHost" => cacheHost[s] = Mirror(c)
        /\ query[q].pc = "get" => saved = Pairs(c)
        /\ query[q].pc # "get" =>
              /\ o \in Addresses
              /\ Pairs(c) = {e \in saved : e[2] # o}
              /\ ~persistent /\ (\E e \in saved : e[2] = o) => Len(c) < kind
        /\ query[q].pc = "putHost" => cacheHost[s] = Set(Mirror(c), o, h)

\* The current store, when it is not suspect.
Current(s) ==
    /\ \A q, r \in Queried(s) : q = r
    /\ \A q \in Queried(s) : Looking(q, s)
    /\ Busy(s) => /\ Queried(s) = {} /\ cacheIP[s] = <<>>
                  /\ flush.pc = "offset" => cacheHost[s] = <<>>
    /\ ~Busy(s) /\ Queried(s) = {} => Matching(s)

\* The store being cloned, when the copy is not suspect.
Cloned ==
    /\ cur \notin suspect /\ Queried(cur) = {} /\ flush.pc = "none"
    /\ cacheIP[cur + 1] = cacheIP[cur]
    /\ reload = "cloned" => cacheHost[cur + 1] = cacheHost[cur]

Places ==
    /\ events <= MaxEvents /\ cur <= events + 1 /\ (reload # "none" => cur <= events)
    /\ \A q \in Queries : query[q].pc # "idle" => query[q].pool <= cur /\ query[q].host \in Hosts
    /\ flush.pool <= cur /\ (flush.pc = "host" => ~persistent)

CurrentOK == Store(cur) \notin suspect => Current(Store(cur))

CloneOK == ~persistent /\ reload \in {"cloning", "cloned"} /\ cur + 1 \notin suspect => Cloned

PoolInv == TypeOK /\ Places /\ CurrentOK /\ CloneOK

-----------------------------------------------------------------------------
(* The caches: sequences of pairs *)

LEMMA PlaceOf ==
    ASSUME NEW c, NEW k, k \in Keys(c)
    PROVE  Place(c, k) \in DOMAIN c /\ c[Place(c, k)][1] = k
  BY DEF Keys, Place

\* In a one to one cache the entry of a key or of a value is found by either.
LEMMA PlaceIs ==
    ASSUME NEW c, OneToOne(c), NEW i \in DOMAIN c
    PROVE  Place(c, c[i][1]) = i /\ Value(c, c[i][1]) = c[i][2] /\ c[i][1] \in Keys(c)
<1>1. c[i][1] \in Keys(c)
  BY DEF Keys
<1>2. Place(c, c[i][1]) = i
  BY <1>1, PlaceOf DEF OneToOne
<1>3. QED
  BY <1>1, <1>2 DEF Value

LEMMA ValueOf ==
    ASSUME NEW A, NEW B, NEW c \in Seq(A \X B), NEW k, k \in Keys(c)
    PROVE  Value(c, k) \in B /\ k \in A /\ <<k, Value(c, k)>> \in Pairs(c)
<1>1. PICK i \in DOMAIN c : i = Place(c, k) /\ c[i][1] = k
  BY PlaceOf
<1>2. c[i] \in A \X B
  BY <1>1
<1>3. c[i] = <<c[i][1], c[i][2]>> /\ c[i][1] \in A /\ c[i][2] \in B
  BY <1>2
<1>4. QED
  BY <1>1, <1>3 DEF Value, Pairs

\* What is left after a deletion.
LEMMA DeleteShape ==
    ASSUME NEW T, NEW c \in Seq(T), NEW k, k \in Keys(c)
    PROVE  /\ Place(c, k) \in 1..Len(c) /\ Delete(c, k) \in Seq(T)
           /\ Len(Delete(c, k)) = Len(c) - 1
           /\ \A i \in 1..(Len(c) - 1) :
                 Delete(c, k)[i] = IF i < Place(c, k) THEN c[i] ELSE c[i + 1]
<1>1. Place(c, k) \in 1..Len(c)
  BY PlaceOf
<1>2. PICK n \in Nat : n = Len(c) - 1
  BY <1>1
<1>3. Delete(c, k) = [i \in 1..n |-> IF i < Place(c, k) THEN c[i] ELSE c[i + 1]]
  BY <1>2 DEF Delete
<1>4. \A i \in 1..n : c[i] \in T /\ c[i + 1] \in T
  BY <1>2
<1>5. QED
  BY <1>1, <1>2, <1>3, <1>4

LEMMA DeleteType ==
    ASSUME NEW T, NEW c \in Seq(T), NEW k
    PROVE  Delete(c, k) \in Seq(T) /\ Len(Delete(c, k)) <= Len(c)
<1>1. CASE k \in Keys(c)
  BY <1>1, DeleteShape
<1>2. CASE k \notin Keys(c)
  BY <1>2 DEF Delete
<1>3. QED
  BY <1>1, <1>2

LEMMA GetType ==
    ASSUME NEW T, \A e \in T : e = <<e[1], e[2]>>, NEW c \in Seq(T), NEW k
    PROVE  Get(c, k) \in Seq(T) /\ Len(Get(c, k)) = Len(c)
<1>1. CASE k \in Keys(c) /\ ~persistent
  <2>1. PICK d : d = Delete(c, k)
    OBVIOUS
  <2>2. d \in Seq(T) /\ Len(d) = Len(c) - 1
    BY <1>1, <2>1, DeleteShape
  <2>3. PICK e \in T : e = c[Place(c, k)] /\ e[1] = k
    BY <1>1, PlaceOf
  <2>4. Get(c, k) = Append(d, e)
    BY <1>1, <2>1, <2>3 DEF Get, Value
  <2>5. QED
    BY <2>2, <2>4, AppendProperties
<1>2. CASE ~(k \in Keys(c) /\ ~persistent)
  BY <1>2 DEF Get
<1>3. QED
  BY <1>1, <1>2

LEMMA SetType ==
    ASSUME NEW A, NEW B, NEW c \in Seq(A \X B), NEW k \in A, NEW v \in B,
           kind \in Nat, ~persistent => Len(c) <= kind
    PROVE  Set(c, k, v) \in Seq(A \X B) /\ (~persistent => Len(Set(c, k, v)) <= kind)
<1>1. PICK x \in Seq(A \X B) : x = Delete(c, k) /\ Len(x) <= Len(c)
  BY DeleteType
<1>2. PICK e : e = <<k, v>>
  OBVIOUS
<1>3. e \in A \X B
  BY <1>2
<1>4. PICK d : d = Append(x, e)
  OBVIOUS
<1>5. d \in Seq(A \X B) /\ Len(d) = Len(x) + 1
  BY <1>3, <1>4, AppendProperties
<1>6. Set(c, k, v) = IF ~persistent /\ Len(d) > kind THEN Tail(d) ELSE d
  BY <1>1, <1>2, <1>4 DEF Set
<1>7. ~persistent /\ Len(d) > kind => Tail(d) \in Seq(A \X B) /\ Len(Tail(d)) = Len(d) - 1
  BY <1>5
<1>8. QED
  BY <1>1, <1>5, <1>6, <1>7

-----------------------------------------------------------------------------
(* Mirrored caches *)

HostPair == Hosts \X Offsets
AddrPair == Offsets \X Hosts

Flip(e) == <<e[2], e[1]>>

LEMMA TailShape ==
    ASSUME NEW T, NEW x \in Seq(T), Len(x) > 0
    PROVE  /\ Tail(x) \in Seq(T) /\ Len(Tail(x)) = Len(x) - 1
           /\ \A i \in 1..(Len(x) - 1) : Tail(x)[i] = x[i + 1]
  OBVIOUS

LEMMA FlipPair ==
    ASSUME NEW e \in HostPair
    PROVE  /\ Flip(e) \in AddrPair /\ Flip(e)[1] = e[2] /\ Flip(e)[2] = e[1]
           /\ e = <<e[1], e[2]>> /\ e[1] \in Hosts /\ e[2] \in Offsets
  BY DEF HostPair, AddrPair, Flip

LEMMA MirrorShape ==
    ASSUME NEW c \in Seq(HostPair)
    PROVE  /\ Mirror(c) \in Seq(AddrPair) /\ Len(Mirror(c)) = Len(c)
           /\ \A i \in 1..Len(c) : Mirror(c)[i] = Flip(c[i])
<1>1. PICK n \in Nat : n = Len(c) /\ DOMAIN c = 1..n
  OBVIOUS
<1>2. \A i \in 1..n : Flip(c[i]) \in AddrPair
  BY <1>1, FlipPair
<1>3. Mirror(c) = [i \in 1..n |-> Flip(c[i])]
  BY <1>1 DEF Mirror, Flip
<1>4. QED
  BY <1>1, <1>2, <1>3

LEMMA MirrorEntries ==
    ASSUME NEW c \in Seq(HostPair)
    PROVE  /\ DOMAIN Mirror(c) = DOMAIN c
           /\ \A i \in DOMAIN c : Mirror(c)[i][1] = c[i][2] /\ Mirror(c)[i][2] = c[i][1]
<1>1. DOMAIN Mirror(c) = DOMAIN c
  BY DEF Mirror
<1>2. \A i \in DOMAIN c : c[i] \in HostPair /\ Mirror(c)[i] = Flip(c[i])
  BY MirrorShape
<1>3. QED
  BY <1>1, <1>2, FlipPair

LEMMA MirrorOneToOne ==
    ASSUME NEW c \in Seq(HostPair), OneToOne(c)
    PROVE  OneToOne(Mirror(c))
  BY MirrorEntries DEF OneToOne

\* An address is a key of the mirror when some entry has it.
LEMMA MirrorKeys ==
    ASSUME NEW c \in Seq(HostPair), NEW v
    PROVE  v \in Keys(Mirror(c)) <=> \E i \in DOMAIN c : c[i][2] = v
  BY MirrorEntries DEF Keys

\* The two halves of an entry are at the same place.
LEMMA MirrorPlace ==
    ASSUME NEW c \in Seq(HostPair), OneToOne(c), NEW k, k \in Keys(c)
    PROVE  /\ Value(c, k) \in Keys(Mirror(c))
           /\ Place(Mirror(c), Value(c, k)) = Place(c, k)
           /\ Value(Mirror(c), Value(c, k)) = k
<1>1. PICK i \in DOMAIN c : i = Place(c, k) /\ c[i][1] = k /\ Value(c, k) = c[i][2]
  BY PlaceOf DEF Value
<1>2. PICK d : d = Mirror(c)
  OBVIOUS
<1>3. i \in DOMAIN d /\ d[i][1] = c[i][2] /\ d[i][2] = c[i][1]
  BY <1>1, <1>2, MirrorEntries
<1>4. OneToOne(d)
  BY <1>2, MirrorOneToOne
<1>5. Place(d, d[i][1]) = i /\ Value(d, d[i][1]) = d[i][2] /\ d[i][1] \in Keys(d)
  BY <1>3, <1>4, PlaceIs
<1>6. QED
  BY <1>1, <1>2, <1>3, <1>5

LEMMA MirrorDelete ==
    ASSUME NEW c \in Seq(HostPair), OneToOne(c), NEW k, k \in Keys(c)
    PROVE  Delete(Mirror(c), Value(c, k)) = Mirror(Delete(c, k))
<1>1. PICK d \in Seq(AddrPair) :
        d = Mirror(c) /\ Len(d) = Len(c) /\ \A i \in 1..Len(c) : d[i] = Flip(c[i])
  BY MirrorShape
<1>2. PICK p, v : v = Value(c, k) /\ p = Place(c, k) /\ p = Place(d, v) /\ v \in Keys(d)
  BY <1>1, MirrorPlace
<1>3. PICK x : x = Delete(c, k)
  OBVIOUS
<1>4. /\ x \in Seq(HostPair) /\ Len(x) = Len(c) - 1 /\ p \in 1..Len(c)
      /\ \A i \in 1..(Len(c) - 1) : x[i] = IF i < p THEN c[i] ELSE c[i + 1]
  BY <1>2, <1>3, DeleteShape
<1>5. PICK y : y = Delete(d, v)
  OBVIOUS
<1>6. /\ y \in Seq(AddrPair) /\ Len(y) = Len(d) - 1
      /\ \A i \in 1..(Len(d) - 1) : y[i] = IF i < p THEN d[i] ELSE d[i + 1]
  BY <1>2, <1>5, DeleteShape
<1>7. PICK m \in Seq(AddrPair) :
        m = Mirror(x) /\ Len(m) = Len(x) /\ \A i \in 1..Len(x) : m[i] = Flip(x[i])
  BY <1>4, MirrorShape
<1>8. \A i \in 1..(Len(c) - 1) : i \in 1..Len(c) /\ i + 1 \in 1..Len(c)
  BY <1>4
<1>9. \A i \in 1..(Len(c) - 1) : y[i] = m[i]
  BY <1>1, <1>4, <1>6, <1>7, <1>8
<1>10. y = m
  BY <1>1, <1>4, <1>6, <1>7, <1>9, SeqEqual
<1>11. QED
  BY <1>1, <1>2, <1>3, <1>5, <1>7, <1>10

LEMMA MirrorAppend ==
    ASSUME NEW c \in Seq(HostPair), NEW e \in HostPair
    PROVE  Append(Mirror(c), Flip(e)) = Mirror(Append(c, e))
<1>1. PICK x : x = Append(c, e)
  OBVIOUS
<1>2. /\ x \in Seq(HostPair) /\ Len(x) = Len(c) + 1
      /\ x[Len(c) + 1] = e /\ \A i \in 1..Len(c) : x[i] = c[i]
  BY <1>1, AppendProperties
<1>3. PICK d \in Seq(AddrPair) :
        d = Mirror(c) /\ Len(d) = Len(c) /\ \A i \in 1..Len(c) : d[i] = Flip(c[i])
  BY MirrorShape
<1>4. PICK y : y = Append(d, Flip(e))
  OBVIOUS
<1>5. /\ y \in Seq(AddrPair) /\ Len(y) = Len(d) + 1
      /\ y[Len(d) + 1] = Flip(e) /\ \A i \in 1..Len(d) : y[i] = d[i]
  BY <1>4, FlipPair, AppendProperties
<1>6. PICK m \in Seq(AddrPair) :
        m = Mirror(x) /\ Len(m) = Len(x) /\ \A i \in 1..Len(x) : m[i] = Flip(x[i])
  BY <1>2, MirrorShape
<1>7. \A i \in 1..Len(x) : i = Len(c) + 1 \/ i \in 1..Len(c)
  BY <1>2
<1>8. Len(c) + 1 \in 1..Len(x)
  BY <1>2
<1>9. \A i \in 1..Len(x) : y[i] = m[i]
  BY <1>2, <1>3, <1>5, <1>6, <1>7, <1>8
<1>10. y = m
  BY <1>2, <1>3, <1>5, <1>6, <1>9, SeqEqual
<1>11. QED
  BY <1>1, <1>3, <1>4, <1>6, <1>10

LEMMA MirrorTail ==
    ASSUME NEW c \in Seq(HostPair), Len(c) > 0
    PROVE  Tail(Mirror(c)) = Mirror(Tail(c))
<1>1. PICK x : x = Tail(c)
  OBVIOUS
<1>2. x \in Seq(HostPair) /\ Len(x) = Len(c) - 1 /\ \A i \in 1..(Len(c) - 1) : x[i] = c[i + 1]
  BY <1>1, TailShape
<1>3. PICK d \in Seq(AddrPair) :
        d = Mirror(c) /\ Len(d) = Len(c) /\ \A i \in 1..Len(c) : d[i] = Flip(c[i])
  BY MirrorShape
<1>4. PICK y : y = Tail(d)
  OBVIOUS
<1>5. y \in Seq(AddrPair) /\ Len(y) = Len(d) - 1 /\ \A i \in 1..(Len(d) - 1) : y[i] = d[i + 1]
  BY <1>3, <1>4, TailShape
<1>6. PICK m \in Seq(AddrPair) :
        m = Mirror(x) /\ Len(m) = Len(x) /\ \A i \in 1..Len(x) : m[i] = Flip(x[i])
  BY <1>2, MirrorShape
<1>7. \A i \in 1..(Len(c) - 1) : i + 1 \in 1..Len(c)
  OBVIOUS
<1>8. \A i \in 1..Len(x) : y[i] = m[i]
  BY <1>2, <1>3, <1>5, <1>6, <1>7
<1>9. y = m
  BY <1>2, <1>3, <1>5, <1>6, <1>8, SeqEqual
<1>10. QED
  BY <1>1, <1>3, <1>4, <1>6, <1>9

-----------------------------------------------------------------------------
(* The entries of a cache *)

\* A deletion keeps every other entry, in order.
LEMMA DeleteEntries ==
    ASSUME NEW T, NEW c \in Seq(T), OneToOne(c), NEW k, k \in Keys(c)
    PROVE  /\ Pairs(Delete(c, k)) = Pairs(c) \ {c[Place(c, k)]}
           /\ OneToOne(Delete(c, k)) /\ k \notin Keys(Delete(c, k))
           /\ \A i \in DOMAIN Delete(c, k) : Delete(c, k)[i][2] # Value(c, k)
<1>1. PICK p, x : p = Place(c, k) /\ x = Delete(c, k)
  OBVIOUS
<1>2. PICK n \in Nat : n = Len(c) /\ DOMAIN c = 1..n
  OBVIOUS
<1>3. /\ p \in 1..n /\ DOMAIN x = 1..(n - 1)
      /\ \A i \in 1..(n - 1) : x[i] = IF i < p THEN c[i] ELSE c[i + 1]
  BY <1>1, <1>2, DeleteShape
<1>4. c[p][1] = k /\ Value(c, k) = c[p][2]
  BY <1>1, PlaceOf DEF Value
<1>5. \A i \in 1..(n - 1) : \E j \in 1..n : j # p /\ x[i] = c[j] /\ j = IF i < p THEN i ELSE i + 1
  BY <1>2, <1>3
<1>6. \A j \in 1..n : j # p => \E i \in 1..(n - 1) : x[i] = c[j]
  <2>1. SUFFICES ASSUME NEW j \in 1..n, j # p PROVE \E i \in 1..(n - 1) : x[i] = c[j]
    OBVIOUS
  <2>2. CASE j < p
    <3>1. j \in 1..(n - 1) /\ x[j] = c[j]
      BY <1>3, <2>2
    <3>2. QED
      BY <3>1
  <2>3. CASE j > p
    <3>1. PICK i : i = j - 1
      OBVIOUS
    <3>2. i \in 1..(n - 1) /\ ~(i < p) /\ i + 1 = j
      BY <1>3, <2>3, <3>1
    <3>3. QED
      BY <1>3, <3>2
  <2>4. QED
    BY <1>3, <2>1, <2>2, <2>3
<1>7. \A j \in 1..n : j # p => c[j][1] # k /\ c[j][2] # c[p][2]
  BY <1>2, <1>3, <1>4 DEF OneToOne
<1>8. \A j \in 1..n : j # p => c[j] # c[p]
  BY <1>4, <1>7
<1>9. Pairs(x) = Pairs(c) \ {c[p]}
  <2>1. \A e \in Pairs(x) : e \in Pairs(c) \ {c[p]}
    BY <1>2, <1>3, <1>5, <1>8 DEF Pairs
  <2>2. \A e \in Pairs(c) \ {c[p]} : e \in Pairs(x)
    BY <1>2, <1>3, <1>6 DEF Pairs
  <2>3. QED
    BY <2>1, <2>2
<1>10. OneToOne(x)
  <2>1. SUFFICES ASSUME NEW i \in 1..(n - 1), NEW j \in 1..(n - 1),
                        x[i][1] = x[j][1] \/ x[i][2] = x[j][2]
                 PROVE  i = j
    BY <1>3 DEF OneToOne
  <2>2. PICK a \in 1..n : x[i] = c[a] /\ a = IF i < p THEN i ELSE i + 1
    BY <1>5
  <2>3. PICK b \in 1..n : x[j] = c[b] /\ b = IF j < p THEN j ELSE j + 1
    BY <1>5
  <2>4. a = b
    BY <1>2, <2>1, <2>2, <2>3 DEF OneToOne
  <2>5. QED
    BY <1>3, <2>2, <2>3, <2>4
<1>11. k \notin Keys(x) /\ \A i \in DOMAIN x : x[i][2] # c[p][2]
  <2>1. \A i \in 1..(n - 1) : x[i][1] # k /\ x[i][2] # c[p][2]
    BY <1>5, <1>7
  <2>2. QED
    BY <1>3, <2>1 DEF Keys
<1>12. QED
  BY <1>1, <1>4, <1>9, <1>10, <1>11

LEMMA AppendEntries ==
    ASSUME NEW T, NEW c \in Seq(T), OneToOne(c), NEW e \in T, e[1] \notin Keys(c),
           \A i \in DOMAIN c : c[i][2] # e[2]
    PROVE  Pairs(Append(c, e)) = Pairs(c) \cup {e} /\ OneToOne(Append(c, e))
<1>1. PICK n \in Nat : n = Len(c) /\ DOMAIN c = 1..n
  OBVIOUS
<1>2. PICK x : x = Append(c, e)
  OBVIOUS
<1>3. DOMAIN x = 1..(n + 1) /\ x[n + 1] = e /\ \A i \in 1..n : x[i] = c[i]
  <2>1. x \in Seq(T) /\ Len(x) = n + 1
    BY <1>1, <1>2, AppendProperties
  <2>2. QED
    BY <1>1, <1>2, <2>1, AppendProperties
<1>4. \A i \in 1..(n + 1) : i = n + 1 \/ i \in 1..n
  OBVIOUS
<1>5. \A i \in 1..n : c[i][1] # e[1] /\ c[i][2] # e[2]
  BY <1>1 DEF Keys
<1>6. OneToOne(x)
  BY <1>1, <1>3, <1>4, <1>5 DEF OneToOne
<1>7. Pairs(x) = Pairs(c) \cup {e}
  <2>1. \A i \in 1..n : i \in 1..(n + 1)
    OBVIOUS
  <2>2. n + 1 \in 1..(n + 1)
    OBVIOUS
  <2>3. QED
    BY <1>1, <1>3, <1>4, <2>1, <2>2 DEF Pairs
<1>8. QED
  BY <1>2, <1>6, <1>7

LEMMA TailEntries ==
    ASSUME NEW T, NEW c \in Seq(T), OneToOne(c), Len(c) > 0
    PROVE  Pairs(Tail(c)) = Pairs(c) \ {c[1]} /\ OneToOne(Tail(c))
<1>1. PICK n \in Nat : n = Len(c) /\ DOMAIN c = 1..n /\ n > 0
  OBVIOUS
<1>2. PICK x : x = Tail(c)
  OBVIOUS
<1>3. DOMAIN x = 1..(n - 1) /\ \A i \in 1..(n - 1) : x[i] = c[i + 1]
  BY <1>1, <1>2, TailShape
<1>4. \A i \in 1..(n - 1) : i + 1 \in 1..n /\ i + 1 # 1
  OBVIOUS
<1>5. OneToOne(x)
  BY <1>1, <1>3, <1>4 DEF OneToOne
<1>6. \A j \in 1..n : j # 1 => c[j] # c[1]
  BY <1>1 DEF OneToOne
<1>7. \A j \in 1..n : j # 1 => \E i \in 1..(n - 1) : j = i + 1
  <2>1. \A j \in 1..n : j # 1 => j - 1 \in 1..(n - 1) /\ j = (j - 1) + 1
    OBVIOUS
  <2>2. QED
    BY <2>1
<1>8. Pairs(x) = Pairs(c) \ {c[1]}
  <2>1. \A i \in 1..(n - 1) : \E j \in 1..n : j # 1 /\ x[i] = c[j]
    BY <1>3, <1>4
  <2>2. \A j \in 1..n : j # 1 => \E i \in 1..(n - 1) : x[i] = c[j]
    BY <1>3, <1>7
  <2>3. \A e \in Pairs(x) : e \in Pairs(c) \ {c[1]}
    BY <1>1, <1>3, <1>6, <2>1 DEF Pairs
  <2>4. ASSUME NEW e \in Pairs(c), e # c[1] PROVE e \in Pairs(x)
    <3>1. PICK j \in 1..n : e = c[j] /\ j # 1
      BY <1>1, <2>4 DEF Pairs
    <3>2. PICK i \in 1..(n - 1) : x[i] = e
      BY <2>2, <3>1
    <3>3. QED
      BY <1>3, <3>2 DEF Pairs
  <2>5. QED
    BY <2>3, <2>4
<1>9. QED
  BY <1>2, <1>5, <1>8

\* Reading an entry of mirrored caches on both sides moves it to the end of both.
LEMMA GetMirror ==
    ASSUME NEW c \in Seq(HostPair), OneToOne(c), NEW k, k \in Keys(c)
    PROVE  /\ Get(Mirror(c), Value(c, k)) = Mirror(Get(c, k))
           /\ OneToOne(Get(c, k)) /\ Pairs(Get(c, k)) = Pairs(c)
<1>1. CASE persistent
  BY <1>1 DEF Get
<1>2. CASE ~persistent
  <2>1. PICK v, p, e : /\ v = Value(c, k) /\ p = Place(c, k) /\ e = c[p]
                       /\ p \in DOMAIN c /\ e[1] = k /\ e[2] = v
    BY PlaceOf DEF Value
  <2>2. e \in HostPair /\ e \in Pairs(c)
    BY <2>1 DEF Pairs
  <2>3. PICK x : x = Delete(c, k)
    OBVIOUS
  <2>4. x \in Seq(HostPair)
    BY <2>3, DeleteType
  <2>5. /\ Pairs(x) = Pairs(c) \ {e} /\ OneToOne(x) /\ k \notin Keys(x)
        /\ \A i \in DOMAIN x : x[i][2] # v
    BY <2>1, <2>3, DeleteEntries
  <2>6. Get(c, k) = Append(x, e)
    <3>1. e = <<k, v>>
      BY <2>1, <2>2, FlipPair
    <3>2. QED
      BY <1>2, <2>1, <2>3, <3>1 DEF Get
  <2>7. Pairs(Append(x, e)) = Pairs(x) \cup {e} /\ OneToOne(Append(x, e))
    BY <2>1, <2>2, <2>4, <2>5, AppendEntries
  <2>8. Get(Mirror(c), v) = Append(Mirror(x), Flip(e))
    <3>1. v \in Keys(Mirror(c)) /\ Value(Mirror(c), v) = k
      BY <2>1, MirrorPlace
    <3>2. Delete(Mirror(c), v) = Mirror(x)
      BY <2>1, <2>3, MirrorDelete
    <3>3. Flip(e) = <<v, k>>
      BY <2>1 DEF Flip
    <3>4. QED
      BY <1>2, <3>1, <3>2, <3>3 DEF Get
  <2>9. Append(Mirror(x), Flip(e)) = Mirror(Append(x, e))
    BY <2>2, <2>4, MirrorAppend
  <2>10. QED
    BY <2>1, <2>2, <2>5, <2>6, <2>7, <2>8, <2>9
<1>3. QED
  BY <1>1, <1>2

LEMMA GetAbsent ==
    ASSUME NEW c, NEW k, k \notin Keys(c)
    PROVE  Get(c, k) = c
  BY DEF Get

\* A new pair that is added on both sides evicts the same pair on both.
Evicted(c) == IF ~persistent /\ Len(c) + 1 > kind THEN {c[1]} ELSE {}

LEMMA SetMirror ==
    ASSUME NEW c \in Seq(HostPair), OneToOne(c), NEW h \in Hosts, h \notin Keys(c),
           NEW o \in Offsets, \A i \in DOMAIN c : c[i][2] # o,
           persistent \/ kind \in Nat \ {0}
    PROVE  /\ Set(Mirror(c), o, h) = Mirror(Set(c, h, o))
           /\ OneToOne(Set(c, h, o)) /\ Set(c, h, o) \in Seq(HostPair)
           /\ Pairs(Set(c, h, o)) = (Pairs(c) \ Evicted(c)) \cup {<<h, o>>}
<1>1. PICK e : e = <<h, o>>
  OBVIOUS
<1>2. e \in HostPair /\ e[1] = h /\ e[2] = o /\ Flip(e) = <<o, h>>
  BY <1>1 DEF HostPair, Flip
<1>3. PICK x : x = Append(c, e)
  OBVIOUS
<1>4. x \in Seq(HostPair) /\ Len(x) = Len(c) + 1 /\ \A i \in 1..Len(c) : x[i] = c[i]
  BY <1>2, <1>3, AppendProperties
<1>5. Pairs(x) = Pairs(c) \cup {e} /\ OneToOne(x)
  BY <1>2, <1>3, AppendEntries
<1>6. Append(Mirror(c), <<o, h>>) = Mirror(x)
  BY <1>2, <1>3, MirrorAppend
<1>7. Delete(c, h) = c /\ Delete(Mirror(c), o) = Mirror(c)
  BY MirrorKeys DEF Delete
<1>8. Set(c, h, o) = IF ~persistent /\ Len(x) > kind THEN Tail(x) ELSE x
  BY <1>1, <1>3, <1>7 DEF Set
<1>9. Set(Mirror(c), o, h) = IF ~persistent /\ Len(x) > kind THEN Tail(Mirror(x)) ELSE Mirror(x)
  <2>1. Len(Mirror(x)) = Len(x)
    BY <1>4, MirrorShape
  <2>2. QED
    BY <1>6, <1>7, <2>1 DEF Set
<1>10. CASE ~persistent /\ Len(x) > kind
  <2>1. Len(c) > 0 /\ Len(x) > 0 /\ x[1] = c[1]
    BY <1>4, <1>10
  <2>2. Tail(Mirror(x)) = Mirror(Tail(x)) /\ Tail(x) \in Seq(HostPair)
    BY <1>4, <2>1, MirrorTail, TailShape
  <2>3. Pairs(Tail(x)) = Pairs(x) \ {c[1]} /\ OneToOne(Tail(x))
    BY <1>4, <1>5, <2>1, TailEntries
  <2>4. c[1] # e
    BY <1>2, <2>1
  <2>5. Evicted(c) = {c[1]}
    BY <1>4, <1>10 DEF Evicted
  <2>6. QED
    BY <1>1, <1>5, <1>8, <1>9, <1>10, <2>2, <2>3, <2>4, <2>5
<1>11. CASE ~(~persistent /\ Len(x) > kind)
  BY <1>1, <1>4, <1>5, <1>8, <1>9, <1>11 DEF Evicted
<1>12. QED
  BY <1>10, <1>11

-----------------------------------------------------------------------------
(* Types *)

FitIP(c) == c \in Seq(HostPair) /\ (~persistent => Len(c) <= kind)
FitHost(c) == c \in Seq(AddrPair) /\ (~persistent => Len(c) <= kind)

CachesOK ==
    /\ kind \in Sizes \cup {Bolt}
    /\ cacheIP \in [Pools -> Seq(HostPair)] /\ cacheHost \in [Pools -> Seq(AddrPair)]
    /\ \A p \in Pools : FitIP(cacheIP[p]) /\ FitHost(cacheHost[p])

QueryType == [pc: {"idle", "get", "putIP", "putHost"}, pool: Pools, host: Hosts \cup {NoHost}]
FlushType == [pc: {"none", "host", "offset"}, pool: Pools]

ControlOK ==
    /\ cur \in Pools
    /\ offset \in [Pools -> Offsets] /\ cycle \in [Pools -> BOOLEAN]
    /\ query \in [Queries -> QueryType] /\ flush \in FlushType
    /\ reload \in {"none", "parsed", "cloning", "cloned"}
    /\ ops \in Nat /\ events \in Nat /\ suspect \subseteq Pools

LEMMA TypeParts == TypeOK <=> CachesOK /\ ControlOK
  BY DEF TypeOK, CachesOK, ControlOK, FitIP, FitHost, HostPair, AddrPair, Offsets, QueryType, FlushType

LEMMA TypePartsPrimed == TypeOK' <=> CachesOK' /\ ControlOK'
  BY DEF TypeOK, CachesOK, ControlOK, FitIP, FitHost, HostPair, AddrPair, Offsets, QueryType, FlushType,
         persistent

LEMMA Kinds ==
    ASSUME CachesOK
    PROVE  kind \in Nat /\ (persistent \/ kind \in Nat \ {0})
  BY PoolAssumption DEF CachesOK, Bolt, persistent

LEMMA Ranges ==
    /\ Pools \subseteq Nat /\ 1 \in Pools
    /\ Addresses \subseteq Offsets /\ First - 1 \in Offsets /\ First \in Addresses
  BY PoolAssumption DEF Pools, Addresses, Offsets

LEMMA StoreIn == \A p \in Pools : Store(p) \in Pools
  BY Ranges DEF Store

\* The caches stay what they are when the ones written fit.
LEMMA CachesWritten ==
    ASSUME CachesOK, kind' = kind, NEW s \in Pools, NEW c, FitIP(c), NEW d, FitHost(d),
           cacheIP' = cacheIP \/ cacheIP' = [cacheIP EXCEPT ![s] = c],
           cacheHost' = cacheHost \/ cacheHost' = [cacheHost EXCEPT ![s] = d]
    PROVE  CachesOK'
<1>1. persistent' = persistent
  BY DEF persistent
<1>2. cacheIP' \in [Pools -> Seq(HostPair)] /\ \A p \in Pools : FitIP(cacheIP'[p])
  BY DEF CachesOK, FitIP
<1>3. cacheHost' \in [Pools -> Seq(AddrPair)] /\ \A p \in Pools : FitHost(cacheHost'[p])
  BY DEF CachesOK, FitHost
<1>4. QED
  BY <1>1, <1>2, <1>3 DEF CachesOK, FitIP, FitHost, HostPair, AddrPair, Offsets, Pools

LEMMA Empties == ASSUME CachesOK PROVE FitIP(<<>>) /\ FitHost(<<>>)
<1>1. kind >= 0
  BY Kinds
<1>2. <<>> \in Seq(HostPair) /\ <<>> \in Seq(AddrPair) /\ Len(<<>>) = 0
  OBVIOUS
<1>3. QED
  BY <1>1, <1>2, Kinds DEF FitIP, FitHost

LEMMA GetFits ==
    ASSUME NEW c, NEW k
    PROVE  (FitIP(c) => FitIP(Get(c, k))) /\ (FitHost(c) => FitHost(Get(c, k)))
<1>1. (\A e \in HostPair : e = <<e[1], e[2]>>) /\ (\A e \in AddrPair : e = <<e[1], e[2]>>)
  BY DEF HostPair, AddrPair
<1>2. QED
  BY <1>1, GetType DEF FitIP, FitHost

LEMMA DeleteFits ==
    ASSUME NEW c, NEW k, kind \in Nat
    PROVE  (FitIP(c) => FitIP(Delete(c, k))) /\ (FitHost(c) => FitHost(Delete(c, k)))
<1>1. ASSUME FitIP(c) PROVE FitIP(Delete(c, k))
  <2>1. c \in Seq(HostPair) /\ Delete(c, k) \in Seq(HostPair) /\ Len(Delete(c, k)) <= Len(c)
    BY <1>1, DeleteType DEF FitIP
  <2>2. QED
    BY <1>1, <2>1 DEF FitIP
<1>2. ASSUME FitHost(c) PROVE FitHost(Delete(c, k))
  <2>1. c \in Seq(AddrPair) /\ Delete(c, k) \in Seq(AddrPair) /\ Len(Delete(c, k)) <= Len(c)
    BY <1>2, DeleteType DEF FitHost
  <2>2. QED
    BY <1>2, <2>1 DEF FitHost
<1>3. QED
  BY <1>1, <1>2

LEMMA SetFits ==
    ASSUME kind \in Nat, NEW c, NEW h \in Hosts, NEW o \in Offsets
    PROVE  (FitIP(c) => FitIP(Set(c, h, o))) /\ (FitHost(c) => FitHost(Set(c, o, h)))
  BY SetType DEF FitIP, FitHost, HostPair, AddrPair

\* Reading and deleting an entry.
LEMMA GetByHostOK ==
    ASSUME CachesOK, kind' = kind, NEW s \in Pools, NEW h, GetByHost(s, h)
    PROVE  CachesOK'
<1>1. PICK c, d : c = Get(cacheIP[s], h) /\ d = Get(cacheHost[s], Value(cacheIP[s], h))
  OBVIOUS
<1>2. FitIP(c) /\ FitHost(d)
  BY <1>1, GetFits DEF CachesOK
<1>3. cacheIP' = [cacheIP EXCEPT ![s] = c] /\ cacheHost' = [cacheHost EXCEPT ![s] = d]
  BY <1>1 DEF GetByHost
<1>4. QED
  BY <1>2, <1>3, CachesWritten

LEMMA GetByIPOK ==
    ASSUME CachesOK, kind' = kind, NEW s \in Pools, NEW ip, GetByIP(s, ip)
    PROVE  CachesOK'
<1>1. PICK c, d : c = Get(cacheIP[s], Value(cacheHost[s], ip)) /\ d = Get(cacheHost[s], ip)
  OBVIOUS
<1>2. FitIP(c) /\ FitHost(d)
  BY <1>1, GetFits DEF CachesOK
<1>3. /\ cacheIP' = cacheIP \/ cacheIP' = [cacheIP EXCEPT ![s] = c]
      /\ cacheHost' = [cacheHost EXCEPT ![s] = d]
  BY <1>1 DEF GetByIP
<1>4. QED
  BY <1>2, <1>3, CachesWritten

LEMMA DelByIPOK ==
    ASSUME CachesOK, kind' = kind, NEW s \in Pools, NEW ip, DelByIP(s, ip)
    PROVE  CachesOK'
<1>1. PICK c, d : c = Delete(cacheIP[s], Value(cacheHost[s], ip)) /\ d = Delete(cacheHost[s], ip)
  OBVIOUS
<1>2. FitIP(c) /\ FitHost(d)
  BY <1>1, Kinds, DeleteFits DEF CachesOK
<1>3. /\ cacheIP' = cacheIP \/ cacheIP' = [cacheIP EXCEPT ![s] = c]
      /\ cacheHost' = [cacheHost EXCEPT ![s] = d]
  BY <1>1 DEF DelByIP
<1>4. QED
  BY <1>2, <1>3, CachesWritten

LEMMA SuspectTyped ==
    ASSUME NEW p, NEW others
    PROVE  Overlapped(p, others) \subseteq Pools
  BY DEF Overlapped

LEMMA InitOK ==
    ASSUME Init
    PROVE  TypeOK /\ Places
<1>1. FitIP(<<>>) /\ FitHost(<<>>)
  BY PoolAssumption DEF Init, FitIP, FitHost, Bolt
<1>2. CachesOK
  BY <1>1 DEF Init, CachesOK
<1>3. ControlOK /\ Places
  BY Ranges, PoolAssumption DEF Init, ControlOK, QueryType, FlushType, Idle, NoFlush, Places
<1>4. QED
  BY <1>2, <1>3, TypeParts

LEMMA QueryTyped ==
    ASSUME ControlOK, NEW q \in Queries
    PROVE  /\ query[q].pool \in Pools /\ query[q].host \in Hosts \cup {NoHost}
           /\ query[q].pc \in {"idle", "get", "putIP", "putHost"} /\ offset[query[q].pool] \in Offsets
  BY DEF ControlOK, QueryType

LEMMA IdleTyped == Idle \in QueryType /\ NoFlush \in FlushType /\ Idle.pc = "idle"
  BY Ranges DEF Idle, NoFlush, QueryType, FlushType

LEMMA LookupOK ==
    ASSUME CachesOK, ControlOK, Places, NEW q \in Queries, NEW h \in Hosts, Lookup(q, h)
    PROVE  CachesOK' /\ ControlOK' /\ Places'
<1>1. PICK s \in Pools : s = Store(cur)
  BY StoreIn DEF ControlOK
<1>2. PICK g : g = [pc |-> "get", pool |-> cur, host |-> h]
  OBVIOUS
<1>3. g \in QueryType /\ g.pc = "get" /\ g.pool = cur /\ g.host = h
  BY <1>2 DEF QueryType, ControlOK
<1>4. query' = query \/ query' = [query EXCEPT ![q] = g]
  BY <1>2 DEF Lookup
<1>5. CachesOK'
  <2>1. CASE GetByHost(s, h)
    BY <2>1, GetByHostOK DEF Lookup
  <2>2. CASE UNCHANGED <<cacheIP, cacheHost>>
    BY <2>2, Empties, Ranges, CachesWritten DEF Lookup
  <2>3. QED
    BY <1>1, <2>1, <2>2 DEF Lookup
<1>6. /\ UNCHANGED <<kind, cur, offset, cycle, flush, reload, events>>
      /\ ops' = ops + 1 /\ suspect' = suspect \cup Overlapped(cur, Queried(s))
  BY <1>1 DEF Lookup
<1>7. ControlOK'
  <2>1. suspect' \subseteq Pools
    BY <1>6, SuspectTyped DEF ControlOK
  <2>2. query' \in [Queries -> QueryType]
    BY <1>3, <1>4 DEF ControlOK
  <2>3. QED
    BY <1>6, <2>1, <2>2 DEF ControlOK, QueryType, FlushType, Pools, Offsets
<1>8. Places'
  <2>1. \A r \in Queries : query'[r].pc # "idle" => query'[r].pool <= cur /\ query'[r].host \in Hosts
    BY <1>3, <1>4, Ranges DEF ControlOK, Places
  <2>2. QED
    BY <1>6, <2>1 DEF Places, persistent
<1>9. QED
  BY <1>5, <1>7, <1>8

LEMMA LookupGetOK ==
    ASSUME CachesOK, ControlOK, Places, NEW q \in Queries, LookupGet(q)
    PROVE  CachesOK' /\ ControlOK' /\ Places'
<1>1. PICK p \in Pools : p = query[q].pool
  BY QueryTyped
<1>2. PICK o : o = IF Advance(offset[p]) THEN First ELSE offset[p] + 1
  OBVIOUS
<1>3. o \in Addresses /\ o \in Offsets
  BY <1>2, PoolAssumption DEF Advance, ControlOK, Addresses, Offsets
<1>4. PICK g : g = [query[q] EXCEPT !.pc = "putIP"]
  OBVIOUS
<1>5. g \in QueryType /\ g.pc = "putIP" /\ g.pool = p /\ g.host = query[q].host
  BY <1>1, <1>4 DEF QueryType, ControlOK
<1>6. query' = [query EXCEPT ![q] = g] /\ query[q].pc = "get"
  BY <1>4 DEF LookupGet
<1>7. offset' = [offset EXCEPT ![p] = o] /\ cycle' = [cycle EXCEPT ![p] = @ \/ Advance(offset[p])]
  BY <1>1, <1>2 DEF LookupGet
<1>8. CachesOK'
  <2>1. Store(p) \in Pools
    BY StoreIn
  <2>2. CASE DelByIP(Store(p), o)
    BY <2>1, <2>2, DelByIPOK DEF LookupGet
  <2>3. CASE UNCHANGED <<cacheIP, cacheHost>>
    BY <2>3, Empties, Ranges, CachesWritten DEF LookupGet
  <2>4. QED
    BY <1>1, <1>2, <2>2, <2>3 DEF LookupGet
<1>9. ControlOK'
  <2>1. (cycle[p] \/ Advance(offset[p])) \in BOOLEAN
    OBVIOUS
  <2>2. cycle' \in [Pools -> BOOLEAN]
    BY <1>7, <2>1 DEF ControlOK
  <2>3. offset' \in [Pools -> Offsets] /\ query' \in [Queries -> QueryType]
    BY <1>3, <1>5, <1>6, <1>7 DEF ControlOK
  <2>4. QED
    BY <2>2, <2>3 DEF LookupGet, ControlOK, QueryType, FlushType, Pools, Offsets
<1>10. Places'
  BY <1>1, <1>5, <1>6 DEF LookupGet, ControlOK, Places, persistent
<1>11. QED
  BY <1>8, <1>9, <1>10

LEMMA LookupPutIPOK ==
    ASSUME CachesOK, ControlOK, Places, NEW q \in Queries, LookupPutIP(q)
    PROVE  CachesOK' /\ ControlOK' /\ Places'
<1>1. PICK p \in Pools, h \in Hosts, o \in Offsets, s \in Pools :
        p = query[q].pool /\ h = query[q].host /\ o = offset[p] /\ s = Store(p)
  BY QueryTyped, StoreIn DEF LookupPutIP, Places
<1>2. PICK g : g = [query[q] EXCEPT !.pc = "putHost"]
  OBVIOUS
<1>3. g \in QueryType /\ g.pc = "putHost" /\ g.pool = p /\ g.host = h
  BY <1>1, <1>2 DEF QueryType, ControlOK
<1>4. query' = [query EXCEPT ![q] = g] /\ query[q].pc = "putIP"
  BY <1>2 DEF LookupPutIP
<1>5. CachesOK'
  <2>1. PICK d : d = Set(cacheHost[s], o, h)
    OBVIOUS
  <2>2. FitHost(d)
    BY <2>1, Kinds, SetFits DEF CachesOK
  <2>3. cacheIP' = cacheIP /\ cacheHost' = [cacheHost EXCEPT ![s] = d] /\ kind' = kind
    BY <1>1, <2>1 DEF LookupPutIP
  <2>4. QED
    BY <2>2, <2>3, Empties, CachesWritten
<1>6. ControlOK'
  BY <1>3, <1>4 DEF LookupPutIP, ControlOK, QueryType, FlushType, Pools, Offsets
<1>7. Places'
  BY <1>1, <1>3, <1>4 DEF LookupPutIP, ControlOK, Places, persistent
<1>8. QED
  BY <1>5, <1>6, <1>7

LEMMA LookupPutHostOK ==
    ASSUME CachesOK, ControlOK, Places, NEW q \in Queries, LookupPutHost(q)
    PROVE  CachesOK' /\ ControlOK' /\ Places'
<1>1. PICK p \in Pools, h \in Hosts, o \in Offsets, s \in Pools :
        p = query[q].pool /\ h = query[q].host /\ o = offset[p] /\ s = Store(p)
  BY QueryTyped, StoreIn DEF LookupPutHost, Places
<1>2. query' = [query EXCEPT ![q] = Idle]
  BY DEF LookupPutHost
<1>3. CachesOK'
  <2>1. PICK c : c = Set(cacheIP[s], h, o)
    OBVIOUS
  <2>2. FitIP(c)
    BY <2>1, Kinds, SetFits DEF CachesOK
  <2>3. cacheHost' = cacheHost /\ cacheIP' = [cacheIP EXCEPT ![s] = c] /\ kind' = kind
    BY <1>1, <2>1 DEF LookupPutHost
  <2>4. QED
    BY <2>2, <2>3, Empties, CachesWritten
<1>4. ControlOK'
  BY <1>2, IdleTyped, SuspectTyped DEF LookupPutHost, ControlOK, QueryType, FlushType, Pools, Offsets
<1>5. Places'
  BY <1>2, IdleTyped DEF LookupPutHost, ControlOK, Places, persistent
<1>6. QED
  BY <1>3, <1>4, <1>5

LEMMA LookBackOK ==
    ASSUME CachesOK, ControlOK, Places, NEW ip, LookBack(ip)
    PROVE  CachesOK' /\ ControlOK' /\ Places'
<1>1. CachesOK'
  BY GetByIPOK, StoreIn DEF LookBack, ControlOK
<1>2. UNCHANGED <<kind, cur, offset, cycle, query, flush, reload, events>> /\ ops' = ops + 1
  BY DEF LookBack
<1>3. suspect' \subseteq Pools
  BY SuspectTyped DEF LookBack, ControlOK
<1>4. ControlOK' /\ Places'
  BY <1>2, <1>3 DEF ControlOK, Places, persistent, QueryType, FlushType, Pools, Offsets
<1>5. QED
  BY <1>1, <1>4

LEMMA FlushBeginOK ==
    ASSUME CachesOK, ControlOK, Places, FlushBegin
    PROVE  CachesOK' /\ ControlOK' /\ Places'
<1>1. PICK s \in Pools : s = Store(cur)
  BY StoreIn DEF ControlOK
<1>2. CachesOK'
  BY <1>1, Empties, CachesWritten DEF FlushBegin
<1>3. PICK g : g = [pc |-> IF persistent THEN "offset" ELSE "host", pool |-> cur]
  OBVIOUS
<1>4. g \in FlushType /\ g.pool = cur /\ (g.pc = "host" => ~persistent)
  BY <1>3 DEF FlushType, ControlOK
<1>5. /\ UNCHANGED <<kind, cur, offset, cycle, query, reload, ops>>
      /\ flush' = g /\ events < MaxEvents /\ events' = events + 1
  BY <1>3 DEF FlushBegin, EventBudget
<1>6. suspect' \subseteq Pools
  BY SuspectTyped DEF FlushBegin, ControlOK
<1>7. ControlOK'
  BY <1>4, <1>5, <1>6 DEF ControlOK, QueryType, FlushType, Pools, Offsets
<1>8. Places'
  BY <1>4, <1>5, Ranges, PoolAssumption DEF ControlOK, Places, persistent
<1>9. QED
  BY <1>2, <1>7, <1>8

LEMMA FlushHostOK ==
    ASSUME CachesOK, ControlOK, Places, FlushHost
    PROVE  CachesOK' /\ ControlOK' /\ Places'
<1>1. flush.pool \in Pools
  BY DEF ControlOK, FlushType
<1>2. CachesOK'
  BY <1>1, Empties, CachesWritten DEF FlushHost
<1>3. PICK g : g = [flush EXCEPT !.pc = "offset"]
  OBVIOUS
<1>4. g \in FlushType /\ g.pool = flush.pool /\ g.pc = "offset"
  BY <1>3 DEF FlushType, ControlOK
<1>5. UNCHANGED <<kind, cur, offset, cycle, query, reload, ops, events, suspect>> /\ flush' = g
  BY <1>3 DEF FlushHost
<1>6. ControlOK' /\ Places'
  BY <1>4, <1>5 DEF ControlOK, Places, persistent, QueryType, FlushType, Pools, Offsets
<1>7. QED
  BY <1>2, <1>6

LEMMA CachesUnchanged ==
    ASSUME CachesOK, UNCHANGED <<kind, cacheIP, cacheHost>>
    PROVE  CachesOK'
  BY Empties, Ranges, CachesWritten

LEMMA FlushOffsetOK ==
    ASSUME CachesOK, ControlOK, Places, FlushOffset
    PROVE  CachesOK' /\ ControlOK' /\ Places'
<1>1. flush.pool \in Pools
  BY DEF ControlOK, FlushType
<1>2. CachesOK'
  BY CachesUnchanged DEF FlushOffset
<1>3. offset' \in [Pools -> Offsets] /\ cycle' \in [Pools -> BOOLEAN]
  BY <1>1, Ranges DEF FlushOffset, ControlOK
<1>4. UNCHANGED <<kind, cur, query, reload, ops, events, suspect>> /\ flush' = NoFlush
  BY DEF FlushOffset
<1>5. ControlOK'
  BY <1>3, <1>4, IdleTyped DEF ControlOK, QueryType, FlushType, Pools, Offsets
<1>6. Places'
  BY <1>4 DEF ControlOK, Places, persistent, NoFlush, Pools
<1>7. QED
  BY <1>2, <1>5, <1>6

LEMMA ReloadParseOK ==
    ASSUME CachesOK, ControlOK, Places, ReloadParse
    PROVE  CachesOK' /\ ControlOK' /\ Places'
<1>1. CachesOK'
  BY Empties, Ranges, CachesWritten, CachesUnchanged DEF ReloadParse
<1>2. suspect' \subseteq Pools
  BY SuspectTyped DEF ReloadParse, ControlOK
<1>3. /\ UNCHANGED <<kind, cur, offset, cycle, query, flush, ops>>
      /\ reload' = "parsed" /\ events < MaxEvents /\ events' = events + 1
  BY DEF ReloadParse, EventBudget
<1>4. ControlOK'
  BY <1>2, <1>3 DEF ControlOK, QueryType, FlushType, Pools, Offsets
<1>5. Places'
  BY <1>3, Ranges, PoolAssumption DEF ControlOK, Places, persistent
<1>6. QED
  BY <1>1, <1>4, <1>5

LEMMA ReloadStepsOK ==
    ASSUME CachesOK, ControlOK, Places, ReloadFails \/ Publish
    PROVE  CachesOK' /\ ControlOK' /\ Places'
<1>1. CachesOK'
  BY CachesUnchanged DEF ReloadFails, Publish
<1>2. UNCHANGED <<kind, offset, cycle, query, flush, ops, events, suspect>> /\ reload' = "none"
  BY DEF ReloadFails, Publish
<1>3. cur' = cur \/ (cur' = cur + 1 /\ reload = "cloned")
  BY DEF ReloadFails, Publish
<1>4. cur' \in Pools /\ cur' <= events + 1 /\ cur <= cur'
  BY <1>3, PoolAssumption DEF Places, ControlOK, Pools
<1>5. ControlOK'
  BY <1>2, <1>4 DEF ControlOK, QueryType, FlushType, Pools, Offsets
<1> DEFINE n == cur'
<1>6. n \in Nat /\ cur \in Nat /\ cur <= n
  BY <1>4, Ranges DEF ControlOK
<1> HIDE DEF n
<1>7. \A x \in Pools : x <= cur => x <= n
  BY <1>6, Ranges
<1>8. \A r \in Queries : query[r].pc # "idle" => query[r].pool <= cur'
  BY <1>7, QueryTyped DEF Places, n
<1>9. flush.pool <= cur'
  BY <1>7 DEF ControlOK, Places, FlushType, n
<1>10. Places'
  BY <1>2, <1>4, <1>8, <1>9 DEF Places, persistent
<1>11. QED
  BY <1>1, <1>5, <1>10

LEMMA NextPool ==
    ASSUME ControlOK, Places, reload # "none"
    PROVE  cur + 1 \in Pools
  BY PoolAssumption DEF ControlOK, Places, Pools

LEMMA CloneStepsOK ==
    ASSUME CachesOK, ControlOK, Places, CloneIP \/ CloneHost
    PROVE  CachesOK' /\ ControlOK' /\ Places'
<1>1. PICK n \in Pools : n = cur + 1
  BY NextPool DEF CloneIP, CloneHost
<1>2. FitIP(cacheIP[cur]) /\ FitHost(cacheHost[cur])
  BY DEF CachesOK, ControlOK
<1>3. CachesOK'
  <2>1. /\ cacheIP' = cacheIP \/ cacheIP' = [cacheIP EXCEPT ![n] = cacheIP[cur]]
        /\ cacheHost' = cacheHost \/ cacheHost' = [cacheHost EXCEPT ![n] = cacheHost[cur]]
        /\ kind' = kind
    BY <1>1 DEF CloneIP, CloneHost
  <2>2. PICK c, d : c = cacheIP[cur] /\ d = cacheHost[cur]
    OBVIOUS
  <2>3. QED
    BY <1>2, <2>1, <2>2, CachesWritten
<1>4. /\ UNCHANGED <<kind, cur, offset, cycle, query, flush, ops, events>>
      /\ reload # "none" /\ reload' \in {"cloning", "cloned"}
  BY DEF CloneIP, CloneHost
<1>5. suspect' \subseteq Pools
  BY <1>1 DEF CloneIP, CloneHost, ControlOK
<1>6. ControlOK'
  BY <1>4, <1>5 DEF ControlOK, QueryType, FlushType, Pools, Offsets
<1>7. Places'
  BY <1>4 DEF Places, persistent
<1>8. QED
  BY <1>3, <1>6, <1>7

LEMMA KillOK ==
    ASSUME CachesOK, ControlOK, Places, Kill
    PROVE  CachesOK' /\ ControlOK' /\ Places'
<1>1. kind' = kind /\ persistent' = persistent
  BY DEF Kill, persistent
<1>2. CachesOK'
  <2>1. CASE UNCHANGED <<cacheIP, cacheHost>>
    BY <1>1, <2>1, CachesUnchanged
  <2>2. CASE cacheIP' = [p \in Pools |-> <<>>] /\ cacheHost' = [p \in Pools |-> <<>>]
    <3>1. /\ cacheIP' \in [Pools -> Seq(HostPair)] /\ cacheHost' \in [Pools -> Seq(AddrPair)]
          /\ \A p \in Pools : FitIP(cacheIP'[p]) /\ FitHost(cacheHost'[p])
      BY <2>2, Empties DEF FitIP, FitHost
    <3>2. QED
      BY <1>1, <3>1 DEF CachesOK, FitIP, FitHost, HostPair, AddrPair, Offsets, Pools
  <2>3. QED
    BY <2>1, <2>2 DEF Kill
<1>3. /\ cur' = 1 /\ flush' = NoFlush /\ reload' = "none" /\ ops' = ops
      /\ events < MaxEvents /\ events' = events + 1
      /\ offset' = [p \in Pools |-> First - 1] /\ cycle' = [p \in Pools |-> FALSE]
      /\ query' = [q \in Queries |-> Idle]
  BY DEF Kill, EventBudget
<1>4. suspect' \subseteq Pools
  BY Ranges DEF Kill, ControlOK
<1>5. ControlOK'
  BY <1>3, <1>4, IdleTyped, Ranges DEF ControlOK, QueryType, FlushType, Pools, Offsets
<1>6. Places'
  BY <1>1, <1>3, IdleTyped, PoolAssumption DEF ControlOK, Places, NoFlush
<1>7. QED
  BY <1>2, <1>5, <1>6

LEMMA TypeStep ==
    ASSUME TypeOK, Places, [Next]_vars
    PROVE  TypeOK' /\ Places'
<1>1. CachesOK /\ ControlOK
  BY TypeParts
<1>2. CASE UNCHANGED vars
  <2>1. CachesOK'
    BY <1>1, <1>2, CachesUnchanged DEF vars
  <2>2. ControlOK' /\ Places'
    BY <1>1, <1>2 DEF vars, ControlOK, Places, persistent, QueryType, FlushType, Pools, Offsets
  <2>3. QED
    BY <2>1, <2>2, TypePartsPrimed
<1>3. ASSUME NEW q \in Queries, NEW h \in Hosts, Lookup(q, h) PROVE TypeOK' /\ Places'
  BY <1>1, <1>3, LookupOK, TypePartsPrimed
<1>4. ASSUME NEW q \in Queries, LookupGet(q) PROVE TypeOK' /\ Places'
  BY <1>1, <1>4, LookupGetOK, TypePartsPrimed
<1>5. ASSUME NEW q \in Queries, LookupPutIP(q) PROVE TypeOK' /\ Places'
  BY <1>1, <1>5, LookupPutIPOK, TypePartsPrimed
<1>6. ASSUME NEW q \in Queries, LookupPutHost(q) PROVE TypeOK' /\ Places'
  BY <1>1, <1>6, LookupPutHostOK, TypePartsPrimed
<1>7. ASSUME NEW ip \in (First - 1)..Last, LookBack(ip) PROVE TypeOK' /\ Places'
  BY <1>1, <1>7, LookBackOK, TypePartsPrimed
<1>8. CASE FlushBegin \/ FlushHost \/ FlushOffset
  BY <1>1, <1>8, FlushBeginOK, FlushHostOK, FlushOffsetOK, TypePartsPrimed
<1>9. CASE ReloadParse \/ ReloadFails \/ CloneIP \/ CloneHost \/ Publish
  BY <1>1, <1>9, ReloadParseOK, ReloadStepsOK, CloneStepsOK, TypePartsPrimed
<1>10. CASE Kill
  BY <1>1, <1>10, KillOK, TypePartsPrimed
<1>11. QED
  BY <1>2, <1>3, <1>4, <1>5, <1>6, <1>7, <1>8, <1>9, <1>10 DEF Next

\* Whatever interleaves, the pools, the ring's cursors and the operations stay well formed,
\* and no cache of the memory store outgrows its size.
THEOREM PoolTypeCorrect == Spec => []TypeOK
<1>1. Init => TypeOK /\ Places
  BY InitOK
<1>2. (TypeOK /\ Places) /\ [Next]_vars => (TypeOK /\ Places)'
  BY TypeStep
<1>3. QED
  BY <1>1, <1>2, PTL DEF Spec

-----------------------------------------------------------------------------
(* The current store *)

\* A store that an operation does not make suspect was its alone.
LEMMA OverlapFree ==
    ASSUME NEW p, NEW others, Store(p) \in Pools, Store(p) \notin Overlapped(p, others)
    PROVE  others = {} /\ ~Busy(Store(p))
  BY DEF Overlapped, Busy

LEMMA OverlapClone ==
    ASSUME NEW p, NEW others, ~persistent, reload \in {"cloning", "cloned"}, cur + 1 \in Pools
    PROVE  cur + 1 \in Overlapped(p, others)
  BY DEF Overlapped

LEMMA OverlapReplaced ==
    ASSUME NEW p, NEW others, ~persistent, cur \in Pools, p # cur
    PROVE  cur \in Overlapped(p, others)
  BY DEF Overlapped

LEMMA StoreStays ==
    ASSUME kind' = kind
    PROVE  persistent' = persistent /\ \A p : Store(p)' = Store(p)
  BY DEF persistent, Store

LEMMA SetStays ==
    ASSUME kind' = kind, NEW c, NEW k, NEW v
    PROVE  Set(c, k, v)' = Set(c, k, v)
  BY DEF Set, persistent

\* A lookup stays where it is when nothing it depends on changes.
LEMMA LookingStays ==
    ASSUME NEW s, NEW q, Looking(q, s), kind' = kind, saved' = saved,
           cacheIP'[s] = cacheIP[s], cacheHost'[s] = cacheHost[s],
           query'[q] = query[q], offset'[query[q].pool] = offset[query[q].pool]
    PROVE  Looking(q, s)'
<1>1. PICK c, d, r, o : /\ c = cacheIP[s] /\ d = cacheHost[s] /\ r = query[q] /\ o = offset[r.pool]
                        /\ c = cacheIP'[s] /\ d = cacheHost'[s] /\ r = query'[q] /\ o = offset'[r.pool]
  OBVIOUS
<1>2. PICK m : m = Set(Mirror(c), o, r.host) /\ m = Set(Mirror(c), o, r.host)'
  BY SetStays
<1>3. persistent' = persistent
  BY StoreStays
<1>4. QED
  BY <1>1, <1>2, <1>3 DEF Looking

LEMMA CurrentFrame ==
    ASSUME NEW s, Current(s), kind' = kind,
           cacheIP'[s] = cacheIP[s], cacheHost'[s] = cacheHost[s], saved' = saved,
           Queried(s)' = Queried(s),
           \A q \in Queried(s) :
               query'[q] = query[q] /\ offset'[query[q].pool] = offset[query[q].pool],
           flush' = flush \/ (Busy(s) = FALSE /\ Busy(s)' = FALSE)
    PROVE  Current(s)'
<1>1. \A q \in Queried(s) : Looking(q, s)'
  BY LookingStays DEF Current
<1>2. Matching(s)' <=> Matching(s)
  BY DEF Matching
<1>3. flush' = flush => Busy(s)' = Busy(s)
  BY StoreStays DEF Busy
<1>4. QED
  BY <1>1, <1>2, <1>3 DEF Current

\* The current store between operations.
LEMMA CurrentQuiet ==
    ASSUME NEW s, Queried(s)' = {}, Busy(s)' = FALSE, Matching(s)'
    PROVE  Current(s)'
  BY DEF Current

LEMMA CachesTyped ==
    ASSUME CachesOK, NEW s \in Pools
    PROVE  /\ cacheIP[s] \in Seq(HostPair) /\ cacheHost[s] \in Seq(AddrPair)
           /\ (~persistent => Len(cacheIP[s]) <= kind)
  BY DEF CachesOK, FitIP

\* The pairs of a one to one cache.
LEMMA PairsOneToOne ==
    ASSUME NEW T, NEW c \in Seq(T), OneToOne(c)
    PROVE  /\ \A d, e \in Pairs(c) : d[2] = e[2] => d = e
           /\ \A h : h \notin Keys(c) => \A e \in Pairs(c) : e[1] # h
  BY DEF OneToOne, Pairs, Keys

\* What an operation on the current pool finds in a store it does not make suspect.
LEMMA Alone ==
    ASSUME TypeOK, CurrentOK, NEW s, s = Store(cur),
           suspect' = suspect \cup Overlapped(cur, Queried(s)), s \notin suspect'
    PROVE  /\ Queried(s) = {} /\ Busy(s) = FALSE /\ Matching(s) /\ Current(s)
           /\ s \in Pools /\ s \notin suspect
<1>1. s \in Pools
  BY TypeParts, StoreIn DEF ControlOK
<1>2. Queried(s) = {} /\ Busy(s) = FALSE
  BY <1>1, OverlapFree
<1>3. QED
  BY <1>1, <1>2 DEF CurrentOK, Current

LEMMA QueriedStays ==
    ASSUME NEW s, kind' = kind, query' = query
    PROVE  Queried(s)' = Queried(s)
  BY StoreStays DEF Queried

LEMMA BusyStays ==
    ASSUME NEW s, kind' = kind, flush' = flush
    PROVE  Busy(s)' = Busy(s)
  BY StoreStays DEF Busy

\* A query that was idle is now at work on the store s alone.
LEMMA QueriedBegins ==
    ASSUME ControlOK, NEW s, kind' = kind, NEW q \in Queries, NEW g, g.pc # "idle",
           Store(g.pool) = s, query' = [query EXCEPT ![q] = g], Queried(s) = {}
    PROVE  Queried(s)' = {q}
<1>1. \A r \in Queries : query'[r] = IF r = q THEN g ELSE query[r]
  BY DEF ControlOK
<1>2. Queried(s)' = {r \in Queries : query'[r].pc # "idle" /\ Store(query'[r].pool) = s}
  <2>1. \A p : Store(p)' = Store(p)
    BY StoreStays
  <2>2. QED
    BY <2>1 DEF Queried, Store, persistent
<1>3. \A r \in Queries : ~(query[r].pc # "idle" /\ Store(query[r].pool) = s)
  BY DEF Queried
<1>4. QED
  BY <1>1, <1>2, <1>3

LEMMA GetByHostMatches ==
    ASSUME CachesOK, NEW s \in Pools, Matching(s), NEW h, h \in Keys(cacheIP[s]), GetByHost(s, h)
    PROVE  /\ Matching(s)' /\ Pairs(cacheIP'[s]) = Pairs(cacheIP[s])
           /\ \A t \in Pools : t # s => cacheIP'[t] = cacheIP[t] /\ cacheHost'[t] = cacheHost[t]
<1>1. PICK c \in Seq(HostPair) : c = cacheIP[s] /\ cacheHost[s] = Mirror(c) /\ OneToOne(c)
  BY CachesTyped DEF Matching
<1>2. PICK x, v : v = Value(c, h) /\ x = Get(c, h) /\ Mirror(x) = Get(Mirror(c), v)
                  /\ OneToOne(x) /\ Pairs(x) = Pairs(c)
  BY <1>1, GetMirror
<1>3. /\ cacheIP' = [cacheIP EXCEPT ![s] = x]
      /\ cacheHost' = [cacheHost EXCEPT ![s] = Mirror(x)]
  BY <1>1, <1>2 DEF GetByHost
<1>4. cacheIP'[s] = x /\ cacheHost'[s] = Mirror(x)
  BY <1>3 DEF CachesOK
<1>5. Matching(s)'
  BY <1>2, <1>4 DEF Matching
<1>6. QED
  BY <1>1, <1>2, <1>3, <1>4, <1>5 DEF CachesOK

LEMMA GetByIPMatches ==
    ASSUME CachesOK, NEW s \in Pools, Matching(s), NEW ip, GetByIP(s, ip)
    PROVE  /\ Matching(s)' /\ Pairs(cacheIP'[s]) = Pairs(cacheIP[s])
           /\ \A t \in Pools : t # s => cacheIP'[t] = cacheIP[t] /\ cacheHost'[t] = cacheHost[t]
<1>1. PICK c \in Seq(HostPair) : c = cacheIP[s] /\ cacheHost[s] = Mirror(c) /\ OneToOne(c)
  BY CachesTyped DEF Matching
<1>2. CASE ip \in Keys(Mirror(c))
  <2>1. PICK i \in DOMAIN c : c[i][2] = ip
    BY <1>1, <1>2, MirrorKeys
  <2>2. PICK h : h = c[i][1] /\ h \in Keys(c) /\ Value(c, h) = ip
    BY <1>1, <2>1, PlaceIs
  <2>3. Value(Mirror(c), ip) = h
    BY <1>1, <2>2, MirrorPlace
  <2>4. PICK x : x = Get(c, h) /\ Mirror(x) = Get(Mirror(c), ip)
                 /\ OneToOne(x) /\ Pairs(x) = Pairs(c)
    BY <1>1, <2>2, GetMirror
  <2>5. /\ cacheIP' = [cacheIP EXCEPT ![s] = x]
        /\ cacheHost' = [cacheHost EXCEPT ![s] = Mirror(x)]
    BY <1>1, <1>2, <2>3, <2>4 DEF GetByIP
  <2>6. cacheIP'[s] = x /\ cacheHost'[s] = Mirror(x)
    BY <2>5 DEF CachesOK
  <2>7. Matching(s)'
    BY <2>4, <2>6 DEF Matching
  <2>8. QED
    BY <1>1, <2>4, <2>5, <2>6, <2>7 DEF CachesOK
<1>3. CASE ip \notin Keys(Mirror(c))
  <2>1. cacheIP' = cacheIP /\ cacheHost' = [cacheHost EXCEPT ![s] = cacheHost[s]]
    BY <1>1, <1>3, GetAbsent DEF GetByIP
  <2>2. cacheHost' = cacheHost
    BY <2>1 DEF CachesOK
  <2>3. QED
    BY <1>1, <2>1, <2>2 DEF Matching
<1>4. QED
  BY <1>2, <1>3

LEMMA LookupCurrent ==
    ASSUME PoolInv, NEW q \in Queries, NEW h \in Hosts, Lookup(q, h)
    PROVE  CurrentOK'
<1>1. PICK s : s = Store(cur) /\ s = Store(cur)'
  BY StoreStays DEF Lookup
<1>2. SUFFICES ASSUME s \notin suspect' PROVE Current(s)'
  BY <1>1 DEF CurrentOK
<1>3. suspect' = suspect \cup Overlapped(cur, Queried(s)) /\ kind' = kind /\ flush' = flush
  BY <1>1 DEF Lookup
<1>4. Queried(s) = {} /\ Busy(s) = FALSE /\ Matching(s) /\ s \in Pools /\ CachesOK /\ ControlOK
  BY <1>1, <1>2, <1>3, Alone, TypeParts DEF PoolInv
<1>5. Busy(s)' = FALSE
  BY <1>3, <1>4, BusyStays
<1>6. CASE h \in Keys(cacheIP[s])
  <2>1. GetByHost(s, h) /\ query' = query
    BY <1>1, <1>6 DEF Lookup
  <2>2. Matching(s)'
    BY <1>4, <1>6, <2>1, GetByHostMatches
  <2>3. Queried(s)' = {}
    BY <1>3, <1>4, <2>1, QueriedStays
  <2>4. QED
    BY <1>5, <2>2, <2>3, CurrentQuiet
<1>7. CASE h \notin Keys(cacheIP[s])
  <2>1. PICK g : g = [pc |-> "get", pool |-> cur, host |-> h]
    OBVIOUS
  <2>2. g.pc = "get" /\ g.pool = cur /\ g.host = h
    BY <2>1
  <2>3. /\ query' = [query EXCEPT ![q] = g] /\ saved' = Pairs(cacheIP[s])
        /\ cacheIP' = cacheIP /\ cacheHost' = cacheHost
    BY <1>1, <1>7, <2>1 DEF Lookup
  <2>4. Queried(s)' = {q} /\ query'[q] = g
    BY <1>1, <1>3, <1>4, <2>2, <2>3, QueriedBegins DEF ControlOK
  <2>5. PICK c \in Seq(HostPair) : c = cacheIP[s] /\ OneToOne(c) /\ cacheHost[s] = Mirror(c)
    BY <1>4, CachesTyped DEF Matching
  <2>6. /\ \A d, e \in Pairs(c) : d[2] = e[2] => d = e
        /\ \A e \in Pairs(c) : e[1] # h
    BY <1>7, <2>5, PairsOneToOne
  <2>7. Looking(q, s)'
    BY <1>7, <2>2, <2>3, <2>4, <2>5, <2>6 DEF Looking
  <2>8. QED
    BY <1>5, <2>4, <2>7 DEF Current
<1>8. QED
  BY <1>6, <1>7

LEMMA LookBackCurrent ==
    ASSUME PoolInv, NEW ip, LookBack(ip)
    PROVE  CurrentOK'
<1>1. PICK s : s = Store(cur) /\ s = Store(cur)'
  BY StoreStays DEF LookBack
<1>2. SUFFICES ASSUME s \notin suspect' PROVE Current(s)'
  BY <1>1 DEF CurrentOK
<1>3. /\ suspect' = suspect \cup Overlapped(cur, Queried(s))
      /\ kind' = kind /\ flush' = flush /\ query' = query /\ GetByIP(s, ip)
  BY <1>1 DEF LookBack
<1>4. Queried(s) = {} /\ Busy(s) = FALSE /\ Matching(s) /\ s \in Pools /\ CachesOK /\ ControlOK
  BY <1>1, <1>2, <1>3, Alone, TypeParts DEF PoolInv
<1>5. Busy(s)' = FALSE /\ Queried(s)' = {}
  BY <1>3, <1>4, BusyStays, QueriedStays
<1>6. Matching(s)'
  BY <1>3, <1>4, GetByIPMatches
<1>7. QED
  BY <1>5, <1>6, CurrentQuiet

\* A query at work on another store.
LEMMA Elsewhere ==
    ASSUME ControlOK, NEW s, kind' = kind, NEW q \in Queries, query[q].pc # "idle",
           Store(query[q].pool) # s, NEW g, query' = [query EXCEPT ![q] = g],
           g.pc = "idle" \/ g.pool = query[q].pool
    PROVE  /\ Queried(s)' = Queried(s)
           /\ \A r \in Queried(s) : query'[r] = query[r] /\ query[r].pool # query[q].pool
<1>1. \A r \in Queries : query'[r] = IF r = q THEN g ELSE query[r]
  BY DEF ControlOK
<1>2. Queried(s)' = {r \in Queries : query'[r].pc # "idle" /\ Store(query'[r].pool) = s}
  BY DEF Queried, Store, persistent
<1>3. Queried(s)' = Queried(s)
  <2>1. \A r \in Queries : (query'[r].pc # "idle" /\ Store(query'[r].pool) = s) <=>
                           (query[r].pc # "idle" /\ Store(query[r].pool) = s)
    BY <1>1
  <2>2. QED
    BY <1>2, <2>1 DEF Queried
<1>4. \A r \in Queried(s) : r # q /\ query'[r] = query[r] /\ query[r].pool # query[q].pool
  BY <1>1 DEF Queried
<1>5. QED
  BY <1>3, <1>4

\* The query at work on the store s goes on.
LEMMA QueriedGoesOn ==
    ASSUME ControlOK, NEW s, kind' = kind, NEW q \in Queries, query[q].pc # "idle",
           Store(query[q].pool) = s, NEW g, query' = [query EXCEPT ![q] = g],
           g.pc # "idle", g.pool = query[q].pool
    PROVE  Queried(s)' = Queried(s) /\ q \in Queried(s)
<1>1. \A r \in Queries : query'[r] = IF r = q THEN g ELSE query[r]
  BY DEF ControlOK
<1>2. Queried(s)' = {r \in Queries : query'[r].pc # "idle" /\ Store(query'[r].pool) = s}
  BY DEF Queried, Store, persistent
<1>3. \A r \in Queries : (query'[r].pc # "idle" /\ Store(query'[r].pool) = s) <=>
                         (query[r].pc # "idle" /\ Store(query[r].pool) = s)
  BY <1>1
<1>4. QED
  BY <1>2, <1>3 DEF Queried

\* The query at work on the store s ends.
LEMMA QueriedEnds ==
    ASSUME ControlOK, NEW s, kind' = kind, NEW q \in Queries,
           NEW g, query' = [query EXCEPT ![q] = g], g.pc = "idle", Queried(s) \ {q} = {}
    PROVE  Queried(s)' = {}
<1>1. \A r \in Queries : query'[r] = IF r = q THEN g ELSE query[r]
  BY DEF ControlOK
<1>2. Queried(s)' = {r \in Queries : query'[r].pc # "idle" /\ Store(query'[r].pool) = s}
  BY DEF Queried, Store, persistent
<1>3. \A r \in Queries : r # q => ~(query[r].pc # "idle" /\ Store(query[r].pool) = s)
  BY DEF Queried
<1>4. QED
  BY <1>1, <1>2, <1>3

\* An address is freed: the pair that has it leaves both caches.
LEMMA DelByIPMatches ==
    ASSUME CachesOK, NEW s \in Pools, Matching(s), NEW o, DelByIP(s, o)
    PROVE  /\ Matching(s)' /\ Pairs(cacheIP'[s]) = {e \in Pairs(cacheIP[s]) : e[2] # o}
           /\ (\E e \in Pairs(cacheIP[s]) : e[2] = o) => Len(cacheIP'[s]) = Len(cacheIP[s]) - 1
           /\ \A k : k \notin Keys(cacheIP[s]) => k \notin Keys(cacheIP'[s])
<1>1. PICK c \in Seq(HostPair) : c = cacheIP[s] /\ cacheHost[s] = Mirror(c) /\ OneToOne(c)
  BY CachesTyped DEF Matching
<1>2. CASE o \in Keys(Mirror(c))
  <2>1. PICK i \in DOMAIN c : c[i][2] = o
    BY <1>1, <1>2, MirrorKeys
  <2>2. PICK h : h = c[i][1] /\ h \in Keys(c) /\ Value(c, h) = o /\ Place(c, h) = i
    BY <1>1, <2>1, PlaceIs
  <2>3. Value(Mirror(c), o) = h
    BY <1>1, <2>2, MirrorPlace
  <2>4. PICK x : x = Delete(c, h)
    OBVIOUS
  <2>5. Mirror(x) = Delete(Mirror(c), o)
    BY <1>1, <2>2, <2>4, MirrorDelete
  <2>6. OneToOne(x) /\ Pairs(x) = Pairs(c) \ {c[i]}
    BY <1>1, <2>2, <2>4, DeleteEntries
  <2>7. Len(x) = Len(c) - 1
    BY <1>1, <2>2, <2>4, DeleteShape
  <2>8. /\ cacheIP' = [cacheIP EXCEPT ![s] = x]
        /\ cacheHost' = [cacheHost EXCEPT ![s] = Mirror(x)]
    BY <1>1, <1>2, <2>3, <2>4, <2>5 DEF DelByIP
  <2>9. cacheIP'[s] = x /\ cacheHost'[s] = Mirror(x)
    BY <2>8 DEF CachesOK
  <2>10. Matching(s)'
    BY <2>6, <2>9 DEF Matching
  <2>11. c[i] \in Pairs(c) /\ \A e \in Pairs(c) : e # c[i] => e[2] # o
    BY <1>1, <2>1, PairsOneToOne DEF Pairs
  <2>12. Pairs(x) = {e \in Pairs(c) : e[2] # o}
    BY <2>1, <2>6, <2>11
  <2>13. Keys(x) = {e[1] : e \in Pairs(x)} /\ Keys(c) = {e[1] : e \in Pairs(c)}
    BY DEF Keys, Pairs
  <2>14. \A k : k \notin Keys(c) => k \notin Keys(x)
    BY <2>6, <2>13
  <2>15. QED
    BY <1>1, <2>7, <2>9, <2>10, <2>12, <2>14
<1>3. CASE o \notin Keys(Mirror(c))
  <2>1. cacheIP' = cacheIP /\ cacheHost' = [cacheHost EXCEPT ![s] = cacheHost[s]]
    BY <1>1, <1>3 DEF DelByIP, Delete
  <2>2. cacheHost' = cacheHost
    BY <2>1 DEF CachesOK
  <2>3. \A e \in Pairs(c) : e[2] # o
    BY <1>1, <1>3, MirrorKeys DEF Pairs
  <2>4. QED
    BY <1>1, <2>1, <2>2, <2>3 DEF Matching
<1>4. QED
  BY <1>2, <1>3

\* Every other query of the store is none: Current says there is only one.
LEMMA OnlyQuery ==
    ASSUME NEW s, Current(s), NEW q \in Queried(s)
    PROVE  Queried(s) = {q} /\ Looking(q, s) /\ Busy(s) = FALSE
  BY DEF Current

\* The lookup of the only query goes on.
LEMMA CurrentGoesOn ==
    ASSUME NEW s, Current(s), NEW q \in Queried(s), Queried(s)' = Queried(s), Looking(q, s)',
           kind' = kind, flush' = flush
    PROVE  Current(s)'
<1>1. Queried(s) = {q} /\ Busy(s) = FALSE
  BY OnlyQuery
<1>2. Busy(s)' = FALSE
  BY <1>1, BusyStays
<1>3. QED
  BY <1>1, <1>2 DEF Current

LEMMA LookupGetCurrent ==
    ASSUME PoolInv, NEW q \in Queries, LookupGet(q)
    PROVE  CurrentOK'
<1>1. PICK s : s = Store(cur) /\ s = Store(cur)' /\ s \in Pools
  BY StoreStays, StoreIn, TypeParts DEF LookupGet, PoolInv, ControlOK
<1>2. SUFFICES ASSUME s \notin suspect' PROVE Current(s)'
  BY <1>1 DEF CurrentOK
<1>3. CachesOK /\ ControlOK
  BY TypeParts DEF PoolInv
<1>4. PICK p, t, o, g : /\ p = query[q].pool /\ t = Store(p)
                        /\ o = (IF Advance(offset[p]) THEN First ELSE offset[p] + 1)
                        /\ g = [query[q] EXCEPT !.pc = "putIP"]
  OBVIOUS
<1>5. /\ query[q].pc = "get" /\ query' = [query EXCEPT ![q] = g]
      /\ offset' = [offset EXCEPT ![p] = o]
      /\ kind' = kind /\ flush' = flush /\ saved' = saved /\ suspect' = suspect
      /\ \/ DelByIP(t, o)
         \/ UNCHANGED <<cacheIP, cacheHost>> /\ o \notin Keys(cacheHost[t])
  BY <1>4 DEF LookupGet, Reuses
<1>6. g.pc = "putIP" /\ g.pool = p /\ g.host = query[q].host
  BY <1>3, <1>4 DEF ControlOK, QueryType
<1>7. o \in Addresses /\ p \in Pools /\ offset[p] \in Offsets
  BY <1>3, <1>4, QueryTyped, PoolAssumption DEF Advance, Addresses, Offsets
<1>8. Current(s)
  BY <1>1, <1>2, <1>5 DEF CurrentOK, PoolInv
<1>9. CASE t # s
  <2>1. /\ Queried(s)' = Queried(s)
        /\ \A r \in Queried(s) : query'[r] = query[r] /\ query[r].pool # p
    <3>1. query[q].pc # "idle" /\ Store(query[q].pool) # s /\ g.pool = query[q].pool
      BY <1>4, <1>5, <1>6, <1>9
    <3>2. /\ Queried(s)' = Queried(s)
          /\ \A r \in Queried(s) : query'[r] = query[r] /\ query[r].pool # query[q].pool
      BY <1>3, <1>5, <3>1, Elsewhere
    <3>3. QED
      BY <1>4, <3>2
  <2>2. \A r \in Queried(s) : offset'[query[r].pool] = offset[query[r].pool]
    BY <1>3, <1>5, <2>1, QueryTyped DEF Queried, ControlOK
  <2>3. cacheIP'[s] = cacheIP[s] /\ cacheHost'[s] = cacheHost[s]
    BY <1>1, <1>3, <1>5, <1>9 DEF DelByIP, CachesOK
  <2>4. QED
    BY <1>5, <1>8, <2>1, <2>2, <2>3, CurrentFrame
<1>10. CASE t = s
  <2>1. Queried(s)' = Queried(s) /\ q \in Queried(s)
    BY <1>3, <1>4, <1>5, <1>6, <1>10, QueriedGoesOn
  <2>2. Looking(q, s)
    BY <1>8, <2>1, OnlyQuery
  <2>3. PICK c \in Seq(HostPair) : c = cacheIP[s] /\ (~persistent => Len(c) <= kind)
    BY <1>1, <1>3, CachesTyped
  <2>4. Matching(s) /\ saved = Pairs(c) /\ g.host \notin Keys(c)
    BY <1>5, <1>6, <2>2, <2>3 DEF Looking, Matching
  <2>5. /\ Matching(s)' /\ Pairs(cacheIP'[s]) = {e \in Pairs(c) : e[2] # o}
        /\ (\E e \in Pairs(c) : e[2] = o) => Len(cacheIP'[s]) = Len(c) - 1
        /\ g.host \notin Keys(cacheIP'[s])
    <3>1. CASE DelByIP(s, o)
      BY <1>1, <1>3, <2>3, <2>4, <3>1, DelByIPMatches
    <3>2. CASE UNCHANGED <<cacheIP, cacheHost>> /\ o \notin Keys(cacheHost[s])
      <4>1. \A e \in Pairs(c) : e[2] # o
        BY <2>3, <2>4, <3>2, MirrorKeys DEF Matching, Pairs
      <4>2. QED
        BY <2>3, <2>4, <3>2, <4>1 DEF Matching
    <3>3. QED
      BY <1>5, <1>10, <3>1, <3>2
  <2>6. query'[q] = g /\ offset'[p] = o
    BY <1>3, <1>5, <1>7 DEF ControlOK
  <2>7. persistent' = persistent
    BY <1>5, StoreStays
  <2>8. ~persistent /\ (\E e \in saved : e[2] = o) => Len(cacheIP'[s]) < kind
    <3>1. kind \in Nat /\ Len(c) \in Nat
      BY <1>3, <2>3, Kinds
    <3>2. QED
      BY <2>3, <2>4, <2>5, <3>1
  <2>9. Looking(q, s)'
    <3>1. PICK x : x = cacheIP'[s]
      OBVIOUS
    <3>2. OneToOne(x) /\ cacheHost'[s] = Mirror(x)
      BY <2>5, <3>1 DEF Matching
    <3>3. (\A e \in saved : e[1] # g.host) /\ (\A d, e \in saved : d[2] = e[2] => d = e)
      BY <1>6, <2>2 DEF Looking
    <3>4. QED
      BY <1>5, <1>6, <1>7, <2>4, <2>5, <2>6, <2>7, <2>8, <3>1, <3>2, <3>3 DEF Looking, Addresses
  <2>10. QED
    BY <1>5, <1>8, <2>1, <2>9, CurrentGoesOn
<1>11. QED
  BY <1>9, <1>10

LEMMA LookupPutIPCurrent ==
    ASSUME PoolInv, NEW q \in Queries, LookupPutIP(q)
    PROVE  CurrentOK'
<1>1. PICK s : s = Store(cur) /\ s = Store(cur)' /\ s \in Pools
  BY StoreStays, StoreIn, TypeParts DEF LookupPutIP, PoolInv, ControlOK
<1>2. SUFFICES ASSUME s \notin suspect' PROVE Current(s)'
  BY <1>1 DEF CurrentOK
<1>3. CachesOK /\ ControlOK
  BY TypeParts DEF PoolInv
<1>4. PICK p, t, o, g : /\ p = query[q].pool /\ t = Store(p) /\ o = offset[p]
                        /\ g = [query[q] EXCEPT !.pc = "putHost"]
  OBVIOUS
<1>5. /\ query[q].pc = "putIP" /\ query' = [query EXCEPT ![q] = g] /\ offset' = offset
      /\ kind' = kind /\ flush' = flush /\ saved' = saved /\ suspect' = suspect
      /\ cacheIP' = cacheIP
      /\ cacheHost' = [cacheHost EXCEPT ![t] = Set(cacheHost[t], o, query[q].host)]
  BY <1>4 DEF LookupPutIP
<1>6. g.pc = "putHost" /\ g.pool = p /\ g.host = query[q].host
  BY <1>3, <1>4 DEF ControlOK, QueryType
<1>7. Current(s)
  BY <1>1, <1>2, <1>5 DEF CurrentOK, PoolInv
<1>8. CASE t # s
  <2>1. /\ Queried(s)' = Queried(s)
        /\ \A r \in Queried(s) : query'[r] = query[r]
    BY <1>3, <1>4, <1>5, <1>6, <1>8, Elsewhere
  <2>2. cacheIP'[s] = cacheIP[s] /\ cacheHost'[s] = cacheHost[s]
    BY <1>1, <1>3, <1>5, <1>8 DEF CachesOK
  <2>3. QED
    BY <1>5, <1>7, <2>1, <2>2, CurrentFrame
<1>9. CASE t = s
  <2>1. Queried(s)' = Queried(s) /\ q \in Queried(s)
    BY <1>3, <1>4, <1>5, <1>6, <1>9, QueriedGoesOn
  <2>2. Looking(q, s)
    BY <1>7, <2>1, OnlyQuery
  <2>3. PICK c, m : /\ c = cacheIP[s] /\ cacheHost[s] = Mirror(c) /\ m = Set(Mirror(c), o, g.host)
                    /\ m = Set(Mirror(c), o, g.host)'
    BY <1>5, <2>2, SetStays DEF Looking
  <2>4. query'[q] = g /\ cacheHost'[s] = m
    BY <1>1, <1>3, <1>5, <1>6, <1>9, <2>3 DEF ControlOK, CachesOK
  <2>5. persistent' = persistent
    BY <1>5, StoreStays
  <2>6. /\ OneToOne(c) /\ g.host \notin Keys(c) /\ (\A e \in saved : e[1] # g.host)
        /\ (\A d, e \in saved : d[2] = e[2] => d = e)
        /\ o \in Addresses /\ Pairs(c) = {e \in saved : e[2] # o}
        /\ ~persistent /\ (\E e \in saved : e[2] = o) => Len(c) < kind
    BY <1>4, <1>5, <1>6, <2>2, <2>3 DEF Looking
  <2>7. Looking(q, s)'
    <3>1. /\ c = cacheIP'[s] /\ m = cacheHost'[s] /\ o = offset'[g.pool] /\ g = query'[q]
          /\ kind' = kind /\ saved' = saved
      BY <1>4, <1>5, <1>6, <2>3, <2>4
    <3>2. QED
      BY <1>6, <2>3, <2>5, <2>6, <3>1 DEF Looking, Addresses
  <2>8. QED
    BY <1>5, <1>7, <2>1, <2>7, CurrentGoesOn
<1>10. QED
  BY <1>8, <1>9

LEMMA LookupPutHostCurrent ==
    ASSUME PoolInv, NEW q \in Queries, LookupPutHost(q)
    PROVE  CurrentOK'
<1>1. PICK s : s = Store(cur) /\ s = Store(cur)' /\ s \in Pools
  BY StoreStays, StoreIn, TypeParts DEF LookupPutHost, PoolInv, ControlOK
<1>2. SUFFICES ASSUME s \notin suspect' PROVE Current(s)'
  BY <1>1 DEF CurrentOK
<1>3. CachesOK /\ ControlOK
  BY TypeParts DEF PoolInv
<1>4. PICK p, t, o, h : p = query[q].pool /\ t = Store(p) /\ o = offset[p] /\ h = query[q].host
  OBVIOUS
<1>5. /\ query[q].pc = "putHost" /\ query' = [query EXCEPT ![q] = Idle] /\ offset' = offset
      /\ kind' = kind /\ flush' = flush /\ saved' = saved
      /\ suspect' = suspect \cup Overlapped(p, Queried(t) \ {q})
      /\ cacheHost' = cacheHost
      /\ cacheIP' = [cacheIP EXCEPT ![t] = Set(cacheIP[t], h, o)]
  BY <1>4 DEF LookupPutHost
<1>6. Current(s)
  BY <1>1, <1>2, <1>5 DEF CurrentOK, PoolInv
<1>7. CASE t # s
  <2>1. /\ Queried(s)' = Queried(s)
        /\ \A r \in Queried(s) : query'[r] = query[r]
    BY <1>3, <1>4, <1>5, <1>7, IdleTyped, Elsewhere
  <2>2. cacheIP'[s] = cacheIP[s] /\ cacheHost'[s] = cacheHost[s]
    BY <1>1, <1>3, <1>5, <1>7 DEF CachesOK
  <2>3. QED
    BY <1>5, <1>6, <2>1, <2>2, CurrentFrame
<1>8. CASE t = s
  <2>1. q \in Queried(s)
    BY <1>4, <1>5, <1>8 DEF Queried
  <2>2. Looking(q, s) /\ Queried(s) = {q} /\ Busy(s) = FALSE
    BY <1>6, <2>1, OnlyQuery
  <2>3. Queried(s)' = {}
    BY <1>3, <1>5, <2>2, IdleTyped, QueriedEnds
  <2>4. Busy(s)' = FALSE
    BY <1>5, <2>2, BusyStays
  <2>5. PICK c \in Seq(HostPair) : c = cacheIP[s]
    BY <1>1, <1>3, CachesTyped
  <2>6. /\ OneToOne(c) /\ h \notin Keys(c) /\ o \in Addresses /\ Pairs(c) = {e \in saved : e[2] # o}
        /\ cacheHost[s] = Set(Mirror(c), o, h)
    BY <1>4, <1>5, <2>2, <2>5 DEF Looking
  <2>7. \A i \in DOMAIN c : c[i][2] # o
    BY <2>6 DEF Pairs
  <2>8. h \in Hosts /\ o \in Offsets /\ (persistent \/ kind \in Nat \ {0})
    BY <1>3, <1>4, <1>5, <2>6, Ranges, Kinds DEF PoolInv, Places
  <2>9. PICK x : x = Set(c, h, o) /\ OneToOne(x) /\ cacheHost[s] = Mirror(x)
    BY <2>5, <2>6, <2>7, <2>8, SetMirror
  <2>10. cacheIP'[s] = x /\ cacheHost'[s] = Mirror(x)
    BY <1>1, <1>3, <1>5, <1>8, <2>5, <2>9 DEF CachesOK
  <2>11. Matching(s)'
    BY <2>9, <2>10 DEF Matching
  <2>12. QED
    BY <2>3, <2>4, <2>11, CurrentQuiet
<1>9. QED
  BY <1>7, <1>8

LEMMA EmptyMatches ==
    ASSUME NEW s, cacheIP'[s] = <<>>, cacheHost'[s] = <<>>
    PROVE  Matching(s)'
<1>1. OneToOne(<<>>) /\ Mirror(<<>>) = <<>>
  BY DEF OneToOne, Mirror
<1>2. QED
  BY <1>1 DEF Matching

LEMMA FlushBeginCurrent ==
    ASSUME PoolInv, FlushBegin
    PROVE  CurrentOK'
<1>1. PICK s : s = Store(cur) /\ s = Store(cur)' /\ s \in Pools
  BY StoreStays, StoreIn, TypeParts DEF FlushBegin, PoolInv, ControlOK
<1>2. SUFFICES ASSUME s \notin suspect' PROVE Current(s)'
  BY <1>1 DEF CurrentOK
<1>3. CachesOK
  BY TypeParts DEF PoolInv
<1>4. Queried(s) = {}
  BY <1>1, <1>2, OverlapFree DEF FlushBegin
<1>5. Queried(s)' = {}
  BY <1>4, QueriedStays DEF FlushBegin
<1>6. flush'.pc # "none" /\ flush'.pool = cur /\ (flush'.pc = "offset" => persistent)
  BY DEF FlushBegin
<1>7. Busy(s)' = TRUE
  BY <1>1, <1>6, StoreStays DEF Busy, FlushBegin
<1>8. cacheIP'[s] = <<>> /\ (flush'.pc = "offset" => cacheHost'[s] = <<>>)
  BY <1>1, <1>3, <1>6 DEF FlushBegin, CachesOK
<1>9. QED
  BY <1>5, <1>7, <1>8 DEF Current

LEMMA FlushHostCurrent ==
    ASSUME PoolInv, FlushHost
    PROVE  CurrentOK'
<1>1. PICK s : s = Store(cur) /\ s = Store(cur)' /\ s \in Pools
  BY StoreStays, StoreIn, TypeParts DEF FlushHost, PoolInv, ControlOK
<1>2. SUFFICES ASSUME s \notin suspect' PROVE Current(s)'
  BY <1>1 DEF CurrentOK
<1>3. CachesOK /\ ControlOK
  BY TypeParts DEF PoolInv
<1>4. PICK f : f = flush.pool
  OBVIOUS
<1>5. /\ flush.pc = "host" /\ flush'.pc = "offset" /\ flush'.pool = f /\ Store(f) = f /\ f \in Pools
      /\ Store(f)' = f
  BY <1>3, <1>4 DEF FlushHost, ControlOK, FlushType, PoolInv, Places, Store, persistent
<1>6. /\ UNCHANGED <<kind, cacheIP, query, offset, saved, suspect>>
      /\ cacheHost' = [cacheHost EXCEPT ![f] = <<>>]
  BY <1>4 DEF FlushHost
<1>7. Current(s)
  BY <1>1, <1>2, <1>6 DEF CurrentOK, PoolInv
<1>8. Queried(s)' = Queried(s)
  BY <1>6, QueriedStays
<1>9. CASE f = s
  <2>1. Queried(s) = {} /\ cacheIP[s] = <<>>
    BY <1>4, <1>5, <1>7, <1>9 DEF Current, Busy
  <2>2. cacheHost'[s] = <<>> /\ Busy(s)' = TRUE
    BY <1>3, <1>5, <1>6, <1>9 DEF CachesOK, Busy
  <2>3. QED
    BY <1>6, <1>8, <2>1, <2>2 DEF Current
<1>10. CASE f # s
  <2>1. Busy(s) = FALSE /\ Busy(s)' = FALSE
    BY <1>4, <1>5, <1>10 DEF Busy
  <2>2. cacheHost'[s] = cacheHost[s]
    BY <1>1, <1>3, <1>6, <1>10 DEF CachesOK
  <2>3. QED
    BY <1>6, <1>7, <1>8, <2>1, <2>2, CurrentFrame
<1>11. QED
  BY <1>9, <1>10

LEMMA FlushOffsetCurrent ==
    ASSUME PoolInv, FlushOffset
    PROVE  CurrentOK'
<1>1. PICK s : s = Store(cur) /\ s = Store(cur)' /\ s \in Pools
  BY StoreStays, StoreIn, TypeParts DEF FlushOffset, PoolInv, ControlOK
<1>2. SUFFICES ASSUME s \notin suspect' PROVE Current(s)'
  BY <1>1 DEF CurrentOK
<1>3. ControlOK
  BY TypeParts DEF PoolInv
<1>4. /\ UNCHANGED <<kind, cacheIP, cacheHost, query, saved, suspect>> /\ flush.pc = "offset"
      /\ offset' = [offset EXCEPT ![flush.pool] = First - 1] /\ flush' = NoFlush
  BY DEF FlushOffset
<1>5. Current(s)
  BY <1>1, <1>2, <1>4 DEF CurrentOK, PoolInv
<1>6. Queried(s)' = Queried(s) /\ Busy(s)' = FALSE
  BY <1>4, QueriedStays DEF Busy, NoFlush
<1>7. CASE Store(flush.pool) = s
  <2>1. Queried(s) = {} /\ cacheIP[s] = <<>> /\ cacheHost[s] = <<>>
    BY <1>4, <1>5, <1>7 DEF Current, Busy
  <2>2. Matching(s)'
    BY <1>4, <2>1, EmptyMatches
  <2>3. QED
    BY <1>6, <2>1, <2>2, CurrentQuiet
<1>8. CASE Store(flush.pool) # s
  <2>1. Busy(s) = FALSE
    BY <1>8 DEF Busy
  <2>2. \A r \in Queried(s) : offset'[query[r].pool] = offset[query[r].pool]
    BY <1>3, <1>4, <1>8, QueryTyped DEF Queried, ControlOK
  <2>3. QED
    BY <1>4, <1>5, <1>6, <2>1, <2>2, CurrentFrame
<1>9. QED
  BY <1>7, <1>8

\* The current pool is the same and its store is left alone.
LEMMA UntouchedCurrent ==
    ASSUME PoolInv, UNCHANGED <<kind, cur, query, offset, saved, flush>>, suspect \subseteq suspect',
           \A s : s = Store(cur) => cacheIP'[s] = cacheIP[s] /\ cacheHost'[s] = cacheHost[s]
    PROVE  CurrentOK'
<1>1. PICK s : s = Store(cur) /\ s = Store(cur)'
  BY StoreStays
<1>2. SUFFICES ASSUME s \notin suspect' PROVE Current(s)'
  BY <1>1 DEF CurrentOK
<1>3. Current(s)
  BY <1>1, <1>2 DEF CurrentOK, PoolInv
<1>4. Queried(s)' = Queried(s)
  BY QueriedStays
<1>5. cacheIP'[s] = cacheIP[s] /\ cacheHost'[s] = cacheHost[s]
  BY <1>1
<1>6. QED
  BY <1>3, <1>4, <1>5, CurrentFrame

LEMMA ReloadParseCurrent ==
    ASSUME PoolInv, ReloadParse
    PROVE  CurrentOK'
<1>1. CASE ~Restores
  BY <1>1, UntouchedCurrent DEF ReloadParse
<1>2. CASE Restores
  <2>1. Store(cur) = 1 /\ Store(cur)' = 1 /\ 1 \in Pools
    BY <1>2, Ranges DEF Restores, ReloadParse, Store, persistent
  <2>2. SUFFICES ASSUME 1 \notin suspect' PROVE Current(1)'
    BY <2>1 DEF CurrentOK
  <2>3. Queried(1) = {} /\ Busy(1) = FALSE
    BY <1>2, <2>1, <2>2, OverlapFree DEF ReloadParse
  <2>4. Queried(1)' = {} /\ Busy(1)' = FALSE
    BY <2>3, QueriedStays, BusyStays DEF ReloadParse
  <2>5. cacheIP'[1] = <<>> /\ cacheHost'[1] = <<>>
    BY <1>2, <2>1, TypeParts DEF ReloadParse, PoolInv, CachesOK
  <2>6. QED
    BY <2>4, <2>5, EmptyMatches, CurrentQuiet
<1>3. QED
  BY <1>1, <1>2

LEMMA CloneCurrent ==
    ASSUME PoolInv, ReloadFails \/ CloneIP \/ CloneHost
    PROVE  CurrentOK'
<1>1. UNCHANGED <<kind, cur, query, offset, saved, flush>> /\ suspect \subseteq suspect'
  BY DEF ReloadFails, CloneIP, CloneHost
<1>2. CachesOK /\ ControlOK
  BY TypeParts DEF PoolInv
<1>3. ASSUME NEW s, s = Store(cur)
      PROVE  cacheIP'[s] = cacheIP[s] /\ cacheHost'[s] = cacheHost[s]
  <2>1. CASE UNCHANGED <<cacheIP, cacheHost>>
    BY <2>1
  <2>2. CASE ~persistent
    <3>1. s = cur /\ s \in Pools /\ s # cur + 1
      BY <1>2, <1>3, <2>2, Ranges DEF Store, ControlOK
    <3>2. QED
      BY <1>2, <3>1 DEF ReloadFails, CloneIP, CloneHost, CachesOK
  <2>3. QED
    BY <2>1, <2>2 DEF ReloadFails, CloneIP, CloneHost
<1>4. QED
  BY <1>1, <1>3, UntouchedCurrent

LEMMA PublishCurrent ==
    ASSUME PoolInv, Publish
    PROVE  CurrentOK'
<1>1. /\ UNCHANGED <<kind, query, offset, saved, flush, suspect, cacheIP, cacheHost>>
      /\ cur' = cur + 1 /\ reload = "cloned"
  BY DEF Publish
<1>2. ControlOK
  BY TypeParts DEF PoolInv
<1>3. CASE persistent
  <2>1. Store(cur) = 1 /\ Store(cur)' = 1
    BY <1>1, <1>3 DEF Store, persistent
  <2>2. 1 \notin suspect' => Current(1)
    BY <1>1, <2>1 DEF PoolInv, CurrentOK
  <2>3. Queried(1)' = Queried(1)
    BY <1>1, QueriedStays
  <2>4. Current(1) => Current(1)'
    BY <1>1, <2>3, CurrentFrame
  <2>5. QED
    BY <2>1, <2>2, <2>4 DEF CurrentOK
<1>4. CASE ~persistent
  <2>1. PICK s : s = cur + 1 /\ s = Store(cur)' /\ Store(cur) = cur
    BY <1>1, <1>4 DEF Store, persistent
  <2>2. SUFFICES ASSUME s \notin suspect PROVE Current(s)'
    BY <1>1, <2>1 DEF CurrentOK
  <2>3. Cloned
    BY <1>1, <1>4, <2>1, <2>2 DEF PoolInv, CloneOK
  <2>4. Matching(cur)
    BY <2>1, <2>3 DEF Cloned, PoolInv, CurrentOK, Current, Busy
  <2>5. Matching(s)'
    BY <1>1, <2>1, <2>3, <2>4 DEF Matching, Cloned
  <2>6. Queried(s) = {}
    <3>1. \A q \in Queries : query[q].pc # "idle" => query[q].pool # s
      BY <1>2, <2>1, QueryTyped, Ranges DEF PoolInv, Places, ControlOK
    <3>2. QED
      BY <1>4, <3>1 DEF Queried, Store
  <2>7. Queried(s)' = {} /\ Busy(s)' = FALSE
    BY <1>1, <2>3, <2>6, QueriedStays DEF Cloned, Busy
  <2>8. QED
    BY <2>5, <2>7, CurrentQuiet
<1>5. QED
  BY <1>3, <1>4

LEMMA KillCurrent ==
    ASSUME PoolInv, Kill
    PROVE  CurrentOK'
<1>1. /\ kind' = kind /\ cur' = 1 /\ flush' = NoFlush /\ query' = [q \in Queries |-> Idle]
  BY DEF Kill
<1>2. Store(cur)' = 1 /\ 1 \in Pools
  BY <1>1, Ranges DEF Store
<1>3. Queried(1)' = {} /\ Busy(1)' = FALSE
  BY <1>1, IdleTyped DEF Queried, Busy, NoFlush
<1>4. CASE persistent /\ ~Restores
  <2>1. Store(cur) = 1 /\ (flush.pc # "none" => flush.pc = "offset" /\ Busy(1))
    BY <1>4, TypeParts DEF Store, Busy, PoolInv, Places, ControlOK, FlushType
  <2>2. SUFFICES ASSUME 1 \notin suspect' PROVE Current(1)'
    BY <1>2 DEF CurrentOK
  <2>3. 1 \notin suspect /\ Queried(1) = {} /\ UNCHANGED <<cacheIP, cacheHost>>
    BY <1>4, <2>2 DEF Kill
  <2>4. Current(1)
    BY <2>1, <2>3 DEF PoolInv, CurrentOK
  <2>5. CASE Busy(1)
    <3>1. cacheIP'[1] = <<>> /\ cacheHost'[1] = <<>>
      BY <2>1, <2>3, <2>4, <2>5 DEF Current, Busy
    <3>2. QED
      BY <1>3, <3>1, EmptyMatches, CurrentQuiet
  <2>6. CASE ~Busy(1)
    <3>1. Matching(1)
      BY <2>3, <2>4, <2>6 DEF Current
    <3>2. Matching(1)'
      BY <2>3, <3>1 DEF Matching
    <3>3. QED
      BY <1>3, <3>2, CurrentQuiet
  <2>7. QED
    BY <2>5, <2>6
<1>5. CASE ~(persistent /\ ~Restores)
  <2>1. cacheIP'[1] = <<>> /\ cacheHost'[1] = <<>>
    BY <1>2, <1>5 DEF Kill
  <2>2. Current(1)'
    BY <1>3, <2>1, EmptyMatches, CurrentQuiet
  <2>3. QED
    BY <1>2, <2>2 DEF CurrentOK
<1>6. QED
  BY <1>4, <1>5

-----------------------------------------------------------------------------
(* The store being cloned *)

\* An operation that begins or ends makes the copy suspect.
LEMMA OperationClone ==
    ASSUME PoolInv, UNCHANGED <<kind, cur, reload>>, NEW p, NEW others,
           Overlapped(p, others) \subseteq suspect'
    PROVE  CloneOK'
<1>1. CASE ~persistent /\ reload \in {"cloning", "cloned"}
  <2>1. cur + 1 \in Overlapped(p, others)
    BY <1>1, TypeParts, NextPool, OverlapClone DEF PoolInv
  <2>2. QED
    BY <2>1 DEF CloneOK
<1>2. CASE ~(~persistent /\ reload \in {"cloning", "cloned"})
  BY <1>2, StoreStays DEF CloneOK
<1>3. QED
  BY <1>1, <1>2

\* A lookup under way is one on another store, which the clone does not see.
LEMMA UnderWayClone ==
    ASSUME PoolInv, NEW q \in Queries, LookupGet(q) \/ LookupPutIP(q)
    PROVE  CloneOK'
<1>1. /\ UNCHANGED <<kind, cur, reload, flush, suspect>> /\ query[q].pc # "idle"
  BY DEF LookupGet, LookupPutIP
<1>2. CachesOK /\ ControlOK /\ persistent' = persistent
  BY <1>1, TypeParts, StoreStays DEF PoolInv
<1>3. SUFFICES ASSUME ~persistent, reload \in {"cloning", "cloned"}, cur + 1 \notin suspect
               PROVE  Cloned'
  BY <1>1, <1>2 DEF CloneOK
<1>4. Cloned
  BY <1>3 DEF PoolInv, CloneOK
<1>5. PICK c, n, p : /\ c = cur /\ n = cur + 1 /\ p = query[q].pool /\ p # c /\ p # n
                     /\ c \in Pools /\ n \in Pools /\ p \in Pools
  <2>1. query[q].pool # cur
    BY <1>1, <1>3, <1>4 DEF Cloned, Queried, Store
  <2>2. query[q].pool # cur + 1
    BY <1>1, <1>2, QueryTyped, Ranges DEF PoolInv, Places, ControlOK
  <2>3. cur + 1 \in Pools
    BY <1>2, <1>3, NextPool DEF PoolInv
  <2>4. QED
    BY <1>2, <2>1, <2>2, <2>3, QueryTyped DEF ControlOK
<1>6. Store(p) = p
  BY <1>3 DEF Store
<1>7. /\ cacheIP'[c] = cacheIP[c] /\ cacheIP'[n] = cacheIP[n]
      /\ cacheHost'[c] = cacheHost[c] /\ cacheHost'[n] = cacheHost[n]
  BY <1>2, <1>5, <1>6 DEF LookupGet, LookupPutIP, DelByIP, CachesOK
<1>8. PICK g : query' = [query EXCEPT ![q] = g] /\ g.pool = query[q].pool
  BY <1>2 DEF LookupGet, LookupPutIP, ControlOK, QueryType
<1>9. Store(query[q].pool) # c
  BY <1>5, <1>6
<1>10. Queried(c)' = {}
  <2>1. Queried(c)' = Queried(c)
    BY <1>1, <1>2, <1>8, <1>9, Elsewhere
  <2>2. QED
    BY <1>4, <1>5, <2>1 DEF Cloned
<1>11. Queried(cur)' = {}
  BY <1>1, <1>5, <1>10 DEF Queried
<1>12. QED
  BY <1>1, <1>4, <1>5, <1>7, <1>11 DEF Cloned

LEMMA FlushClone ==
    ASSUME PoolInv, FlushHost \/ FlushOffset
    PROVE  CloneOK'
<1>1. flush.pc # "none" /\ UNCHANGED <<kind, cur, reload, suspect>>
  BY DEF FlushHost, FlushOffset
<1>2. ~(~persistent /\ reload \in {"cloning", "cloned"} /\ cur + 1 \notin suspect)
  BY <1>1 DEF PoolInv, CloneOK, Cloned
<1>3. QED
  BY <1>1, <1>2, StoreStays DEF CloneOK

LEMMA CloneIPClone ==
    ASSUME PoolInv, CloneIP
    PROVE  CloneOK'
<1>1. SUFFICES ASSUME ~persistent, cur + 1 \notin suspect' PROVE Cloned'
  BY StoreStays DEF CloneOK, CloneIP
<1>2. PICK c, n : c = cur /\ n = cur + 1 /\ c \in Pools /\ n \in Pools /\ n # c
  BY TypeParts, NextPool, Ranges DEF PoolInv, ControlOK, CloneIP
<1>3. /\ UNCHANGED <<kind, cur, query, flush>> /\ reload' = "cloning"
      /\ cacheIP' = [cacheIP EXCEPT ![n] = cacheIP[c]]
  BY <1>1, <1>2 DEF CloneIP
<1>4. cur \notin suspect /\ Queried(cur) = {} /\ flush.pc = "none" /\ suspect' = suspect
  BY <1>1 DEF CloneIP
<1>5. cacheIP'[n] = cacheIP'[c]
  BY <1>2, <1>3, TypeParts DEF PoolInv, CachesOK
<1>6. Queried(cur)' = {}
  BY <1>3, <1>4 DEF Queried, Store, persistent
<1>7. QED
  BY <1>2, <1>3, <1>4, <1>5, <1>6 DEF Cloned

LEMMA CloneHostClone ==
    ASSUME PoolInv, CloneHost
    PROVE  CloneOK'
<1>1. SUFFICES ASSUME ~persistent, cur + 1 \notin suspect PROVE Cloned'
  BY StoreStays DEF CloneOK, CloneHost
<1>2. PICK c, n : c = cur /\ n = cur + 1 /\ c \in Pools /\ n \in Pools /\ n # c
  BY TypeParts, NextPool, Ranges DEF PoolInv, ControlOK, CloneHost
<1>3. /\ UNCHANGED <<kind, cur, query, flush, suspect, cacheIP>> /\ reload = "cloning"
      /\ cacheHost' = [cacheHost EXCEPT ![n] = cacheHost[c]]
  BY <1>1, <1>2 DEF CloneHost
<1>4. Cloned
  BY <1>1, <1>3 DEF PoolInv, CloneOK
<1>5. cacheHost'[n] = cacheHost'[c]
  BY <1>2, <1>3, TypeParts DEF PoolInv, CachesOK
<1>6. Queried(cur)' = {}
  BY <1>3, <1>4 DEF Cloned, Queried, Store, persistent
<1>7. QED
  BY <1>2, <1>3, <1>4, <1>5, <1>6 DEF Cloned

-----------------------------------------------------------------------------
(* The invariant holds, and so does Mirrored *)

LEMMA InitPool == ASSUME Init PROVE PoolInv
<1>1. TypeOK /\ Places
  BY InitOK
<1>2. OneToOne(<<>>) /\ Mirror(<<>>) = <<>>
  BY DEF OneToOne, Mirror
<1>3. cacheIP[1] = <<>> /\ cacheHost[1] = <<>> /\ Store(cur) = 1 /\ Store(flush.pool) = 1
  BY Ranges DEF Init, Store, NoFlush
<1>4. Queried(1) = {} /\ ~Busy(1)
  BY IdleTyped DEF Init, Queried, Busy, NoFlush
<1>5. CurrentOK
  BY <1>2, <1>3, <1>4 DEF CurrentOK, Current, Matching
<1>6. CloneOK
  BY DEF Init, CloneOK
<1>7. QED
  BY <1>1, <1>5, <1>6 DEF PoolInv

LEMMA PoolStep ==
    ASSUME PoolInv, [Next]_vars
    PROVE  PoolInv'
<1>1. TypeOK' /\ Places'
  BY TypeStep DEF PoolInv
<1>2. CASE UNCHANGED vars
  <2>1. CurrentOK'
    BY <1>2, UntouchedCurrent DEF vars
  <2>2. CloneOK'
    BY <1>2 DEF vars, PoolInv, CloneOK, Cloned, Queried, Store, persistent
  <2>3. QED
    BY <1>1, <2>1, <2>2 DEF PoolInv
<1>3. ASSUME NEW q \in Queries, NEW h \in Hosts, Lookup(q, h) PROVE CurrentOK' /\ CloneOK'
  BY <1>3, LookupCurrent, OperationClone DEF Lookup
<1>4. ASSUME NEW q \in Queries, LookupGet(q) PROVE CurrentOK' /\ CloneOK'
  BY <1>4, LookupGetCurrent, UnderWayClone
<1>5. ASSUME NEW q \in Queries, LookupPutIP(q) PROVE CurrentOK' /\ CloneOK'
  BY <1>5, LookupPutIPCurrent, UnderWayClone
<1>6. ASSUME NEW q \in Queries, LookupPutHost(q) PROVE CurrentOK' /\ CloneOK'
  BY <1>6, LookupPutHostCurrent, OperationClone DEF LookupPutHost
<1>7. ASSUME NEW ip \in (First - 1)..Last, LookBack(ip) PROVE CurrentOK' /\ CloneOK'
  BY <1>7, LookBackCurrent, OperationClone DEF LookBack
<1>8. ASSUME FlushBegin PROVE CurrentOK' /\ CloneOK'
  BY <1>8, FlushBeginCurrent, OperationClone DEF FlushBegin
<1>9. ASSUME FlushHost \/ FlushOffset PROVE CurrentOK' /\ CloneOK'
  BY <1>9, FlushHostCurrent, FlushOffsetCurrent, FlushClone
<1>10. ASSUME ReloadParse \/ ReloadFails \/ Publish \/ Kill PROVE CurrentOK' /\ CloneOK'
  <2>1. CurrentOK'
    BY <1>10, ReloadParseCurrent, CloneCurrent, PublishCurrent, KillCurrent
  <2>2. CloneOK'
    BY <1>10 DEF ReloadParse, ReloadFails, Publish, Kill, CloneOK
  <2>3. QED
    BY <2>1, <2>2
<1>11. ASSUME CloneIP \/ CloneHost PROVE CurrentOK' /\ CloneOK'
  BY <1>11, CloneCurrent, CloneIPClone, CloneHostClone
<1>12. QED
  BY <1>1, <1>2, <1>3, <1>4, <1>5, <1>6, <1>7, <1>8, <1>9, <1>10, <1>11 DEF Next, PoolInv

\* What the current store and the copy of it hold at every stage of a lookup, a flush and a
\* reload.
THEOREM PoolInvariant == Spec => []PoolInv
<1>1. Init => PoolInv
  BY InitPool
<1>2. PoolInv /\ [Next]_vars => PoolInv'
  BY PoolStep
<1>3. QED
  BY <1>1, <1>2, PTL DEF Spec

\* Between operations the two caches of the memory store list the same pairs in the same
\* order, whatever lookups, flushes, reloads and restarts came before, unless an unlocked
\* step overlapped an operation.
THEOREM CachesMirror == Spec => []Mirrored
<1>1. PoolInv => Mirrored
  BY DEF PoolInv, CurrentOK, Mirrored, Quiet, Current, Matching, Busy
<1>2. QED
  BY <1>1, PoolInvariant, PTL

-----------------------------------------------------------------------------
(* The pool implements the table of FakeIpMap *)

\* The refinement mapping.
TheMap == IF Queried(Store(cur)) # {} THEN saved ELSE Pairs(cacheIP[Store(cur)])
Valid == Store(cur) \notin suspect

TableStep == Table!Next \/ UNCHANGED Table!absVars

LEMMA AnOverlap == ASSUME ~Valid' PROVE TableStep
  BY DEF TableStep, Table!Next, Table!Overlap, Valid

LEMMA AStutter ==
    ASSUME TheMap' = TheMap, Valid' <=> Valid, answer' = answer
    PROVE  TableStep
  BY DEF TableStep, Table!absVars, TheMap, Valid

LEMMA AForget ==
    ASSUME Valid', answer' = <<NoHost, 0>>, Valid => TheMap' \subseteq TheMap,
           ~Valid => TheMap' = {}
    PROVE  TableStep
  BY DEF TableStep, Table!Next, Table!Forget, TheMap, Valid

LEMMA AKnownLookup ==
    ASSUME NEW h \in Hosts, NEW a, Valid, Valid', TheMap' = TheMap, <<h, a>> \in TheMap,
           answer' = <<h, a>>
    PROVE  TableStep
<1>1. h \in {e[1] : e \in TheMap}
  OBVIOUS
<1>2. answer'[1] = h
  OBVIOUS
<1>3. Table!Lookup(h)
  BY <1>1, <1>2 DEF Table!Lookup, Table!Known, TheMap, Valid
<1>4. QED
  BY <1>3 DEF TableStep, Table!Next

\* gone is what is forgotten.
LEMMA ANewLookup ==
    ASSUME NEW h \in Hosts, NEW o \in Addresses, NEW m, m = TheMap, Valid, Valid',
           \A e \in m : e[1] # h, NEW gone \in SUBSET m, \A d, e \in gone : d = e,
           (\E e \in m : e[2] = o) => gone = {e \in m : e[2] = o},
           TheMap' = (m \ gone) \cup {<<h, o>>}, answer' = <<h, o>>
    PROVE  TableStep
<1>1. PICK n : n = TheMap' /\ n = (m \ gone) \cup {<<h, o>>} /\ answer' \in n /\ answer'[1] = h
  OBVIOUS
<1>2. h \notin {e[1] : e \in m}
  OBVIOUS
<1>3. {e[1] : e \in {x \in m : x[2] = o}} # {} =>
        {e[1] : e \in gone} = {e[1] : e \in {x \in m : x[2] = o}}
  OBVIOUS
<1>4. \E ip \in Addresses, g \in SUBSET m :
        /\ \A d, e \in g : d = e
        /\ {e[1] : e \in {x \in m : x[2] = ip}} # {} =>
              {e[1] : e \in g} = {e[1] : e \in {x \in m : x[2] = ip}}
        /\ n = (m \ g) \cup {<<h, ip>>}
  BY <1>1, <1>3
<1>5. Table!Lookup(h)
  BY <1>1, <1>2, <1>4 DEF Table!Lookup, Table!Known, Table!Owners, TheMap, Valid
<1>6. QED
  BY <1>5 DEF TableStep, Table!Next

LEMMA ALookBack ==
    ASSUME NEW h, NEW ip, Valid, Valid', TheMap' = TheMap, answer' = <<h, ip>>,
           \/ h = NoHost /\ \A e \in TheMap : e[2] # ip
           \/ <<h, ip>> \in TheMap
    PROVE  TableStep
<1>1. PICK m : m = TheMap
  OBVIOUS
<1>2. answer'[1] = h /\ answer'[2] = ip
  OBVIOUS
<1>3. PICK owners : owners = {e[1] : e \in {x \in m : x[2] = ip}}
  OBVIOUS
<1>4. h \in IF owners = {} THEN {NoHost} ELSE owners
  <2>1. CASE h = NoHost /\ \A e \in m : e[2] # ip
    BY <1>3, <2>1
  <2>2. CASE <<h, ip>> \in m
    <3>1. h \in owners
      BY <1>3, <2>2
    <3>2. QED
      BY <3>1
  <2>3. QED
    BY <1>1, <2>1, <2>2
<1>5. Table!LookBack
  BY <1>1, <1>2, <1>3, <1>4 DEF Table!LookBack, Table!Owners, TheMap, Valid
<1>6. QED
  BY <1>5 DEF TableStep, Table!Next

\* The table of a store that is current before and after a step.
LEMMA MapOf ==
    ASSUME NEW s, s = Store(cur), s = Store(cur)'
    PROVE  /\ Queried(s) # {} => TheMap = saved
           /\ Queried(s) = {} => TheMap = Pairs(cacheIP[s])
           /\ Queried(s)' # {} => TheMap' = saved'
           /\ Queried(s)' = {} => TheMap' = Pairs(cacheIP'[s])
           /\ (Valid <=> s \notin suspect) /\ (Valid' <=> s \notin suspect')
<1>1. Queried(Store(cur))' = Queried(s)'
  BY DEF Queried
<1>2. QED
  BY <1>1 DEF TheMap, Valid

LEMMA LookupRefines ==
    ASSUME PoolInv, NEW q \in Queries, NEW h \in Hosts, Lookup(q, h)
    PROVE  TableStep
<1>1. PICK s : s = Store(cur) /\ s = Store(cur)'
  BY StoreStays DEF Lookup
<1>2. SUFFICES ASSUME s \notin suspect' PROVE TableStep
  BY <1>1, AnOverlap, MapOf
<1>3. suspect' = suspect \cup Overlapped(cur, Queried(s)) /\ kind' = kind
  BY <1>1 DEF Lookup
<1>4. Queried(s) = {} /\ Matching(s) /\ s \in Pools /\ s \notin suspect /\ CachesOK /\ ControlOK
  BY <1>1, <1>2, <1>3, Alone, TypeParts DEF PoolInv
<1>5. Valid /\ Valid' /\ TheMap = Pairs(cacheIP[s])
  BY <1>1, <1>2, <1>4, MapOf
<1>6. CASE h \in Keys(cacheIP[s])
  <2>1. GetByHost(s, h) /\ query' = query /\ answer' = <<h, Value(cacheIP[s], h)>>
    BY <1>1, <1>6 DEF Lookup
  <2>2. Pairs(cacheIP'[s]) = Pairs(cacheIP[s])
    BY <1>4, <1>6, <2>1, GetByHostMatches
  <2>3. Queried(s)' = {}
    BY <1>3, <1>4, <2>1, QueriedStays
  <2>4. TheMap' = TheMap
    BY <1>1, <1>5, <2>2, <2>3, MapOf
  <2>5. <<h, Value(cacheIP[s], h)>> \in Pairs(cacheIP[s])
    BY <1>4, <1>6, CachesTyped, ValueOf DEF HostPair
  <2>6. PICK a : answer' = <<h, a>> /\ <<h, a>> \in TheMap
    BY <1>5, <2>1, <2>5
  <2>7. QED
    BY <1>5, <2>4, <2>6, AKnownLookup
<1>7. CASE h \notin Keys(cacheIP[s])
  <2>1. PICK g : g = [pc |-> "get", pool |-> cur, host |-> h]
    OBVIOUS
  <2>2. g.pc = "get" /\ g.pool = cur
    BY <2>1
  <2>3. query' = [query EXCEPT ![q] = g] /\ saved' = Pairs(cacheIP[s]) /\ answer' = answer
    BY <1>1, <1>7, <2>1 DEF Lookup
  <2>4. Queried(s)' = {q}
    BY <1>1, <1>3, <1>4, <2>2, <2>3, QueriedBegins
  <2>5. TheMap' = TheMap
    BY <1>1, <1>5, <2>3, <2>4, MapOf
  <2>6. QED
    BY <1>5, <2>3, <2>5, AStutter
<1>8. QED
  BY <1>6, <1>7

LEMMA UnderWayRefines ==
    ASSUME PoolInv, NEW q \in Queries, LookupGet(q) \/ LookupPutIP(q)
    PROVE  TableStep
<1>1. PICK s : s = Store(cur) /\ s = Store(cur)' /\ s \in Pools
  BY StoreStays, StoreIn, TypeParts DEF LookupGet, LookupPutIP, PoolInv, ControlOK
<1>2. CachesOK /\ ControlOK
  BY TypeParts DEF PoolInv
<1>3. /\ UNCHANGED <<kind, suspect, saved, answer>> /\ query[q].pc # "idle"
  BY DEF LookupGet, LookupPutIP
<1>4. PICK g : query' = [query EXCEPT ![q] = g] /\ g.pool = query[q].pool /\ g.pc # "idle"
  BY <1>2 DEF LookupGet, LookupPutIP, ControlOK, QueryType
<1>5. CASE Store(query[q].pool) = s
  <2>1. Queried(s)' = Queried(s) /\ q \in Queried(s)
    BY <1>2, <1>3, <1>4, <1>5, QueriedGoesOn
  <2>2. TheMap' = TheMap /\ (Valid' <=> Valid)
    BY <1>1, <1>3, <2>1, MapOf
  <2>3. QED
    BY <1>3, <2>2, AStutter
<1>6. CASE Store(query[q].pool) # s
  <2>1. Queried(s)' = Queried(s)
    BY <1>2, <1>3, <1>4, <1>6, Elsewhere
  <2>2. cacheIP'[s] = cacheIP[s]
    BY <1>1, <1>2, <1>6 DEF LookupGet, LookupPutIP, DelByIP, CachesOK
  <2>3. TheMap' = TheMap /\ (Valid' <=> Valid)
    BY <1>1, <1>3, <2>1, <2>2, MapOf
  <2>4. QED
    BY <1>3, <2>3, AStutter
<1>7. QED
  BY <1>5, <1>6

\* What the new pair of h and o takes the place of in the cache x.
MakesWay(x, h, o) ==
    \E gone \in SUBSET saved :
        /\ \A d, e \in gone : d = e
        /\ (\E e \in saved : e[2] = o) => gone = {e \in saved : e[2] = o}
        /\ Pairs(x) = (saved \ gone) \cup {<<h, o>>}

LEMMA Forgotten ==
    ASSUME CachesOK, NEW s \in Pools, NEW q \in Queries, Looking(q, s), query[q].pc = "putHost",
           NEW h, NEW o, h = query[q].host, o = offset[query[q].pool], h \in Hosts
    PROVE  MakesWay(Set(cacheIP[s], h, o), h, o)
<1>1. PICK c \in Seq(HostPair) : c = cacheIP[s]
  BY CachesTyped
<1>2. /\ OneToOne(c) /\ h \notin Keys(c) /\ o \in Addresses /\ Pairs(c) = {e \in saved : e[2] # o}
      /\ \A d, e \in saved : d[2] = e[2] => d = e
      /\ ~persistent /\ (\E e \in saved : e[2] = o) => Len(c) < kind
  BY <1>1 DEF Looking
<1>3. \A i \in DOMAIN c : c[i][2] # o
  BY <1>2 DEF Pairs
<1>4. o \in Offsets /\ (persistent \/ kind \in Nat \ {0}) /\ kind \in Nat
  BY <1>2, Ranges, Kinds
<1>5. Pairs(Set(c, h, o)) = (Pairs(c) \ Evicted(c)) \cup {<<h, o>>}
  BY <1>2, <1>3, <1>4, SetMirror
<1>6. CASE \E e \in saved : e[2] = o
  <2>1. Evicted(c) = {}
    BY <1>2, <1>4, <1>6 DEF Evicted
  <2>2. PICK gone : gone = {e \in saved : e[2] = o}
    OBVIOUS
  <2>3. gone \in SUBSET saved /\ \A d, e \in gone : d = e
    BY <1>2, <2>2
  <2>4. Pairs(Set(c, h, o)) = (saved \ gone) \cup {<<h, o>>}
    BY <1>2, <1>5, <2>1, <2>2
  <2>5. QED
    BY <1>1, <2>2, <2>3, <2>4 DEF MakesWay
<1>7. CASE ~\E e \in saved : e[2] = o
  <2>1. Pairs(c) = saved
    BY <1>2, <1>7
  <2>2. Evicted(c) \in SUBSET saved /\ \A d, e \in Evicted(c) : d = e
    <3>1. ~persistent /\ Len(c) + 1 > kind => 1 \in DOMAIN c
      BY <1>4
    <3>2. QED
      BY <2>1, <3>1 DEF Evicted, Pairs
  <2>3. QED
    BY <1>1, <1>5, <1>7, <2>1, <2>2 DEF MakesWay
<1>8. QED
  BY <1>6, <1>7

LEMMA LookupPutHostRefines ==
    ASSUME PoolInv, NEW q \in Queries, LookupPutHost(q)
    PROVE  TableStep
<1>1. PICK s : s = Store(cur) /\ s = Store(cur)' /\ s \in Pools
  BY StoreStays, StoreIn, TypeParts DEF LookupPutHost, PoolInv, ControlOK
<1>2. SUFFICES ASSUME s \notin suspect' PROVE TableStep
  BY <1>1, AnOverlap, MapOf
<1>3. CachesOK /\ ControlOK
  BY TypeParts DEF PoolInv
<1>4. PICK p, o, h : p = query[q].pool /\ o = offset[p] /\ h = query[q].host
  OBVIOUS
<1>5. /\ query[q].pc = "putHost" /\ query' = [query EXCEPT ![q] = Idle]
      /\ kind' = kind /\ saved' = saved /\ answer' = <<h, o>>
      /\ suspect' = suspect \cup Overlapped(p, Queried(Store(p)) \ {q})
      /\ cacheIP' = [cacheIP EXCEPT ![Store(p)] = Set(cacheIP[Store(p)], h, o)]
  BY <1>4 DEF LookupPutHost
<1>6. s \notin suspect /\ h \in Hosts /\ Current(s)
  BY <1>1, <1>2, <1>4, <1>5 DEF PoolInv, Places, CurrentOK
<1>7. Store(p) = s
  <2>1. CASE persistent
    BY <1>1, <2>1 DEF Store
  <2>2. CASE ~persistent
    <3>1. Store(p) = p /\ s = cur
      BY <1>1, <2>2 DEF Store
    <3>2. p # cur => cur \in suspect'
      BY <1>3, <1>5, <2>2, OverlapReplaced DEF ControlOK
    <3>3. QED
      BY <1>2, <3>1, <3>2
  <2>3. QED
    BY <2>1, <2>2
<1>8. q \in Queried(s)
  BY <1>4, <1>5, <1>7 DEF Queried
<1>9. Looking(q, s) /\ Queried(s) = {q}
  BY <1>6, <1>8, OnlyQuery
<1>10. Queried(s)' = {}
  BY <1>3, <1>5, <1>9, IdleTyped, QueriedEnds
<1>11. cacheIP'[s] = Set(cacheIP[s], h, o)
  BY <1>1, <1>3, <1>5, <1>7 DEF CachesOK
<1>12. Valid /\ Valid' /\ TheMap = saved /\ TheMap' = Pairs(Set(cacheIP[s], h, o))
  BY <1>1, <1>2, <1>6, <1>9, <1>10, <1>11, MapOf
<1>13. PICK gone \in SUBSET saved :
         /\ \A d, e \in gone : d = e
         /\ (\E e \in saved : e[2] = o) => gone = {e \in saved : e[2] = o}
         /\ Pairs(Set(cacheIP[s], h, o)) = (saved \ gone) \cup {<<h, o>>}
  <2>1. h = query[q].host /\ o = offset[query[q].pool]
    BY <1>4
  <2>2. MakesWay(Set(cacheIP[s], h, o), h, o)
    BY <1>1, <1>3, <1>5, <1>6, <1>9, <2>1, Forgotten
  <2>3. QED
    BY <2>2 DEF MakesWay
<1>14. o \in Addresses /\ \A e \in saved : e[1] # h
  BY <1>4, <1>5, <1>9 DEF Looking
<1>15. PICK m : m = TheMap /\ m = saved
  BY <1>12
<1>16. TheMap' = (m \ gone) \cup {<<h, o>>}
  BY <1>12, <1>13, <1>15
<1>17. QED
  BY <1>5, <1>6, <1>12, <1>13, <1>14, <1>15, <1>16, ANewLookup

LEMMA LookBackRefines ==
    ASSUME PoolInv, NEW ip, LookBack(ip)
    PROVE  TableStep
<1>1. PICK s : s = Store(cur) /\ s = Store(cur)'
  BY StoreStays DEF LookBack
<1>2. SUFFICES ASSUME s \notin suspect' PROVE TableStep
  BY <1>1, AnOverlap, MapOf
<1>3. /\ suspect' = suspect \cup Overlapped(cur, Queried(s))
      /\ kind' = kind /\ query' = query /\ GetByIP(s, ip)
  BY <1>1 DEF LookBack
<1>4. Queried(s) = {} /\ Matching(s) /\ s \in Pools /\ s \notin suspect /\ CachesOK
  BY <1>1, <1>2, <1>3, Alone, TypeParts DEF PoolInv
<1>5. Queried(s)' = {} /\ Pairs(cacheIP'[s]) = Pairs(cacheIP[s])
  BY <1>3, <1>4, QueriedStays, GetByIPMatches
<1>6. Valid /\ Valid' /\ TheMap = Pairs(cacheIP[s]) /\ TheMap' = TheMap
  BY <1>1, <1>2, <1>4, <1>5, MapOf
<1>7. PICK c \in Seq(HostPair) : c = cacheIP[s] /\ cacheHost[s] = Mirror(c) /\ OneToOne(c)
  BY <1>4, CachesTyped DEF Matching
<1>8. PICK h : /\ answer' = <<h, ip>>
               /\ h = (IF ip \in Keys(Mirror(c)) THEN Value(Mirror(c), ip) ELSE NoHost)
  BY <1>1, <1>7 DEF LookBack
<1>9. CASE ip \in Keys(Mirror(c))
  <2>1. PICK i \in DOMAIN c : c[i][2] = ip
    BY <1>7, <1>9, MirrorKeys
  <2>2. PICK k : k = c[i][1] /\ k \in Keys(c) /\ Value(c, k) = ip
    BY <1>7, <2>1, PlaceIs
  <2>3. h = k
    BY <1>7, <1>8, <1>9, <2>2, MirrorPlace
  <2>4. <<h, ip>> \in Pairs(c)
    <3>1. c[i] \in Hosts \X Offsets
      BY <1>7 DEF HostPair
    <3>2. c[i] = <<k, ip>>
      BY <2>1, <2>2, <3>1
    <3>3. QED
      BY <2>3, <3>2 DEF Pairs
  <2>5. QED
    BY <1>6, <1>7, <1>8, <2>4, ALookBack
<1>10. CASE ip \notin Keys(Mirror(c))
  <2>1. h = NoHost /\ \A e \in Pairs(c) : e[2] # ip
    BY <1>7, <1>8, <1>10, MirrorKeys DEF Pairs
  <2>2. QED
    BY <1>6, <1>7, <1>8, <2>1, ALookBack
<1>11. QED
  BY <1>9, <1>10

LEMMA NoPairs == Pairs(<<>>) = {}
  BY DEF Pairs

LEMMA FlushBeginRefines ==
    ASSUME PoolInv, FlushBegin
    PROVE  TableStep
<1>1. PICK s : s = Store(cur) /\ s = Store(cur)' /\ s \in Pools
  BY StoreStays, StoreIn, TypeParts DEF FlushBegin, PoolInv, ControlOK
<1>2. SUFFICES ASSUME s \notin suspect' PROVE TableStep
  BY <1>1, AnOverlap, MapOf
<1>3. Queried(s) = {}
  BY <1>1, <1>2, OverlapFree DEF FlushBegin
<1>4. Queried(s)' = {}
  BY <1>3, QueriedStays DEF FlushBegin
<1>5. cacheIP'[s] = <<>> /\ answer' = <<NoHost, 0>>
  BY <1>1, TypeParts DEF FlushBegin, CachesOK, PoolInv
<1>6. Valid' /\ TheMap' = {}
  BY <1>1, <1>2, <1>4, <1>5, MapOf, NoPairs
<1>7. QED
  BY <1>5, <1>6, AForget

\* A step that leaves the current store, its lookup and the answer alone.
LEMMA UntouchedRefines ==
    ASSUME PoolInv, UNCHANGED <<kind, cur, query, saved, answer>>,
           \A s : s = Store(cur) => cacheIP'[s] = cacheIP[s] /\ (s \in suspect' <=> s \in suspect)
    PROVE  TableStep
<1>1. PICK s : s = Store(cur) /\ s = Store(cur)'
  BY StoreStays
<1>2. Queried(s)' = Queried(s)
  BY QueriedStays
<1>3. cacheIP'[s] = cacheIP[s] /\ (s \in suspect' <=> s \in suspect)
  BY <1>1
<1>4. TheMap' = TheMap /\ (Valid' <=> Valid)
  BY <1>1, <1>2, <1>3, MapOf
<1>5. QED
  BY <1>4, AStutter

LEMMA ReloadParseRefines ==
    ASSUME PoolInv, ReloadParse
    PROVE  TableStep
<1>1. CASE ~Restores
  BY <1>1, UntouchedRefines DEF ReloadParse
<1>2. CASE Restores
  <2>1. PICK s : s = 1 /\ s = Store(cur) /\ s = Store(cur)' /\ s \in Pools
    BY <1>2, Ranges DEF Restores, ReloadParse, Store, persistent
  <2>2. SUFFICES ASSUME s \notin suspect' PROVE TableStep
    BY <2>1, AnOverlap, MapOf
  <2>3. Queried(s) = {}
    <3>1. Store(cur) \in Pools /\ Store(cur) \notin Overlapped(cur, Queried(1))
      BY <1>2, <2>1, <2>2 DEF ReloadParse
    <3>2. QED
      BY <2>1, <3>1, OverlapFree
  <2>4. Queried(s)' = {}
    BY <2>3, QueriedStays DEF ReloadParse
  <2>5. cacheIP'[s] = <<>> /\ answer' = <<NoHost, 0>>
    BY <1>2, <2>1, TypeParts DEF ReloadParse, PoolInv, CachesOK
  <2>6. Valid' /\ TheMap' = {}
    BY <2>1, <2>2, <2>4, <2>5, MapOf, NoPairs
  <2>7. QED
    BY <2>5, <2>6, AForget
<1>3. QED
  BY <1>1, <1>2

LEMMA CloneRefines ==
    ASSUME PoolInv, CloneIP \/ CloneHost
    PROVE  TableStep
<1>1. UNCHANGED <<kind, cur, query, saved, answer>>
  BY DEF CloneIP, CloneHost
<1>2. CachesOK /\ ControlOK
  BY TypeParts DEF PoolInv
<1>3. ASSUME NEW s, s = Store(cur)
      PROVE  cacheIP'[s] = cacheIP[s] /\ (s \in suspect' <=> s \in suspect)
  <2>1. CASE UNCHANGED <<cacheIP, suspect>>
    BY <2>1
  <2>2. CASE ~persistent
    <3>1. s = cur /\ s \in Pools /\ s # cur + 1
      BY <1>2, <1>3, <2>2, Ranges DEF Store, ControlOK
    <3>2. QED
      BY <1>2, <3>1 DEF CloneIP, CloneHost, CachesOK
  <2>3. QED
    BY <2>1, <2>2 DEF CloneIP, CloneHost
<1>4. QED
  BY <1>1, <1>3, UntouchedRefines

LEMMA PublishRefines ==
    ASSUME PoolInv, Publish
    PROVE  TableStep
<1>1. /\ UNCHANGED <<kind, query, saved, suspect, cacheIP, answer>>
      /\ cur' = cur + 1 /\ reload = "cloned"
  BY DEF Publish
<1>2. CASE persistent
  <2>1. PICK s : s = Store(cur) /\ s = Store(cur)'
    BY <1>1, <1>2 DEF Store, persistent
  <2>2. Queried(s)' = Queried(s)
    BY <1>1, QueriedStays
  <2>3. TheMap' = TheMap /\ (Valid' <=> Valid)
    BY <1>1, <2>1, <2>2, MapOf
  <2>4. QED
    BY <1>1, <2>3, AStutter
<1>3. CASE ~persistent
  <2>1. Store(cur) = cur /\ Store(cur)' = cur + 1
    BY <1>1, <1>3 DEF Store, persistent
  <2>2. CASE cur + 1 \in suspect
    <3>1. ~Valid'
      BY <1>1, <2>1, <2>2 DEF Valid
    <3>2. QED
      BY <3>1, AnOverlap
  <2>3. CASE cur + 1 \notin suspect
    <3>1. Cloned
      BY <1>1, <1>3, <2>3 DEF PoolInv, CloneOK
    <3>2. Valid /\ Valid'
      BY <1>1, <2>1, <2>3, <3>1 DEF Valid, Cloned
    <3>3. TheMap = Pairs(cacheIP[cur])
      BY <2>1, <3>1 DEF TheMap, Cloned
    <3>4. PICK n : n = cur + 1 /\ n = Store(cur)'
      BY <2>1
    <3>5. \A q \in Queries : query[q].pc # "idle" => query[q].pool # n
      <4>1. ControlOK
        BY TypeParts DEF PoolInv
      <4>2. QED
        BY <3>4, <4>1, QueryTyped, Ranges DEF PoolInv, Places, ControlOK
    <3>6. Queried(n) = {}
      BY <1>3, <3>5 DEF Queried, Store
    <3>7. Queried(n)' = {}
      BY <1>1, <3>6, QueriedStays
    <3>8. Queried(Store(cur))' = {}
      BY <3>4, <3>7 DEF Queried
    <3>9. TheMap' = Pairs(cacheIP[n])
      BY <1>1, <3>4, <3>8 DEF TheMap
    <3>10. TheMap' = TheMap
      BY <3>1, <3>3, <3>4, <3>9 DEF Cloned
    <3>11. QED
      BY <1>1, <3>2, <3>10, AStutter
  <2>4. QED
    BY <2>2, <2>3
<1>4. QED
  BY <1>2, <1>3

LEMMA KillRefines ==
    ASSUME PoolInv, Kill
    PROVE  TableStep
<1>1. /\ kind' = kind /\ cur' = 1 /\ query' = [q \in Queries |-> Idle] /\ answer' = <<NoHost, 0>>
  BY DEF Kill
<1>2. Store(cur)' = 1 /\ 1 \in Pools
  BY <1>1, Ranges DEF Store
<1>3. Queried(Store(cur))' = {}
  BY <1>1, IdleTyped DEF Queried
<1>4. TheMap' = Pairs(cacheIP'[1]) /\ (Valid' <=> 1 \notin suspect')
  BY <1>2, <1>3 DEF TheMap, Valid
<1>5. CASE persistent /\ ~Restores
  <2>1. Store(cur) = 1
    BY <1>5 DEF Store
  <2>2. SUFFICES ASSUME 1 \notin suspect' PROVE TableStep
    BY <1>4, AnOverlap
  <2>3. 1 \notin suspect /\ Queried(1) = {} /\ cacheIP' = cacheIP
    BY <1>5, <2>2 DEF Kill
  <2>4. Valid /\ TheMap = Pairs(cacheIP[1])
    BY <2>1, <2>3 DEF Valid, TheMap
  <2>5. TheMap' = TheMap /\ Valid'
    BY <1>4, <2>2, <2>3, <2>4
  <2>6. QED
    BY <1>1, <2>4, <2>5, AForget
<1>6. CASE ~(persistent /\ ~Restores)
  <2>1. cacheIP'[1] = <<>> /\ 1 \notin suspect'
    BY <1>2, <1>6 DEF Kill
  <2>2. TheMap' = {} /\ Valid'
    BY <1>4, <2>1, NoPairs
  <2>3. QED
    BY <1>1, <2>2, AForget
<1>7. QED
  BY <1>5, <1>6

\* Every step of the pool is a step of the table or leaves it alone.
LEMMA NextRefines ==
    ASSUME PoolInv, [Next]_vars
    PROVE  [Table!Next]_(Table!absVars)
<1>1. CASE UNCHANGED vars
  BY <1>1, UntouchedRefines DEF vars, TableStep
<1>2. ASSUME NEW q \in Queries, NEW h \in Hosts, Lookup(q, h) PROVE TableStep
  BY <1>2, LookupRefines
<1>3. ASSUME NEW q \in Queries, LookupGet(q) \/ LookupPutIP(q) PROVE TableStep
  BY <1>3, UnderWayRefines
<1>4. ASSUME NEW q \in Queries, LookupPutHost(q) PROVE TableStep
  BY <1>4, LookupPutHostRefines
<1>5. ASSUME NEW ip \in (First - 1)..Last, LookBack(ip) PROVE TableStep
  BY <1>5, LookBackRefines
<1>6. ASSUME FlushBegin \/ ReloadParse \/ CloneIP \/ CloneHost \/ Publish \/ Kill PROVE TableStep
  BY <1>6, FlushBeginRefines, ReloadParseRefines, CloneRefines, PublishRefines, KillRefines
<1>7. ASSUME FlushHost \/ FlushOffset \/ ReloadFails PROVE TableStep
  BY <1>7, UntouchedRefines DEF FlushHost, FlushOffset, ReloadFails
<1>8. CASE Next
  <2>1. TableStep
    BY <1>2, <1>3, <1>4, <1>5, <1>6, <1>7, <1>8 DEF Next
  <2>2. QED
    BY <2>1 DEF TableStep
<1>9. QED
  BY <1>1, <1>8

LEMMA InitRefines == ASSUME Init PROVE Table!Init
<1>1. Store(cur) = 1 /\ cacheIP[1] = <<>>
  BY Ranges DEF Init, Store
<1>2. Queried(1) = {}
  BY IdleTyped DEF Init, Queried
<1>3. QED
  BY <1>1, <1>2, NoPairs DEF Init, Table!Init

\* The pool with its ring, its two caches or its bucket, and lookups of several steps is the
\* one to one table of hosts and addresses that FakeIpMap describes: every lookup, look-back,
\* flush, reload and restart is one step of that table, or an overlap it admits.
THEOREM PoolImplementsTable == Spec => PoolIsTable
<1>1. Init => Table!Init
  BY InitRefines
<1>2. PoolInv /\ [Next]_vars => [Table!Next]_(Table!absVars)
  BY NextRefines
<1>3. QED
  BY <1>1, <1>2, PoolInvariant, PTL DEF Spec, PoolIsTable, Table!Spec

=============================================================================
