--------------------------- MODULE UdpNat_proofs ---------------------------
(***************************************************************************)
(* Proofs about UdpNat, for any number of packets and any capacities: the  *)
(* types, that the table's entry is the one living session, that the       *)
(* buffer of every packet has one owner and is released once, that packets *)
(* keep their order, and that replies find the address they answer.        *)
(***************************************************************************)
EXTENDS UdpNat, TLAPS

-----------------------------------------------------------------------------
(* The inductive invariant *)

\* A session takes a packet from the queue: there are never more sessions than packets.
Counted == made + Len(queue) <= arrived

\* A session that has not been made is as Init left it.
Unmade ==
    \A s \in Sessions : s > made =>
        /\ session[s].closing = "open" /\ session[s].conn = "none"
        /\ session[s].proc = "end" /\ session[s].ch = <<>> /\ session[s].packet = None

\* The worker holds a packet exactly while it sends, and to a session that was made.
WorkerHolds ==
    /\ worker.pc = "idle" => worker.packet = None
    /\ worker.pc # "idle" => worker.packet \in Packets /\ worker.sender \in 1..made

\* Process holds a packet exactly while it handles one, and nothing ends a session that is
\* being dialled.
ProcessHolds ==
    \A s \in Sessions :
        /\ session[s].packet # None <=> session[s].proc \in {"packet", "write"}
        /\ session[s].proc = "dial" =>
              session[s].closing = "open" /\ session[s].conn = "none" /\ session[s].first \in Packets

NatInv == TypeOK /\ Counted /\ Unmade /\ WorkerHolds /\ ProcessHolds /\ nat \in 0..made /\ EntryIsOwn

-----------------------------------------------------------------------------
(* Sequences *)

Distinct(q) == \A i, j \in DOMAIN q : q[i] = q[j] => i = j

\* What Append does to the members of a sequence.
LEMMA Appended ==
    ASSUME NEW S, NEW q \in Seq(S), NEW x \in S
    PROVE  /\ Append(q, x) \in Seq(S) /\ Len(Append(q, x)) = Len(q) + 1
           /\ \A p : Within(Append(q, x), p) <=> Within(q, p) \/ p = x
           /\ Distinct(q) /\ ~Within(q, x) => Distinct(Append(q, x))
<1>1. Append(q, x) \in Seq(S) /\ Len(Append(q, x)) = Len(q) + 1 /\ Len(q) \in Nat
  OBVIOUS
<1>2. DOMAIN q = 1..Len(q) /\ DOMAIN Append(q, x) = 1..(Len(q) + 1)
  OBVIOUS
<1>3. /\ \A i \in 1..Len(q) : Append(q, x)[i] = q[i]
      /\ Append(q, x)[Len(q) + 1] = x
  OBVIOUS
<1>4. ASSUME NEW p PROVE Within(Append(q, x), p) <=> Within(q, p) \/ p = x
  <2>1. ASSUME Within(Append(q, x), p) PROVE Within(q, p) \/ p = x
    BY <2>1, <1>1, <1>2, <1>3 DEF Within
  <2>2. ASSUME Within(q, p) PROVE Within(Append(q, x), p)
    <3>1. PICK i \in 1..Len(q) : q[i] = p
      BY <2>2, <1>2 DEF Within
    <3>2. i \in 1..(Len(q) + 1) /\ Append(q, x)[i] = p
      BY <3>1, <1>1, <1>3
    <3>3. QED
      BY <3>2, <1>2 DEF Within
  <2>3. Within(Append(q, x), x)
    BY <1>1, <1>2, <1>3 DEF Within
  <2>4. QED
    BY <2>1, <2>2, <2>3
<1>5. ASSUME Distinct(q), ~Within(q, x) PROVE Distinct(Append(q, x))
  <2>1. \A i \in 1..Len(q) : q[i] # x
    BY <1>5, <1>2 DEF Within
  <2>2. \A i, j \in 1..Len(q) : q[i] = q[j] => i = j
    BY <1>5, <1>2 DEF Distinct
  <2>3. \A i, j \in 1..(Len(q) + 1) : Append(q, x)[i] = Append(q, x)[j] => i = j
    BY <2>1, <2>2, <1>1, <1>3
  <2>4. QED
    BY <2>3, <1>2 DEF Distinct
<1>6. QED
  BY <1>1, <1>4, <1>5

\* What taking the first packet of a queue or channel leaves.
LEMMA Taken ==
    ASSUME NEW S, NEW q \in Seq(S), q # <<>>
    PROVE  /\ Head(q) \in S /\ Tail(q) \in Seq(S) /\ Len(Tail(q)) = Len(q) - 1 /\ Len(q) > 0
           /\ Within(q, Head(q))
           /\ \A p : Within(Tail(q), p) => Within(q, p)
           /\ \A p : Within(q, p) => Within(Tail(q), p) \/ p = Head(q)
           /\ Distinct(q) => Distinct(Tail(q)) /\ ~Within(Tail(q), Head(q))
<1>1. /\ Head(q) \in S /\ Tail(q) \in Seq(S) /\ Len(Tail(q)) = Len(q) - 1
      /\ Len(q) \in Nat /\ Len(q) > 0
  OBVIOUS
<1>2. DOMAIN q = 1..Len(q) /\ DOMAIN Tail(q) = 1..(Len(q) - 1)
  BY <1>1
<1>3. Head(q) = q[1] /\ \A i \in 1..(Len(q) - 1) : Tail(q)[i] = q[i + 1]
  BY <1>1
<1>4. Within(q, Head(q))
  BY <1>1, <1>2, <1>3 DEF Within
<1>5. ASSUME NEW p, Within(Tail(q), p) PROVE Within(q, p)
  <2>1. PICK i \in 1..(Len(q) - 1) : Tail(q)[i] = p
    BY <1>5, <1>2 DEF Within
  <2>2. i + 1 \in 1..Len(q) /\ q[i + 1] = p
    BY <2>1, <1>1, <1>3
  <2>3. QED
    BY <2>2, <1>2 DEF Within
<1>6. ASSUME NEW p, Within(q, p) PROVE Within(Tail(q), p) \/ p = Head(q)
  <2>1. PICK i \in 1..Len(q) : q[i] = p
    BY <1>6, <1>2 DEF Within
  <2>2. CASE i = 1
    BY <2>1, <2>2, <1>3
  <2>3. CASE i # 1
    <3>1. i - 1 \in 1..(Len(q) - 1) /\ Tail(q)[i - 1] = p
      BY <2>1, <2>3, <1>1, <1>3
    <3>2. QED
      BY <3>1, <1>2 DEF Within
  <2>4. QED
    BY <2>2, <2>3
<1>7. ASSUME Distinct(q) PROVE Distinct(Tail(q)) /\ ~Within(Tail(q), Head(q))
  <2>1. \A i, j \in 1..Len(q) : q[i] = q[j] => i = j
    BY <1>7, <1>2 DEF Distinct
  <2>2. \A i, j \in 1..(Len(q) - 1) : Tail(q)[i] = Tail(q)[j] => i = j
    BY <2>1, <1>1, <1>3
  <2>3. \A i \in 1..(Len(q) - 1) : Tail(q)[i] # Head(q)
    BY <2>1, <1>1, <1>3
  <2>4. QED
    BY <2>2, <2>3, <1>2 DEF Distinct, Within
<1>8. QED
  BY <1>1, <1>4, <1>5, <1>6, <1>7

-----------------------------------------------------------------------------
(* NatInv is inductive *)

\* Init leaves nothing but idle sessions.
LEMMA InitNatInv == Init => NatInv
<1> SUFFICES ASSUME Init PROVE NatInv
  OBVIOUS
<1>1. NewSession(None) \in SessionType
  BY DEF NewSession, SessionType
<1>2. [NewSession(None) EXCEPT !.proc = "end"] \in SessionType
  BY <1>1 DEF SessionType
<1>3. \A s \in Sessions :
        /\ session[s] \in SessionType /\ session[s].ch = <<>> /\ session[s].packet = None
        /\ session[s].proc = "end" /\ session[s].closing = "open" /\ session[s].conn = "none"
  BY <1>2 DEF Init, NewSession
<1>4. TypeOK
  <2>1. queue \in Seq(Packets) /\ Len(queue) <= QueueCapacity
    BY NatAssumption DEF Init
  <2>2. session \in [Sessions -> SessionType]
    BY <1>2 DEF Init
  <2>3. \A s \in Sessions : Len(session[s].ch) <= SenderCapacity
    BY <1>3, NatAssumption
  <2>4. worker \in [pc : {"idle", "send", "put"}, packet : Packets \cup {None},
                    sender : Sessions \cup {None}]
    BY DEF Init, Idle
  <2>5. arrived \in 0..MaxPackets /\ made \in 0..MaxPackets /\ nat \in Sessions \cup {None}
    BY NatAssumption DEF Init
  <2>6. /\ dest \in [Packets -> Origins \cup {Invalid}]
        /\ released \in [Packets -> Nat]
        /\ sent \in Seq([packet : Packets, session : Sessions, target : Targets \cup {Invalid}])
    BY DEF Init
  <2>7. QED
    BY <2>1, <2>2, <2>3, <2>4, <2>5, <2>6 DEF TypeOK
<1>5. Counted /\ WorkerHolds /\ nat \in 0..made
  BY DEF Init, Counted, WorkerHolds, Idle, None
<1>6. Unmade /\ ProcessHolds
  BY <1>3 DEF Unmade, ProcessHolds
<1>7. EntryIsOwn
  BY DEF Init, EntryIsOwn
<1>8. QED
  BY <1>4, <1>5, <1>6, <1>7 DEF NatInv

\* The part of NatInv that is about the sessions.
SessionsOk ==
    /\ session \in [Sessions -> SessionType]
    /\ \A s \in Sessions : Len(session[s].ch) <= SenderCapacity
    /\ Unmade /\ ProcessHolds /\ EntryIsOwn

\* A step of a session that was made, up to the deletion of its entry.
LEMMA SessionStep ==
    ASSUME NatInv, NEW s \in 1..made, NEW r \in SessionType,
           session' = [session EXCEPT ![s] = r],
           Len(r.ch) <= SenderCapacity,
           r.packet # None <=> r.proc \in {"packet", "write"},
           r.proc = "dial" => r.closing = "open" /\ r.conn = "none" /\ r.first \in Packets,
           r.closing = "gone" <=> session[s].closing = "gone",
           made' = made, nat' = nat
    PROVE  SessionsOk'
<1>1. s \in Sessions /\ made \in Nat /\ Sessions \subseteq Nat /\ ~(s > made)
  BY NatAssumption DEF NatInv, TypeOK, Sessions
<1>2. session \in [Sessions -> SessionType]
  BY DEF NatInv, TypeOK
<1>3. session' \in [Sessions -> SessionType] /\ session'[s] = r
      /\ \A t \in Sessions : t # s => session'[t] = session[t]
  BY <1>1, <1>2
<1>4. \A t \in Sessions : Len(session'[t].ch) <= SenderCapacity
  BY <1>3 DEF NatInv, TypeOK
<1>5. Unmade'
  BY <1>1, <1>3 DEF NatInv, Unmade
<1>6. ProcessHolds'
  BY <1>3 DEF NatInv, ProcessHolds
<1>7. EntryIsOwn'
  <2>1. ASSUME NEW t \in 1..made PROVE t \in Sessions
    BY NatAssumption DEF NatInv, TypeOK, Sessions
  <2>2. QED
    BY <1>3, <2>1 DEF NatInv, EntryIsOwn
<1>8. QED
  BY <1>3, <1>4, <1>5, <1>6, <1>7 DEF SessionsOk

\* Steps that leave the sessions alone.
LEMMA SessionsKept ==
    ASSUME NatInv, UNCHANGED <<session, made, nat>>
    PROVE  SessionsOk'
BY DEF NatInv, SessionsOk, TypeOK, Unmade, ProcessHolds, EntryIsOwn

\* Dropping a packet keeps the counters numbers.
LEMMA DropTypes ==
    ASSUME TypeOK, NEW p \in Packets, Drop(p)
    PROVE  released' \in [Packets -> Nat]
BY DEF TypeOK, Drop

\* A packet arrives.
LEMMA HandleUDPPacketInv ==
    ASSUME NatInv, NEW o \in Origins, HandleUDPPacket(o)
    PROVE  NatInv'
<1>1. /\ arrived \in 0..MaxPackets /\ arrived < MaxPackets /\ arrived' = arrived + 1
      /\ MaxPackets \in Nat
  BY NatAssumption DEF NatInv, TypeOK, HandleUDPPacket
<1>2. arrived' \in Packets /\ arrived' \in 0..MaxPackets
  BY <1>1 DEF Packets
<1>3. dest' \in [Packets -> Origins \cup {Invalid}]
  BY DEF NatInv, TypeOK, HandleUDPPacket
<1>4. UNCHANGED <<worker, nat, session, made, sent>>
  BY DEF HandleUDPPacket
<1>5. SessionsOk'
  BY <1>4, SessionsKept
<1>6. queue \in Seq(Packets) /\ made \in Nat
  BY NatAssumption DEF NatInv, TypeOK
<1>7. /\ queue' \in Seq(Packets) /\ Len(queue') <= QueueCapacity
      /\ released' \in [Packets -> Nat]
      /\ Counted'
  <2>1. CASE Len(queue) < QueueCapacity
    <3>1. queue' = Append(queue, arrived') /\ released' = released
      BY <2>1 DEF HandleUDPPacket
    <3>2. queue' \in Seq(Packets) /\ Len(queue') = Len(queue) + 1 /\ Len(queue) \in Nat
      BY <3>1, <1>2, <1>6, Appended
    <3>3. QED
      BY <2>1, <3>1, <3>2, <1>1, <1>4, <1>6, NatAssumption DEF NatInv, TypeOK, Counted
  <2>2. CASE ~(Len(queue) < QueueCapacity)
    <3>1. queue' = queue /\ Drop(arrived')
      BY <2>2 DEF HandleUDPPacket
    <3>2. released' \in [Packets -> Nat]
      BY <3>1, <1>2, DropTypes DEF NatInv
    <3>3. Len(queue) \in Nat
      BY <1>6
    <3>4. QED
      BY <3>1, <3>2, <3>3, <1>1, <1>4, <1>6 DEF NatInv, TypeOK, Counted
  <2>3. QED
    BY <2>1, <2>2
<1>8. WorkerHolds' /\ nat' \in 0..made'
  BY <1>4 DEF NatInv, WorkerHolds
<1>9. TypeOK'
  BY <1>2, <1>3, <1>4, <1>5, <1>7 DEF NatInv, TypeOK, SessionsOk
<1>10. QED
  BY <1>5, <1>7, <1>8, <1>9 DEF NatInv, SessionsOk

\* Steps of the worker that take no packet from the queue and make no session.
LEMMA SendInv ==
    ASSUME NatInv, SessionsOk', UNCHANGED <<queue, dest, nat, arrived, made, sent>>,
           worker' \in [pc : {"idle", "send", "put"}, packet : Packets \cup {None},
                        sender : Sessions \cup {None}],
           WorkerHolds', released' \in [Packets -> Nat]
    PROVE  NatInv'
<1>1. TypeOK'
  BY DEF NatInv, TypeOK, SessionsOk
<1>2. Counted' /\ nat' \in 0..made'
  BY DEF NatInv, Counted
<1>3. QED
  BY <1>1, <1>2 DEF NatInv, SessionsOk

\* Steps of a session that leave queue, worker and table alone.
LEMMA SessionInv ==
    ASSUME NatInv, SessionsOk', UNCHANGED <<queue, worker, dest, nat, arrived, made>>,
           released' \in [Packets -> Nat],
           sent' \in Seq([packet : Packets, session : Sessions, target : Targets \cup {Invalid}])
    PROVE  NatInv'
<1>1. TypeOK'
  BY DEF NatInv, TypeOK, SessionsOk
<1>2. Counted' /\ WorkerHolds' /\ nat' \in 0..made'
  BY DEF NatInv, Counted, WorkerHolds
<1>3. QED
  BY <1>1, <1>2 DEF NatInv, SessionsOk

\* A packet may not be handled.
LEMMA RefuseInv ==
    ASSUME NatInv, Refuse
    PROVE  NatInv'
<1>1. UNCHANGED <<worker, dest, nat, session, arrived, made, sent>>
  BY DEF Refuse
<1>2. queue \in Seq(Packets) /\ queue # <<>> /\ queue' = Tail(queue) /\ Drop(Head(queue))
  BY DEF Refuse, NatInv, TypeOK
<1>3. /\ Head(queue) \in Packets /\ queue' \in Seq(Packets) /\ Len(queue') = Len(queue) - 1
      /\ Len(queue) \in Nat
  BY <1>2, Taken
<1>4. released' \in [Packets -> Nat]
  BY <1>2, <1>3, DropTypes DEF NatInv
<1>5. SessionsOk'
  BY <1>1, SessionsKept
<1>6. Counted' /\ Len(queue') <= QueueCapacity
  BY <1>1, <1>3, NatAssumption DEF NatInv, TypeOK, Counted
<1>7. WorkerHolds' /\ nat' \in 0..made'
  BY <1>1 DEF NatInv, WorkerHolds
<1>8. TypeOK'
  BY <1>1, <1>3, <1>4, <1>5, <1>6 DEF NatInv, TypeOK, SessionsOk
<1>9. QED
  BY <1>5, <1>6, <1>7, <1>8 DEF NatInv, SessionsOk

\* The worker finds the session of the table or makes one.
LEMMA GetOrCreateInv ==
    ASSUME NatInv, GetOrCreate
    PROVE  NatInv'
<1>1. UNCHANGED <<dest, arrived, released, sent>>
  BY DEF GetOrCreate
<1>2. queue \in Seq(Packets) /\ queue # <<>> /\ queue' = Tail(queue)
  BY DEF GetOrCreate, NatInv, TypeOK
<1>3. /\ Head(queue) \in Packets /\ queue' \in Seq(Packets) /\ Len(queue') = Len(queue) - 1
      /\ Len(queue) \in Nat /\ Len(queue) > 0
  BY <1>2, Taken
<1>4. /\ made \in Nat /\ arrived \in Nat /\ arrived <= MaxPackets /\ MaxPackets \in Nat
      /\ made + Len(queue) <= arrived /\ nat \in 0..made
  BY NatAssumption DEF NatInv, TypeOK, Counted
<1>5. worker' = [pc |-> "send", packet |-> Head(queue), sender |-> nat']
  BY DEF GetOrCreate
<1>6. session \in [Sessions -> SessionType]
  BY DEF NatInv, TypeOK
<1>7. /\ made' \in 0..MaxPackets /\ nat' \in 1..made' /\ Counted' /\ SessionsOk'
  <2>1. CASE nat = None
    <3>1. made' = made + 1 /\ nat' = made'
          /\ session' = [session EXCEPT ![made'] = NewSession(Head(queue))]
      BY <2>1 DEF GetOrCreate
    <3>2. made' \in 1..MaxPackets /\ nat' \in 1..made' /\ Counted' /\ made' \in Sessions
      BY <3>1, <1>1, <1>3, <1>4 DEF Counted, Sessions
    <3>3. NewSession(Head(queue)) \in SessionType
      BY <1>3 DEF NewSession, SessionType, Packets
    <3>4. /\ session' \in [Sessions -> SessionType]
          /\ session'[made'] = NewSession(Head(queue))
          /\ \A t \in Sessions : t # made' => session'[t] = session[t]
      BY <3>1, <3>2, <3>3, <1>6
    <3>5. /\ session'[made'].ch = <<>> /\ session'[made'].closing = "open"
          /\ session'[made'].proc = "dial" /\ session'[made'].packet = None
          /\ session'[made'].conn = "none" /\ session'[made'].first = Head(queue)
      BY <3>4 DEF NewSession
    <3>6. \A t \in Sessions : Len(session'[t].ch) <= SenderCapacity
      BY <3>4, <3>5, NatAssumption DEF NatInv, TypeOK
    <3>7. Unmade'
      BY <3>1, <3>4, <1>4 DEF NatInv, Unmade, Sessions
    <3>8. ProcessHolds'
      BY <3>4, <3>5, <1>3 DEF NatInv, ProcessHolds
    <3>9. EntryIsOwn'
      <4>1. \A t \in 1..made : t \in Sessions /\ t # made' /\ session[t].closing = "gone"
        BY <2>1, <3>1, <1>4 DEF NatInv, EntryIsOwn, Sessions, None
      <4>2. \A t \in 1..made' : t = made' \/ t \in 1..made
        BY <3>1, <1>4
      <4>3. QED
        BY <4>1, <4>2, <3>1, <3>4, <3>5 DEF EntryIsOwn
    <3>10. QED
      BY <3>2, <3>4, <3>6, <3>7, <3>8, <3>9 DEF SessionsOk
  <2>2. CASE nat # None
    <3>1. UNCHANGED <<made, nat, session>>
      BY <2>2 DEF GetOrCreate
    <3>2. SessionsOk'
      BY <3>1, SessionsKept
    <3>3. made' \in 0..MaxPackets /\ nat' \in 1..made' /\ Counted'
      BY <2>2, <3>1, <1>1, <1>3, <1>4 DEF Counted, None
    <3>4. QED
      BY <3>2, <3>3
  <2>3. QED
    BY <2>1, <2>2
<1>8. nat' \in Sessions
  BY <1>7, <1>4 DEF Sessions
<1>9. worker' \in [pc : {"idle", "send", "put"}, packet : Packets \cup {None},
                   sender : Sessions \cup {None}]
  BY <1>3, <1>5, <1>8
<1>10. WorkerHolds'
  BY <1>3, <1>5, <1>7 DEF WorkerHolds
<1>11. Len(queue') <= QueueCapacity
  BY <1>3, NatAssumption DEF NatInv, TypeOK
<1>12. TypeOK'
  BY <1>1, <1>3, <1>7, <1>8, <1>9, <1>11 DEF NatInv, TypeOK, SessionsOk
<1>13. QED
  BY <1>7, <1>10, <1>12 DEF NatInv, SessionsOk

\* The first select of Send.
LEMMA SendCheckInv ==
    ASSUME NatInv, SendCheck
    PROVE  NatInv'
<1>1. UNCHANGED <<queue, dest, nat, session, arrived, made, sent>> /\ worker.pc = "send"
  BY DEF SendCheck
<1>2. worker.packet \in Packets /\ worker.sender \in 1..made
  BY <1>1 DEF NatInv, WorkerHolds
<1>3. SessionsOk'
  BY <1>1, SessionsKept
<1>4. CASE Closed(worker.sender)
  <2>1. worker' = Idle /\ Drop(worker.packet)
    BY <1>4 DEF SendCheck
  <2>2. released' \in [Packets -> Nat]
    BY <2>1, <1>2, DropTypes DEF NatInv
  <2>3. WorkerHolds' /\ worker' \in [pc : {"idle", "send", "put"}, packet : Packets \cup {None},
                                     sender : Sessions \cup {None}]
    BY <2>1 DEF WorkerHolds, Idle
  <2>4. QED
    BY <1>1, <1>3, <2>2, <2>3, SendInv
<1>5. CASE ~Closed(worker.sender)
  <2>1. worker' = [worker EXCEPT !.pc = "put"] /\ released' = released
    BY <1>5 DEF SendCheck
  <2>2. WorkerHolds' /\ worker' \in [pc : {"idle", "send", "put"}, packet : Packets \cup {None},
                                     sender : Sessions \cup {None}]
    BY <2>1, <1>1, <1>2 DEF WorkerHolds, NatInv, TypeOK
  <2>3. released' \in [Packets -> Nat]
    BY <2>1 DEF NatInv, TypeOK
  <2>4. QED
    BY <1>1, <1>3, <2>2, <2>3, SendInv
<1>6. QED
  BY <1>4, <1>5

\* The record of a made session after an update of some of its fields.
LEMMA MadeSession ==
    ASSUME NatInv, NEW s \in Sessions,
           \/ session[s].closing # "open" \/ session[s].conn # "none"
           \/ session[s].proc # "end" \/ session[s].ch # <<>>
    PROVE  s \in 1..made /\ session[s] \in SessionType
<1>1. ~(s > made)
  BY DEF NatInv, Unmade
<1>2. s \in Nat /\ s >= 1 /\ made \in Nat
  BY NatAssumption DEF Sessions, NatInv, TypeOK
<1>3. QED
  BY <1>1, <1>2 DEF NatInv, TypeOK

\* The second select of Send.
LEMMA SendPutInv ==
    ASSUME NatInv, SendPut
    PROVE  NatInv'
<1> DEFINE s == worker.sender
<1>1. /\ UNCHANGED <<queue, dest, nat, arrived, made, sent>>
      /\ worker.pc = "put" /\ worker' = Idle
  BY DEF SendPut
<1>2. worker.packet \in Packets /\ s \in 1..made
  BY <1>1 DEF NatInv, WorkerHolds
<1>3. WorkerHolds' /\ worker' \in [pc : {"idle", "send", "put"}, packet : Packets \cup {None},
                                   sender : Sessions \cup {None}]
  BY <1>1 DEF WorkerHolds, Idle
<1>4. s \in Sessions /\ session[s] \in SessionType
  BY <1>2, NatAssumption DEF NatInv, TypeOK, Sessions
<1>5. CASE Len(session[s].ch) < SenderCapacity
           /\ session' = [session EXCEPT ![s].ch = Append(@, worker.packet)] /\ released' = released
  <2> DEFINE r == [session[s] EXCEPT !.ch = Append(session[s].ch, worker.packet)]
  <2>1. session' = [session EXCEPT ![s] = r]
    BY <1>5
  <2>2. session[s].ch \in Seq(Packets)
    BY <1>4 DEF SessionType
  <2>3. Append(session[s].ch, worker.packet) \in Seq(Packets)
        /\ Len(Append(session[s].ch, worker.packet)) = Len(session[s].ch) + 1
        /\ Len(session[s].ch) \in Nat
    BY <2>2, <1>2, Appended
  <2>4. r \in SessionType
    BY <1>4, <2>3 DEF SessionType
  <2>5. /\ r.ch = Append(session[s].ch, worker.packet) /\ r.packet = session[s].packet
        /\ r.proc = session[s].proc /\ r.closing = session[s].closing /\ r.conn = session[s].conn
        /\ r.first = session[s].first
    BY <1>4 DEF SessionType
  <2>6. Len(r.ch) <= SenderCapacity
    BY <2>3, <2>5, <1>5, NatAssumption
  <2>7. /\ r.packet # None <=> r.proc \in {"packet", "write"}
        /\ r.proc = "dial" => r.closing = "open" /\ r.conn = "none" /\ r.first \in Packets
    BY <2>5, <1>4 DEF NatInv, ProcessHolds
  <2> HIDE DEF r
  <2>8. SessionsOk'
    BY <1>1, <1>2, <2>1, <2>4, <2>5, <2>6, <2>7, SessionStep
  <2>9. released' \in [Packets -> Nat]
    BY <1>5 DEF NatInv, TypeOK
  <2>10. QED
    BY <1>1, <1>3, <2>8, <2>9, SendInv
<1>6. CASE Drop(worker.packet) /\ session' = session
  <2>1. released' \in [Packets -> Nat]
    BY <1>2, <1>6, DropTypes DEF NatInv
  <2>2. SessionsOk'
    BY <1>1, <1>6, SessionsKept
  <2>3. QED
    BY <1>1, <1>3, <2>1, <2>2, SendInv
<1>7. QED
  BY <1>5, <1>6 DEF SendPut

\* A dial fails: the session ends.
LEMMA DialFailInv ==
    ASSUME NatInv, NEW s \in Sessions, DialFail(s)
    PROVE  NatInv'
<1> DEFINE r == [session[s] EXCEPT !.proc = "end", !.closing = "cancelled"]
<1>1. UNCHANGED <<queue, worker, dest, nat, arrived, made, released, sent>>
  BY DEF DialFail
<1>2. s \in 1..made /\ session[s] \in SessionType
  BY MadeSession DEF DialFail
<1>3. session' = [session EXCEPT ![s] = r]
  BY DEF DialFail
<1>4. r \in SessionType
  BY <1>2 DEF SessionType
<1>5. /\ r.ch = session[s].ch /\ r.packet = session[s].packet /\ r.first = session[s].first
      /\ r.proc = "end" /\ r.closing = "cancelled" /\ r.conn = session[s].conn
  BY <1>2 DEF SessionType
<1>6. Len(r.ch) <= SenderCapacity
  BY <1>5 DEF NatInv, TypeOK
<1>7. /\ r.packet # None <=> r.proc \in {"packet", "write"}
      /\ r.proc = "dial" => r.closing = "open" /\ r.conn = "none" /\ r.first \in Packets
  BY <1>5 DEF NatInv, ProcessHolds, DialFail
<1>8. r.closing = "gone" <=> session[s].closing = "gone"
  BY <1>5 DEF NatInv, ProcessHolds, DialFail
<1> HIDE DEF r
<1>9. SessionsOk'
  BY <1>1, <1>2, <1>3, <1>4, <1>6, <1>7, <1>8, SessionStep
<1>10. QED
  BY <1>1, <1>9, SessionInv DEF NatInv, TypeOK

\* Process sees that the context is done.
LEMMA ProcessReturnsInv ==
    ASSUME NatInv, NEW s \in Sessions, ProcessReturns(s)
    PROVE  NatInv'
<1> DEFINE r == [session[s] EXCEPT !.proc = "end"]
<1>1. UNCHANGED <<queue, worker, dest, nat, arrived, made, released, sent>>
  BY DEF ProcessReturns
<1>2. s \in 1..made /\ session[s] \in SessionType
  BY MadeSession DEF ProcessReturns, Closed
<1>3. session' = [session EXCEPT ![s] = r]
  BY DEF ProcessReturns
<1>4. r \in SessionType
  BY <1>2 DEF SessionType
<1>5. /\ r.ch = session[s].ch /\ r.packet = session[s].packet /\ r.first = session[s].first
      /\ r.proc = "end" /\ r.closing = session[s].closing /\ r.conn = session[s].conn
  BY <1>2 DEF SessionType
<1>6. Len(r.ch) <= SenderCapacity
  BY <1>5 DEF NatInv, TypeOK
<1>7. /\ r.packet # None <=> r.proc \in {"packet", "write"}
      /\ r.proc = "dial" => r.closing = "open" /\ r.conn = "none" /\ r.first \in Packets
  BY <1>5 DEF NatInv, ProcessHolds, ProcessReturns
<1>8. r.closing = "gone" <=> session[s].closing = "gone"
  BY <1>5 DEF NatInv, ProcessHolds, ProcessReturns
<1> HIDE DEF r
<1>9. SessionsOk'
  BY <1>1, <1>2, <1>3, <1>4, <1>6, <1>7, <1>8, SessionStep
<1>10. QED
  BY <1>1, <1>9, SessionInv DEF NatInv, TypeOK

\* The reader ends and cancels the sender.
LEMMA ReadEndsInv ==
    ASSUME NatInv, NEW s \in Sessions, ReadEnds(s)
    PROVE  NatInv'
<1> DEFINE r == [session[s] EXCEPT !.closing = "cancelled"]
<1>1. UNCHANGED <<queue, worker, dest, nat, arrived, made, released, sent>>
  BY DEF ReadEnds
<1>2. s \in 1..made /\ session[s] \in SessionType
  BY MadeSession DEF ReadEnds
<1>3. session' = [session EXCEPT ![s] = r]
  BY DEF ReadEnds
<1>4. r \in SessionType
  BY <1>2 DEF SessionType
<1>5. /\ r.ch = session[s].ch /\ r.packet = session[s].packet /\ r.first = session[s].first
      /\ r.proc = session[s].proc /\ r.closing = "cancelled" /\ r.conn = session[s].conn
  BY <1>2 DEF SessionType
<1>6. Len(r.ch) <= SenderCapacity
  BY <1>5 DEF NatInv, TypeOK
<1>7. /\ r.packet # None <=> r.proc \in {"packet", "write"}
      /\ r.proc = "dial" => r.closing = "open" /\ r.conn = "none" /\ r.first \in Packets
  BY <1>5 DEF NatInv, ProcessHolds, ReadEnds
<1>8. r.closing = "gone" <=> session[s].closing = "gone"
  BY <1>5 DEF NatInv, ProcessHolds, ReadEnds
<1> HIDE DEF r
<1>9. SessionsOk'
  BY <1>1, <1>2, <1>3, <1>4, <1>6, <1>7, <1>8, SessionStep
<1>10. QED
  BY <1>1, <1>9, SessionInv DEF NatInv, TypeOK

\* The channel is empty.
LEMMA DropAllEndsInv ==
    ASSUME NatInv, NEW s \in Sessions, DropAllEnds(s)
    PROVE  NatInv'
<1> DEFINE r == [session[s] EXCEPT !.closing = "drained"]
<1>1. UNCHANGED <<queue, worker, dest, nat, arrived, made, released, sent>>
  BY DEF DropAllEnds
<1>2. s \in 1..made /\ session[s] \in SessionType
  BY MadeSession DEF DropAllEnds
<1>3. session' = [session EXCEPT ![s] = r]
  BY DEF DropAllEnds
<1>4. r \in SessionType
  BY <1>2 DEF SessionType
<1>5. /\ r.ch = session[s].ch /\ r.packet = session[s].packet /\ r.first = session[s].first
      /\ r.proc = session[s].proc /\ r.closing = "drained" /\ r.conn = session[s].conn
  BY <1>2 DEF SessionType
<1>6. Len(r.ch) <= SenderCapacity
  BY <1>5 DEF NatInv, TypeOK
<1>7. /\ r.packet # None <=> r.proc \in {"packet", "write"}
      /\ r.proc = "dial" => r.closing = "open" /\ r.conn = "none" /\ r.first \in Packets
  BY <1>5 DEF NatInv, ProcessHolds, DropAllEnds
<1>8. r.closing = "gone" <=> session[s].closing = "gone"
  BY <1>5 DEF NatInv, ProcessHolds, DropAllEnds
<1> HIDE DEF r
<1>9. SessionsOk'
  BY <1>1, <1>2, <1>3, <1>4, <1>6, <1>7, <1>8, SessionStep
<1>10. QED
  BY <1>1, <1>9, SessionInv DEF NatInv, TypeOK

\* The connection is closed.
LEMMA CloseConnInv ==
    ASSUME NatInv, NEW s \in Sessions, CloseConn(s)
    PROVE  NatInv'
<1> DEFINE r == [session[s] EXCEPT !.conn = "closed"]
<1>1. UNCHANGED <<queue, worker, dest, nat, arrived, made, released, sent>>
  BY DEF CloseConn
<1>2. s \in 1..made /\ session[s] \in SessionType
  BY MadeSession DEF CloseConn
<1>3. session' = [session EXCEPT ![s] = r]
  BY DEF CloseConn
<1>4. r \in SessionType
  BY <1>2 DEF SessionType
<1>5. /\ r.ch = session[s].ch /\ r.packet = session[s].packet /\ r.first = session[s].first
      /\ r.proc = session[s].proc /\ r.closing = session[s].closing /\ r.conn = "closed"
  BY <1>2 DEF SessionType
<1>6. Len(r.ch) <= SenderCapacity
  BY <1>5 DEF NatInv, TypeOK
<1>7. /\ r.packet # None <=> r.proc \in {"packet", "write"}
      /\ r.proc = "dial" => r.closing = "open" /\ r.conn = "none" /\ r.first \in Packets
  BY <1>5 DEF NatInv, ProcessHolds, CloseConn
<1>8. r.closing = "gone" <=> session[s].closing = "gone"
  BY <1>5 DEF NatInv, ProcessHolds, CloseConn
<1> HIDE DEF r
<1>9. SessionsOk'
  BY <1>1, <1>2, <1>3, <1>4, <1>6, <1>7, <1>8, SessionStep
<1>10. QED
  BY <1>1, <1>9, SessionInv DEF NatInv, TypeOK

\* Process takes a packet from the channel.
LEMMA ReceiveInv ==
    ASSUME NatInv, NEW s \in Sessions, Receive(s)
    PROVE  NatInv'
<1> DEFINE r == [session[s] EXCEPT !.proc = "packet", !.packet = Head(session[s].ch),
                                   !.ch = Tail(session[s].ch)]
<1>1. UNCHANGED <<queue, worker, dest, nat, arrived, made, released, sent>>
  BY DEF Receive
<1>2. s \in 1..made /\ session[s] \in SessionType
  BY MadeSession DEF Receive
<1>3. session' = [session EXCEPT ![s] = r]
  BY DEF Receive
<1>4. session[s].ch \in Seq(Packets) /\ session[s].ch # <<>>
  BY <1>2 DEF Receive, SessionType
<1>5. /\ Head(session[s].ch) \in Packets /\ Tail(session[s].ch) \in Seq(Packets)
      /\ Len(Tail(session[s].ch)) = Len(session[s].ch) - 1 /\ Len(session[s].ch) \in Nat
  BY <1>4, Taken
<1>6. r \in SessionType
  BY <1>2, <1>5 DEF SessionType
<1>7. /\ r.ch = Tail(session[s].ch) /\ r.packet = Head(session[s].ch)
      /\ r.proc = "packet" /\ r.closing = session[s].closing
  BY <1>2 DEF SessionType
<1>8. Len(r.ch) <= SenderCapacity
  BY <1>5, <1>7, NatAssumption DEF NatInv, TypeOK
<1>9. r.packet # None
  BY <1>5, <1>7, NatAssumption DEF Packets, None
<1> HIDE DEF r
<1>10. SessionsOk'
  BY <1>1, <1>2, <1>3, <1>6, <1>7, <1>8, <1>9, SessionStep
<1>11. QED
  BY <1>1, <1>10, SessionInv DEF NatInv, TypeOK

\* The closing goroutine drops a packet of the channel.
LEMMA DropOneInv ==
    ASSUME NatInv, NEW s \in Sessions, DropOne(s)
    PROVE  NatInv'
<1> DEFINE r == [session[s] EXCEPT !.ch = Tail(session[s].ch)]
<1>1. UNCHANGED <<queue, worker, dest, nat, arrived, made, sent>>
  BY DEF DropOne
<1>2. s \in 1..made /\ session[s] \in SessionType
  BY MadeSession DEF DropOne
<1>3. session' = [session EXCEPT ![s] = r] /\ Drop(Head(session[s].ch))
  BY DEF DropOne
<1>4. session[s].ch \in Seq(Packets) /\ session[s].ch # <<>>
  BY <1>2 DEF DropOne, SessionType
<1>5. /\ Head(session[s].ch) \in Packets /\ Tail(session[s].ch) \in Seq(Packets)
      /\ Len(Tail(session[s].ch)) = Len(session[s].ch) - 1 /\ Len(session[s].ch) \in Nat
  BY <1>4, Taken
<1>6. r \in SessionType
  BY <1>2, <1>5 DEF SessionType
<1>7. /\ r.ch = Tail(session[s].ch) /\ r.packet = session[s].packet /\ r.first = session[s].first
      /\ r.proc = session[s].proc /\ r.closing = session[s].closing /\ r.conn = session[s].conn
  BY <1>2 DEF SessionType
<1>8. Len(r.ch) <= SenderCapacity
  BY <1>5, <1>7, NatAssumption DEF NatInv, TypeOK
<1>9. /\ r.packet # None <=> r.proc \in {"packet", "write"}
      /\ r.proc = "dial" => r.closing = "open" /\ r.conn = "none" /\ r.first \in Packets
  BY <1>7 DEF NatInv, ProcessHolds
<1> HIDE DEF r
<1>10. SessionsOk'
  BY <1>1, <1>2, <1>3, <1>6, <1>7, <1>8, <1>9, SessionStep
<1>11. released' \in [Packets -> Nat]
  BY <1>3, <1>5, DropTypes DEF NatInv
<1>12. QED
  BY <1>1, <1>10, <1>11, SessionInv DEF NatInv, TypeOK

\* The address of a packet does not resolve.
LEMMA ResolveFailsInv ==
    ASSUME NatInv, NEW s \in Sessions, ResolveFails(s)
    PROVE  NatInv'
<1> DEFINE r == [session[s] EXCEPT !.proc = "loop", !.packet = None]
<1>1. UNCHANGED <<queue, worker, dest, nat, arrived, made, sent>>
  BY DEF ResolveFails
<1>2. s \in 1..made /\ session[s] \in SessionType
  BY MadeSession DEF ResolveFails
<1>3. session' = [session EXCEPT ![s] = r] /\ Drop(session[s].packet)
  BY DEF ResolveFails
<1>4. session[s].packet \in Packets
  BY <1>2 DEF ResolveFails, NatInv, ProcessHolds, SessionType
<1>5. r \in SessionType
  BY <1>2 DEF SessionType
<1>6. /\ r.ch = session[s].ch /\ r.packet = None
      /\ r.proc = "loop" /\ r.closing = session[s].closing
  BY <1>2 DEF SessionType
<1>7. Len(r.ch) <= SenderCapacity
  BY <1>6 DEF NatInv, TypeOK
<1> HIDE DEF r
<1>8. SessionsOk'
  BY <1>1, <1>2, <1>3, <1>5, <1>6, <1>7, SessionStep
<1>9. released' \in [Packets -> Nat]
  BY <1>3, <1>4, DropTypes DEF NatInv
<1>10. QED
  BY <1>1, <1>8, <1>9, SessionInv DEF NatInv, TypeOK

\* A packet is written to the remote side, or fails to be, and is dropped.
LEMMA WriteInv ==
    ASSUME NatInv, NEW s \in Sessions, Write(s)
    PROVE  NatInv'
<1> DEFINE r == [session[s] EXCEPT !.proc = "loop", !.packet = None, !.addr = Invalid]
           Entry == [packet : Packets, session : Sessions, target : Targets \cup {Invalid}]
<1>1. UNCHANGED <<queue, worker, dest, nat, arrived, made>>
  BY DEF Write
<1>2. s \in 1..made /\ session[s] \in SessionType
  BY MadeSession DEF Write
<1>3. session' = [session EXCEPT ![s] = r] /\ Drop(session[s].packet)
  BY DEF Write
<1>4. session[s].packet \in Packets /\ session[s].addr \in Targets \cup {Invalid}
  BY <1>2 DEF Write, NatInv, ProcessHolds, SessionType
<1>5. r \in SessionType
  BY <1>2 DEF SessionType
<1>6. /\ r.ch = session[s].ch /\ r.packet = None
      /\ r.proc = "loop" /\ r.closing = session[s].closing
  BY <1>2 DEF SessionType
<1>7. Len(r.ch) <= SenderCapacity
  BY <1>6 DEF NatInv, TypeOK
<1>8. sent' \in Seq(Entry)
  <2>1. sent \in Seq(Entry)
    BY DEF NatInv, TypeOK
  <2>2. [packet |-> session[s].packet, session |-> s, target |-> session[s].addr] \in Entry
    BY <1>4
  <2>3. \/ sent' = sent
        \/ sent' = Append(sent, [packet |-> session[s].packet, session |-> s,
                                 target |-> session[s].addr])
    BY DEF Write
  <2> HIDE DEF Entry
  <2>4. QED
    BY <2>1, <2>2, <2>3
<1> HIDE DEF r
<1>9. SessionsOk'
  BY <1>1, <1>2, <1>3, <1>5, <1>6, <1>7, SessionStep
<1>10. released' \in [Packets -> Nat]
  BY <1>3, <1>4, DropTypes DEF NatInv
<1>11. QED
  BY <1>1, <1>8, <1>9, <1>10, SessionInv

\* Adding a mapping touches the two maps of a session only.
LEMMA Mapping ==
    ASSUME NEW r \in SessionType, NEW o \in Origins \cup {Invalid}, NEW t \in Targets \cup {Invalid}
    PROVE  /\ WithMapping(r, o, t) \in SessionType
           /\ WithMapping(r, o, t).ch = r.ch /\ WithMapping(r, o, t).packet = r.packet
           /\ WithMapping(r, o, t).proc = r.proc /\ WithMapping(r, o, t).closing = r.closing
           /\ WithMapping(r, o, t).conn = r.conn
<1> DEFINE to == [r.originToTarget EXCEPT ![o] = IF @ = Invalid THEN t ELSE @]
           from == [u \in Targets |->
                      IF u = t /\ r.targetToOrigin[u] = Invalid THEN o ELSE r.targetToOrigin[u]]
<1>1. WithMapping(r, o, t) = [r EXCEPT !.originToTarget = to, !.targetToOrigin = from]
  BY DEF WithMapping, SessionType
<1>2. to \in [Origins -> Targets \cup {Invalid}]
  BY DEF SessionType
<1>3. from \in [Targets -> Origins \cup {Invalid}]
  BY DEF SessionType
<1> HIDE DEF to, from
<1>4. QED
  BY <1>1, <1>2, <1>3 DEF SessionType

\* The dial succeeds.
LEMMA DialOkInv ==
    ASSUME NatInv, NEW s \in Sessions, DialOk(s)
    PROVE  NatInv'
<1>1. UNCHANGED <<queue, worker, dest, nat, arrived, made, released, sent>>
  BY DEF DialOk
<1>2. s \in 1..made /\ session[s] \in SessionType /\ session[s].proc = "dial"
  BY MadeSession DEF DialOk
<1>3. PICK t \in Targets \cup {Invalid} :
        session' = [session EXCEPT ![s] =
            [WithMapping(session[s], dest[session[s].first], t) EXCEPT !.proc = "loop",
                                                                      !.conn = "open"]]
  BY DEF DialOk
<1> DEFINE m == WithMapping(session[s], dest[session[s].first], t)
           r == [m EXCEPT !.proc = "loop", !.conn = "open"]
<1>4. dest[session[s].first] \in Origins \cup {Invalid}
  <2>1. session[s].first \in Packets
    BY <1>2 DEF NatInv, ProcessHolds
  <2>2. QED
    BY <2>1 DEF NatInv, TypeOK
<1>5. /\ m \in SessionType /\ m.ch = session[s].ch /\ m.packet = session[s].packet
      /\ m.closing = session[s].closing
  BY <1>2, <1>4, Mapping
<1> HIDE DEF m
<1>6. r \in SessionType /\ r.ch = m.ch /\ r.packet = m.packet /\ r.closing = m.closing
      /\ r.proc = "loop"
  BY <1>5 DEF SessionType
<1>7. session' = [session EXCEPT ![s] = r]
  BY <1>3 DEF m
<1>8. Len(r.ch) <= SenderCapacity /\ r.packet = None
  BY <1>2, <1>5, <1>6 DEF NatInv, TypeOK, ProcessHolds
<1> HIDE DEF r
<1>9. SessionsOk'
  BY <1>1, <1>2, <1>5, <1>6, <1>7, <1>8, SessionStep
<1>10. QED
  BY <1>1, <1>9, SessionInv DEF NatInv, TypeOK

\* The target of a packet is known, or resolved and remembered.
LEMMA ResolveInv ==
    ASSUME NatInv, NEW s \in Sessions, Resolve(s), dest[session[s].packet] \in Origins
    PROVE  NatInv'
<1> DEFINE o == dest[session[s].packet]
           known == session[s].originToTarget[o]
<1>1. UNCHANGED <<queue, worker, dest, nat, arrived, made, released, sent>>
  BY DEF Resolve
<1>2. s \in 1..made /\ session[s] \in SessionType /\ session[s].proc = "packet"
  BY MadeSession DEF Resolve
<1>3. PICK m \in SessionType, a \in Targets \cup {Invalid} :
        /\ m.ch = session[s].ch /\ m.packet = session[s].packet /\ m.closing = session[s].closing
        /\ session' = [session EXCEPT ![s] = [m EXCEPT !.proc = "write", !.addr = a]]
  <2>1. CASE known # Invalid
    <3>1. session' = [session EXCEPT ![s].proc = "write", ![s].addr = known]
      BY <2>1 DEF Resolve
    <3>2. known \in Targets \cup {Invalid}
      BY <1>2 DEF SessionType
    <3>3. session' = [session EXCEPT ![s] = [session[s] EXCEPT !.proc = "write", !.addr = known]]
      BY <3>1
    <3>4. QED
      BY <1>2, <3>2, <3>3
  <2>2. CASE known = Invalid
    <3>1. PICK t \in Targets :
            session' = [session EXCEPT ![s] =
                [WithMapping(session[s], dest[session[s].packet], t) EXCEPT !.proc = "write",
                                                                           !.addr = t]]
      BY <2>2 DEF Resolve
    <3> DEFINE m == WithMapping(session[s], dest[session[s].packet], t)
    <3>2. /\ m \in SessionType /\ m.ch = session[s].ch /\ m.packet = session[s].packet
          /\ m.closing = session[s].closing
      BY <1>2, Mapping
    <3>3. session' = [session EXCEPT ![s] = [m EXCEPT !.proc = "write", !.addr = t]]
      BY <3>1
    <3> HIDE DEF m
    <3>4. QED
      BY <3>2, <3>3
  <2>3. QED
    BY <2>1, <2>2
<1> DEFINE r == [m EXCEPT !.proc = "write", !.addr = a]
<1>4. /\ r \in SessionType /\ r.ch = session[s].ch /\ r.packet = session[s].packet
      /\ r.closing = session[s].closing /\ r.proc = "write"
  BY <1>3 DEF SessionType
<1>5. session' = [session EXCEPT ![s] = r]
  BY <1>3
<1> HIDE DEF r
<1>6. Len(r.ch) <= SenderCapacity /\ r.packet # None
  <2>1. Len(session[s].ch) <= SenderCapacity /\ session[s].packet # None
    BY <1>2 DEF NatInv, TypeOK, ProcessHolds
  <2>2. QED
    BY <2>1, <1>4
<1>7. SessionsOk'
  BY <1>1, <1>2, <1>4, <1>5, <1>6, SessionStep
<1>8. QED
  BY <1>1, <1>7, SessionInv DEF NatInv, TypeOK

\* The entry is deleted by its key: it is this session's.
LEMMA DeleteInv ==
    ASSUME NatInv, NEW s \in Sessions, Delete(s)
    PROVE  NatInv'
<1> DEFINE r == [session[s] EXCEPT !.closing = "gone"]
<1>1. UNCHANGED <<queue, worker, dest, arrived, made, released, sent>> /\ nat' = None
  BY DEF Delete
<1>2. s \in 1..made /\ session[s] \in SessionType /\ session[s].closing = "drained"
  BY MadeSession DEF Delete
<1>3. session' = [session EXCEPT ![s] = r]
  BY DEF Delete
<1>4. r \in SessionType
  BY <1>2 DEF SessionType
<1>5. /\ r.ch = session[s].ch /\ r.packet = session[s].packet /\ r.proc = session[s].proc
      /\ r.closing = "gone"
  BY <1>2 DEF SessionType
<1> HIDE DEF r
<1>6. /\ session' \in [Sessions -> SessionType] /\ session'[s] = r
      /\ \A t \in Sessions : t # s => session'[t] = session[t]
  BY <1>3, <1>4 DEF NatInv, TypeOK
<1>7. \A t \in Sessions : Len(session'[t].ch) <= SenderCapacity
  BY <1>5, <1>6 DEF NatInv, TypeOK
<1>8. Unmade'
  BY <1>1, <1>2, <1>6, NatAssumption DEF NatInv, TypeOK, Unmade, Sessions
<1>9. ProcessHolds'
  BY <1>2, <1>5, <1>6 DEF NatInv, ProcessHolds
<1>10. EntryIsOwn'
  <2>1. nat = s
    BY <1>2 DEF NatInv, EntryIsOwn
  <2>2. \A t \in 1..made : t \in Sessions /\ t \in Nat /\ t # None
    BY NatAssumption DEF NatInv, TypeOK, Sessions, None
  <2>3. \A t \in 1..made : t # s => session[t].closing = "gone"
    BY <2>1 DEF NatInv, EntryIsOwn
  <2>4. \A t \in 1..made : session'[t].closing = "gone"
    BY <2>2, <2>3, <1>5, <1>6
  <2>5. QED
    BY <2>2, <2>4, <1>1 DEF EntryIsOwn
<1>11. SessionsOk'
  BY <1>6, <1>7, <1>8, <1>9, <1>10 DEF SessionsOk
<1>12. Counted' /\ WorkerHolds'
  BY <1>1 DEF NatInv, Counted, WorkerHolds
<1>13. nat' \in 0..made' /\ nat' \in Sessions \cup {None}
  BY <1>1, NatAssumption DEF NatInv, TypeOK, None
<1>14. TypeOK'
  BY <1>1, <1>11, <1>13 DEF NatInv, TypeOK, SessionsOk
<1>15. QED
  BY <1>11, <1>12, <1>13, <1>14 DEF NatInv, SessionsOk

-----------------------------------------------------------------------------
(* One owner *)

\* No channel carries a packet twice.
NoDuplicates == Distinct(queue) /\ \A s \in Sessions : Distinct(session[s].ch)

\* What OneOwner says of a packet that arrived, and that nobody has one that did not.
OwnInv ==
    /\ NoDuplicates
    /\ OneOwner
    /\ \A p \in 1..arrived : dest[p] \in Origins
    /\ \A p \in Packets : p > arrived => released[p] = 0 /\ Holders(p) = {}

\* A packet that somebody holds has arrived, has not been released, and has no other holder.
LEMMA HolderIsOwner ==
    ASSUME NatInv, OwnInv, NEW p \in Packets, NEW a \in Places, NEW s \in Sessions \cup {None},
           Holds(a, s, p)
    PROVE  p \in 1..arrived /\ released[p] = 0 /\ Holders(p) = {<<a, s>>}
<1>1. <<a, s>> \in Holders(p)
  BY DEF Holders
<1>2. p \in 1..arrived
  BY <1>1, NatAssumption DEF OwnInv, NatInv, TypeOK, Packets
<1>3. released[p] = 0 /\ \E h \in Holders(p) : Holders(p) = {h}
  BY <1>1, <1>2 DEF OwnInv, OneOwner
<1>4. QED
  BY <1>1, <1>2, <1>3

\* Membership of Holders, without its pairs.
LEMMA HoldersSame ==
    ASSUME NEW p,
           \A a \in Places, s \in Sessions \cup {None} : Holds(a, s, p)' <=> Holds(a, s, p)
    PROVE  Holders(p)' = Holders(p)
BY DEF Holders

\* Steps in which no packet changes hands.
LEMMA Stayed ==
    ASSUME NatInv, OwnInv, NoDuplicates', UNCHANGED <<arrived, dest, released>>,
           \A p \in Packets, a \in Places, s \in Sessions \cup {None} :
               Holds(a, s, p)' <=> Holds(a, s, p)
    PROVE  OwnInv'
<1>1. \A p \in Packets : Holders(p)' = Holders(p)
  BY HoldersSame
<1>2. \A p \in 1..arrived : p \in Packets
  BY NatAssumption DEF NatInv, TypeOK, Packets
<1>3. OneOwner'
  BY <1>1, <1>2 DEF OwnInv, OneOwner
<1>4. QED
  BY <1>1, <1>3 DEF OwnInv

\* Steps in which a packet changes hands: it leaves a and comes to b.
LEMMA Moved ==
    ASSUME NatInv, OwnInv, NoDuplicates', UNCHANGED <<arrived, dest, released>>,
           NEW x \in Packets,
           NEW a \in Places, NEW s \in Sessions \cup {None}, Holds(a, s, x), ~Holds(a, s, x)',
           NEW b \in Places, NEW t \in Sessions \cup {None}, Holds(b, t, x)',
           \A p \in Packets, c \in Places, u \in Sessions \cup {None} :
               p # x \/ <<c, u>> \notin {<<a, s>>, <<b, t>>} =>
                   (Holds(c, u, p)' <=> Holds(c, u, p))
    PROVE  OwnInv'
<1>1. x \in 1..arrived /\ released[x] = 0 /\ Holders(x) = {<<a, s>>}
  BY HolderIsOwner
<1>2. \A p \in Packets : p # x => Holders(p)' = Holders(p)
  BY HoldersSame
<1>3. Holders(x)' = {<<b, t>>}
  <2>1. <<b, t>> \in Holders(x)'
    BY DEF Holders
  <2>2. ASSUME NEW c \in Places, NEW u \in Sessions \cup {None}, Holds(c, u, x)',
               <<c, u>> # <<b, t>>
        PROVE  FALSE
    <3>1. <<c, u>> # <<a, s>>
      BY <2>2
    <3>2. Holds(c, u, x)
      BY <2>2, <3>1
    <3>3. <<c, u>> \in Holders(x)
      BY <3>2 DEF Holders
    <3>4. QED
      BY <3>1, <3>3, <1>1
  <2>3. QED
    BY <2>1, <2>2 DEF Holders
<1>4. \A p \in 1..arrived : p \in Packets
  BY NatAssumption DEF NatInv, TypeOK, Packets
<1>5. OneOwner'
  <2>1. ASSUME NEW p \in 1..arrived
        PROVE  \/ released[p] = 0 /\ \E h \in Holders(p)' : Holders(p)' = {h}
               \/ released[p] = 1 /\ Holders(p)' = {}
    <3>1. CASE p = x
      BY <3>1, <1>1, <1>3
    <3>2. CASE p # x
      BY <3>2, <1>2, <1>4 DEF OwnInv, OneOwner
    <3>3. QED
      BY <3>1, <3>2
  <2>2. QED
    BY <2>1 DEF OneOwner
<1>6. ~(x > arrived)
  BY <1>1, NatAssumption DEF NatInv, TypeOK
<1>7. QED
  BY <1>2, <1>5, <1>6 DEF OwnInv

\* Steps that release a packet.
LEMMA Released ==
    ASSUME NatInv, OwnInv, NoDuplicates', UNCHANGED <<arrived, dest>>,
           NEW x \in Packets, Drop(x),
           NEW a \in Places, NEW s \in Sessions \cup {None}, Holds(a, s, x), ~Holds(a, s, x)',
           \A p \in Packets, c \in Places, u \in Sessions \cup {None} :
               p # x \/ <<c, u>> # <<a, s>> => (Holds(c, u, p)' <=> Holds(c, u, p))
    PROVE  OwnInv'
<1>1. x \in 1..arrived /\ released[x] = 0 /\ Holders(x) = {<<a, s>>}
  BY HolderIsOwner
<1>2. \A p \in Packets : p # x => Holders(p)' = Holders(p)
  BY HoldersSame
<1>3. Holders(x)' = {}
  <2>1. ASSUME NEW c \in Places, NEW u \in Sessions \cup {None}, Holds(c, u, x)'
        PROVE  FALSE
    <3>1. <<c, u>> # <<a, s>>
      BY <2>1
    <3>2. Holds(c, u, x)
      BY <2>1, <3>1
    <3>3. <<c, u>> \in Holders(x)
      BY <3>2 DEF Holders
    <3>4. QED
      BY <3>1, <3>3, <1>1
  <2>2. QED
    BY <2>1 DEF Holders
<1>4. \A p \in 1..arrived : p \in Packets
  BY NatAssumption DEF NatInv, TypeOK, Packets
<1>5. released'[x] = 1 /\ \A p \in Packets : p # x => released'[p] = released[p]
  BY <1>1 DEF Drop, NatInv, TypeOK
<1>6. OneOwner'
  BY <1>1, <1>2, <1>3, <1>4, <1>5 DEF OwnInv, OneOwner
<1>7. ~(x > arrived)
  BY <1>1, NatAssumption DEF NatInv, TypeOK
<1>8. QED
  BY <1>2, <1>5, <1>6, <1>7 DEF OwnInv

\* Nothing has arrived yet.
LEMMA InitOwnInv == Init => OwnInv
<1> SUFFICES ASSUME Init PROVE OwnInv
  OBVIOUS
<1>1. queue = <<>> /\ worker.packet = None /\ arrived = 0 /\ released = [p \in Packets |-> 0]
  BY DEF Init, Idle
<1>2. \A s \in Sessions : session[s].ch = <<>> /\ session[s].packet = None
  BY DEF Init, NewSession
<1>3. \A p \in Packets : p # None
  BY NatAssumption DEF Packets, None
<1>4. \A p, a, s : p \in Packets => ~Holds(a, s, p)
  BY <1>1, <1>2, <1>3 DEF Holds, Within
<1>5. \A p \in Packets : Holders(p) = {}
  BY <1>4 DEF Holders
<1>6. NoDuplicates
  BY <1>1, <1>2 DEF NoDuplicates, Distinct
<1>7. OneOwner /\ \A p \in 1..arrived : dest[p] \in Origins
  BY <1>1 DEF OneOwner
<1>8. QED
  BY <1>1, <1>5, <1>6, <1>7 DEF OwnInv

\* Steps of a session that touch neither its channel nor the packet of Process.
LEMMA HandsKept ==
    ASSUME NatInv, OwnInv, UNCHANGED <<queue, worker, arrived, dest, released>>,
           \A s \in Sessions : session'[s].ch = session[s].ch
                               /\ session'[s].packet = session[s].packet
    PROVE  OwnInv'
<1>1. NoDuplicates'
  BY DEF OwnInv, NoDuplicates
<1>2. \A p \in Packets, a \in Places, s \in Sessions \cup {None} :
        Holds(a, s, p)' <=> Holds(a, s, p)
  BY DEF Holds
<1>3. QED
  BY <1>1, <1>2, Stayed

\* The steps that end a dial, a session or one of its goroutines.
LEMMA EndingOwn ==
    ASSUME NatInv, OwnInv, NEW s \in Sessions,
           \/ DialFail(s) \/ ProcessReturns(s) \/ ReadEnds(s)
           \/ DropAllEnds(s) \/ CloseConn(s) \/ Delete(s)
    PROVE  OwnInv'
<1>1. UNCHANGED <<queue, worker, arrived, dest, released>>
  BY DEF DialFail, ProcessReturns, ReadEnds, DropAllEnds, CloseConn, Delete
<1>2. session \in [Sessions -> SessionType]
  BY DEF NatInv, TypeOK
<1>3. \A t \in Sessions : session'[t].ch = session[t].ch /\ session'[t].packet = session[t].packet
  <2>1. CASE DialFail(s)
    BY <2>1, <1>2 DEF DialFail, SessionType
  <2>2. CASE ProcessReturns(s)
    BY <2>2, <1>2 DEF ProcessReturns, SessionType
  <2>3. CASE ReadEnds(s)
    BY <2>3, <1>2 DEF ReadEnds, SessionType
  <2>4. CASE DropAllEnds(s)
    BY <2>4, <1>2 DEF DropAllEnds, SessionType
  <2>5. CASE CloseConn(s)
    BY <2>5, <1>2 DEF CloseConn, SessionType
  <2>6. CASE Delete(s)
    BY <2>6, <1>2 DEF Delete, SessionType
  <2>7. QED
    BY <2>1, <2>2, <2>3, <2>4, <2>5, <2>6
<1>4. QED
  BY <1>1, <1>3, HandsKept

\* A packet arrives: the queue has it, or it is dropped at once.
LEMMA ArrivesOwn ==
    ASSUME NatInv, OwnInv, NEW o \in Origins, HandleUDPPacket(o)
    PROVE  OwnInv'
<1>1. PICK x \in Packets :
        /\ x = arrived + 1 /\ arrived' = x /\ x > arrived
        /\ arrived \in Nat /\ MaxPackets \in Nat /\ arrived < MaxPackets
  BY NatAssumption DEF NatInv, TypeOK, HandleUDPPacket, Packets
<1>2. UNCHANGED <<worker, session>> /\ dest' = [dest EXCEPT ![x] = o]
  BY <1>1 DEF HandleUDPPacket
<1>3. \A p \in 1..x : p \in Packets /\ (p = x \/ p \in 1..arrived)
  BY <1>1 DEF Packets
<1>4. \A p \in 1..arrived : p # x /\ p \in Packets
  BY <1>1 DEF Packets
<1>5. \A p \in Packets : p > x => p > arrived /\ p # x
  BY <1>1 DEF Packets
<1>6. released[x] = 0 /\ Holders(x) = {}
  BY <1>1 DEF OwnInv
<1>7. \A p \in 1..arrived' : dest'[p] \in Origins
  BY <1>1, <1>2, <1>3, <1>4 DEF OwnInv, NatInv, TypeOK
<1>8. \A a \in Places, s \in Sessions \cup {None} : ~Holds(a, s, x)
  <2>1. ASSUME NEW a \in Places, NEW s \in Sessions \cup {None}, Holds(a, s, x) PROVE FALSE
    <3>1. <<a, s>> \in Holders(x)
      BY <2>1 DEF Holders
    <3>2. QED
      BY <3>1, <1>6
  <2>2. QED
    BY <2>1
<1>9. CASE Len(queue) < QueueCapacity
  <2>1. queue' = Append(queue, x) /\ released' = released /\ queue \in Seq(Packets)
    BY <1>1, <1>9 DEF HandleUDPPacket, NatInv, TypeOK
  <2>2. ~Within(queue, x)
    BY <1>8 DEF Holds, Places
  <2>3. /\ \A p : Within(queue', p) <=> Within(queue, p) \/ p = x
        /\ Distinct(queue) /\ ~Within(queue, x) => Distinct(queue')
    BY <2>1, <1>1, Appended
  <2>4. NoDuplicates'
    BY <2>2, <2>3, <1>2 DEF OwnInv, NoDuplicates
  <2>5. \A p \in Packets, a \in Places, s \in Sessions \cup {None} :
          p # x => (Holds(a, s, p)' <=> Holds(a, s, p))
    BY <2>3, <1>2 DEF Holds
  <2>6. \A p \in Packets : p # x => Holders(p)' = Holders(p)
    BY <2>5, HoldersSame
  <2>7. Holders(x)' = {<<"queue", None>>}
    <3>1. \A a \in Places, s \in Sessions \cup {None} :
            Holds(a, s, x)' <=> a = "queue" /\ s = None
      BY <2>3, <1>2, <1>8 DEF Holds
    <3>2. "queue" \in Places
      BY DEF Places
    <3>3. QED
      BY <3>1, <3>2 DEF Holders
  <2>8. OneOwner'
    <3>1. ASSUME NEW p \in 1..arrived'
          PROVE  \/ released'[p] = 0 /\ \E h \in Holders(p)' : Holders(p)' = {h}
                 \/ released'[p] = 1 /\ Holders(p)' = {}
      <4>1. CASE p = x
        BY <4>1, <2>1, <2>7, <1>6
      <4>2. CASE p # x
        BY <4>2, <2>1, <2>6, <1>1, <1>3 DEF OwnInv, OneOwner
      <4>3. QED
        BY <4>1, <4>2
    <3>2. QED
      BY <3>1 DEF OneOwner
  <2>9. QED
    BY <2>1, <2>4, <2>6, <2>8, <1>1, <1>5, <1>7 DEF OwnInv
<1>10. CASE ~(Len(queue) < QueueCapacity)
  <2>1. queue' = queue /\ Drop(x)
    BY <1>1, <1>10 DEF HandleUDPPacket
  <2>2. released'[x] = 1 /\ \A p \in Packets : p # x => released'[p] = released[p]
    BY <2>1, <1>1, <1>6 DEF Drop, NatInv, TypeOK
  <2>3. NoDuplicates'
    BY <2>1, <1>2 DEF OwnInv, NoDuplicates
  <2>4. \A p \in Packets, a \in Places, s \in Sessions \cup {None} :
          Holds(a, s, p)' <=> Holds(a, s, p)
    BY <2>1, <1>2 DEF Holds
  <2>5. \A p \in Packets : Holders(p)' = Holders(p)
    BY <2>4, HoldersSame
  <2>6. OneOwner'
    <3>1. ASSUME NEW p \in 1..arrived'
          PROVE  \/ released'[p] = 0 /\ \E h \in Holders(p)' : Holders(p)' = {h}
                 \/ released'[p] = 1 /\ Holders(p)' = {}
      <4>1. CASE p = x
        BY <4>1, <2>2, <2>5, <1>1, <1>6
      <4>2. CASE p # x
        BY <4>2, <2>2, <2>5, <1>1, <1>3 DEF OwnInv, OneOwner
      <4>3. QED
        BY <4>1, <4>2
    <3>2. QED
      BY <3>1 DEF OneOwner
  <2>7. QED
    BY <2>2, <2>3, <2>5, <2>6, <1>1, <1>5, <1>7 DEF OwnInv
<1>11. QED
  BY <1>9, <1>10

\* The worker drops the first packet of its queue.
LEMMA RefuseOwn ==
    ASSUME NatInv, OwnInv, Refuse
    PROVE  OwnInv'
<1>1. PICK x \in Packets : x = Head(queue)
  BY Taken DEF Refuse, NatInv, TypeOK
<1>2. UNCHANGED <<worker, session, arrived, dest>> /\ Drop(x)
  BY <1>1 DEF Refuse
<1>3. /\ Within(queue, x) /\ ~Within(queue', x) /\ Distinct(queue')
      /\ \A p : Within(queue', p) => Within(queue, p)
      /\ \A p : Within(queue, p) => Within(queue', p) \/ p = x
  BY <1>1, Taken DEF Refuse, NatInv, TypeOK, OwnInv, NoDuplicates
<1>4. NoDuplicates'
  BY <1>2, <1>3 DEF OwnInv, NoDuplicates
<1>5. "queue" \in Places /\ Holds("queue", None, x) /\ ~Holds("queue", None, x)'
  BY <1>3 DEF Holds, Places
<1>6. \A p \in Packets, c \in Places, u \in Sessions \cup {None} :
        p # x \/ <<c, u>> # <<"queue", None>> => (Holds(c, u, p)' <=> Holds(c, u, p))
  BY <1>2, <1>3 DEF Holds
<1>7. QED
  BY <1>2, <1>4, <1>5, <1>6, Released

\* The worker takes the first packet of its queue, for a session that has none yet if it is new.
LEMMA GetOrCreateOwn ==
    ASSUME NatInv, OwnInv, GetOrCreate
    PROVE  OwnInv'
<1>1. PICK x \in Packets : x = Head(queue)
  BY Taken DEF GetOrCreate, NatInv, TypeOK
<1>2. UNCHANGED <<arrived, dest, released>> /\ worker.packet = None /\ worker'.packet = x
  BY <1>1 DEF GetOrCreate, NatInv, WorkerHolds
<1>3. /\ Within(queue, x) /\ ~Within(queue', x) /\ Distinct(queue')
      /\ \A p : Within(queue', p) => Within(queue, p)
      /\ \A p : Within(queue, p) => Within(queue', p) \/ p = x
  BY <1>1, Taken DEF GetOrCreate, NatInv, TypeOK, OwnInv, NoDuplicates
<1>4. \A s \in Sessions : session'[s].ch = session[s].ch /\ session'[s].packet = session[s].packet
  <2>1. CASE nat = None
    <3>1. /\ made' = made + 1 /\ made \in Nat
          /\ session' = [session EXCEPT ![made'] = NewSession(Head(queue))]
      BY <2>1 DEF GetOrCreate, NatInv, TypeOK
    <3>2. ASSUME NEW s \in Sessions, s = made'
          PROVE  session'[s].ch = session[s].ch /\ session'[s].packet = session[s].packet
      <4>1. session'[s] = NewSession(Head(queue))
        BY <3>1, <3>2 DEF NatInv, TypeOK
      <4>2. session'[s].ch = <<>> /\ session'[s].packet = None
        BY <4>1 DEF NewSession
      <4>3. s > made
        BY <3>1, <3>2
      <4>4. QED
        BY <4>2, <4>3 DEF NatInv, Unmade
    <3>3. ASSUME NEW s \in Sessions, s # made' PROVE session'[s] = session[s]
      BY <3>1, <3>3 DEF NatInv, TypeOK
    <3>4. QED
      BY <3>2, <3>3
  <2>2. CASE nat # None
    BY <2>2 DEF GetOrCreate
  <2>3. QED
    BY <2>1, <2>2
<1>5. NoDuplicates'
  BY <1>3, <1>4 DEF OwnInv, NoDuplicates
<1>6. \A p \in Packets : p # None
  BY NatAssumption DEF Packets, None
<1>7. /\ "queue" \in Places /\ Holds("queue", None, x) /\ ~Holds("queue", None, x)'
      /\ "worker" \in Places /\ Holds("worker", None, x)'
  BY <1>2, <1>3 DEF Holds, Places
<1>8. \A p \in Packets, c \in Places, u \in Sessions \cup {None} :
        p # x \/ <<c, u>> \notin {<<"queue", None>>, <<"worker", None>>} =>
            (Holds(c, u, p)' <=> Holds(c, u, p))
  BY <1>2, <1>3, <1>4, <1>6 DEF Holds
<1>9. QED
  BY <1>2, <1>5, <1>7, <1>8, Moved

\* Send drops a packet for a closed or full sender.
LEMMA SendDropsOwn ==
    ASSUME NatInv, OwnInv, worker.packet \in Packets, worker' = Idle, Drop(worker.packet),
           UNCHANGED <<queue, session, arrived, dest>>
    PROVE  OwnInv'
<1>1. PICK x \in Packets : x = worker.packet
  OBVIOUS
<1>2. Drop(x)
  BY <1>1
<1>3. worker'.packet = None /\ \A p \in Packets : p # None
  BY NatAssumption DEF Idle, Packets, None
<1>4. NoDuplicates'
  BY DEF OwnInv, NoDuplicates
<1>5. "worker" \in Places /\ Holds("worker", None, x) /\ ~Holds("worker", None, x)'
  BY <1>1, <1>3 DEF Holds, Places
<1>6. \A p \in Packets, c \in Places, u \in Sessions \cup {None} :
        p # x \/ <<c, u>> # <<"worker", None>> => (Holds(c, u, p)' <=> Holds(c, u, p))
  BY <1>1, <1>3 DEF Holds
<1>7. QED
  BY <1>2, <1>4, <1>5, <1>6, Released

\* The first select of Send.
LEMMA SendCheckOwn ==
    ASSUME NatInv, OwnInv, SendCheck
    PROVE  OwnInv'
<1>1. UNCHANGED <<queue, session, arrived, dest>> /\ worker.packet \in Packets
  BY DEF SendCheck, NatInv, WorkerHolds
<1>2. CASE Closed(worker.sender)
  BY <1>1, <1>2, SendDropsOwn DEF SendCheck
<1>3. CASE ~Closed(worker.sender)
  <2>1. released' = released /\ worker' = [worker EXCEPT !.pc = "put"]
    BY <1>3 DEF SendCheck
  <2>2. worker'.packet = worker.packet
    BY <2>1 DEF NatInv, TypeOK
  <2>3. NoDuplicates'
    BY <1>1 DEF OwnInv, NoDuplicates
  <2>4. \A p \in Packets, a \in Places, s \in Sessions \cup {None} :
          Holds(a, s, p)' <=> Holds(a, s, p)
    BY <1>1, <2>2 DEF Holds
  <2>5. QED
    BY <1>1, <2>1, <2>3, <2>4, Stayed
<1>4. QED
  BY <1>2, <1>3

\* The second select of Send: the channel takes the packet, or Send drops it.
LEMMA SendPutOwn ==
    ASSUME NatInv, OwnInv, SendPut
    PROVE  OwnInv'
<1>1. /\ UNCHANGED <<queue, arrived, dest>> /\ worker' = Idle /\ worker.packet \in Packets
      /\ worker.sender \in 1..made
  BY DEF SendPut, NatInv, WorkerHolds
<1>2. worker.sender \in Sessions
  BY <1>1, NatAssumption DEF NatInv, TypeOK, Sessions
<1>3. PICK x \in Packets, s \in Sessions : x = worker.packet /\ s = worker.sender
  BY <1>1, <1>2
<1>4. CASE session' = [session EXCEPT ![s].ch = Append(@, x)] /\ released' = released
  <2>1. session[s] \in SessionType /\ session[s].ch \in Seq(Packets)
    BY DEF NatInv, TypeOK, SessionType
  <2>2. /\ session'[s].ch = Append(session[s].ch, x) /\ session'[s].packet = session[s].packet
        /\ \A t \in Sessions : t # s => session'[t] = session[t]
    BY <1>4, <2>1 DEF NatInv, TypeOK, SessionType
  <2>3. "worker" \in Places /\ Holds("worker", None, x)
    BY <1>3 DEF Holds, Places
  <2>4. ~Within(session[s].ch, x)
    <3>1. Holders(x) = {<<"worker", None>>}
      BY <2>3, HolderIsOwner
    <3>2. ASSUME Within(session[s].ch, x) PROVE FALSE
      <4>1. Holds("channel", s, x) /\ "channel" \in Places
        BY <3>2 DEF Holds, Places
      <4>2. Holders(x) = {<<"channel", s>>}
        BY <4>1, HolderIsOwner
      <4>3. <<"worker", None>> = <<"channel", s>>
        BY <3>1, <4>2
      <4>4. QED
        BY <4>3
    <3>3. QED
      BY <3>2
  <2>5. /\ \A p : Within(session'[s].ch, p) <=> Within(session[s].ch, p) \/ p = x
        /\ Distinct(session[s].ch) => Distinct(session'[s].ch)
    BY <2>1, <2>2, <2>4, Appended
  <2>6. NoDuplicates'
    BY <1>1, <2>2, <2>5 DEF OwnInv, NoDuplicates
  <2>7. worker'.packet = None /\ \A p \in Packets : p # None
    BY <1>1, NatAssumption DEF Idle, Packets, None
  <2>8. ~Holds("worker", None, x)' /\ "channel" \in Places /\ Holds("channel", s, x)'
    BY <2>5, <2>7 DEF Holds, Places
  <2>9. \A p \in Packets, c \in Places, u \in Sessions \cup {None} :
          p # x \/ <<c, u>> \notin {<<"worker", None>>, <<"channel", s>>} =>
              (Holds(c, u, p)' <=> Holds(c, u, p))
    <3>1. ASSUME NEW p \in Packets, NEW c \in Places, NEW u \in Sessions,
                 p # x \/ <<c, u>> # <<"channel", s>>
          PROVE  Holds(c, u, p)' <=> Holds(c, u, p)
      <4>1. u # None
        BY NatAssumption DEF Sessions, None
      <4>2. session'[u].packet = session[u].packet
        BY <2>2
      <4>3. c = "channel" => (Within(session'[u].ch, p) <=> Within(session[u].ch, p))
        BY <3>1, <2>2, <2>5
      <4>4. QED
        BY <4>1, <4>2, <4>3 DEF Holds
    <3>2. ASSUME NEW p \in Packets, NEW c \in Places, p # x \/ c # "worker"
          PROVE  Holds(c, None, p)' <=> Holds(c, None, p)
      <4>1. None \notin Sessions
        BY NatAssumption DEF Sessions, None
      <4>2. QED
        BY <3>2, <4>1, <1>1, <1>3, <2>7 DEF Holds
    <3>3. QED
      BY <3>1, <3>2
  <2>10. QED
    BY <1>1, <1>4, <2>3, <2>6, <2>8, <2>9, Moved
<1>5. CASE Drop(worker.packet) /\ session' = session
  BY <1>1, <1>5, SendDropsOwn
<1>6. QED
  BY <1>3, <1>4, <1>5 DEF SendPut

\* Process takes the first packet of the channel.
LEMMA ReceiveOwn ==
    ASSUME NatInv, OwnInv, NEW s \in Sessions, Receive(s)
    PROVE  OwnInv'
<1>1. /\ session[s] \in SessionType /\ session[s].ch \in Seq(Packets) /\ session[s].ch # <<>>
      /\ session[s].packet = None
  BY DEF Receive, NatInv, TypeOK, SessionType, ProcessHolds
<1>2. PICK x \in Packets : x = Head(session[s].ch)
  BY <1>1, Taken
<1>3. UNCHANGED <<queue, worker, arrived, dest, released>>
  BY DEF Receive
<1>4. /\ session'[s].ch = Tail(session[s].ch) /\ session'[s].packet = x
      /\ \A t \in Sessions : t # s => session'[t] = session[t]
  BY <1>1, <1>2 DEF Receive, NatInv, TypeOK, SessionType
<1>5. /\ Within(session[s].ch, x)
      /\ \A p : Within(session'[s].ch, p) => Within(session[s].ch, p)
      /\ \A p : Within(session[s].ch, p) => Within(session'[s].ch, p) \/ p = x
      /\ Distinct(session[s].ch) => Distinct(session'[s].ch) /\ ~Within(session'[s].ch, x)
  BY <1>1, <1>2, <1>4, Taken
<1>6. NoDuplicates' /\ ~Within(session'[s].ch, x)
  BY <1>3, <1>4, <1>5 DEF OwnInv, NoDuplicates
<1>7. /\ "channel" \in Places /\ Holds("channel", s, x) /\ ~Holds("channel", s, x)'
      /\ "process" \in Places /\ Holds("process", s, x)'
  BY <1>4, <1>5, <1>6 DEF Holds, Places
<1>8. \A p \in Packets, c \in Places, u \in Sessions \cup {None} :
        p # x \/ <<c, u>> \notin {<<"channel", s>>, <<"process", s>>} =>
            (Holds(c, u, p)' <=> Holds(c, u, p))
  <2>1. ASSUME NEW p \in Packets, NEW c \in Places, NEW u \in Sessions,
               p # x \/ <<c, u>> \notin {<<"channel", s>>, <<"process", s>>}
        PROVE  Holds(c, u, p)' <=> Holds(c, u, p)
    <3>1. u # None /\ p # None
      BY NatAssumption DEF Sessions, Packets, None
    <3>2. c = "process" => (session'[u].packet = p <=> session[u].packet = p)
      BY <2>1, <3>1, <1>1, <1>4
    <3>3. c = "channel" => (Within(session'[u].ch, p) <=> Within(session[u].ch, p))
      BY <2>1, <1>4, <1>5
    <3>4. QED
      BY <3>1, <3>2, <3>3 DEF Holds
  <2>2. ASSUME NEW p \in Packets, NEW c \in Places
        PROVE  Holds(c, None, p)' <=> Holds(c, None, p)
    <3>1. None \notin Sessions
      BY NatAssumption DEF Sessions, None
    <3>2. QED
      BY <3>1, <1>3 DEF Holds
  <2>3. QED
    BY <2>1, <2>2
<1>9. QED
  BY <1>3, <1>6, <1>7, <1>8, Moved

\* The closing goroutine drops the first packet of the channel.
LEMMA DropOneOwn ==
    ASSUME NatInv, OwnInv, NEW s \in Sessions, DropOne(s)
    PROVE  OwnInv'
<1>1. session[s] \in SessionType /\ session[s].ch \in Seq(Packets) /\ session[s].ch # <<>>
  BY DEF DropOne, NatInv, TypeOK, SessionType
<1>2. PICK x \in Packets : x = Head(session[s].ch)
  BY <1>1, Taken
<1>3. UNCHANGED <<queue, worker, arrived, dest>> /\ Drop(x)
  BY <1>2 DEF DropOne
<1>4. /\ session'[s].ch = Tail(session[s].ch) /\ session'[s].packet = session[s].packet
      /\ \A t \in Sessions : t # s => session'[t] = session[t]
  BY <1>1 DEF DropOne, NatInv, TypeOK, SessionType
<1>5. /\ Within(session[s].ch, x)
      /\ \A p : Within(session'[s].ch, p) => Within(session[s].ch, p)
      /\ \A p : Within(session[s].ch, p) => Within(session'[s].ch, p) \/ p = x
      /\ Distinct(session[s].ch) => Distinct(session'[s].ch) /\ ~Within(session'[s].ch, x)
  BY <1>1, <1>2, <1>4, Taken
<1>6. NoDuplicates' /\ ~Within(session'[s].ch, x)
  BY <1>3, <1>4, <1>5 DEF OwnInv, NoDuplicates
<1>7. "channel" \in Places /\ Holds("channel", s, x) /\ ~Holds("channel", s, x)'
  BY <1>5, <1>6 DEF Holds, Places
<1>8. \A p \in Packets, c \in Places, u \in Sessions \cup {None} :
        p # x \/ <<c, u>> # <<"channel", s>> => (Holds(c, u, p)' <=> Holds(c, u, p))
  <2>1. ASSUME NEW p \in Packets, NEW c \in Places, NEW u \in Sessions,
               p # x \/ <<c, u>> # <<"channel", s>>
        PROVE  Holds(c, u, p)' <=> Holds(c, u, p)
    <3>1. u # None
      BY NatAssumption DEF Sessions, None
    <3>2. session'[u].packet = session[u].packet
      BY <1>4
    <3>3. c = "channel" => (Within(session'[u].ch, p) <=> Within(session[u].ch, p))
      BY <2>1, <1>4, <1>5
    <3>4. QED
      BY <3>1, <3>2, <3>3 DEF Holds
  <2>2. ASSUME NEW p \in Packets, NEW c \in Places
        PROVE  Holds(c, None, p)' <=> Holds(c, None, p)
    <3>1. None \notin Sessions
      BY NatAssumption DEF Sessions, None
    <3>2. QED
      BY <3>1, <1>3 DEF Holds
  <2>3. QED
    BY <2>1, <2>2
<1>9. QED
  BY <1>3, <1>6, <1>7, <1>8, Released

\* Process has written its packet or could not resolve its address: the deferred Drop.
LEMMA ProcessedOwn ==
    ASSUME NatInv, OwnInv, NEW s \in Sessions, ResolveFails(s) \/ Write(s)
    PROVE  OwnInv'
<1>1. session[s] \in SessionType /\ session[s].packet \in Packets
  <2>1. session[s] \in SessionType /\ session[s].proc \in {"packet", "write"}
    BY DEF ResolveFails, Write, NatInv, TypeOK
  <2>2. session[s].packet # None
    BY <2>1 DEF NatInv, ProcessHolds
  <2>3. QED
    BY <2>1, <2>2 DEF SessionType
<1>2. PICK x \in Packets : x = session[s].packet
  BY <1>1
<1>3. UNCHANGED <<queue, worker, arrived, dest>> /\ Drop(x)
  BY <1>2 DEF ResolveFails, Write
<1>4. /\ session'[s].ch = session[s].ch /\ session'[s].packet = None
      /\ \A t \in Sessions : t # s => session'[t] = session[t]
  <2>1. CASE ResolveFails(s)
    BY <2>1, <1>1 DEF ResolveFails, NatInv, TypeOK, SessionType
  <2>2. CASE Write(s)
    BY <2>2, <1>1 DEF Write, NatInv, TypeOK, SessionType
  <2>3. QED
    BY <2>1, <2>2
<1>5. NoDuplicates'
  BY <1>3, <1>4 DEF OwnInv, NoDuplicates
<1>6. \A p \in Packets : p # None
  BY NatAssumption DEF Packets, None
<1>7. "process" \in Places /\ Holds("process", s, x) /\ ~Holds("process", s, x)'
  BY <1>2, <1>4, <1>6 DEF Holds, Places
<1>8. \A p \in Packets, c \in Places, u \in Sessions \cup {None} :
        p # x \/ <<c, u>> # <<"process", s>> => (Holds(c, u, p)' <=> Holds(c, u, p))
  <2>1. ASSUME NEW p \in Packets, NEW c \in Places, NEW u \in Sessions,
               p # x \/ <<c, u>> # <<"process", s>>
        PROVE  Holds(c, u, p)' <=> Holds(c, u, p)
    <3>1. u # None
      BY NatAssumption DEF Sessions, None
    <3>2. session'[u].ch = session[u].ch
      BY <1>4
    <3>3. c = "process" => (session'[u].packet = p <=> session[u].packet = p)
      BY <2>1, <1>2, <1>4, <1>6
    <3>4. QED
      BY <3>1, <3>2, <3>3 DEF Holds
  <2>2. ASSUME NEW p \in Packets, NEW c \in Places
        PROVE  Holds(c, None, p)' <=> Holds(c, None, p)
    <3>1. None \notin Sessions
      BY NatAssumption DEF Sessions, None
    <3>2. QED
      BY <3>1, <1>3 DEF Holds
  <2>3. QED
    BY <2>1, <2>2
<1>9. QED
  BY <1>3, <1>5, <1>7, <1>8, Released

\* The packet that Process holds has an address.
LEMMA ProcessAddress ==
    ASSUME NatInv, OwnInv, NEW s \in Sessions, session[s].proc = "packet"
    PROVE  dest[session[s].packet] \in Origins
<1>1. session[s].packet \in Packets
  <2>1. session[s] \in SessionType /\ session[s].packet # None
    BY DEF NatInv, TypeOK, ProcessHolds
  <2>2. QED
    BY <2>1 DEF SessionType
<1>2. Holds("process", s, session[s].packet) /\ "process" \in Places
  BY DEF Holds, Places
<1>3. session[s].packet \in 1..arrived
  BY <1>1, <1>2, HolderIsOwner
<1>4. QED
  BY <1>3 DEF OwnInv

\* Dialling and resolving change neither the channel nor the packet.
LEMMA MappingOwn ==
    ASSUME NatInv, OwnInv, NEW s \in Sessions, DialOk(s) \/ Resolve(s)
    PROVE  OwnInv'
<1>1. UNCHANGED <<queue, worker, arrived, dest, released>>
  BY DEF DialOk, Resolve
<1>2. session \in [Sessions -> SessionType] /\ session[s] \in SessionType
  BY DEF NatInv, TypeOK
<1>3. PICK r : /\ session' = [session EXCEPT ![s] = r]
               /\ r.ch = session[s].ch /\ r.packet = session[s].packet
  <2>1. CASE DialOk(s)
    <3>1. PICK t \in Targets \cup {Invalid} :
            session' = [session EXCEPT ![s] =
                [WithMapping(session[s], dest[session[s].first], t) EXCEPT !.proc = "loop",
                                                                          !.conn = "open"]]
      BY <2>1 DEF DialOk
    <3> DEFINE m == WithMapping(session[s], dest[session[s].first], t)
               r == [m EXCEPT !.proc = "loop", !.conn = "open"]
    <3>2. session[s].first \in Packets
      BY <2>1 DEF DialOk, NatInv, ProcessHolds
    <3>3. dest[session[s].first] \in Origins \cup {Invalid}
      BY <3>2 DEF NatInv, TypeOK
    <3>4. m \in SessionType /\ m.ch = session[s].ch /\ m.packet = session[s].packet
      BY <1>2, <3>3, Mapping
    <3>5. session' = [session EXCEPT ![s] = r]
      BY <3>1
    <3> HIDE DEF m
    <3>6. r.ch = session[s].ch /\ r.packet = session[s].packet
      BY <3>4 DEF SessionType
    <3> HIDE DEF r
    <3>7. QED
      BY <3>5, <3>6
  <2>2. CASE Resolve(s)
    <3> DEFINE o == dest[session[s].packet]
               known == session[s].originToTarget[o]
    <3>1. o \in Origins
      BY <2>2, ProcessAddress DEF Resolve
    <3>2. CASE known # Invalid
      <4> DEFINE r == [session[s] EXCEPT !.proc = "write", !.addr = known]
      <4>1. session' = [session EXCEPT ![s].proc = "write", ![s].addr = known]
        BY <2>2, <3>2 DEF Resolve
      <4>2. session' = [session EXCEPT ![s] = r]
        BY <4>1
      <4>3. r.ch = session[s].ch /\ r.packet = session[s].packet
        BY <1>2 DEF SessionType
      <4> HIDE DEF r
      <4>4. QED
        BY <4>2, <4>3
    <3>3. CASE known = Invalid
      <4>1. PICK t \in Targets :
              session' = [session EXCEPT ![s] =
                  [WithMapping(session[s], o, t) EXCEPT !.proc = "write", !.addr = t]]
        BY <2>2, <3>3 DEF Resolve
      <4> DEFINE m == WithMapping(session[s], o, t)
                 r == [m EXCEPT !.proc = "write", !.addr = t]
      <4>2. m \in SessionType /\ m.ch = session[s].ch /\ m.packet = session[s].packet
        BY <1>2, <3>1, Mapping
      <4>3. session' = [session EXCEPT ![s] = r]
        BY <4>1
      <4> HIDE DEF m
      <4>4. r.ch = session[s].ch /\ r.packet = session[s].packet
        BY <4>2 DEF SessionType
      <4> HIDE DEF r
      <4>5. QED
        BY <4>3, <4>4
    <3>4. QED
      BY <3>2, <3>3
  <2>3. QED
    BY <2>1, <2>2
<1>4. \A t \in Sessions : session'[t].ch = session[t].ch /\ session'[t].packet = session[t].packet
  BY <1>2, <1>3
<1>5. QED
  BY <1>1, <1>4, HandsKept

-----------------------------------------------------------------------------
(* The theorems *)

UdpInv == NatInv /\ OwnInv

\* Every step keeps the two parts of the invariant.
LEMMA NextUdpInv ==
    ASSUME UdpInv, [Next]_vars
    PROVE  UdpInv'
<1> USE DEF UdpInv
<1>1. CASE \E o \in Origins : HandleUDPPacket(o)
  BY <1>1, HandleUDPPacketInv, ArrivesOwn
<1>2. CASE Worker
  <2>1. NatInv'
    BY <1>2, RefuseInv, GetOrCreateInv, SendCheckInv, SendPutInv DEF Worker
  <2>2. OwnInv'
    BY <1>2, RefuseOwn, GetOrCreateOwn, SendCheckOwn, SendPutOwn DEF Worker
  <2>3. QED
    BY <2>1, <2>2
<1>3. ASSUME NEW s \in Sessions, Dial(s) \/ Process(s) \/ ReadEnds(s) \/ Close(s)
      PROVE  UdpInv'
  <2>1. CASE Dial(s)
    BY <2>1, DialOkInv, DialFailInv, MappingOwn, EndingOwn DEF Dial
  <2>2. CASE Process(s)
    <3>1. CASE Resolve(s)
      <4>1. dest[session[s].packet] \in Origins
        BY <3>1, ProcessAddress DEF Resolve
      <4>2. QED
        BY <3>1, <4>1, ResolveInv, MappingOwn
    <3>2. CASE Receive(s)
      BY <3>2, ReceiveInv, ReceiveOwn
    <3>3. CASE ProcessReturns(s)
      BY <3>3, ProcessReturnsInv, EndingOwn
    <3>4. CASE ResolveFails(s) \/ Write(s)
      BY <3>4, ResolveFailsInv, WriteInv, ProcessedOwn
    <3>5. QED
      BY <2>2, <3>1, <3>2, <3>3, <3>4 DEF Process
  <2>3. CASE ReadEnds(s)
    BY <2>3, ReadEndsInv, EndingOwn
  <2>4. CASE Close(s)
    BY <2>4, DropOneInv, DropOneOwn, DropAllEndsInv, CloseConnInv, DeleteInv, EndingOwn DEF Close
  <2>5. QED
    BY <1>3, <2>1, <2>2, <2>3, <2>4
<1>4. CASE UNCHANGED vars
  <2>1. SessionsOk'
    BY <1>4, SessionsKept DEF vars
  <2>2. NatInv'
    BY <1>4, <2>1, SessionInv DEF vars, NatInv, TypeOK
  <2>3. OwnInv'
    BY <1>4, HandsKept DEF vars
  <2>4. QED
    BY <2>2, <2>3
<1>5. QED
  BY <1>1, <1>2, <1>3, <1>4 DEF Next

\* Type correctness of the UDP path, for any number of packets and any capacities: no queue
\* and no channel exceeds its capacity.
THEOREM NatTypeCorrect == Spec => []TypeOK
<1>1. Init => UdpInv
  BY InitNatInv, InitOwnInv DEF UdpInv
<1>2. UdpInv => TypeOK
  BY DEF UdpInv, NatInv
<1>3. QED
  BY <1>1, <1>2, NextUdpInv, PTL DEF Spec

\* The table's entry is the one session that is not gone, for any number of packets: the
\* Delete by key at the end of handleUDPToLocal never removes another session's entry.
THEOREM EntriesAreOwn == Spec => []EntryIsOwn
<1>1. Init => UdpInv
  BY InitNatInv, InitOwnInv DEF UdpInv
<1>2. UdpInv => EntryIsOwn
  BY DEF UdpInv, NatInv
<1>3. QED
  BY <1>1, <1>2, NextUdpInv, PTL DEF Spec

\* The pooled buffer of every packet has one owner until it is released, and is released at
\* most once, for any number of packets and sessions and any interleaving of the worker,
\* Process and the goroutine that closes the sender.
THEOREM PacketsHaveOneOwner == Spec => []OneOwner
<1>1. Init => UdpInv
  BY InitNatInv, InitOwnInv DEF UdpInv
<1>2. UdpInv => OneOwner
  BY DEF UdpInv, OwnInv
<1>3. QED
  BY <1>1, <1>2, NextUdpInv, PTL DEF Spec

-----------------------------------------------------------------------------
(* Order: packets reach the remote side in the order in which they arrived *)

(* The inductive invariant *)

\* A session whose packets may still reach the remote side.
Live(s) == session[s].proc # "end" /\ session[s].conn # "closed"

\* The way of a packet, backwards: written, in the hands of Process, in the channel, in the
\* hands of the worker, in the queue.
At(k, p) ==
    \/ k = 0 /\ \E i \in DOMAIN sent : sent[i].packet = p
    \/ k = 1 /\ \E s \in Sessions : Live(s) /\ session[s].packet = p
    \/ k = 2 /\ \E s \in Sessions : Live(s) /\ Within(session[s].ch, p)
    \/ k = 3 /\ worker.packet = p
    \/ k = 4 /\ Within(queue, p)

\* Whoever is further on the way came earlier.
InLine ==
    \A j, k \in 0..4 : \A p, q \in Packets : j < k /\ At(j, p) /\ At(k, q) => p < q

Ascending(q) == \A i, j \in DOMAIN q : i < j => q[i] < q[j]

Sorted ==
    /\ Ascending(queue) /\ SentInOrder
    /\ \A s \in Sessions : Live(s) => Ascending(session[s].ch)

\* Process runs with a connection, and a session is deleted when nobody can write to it.
Deletable ==
    \A s \in Sessions :
        /\ session[s].proc \in {"loop", "packet", "write"} => session[s].conn # "none"
        /\ session[s].closing = "gone" => ~Live(s)

SentArrived == \A p \in Packets : At(0, p) => p <= arrived

OrderInv == InLine /\ Sorted /\ Deletable /\ SentArrived

-----------------------------------------------------------------------------
(* Sequences and the line *)

\* A packet that came after all others of a sequence is appended.
LEMMA AscendingAppend ==
    ASSUME NEW q \in Seq(Packets), NEW x \in Packets, Ascending(q),
           \A p \in Packets : Within(q, p) => p < x
    PROVE  Ascending(Append(q, x))
<1>1. /\ DOMAIN q = 1..Len(q) /\ DOMAIN Append(q, x) = 1..(Len(q) + 1) /\ Len(q) \in Nat
      /\ \A i \in 1..Len(q) : q[i] \in Packets /\ Append(q, x)[i] = q[i]
      /\ Append(q, x)[Len(q) + 1] = x
  OBVIOUS
<1>2. \A i \in 1..Len(q) : q[i] < x
  BY <1>1 DEF Within
<1>3. \A i, j \in 1..Len(q) : i < j => q[i] < q[j]
  BY <1>1 DEF Ascending
<1>4. \A i, j \in 1..(Len(q) + 1) : i < j => Append(q, x)[i] < Append(q, x)[j]
  BY <1>1, <1>2, <1>3
<1>5. QED
  BY <1>1, <1>4 DEF Ascending

\* The first of an ascending sequence came before all that remain.
LEMMA AscendingTail ==
    ASSUME NEW q \in Seq(Packets), q # <<>>, Ascending(q)
    PROVE  /\ Ascending(Tail(q))
           /\ \A p \in Packets : Within(Tail(q), p) => Head(q) < p
<1>1. /\ Len(q) \in Nat /\ Len(q) > 0 /\ Tail(q) \in Seq(Packets)
      /\ Len(Tail(q)) = Len(q) - 1
  OBVIOUS
<1>2. DOMAIN q = 1..Len(q) /\ DOMAIN Tail(q) = 1..(Len(q) - 1)
  BY <1>1
<1>3. Head(q) = q[1] /\ \A i \in 1..(Len(q) - 1) : Tail(q)[i] = q[i + 1]
  BY <1>1
<1>4. \A i, j \in 1..Len(q) : i < j => q[i] < q[j]
  BY <1>2 DEF Ascending
<1>5. \A i, j \in 1..(Len(q) - 1) : i < j => Tail(q)[i] < Tail(q)[j]
  BY <1>1, <1>3, <1>4
<1>6. \A i \in 1..(Len(q) - 1) : Head(q) < Tail(q)[i]
  BY <1>1, <1>3, <1>4
<1>7. QED
  BY <1>2, <1>5, <1>6 DEF Ascending, Within

\* Nobody moves on.
LEMMA Shrinks ==
    ASSUME InLine, \A k \in 0..4 : \A p \in Packets : At(k, p)' => At(k, p)
    PROVE  InLine'
BY DEF InLine

\* The first of its place moves on by one.
LEMMA Advances ==
    ASSUME InLine, NEW j \in 0..3, NEW x \in Packets, At(j + 1, x),
           \A k \in 0..4 : \A p \in Packets : At(k, p)' => At(k, p) \/ (k = j /\ p = x),
           \A q \in Packets : At(j + 1, q)' => x < q
    PROVE  InLine'
<1> SUFFICES ASSUME NEW i \in 0..4, NEW k \in 0..4, NEW p \in Packets, NEW q \in Packets,
                    i < k, At(i, p)', At(k, q)'
             PROVE  p < q
  BY DEF InLine
<1>1. j \in 0..4 /\ j + 1 \in 0..4
  OBVIOUS
<1>2. CASE At(i, p) /\ At(k, q)
  BY <1>2 DEF InLine
<1>3. CASE k = j /\ q = x
  <2>1. i # j /\ i < j + 1
    BY <1>3
  <2>2. At(i, p)
    BY <2>1
  <2>3. QED
    BY <2>1, <2>2, <1>1, <1>3 DEF InLine
<1>4. CASE i = j /\ p = x
  <2>1. CASE k = j + 1
    BY <2>1, <1>4
  <2>2. CASE k # j + 1
    <3>1. k # j /\ j + 1 < k
      BY <2>2, <1>4
    <3>2. At(k, q)
      BY <3>1
    <3>3. QED
      BY <3>1, <3>2, <1>1, <1>4 DEF InLine
  <2>3. QED
    BY <2>1, <2>2
<1>5. QED
  BY <1>2, <1>3, <1>4

\* There is one live session at most: it is the one in the table.
LEMMA OneLive ==
    ASSUME NatInv, OrderInv, NEW s \in Sessions, NEW t \in Sessions, Live(s), Live(t)
    PROVE  s = t
<1>1. ASSUME NEW u \in Sessions, Live(u) PROVE nat = u
  <2>1. u \in 1..made
    BY <1>1, MadeSession DEF Live
  <2>2. session[u].closing # "gone"
    BY <1>1 DEF OrderInv, Deletable
  <2>3. QED
    BY <2>1, <2>2 DEF NatInv, EntryIsOwn
<1>2. QED
  BY <1>1

\* The sessions after a step of one of them.
LEMMA DeletableKept ==
    ASSUME OrderInv, NEW s \in Sessions,
           \A t \in Sessions : t # s => session'[t] = session[t],
           session'[s].proc \in {"loop", "packet", "write"} => session'[s].conn # "none",
           session'[s].closing = "gone" => ~Live(s)'
    PROVE  Deletable'
BY DEF OrderInv, Deletable, Live

\* Steps of a session in which no packet moves on.
LEMMA Calm ==
    ASSUME OrderInv, Deletable', UNCHANGED <<queue, worker, sent, arrived>>,
           \A s \in Sessions : Live(s)' => /\ Live(s) /\ session'[s].ch = session[s].ch
                                           /\ session'[s].packet \in {session[s].packet, None}
    PROVE  OrderInv'
<1>1. \A p \in Packets : p # None
  BY NatAssumption DEF Packets, None
<1>2. \A k \in 0..4 : \A p \in Packets : At(k, p)' => At(k, p)
  <2> SUFFICES ASSUME NEW k \in 0..4, NEW p \in Packets, At(k, p)' PROVE At(k, p)
    OBVIOUS
  <2>1. CASE k = 1
    <3>1. PICK s \in Sessions : Live(s)' /\ session'[s].packet = p
      BY <2>1 DEF At
    <3>2. Live(s) /\ session[s].packet = p
      BY <3>1, <1>1
    <3>3. QED
      BY <2>1, <3>2 DEF At
  <2>2. CASE k = 2
    <3>1. PICK s \in Sessions : Live(s)' /\ Within(session'[s].ch, p)
      BY <2>2 DEF At
    <3>2. Live(s) /\ Within(session[s].ch, p)
      BY <3>1
    <3>3. QED
      BY <2>2, <3>2 DEF At
  <2>3. CASE k # 1 /\ k # 2
    BY <2>3 DEF At
  <2>4. QED
    BY <2>1, <2>2, <2>3
<1>3. InLine'
  BY <1>2, Shrinks DEF OrderInv
<1>4. Sorted'
  BY DEF OrderInv, Sorted, SentInOrder
<1>5. SentArrived'
  BY <1>2 DEF OrderInv, SentArrived
<1>6. QED
  BY <1>3, <1>4, <1>5 DEF OrderInv

-----------------------------------------------------------------------------
(* The steps *)

\* Nothing is on its way.
LEMMA InitOrderInv == Init => OrderInv
<1> SUFFICES ASSUME Init PROVE OrderInv
  OBVIOUS
<1>1. queue = <<>> /\ worker.packet = None /\ sent = <<>>
  BY DEF Init, Idle
<1>2. \A s \in Sessions : session[s].proc = "end" /\ session[s].closing = "open"
  BY DEF Init, NewSession
<1>3. \A s \in Sessions : ~Live(s)
  BY <1>2 DEF Live
<1>4. \A p \in Packets : p # None
  BY NatAssumption DEF Packets, None
<1>5. \A k, p : p \in Packets => ~At(k, p)
  BY <1>1, <1>3, <1>4 DEF At, Within
<1>6. InLine /\ SentArrived
  BY <1>5 DEF InLine, SentArrived
<1>7. Sorted
  BY <1>1, <1>3 DEF Sorted, Ascending, SentInOrder
<1>8. Deletable
  BY <1>2, <1>3 DEF Deletable
<1>9. QED
  BY <1>6, <1>7, <1>8 DEF OrderInv

\* Everything that is on its way has arrived.
LEMMA OnTheWayArrived ==
    ASSUME NatInv, OwnInv, OrderInv, NEW k \in 0..4, NEW p \in Packets, At(k, p)
    PROVE  p <= arrived
<1>0. arrived \in Nat /\ Packets \subseteq Nat
  BY NatAssumption DEF NatInv, TypeOK, Packets
<1>1. CASE k = 0
  BY <1>1 DEF OrderInv, SentArrived
<1>2. CASE k # 0
  <2>1. PICK a \in Places, s \in Sessions \cup {None} : Holds(a, s, p)
    BY <1>2 DEF At, Holds, Places
  <2>2. p \in 1..arrived
    BY <2>1, HolderIsOwner
  <2>3. QED
    BY <2>2, <1>0
<1>3. QED
  BY <1>1, <1>2

\* A packet arrives, behind all others.
LEMMA ArrivesOrder ==
    ASSUME NatInv, OwnInv, OrderInv, NEW o \in Origins, HandleUDPPacket(o)
    PROVE  OrderInv'
<1>1. PICK x \in Packets : x = arrived + 1 /\ arrived' = x /\ arrived \in Nat
  BY NatAssumption DEF NatInv, TypeOK, HandleUDPPacket, Packets
<1>2. UNCHANGED <<worker, session, sent>> /\ queue \in Seq(Packets) /\ Packets \subseteq Nat
  BY NatAssumption DEF HandleUDPPacket, NatInv, TypeOK, Packets
<1>3. \A k \in 0..4 : \A p \in Packets : At(k, p) => p < x
  BY <1>1, <1>2, OnTheWayArrived
<1>4. /\ Ascending(queue')
      /\ \A k \in 0..4 : \A p \in Packets : At(k, p)' => At(k, p) \/ (k = 4 /\ p = x)
  <2>1. CASE queue' = Append(queue, x)
    <3>1. \A p : Within(queue', p) <=> Within(queue, p) \/ p = x
      BY <2>1, <1>2, Appended
    <3>2. \A p \in Packets : Within(queue, p) => p < x
      BY <1>3 DEF At
    <3>3. Ascending(queue')
      BY <2>1, <3>2, <1>2, AscendingAppend DEF OrderInv, Sorted
    <3>4. \A s \in Sessions : Live(s)' <=> Live(s)
      BY <1>2 DEF Live
    <3>5. QED
      BY <3>1, <3>3, <3>4, <1>2 DEF At
  <2>2. CASE queue' = queue
    <3>1. \A s \in Sessions : Live(s)' <=> Live(s)
      BY <1>2 DEF Live
    <3>2. QED
      BY <2>2, <3>1, <1>2 DEF At, OrderInv, Sorted
  <2>3. QED
    BY <2>1, <2>2, <1>1 DEF HandleUDPPacket
<1>5. InLine'
  <2> SUFFICES ASSUME NEW j \in 0..4, NEW k \in 0..4, NEW p \in Packets, NEW q \in Packets,
                      j < k, At(j, p)', At(k, q)'
               PROVE  p < q
    BY DEF InLine
  <2>1. At(j, p)
    BY <1>4
  <2>2. CASE At(k, q)
    BY <2>1, <2>2 DEF OrderInv, InLine
  <2>3. CASE q = x
    BY <2>1, <2>3, <1>3
  <2>4. QED
    BY <2>2, <2>3, <1>4
<1>6. Sorted'
  BY <1>2, <1>4 DEF OrderInv, Sorted, SentInOrder, Live
<1>7. Deletable'
  BY <1>2 DEF OrderInv, Deletable, Live
<1>8. SentArrived'
  <2>1. ASSUME NEW p \in Packets, At(0, p)' PROVE p <= arrived'
    <3>1. At(0, p)
      BY <2>1, <1>4
    <3>2. p < x
      BY <3>1, <1>3
    <3>3. QED
      BY <3>2, <1>1, <1>2
  <2>2. QED
    BY <2>1 DEF SentArrived
<1>9. QED
  BY <1>5, <1>6, <1>7, <1>8 DEF OrderInv

\* A packet leaves the queue without being handled.
LEMMA RefuseOrder ==
    ASSUME NatInv, OrderInv, Refuse
    PROVE  OrderInv'
<1>1. UNCHANGED <<worker, session, sent, arrived>> /\ queue' = Tail(queue)
      /\ queue \in Seq(Packets) /\ queue # <<>>
  BY DEF Refuse, NatInv, TypeOK
<1>2. Ascending(queue') /\ \A p : Within(queue', p) => Within(queue, p)
  BY <1>1, Taken, AscendingTail DEF OrderInv, Sorted
<1>3. \A s \in Sessions : Live(s)' <=> Live(s)
  BY <1>1 DEF Live
<1>4. \A k \in 0..4 : \A p \in Packets : At(k, p)' => At(k, p)
  BY <1>1, <1>2, <1>3 DEF At
<1>5. InLine'
  BY <1>4, Shrinks DEF OrderInv
<1>6. Sorted' /\ Deletable'
  BY <1>1, <1>2, <1>3 DEF OrderInv, Sorted, SentInOrder, Deletable
<1>7. SentArrived'
  BY <1>1, <1>4 DEF OrderInv, SentArrived
<1>8. QED
  BY <1>5, <1>6, <1>7 DEF OrderInv

\* The worker takes the first packet of its queue.
LEMMA GetOrCreateOrder ==
    ASSUME NatInv, OrderInv, GetOrCreate
    PROVE  OrderInv'
<1>1. UNCHANGED <<sent, arrived>> /\ queue' = Tail(queue) /\ queue \in Seq(Packets) /\ queue # <<>>
  BY DEF GetOrCreate, NatInv, TypeOK
<1>2. PICK x \in Packets : x = Head(queue)
  BY <1>1, Taken
<1>3. /\ Within(queue, x) /\ \A p : Within(queue', p) => Within(queue, p)
      /\ Ascending(queue') /\ \A p \in Packets : Within(queue', p) => x < p
  BY <1>1, <1>2, Taken, AscendingTail DEF OrderInv, Sorted
<1>4. worker'.packet = x
  BY <1>2 DEF GetOrCreate
<1>5. \A s \in Sessions :
        \/ session'[s] = session[s]
        \/ /\ session'[s].ch = <<>> /\ session'[s].packet = None /\ session'[s].proc = "dial"
           /\ session'[s].closing = "open"
  <2>1. CASE nat = None
    <3>1. session' = [session EXCEPT ![made'] = NewSession(Head(queue))]
      BY <2>1 DEF GetOrCreate
    <3>2. \A s \in Sessions : session'[s] = session[s] \/ session'[s] = NewSession(Head(queue))
      BY <3>1 DEF NatInv, TypeOK
    <3>3. QED
      BY <3>2 DEF NewSession
  <2>2. CASE nat # None
    BY <2>2 DEF GetOrCreate
  <2>3. QED
    BY <2>1, <2>2
<1>6. \A p \in Packets : p # None
  BY NatAssumption DEF Packets, None
<1>7. \A k \in 0..4 : \A p \in Packets : At(k, p)' => At(k, p) \/ (k = 3 /\ p = x)
  <2> SUFFICES ASSUME NEW k \in 0..4, NEW p \in Packets, At(k, p)'
               PROVE  At(k, p) \/ (k = 3 /\ p = x)
    OBVIOUS
  <2>1. CASE k = 1
    <3>1. PICK s \in Sessions : Live(s)' /\ session'[s].packet = p
      BY <2>1 DEF At
    <3>2. session'[s] = session[s]
      BY <3>1, <1>5, <1>6
    <3>3. QED
      BY <2>1, <3>1, <3>2 DEF At, Live
  <2>2. CASE k = 2
    <3>1. PICK s \in Sessions : Live(s)' /\ Within(session'[s].ch, p)
      BY <2>2 DEF At
    <3>2. session'[s] = session[s]
      BY <3>1, <1>5 DEF Within
    <3>3. QED
      BY <2>2, <3>1, <3>2 DEF At, Live
  <2>3. CASE k # 1 /\ k # 2
    BY <2>3, <1>1, <1>3, <1>4 DEF At
  <2>4. QED
    BY <2>1, <2>2, <2>3
<1>8. At(4, x) /\ \A q \in Packets : At(4, q)' => x < q
  BY <1>3 DEF At
<1>9. InLine'
  <2>1. 3 \in 0..3 /\ 3 + 1 = 4
    OBVIOUS
  <2>2. QED
    BY <2>1, <1>7, <1>8, Advances DEF OrderInv
<1>10. Sorted'
  <2>1. ASSUME NEW s \in Sessions, Live(s)' PROVE Ascending(session'[s].ch)
    BY <2>1, <1>5 DEF OrderInv, Sorted, Live, Ascending
  <2>2. QED
    BY <2>1, <1>1, <1>3 DEF OrderInv, Sorted, SentInOrder
<1>11. Deletable'
  BY <1>5 DEF OrderInv, Deletable, Live
<1>12. SentArrived'
  BY <1>1 DEF OrderInv, SentArrived, At
<1>13. QED
  BY <1>9, <1>10, <1>11, <1>12 DEF OrderInv

\* Send goes on or drops its packet.
LEMMA SendDropsOrder ==
    ASSUME OrderInv, UNCHANGED <<queue, session, sent, arrived>>,
           worker'.packet \in {worker.packet, None}
    PROVE  OrderInv'
<1>1. \A p \in Packets : p # None
  BY NatAssumption DEF Packets, None
<1>2. \A s \in Sessions : Live(s)' <=> Live(s)
  BY DEF Live
<1>3. \A k \in 0..4 : \A p \in Packets : At(k, p)' => At(k, p)
  BY <1>1, <1>2 DEF At
<1>4. InLine'
  BY <1>3, Shrinks DEF OrderInv
<1>5. Sorted' /\ Deletable'
  BY <1>2 DEF OrderInv, Sorted, SentInOrder, Deletable
<1>6. SentArrived'
  BY <1>3 DEF OrderInv, SentArrived
<1>7. QED
  BY <1>4, <1>5, <1>6 DEF OrderInv

\* The two selects of Send: a live session takes the packet behind all it has.
LEMMA SendOrder ==
    ASSUME NatInv, OrderInv, SendCheck \/ SendPut
    PROVE  OrderInv'
<1>1. UNCHANGED <<queue, sent, arrived>>
  BY DEF SendCheck, SendPut
<1>2. CASE session' = session
  <2>1. worker'.packet \in {worker.packet, None}
    BY DEF SendCheck, SendPut, Idle, NatInv, TypeOK
  <2>2. QED
    BY <1>1, <1>2, <2>1, SendDropsOrder
<1>3. CASE SendPut /\ session' # session
  <2>1. /\ worker' = Idle /\ worker.packet \in Packets /\ worker.sender \in 1..made
        /\ session' = [session EXCEPT ![worker.sender].ch = Append(@, worker.packet)]
    BY <1>3 DEF SendPut, NatInv, WorkerHolds
  <2>2. worker.sender \in Sessions
    BY <2>1, NatAssumption DEF NatInv, TypeOK, Sessions
  <2>3. PICK x \in Packets, s \in Sessions : x = worker.packet /\ s = worker.sender
    BY <2>1, <2>2
  <2>4. session[s] \in SessionType /\ session[s].ch \in Seq(Packets)
    BY DEF NatInv, TypeOK, SessionType
  <2>5. /\ session'[s].ch = Append(session[s].ch, x) /\ session'[s].packet = session[s].packet
        /\ session'[s].proc = session[s].proc /\ session'[s].conn = session[s].conn
        /\ session'[s].closing = session[s].closing
        /\ \A t \in Sessions : t # s => session'[t] = session[t]
    BY <2>1, <2>3, <2>4 DEF NatInv, TypeOK, SessionType
  <2>6. \A t \in Sessions : (Live(t)' <=> Live(t)) /\ session'[t].packet = session[t].packet
    BY <2>5 DEF Live
  <2>7. \A p : Within(session'[s].ch, p) <=> Within(session[s].ch, p) \/ p = x
    BY <2>4, <2>5, Appended
  <2>8. worker'.packet = None /\ \A p \in Packets : p # None
    BY <2>1, NatAssumption DEF Idle, Packets, None
  <2>9. At(3, x) /\ \A q \in Packets : ~At(3, q)'
    BY <2>3, <2>8 DEF At
  <2>10. \A k \in 0..4 : \A p \in Packets : At(k, p)' => At(k, p) \/ (k = 2 /\ p = x)
    <3> SUFFICES ASSUME NEW k \in 0..4, NEW p \in Packets, At(k, p)'
                 PROVE  At(k, p) \/ (k = 2 /\ p = x)
      OBVIOUS
    <3>1. CASE k = 2
      <4>1. PICK t \in Sessions : Live(t)' /\ Within(session'[t].ch, p)
        BY <3>1 DEF At
      <4>2. Live(t) /\ (Within(session[t].ch, p) \/ p = x)
        BY <4>1, <2>5, <2>6, <2>7
      <4>3. QED
        BY <3>1, <4>2 DEF At
    <3>2. CASE k = 1
      BY <3>2, <2>6 DEF At
    <3>3. CASE k # 1 /\ k # 2
      BY <3>3, <1>1, <2>8 DEF At
    <3>4. QED
      BY <3>1, <3>2, <3>3
  <2>11. InLine'
    <3>1. 2 \in 0..3 /\ 2 + 1 = 3
      OBVIOUS
    <3>2. QED
      BY <3>1, <2>9, <2>10, Advances DEF OrderInv
  <2>12. ASSUME NEW t \in Sessions, Live(t)' PROVE Ascending(session'[t].ch)
    <3>1. Live(t) /\ Ascending(session[t].ch)
      BY <2>12, <2>6 DEF OrderInv, Sorted
    <3>2. CASE t = s
      <4>1. \A p \in Packets : Within(session[s].ch, p) => At(2, p)
        BY <3>1, <3>2 DEF At
      <4>2. \A p \in Packets : Within(session[s].ch, p) => p < x
        BY <4>1, <2>9 DEF OrderInv, InLine
      <4>3. QED
        BY <3>1, <3>2, <4>2, <2>4, <2>5, AscendingAppend
    <3>3. CASE t # s
      BY <3>1, <3>3, <2>5
    <3>4. QED
      BY <3>2, <3>3
  <2>13. Sorted'
    BY <2>12, <1>1 DEF OrderInv, Sorted, SentInOrder
  <2>14. Deletable'
    <3>1. /\ session'[s].proc \in {"loop", "packet", "write"} => session'[s].conn # "none"
          /\ session'[s].closing = "gone" => ~Live(s)'
      BY <2>5, <2>6 DEF OrderInv, Deletable
    <3>2. QED
      BY <3>1, <2>5, DeletableKept
  <2>15. SentArrived'
    BY <1>1 DEF OrderInv, SentArrived, At
  <2>16. QED
    BY <2>11, <2>13, <2>14, <2>15 DEF OrderInv
<1>4. QED
  BY <1>2, <1>3 DEF SendCheck

\* Process takes the first packet of the channel.
LEMMA ReceiveOrder ==
    ASSUME NatInv, OrderInv, NEW s \in Sessions, Receive(s)
    PROVE  OrderInv'
<1>1. /\ session[s] \in SessionType /\ session[s].ch \in Seq(Packets) /\ session[s].ch # <<>>
      /\ session[s].proc = "loop"
  BY DEF Receive, NatInv, TypeOK, SessionType
<1>2. PICK x \in Packets : x = Head(session[s].ch)
  BY <1>1, Taken
<1>3. UNCHANGED <<queue, worker, sent, arrived>>
  BY DEF Receive
<1>4. /\ session'[s].ch = Tail(session[s].ch) /\ session'[s].packet = x
      /\ session'[s].proc = "packet" /\ session'[s].conn = session[s].conn
      /\ session'[s].closing = session[s].closing
      /\ \A t \in Sessions : t # s => session'[t] = session[t]
  BY <1>1, <1>2 DEF Receive, NatInv, TypeOK, SessionType
<1>5. \A t \in Sessions : Live(t)' <=> Live(t)
  BY <1>1, <1>4 DEF Live
<1>6. /\ Within(session[s].ch, x)
      /\ \A p : Within(session'[s].ch, p) => Within(session[s].ch, p)
  BY <1>1, <1>2, <1>4, Taken
<1>7. Deletable'
  <2>1. /\ session'[s].conn # "none"
        /\ session'[s].closing = "gone" => ~Live(s)'
    BY <1>1, <1>4, <1>5 DEF OrderInv, Deletable
  <2>2. QED
    BY <2>1, <1>4, DeletableKept
<1>8. SentArrived'
  BY <1>3 DEF OrderInv, SentArrived, At
<1>9. CASE Live(s)
  <2>1. /\ Ascending(session'[s].ch)
        /\ \A p \in Packets : Within(session'[s].ch, p) => x < p
    BY <1>1, <1>2, <1>4, <1>9, AscendingTail DEF OrderInv, Sorted
  <2>2. At(2, x)
    BY <1>6, <1>9 DEF At
  <2>3. ASSUME NEW q \in Packets, At(2, q)' PROVE x < q
    <3>1. PICK t \in Sessions : Live(t)' /\ Within(session'[t].ch, q)
      BY <2>3 DEF At
    <3>2. t = s
      BY <3>1, <1>5, <1>9, OneLive
    <3>3. QED
      BY <3>1, <3>2, <2>1
  <2>4. \A k \in 0..4 : \A p \in Packets : At(k, p)' => At(k, p) \/ (k = 1 /\ p = x)
    <3> SUFFICES ASSUME NEW k \in 0..4, NEW p \in Packets, At(k, p)'
                 PROVE  At(k, p) \/ (k = 1 /\ p = x)
      OBVIOUS
    <3>1. CASE k = 1
      <4>1. PICK t \in Sessions : Live(t)' /\ session'[t].packet = p
        BY <3>1 DEF At
      <4>2. t = s
        BY <4>1, <1>5, <1>9, OneLive
      <4>3. QED
        BY <3>1, <4>1, <4>2, <1>4
    <3>2. CASE k = 2
      <4>1. PICK t \in Sessions : Live(t)' /\ Within(session'[t].ch, p)
        BY <3>2 DEF At
      <4>2. Live(t) /\ Within(session[t].ch, p)
        BY <4>1, <1>4, <1>5, <1>6
      <4>3. QED
        BY <3>2, <4>2 DEF At
    <3>3. CASE k # 1 /\ k # 2
      BY <3>3, <1>3 DEF At
    <3>4. QED
      BY <3>1, <3>2, <3>3
  <2>5. InLine'
    <3>1. 1 \in 0..3 /\ 1 + 1 = 2
      OBVIOUS
    <3>2. QED
      BY <3>1, <2>2, <2>3, <2>4, Advances DEF OrderInv
  <2>6. Sorted'
    <3>1. ASSUME NEW t \in Sessions, Live(t)' PROVE Ascending(session'[t].ch)
      BY <3>1, <2>1, <1>4, <1>5 DEF OrderInv, Sorted
    <3>2. QED
      BY <3>1, <1>3 DEF OrderInv, Sorted, SentInOrder
  <2>7. QED
    BY <2>5, <2>6, <1>7, <1>8 DEF OrderInv
<1>10. CASE ~Live(s)
  <2>1. \A t \in Sessions : Live(t)' => /\ Live(t) /\ session'[t].ch = session[t].ch
                                        /\ session'[t].packet \in {session[t].packet, None}
    BY <1>4, <1>5, <1>10
  <2>2. QED
    BY <2>1, <1>3, <1>7, Calm
<1>11. QED
  BY <1>9, <1>10

\* The closing goroutine drops the first packet of the channel.
LEMMA DropOneOrder ==
    ASSUME NatInv, OrderInv, NEW s \in Sessions, DropOne(s)
    PROVE  OrderInv'
<1>1. session[s] \in SessionType /\ session[s].ch \in Seq(Packets) /\ session[s].ch # <<>>
  BY DEF DropOne, NatInv, TypeOK, SessionType
<1>2. UNCHANGED <<queue, worker, sent, arrived>>
  BY DEF DropOne
<1>3. /\ session'[s].ch = Tail(session[s].ch) /\ session'[s].packet = session[s].packet
      /\ session'[s].proc = session[s].proc /\ session'[s].conn = session[s].conn
      /\ session'[s].closing = session[s].closing
      /\ \A t \in Sessions : t # s => session'[t] = session[t]
  BY <1>1 DEF DropOne, NatInv, TypeOK, SessionType
<1>4. \A t \in Sessions : (Live(t)' <=> Live(t)) /\ session'[t].packet = session[t].packet
  BY <1>3 DEF Live
<1>5. /\ \A p : Within(session'[s].ch, p) => Within(session[s].ch, p)
      /\ Ascending(session[s].ch) => Ascending(session'[s].ch)
  BY <1>1, <1>3, Taken, AscendingTail
<1>6. \A k \in 0..4 : \A p \in Packets : At(k, p)' => At(k, p)
  <2> SUFFICES ASSUME NEW k \in 0..4, NEW p \in Packets, At(k, p)' PROVE At(k, p)
    OBVIOUS
  <2>1. CASE k = 2
    <3>1. PICK t \in Sessions : Live(t)' /\ Within(session'[t].ch, p)
      BY <2>1 DEF At
    <3>2. Live(t) /\ Within(session[t].ch, p)
      BY <3>1, <1>3, <1>4, <1>5
    <3>3. QED
      BY <2>1, <3>2 DEF At
  <2>2. CASE k = 1
    BY <2>2, <1>4 DEF At
  <2>3. CASE k # 1 /\ k # 2
    BY <2>3, <1>2 DEF At
  <2>4. QED
    BY <2>1, <2>2, <2>3
<1>7. InLine'
  BY <1>6, Shrinks DEF OrderInv
<1>8. Sorted'
  <2>1. ASSUME NEW t \in Sessions, Live(t)' PROVE Ascending(session'[t].ch)
    BY <2>1, <1>3, <1>4, <1>5 DEF OrderInv, Sorted
  <2>2. QED
    BY <2>1, <1>2 DEF OrderInv, Sorted, SentInOrder
<1>9. Deletable'
  <2>1. /\ session'[s].proc \in {"loop", "packet", "write"} => session'[s].conn # "none"
        /\ session'[s].closing = "gone" => ~Live(s)'
    BY <1>3, <1>4 DEF OrderInv, Deletable
  <2>2. QED
    BY <2>1, <1>3, DeletableKept
<1>10. SentArrived'
  BY <1>2, <1>6 DEF OrderInv, SentArrived
<1>11. QED
  BY <1>7, <1>8, <1>9, <1>10 DEF OrderInv

\* Process writes its packet, if the connection is still open, and drops it.
LEMMA WriteOrder ==
    ASSUME NatInv, OwnInv, OrderInv, NEW s \in Sessions, Write(s)
    PROVE  OrderInv'
<1> DEFINE Entry == [packet : Packets, session : Sessions, target : Targets \cup {Invalid}]
<1>1. /\ session[s] \in SessionType /\ session[s].proc = "write"
      /\ session[s].packet \in Packets /\ session[s].addr \in Targets \cup {Invalid}
  <2>1. session[s] \in SessionType /\ session[s].proc = "write"
    BY DEF Write, NatInv, TypeOK
  <2>2. session[s].packet # None
    BY <2>1 DEF NatInv, ProcessHolds
  <2>3. QED
    BY <2>1, <2>2 DEF SessionType
<1>2. PICK x \in Packets : x = session[s].packet
  BY <1>1
<1>3. UNCHANGED <<queue, worker, arrived>>
  BY DEF Write
<1>4. /\ session'[s].ch = session[s].ch /\ session'[s].packet = None
      /\ session'[s].proc = "loop" /\ session'[s].conn = session[s].conn
      /\ session'[s].closing = session[s].closing
      /\ \A t \in Sessions : t # s => session'[t] = session[t]
  BY <1>1 DEF Write, NatInv, TypeOK, SessionType
<1>5. \A t \in Sessions : (Live(t)' <=> Live(t)) /\ session'[t].ch = session[t].ch
  BY <1>1, <1>4 DEF Live
<1>6. Deletable'
  <2>1. /\ session'[s].conn # "none"
        /\ session'[s].closing = "gone" => ~Live(s)'
    BY <1>1, <1>4, <1>5 DEF OrderInv, Deletable
  <2>2. QED
    BY <2>1, <1>4, DeletableKept
<1>7. CASE session[s].conn # "open"
  <2>1. sent' = sent
    BY <1>7 DEF Write
  <2>2. \A t \in Sessions : Live(t)' => /\ Live(t) /\ session'[t].ch = session[t].ch
                                        /\ session'[t].packet \in {session[t].packet, None}
    BY <1>4, <1>5
  <2>3. QED
    BY <2>1, <2>2, <1>3, <1>6, Calm
<1>8. CASE session[s].conn = "open"
  <2> DEFINE e == [packet |-> x, session |-> s, target |-> session[s].addr]
  <2>1. sent' = Append(sent, e)
    BY <1>2, <1>8 DEF Write
  <2>2. sent \in Seq(Entry)
    BY DEF NatInv, TypeOK
  <2>3. e.packet = x
    OBVIOUS
  <2> HIDE DEF e, Entry
  <2>4. /\ DOMAIN sent = 1..Len(sent) /\ DOMAIN sent' = 1..(Len(sent) + 1) /\ Len(sent) \in Nat
        /\ \A i \in 1..Len(sent) : sent[i] \in Entry /\ sent'[i] = sent[i]
        /\ sent'[Len(sent) + 1] = e
    BY <2>1, <2>2
  <2>5. \A i \in 1..Len(sent) : sent[i].packet \in Packets
    BY <2>4 DEF Entry
  <2>6. Live(s) /\ At(1, x)
    BY <1>1, <1>2, <1>8 DEF Live, At
  <2>7. \A q \in Packets : q # None
    BY NatAssumption DEF Packets, None
  <2>8. ASSUME NEW q \in Packets, At(1, q)' PROVE FALSE
    <3>1. PICK t \in Sessions : Live(t)' /\ session'[t].packet = q
      BY <2>8 DEF At
    <3>2. t = s
      BY <3>1, <1>5, <2>6, OneLive
    <3>3. QED
      BY <3>1, <3>2, <1>4, <2>7
  <2>9. \A k \in 0..4 : \A p \in Packets : At(k, p)' => At(k, p) \/ (k = 0 /\ p = x)
    <3> SUFFICES ASSUME NEW k \in 0..4, NEW p \in Packets, At(k, p)'
                 PROVE  At(k, p) \/ (k = 0 /\ p = x)
      OBVIOUS
    <3>1. CASE k = 0
      <4>1. PICK i \in 1..(Len(sent) + 1) : sent'[i].packet = p
        BY <3>1, <2>4 DEF At
      <4>2. CASE i = Len(sent) + 1
        BY <3>1, <4>1, <4>2, <2>3, <2>4
      <4>3. CASE i # Len(sent) + 1
        <5>1. i \in 1..Len(sent) /\ sent[i].packet = p
          BY <4>1, <4>3, <2>4
        <5>2. QED
          BY <3>1, <5>1, <2>4 DEF At
      <4>4. QED
        BY <4>2, <4>3
    <3>2. CASE k = 1
      BY <3>2, <2>8
    <3>3. CASE k = 2
      BY <3>3, <1>5 DEF At
    <3>4. CASE k = 3 \/ k = 4
      BY <3>4, <1>3 DEF At
    <3>5. QED
      BY <3>1, <3>2, <3>3, <3>4
  <2>10. InLine'
    <3>1. 0 \in 0..3 /\ 0 + 1 = 1
      OBVIOUS
    <3>2. QED
      BY <3>1, <2>6, <2>8, <2>9, Advances DEF OrderInv
  <2>11. Sorted'
    <3>1. \A i \in 1..Len(sent) : At(0, sent[i].packet)
      BY <2>4 DEF At
    <3>2. \A i \in 1..Len(sent) : sent[i].packet < x
      BY <3>1, <2>5, <2>6 DEF OrderInv, InLine
    <3>3. \A i, j \in 1..Len(sent) : i < j => sent[i].packet < sent[j].packet
      BY <2>4 DEF OrderInv, Sorted, SentInOrder
    <3>4. \A i, j \in 1..(Len(sent) + 1) : i < j => sent'[i].packet < sent'[j].packet
      <4> SUFFICES ASSUME NEW i \in 1..(Len(sent) + 1), NEW j \in 1..(Len(sent) + 1), i < j
                   PROVE  sent'[i].packet < sent'[j].packet
        OBVIOUS
      <4>1. i \in 1..Len(sent)
        BY <2>4
      <4>2. CASE j = Len(sent) + 1
        BY <4>1, <4>2, <3>2, <2>3, <2>4
      <4>3. CASE j # Len(sent) + 1
        <5>1. j \in 1..Len(sent)
          BY <4>3, <2>4
        <5>2. QED
          BY <4>1, <5>1, <3>3, <2>4
      <4>4. QED
        BY <4>2, <4>3
    <3>5. SentInOrder'
      BY <3>4, <2>4 DEF SentInOrder
    <3>6. QED
      BY <3>5, <1>3, <1>5 DEF OrderInv, Sorted
  <2>12. SentArrived'
    <3>1. x <= arrived
      BY <2>6, OnTheWayArrived
    <3>2. QED
      BY <3>1, <2>9, <1>3 DEF OrderInv, SentArrived
  <2>13. QED
    BY <2>10, <2>11, <2>12, <1>6 DEF OrderInv
<1>9. QED
  BY <1>7, <1>8

\* Steps of a session in which no packet moves on.
LEMMA CalmStep ==
    ASSUME OrderInv, NEW s \in Sessions, UNCHANGED <<queue, worker, sent, arrived>>,
           \A t \in Sessions : t # s => session'[t] = session[t],
           session'[s].ch = session[s].ch,
           session'[s].packet \in {session[s].packet, None},
           Live(s)' => Live(s),
           session'[s].proc \in {"loop", "packet", "write"} => session'[s].conn # "none",
           session'[s].closing = "gone" => ~Live(s)'
    PROVE  OrderInv'
<1>1. Deletable'
  BY DeletableKept
<1>2. \A t \in Sessions : Live(t)' => /\ Live(t) /\ session'[t].ch = session[t].ch
                                      /\ session'[t].packet \in {session[t].packet, None}
  <2> SUFFICES ASSUME NEW t \in Sessions, Live(t)'
               PROVE  /\ Live(t) /\ session'[t].ch = session[t].ch
                      /\ session'[t].packet \in {session[t].packet, None}
    OBVIOUS
  <2>1. CASE t = s
    BY <2>1
  <2>2. CASE t # s
    BY <2>2 DEF Live
  <2>3. QED
    BY <2>1, <2>2
<1>3. QED
  BY <1>1, <1>2, Calm

\* A dial succeeds, or an address is looked up: the maps of the session change.
LEMMA MappingOrder ==
    ASSUME NatInv, OwnInv, OrderInv, NEW s \in Sessions, DialOk(s) \/ Resolve(s)
    PROVE  OrderInv'
<1>1. UNCHANGED <<queue, worker, arrived, sent>>
  BY DEF DialOk, Resolve
<1>2. session \in [Sessions -> SessionType] /\ session[s] \in SessionType
  BY DEF NatInv, TypeOK
<1>3. CASE DialOk(s)
  <2>1. PICK t \in Targets \cup {Invalid} :
          session' = [session EXCEPT ![s] =
              [WithMapping(session[s], dest[session[s].first], t) EXCEPT !.proc = "loop",
                                                                        !.conn = "open"]]
    BY <1>3 DEF DialOk
  <2> DEFINE m == WithMapping(session[s], dest[session[s].first], t)
             r == [m EXCEPT !.proc = "loop", !.conn = "open"]
  <2>2. session[s].proc = "dial"
    BY <1>3 DEF DialOk
  <2>3. session[s].first \in Packets /\ session[s].closing = "open" /\ session[s].conn = "none"
    BY <2>2 DEF NatInv, ProcessHolds
  <2>4. dest[session[s].first] \in Origins \cup {Invalid}
    BY <2>3 DEF NatInv, TypeOK
  <2>5. m \in SessionType /\ m.ch = session[s].ch /\ m.packet = session[s].packet
        /\ m.closing = session[s].closing
    BY <1>2, <2>4, Mapping
  <2>6. session' = [session EXCEPT ![s] = r]
    BY <2>1
  <2> HIDE DEF m
  <2>7. r.ch = session[s].ch /\ r.packet = session[s].packet /\ r.closing = "open"
        /\ r.proc = "loop" /\ r.conn = "open"
    BY <2>3, <2>5 DEF SessionType
  <2> HIDE DEF r
  <2>8. session'[s] = r /\ \A u \in Sessions : u # s => session'[u] = session[u]
    BY <1>2, <2>6
  <2>9. Live(s)
    BY <2>2, <2>3 DEF Live
  <2>10. QED
    BY <1>1, <2>7, <2>8, <2>9, CalmStep
<1>4. CASE Resolve(s)
  <2> DEFINE o == dest[session[s].packet]
             known == session[s].originToTarget[o]
  <2>1. session[s].proc = "packet"
    BY <1>4 DEF Resolve
  <2>2. o \in Origins
    BY <2>1, ProcessAddress
  <2>3. PICK r : /\ session' = [session EXCEPT ![s] = r]
                 /\ r.ch = session[s].ch /\ r.packet = session[s].packet /\ r.proc = "write"
                 /\ r.conn = session[s].conn /\ r.closing = session[s].closing
    <3>1. CASE known # Invalid
      <4> DEFINE r == [session[s] EXCEPT !.proc = "write", !.addr = known]
      <4>1. session' = [session EXCEPT ![s].proc = "write", ![s].addr = known]
        BY <1>4, <3>1 DEF Resolve
      <4>2. session' = [session EXCEPT ![s] = r]
        BY <4>1
      <4>3. r.ch = session[s].ch /\ r.packet = session[s].packet /\ r.proc = "write"
            /\ r.conn = session[s].conn /\ r.closing = session[s].closing
        BY <1>2 DEF SessionType
      <4> HIDE DEF r
      <4>4. QED
        BY <4>2, <4>3
    <3>2. CASE known = Invalid
      <4>1. PICK t \in Targets :
              session' = [session EXCEPT ![s] =
                  [WithMapping(session[s], o, t) EXCEPT !.proc = "write", !.addr = t]]
        BY <1>4, <3>2 DEF Resolve
      <4> DEFINE m == WithMapping(session[s], o, t)
                 r == [m EXCEPT !.proc = "write", !.addr = t]
      <4>2. m \in SessionType /\ m.ch = session[s].ch /\ m.packet = session[s].packet
            /\ m.conn = session[s].conn /\ m.closing = session[s].closing
        BY <1>2, <2>2, Mapping
      <4>3. session' = [session EXCEPT ![s] = r]
        BY <4>1
      <4> HIDE DEF m
      <4>4. r.ch = session[s].ch /\ r.packet = session[s].packet /\ r.proc = "write"
            /\ r.conn = session[s].conn /\ r.closing = session[s].closing
        BY <4>2 DEF SessionType
      <4> HIDE DEF r
      <4>5. QED
        BY <4>3, <4>4
    <3>3. QED
      BY <3>1, <3>2
  <2>4. session'[s] = r /\ \A u \in Sessions : u # s => session'[u] = session[u]
    BY <1>2, <2>3
  <2>5. (Live(s)' <=> Live(s)) /\ session'[s].conn # "none"
    BY <2>1, <2>3, <2>4 DEF Live, OrderInv, Deletable
  <2>6. session'[s].closing = "gone" => ~Live(s)'
    BY <2>3, <2>4, <2>5 DEF OrderInv, Deletable
  <2>7. session'[s].ch = session[s].ch /\ session'[s].packet = session[s].packet
    BY <2>3, <2>4
  <2>8. QED
    BY <1>1, <2>4, <2>5, <2>6, <2>7, CalmStep
<1>5. QED
  BY <1>3, <1>4

\* The steps that end a dial, a lookup, a session or one of its goroutines.
LEMMA EndingOrder ==
    ASSUME NatInv, OrderInv, NEW s \in Sessions,
           \/ DialFail(s) \/ ProcessReturns(s) \/ ReadEnds(s) \/ ResolveFails(s)
           \/ DropAllEnds(s) \/ CloseConn(s) \/ Delete(s)
    PROVE  OrderInv'
<1>1. UNCHANGED <<queue, worker, arrived, sent>>
  BY DEF DialFail, ProcessReturns, ReadEnds, ResolveFails, DropAllEnds, CloseConn, Delete
<1>2. session \in [Sessions -> SessionType] /\ session[s] \in SessionType
  BY DEF NatInv, TypeOK
<1>3. /\ \A t \in Sessions : t # s => session'[t] = session[t]
      /\ session'[s].ch = session[s].ch /\ session'[s].packet \in {session[s].packet, None}
      /\ \/ /\ session'[s].proc \in {session[s].proc, "end"}
            /\ session'[s].conn \in {session[s].conn, "closed"}
         \/ /\ session[s].proc = "packet" /\ session'[s].proc = "loop"
            /\ session'[s].conn = session[s].conn
      /\ \/ session'[s].closing \in {session[s].closing, "cancelled", "drained"}
         \/ Delete(s)
  <2>1. CASE DialFail(s)
    BY <2>1, <1>2 DEF DialFail, SessionType
  <2>2. CASE ProcessReturns(s)
    BY <2>2, <1>2 DEF ProcessReturns, SessionType
  <2>3. CASE ReadEnds(s)
    BY <2>3, <1>2 DEF ReadEnds, SessionType
  <2>4. CASE ResolveFails(s)
    BY <2>4, <1>2 DEF ResolveFails, SessionType
  <2>5. CASE DropAllEnds(s)
    BY <2>5, <1>2 DEF DropAllEnds, SessionType
  <2>6. CASE CloseConn(s)
    BY <2>6, <1>2 DEF CloseConn, SessionType
  <2>7. CASE Delete(s)
    BY <2>7, <1>2 DEF Delete, SessionType
  <2>8. QED
    BY <2>1, <2>2, <2>3, <2>4, <2>5, <2>6, <2>7
<1>4. Live(s)' => Live(s)
  BY <1>3 DEF Live
<1>5. session'[s].proc \in {"loop", "packet", "write"} => session'[s].conn # "none"
  BY <1>3 DEF OrderInv, Deletable
<1>6. session'[s].closing = "gone" => ~Live(s)'
  <2>1. CASE Delete(s)
    <3>1. session[s].closing = "drained" /\ session[s].conn # "open"
      BY <2>1 DEF Delete
    <3>2. session[s].proc # "dial"
      BY <3>1 DEF NatInv, ProcessHolds
    <3>3. session[s].conn = "none" => session[s].proc = "end"
      BY <3>2, <1>2 DEF OrderInv, Deletable, SessionType
    <3>4. ~Live(s)
      BY <3>1, <3>3, <1>2 DEF Live, SessionType
    <3>5. QED
      BY <3>4, <1>4
  <2>2. CASE ~Delete(s)
    BY <2>2, <1>3, <1>4 DEF OrderInv, Deletable
  <2>3. QED
    BY <2>1, <2>2
<1>7. QED
  BY <1>1, <1>3, <1>4, <1>5, <1>6, CalmStep

-----------------------------------------------------------------------------
(* The theorem *)

LineInv == UdpInv /\ OrderInv

\* Every step keeps the line.
LEMMA NextLineInv ==
    ASSUME LineInv, [Next]_vars
    PROVE  LineInv'
<1>1. NatInv /\ OwnInv /\ OrderInv
  BY DEF LineInv, UdpInv
<1>2. UdpInv'
  BY NextUdpInv DEF LineInv
<1>3. CASE \E o \in Origins : HandleUDPPacket(o)
  BY <1>1, <1>2, <1>3, ArrivesOrder DEF LineInv
<1>4. CASE Worker
  <2>1. OrderInv'
    BY <1>1, <1>4, RefuseOrder, GetOrCreateOrder, SendOrder DEF Worker
  <2>2. QED
    BY <1>2, <2>1 DEF LineInv
<1>5. ASSUME NEW s \in Sessions, Dial(s) \/ Process(s) \/ ReadEnds(s) \/ Close(s)
      PROVE  OrderInv'
  <2>1. CASE DialOk(s) \/ Resolve(s)
    BY <1>1, <2>1, MappingOrder
  <2>2. CASE \/ DialFail(s) \/ ProcessReturns(s) \/ ReadEnds(s) \/ ResolveFails(s)
             \/ DropAllEnds(s) \/ CloseConn(s) \/ Delete(s)
    BY <1>1, <2>2, EndingOrder
  <2>3. CASE Receive(s)
    BY <1>1, <2>3, ReceiveOrder
  <2>4. CASE Write(s)
    BY <1>1, <2>4, WriteOrder
  <2>5. CASE DropOne(s)
    BY <1>1, <2>5, DropOneOrder
  <2>6. QED
    BY <1>5, <2>1, <2>2, <2>3, <2>4, <2>5 DEF Dial, Process, Close
<1>6. CASE UNCHANGED vars
  <2>1. Deletable'
    BY <1>1, <1>6 DEF vars, OrderInv, Deletable, Live
  <2>2. \A s \in Sessions : Live(s)' => Live(s)
    BY <1>6 DEF vars, Live
  <2>3. OrderInv'
    BY <1>1, <1>6, <2>1, <2>2, Calm DEF vars
  <2>4. QED
    BY <1>2, <2>3 DEF LineInv
<1>7. QED
  BY <1>2, <1>3, <1>4, <1>5, <1>6 DEF Next, LineInv

\* The packets of one source reach the remote side in the order in which they arrived, for any
\* number of packets and sessions: what handleUDPToLocal closes before it deletes the entry
\* cannot overtake, or be overtaken by, the session that follows.
THEOREM PacketsKeepOrder == Spec => []SentInOrder
<1>1. Init => LineInv
  BY InitNatInv, InitOwnInv, InitOrderInv DEF LineInv, UdpInv
<1>2. LineInv => SentInOrder
  BY DEF LineInv, OrderInv, Sorted
<1>3. QED
  BY <1>1, <1>2, NextLineInv, PTL DEF Spec

-----------------------------------------------------------------------------
(* Mappings: replies come from the address they were sent to *)

\* The two maps of a session agree: a target in use leads back to an origin that uses it.
Consistent(r) ==
    /\ \A o \in Origins : r.originToTarget[o] # Invalid =>
           r.targetToOrigin[r.originToTarget[o]] # Invalid
    /\ \A t \in Targets : r.targetToOrigin[t] # Invalid =>
           r.originToTarget[r.targetToOrigin[t]] = t

Blank(r) ==
    /\ \A o \in Origins : r.originToTarget[o] = Invalid
    /\ \A t \in Targets : r.targetToOrigin[t] = Invalid

\* What Process is about to write goes where the map says.
Aimed(r, d) == r.proc = "write" => r.addr # Invalid /\ r.originToTarget[d[r.packet]] = r.addr

SessionMaps ==
    \A s \in Sessions :
        /\ Consistent(session[s]) /\ Aimed(session[s], dest)
        /\ session[s].proc = "dial" => Blank(session[s])

\* What was written went where the map of its session still says.
SentMaps ==
    \A i \in DOMAIN sent :
        /\ sent[i].session <= made /\ sent[i].target # Invalid
        /\ session[sent[i].session].originToTarget[dest[sent[i].packet]] = sent[i].target

MapInv == SessionMaps /\ SentMaps

\* The fields of a session the maps are about.
SameMaps(r, q) ==
    /\ r.originToTarget = q.originToTarget /\ r.targetToOrigin = q.targetToOrigin
    /\ r.proc \in {"dial", "write"} => r.proc = q.proc /\ r.packet = q.packet /\ r.addr = q.addr

LEMMA SentTypes ==
    ASSUME TypeOK, NEW i \in DOMAIN sent
    PROVE  /\ sent[i].packet \in Packets /\ sent[i].session \in Sessions
           /\ sent[i].target \in Targets \cup {Invalid}
<1> DEFINE Entry == [packet : Packets, session : Sessions, target : Targets \cup {Invalid}]
<1>1. sent \in Seq(Entry)
  BY DEF TypeOK
<1> HIDE DEF Entry
<1>2. sent[i] \in Entry
  BY <1>1
<1>3. QED
  BY <1>2 DEF Entry

\* Steps that change no map and write nothing.
LEMMA MapsKept ==
    ASSUME LineInv, MapInv, UNCHANGED <<dest, made, sent>>,
           \A s \in Sessions : SameMaps(session'[s], session[s])
    PROVE  MapInv'
<1>1. ASSUME NEW s \in Sessions
      PROVE  (/\ Consistent(session[s]) /\ Aimed(session[s], dest)
              /\ session[s].proc = "dial" => Blank(session[s]))'
  <2>1. SameMaps(session'[s], session[s]) /\ dest' = dest
    OBVIOUS
  <2>2. Consistent(session[s]) /\ Aimed(session[s], dest) /\ (session[s].proc = "dial" => Blank(session[s]))
    BY DEF MapInv, SessionMaps
  <2>3. Consistent(session[s])'
    BY <2>1, <2>2 DEF SameMaps, Consistent
  <2>4. Aimed(session[s], dest)'
    BY <2>1, <2>2 DEF SameMaps, Aimed
  <2>5. (session[s].proc = "dial" => Blank(session[s]))'
    BY <2>1, <2>2 DEF SameMaps, Blank
  <2>6. QED
    BY <2>3, <2>4, <2>5
<1>5. SessionMaps'
  BY <1>1 DEF SessionMaps
<1>2. \A i \in DOMAIN sent : sent[i].session \in Sessions
  BY SentTypes DEF LineInv, UdpInv, NatInv
<1>3. SentMaps'
  BY <1>2 DEF MapInv, SentMaps, SameMaps
<1>4. QED
  BY <1>5, <1>3 DEF MapInv

\* Steps that end or drain a session, or take a packet from its channel.
LEMMA EndingMaps ==
    ASSUME LineInv, MapInv, NEW s \in Sessions,
           \/ DialFail(s) \/ Receive(s) \/ ProcessReturns(s) \/ ResolveFails(s) \/ ReadEnds(s)
           \/ DropOne(s) \/ DropAllEnds(s) \/ CloseConn(s) \/ Delete(s)
    PROVE  MapInv'
<1>1. session[s] \in SessionType /\ session \in [Sessions -> SessionType]
  BY DEF LineInv, UdpInv, NatInv, TypeOK
<1>2. UNCHANGED <<dest, made, sent>>
  BY DEF DialFail, Receive, ProcessReturns, ResolveFails, ReadEnds, DropOne, DropAllEnds,
         CloseConn, Delete
<1>3. CASE DialFail(s) \/ ProcessReturns(s) \/ ResolveFails(s) \/ Receive(s)
  <2>1. /\ \A t \in Sessions : t # s => session'[t] = session[t]
        /\ session'[s].originToTarget = session[s].originToTarget
        /\ session'[s].targetToOrigin = session[s].targetToOrigin
        /\ session'[s].proc \in {"loop", "packet", "end"}
    <3>1. CASE DialFail(s)
      BY <1>1, <3>1 DEF DialFail, SessionType
    <3>2. CASE ProcessReturns(s)
      BY <1>1, <3>2 DEF ProcessReturns, SessionType
    <3>3. CASE ResolveFails(s)
      BY <1>1, <3>3 DEF ResolveFails, SessionType
    <3>4. CASE Receive(s)
      BY <1>1, <3>4 DEF Receive, SessionType
    <3>5. QED
      BY <1>3, <3>1, <3>2, <3>3, <3>4
  <2>2. ASSUME NEW t \in Sessions PROVE SameMaps(session'[t], session[t])
    BY <2>1 DEF SameMaps
  <2>3. QED
    BY <1>2, <2>2, MapsKept
<1>4. CASE ReadEnds(s) \/ DropOne(s) \/ DropAllEnds(s) \/ CloseConn(s) \/ Delete(s)
  <2>1. \/ session' = [session EXCEPT ![s].closing = "cancelled"]
        \/ session' = [session EXCEPT ![s].ch = Tail(@)]
        \/ session' = [session EXCEPT ![s].closing = "drained"]
        \/ session' = [session EXCEPT ![s].conn = "closed"]
        \/ session' = [session EXCEPT ![s].closing = "gone"]
    BY <1>4 DEF ReadEnds, DropOne, DropAllEnds, CloseConn, Delete
  <2>2. ASSUME NEW t \in Sessions
        PROVE  /\ session'[t].originToTarget = session[t].originToTarget
               /\ session'[t].targetToOrigin = session[t].targetToOrigin
               /\ session'[t].proc = session[t].proc /\ session'[t].packet = session[t].packet
               /\ session'[t].addr = session[t].addr
    <3>1. session[t] \in SessionType
      BY <1>1
    <3>2. CASE session' = [session EXCEPT ![s].ch = Tail(@)]
      BY <1>1, <3>1, <3>2 DEF SessionType
    <3>3. CASE session' = [session EXCEPT ![s].conn = "closed"]
      BY <1>1, <3>1, <3>3 DEF SessionType
    <3>4. CASE \E c \in {"cancelled", "drained", "gone"} : session' = [session EXCEPT ![s].closing = c]
      BY <1>1, <3>1, <3>4 DEF SessionType
    <3>5. QED
      BY <2>1, <3>2, <3>3, <3>4
  <2>3. ASSUME NEW t \in Sessions PROVE SameMaps(session'[t], session[t])
    BY <2>2 DEF SameMaps
  <2>4. QED
    BY <1>2, <2>3, MapsKept
<1>5. QED
  BY <1>3, <1>4

\* The worker takes a packet, and perhaps makes a session, or puts it into a channel.
LEMMA WorkerMaps ==
    ASSUME LineInv, MapInv, Refuse \/ SendCheck \/ SendPut
    PROVE  MapInv'
<1>1. session \in [Sessions -> SessionType]
  BY DEF LineInv, UdpInv, NatInv, TypeOK
<1>2. UNCHANGED <<dest, made, sent>>
  BY DEF Refuse, SendCheck, SendPut
<1>3. ASSUME NEW t \in Sessions
      PROVE  /\ session'[t].originToTarget = session[t].originToTarget
             /\ session'[t].targetToOrigin = session[t].targetToOrigin
             /\ session'[t].proc = session[t].proc /\ session'[t].packet = session[t].packet
             /\ session'[t].addr = session[t].addr
  <2>1. session[t] \in SessionType
    BY <1>1
  <2>2. CASE session' = session
    BY <2>2
  <2>3. CASE session' # session
    <3>1. PICK s, c : session' = [session EXCEPT ![s].ch = c]
      <4>1. session' = [session EXCEPT ![worker.sender].ch =
                            Append(session[worker.sender].ch, worker.packet)]
        BY <2>3 DEF Refuse, SendCheck, SendPut
      <4>2. QED
        BY <4>1
    <3>2. QED
      BY <1>1, <2>1, <3>1 DEF SessionType
  <2>4. QED
    BY <2>2, <2>3
<1>4. ASSUME NEW t \in Sessions PROVE SameMaps(session'[t], session[t])
  BY <1>3 DEF SameMaps
<1>5. QED
  BY <1>2, <1>4, MapsKept

\* A session that was not made before has written nothing.
LEMMA GetOrCreateMaps ==
    ASSUME LineInv, MapInv, GetOrCreate
    PROVE  MapInv'
<1>1. session \in [Sessions -> SessionType] /\ TypeOK
  BY DEF LineInv, UdpInv, NatInv, TypeOK
<1>2. UNCHANGED <<dest, sent>>
  BY DEF GetOrCreate
<1>3. CASE nat # None
  <2>1. UNCHANGED <<made, session>>
    BY <1>3 DEF GetOrCreate
  <2>2. ASSUME NEW t \in Sessions PROVE SameMaps(session'[t], session[t])
    BY <2>1 DEF SameMaps
  <2>3. QED
    BY <1>2, <2>1, <2>2, MapsKept
<1>4. CASE nat = None
  <2>1. made' = made + 1 /\ session' = [session EXCEPT ![made'] = NewSession(Head(queue))]
    BY <1>4 DEF GetOrCreate
  <2>2. made \in Nat
    BY <1>1, NatAssumption DEF TypeOK
  <2>3. PICK n \in Nat : n = made'
    BY <2>1, <2>2
  <2>4. \A t \in Sessions : t # n => session'[t] = session[t]
    BY <1>1, <2>1, <2>3
  <2>5. n \in Sessions => session'[n] = NewSession(Head(queue))
    BY <1>1, <2>1, <2>3
  <2>6. Consistent(NewSession(Head(queue))) /\ Blank(NewSession(Head(queue)))
        /\ Aimed(NewSession(Head(queue)), dest)
    BY DEF NewSession, Consistent, Blank, Aimed
  <2>7. SessionMaps'
    <3>1. ASSUME NEW s \in Sessions
          PROVE  (/\ Consistent(session[s]) /\ Aimed(session[s], dest)
                  /\ session[s].proc = "dial" => Blank(session[s]))'
      <4>1. CASE s = n
        BY <4>1, <2>5, <2>6, <1>2
      <4>2. CASE s # n
        BY <4>2, <2>4, <1>2 DEF MapInv, SessionMaps
      <4>3. QED
        BY <4>1, <4>2
    <3>2. QED
      BY <3>1 DEF SessionMaps
  <2>8. SentMaps'
    <3>1. ASSUME NEW i \in DOMAIN sent
          PROVE  /\ sent[i].session \in Sessions /\ sent[i].session # n
                 /\ sent[i].session <= made'
      <4>1. sent[i].session \in Sessions /\ sent[i].session <= made
        BY <1>1, SentTypes DEF MapInv, SentMaps
      <4>2. sent[i].session \in Nat
        BY <4>1, NatAssumption DEF Sessions
      <4>3. QED
        BY <2>1, <2>2, <2>3, <4>1, <4>2
    <3>2. QED
      BY <3>1, <2>4, <1>2 DEF MapInv, SentMaps
  <2>9. QED
    BY <2>7, <2>8 DEF MapInv
<1>5. QED
  BY <1>3, <1>4

\* A packet that arrives is not one that was written or is about to be.
LEMMA ArrivesMaps ==
    ASSUME LineInv, MapInv, NEW o \in Origins, HandleUDPPacket(o)
    PROVE  MapInv'
<1>1. session \in [Sessions -> SessionType] /\ TypeOK /\ NatInv /\ OwnInv /\ OrderInv
  BY DEF LineInv, UdpInv, NatInv, TypeOK
<1>2. UNCHANGED <<session, made, sent>>
  BY DEF HandleUDPPacket
<1>3. PICK n \in Nat : n = arrived'
  BY <1>1, NatAssumption DEF HandleUDPPacket, TypeOK
<1>8. n = arrived + 1 /\ dest' = [dest EXCEPT ![n] = o]
  BY <1>3 DEF HandleUDPPacket
<1>4. \A p \in Packets : p <= arrived => dest'[p] = dest[p]
  BY <1>1, <1>8, NatAssumption DEF TypeOK, Packets
<1>5. SessionMaps'
  <2>1. ASSUME NEW s \in Sessions
        PROVE  (/\ Consistent(session[s]) /\ Aimed(session[s], dest)
                /\ session[s].proc = "dial" => Blank(session[s]))'
    <3>1. Aimed(session[s], dest')
      <4>1. SUFFICES ASSUME session[s].proc = "write" PROVE dest'[session[s].packet] = dest[session[s].packet]
        BY DEF MapInv, SessionMaps, Aimed
      <4>2. session[s].packet \in Packets
        BY <1>1, <4>1 DEF NatInv, ProcessHolds, SessionType
      <4>3. Holds("process", s, session[s].packet) /\ "process" \in Places
        BY DEF Holds, Places
      <4>4. session[s].packet \in 1..arrived
        BY <1>1, <4>2, <4>3, HolderIsOwner
      <4>5. QED
        BY <1>4, <4>2, <4>4
    <3>2. QED
      BY <3>1, <1>2 DEF MapInv, SessionMaps
  <2>2. QED
    BY <2>1 DEF SessionMaps
<1>6. SentMaps'
  <2>1. ASSUME NEW i \in DOMAIN sent PROVE dest'[sent[i].packet] = dest[sent[i].packet]
    <3>1. sent[i].packet \in Packets
      BY <1>1, SentTypes
    <3>2. At(0, sent[i].packet)
      BY DEF At
    <3>3. sent[i].packet <= arrived
      BY <1>1, <3>1, <3>2 DEF OrderInv, SentArrived
    <3>4. QED
      BY <1>4, <3>1, <3>3
  <2>2. QED
    BY <2>1, <1>2 DEF MapInv, SentMaps
<1>7. QED
  BY <1>5, <1>6 DEF MapInv

\* The effect of a new mapping on the two maps.
LEMMA MappingMaps ==
    ASSUME NEW r \in SessionType, NEW o \in Origins, NEW t \in Targets \cup {Invalid},
           Consistent(r), r.originToTarget[o] = Invalid, NEW m, m = WithMapping(r, o, t)
    PROVE  /\ m.originToTarget[o] = t
           /\ \A q \in Origins : q # o => m.originToTarget[q] = r.originToTarget[q]
           /\ Consistent(m)
<1> DEFINE to == [r.originToTarget EXCEPT ![o] = IF @ = Invalid THEN t ELSE @]
           from == [u \in Targets |->
                      IF u = t /\ r.targetToOrigin[u] = Invalid THEN o ELSE r.targetToOrigin[u]]
<1>1. m = [r EXCEPT !.originToTarget = to, !.targetToOrigin = from]
  BY DEF WithMapping, SessionType
<1>2. /\ r.originToTarget \in [Origins -> Targets \cup {Invalid}]
      /\ r.targetToOrigin \in [Targets -> Origins \cup {Invalid}]
  BY DEF SessionType
<1>3. to[o] = t /\ \A q \in Origins : q # o => to[q] = r.originToTarget[q]
  BY <1>2
<1>4. \A u \in Targets : from[u] = IF u = t /\ r.targetToOrigin[u] = Invalid THEN o ELSE r.targetToOrigin[u]
  OBVIOUS
<1> HIDE DEF to, from
<1>5. m.originToTarget = to /\ m.targetToOrigin = from
  BY <1>1 DEF SessionType
<1>6. ASSUME NEW q \in Origins, to[q] # Invalid PROVE from[to[q]] # Invalid
  <2>1. Invalid \notin Targets /\ Invalid \notin Origins
    BY NatAssumption
  <2>2. to[q] \in Targets
    BY <1>2, <1>3, <1>6
  <2>3. CASE q = o
    BY <1>3, <1>4, <2>1, <2>2, <2>3
  <2>4. CASE q # o
    BY <1>3, <1>4, <1>6, <2>1, <2>2, <2>4 DEF Consistent
  <2>5. QED
    BY <2>3, <2>4
<1>7. ASSUME NEW u \in Targets, from[u] # Invalid PROVE to[from[u]] = u
  <2>1. CASE u = t /\ r.targetToOrigin[u] = Invalid
    BY <1>3, <1>4, <2>1
  <2>2. CASE ~(u = t /\ r.targetToOrigin[u] = Invalid)
    <3>1. from[u] = r.targetToOrigin[u]
      BY <1>4, <2>2
    <3>2. r.originToTarget[from[u]] = u /\ from[u] \in Origins
      BY <1>2, <1>7, <3>1 DEF Consistent
    <3>3. from[u] # o
      BY <3>2, NatAssumption
    <3>4. QED
      BY <1>3, <3>2, <3>3
  <2>3. QED
    BY <2>1, <2>2
<1>8. QED
  BY <1>3, <1>5, <1>6, <1>7 DEF Consistent

\* A session learns a mapping: what it wrote before is not concerned.
LEMMA MapsLearned ==
    ASSUME LineInv, MapInv, UNCHANGED <<dest, made, sent>>, NEW s \in Sessions, NEW r,
           session' = [session EXCEPT ![s] = r],
           Consistent(r), Aimed(r, dest), r.proc # "dial",
           \A o \in Origins : session[s].originToTarget[o] # Invalid =>
               r.originToTarget[o] = session[s].originToTarget[o]
    PROVE  MapInv'
<1>1. session \in [Sessions -> SessionType] /\ TypeOK /\ OwnInv /\ OrderInv
  BY DEF LineInv, UdpInv, NatInv, TypeOK
<1>2. session'[s] = r /\ \A t \in Sessions : t # s => session'[t] = session[t]
  BY <1>1
<1>3. SessionMaps'
  <2>1. ASSUME NEW t \in Sessions
        PROVE  (/\ Consistent(session[t]) /\ Aimed(session[t], dest)
                /\ session[t].proc = "dial" => Blank(session[t]))'
    <3>1. CASE t = s
      BY <1>2, <3>1
    <3>2. CASE t # s
      BY <1>2, <3>2 DEF MapInv, SessionMaps
    <3>3. QED
      BY <3>1, <3>2
  <2>2. QED
    BY <2>1 DEF SessionMaps
<1>4. SentMaps'
  <2>1. ASSUME NEW i \in DOMAIN sent
        PROVE  session'[sent[i].session].originToTarget[dest[sent[i].packet]] = sent[i].target
    <3>1. sent[i].packet \in Packets /\ sent[i].session \in Sessions
      BY <1>1, SentTypes
    <3>2. At(0, sent[i].packet)
      BY DEF At
    <3>3. sent[i].packet \in 1..arrived
      BY <1>1, <3>1, <3>2, NatAssumption DEF OrderInv, SentArrived, Packets, TypeOK
    <3>4. dest[sent[i].packet] \in Origins
      BY <1>1, <3>3 DEF OwnInv
    <3>5. /\ session[sent[i].session].originToTarget[dest[sent[i].packet]] = sent[i].target
          /\ sent[i].target # Invalid
      BY DEF MapInv, SentMaps
    <3>6. CASE sent[i].session = s
      BY <1>2, <3>4, <3>5, <3>6
    <3>7. CASE sent[i].session # s
      BY <1>2, <3>1, <3>5, <3>7
    <3>8. QED
      BY <3>6, <3>7
  <2>2. QED
    BY <2>1 DEF MapInv, SentMaps
<1>5. QED
  BY <1>3, <1>4 DEF MapInv

\* A packet without an address adds no mapping.
LEMMA MappingNothing ==
    ASSUME NEW r \in SessionType, NEW t \in Targets \cup {Invalid}, Blank(r),
           NEW m, m = WithMapping(r, Invalid, t)
    PROVE  Blank(m)
<1> DEFINE to == [r.originToTarget EXCEPT ![Invalid] = IF @ = Invalid THEN t ELSE @]
           from == [u \in Targets |->
                      IF u = t /\ r.targetToOrigin[u] = Invalid THEN Invalid ELSE r.targetToOrigin[u]]
<1>1. m = [r EXCEPT !.originToTarget = to, !.targetToOrigin = from]
  BY DEF WithMapping, SessionType
<1>2. \A q \in Origins : to[q] = Invalid
  BY NatAssumption DEF SessionType, Blank
<1>3. \A u \in Targets : from[u] = Invalid
  BY DEF Blank
<1> HIDE DEF to, from
<1>4. m.originToTarget = to /\ m.targetToOrigin = from
  BY <1>1 DEF SessionType
<1>5. QED
  BY <1>2, <1>3, <1>4 DEF Blank

\* The dial learns the first mapping of its session.
LEMMA DialOkMaps ==
    ASSUME LineInv, MapInv, NEW s \in Sessions, DialOk(s)
    PROVE  MapInv'
<1>1. session[s] \in SessionType /\ NatInv /\ TypeOK
  BY DEF LineInv, UdpInv, NatInv, TypeOK
<1>2. UNCHANGED <<dest, made, sent>> /\ session[s].proc = "dial"
  BY DEF DialOk
<1>3. PICK t \in Targets \cup {Invalid} :
        session' = [session EXCEPT ![s] =
            [WithMapping(session[s], dest[session[s].first], t) EXCEPT !.proc = "loop",
                                                                      !.conn = "open"]]
  BY DEF DialOk
<1>4. PICK o \in Origins \cup {Invalid} : o = dest[session[s].first]
  BY <1>1, <1>2 DEF NatInv, ProcessHolds, TypeOK
<1>5. PICK m \in SessionType : m = WithMapping(session[s], o, t)
  BY <1>1, Mapping
<1>6. Blank(session[s]) /\ Consistent(session[s])
  BY <1>2 DEF MapInv, SessionMaps
<1>7. Consistent(m)
  <2>1. CASE o \in Origins
    BY <1>1, <1>5, <1>6, <2>1, MappingMaps DEF Blank
  <2>2. CASE o = Invalid
    <3>1. Blank(m)
      BY <1>1, <1>5, <1>6, <2>2, MappingNothing
    <3>2. QED
      BY <3>1 DEF Blank, Consistent
  <2>3. QED
    BY <2>1, <2>2
<1>8. PICK r : r = [m EXCEPT !.proc = "loop", !.conn = "open"]
  OBVIOUS
<1>9. /\ r.originToTarget = m.originToTarget /\ r.targetToOrigin = m.targetToOrigin
      /\ r.proc = "loop"
  BY <1>5, <1>8 DEF SessionType
<1>10. Consistent(r) /\ Aimed(r, dest)
  BY <1>7, <1>9 DEF Consistent, Aimed
<1>11. session' = [session EXCEPT ![s] = r]
  BY <1>3, <1>4, <1>5, <1>8
<1>12. QED
  BY <1>2, <1>6, <1>9, <1>10, <1>11, MapsLearned DEF Blank

\* A packet goes where the map says, or the map learns where it goes.
LEMMA ResolveMaps ==
    ASSUME LineInv, MapInv, NEW s \in Sessions, Resolve(s)
    PROVE  MapInv'
<1>1. session[s] \in SessionType /\ NatInv /\ OwnInv /\ session[s].proc = "packet"
  BY DEF LineInv, UdpInv, NatInv, TypeOK, Resolve
<1>2. UNCHANGED <<dest, made, sent>> /\ Consistent(session[s])
  BY DEF Resolve, MapInv, SessionMaps
<1>3. PICK o \in Origins : o = dest[session[s].packet]
  BY <1>1, ProcessAddress
<1>4. PICK known \in Targets \cup {Invalid} : known = session[s].originToTarget[o]
  BY <1>1 DEF SessionType
<1>5. PICK m \in SessionType, a \in Targets :
        /\ Consistent(m) /\ m.originToTarget[o] = a /\ m.packet = session[s].packet
        /\ \A q \in Origins : session[s].originToTarget[q] # Invalid =>
               m.originToTarget[q] = session[s].originToTarget[q]
        /\ session' = [session EXCEPT ![s] = [m EXCEPT !.proc = "write", !.addr = a]]
  <2>1. CASE known # Invalid
    <3>1. session' = [session EXCEPT ![s].proc = "write", ![s].addr = known]
      BY <1>3, <1>4, <2>1 DEF Resolve
    <3>2. session' = [session EXCEPT ![s] = [session[s] EXCEPT !.proc = "write", !.addr = known]]
      BY <3>1
    <3>3. QED
      BY <1>1, <1>2, <1>4, <2>1, <3>2
  <2>2. CASE known = Invalid
    <3>1. PICK t \in Targets :
            session' = [session EXCEPT ![s] =
                [WithMapping(session[s], dest[session[s].packet], t) EXCEPT !.proc = "write",
                                                                           !.addr = t]]
      BY <1>3, <1>4, <2>2 DEF Resolve
    <3>2. PICK m \in SessionType : m = WithMapping(session[s], o, t)
      BY <1>1, Mapping
    <3>3. m.packet = session[s].packet
      BY <1>1, <3>2, Mapping
    <3>4. /\ m.originToTarget[o] = t
          /\ \A q \in Origins : q # o => m.originToTarget[q] = session[s].originToTarget[q]
          /\ Consistent(m)
      <4>1. t \in Targets \cup {Invalid} /\ session[s].originToTarget[o] = Invalid
        BY <1>4, <2>2
      <4>2. PICK r \in SessionType : r = session[s]
        BY <1>1
      <4>3. Consistent(r) /\ r.originToTarget[o] = Invalid /\ m = WithMapping(r, o, t)
        BY <1>2, <3>2, <4>1, <4>2
      <4>4. QED
        BY <4>1, <4>2, <4>3, MappingMaps
    <3>5. session' = [session EXCEPT ![s] = [m EXCEPT !.proc = "write", !.addr = t]]
      BY <3>1, <3>2, <1>3, Zenon
    <3>6. \A q \in Origins : session[s].originToTarget[q] # Invalid =>
              m.originToTarget[q] = session[s].originToTarget[q]
      BY <1>4, <2>2, <3>4
    <3>7. QED
      BY <3>2, <3>3, <3>4, <3>5, <3>6
  <2>3. QED
    BY <2>1, <2>2
<1>6. PICK r : r = [m EXCEPT !.proc = "write", !.addr = a]
  OBVIOUS
<1>7. /\ r.originToTarget = m.originToTarget /\ r.targetToOrigin = m.targetToOrigin
      /\ r.proc = "write" /\ r.addr = a /\ r.packet = m.packet
  BY <1>5, <1>6 DEF SessionType
<1>8. Consistent(r)
  BY <1>5, <1>7 DEF Consistent
<1>9. Aimed(r, dest)
  BY <1>3, <1>5, <1>7, NatAssumption DEF Aimed
<1>10. session' = [session EXCEPT ![s] = r]
  BY <1>5, <1>6
<1>11. QED
  BY <1>2, <1>5, <1>7, <1>8, <1>9, <1>10, MapsLearned

\* What is written went where the map says.
LEMMA WriteMaps ==
    ASSUME LineInv, MapInv, NEW s \in Sessions, Write(s)
    PROVE  MapInv'
<1>1. /\ session[s] \in SessionType /\ session \in [Sessions -> SessionType] /\ NatInv /\ TypeOK
      /\ session[s].proc = "write" /\ UNCHANGED <<dest, made>>
  BY DEF LineInv, UdpInv, NatInv, TypeOK, Write
<1>2. /\ \A t \in Sessions : t # s => session'[t] = session[t]
      /\ session'[s].originToTarget = session[s].originToTarget
      /\ session'[s].targetToOrigin = session[s].targetToOrigin
      /\ session'[s].proc = "loop"
  BY <1>1 DEF Write, SessionType
<1>3. SessionMaps'
  <2>1. ASSUME NEW t \in Sessions
        PROVE  (/\ Consistent(session[t]) /\ Aimed(session[t], dest)
                /\ session[t].proc = "dial" => Blank(session[t]))'
    <3>1. CASE t = s
      <4>1. Consistent(session'[s])
        BY <1>2 DEF MapInv, SessionMaps, Consistent
      <4>2. Aimed(session'[s], dest') /\ session'[s].proc # "dial"
        BY <1>2 DEF Aimed
      <4>3. QED
        BY <3>1, <4>1, <4>2
    <3>2. CASE t # s
      BY <1>1, <1>2, <3>2 DEF MapInv, SessionMaps
    <3>3. QED
      BY <3>1, <3>2
  <2>2. QED
    BY <2>1 DEF SessionMaps
<1>4. \A t \in Sessions : session'[t].originToTarget = session[t].originToTarget
  BY <1>2
<1>5. ASSUME NEW i \in DOMAIN sent
      PROVE  /\ sent[i].session <= made' /\ sent[i].target # Invalid
             /\ session'[sent[i].session].originToTarget[dest'[sent[i].packet]] = sent[i].target
  BY <1>1, <1>4, SentTypes DEF MapInv, SentMaps
<1>6. SentMaps'
  <2>1. CASE sent' = sent
    BY <1>5, <2>1 DEF SentMaps
  <2>2. CASE sent' # sent
    <3>1. PICK e : /\ e = [packet |-> session[s].packet, session |-> s, target |-> session[s].addr]
                   /\ sent' = Append(sent, e)
      BY <2>2 DEF Write
    <3>2. e.session = s /\ e.packet = session[s].packet /\ e.target = session[s].addr
      BY <3>1
    <3>3. e.session <= made' /\ e.target # Invalid
      <4>1. s \in 1..made
        BY <1>1, MadeSession
      <4>2. QED
        BY <1>1, <3>2, <4>1, NatAssumption DEF MapInv, SessionMaps, Aimed, TypeOK
    <3>4. session'[e.session].originToTarget[dest'[e.packet]] = e.target
      BY <1>1, <1>4, <3>2 DEF MapInv, SessionMaps, Aimed
    <3>5. ASSUME NEW i \in DOMAIN sent'
          PROVE  (i \in DOMAIN sent /\ sent'[i] = sent[i]) \/ sent'[i] = e
      <4> DEFINE Entry == [packet : Packets, session : Sessions, target : Targets \cup {Invalid}]
      <4>1. sent \in Seq(Entry)
        BY <1>1 DEF TypeOK
      <4> HIDE DEF Entry
      <4>2. QED
        BY <3>1, <4>1
    <3>6. QED
      BY <1>5, <3>3, <3>4, <3>5 DEF SentMaps
  <2>3. QED
    BY <2>1, <2>2
<1>7. QED
  BY <1>3, <1>6 DEF MapInv

\* Every step keeps the maps.
LEMMA NextMapInv ==
    ASSUME LineInv, MapInv, [Next]_vars
    PROVE  MapInv'
<1>1. CASE \E o \in Origins : HandleUDPPacket(o)
  BY <1>1, ArrivesMaps
<1>2. CASE Worker
  BY <1>2, WorkerMaps, GetOrCreateMaps DEF Worker
<1>3. ASSUME NEW s \in Sessions, Dial(s) \/ Process(s) \/ ReadEnds(s) \/ Close(s)
      PROVE  MapInv'
  BY <1>3, DialOkMaps, ResolveMaps, WriteMaps, EndingMaps DEF Dial, Process, Close
<1>4. CASE UNCHANGED vars
  <2>1. ASSUME NEW s \in Sessions PROVE SameMaps(session'[s], session[s])
    BY <1>4 DEF vars, SameMaps
  <2>2. QED
    BY <1>4, <2>1, MapsKept DEF vars
<1>5. QED
  BY <1>1, <1>2, <1>3, <1>4 DEF Next

\* For any addresses, packets and sessions: all packets of a session for one address go to one
\* target, and what comes back from a target is given an address that this session sends to
\* that target, the very address when it is the only one (AddMapping, RestoreReadFrom).
THEOREM RepliesAreMatched == Spec => []RepliesMatch
<1>1. Init => LineInv
  BY InitNatInv, InitOwnInv, InitOrderInv DEF LineInv, UdpInv
<1>2. Init => MapInv
  <2> SUFFICES ASSUME Init PROVE MapInv
    OBVIOUS
  <2>1. ASSUME NEW s \in Sessions
        PROVE  Consistent(session[s]) /\ Aimed(session[s], dest) /\ session[s].proc = "end"
    BY DEF Init, NewSession, Consistent, Aimed
  <2>2. DOMAIN sent = {}
    BY DEF Init
  <2>3. QED
    BY <2>1, <2>2 DEF MapInv, SessionMaps, SentMaps
<1>3. LineInv /\ MapInv => RepliesMatch
  <2> SUFFICES ASSUME LineInv, MapInv, NEW i \in DOMAIN sent, NEW s, NEW t, NEW o,
                      s = sent[i].session, t = sent[i].target, o = dest[sent[i].packet]
               PROVE  LET users == {q \in Origins : session[s].originToTarget[q] = t}
                      IN  /\ \A j \in DOMAIN sent :
                                sent[j].session = s /\ dest[sent[j].packet] = o => sent[j].target = t
                          /\ RestoreReadFrom(s, t) \in users
                          /\ users = {o} => RestoreReadFrom(s, t) = o
    BY DEF RepliesMatch
  <2>1. TypeOK /\ OwnInv /\ OrderInv /\ session \in [Sessions -> SessionType]
    BY DEF LineInv, UdpInv, NatInv, TypeOK
  <2>2. sent[i].packet \in Packets /\ s \in Sessions /\ t \in Targets \cup {Invalid}
    BY <2>1, SentTypes
  <2>3. At(0, sent[i].packet)
    BY DEF At
  <2>4. sent[i].packet \in 1..arrived
    BY <2>1, <2>2, <2>3, NatAssumption DEF OrderInv, SentArrived, Packets, TypeOK
  <2>5. o \in Origins /\ session[s].originToTarget[o] = t /\ t # Invalid
    BY <2>1, <2>4 DEF OwnInv, MapInv, SentMaps
  <2>6. \A j \in DOMAIN sent : sent[j].session = s /\ dest[sent[j].packet] = o => sent[j].target = t
    BY <2>5 DEF MapInv, SentMaps
  <2>7. Consistent(session[s]) /\ session[s] \in SessionType
    BY <2>1, <2>2 DEF MapInv, SessionMaps
  <2>8. /\ session[s].targetToOrigin[t] # Invalid /\ session[s].targetToOrigin[t] \in Origins
        /\ session[s].originToTarget[session[s].targetToOrigin[t]] = t
    BY <2>2, <2>5, <2>7 DEF Consistent, SessionType
  <2>9. RestoreReadFrom(s, t) = session[s].targetToOrigin[t]
    BY <2>8 DEF RestoreReadFrom
  <2>10. QED
    BY <2>6, <2>8, <2>9
<1>4. LineInv /\ MapInv /\ [Next]_vars => (LineInv /\ MapInv)'
  BY NextLineInv, NextMapInv
<1>5. QED
  BY <1>1, <1>2, <1>3, <1>4, PTL DEF Spec

=============================================================================
