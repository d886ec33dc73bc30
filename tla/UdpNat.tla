------------------------------- MODULE UdpNat -------------------------------
(***************************************************************************)
(* The UDP path of the core's tunnel for the packets of one source         *)
(* address: the worker its key is hashed to, the NAT table's entry, and    *)
(* the packetSender of each session with its two goroutines, Process and   *)
(* handleUDPToLocal (tunnel/tunnel.go, tunnel/connection.go).              *)
(*                                                                         *)
(* A packet borrows a pooled buffer and must be dropped once.  Closing a   *)
(* sender, sending to it and processing its channel are not synchronised   *)
(* but by the channel and the context: when several cases of a select are  *)
(* ready, any of them may be taken.                                        *)
(***************************************************************************)
EXTENDS Naturals, Sequences

CONSTANTS
    Origins,            \* addresses the client sends to (fake ones too)
    Targets,            \* addresses they resolve to
    Invalid,            \* the zero netip.Addr
    QueueCapacity, SenderCapacity,
    MaxPackets          \* bound: packets that arrive

ASSUME NatAssumption ==
    /\ Invalid \notin Origins \cup Targets
    /\ QueueCapacity \in Nat \ {0} /\ SenderCapacity \in Nat \ {0}
    /\ MaxPackets \in Nat

Packets == 1..MaxPackets
Sessions == 1..MaxPackets
None == 0

VARIABLES
    queue,          \* the worker's queue of packets
    worker,         \* where handleUDPConn is
    dest,           \* per packet: the address it is for
    nat,            \* the session in the table, or None
    session,        \* per session: its sender, its goroutines, its connection
    arrived, made,  \* how many packets and sessions there were
    released,       \* per packet: how often it was dropped
    sent            \* history: what was written to the remote side

vars == <<queue, worker, dest, nat, session, arrived, made, released, sent>>

\* closing: how far the one goroutine that ends the session has come.
NewSession(p) ==
    [first |-> p, ch |-> <<>>, closing |-> "open", conn |-> "none",
     proc |-> "dial", packet |-> None, addr |-> Invalid,
     originToTarget |-> [o \in Origins |-> Invalid],
     targetToOrigin |-> [t \in Targets |-> Invalid]]

Idle == [pc |-> "idle", packet |-> None, sender |-> None]

Closed(s) == session[s].closing # "open"    \* s.ctx is done

Init ==
    /\ queue = <<>> /\ worker = Idle
    /\ dest = [p \in Packets |-> Invalid]
    /\ nat = None
    /\ session = [s \in Sessions |-> [NewSession(None) EXCEPT !.proc = "end"]]
    /\ arrived = 0 /\ made = 0
    /\ released = [p \in Packets |-> 0]
    /\ sent = <<>>

Drop(p) == released' = [released EXCEPT ![p] = @ + 1]

-----------------------------------------------------------------------------
(* The tunnel *)

HandleUDPPacket(o) ==
    /\ arrived < MaxPackets
    /\ arrived' = arrived + 1
    /\ dest' = [dest EXCEPT ![arrived'] = o]
    /\ IF Len(queue) < QueueCapacity
       THEN queue' = Append(queue, arrived') /\ UNCHANGED released
       ELSE Drop(arrived') /\ UNCHANGED queue
    /\ UNCHANGED <<worker, nat, session, made, sent>>

\* handleUDPConn drops what it may not handle: the tunnel is suspended, the metadata is not
\* valid, or a fake address has no host.
Refuse ==
    /\ worker.pc = "idle" /\ queue # <<>>
    /\ queue' = Tail(queue)
    /\ Drop(Head(queue))
    /\ UNCHANGED <<worker, dest, nat, session, arrived, made, sent>>

\* natTable.GetOrCreate, and the goroutine that dials for a new entry.
GetOrCreate ==
    /\ worker.pc = "idle" /\ queue # <<>>
    /\ queue' = Tail(queue)
    /\ IF nat = None
       THEN /\ made' = made + 1 /\ nat' = made'
            /\ session' = [session EXCEPT ![made'] = NewSession(Head(queue))]
       ELSE UNCHANGED <<made, nat, session>>
    /\ worker' = [pc |-> "send", packet |-> Head(queue), sender |-> nat']
    /\ UNCHANGED <<dest, arrived, released, sent>>

\* The first select of Send.
SendCheck ==
    /\ worker.pc = "send"
    /\ IF Closed(worker.sender)
       THEN worker' = Idle /\ Drop(worker.packet)
       ELSE worker' = [worker EXCEPT !.pc = "put"] /\ UNCHANGED released
    /\ UNCHANGED <<queue, dest, nat, session, arrived, made, sent>>

\* The second select of Send: any ready case, the default when none is.
SendPut ==
    LET s == worker.sender
        room == Len(session[s].ch) < SenderCapacity
    IN  /\ worker.pc = "put"
        /\ worker' = Idle
        /\ \/ /\ room
              /\ session' = [session EXCEPT ![s].ch = Append(@, worker.packet)]
              /\ UNCHANGED released
           \/ /\ Closed(s) \/ ~room
              /\ Drop(worker.packet)
              /\ UNCHANGED session
        /\ UNCHANGED <<queue, dest, nat, arrived, made, sent>>

-----------------------------------------------------------------------------
(* packetSender *)

\* The session with the mapping added; a record is overwritten only when it is invalid.
WithMapping(r, o, t) ==
    [r EXCEPT !.originToTarget[o] = IF @ = Invalid THEN t ELSE @,
              !.targetToOrigin = [u \in Targets |->
                  IF u = t /\ @[u] = Invalid THEN o ELSE @[u]]]

RestoreReadFrom(s, t) ==
    IF session[s].targetToOrigin[t] # Invalid THEN session[s].targetToOrigin[t] ELSE t

\* dial resolves the destination, unless the proxy does, and starts the reader.
DialOk(s) ==
    /\ session[s].proc = "dial"
    /\ \E t \in Targets \cup {Invalid} :
           session' = [session EXCEPT ![s] =
               [WithMapping(@, dest[@.first], t) EXCEPT !.proc = "loop", !.conn = "open"]]
    /\ UNCHANGED <<queue, worker, dest, nat, arrived, made, released, sent>>

DialFail_Silent(s) ==
    /\ session[s].proc = "dial"
    /\ session' = [session EXCEPT ![s].proc = "end"]
    /\ UNCHANGED <<queue, worker, dest, nat, arrived, made, released, sent>>

DialFail(s) ==
    /\ session[s].proc = "dial"
    /\ session' = [session EXCEPT ![s].proc = "end", ![s].closing = "cancelled"]
    /\ UNCHANGED <<queue, worker, dest, nat, arrived, made, released, sent>>

\* Process takes a packet although the context may be done already.
Receive(s) ==
    /\ session[s].proc = "loop" /\ session[s].ch # <<>>
    /\ session' = [session EXCEPT ![s].proc = "packet", ![s].packet = Head(session[s].ch),
                                  ![s].ch = Tail(@)]
    /\ UNCHANGED <<queue, worker, dest, nat, arrived, made, released, sent>>

ProcessReturns_Deletes(s) ==
    /\ session[s].proc = "loop" /\ Closed(s)
    /\ session' = [session EXCEPT ![s].proc = "end"]
    /\ nat' = None
    /\ UNCHANGED <<queue, worker, dest, arrived, made, released, sent>>

ProcessReturns(s) ==
    /\ session[s].proc = "loop" /\ Closed(s)
    /\ session' = [session EXCEPT ![s].proc = "end"]
    /\ UNCHANGED <<queue, worker, dest, nat, arrived, made, released, sent>>

\* processPacket up to the write: the mapped target, or a new resolution.
Resolve_Anew(s) ==
    LET o == dest[session[s].packet]
    IN  /\ session[s].proc = "packet"
        /\ \E t \in Targets :
               session' = [session EXCEPT ![s] =
                   [WithMapping(@, o, t) EXCEPT !.proc = "write", !.addr = t]]
        /\ UNCHANGED <<queue, worker, dest, nat, arrived, made, released, sent>>

Resolve(s) ==
    LET o == dest[session[s].packet]
        known == session[s].originToTarget[o]
    IN  /\ session[s].proc = "packet"
        /\ IF known # Invalid
           THEN session' = [session EXCEPT ![s].proc = "write", ![s].addr = known]
           ELSE \E t \in Targets :
                    session' = [session EXCEPT ![s] =
                        [WithMapping(@, o, t) EXCEPT !.proc = "write", !.addr = t]]
        /\ UNCHANGED <<queue, worker, dest, nat, arrived, made, released, sent>>

ResolveFails(s) ==
    /\ session[s].proc = "packet"
    /\ session[s].originToTarget[dest[session[s].packet]] = Invalid
    /\ session' = [session EXCEPT ![s].proc = "loop", ![s].packet = None]
    /\ Drop(session[s].packet)
    /\ UNCHANGED <<queue, worker, dest, nat, arrived, made, sent>>

\* handleUDPToRemote, and the deferred Drop.
Write(s) ==
    /\ session[s].proc = "write"
    /\ sent' = IF session[s].conn = "open"
               THEN Append(sent, [packet |-> session[s].packet, session |-> s,
                                  target |-> session[s].addr])
               ELSE sent
    /\ session' = [session EXCEPT ![s].proc = "loop", ![s].packet = None, ![s].addr = Invalid]
    /\ Drop(session[s].packet)
    /\ UNCHANGED <<queue, worker, dest, nat, arrived, made>>

-----------------------------------------------------------------------------
(* The end of a session *)

\* handleUDPToLocal: the read deadline, a read error or a failed write back.  Its deferred
\* function closes the sender, then the connection, then removes the entry.
ReadEnds(s) ==
    /\ session[s].conn = "open" /\ session[s].closing = "open"
    /\ session' = [session EXCEPT ![s].closing = "cancelled"]
    /\ UNCHANGED <<queue, worker, dest, nat, arrived, made, released, sent>>

DropOne_Peek(s) ==
    /\ session[s].closing = "cancelled" /\ session[s].ch # <<>>
    /\ session' = [session EXCEPT ![s].closing = "drained"]
    /\ Drop(Head(session[s].ch))
    /\ UNCHANGED <<queue, worker, dest, nat, arrived, made, sent>>

DropOne(s) ==
    /\ session[s].closing = "cancelled" /\ session[s].ch # <<>>
    /\ session' = [session EXCEPT ![s].ch = Tail(@)]
    /\ Drop(Head(session[s].ch))
    /\ UNCHANGED <<queue, worker, dest, nat, arrived, made, sent>>

DropAllEnds(s) ==
    /\ session[s].closing = "cancelled" /\ session[s].ch = <<>>
    /\ session' = [session EXCEPT ![s].closing = "drained"]
    /\ UNCHANGED <<queue, worker, dest, nat, arrived, made, released, sent>>

CloseConn(s) ==
    /\ session[s].closing = "drained" /\ session[s].conn = "open"
    /\ session' = [session EXCEPT ![s].conn = "closed"]
    /\ UNCHANGED <<queue, worker, dest, nat, arrived, made, released, sent>>

\* natTable.Delete names the key, not the session.
Delete_Early(s) ==
    /\ session[s].closing = "drained"
    /\ session' = [session EXCEPT ![s].closing = "gone"]
    /\ nat' = None
    /\ UNCHANGED <<queue, worker, dest, arrived, made, released, sent>>

Delete(s) ==
    /\ session[s].closing = "drained" /\ session[s].conn # "open"
    /\ session' = [session EXCEPT ![s].closing = "gone"]
    /\ nat' = None
    /\ UNCHANGED <<queue, worker, dest, arrived, made, released, sent>>

-----------------------------------------------------------------------------
Worker == Refuse \/ GetOrCreate \/ SendCheck \/ SendPut
Dial(s) == DialOk(s) \/ DialFail(s)
Process(s) == Receive(s) \/ ProcessReturns(s) \/ Resolve(s) \/ ResolveFails(s) \/ Write(s)
Close(s) == DropOne(s) \/ DropAllEnds(s) \/ CloseConn(s) \/ Delete(s)

Next ==
    \/ \E o \in Origins : HandleUDPPacket(o)
    \/ Worker
    \/ \E s \in Sessions : Dial(s) \/ Process(s) \/ ReadEnds(s) \/ Close(s)

Spec == Init /\ [][Next]_vars

\* Every goroutine that can run runs; dials and lookups end at their timeouts.  No packet has
\* to arrive, and a session need not end.
Fairness ==
    /\ WF_vars(Worker)
    /\ \A s \in Sessions : WF_vars(Dial(s)) /\ WF_vars(Process(s)) /\ WF_vars(Close(s))

FairSpec == Spec /\ Fairness

-----------------------------------------------------------------------------
SessionType ==
    [first : Packets \cup {None}, ch : Seq(Packets),
     closing : {"open", "cancelled", "drained", "gone"}, conn : {"none", "open", "closed"},
     proc : {"dial", "loop", "packet", "write", "end"},
     packet : Packets \cup {None}, addr : Targets \cup {Invalid},
     originToTarget : [Origins -> Targets \cup {Invalid}],
     targetToOrigin : [Targets -> Origins \cup {Invalid}]]

\* Every variable keeps its type, and no channel exceeds its capacity.
TypeOK ==
    /\ queue \in Seq(Packets) /\ Len(queue) <= QueueCapacity
    /\ worker \in [pc : {"idle", "send", "put"}, packet : Packets \cup {None},
                   sender : Sessions \cup {None}]
    /\ dest \in [Packets -> Origins \cup {Invalid}]
    /\ nat \in Sessions \cup {None}
    /\ session \in [Sessions -> SessionType]
    /\ \A s \in Sessions : Len(session[s].ch) <= SenderCapacity
    /\ arrived \in 0..MaxPackets /\ made \in 0..MaxPackets
    /\ released \in [Packets -> Nat]
    /\ sent \in Seq([packet : Packets, session : Sessions, target : Targets \cup {Invalid}])

Within(q, p) == \E i \in DOMAIN q : q[i] = p

\* Where a packet may be: the worker and its queue are no session's.
Holds(place, s, p) ==
    \/ place = "queue" /\ s = None /\ Within(queue, p)
    \/ place = "worker" /\ s = None /\ worker.packet = p
    \/ place = "channel" /\ s \in Sessions /\ Within(session[s].ch, p)
    \/ place = "process" /\ s \in Sessions /\ session[s].packet = p

Places == {"queue", "worker", "channel", "process"}
Holders(p) == {h \in Places \X (Sessions \cup {None}) : Holds(h[1], h[2], p)}

\* The pooled buffer of a packet has exactly one owner until it is released, and is never
\* released twice, whoever of worker, Process and dropAll wins the race for it.
OneOwner ==
    \A p \in 1..arrived :
        LET holders == Holders(p)
        IN  \/ released[p] = 0 /\ \E h \in holders : holders = {h}
            \/ released[p] = 1 /\ holders = {}

\* Packets of one source reach the remote side in the order in which they arrived, from one
\* session to the next too: a session's connection is closed before its key is free again.
SentInOrder ==
    \A i, j \in DOMAIN sent : i < j => sent[i].packet < sent[j].packet

\* The table's entry is the one session that is not gone: deleting by key never removes the
\* entry of a younger session, and no session lives on beside the one in the table.
EntryIsOwn ==
    \A s \in 1..made : session[s].closing # "gone" <=> nat = s

\* Within a session all packets for one address go to the same target, and what comes back
\* from that target is given an origin of this session that is sent to it: the very origin,
\* when only one is.
RepliesMatch ==
    \A i \in DOMAIN sent :
        LET s == sent[i].session
            t == sent[i].target
            o == dest[sent[i].packet]
            users == {q \in Origins : session[s].originToTarget[q] = t}
        IN  /\ \A j \in DOMAIN sent :
                   sent[j].session = s /\ dest[sent[j].packet] = o => sent[j].target = t
            /\ RestoreReadFrom(s, t) \in users
            /\ users = {o} => RestoreReadFrom(s, t) = o

Stranded(p) ==
    \E s \in Sessions : /\ session[s].closing \in {"drained", "gone"} /\ session[s].proc = "end"
                        /\ Within(session[s].ch, p)

\* Every packet that arrives is in the end released, or stranded by that race: the worker does
\* not block on a full channel, and a session that fails gives up what it holds.
PacketsSettle == []<>(\A p \in 1..arrived : released[p] > 0 \/ Stranded(p))

=============================================================================
