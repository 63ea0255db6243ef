------------------------------ MODULE HubProofs ------------------------------
(* Theorems of Hub, for every value of its constants. *)
EXTENDS Hub, TLAPS

USE DEF hub, queue, conns, source

\* What is handed on is a payload, and only changes make results.
Ready ==
    /\ version <= changes /\ built <= version
    /\ \A p \in Publishers : pub[p].pc = "send" => pub[p].payload \in Versions
    /\ \A c \in Clients : serve[c] = "push" => snap[c] \in Versions
    /\ \A c \in Clients : serve[c] # "done" => first[c] = None

Typed == TypeOK /\ Ready

-----------------------------------------------------------------------------
(* Types. *)

LEMMA InitTyped == Init => Typed
<1>1. 0 \in Versions /\ 0 <= BroadcastCap /\ 0 <= SendCap
  BY CapacityType, ChangesType DEF Versions
<1>2. <<>> \in Seq(Versions) /\ Len(<<>>) = 0
  OBVIOUS
<1> SUFFICES ASSUME Init
             PROVE  Typed
  OBVIOUS
<1>3. /\ broadcast \in Seq(Versions) /\ Len(broadcast) <= BroadcastCap
      /\ taken \in Seq(Versions)
  BY <1>1, <1>2 DEF Init
<1>4. /\ send \in [Clients -> Seq(Versions)] /\ frame \in [Clients -> Seq(Versions)]
      /\ updates \in [Clients -> Seq(Versions)]
      /\ \A c \in Clients : Len(send[c]) <= SendCap
  BY <1>1, <1>2 DEF Init
<1>5. /\ pub \in [Publishers -> [pc : {"idle", "build", "send"}, payload : Versions \cup {None}]]
      /\ Ready
  BY ChangesType DEF Init, Ready
<1> QED BY <1>1, <1>3, <1>4, <1>5 DEF Init, Typed, TypeOK

LEMMA SeqFacts ==
    ASSUME NEW S, NEW s \in Seq(S)
    PROVE  /\ Len(s) \in Nat
           /\ \A x \in S : Append(s, x) \in Seq(S) /\ Len(Append(s, x)) = Len(s) + 1
           /\ s # <<>> => /\ Head(s) \in S /\ s[1] \in S
                          /\ Tail(s) \in Seq(S) /\ Len(Tail(s)) = Len(s) - 1
OBVIOUS

LEMMA NextTyped ==
    ASSUME Typed, [Next]_vars
    PROVE  Typed'
<1> USE CapacityType, ChangesType DEF Typed, TypeOK, Ready
<1>1. CASE UNCHANGED vars
  BY <1>1 DEF vars
<1>2. ASSUME NEW p \in Publishers, Commit(p) \/ Build(p) \/ BuildFails(p)
      PROVE  Typed'
  <2>1. CASE Commit(p)
    <3>1. /\ version' \in Versions /\ changes' \in Versions
          /\ version' <= changes' /\ built' <= version' /\ built' \in Versions
      BY <2>1 DEF Commit, Versions
    <3>2. pub' \in [Publishers -> [pc : {"idle", "build", "send"}, payload : Versions \cup {None}]]
      BY <2>1 DEF Commit
    <3> QED BY <2>1, <3>1, <3>2 DEF Commit
  <2>2. CASE Build(p)
    BY <2>2 DEF Build, Payload, Versions
  <2>3. CASE BuildFails(p)
    BY <2>3 DEF BuildFails
  <2> QED BY <1>2, <2>1, <2>2, <2>3
<1>3. ASSUME NEW p \in Publishers, Publish(p)
      PROVE  Typed'
  BY <1>3, SeqFacts DEF Publish
<1>4. CASE TakeBroadcast
  BY <1>4, SeqFacts DEF TakeBroadcast, Round
<1>5. ASSUME NEW c \in Clients, Register(c)
      PROVE  Typed'
  BY <1>5, SeqFacts DEF Register
<1>6. ASSUME NEW c \in Clients, Unregister(c)
      PROVE  Typed'
  BY <1>6 DEF Unregister, Drop, CloseSend
<1>7. ASSUME NEW c \in Clients, Deliver(c)
      PROVE  Typed'
  <2>1. current \in Round /\ current' \in Round \cup {None}
    BY <1>7 DEF Deliver, Round
  <2>2. CASE Room(c)
    <3>1. current.version \in Versions
      BY <2>1 DEF Round
    <3>2. /\ Append(send[c], current.version) \in Seq(Versions)
          /\ Len(Append(send[c], current.version)) <= SendCap
          /\ Append(updates[c], current.version) \in Seq(Versions)
      BY <2>2, <3>1, SeqFacts DEF Room
    <3>3. /\ send' = [send EXCEPT ![c] = Append(send[c], current.version)]
          /\ last' = [last EXCEPT ![c] = current.version]
          /\ updates' = [updates EXCEPT ![c] = Append(updates[c], current.version)]
          /\ UNCHANGED <<clients, closed, first, source, broadcast, taken, conns>>
      BY <1>7, <2>2 DEF Deliver, Push
    <3> QED BY <2>1, <3>1, <3>2, <3>3
  <2>3. CASE ~Room(c)
    BY <1>7, <2>1, <2>3 DEF Deliver, WhenFull, Drop, CloseSend
  <2> QED BY <2>2, <2>3
<1>8. ASSUME NEW c \in Clients, Connect(c)
      PROVE  Typed'
  BY <1>8 DEF Connect
<1>9. ASSUME NEW c \in Clients, Serve(c)
      PROVE  Typed'
  <2>1. CASE BuildSnapshot(c) \/ NoSnapshot(c) \/ PushOnClosed(c)
    <3>1. CASE BuildSnapshot(c)
      BY <3>1 DEF BuildSnapshot, Payload
    <3>2. CASE NoSnapshot(c)
      BY <3>2 DEF NoSnapshot, StartPumps
    <3>3. CASE PushOnClosed(c)
      BY <3>3 DEF PushOnClosed
    <3> QED BY <2>1, <3>1, <3>2, <3>3
  <2>2. CASE PushSnapshot(c) /\ Room(c)
    <3>1. snap[c] \in Versions
      BY <2>2 DEF PushSnapshot
    <3>2. /\ Append(send[c], snap[c]) \in Seq(Versions)
          /\ Len(Append(send[c], snap[c])) <= SendCap
      BY <2>2, <3>1, SeqFacts DEF Room
    <3> QED BY <2>2, <3>1, <3>2 DEF PushSnapshot, Push, StartPumps
  <2>3. CASE PushSnapshot(c) /\ ~Room(c)
    BY <2>3 DEF PushSnapshot, StartPumps
  <2> QED BY <1>9, <2>1, <2>2, <2>3 DEF Serve
<1>10. ASSUME NEW c \in Clients, WritePump(c)
       PROVE  Typed'
  <2>1. CASE TakeMessage(c)
    BY <2>1, SeqFacts DEF TakeMessage
  <2>2. CASE WriteFrame(c)
    BY <2>2, SeqFacts DEF WriteFrame, OnMessage
  <2>3. CASE WriteFails(c) \/ WriterClosed(c)
    <3>1. CASE WriteFails(c)
      BY <3>1 DEF WriteFails
    <3>2. CASE WriterClosed(c)
      BY <3>2 DEF WriterClosed
    <3> QED BY <2>3, <3>1, <3>2
  <2> QED BY <1>10, <2>1, <2>2, <2>3 DEF WritePump
<1>11. ASSUME NEW c \in Clients, ReadPump(c) \/ Disconnect(c)
       PROVE  Typed'
  BY <1>11 DEF ReadPump, ReadError, AfterReadError, CloseSocket, Disconnect
<1> QED
  BY <1>1, <1>2, <1>3, <1>4, <1>5, <1>6, <1>7, <1>8, <1>9, <1>10, <1>11 DEF Next, Run

\* Types, and the capacities of Broadcast and of every send channel (NewHub, ServeWS).
THEOREM TypesHold == Spec => []TypeOK
<1>1. Typed => TypeOK
  BY DEF Typed
<1> QED BY <1>1, InitTyped, NextTyped, PTL DEF Spec

-----------------------------------------------------------------------------
(* The map and its channels. *)

\* A connection is in the map, or has a closed channel, only once it is registered,
\* and it registers once: a closed channel never gets into the map.
RegisteredOnce ==
    \A c \in Clients : c \in clients \/ closed[c] => serve[c] \notin {"none", "register"}

Open == Typed /\ RegisteredOnce /\ MapMeansOpen

LEMMA InitOpen == Init => Open
BY InitTyped DEF Init, Open, RegisteredOnce, MapMeansOpen

LEMMA NextOpen ==
    ASSUME Open, [Next]_vars
    PROVE  Open'
<1>0. /\ closed \in [Clients -> BOOLEAN] /\ clients \subseteq Clients
      /\ serve \in [Clients -> {"none", "register", "snapshot", "push", "done", "panic"}]
      /\ Typed'
  BY NextTyped DEF Open, Typed, TypeOK
<1> USE <1>0 DEF Open, RegisteredOnce, MapMeansOpen
<1>1. CASE UNCHANGED vars
  BY <1>1 DEF vars
<1>2. ASSUME UNCHANGED <<clients, closed, serve, current>>
      PROVE  Open'
  BY <1>2
<1>3. ASSUME NEW p \in Publishers, Commit(p) \/ Build(p) \/ BuildFails(p) \/ Publish(p)
      PROVE  Open'
  BY <1>3, <1>2 DEF Commit, Build, BuildFails, Publish
<1>4. CASE TakeBroadcast
  BY <1>4 DEF TakeBroadcast
<1>5. ASSUME NEW c \in Clients, Register(c)
      PROVE  Open'
  BY <1>5 DEF Register
<1>6. ASSUME NEW c \in Clients, Unregister(c)
      PROVE  Open'
  <2>1. CASE c \in clients
    BY <1>6, <2>1 DEF Unregister, Drop, CloseSend
  <2>2. CASE c \notin clients
    BY <1>6, <2>2 DEF Unregister
  <2> QED BY <2>1, <2>2
<1>7. ASSUME NEW c \in Clients, Deliver(c)
      PROVE  Open'
  <2>1. current' # None => current'.todo = current.todo \ {c}
    BY <1>7 DEF Deliver
  <2>2. /\ current # None
        /\ UNCHANGED serve
        /\ \/ UNCHANGED <<clients, closed>>
           \/ clients' = clients \ {c} /\ closed' = [closed EXCEPT ![c] = TRUE]
    BY <1>7 DEF Deliver, Push, WhenFull, Drop, CloseSend
  <2>3. c \in clients
    BY <1>7 DEF Deliver
  <2> QED BY <2>1, <2>2, <2>3
<1>8. ASSUME NEW c \in Clients, Connect(c)
      PROVE  Open'
  BY <1>8 DEF Connect
<1>9. ASSUME NEW c \in Clients, Serve(c)
      PROVE  Open'
  <2>1. CASE BuildSnapshot(c) \/ PushOnClosed(c)
    BY <2>1 DEF BuildSnapshot, PushOnClosed
  <2>2. CASE NoSnapshot(c)
    BY <2>2 DEF NoSnapshot, StartPumps
  <2>3. CASE PushSnapshot(c)
    BY <2>3 DEF PushSnapshot, Push, StartPumps
  <2> QED BY <1>9, <2>1, <2>2, <2>3 DEF Serve
<1>10. ASSUME NEW c \in Clients, WritePump(c) \/ ReadPump(c) \/ Disconnect(c)
       PROVE  Open'
  BY <1>10, <1>2 DEF WritePump, TakeMessage, WriteFrame, WriteFails, WriterClosed,
                     ReadPump, ReadError, CloseSocket, Disconnect
<1> QED
  BY <1>1, <1>3, <1>4, <1>5, <1>6, <1>7, <1>8, <1>9, <1>10 DEF Next, Run

\* Run never sends on a closed channel and never closes one twice (hub.go Run, its
\* cases unregister and Broadcast), for any number of clients and any capacity.
THEOREM MapStaysOpen == Spec => []MapMeansOpen
<1>1. Open => MapMeansOpen
  BY DEF Open
<1> QED BY <1>1, InitOpen, NextOpen, PTL DEF Spec

-----------------------------------------------------------------------------
(* What the clients get. *)

\* Run hands out what it took last, and nobody got anything before it registered.
InHand ==
    /\ current # None => taken # <<>> /\ current.version = taken[Len(taken)]
    /\ \A c \in Clients : serve[c] \in {"none", "register"} => updates[c] = <<>>

Inv == Open /\ InHand /\ NoGap

LEMMA InitInv == Init => Inv
<1>1. Len(<<>>) = 0
  OBVIOUS
<1> QED BY <1>1, InitOpen DEF Init, Inv, InHand, NoGap

\* The broadcast in hand goes to one client.
LEMMA DeliverGap ==
    ASSUME Inv, NEW c \in Clients, Deliver(c), Typed'
    PROVE  InHand' /\ NoGap'
<1>1. /\ current \in Round /\ c \in current.todo /\ current.todo \subseteq clients
      /\ taken \in Seq(Versions) /\ taken # <<>> /\ current.version = taken[Len(taken)]
      /\ updates \in [Clients -> Seq(Versions)] /\ joined \in [Clients -> Nat]
  BY DEF Inv, InHand, Open, MapMeansOpen, Typed, TypeOK, Deliver
<1>2. UNCHANGED <<taken, joined, serve>>
  BY DEF Deliver
<1>3. \A d \in Clients : d # c => updates'[d] = updates[d]
  BY <1>1 DEF Deliver, WhenFull, Drop, CloseSend
<1>4. /\ clients' \subseteq clients
      /\ \A d \in Clients : Pending(d)' = IF d = c THEN 0 ELSE Pending(d)
  <2>1. IF current.todo = {c} THEN current' = None
                              ELSE current' = [current EXCEPT !.todo = @ \ {c}]
    BY DEF Deliver
  <2>2. current # None
    BY DEF Deliver
  <2>3. current.todo # {c} => current' \in Round /\ current'.todo = current.todo \ {c}
    BY <1>1, <2>1 DEF Round
  <2>4. ASSUME NEW d \in Clients
        PROVE  Pending(d)' = IF d = c THEN 0 ELSE Pending(d)
    BY <1>1, <2>1, <2>2, <2>3, NoneIsNoRound DEF Pending
  <2>5. clients' \subseteq clients
    BY DEF Deliver, WhenFull, Drop
  <2> QED BY <2>4, <2>5
<1>5. InHand'
  <2>1. current' # None => current'.version = current.version
    BY <1>1 DEF Deliver, Round
  <2>2. serve[c] \notin {"none", "register"}
    BY <1>1 DEF Inv, Open, RegisteredOnce
  <2> QED BY <1>1, <1>2, <1>3, <2>1, <2>2 DEF Inv, InHand
<1>6. ASSUME NEW d \in Clients, d # c
      PROVE  /\ \A i \in 1..Len(updates'[d]) : /\ joined'[d] + i <= Len(taken')
                                                /\ updates'[d][i] = taken'[joined'[d] + i]
             /\ d \in clients' => joined'[d] + Len(updates'[d]) + Pending(d)' = Len(taken')
  BY <1>2, <1>3, <1>4, <1>6 DEF Inv, NoGap
<1>7. joined[c] + Len(updates[c]) + 1 = Len(taken)
  <2>1. Pending(c) = 1
    BY <1>1, NoneIsNoRound DEF Pending
  <2> QED BY <1>1, <2>1 DEF Inv, NoGap
<1>8. /\ \A i \in 1..Len(updates'[c]) : /\ joined'[c] + i <= Len(taken')
                                          /\ updates'[c][i] = taken'[joined'[c] + i]
      /\ c \in clients' => joined'[c] + Len(updates'[c]) + Pending(c)' = Len(taken')
  <2>1. CASE Room(c)
    <3>1. updates'[c] = Append(updates[c], current.version)
      BY <1>1, <2>1 DEF Deliver
    <3>2. /\ Len(updates'[c]) = Len(updates[c]) + 1
          /\ \A i \in 1..Len(updates[c]) : updates'[c][i] = updates[c][i]
          /\ updates'[c][Len(updates[c]) + 1] = current.version
      BY <1>1, <3>1 DEF Round
    <3>3. Len(updates[c]) \in Nat /\ joined[c] \in Nat /\ Len(taken) \in Nat
      BY <1>1
    <3>4. ASSUME NEW i \in 1..Len(updates'[c])
          PROVE  joined[c] + i <= Len(taken) /\ updates'[c][i] = taken[joined[c] + i]
      <4>1. CASE i \in 1..Len(updates[c])
        BY <3>2, <4>1 DEF Inv, NoGap
      <4>2. CASE i = Len(updates[c]) + 1
        <5>1. joined[c] + i = Len(taken)
          BY <1>7, <3>3, <4>2
        <5> QED BY <1>1, <3>2, <3>3, <4>2, <5>1
      <4> QED BY <3>2, <3>3, <4>1, <4>2
    <3>5. joined[c] + Len(updates'[c]) + Pending(c)' = Len(taken)
      BY <1>4, <1>7, <3>2, <3>3
    <3> QED BY <1>2, <3>4, <3>5
  <2>2. CASE ~Room(c)
    <3>1. updates' = updates /\ c \notin clients'
      BY <2>2 DEF Deliver, WhenFull, Drop, CloseSend
    <3> QED BY <1>2, <3>1 DEF Inv, NoGap
  <2> QED BY <2>1, <2>2
<1>9. NoGap'
  BY <1>6, <1>8 DEF NoGap
<1> QED BY <1>5, <1>9

LEMMA NextInv ==
    ASSUME Inv, [Next]_vars
    PROVE  Inv'
<1>0. /\ taken \in Seq(Versions) /\ broadcast \in Seq(Versions) /\ clients \subseteq Clients
      /\ updates \in [Clients -> Seq(Versions)] /\ joined \in [Clients -> Nat]
      /\ serve \in [Clients -> {"none", "register", "snapshot", "push", "done", "panic"}]
      /\ Typed' /\ Open'
  BY NextOpen DEF Inv, Open, Typed, TypeOK
<1> USE <1>0 DEF Inv, InHand, NoGap, Pending
<1>1. CASE UNCHANGED vars
  BY <1>1 DEF vars
<1>2. ASSUME UNCHANGED <<clients, current, taken, joined, updates>>,
             \A c \in Clients : serve'[c] \in {"none", "register"} => serve[c] \in {"none", "register"}
      PROVE  Inv'
  BY <1>2
<1>3. ASSUME NEW p \in Publishers, Commit(p) \/ Build(p) \/ BuildFails(p) \/ Publish(p)
      PROVE  Inv'
  BY <1>3, <1>2 DEF Commit, Build, BuildFails, Publish
<1>4. CASE TakeBroadcast
  <2>1. /\ Len(taken') = Len(taken) + 1
        /\ \A i \in 1..Len(taken) : taken'[i] = taken[i]
        /\ taken'[Len(taken')] = Head(broadcast)
        /\ taken' # <<>>
    BY <1>4, SeqFacts DEF TakeBroadcast
  <2>2. InHand'
    BY <1>4, <2>1, NoneIsNoRound DEF TakeBroadcast
  <2>3. \A c \in clients : Pending(c) = 0 /\ Pending(c)' = 1
    <3>1. ASSUME clients # {}
          PROVE  current' \in Round /\ current'.todo = clients
      BY <1>4, <3>1, SeqFacts DEF TakeBroadcast, Round
    <3> QED BY <1>4, <3>1, NoneIsNoRound DEF TakeBroadcast
  <2>4. UNCHANGED <<clients, updates, joined>>
    BY <1>4 DEF TakeBroadcast
  <2>5. ASSUME NEW c \in Clients
        PROVE  /\ \A i \in 1..Len(updates'[c]) : /\ joined'[c] + i <= Len(taken')
                                                  /\ updates'[c][i] = taken'[joined'[c] + i]
               /\ c \in clients' => joined'[c] + Len(updates'[c]) + Pending(c)' = Len(taken')
    <3>1. Len(updates[c]) \in Nat /\ joined[c] \in Nat /\ Len(taken) \in Nat
      OBVIOUS
    <3>2. ASSUME NEW i \in 1..Len(updates[c])
          PROVE  joined[c] + i <= Len(taken') /\ updates[c][i] = taken'[joined[c] + i]
      <4>1. joined[c] + i <= Len(taken) /\ updates[c][i] = taken[joined[c] + i]
        OBVIOUS
      <4>2. joined[c] + i \in 1..Len(taken)
        BY <3>1, <4>1
      <4> QED BY <2>1, <3>1, <4>1, <4>2
    <3> QED BY <2>1, <2>3, <2>4, <3>1, <3>2
  <2>6. NoGap'
    BY <2>5
  <2> QED BY <2>2, <2>6
<1>5. ASSUME NEW c \in Clients, Register(c)
      PROVE  Inv'
  <2>1. updates[c] = <<>> /\ Len(<<>>) = 0
    BY <1>5 DEF Register
  <2>2. current = None /\ current' = None
    BY <1>5 DEF Register
  <2> QED BY <1>5, <2>1, <2>2 DEF Register
<1>6. ASSUME NEW c \in Clients, Unregister(c)
      PROVE  Inv'
  BY <1>6 DEF Unregister, Drop, CloseSend
<1>7. ASSUME NEW c \in Clients, Deliver(c)
      PROVE  Inv'
  BY <1>7, DeliverGap
<1>8. ASSUME NEW c \in Clients, Connect(c) \/ Serve(c)
      PROVE  Inv'
  <2>1. CASE Connect(c)
    BY <2>1, <1>2 DEF Connect
  <2>2. CASE Serve(c)
    BY <2>2, <1>2 DEF Serve, BuildSnapshot, NoSnapshot, PushSnapshot, Push, StartPumps, PushOnClosed
  <2> QED BY <1>8, <2>1, <2>2
<1>9. ASSUME NEW c \in Clients, WritePump(c) \/ ReadPump(c) \/ Disconnect(c)
      PROVE  Inv'
  BY <1>9, <1>2 DEF WritePump, TakeMessage, WriteFrame, WriteFails, WriterClosed,
                    ReadPump, ReadError, CloseSocket, Disconnect
<1> QED
  BY <1>1, <1>3, <1>4, <1>5, <1>6, <1>7, <1>8, <1>9 DEF Next, Run

\* Every client gets every broadcast from its registration on, in order and once, until
\* it is dropped (hub.go Run), for any number of clients and any capacities.
THEOREM NobodyMisses == Spec => []NoGap
<1>1. Inv => NoGap
  BY DEF Inv
<1> QED BY <1>1, InitInv, NextInv, PTL DEF Spec

-----------------------------------------------------------------------------
(* Hub implements Feed. *)

\* Feed is not concerned by what happens outside Run and the map.
LEMMA PlaceStays ==
    ASSUME UNCHANGED <<clients, taken, updates, joined>>,
           \A c \in Clients : serve'[c] \in {"none", "register"} <=> serve[c] \in {"none", "register"}
    PROVE  UNCHANGED F!vars
<1>1. Place' = Place /\ Given' = Given
  BY DEF Place, Given
<1> QED BY <1>1 DEF F!vars

\* A client that leaves the map leaves the feed.
LEMMA Leaves ==
    ASSUME Inv, NEW c \in Clients, c \in clients, clients' = clients \ {c},
           UNCHANGED <<taken, updates, joined, serve>>
    PROVE  F!Leave(c)
<1>1. Place[c] = "in"
  BY DEF Place
<1>2. serve[c] \notin {"none", "register"}
  BY DEF Inv, Open, RegisteredOnce
<1>3. Place' = [Place EXCEPT ![c] = "left"]
  BY <1>2 DEF Place
<1>4. Given' = Given
  BY DEF Given
<1> QED BY <1>1, <1>3, <1>4 DEF F!Leave

\* The hub implements Feed: every step of the goroutines is one of the feed's, or does
\* not concern it (hub.go Run), for any number of clients and any capacities.
THEOREM Refinement == Spec => ImplementsFeed
<1>1. Init => F!Init
  <2> SUFFICES ASSUME Init
               PROVE  F!Init
    OBVIOUS
  <2>1. Place = [c \in Clients |-> "out"]
    BY DEF Init, Place
  <2>2. Given = [c \in Clients |-> 0]
    BY DEF Init, Given
  <2> QED BY <2>1, <2>2 DEF Init, F!Init
<1>2. Inv /\ [Next]_vars => [F!Next]_(F!vars)
  <2> SUFFICES ASSUME Inv, [Next]_vars
               PROVE  [F!Next]_(F!vars)
    OBVIOUS
  <2>0. /\ taken \in Seq(Versions) /\ broadcast \in Seq(Versions) /\ clients \subseteq Clients
        /\ updates \in [Clients -> Seq(Versions)] /\ joined \in [Clients -> Nat]
        /\ serve \in [Clients -> {"none", "register", "snapshot", "push", "done", "panic"}]
    BY DEF Inv, Open, Typed, TypeOK
  <2>1. CASE UNCHANGED vars
    BY <2>1, PlaceStays DEF vars
  <2>2. ASSUME NEW p \in Publishers, Commit(p) \/ Build(p) \/ BuildFails(p) \/ Publish(p)
        PROVE  UNCHANGED F!vars
    BY <2>2, PlaceStays DEF Commit, Build, BuildFails, Publish
  <2>3. CASE TakeBroadcast
    <3>1. /\ taken' = Append(taken, Head(broadcast)) /\ Head(broadcast) \in Versions
          /\ UNCHANGED <<clients, serve, updates, joined>> /\ current = None
      BY <2>0, <2>3 DEF TakeBroadcast
    <3>2. Place' = Place /\ Given' = Given
      BY <3>1 DEF Place, Given
    <3>3. \A c \in Clients : Place[c] = "in" => Given[c] = Len(taken)
      BY <2>0, <3>1 DEF Place, Given, Inv, NoGap, Pending
    <3>4. F!Post(Head(broadcast))
      BY <3>1, <3>2, <3>3 DEF F!Post
    <3> QED BY <3>1, <3>4 DEF F!Next
  <2>4. ASSUME NEW c \in Clients, Register(c)
        PROVE  F!Next
    <3>1. /\ serve[c] = "register" /\ c \notin clients /\ updates[c] = <<>>
          /\ clients' = clients \cup {c} /\ joined' = [joined EXCEPT ![c] = Len(taken)]
          /\ serve' = [serve EXCEPT ![c] = "snapshot"] /\ UNCHANGED <<taken, updates>>
      BY <2>4 DEF Register, Inv, Open, RegisteredOnce, InHand
    <3>2. Place[c] = "out"
      BY <3>1 DEF Place
    <3>3. Place' = [Place EXCEPT ![c] = "in"]
      BY <2>0, <3>1 DEF Place
    <3>4. Given' = [Given EXCEPT ![c] = Len(taken)]
      <4>1. Len(updates[c]) = 0 /\ Len(taken) \in Nat
        BY <2>0, <3>1
      <4>2. joined'[c] + Len(updates'[c]) = Len(taken)
        BY <2>0, <3>1, <4>1
      <4> QED BY <2>0, <3>1, <4>2 DEF Given
    <3>5. F!Join(c)
      BY <3>1, <3>2, <3>3, <3>4 DEF F!Join
    <3> QED BY <3>5 DEF F!Next
  <2>5. ASSUME NEW c \in Clients, Unregister(c)
        PROVE  [F!Next]_(F!vars)
    <3>1. UNCHANGED <<taken, serve, joined, updates>>
      BY <2>5 DEF Unregister, Drop, CloseSend
    <3>2. CASE c \in clients
      BY <2>5, <3>1, <3>2, Leaves DEF Unregister, Drop, F!Next
    <3>3. CASE c \notin clients
      BY <2>5, <3>1, <3>3, PlaceStays DEF Unregister
    <3> QED BY <3>2, <3>3
  <2>6. ASSUME NEW c \in Clients, Deliver(c)
        PROVE  F!Next
    <3>1. /\ current \in Round /\ c \in clients /\ UNCHANGED <<taken, serve, joined>>
          /\ current.version = taken[Len(taken)] /\ Pending(c) = 1
      BY <2>6, NoneIsNoRound DEF Inv, InHand, Open, MapMeansOpen, Typed, TypeOK, Deliver, Pending
    <3>2. CASE Room(c)
      <4>1. /\ updates' = [updates EXCEPT ![c] = Append(@, current.version)]
            /\ UNCHANGED clients
        BY <2>6, <3>2 DEF Deliver
      <4>2. Place[c] = "in" /\ Place' = Place
        BY <3>1, <4>1 DEF Place
      <4>3. Given[c] = joined[c] + Len(updates[c])
        BY DEF Given
      <4>4. Given[c] + 1 = Len(taken) /\ Given[c] \in Nat /\ Given[c] < Len(taken)
        BY <2>0, <3>1, <4>3 DEF Inv, NoGap
      <4>5. Given' = [Given EXCEPT ![c] = @ + 1]
        <5>1. updates'[c] = Append(updates[c], current.version) /\ current.version \in Versions
          BY <2>0, <3>1, <4>1 DEF Round
        <5>2. Len(updates'[c]) = Len(updates[c]) + 1 /\ Len(updates[c]) \in Nat
          BY <2>0, <5>1
        <5>3. joined'[c] + Len(updates'[c]) = Given[c] + 1
          <6>1. joined'[c] = joined[c] /\ joined[c] \in Nat
            BY <2>0, <3>1
          <6> QED BY <4>3, <5>2, <6>1
        <5> QED BY <2>0, <3>1, <4>1, <5>3 DEF Given
      <4>6. updates' = [updates EXCEPT ![c] = Append(@, taken[Given[c] + 1])]
        BY <3>1, <4>1, <4>4
      <4>7. F!Read(c)
        BY <3>1, <4>2, <4>4, <4>5, <4>6 DEF F!Read
      <4> QED BY <4>7 DEF F!Next
    <3>3. CASE ~Room(c)
      <4>1. clients' = clients \ {c} /\ UNCHANGED updates
        BY <2>6, <3>3 DEF Deliver, WhenFull, Drop, CloseSend
      <4> QED BY <3>1, <4>1, Leaves DEF F!Next
    <3> QED BY <3>2, <3>3
  <2>7. ASSUME NEW c \in Clients, Connect(c) \/ Serve(c)
        PROVE  UNCHANGED F!vars
    <3>1. CASE Connect(c)
      BY <2>0, <3>1, PlaceStays DEF Connect
    <3>2. CASE Serve(c)
      <4>1. /\ UNCHANGED <<clients, taken, updates, joined>>
            /\ serve[c] \notin {"none", "register"}
            /\ \E w \in {"push", "done", "panic"} : serve' = [serve EXCEPT ![c] = w]
        BY <3>2 DEF Serve, BuildSnapshot, NoSnapshot, PushSnapshot, Push, StartPumps, PushOnClosed
      <4> QED BY <2>0, <4>1, PlaceStays
    <3> QED BY <2>7, <3>1, <3>2
  <2>8. ASSUME NEW c \in Clients, WritePump(c) \/ ReadPump(c) \/ Disconnect(c)
        PROVE  UNCHANGED F!vars
    BY <2>8, PlaceStays DEF WritePump, TakeMessage, WriteFrame, WriteFails, WriterClosed,
                            ReadPump, ReadError, CloseSocket, Disconnect
  <2> QED
    BY <2>1, <2>2, <2>3, <2>4, <2>5, <2>6, <2>7, <2>8 DEF Next, Run
<1> QED BY <1>1, <1>2, InitInv, NextInv, PTL DEF Spec, ImplementsFeed, F!Spec


\* Feed keeps what it says: what a subscriber read is a piece of the log without gap or
\* repetition, from where it joined to where it stands, and nobody else read anything.
THEOREM FeedSound == F!Spec => []F!Sound /\ F!NoneSkipped
<1>0. ASSUME F!Sound, UNCHANGED F!vars
      PROVE  F!Sound'
  BY <1>0 DEF F!Sound, F!Behind, F!vars
<1>1. F!Init => F!Sound
  <2>1. Len(<<>>) = 0 /\ <<>> \in Seq(Versions)
    OBVIOUS
  <2> QED BY <2>1 DEF F!Init, F!Sound, F!Behind
<1>2. F!Sound /\ [F!Next]_(F!vars) => F!Sound'
  <2> SUFFICES ASSUME F!Sound, F!Next
               PROVE  F!Sound'
    BY <1>0
  <2>0. /\ taken \in Seq(Versions) /\ Given \in [Clients -> Nat]
        /\ updates \in [Clients -> Seq(Versions)]
        /\ Place \in [Clients -> {"out", "in", "left"}]
        /\ \A c \in Clients : F!Behind(c)
    BY DEF F!Sound
  <2>1. ASSUME NEW v \in Versions, F!Post(v)
        PROVE  F!Sound'
    <3>1. /\ taken' = Append(taken, v) /\ UNCHANGED <<Place, Given, updates>>
      BY <2>1 DEF F!Post
    <3>2. /\ taken' \in Seq(Versions) /\ Len(taken') = Len(taken) + 1 /\ Len(taken) \in Nat
          /\ \A i \in 1..Len(taken) : taken'[i] = taken[i]
      BY <2>0, <3>1
    <3>3. ASSUME NEW c \in Clients
          PROVE  F!Behind(c)'
      <4>1. Given[c] \in Nat /\ Len(updates[c]) \in Nat
        BY <2>0
      <4>2. ASSUME NEW i \in 1..Len(updates[c])
            PROVE  updates[c][i] = taken'[Given[c] - Len(updates[c]) + i]
        <5>1. Given[c] - Len(updates[c]) + i \in 1..Len(taken)
          BY <2>0, <3>2, <4>1 DEF F!Behind
        <5> QED BY <2>0, <3>2, <5>1 DEF F!Behind
      <4> QED BY <2>0, <3>1, <3>2, <4>1, <4>2 DEF F!Behind
    <3> QED BY <2>0, <3>1, <3>2, <3>3 DEF F!Sound
  <2>2. ASSUME NEW c \in Clients, F!Join(c)
        PROVE  F!Sound'
    <3>1. /\ Place[c] = "out" /\ Place' = [Place EXCEPT ![c] = "in"]
          /\ Given' = [Given EXCEPT ![c] = Len(taken)] /\ UNCHANGED <<taken, updates>>
      BY <2>2 DEF F!Join
    <3>2. updates[c] = <<>> /\ Len(updates[c]) = 0 /\ Len(taken) \in Nat
      BY <2>0, <3>1 DEF F!Behind
    <3>3. ASSUME NEW d \in Clients
          PROVE  F!Behind(d)'
      <4>1. CASE d = c
        BY <2>0, <3>1, <3>2, <4>1 DEF F!Behind
      <4>2. CASE d # c
        BY <2>0, <3>1, <4>2 DEF F!Behind
      <4> QED BY <4>1, <4>2
    <3> QED BY <2>0, <3>1, <3>2, <3>3 DEF F!Sound
  <2>3. ASSUME NEW c \in Clients, F!Read(c)
        PROVE  F!Sound'
    <3>1. /\ Place[c] = "in" /\ Given[c] < Len(taken) /\ UNCHANGED <<taken, Place>>
          /\ Given' = [Given EXCEPT ![c] = @ + 1]
          /\ updates' = [updates EXCEPT ![c] = Append(@, taken[Given[c] + 1])]
      BY <2>3 DEF F!Read
    <3>2. Given[c] \in Nat /\ Len(taken) \in Nat /\ Len(updates[c]) \in Nat
      BY <2>0
    <3>3. taken[Given[c] + 1] \in Versions
      <4>1. Given[c] + 1 \in 1..Len(taken)
        BY <3>1, <3>2
      <4> QED BY <2>0, <4>1
    <3>4. /\ Given'[c] = Given[c] + 1 /\ updates'[c] \in Seq(Versions)
          /\ Len(updates'[c]) = Len(updates[c]) + 1
          /\ \A i \in 1..Len(updates[c]) : updates'[c][i] = updates[c][i]
          /\ updates'[c][Len(updates[c]) + 1] = taken[Given[c] + 1]
      BY <2>0, <3>1, <3>3
    <3>5. F!Behind(c)'
      <4>1. ASSUME NEW i \in 1..Len(updates'[c])
            PROVE  updates'[c][i] = taken[Given'[c] - Len(updates'[c]) + i]
        <5>1. Given'[c] - Len(updates'[c]) = Given[c] - Len(updates[c])
          BY <3>2, <3>4
        <5>2. CASE i = Len(updates[c]) + 1
          BY <3>2, <3>4, <5>1, <5>2
        <5>3. CASE i \in 1..Len(updates[c])
          BY <2>0, <3>4, <5>1, <5>3 DEF F!Behind
        <5> QED BY <3>2, <3>4, <5>2, <5>3
      <4>2. Len(updates'[c]) <= Given'[c] /\ Given'[c] <= Len(taken')
        BY <2>0, <3>1, <3>2, <3>4 DEF F!Behind
      <4> QED BY <3>1, <4>1, <4>2 DEF F!Behind
    <3>6. \A d \in Clients \ {c} : F!Behind(d)'
      BY <2>0, <3>1 DEF F!Behind
    <3> QED BY <2>0, <3>1, <3>2, <3>4, <3>5, <3>6 DEF F!Sound
  <2>4. ASSUME NEW c \in Clients, F!Leave(c)
        PROVE  F!Sound'
    <3>1. /\ Place[c] = "in" /\ Place' = [Place EXCEPT ![c] = "left"]
          /\ UNCHANGED <<taken, Given, updates>>
      BY <2>4 DEF F!Leave
    <3> QED BY <2>0, <3>1 DEF F!Sound, F!Behind
  <2> QED BY <2>1, <2>2, <2>3, <2>4 DEF F!Next
<1>3. F!Sound /\ [F!Next]_(F!vars) => [F!StartStays]_(F!vars)
  <2> SUFFICES ASSUME F!Sound, F!Next, NEW c \in Clients, Place[c] # "out"
               PROVE  Given'[c] - Len(updates'[c]) = Given[c] - Len(updates[c])
    BY DEF F!StartStays
  <2>1. /\ Given \in [Clients -> Nat] /\ updates \in [Clients -> Seq(Versions)]
        /\ taken \in Seq(Versions)
    BY DEF F!Sound
  <2>2. ASSUME NEW v \in Versions, F!Post(v)
        PROVE  Given'[c] - Len(updates'[c]) = Given[c] - Len(updates[c])
    BY <2>2 DEF F!Post
  <2>3. ASSUME NEW d \in Clients, F!Join(d) \/ F!Leave(d)
        PROVE  Given'[c] - Len(updates'[c]) = Given[c] - Len(updates[c])
    BY <2>1, <2>3 DEF F!Join, F!Leave
  <2>4. ASSUME NEW d \in Clients, F!Read(d)
        PROVE  Given'[c] - Len(updates'[c]) = Given[c] - Len(updates[c])
    <3>1. /\ Given[d] < Len(taken)
          /\ Given' = [Given EXCEPT ![d] = @ + 1]
          /\ updates' = [updates EXCEPT ![d] = Append(@, taken[Given[d] + 1])]
      BY <2>4 DEF F!Read
    <3>2. Given[d] + 1 \in 1..Len(taken)
      BY <2>1, <3>1
    <3>3. Len(updates'[d]) = Len(updates[d]) + 1 /\ Given'[d] = Given[d] + 1
      BY <2>1, <3>1, <3>2
    <3>4. Len(updates[d]) \in Nat /\ Given[d] \in Nat
      BY <2>1
    <3>5. c # d => updates'[c] = updates[c] /\ Given'[c] = Given[c]
      BY <2>1, <3>1
    <3>6. CASE c = d
      BY <3>3, <3>4, <3>6
    <3>7. CASE c # d
      BY <3>5, <3>7
    <3> QED BY <3>6, <3>7
  <2> QED BY <2>2, <2>3, <2>4 DEF F!Next
<1> QED BY <1>1, <1>2, <1>3, PTL DEF F!Spec, F!NoneSkipped

-----------------------------------------------------------------------------
(* What the clients know. *)

\* The newest payload built is still to be given to c, or was handed out after c joined.
Coming(c) ==
    \/ \E p \in Publishers : pub[p].pc = "send" /\ pub[p].payload = built
    \/ built \in ToSet(broadcast)
    \/ \E i \in 1..Len(taken) : i > joined[c] /\ taken[i] = built

\* Else the snapshot is as new, or is not built yet.
Told(c) ==
    \/ serve[c] = "snapshot"
    \/ serve[c] = "push" /\ snap[c] >= built
    \/ serve[c] = "done" /\ (first[c] # None => first[c] >= built)

Covered == \A c \in clients : Coming(c) \/ Told(c)

LEMMA Appended ==
    ASSUME NEW S, NEW s \in Seq(S), NEW v \in S
    PROVE  ToSet(Append(s, v)) = ToSet(s) \cup {v}
<1>1. Append(s, v) \in Seq(S) /\ Len(Append(s, v)) = Len(s) + 1 /\ Len(s) \in Nat
  OBVIOUS
<1>2. \A i \in 1..Len(s) : Append(s, v)[i] = s[i]
  OBVIOUS
<1>3. Append(s, v)[Len(s) + 1] = v
  OBVIOUS
<1>4. DOMAIN s = 1..Len(s) /\ DOMAIN Append(s, v) = 1..(Len(s) + 1)
  OBVIOUS
<1>5. ToSet(Append(s, v)) \subseteq ToSet(s) \cup {v}
  <2>1. SUFFICES ASSUME NEW i \in 1..(Len(s) + 1)
                 PROVE  Append(s, v)[i] \in ToSet(s) \cup {v}
    BY <1>4 DEF ToSet
  <2>2. CASE i = Len(s) + 1
    BY <1>3, <2>2
  <2>3. CASE i \in 1..Len(s)
    BY <1>2, <1>4, <2>3 DEF ToSet
  <2> QED BY <1>1, <2>2, <2>3
<1>6. \A i \in 1..Len(s) : s[i] \in ToSet(Append(s, v))
  BY <1>1, <1>2, <1>4 DEF ToSet
<1>7. v \in ToSet(Append(s, v))
  BY <1>1, <1>3, <1>4 DEF ToSet
<1> QED BY <1>4, <1>5, <1>6, <1>7 DEF ToSet

LEMMA HeadOrTail ==
    ASSUME NEW S, NEW s \in Seq(S), s # <<>>, NEW v \in ToSet(s)
    PROVE  v = Head(s) \/ v \in ToSet(Tail(s))
<1>1. PICK i \in 1..Len(s) : v = s[i]
  BY DEF ToSet
<1>2. CASE i = 1
  BY <1>1, <1>2
<1>3. CASE i # 1
  <2>1. Tail(s) \in Seq(S) /\ Len(Tail(s)) = Len(s) - 1 /\ i - 1 \in 1..(Len(s) - 1)
    BY <1>3
  <2>2. Tail(s)[i - 1] = s[i]
    BY <2>1
  <2>3. DOMAIN Tail(s) = 1..(Len(s) - 1)
    BY <2>1
  <2> QED BY <1>1, <2>1, <2>2, <2>3 DEF ToSet
<1> QED BY <1>2, <1>3

LEMMA NextCovered ==
    ASSUME Inv, Covered, [Next]_vars
    PROVE  Covered'
<1>0. /\ pub \in [Publishers -> [pc : {"idle", "build", "send"}, payload : Versions \cup {None}]]
      /\ broadcast \in Seq(Versions) /\ taken \in Seq(Versions)
      /\ version \in Nat /\ built \in Nat /\ built <= version
      /\ joined \in [Clients -> Nat] /\ clients \subseteq Clients
      /\ serve \in [Clients -> {"none", "register", "snapshot", "push", "done", "panic"}]
      /\ snap \in [Clients -> Versions \cup {None}] /\ first \in [Clients -> Versions \cup {None}]
  BY ChangesType DEF Inv, Open, Typed, TypeOK, Versions, Ready
<1>1. ASSUME UNCHANGED <<clients, pub, built, broadcast, taken, joined, serve, snap, first>>
      PROVE  Covered'
  BY <1>1 DEF Covered, Coming, Told
<1>2. CASE UNCHANGED vars
  BY <1>1, <1>2 DEF vars
<1>3. ASSUME NEW p \in Publishers, Commit(p) \/ BuildFails(p)
      PROVE  Covered'
  <2>1. /\ pub[p].pc \in {"idle", "build"} /\ \A q \in Publishers \ {p} : pub'[q] = pub[q]
        /\ UNCHANGED <<clients, built, broadcast, taken, joined, serve, snap, first>>
    BY <1>0, <1>3 DEF Commit, BuildFails
  <2> QED BY <2>1 DEF Covered, Coming, Told
<1>4. ASSUME NEW p \in Publishers, Build(p)
      PROVE  Covered'
  <2>1. pub'[p].pc = "send" /\ pub'[p].payload = built'
    BY <1>0, <1>4 DEF Build, Payload
  <2> QED BY <2>1 DEF Covered, Coming
<1>5. ASSUME NEW p \in Publishers, Publish(p)
      PROVE  Covered'
  <2>1. /\ broadcast' = Append(broadcast, pub[p].payload) /\ pub[p].pc = "send"
        /\ \A q \in Publishers \ {p} : pub'[q] = pub[q]
        /\ UNCHANGED <<clients, built, taken, joined, serve, snap, first>>
    BY <1>0, <1>5 DEF Publish
  <2>2. pub[p].payload \in Versions
    BY <2>1 DEF Inv, Open, Typed, Ready
  <2>3. ToSet(broadcast') = ToSet(broadcast) \cup {pub[p].payload}
    BY <1>0, <2>1, <2>2, Appended
  <2> QED BY <2>1, <2>3 DEF Covered, Coming, Told
<1>6. CASE TakeBroadcast
  <2>1. /\ broadcast # <<>> /\ broadcast' = Tail(broadcast) /\ taken' = Append(taken, Head(broadcast))
        /\ UNCHANGED <<clients, pub, built, joined, serve, snap, first>>
    BY <1>6 DEF TakeBroadcast
  <2>2. /\ Len(taken') = Len(taken) + 1 /\ taken'[Len(taken) + 1] = Head(broadcast)
        /\ \A i \in 1..Len(taken) : taken'[i] = taken[i]
    BY <1>0, <2>1
  <2>3. ASSUME NEW c \in clients, Coming(c)
        PROVE  Coming(c)'
    <3>1. joined[c] \in Nat /\ joined[c] <= Len(taken) /\ Len(taken) \in Nat
      <4>1. Pending(c) \in Nat /\ Len(updates[c]) \in Nat
        BY <1>0 DEF Pending, Inv, Open, Typed, TypeOK
      <4> QED BY <1>0, <4>1 DEF Inv, NoGap
    <3>2. CASE built = Head(broadcast)
      <4>1. Len(taken) + 1 \in 1..Len(taken') /\ Len(taken) + 1 > joined[c]
        BY <2>2, <3>1
      <4> QED BY <2>1, <2>2, <3>2, <4>1 DEF Coming
    <3>3. CASE built \in ToSet(broadcast) /\ built # Head(broadcast)
      BY <1>0, <2>1, <3>3, HeadOrTail DEF Coming
    <3>4. CASE \E i \in 1..Len(taken) : i > joined[c] /\ taken[i] = built
      BY <2>1, <2>2, <3>1, <3>4 DEF Coming
    <3>5. CASE \E p \in Publishers : pub[p].pc = "send" /\ pub[p].payload = built
      BY <2>1, <3>5 DEF Coming
    <3> QED BY <2>3, <3>2, <3>3, <3>4, <3>5 DEF Coming
  <2>4. \A c \in clients : Told(c) => Told(c)'
    BY <2>1 DEF Told
  <2> QED BY <2>1, <2>3, <2>4 DEF Covered
<1>7. ASSUME NEW c \in Clients, Register(c)
      PROVE  Covered'
  <2>1. /\ clients' = clients \cup {c} /\ serve' = [serve EXCEPT ![c] = "snapshot"]
        /\ joined' = [joined EXCEPT ![c] = Len(taken)] /\ serve[c] = "register"
        /\ UNCHANGED <<pub, built, broadcast, taken, snap, first>>
    BY <1>7 DEF Register
  <2>2. Told(c)'
    BY <1>0, <2>1 DEF Told
  <2>3. ASSUME NEW d \in clients \ {c}
        PROVE  (Coming(d) \/ Told(d)) => (Coming(d) \/ Told(d))'
    BY <1>0, <2>1 DEF Coming, Told
  <2> QED BY <2>1, <2>2, <2>3 DEF Covered
<1>8. ASSUME NEW c \in Clients, Unregister(c) \/ Deliver(c)
      PROVE  Covered'
  <2>1. /\ clients' \subseteq clients
        /\ UNCHANGED <<pub, built, broadcast, taken, joined, serve, snap, first>>
    BY <1>8 DEF Unregister, Deliver, Push, WhenFull, Drop, CloseSend
  <2> QED BY <2>1 DEF Covered, Coming, Told
<1>9. ASSUME NEW c \in Clients, Connect(c)
      PROVE  Covered'
  <2>1. c \notin clients /\ UNCHANGED <<clients, pub, built, broadcast, taken, joined, snap, first>>
        /\ \A d \in clients : serve'[d] = serve[d]
    BY <1>0, <1>9 DEF Connect, Inv, Open, RegisteredOnce
  <2> QED BY <2>1 DEF Covered, Coming, Told
<1>10. ASSUME NEW c \in Clients, Serve(c)
       PROVE  Covered'
  <2>1. /\ UNCHANGED <<clients, pub, built, broadcast, taken, joined>>
        /\ \A d \in clients \ {c} : serve'[d] = serve[d] /\ snap'[d] = snap[d] /\ first'[d] = first[d]
    BY <1>0, <1>10 DEF Serve, BuildSnapshot, NoSnapshot, PushSnapshot, PushOnClosed, Push, StartPumps
  <2>2. \A d \in clients : Coming(d)' = Coming(d)
    BY <2>1 DEF Coming
  <2>3. \A d \in clients \ {c} : Told(d)' = Told(d)
    BY <2>1 DEF Told
  <2>4. ASSUME c \in clients, ~Coming(c)
        PROVE  Told(c)'
    <3>1. Told(c)
      BY <2>4 DEF Covered
    <3>2. CASE BuildSnapshot(c)
      BY <1>0, <3>2 DEF BuildSnapshot, Payload, Told
    <3>3. CASE NoSnapshot(c)
      <4>1. first[c] = None /\ serve'[c] = "done" /\ first' = first
        BY <1>0, <3>3 DEF NoSnapshot, StartPumps, Inv, Open, Typed, Ready
      <4> QED BY <4>1 DEF Told
    <3>4. CASE PushSnapshot(c)
      <4>1. first[c] = None /\ serve[c] = "push" /\ serve'[c] = "done" /\ snap[c] >= built /\ built' = built
        BY <1>0, <3>1, <3>4 DEF PushSnapshot, StartPumps, Told, Inv, Open, Typed, Ready
      <4>2. first'[c] \in {first[c], snap[c]}
        BY <1>0, <3>4 DEF PushSnapshot
      <4> QED BY <4>1, <4>2 DEF Told
    <3>5. CASE PushOnClosed(c)
      BY <2>4, <3>5 DEF PushOnClosed, Inv, Open, MapMeansOpen
    <3> QED BY <1>10, <3>2, <3>3, <3>4, <3>5 DEF Serve
  <2> QED BY <2>1, <2>2, <2>3, <2>4 DEF Covered
<1>11. ASSUME NEW c \in Clients, WritePump(c) \/ ReadPump(c) \/ Disconnect(c)
       PROVE  Covered'
  BY <1>1, <1>11 DEF WritePump, TakeMessage, WriteFrame, WriteFails, WriterClosed,
                     ReadPump, ReadError, CloseSocket, Disconnect
<1> QED
  BY <1>2, <1>3, <1>4, <1>5, <1>6, <1>7, <1>8, <1>9, <1>10, <1>11 DEF Next, Run

\* When everything published has been handed out, every connection whose snapshot was queued
\* has results no older than the newest that a publisher could build (ServeWS, VerifyAndVote,
\* UpdateSettings, Run), for any number of publishers and clients and any capacities.
THEOREM NobodyBehind == Spec => []NewestGiven
<1>1. Init => Covered
  BY DEF Init, Covered
<1>2. Inv /\ Covered => NewestGiven
  <2> SUFFICES ASSUME Inv, Covered, Quiet, NEW c \in clients, serve[c] = "done", first[c] # None
               PROVE  \E v \in {first[c]} \cup ToSet(updates[c]) : v >= built
    BY DEF NewestGiven
  <2>1. /\ c \in Clients /\ taken \in Seq(Versions) /\ updates \in [Clients -> Seq(Versions)]
        /\ joined \in [Clients -> Nat] /\ built \in Nat
    BY ChangesType DEF Inv, Open, Typed, TypeOK, Versions
  <2>2. CASE Told(c)
    BY <2>2 DEF Told
  <2>3. CASE Coming(c)
    <3>1. PICK i \in 1..Len(taken) : i > joined[c] /\ taken[i] = built
      <4>1. ToSet(broadcast) = {}
        BY DEF Quiet, ToSet
      <4> QED BY <2>3, <4>1 DEF Coming, Quiet
    <3>2. joined[c] + Len(updates[c]) = Len(taken)
      BY <2>1 DEF Inv, NoGap, Pending, Quiet
    <3>3. i - joined[c] \in 1..Len(updates[c]) /\ joined[c] + (i - joined[c]) = i
      BY <2>1, <3>1, <3>2
    <3>4. updates[c][i - joined[c]] = built
      BY <2>1, <3>1, <3>3 DEF Inv, NoGap
    <3>5. built \in ToSet(updates[c])
      BY <2>1, <3>3, <3>4 DEF ToSet
    <3> QED BY <2>1, <3>5
  <2> QED BY <2>2, <2>3 DEF Covered
<1>3. Inv /\ Covered /\ [Next]_vars => Inv' /\ Covered'
  BY NextInv, NextCovered
<1> QED BY <1>1, <1>2, <1>3, InitInv, PTL DEF Spec

-----------------------------------------------------------------------------
(* Nobody waits in vain. *)

\* A connection in the map has ServeWS about to start its pumps, or a readPump that is going
\* to unregister it; and a message in hand has somebody still to get it, so that Run, which
\* waits for nobody inside its loop, goes on to its select.
Attended ==
    /\ \A c \in clients : serve[c] \in {"snapshot", "push"} \/ reader[c] \in {"run", "unregister"}
    /\ current # None => current.todo # {}

LEMMA NextAttended ==
    ASSUME Open, Attended, [Next]_vars
    PROVE  Attended'
<1>0. /\ clients \subseteq Clients
      /\ serve \in [Clients -> {"none", "register", "snapshot", "push", "done", "panic"}]
      /\ reader \in [Clients -> {"off", "run", "unregister", "close", "done"}]
      /\ current \in Round \cup {None}
  BY DEF Open, Typed, TypeOK
<1> USE <1>0 DEF Attended
<1>1. ASSUME UNCHANGED <<clients, current, serve, reader>>
      PROVE  Attended'
  BY <1>1
<1>2. CASE UNCHANGED vars
  BY <1>1, <1>2 DEF vars
<1>3. ASSUME NEW p \in Publishers, Commit(p) \/ Build(p) \/ BuildFails(p) \/ Publish(p)
      PROVE  Attended'
  BY <1>1, <1>3 DEF Commit, Build, BuildFails, Publish
<1>4. CASE TakeBroadcast
  BY <1>4 DEF TakeBroadcast
<1>5. ASSUME NEW c \in Clients, Register(c)
      PROVE  Attended'
  BY <1>5 DEF Register
<1>6. ASSUME NEW c \in Clients, Unregister(c)
      PROVE  Attended'
  <2>1. clients' = clients \ {c}
    BY <1>6 DEF Unregister, Drop
  <2> QED BY <1>6, <2>1 DEF Unregister
<1>7. ASSUME NEW c \in Clients, Deliver(c)
      PROVE  Attended'
  <2>1. clients' \subseteq clients /\ UNCHANGED <<serve, reader>>
    BY <1>7 DEF Deliver, WhenFull, Drop
  <2>2. current' # None => current'.todo = current.todo \ {c} /\ current.todo # {c}
    BY <1>7 DEF Deliver, Round
  <2>3. current' # None => current'.todo # {}
    BY <1>7, <2>2 DEF Deliver
  <2> QED BY <2>1, <2>3
<1>8. ASSUME NEW c \in Clients, Connect(c)
      PROVE  Attended'
  <2>1. c \notin clients
    BY <1>8 DEF Connect, Open, RegisteredOnce
  <2> QED BY <1>8, <2>1 DEF Connect
<1>9. ASSUME NEW c \in Clients, Serve(c)
      PROVE  Attended'
  <2>1. CASE BuildSnapshot(c)
    BY <2>1 DEF BuildSnapshot
  <2>2. CASE NoSnapshot(c) \/ PushSnapshot(c)
    BY <2>2 DEF NoSnapshot, PushSnapshot, StartPumps
  <2>3. CASE PushOnClosed(c)
    <3>1. c \notin clients
      BY <2>3 DEF PushOnClosed, Open, MapMeansOpen
    <3> QED BY <2>3, <3>1 DEF PushOnClosed
  <2> QED BY <1>9, <2>1, <2>2, <2>3 DEF Serve
<1>10. ASSUME NEW c \in Clients, WritePump(c) \/ Disconnect(c)
       PROVE  Attended'
  BY <1>1, <1>10 DEF WritePump, TakeMessage, WriteFrame, WriteFails, WriterClosed, Disconnect
<1>11. ASSUME NEW c \in Clients, ReadPump(c)
       PROVE  Attended'
  <2>1. CASE ReadError(c)
    BY <2>1 DEF ReadError, AfterReadError
  <2>2. CASE CloseSocket(c)
    BY <2>2 DEF CloseSocket
  <2> QED BY <1>11, <2>1, <2>2 DEF ReadPump
<1> QED
  BY <1>2, <1>3, <1>4, <1>5, <1>6, <1>7, <1>8, <1>9, <1>10, <1>11 DEF Next, Run

\* What DeadLeave and PublishersGoOn rest on: whoever is in the map has a goroutine that
\* will take it out once its socket is gone (client.go readPump), and Run never holds a message
\* that it has nobody to give to (hub.go Run), for any number of clients and any capacities.
THEOREM ClientsAttended == Spec => []Attended
<1>1. Init => Attended
  BY DEF Init, Attended
<1> QED BY <1>1, InitOpen, NextOpen, NextAttended, PTL DEF Spec
=============================================================================
