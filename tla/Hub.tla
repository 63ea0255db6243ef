--------------------------------- MODULE Hub ---------------------------------
(***************************************************************************)
(* The live leaderboard: the goroutines that change the results and publish*)
(* them, the hub's event loop, and for each WebSocket connection ServeWS,  *)
(* its two pumps, the socket and the browser at its end.  A payload is the *)
(* version of the results that GetAllWithVotes found.  The voting status   *)
(* in it, which BuildWSPayload asks for afterwards and whose errors it     *)
(* ignores, is left out: see VotingSettings.                               *)
(***************************************************************************)
EXTENDS Naturals, SequencesExt

CONSTANTS
    Clients,        \* connections; the reconnect of a browser is a new one
    Publishers,     \* goroutines of VerifyAndVote or UpdateSettings
    BroadcastCap,   \* capacity of Hub.Broadcast, 256 in the code
    SendCap,        \* capacity of Client.send, 256 in the code
    MaxChanges,     \* bound of the model: votes and updates of the settings
    BuildFaults,    \* whether GetAllWithVotes sometimes fails
    SocketFaults,   \* whether sockets break
    None

ASSUME CapacityType == BroadcastCap \in Nat \ {0} /\ SendCap \in Nat \ {0}
ASSUME ChangesType  == MaxChanges \in Nat
ASSUME FaultsType   == BuildFaults \in BOOLEAN /\ SocketFaults \in BOOLEAN

Versions == 0..MaxChanges
Round    == [version : Versions, todo : SUBSET Clients]

ASSUME NoneIsNoRound == None \notin Round

VARIABLES
    version,    \* the results in MariaDB: how many votes were recorded
    changes,    \* votes and updates of the settings so far
    pub,        \* publisher -> [pc, payload]
    broadcast,  \* Hub.Broadcast
    clients,    \* Hub.clients
    current,    \* the message Run is handing out and the clients still to get it,
                \* or None when Run waits in its select
    send,       \* client -> its send channel, of payloads
    closed,     \* client -> whether that channel is closed
    serve,      \* client -> where ServeWS is
    snap,       \* client -> the snapshot ServeWS holds, or None
    writer,     \* client -> "off", "run" or "done": writePump
    reader,     \* client -> "off", "run", "unregister", "close" or "done": readPump
    frame,      \* client -> the payloads of the frame writePump is writing
    socket,     \* client -> "none", "up" or "down"
    screen,     \* client -> the version the browser shows, or None
    taken,      \* history: versions Run took from Broadcast, in order
    joined,     \* history: client -> Len(taken) when it was registered
    built,      \* history: the newest version a publisher built its payload from
    updates,    \* history: client -> broadcasts put into send, in order
    first,      \* history: client -> the snapshot put into send, or None
    last        \* history: client -> the payload put into send last, or None

hub     == <<broadcast, clients, current, taken>>
queue   == <<send, closed, updates, first, last>>
conns   == <<serve, snap, writer, reader, frame, socket, screen, joined>>
source  == <<version, changes, pub, built>>
vars    == <<source, hub, queue, conns>>

-----------------------------------------------------------------------------
(* Mutated forms: an off-by-one in the capacity; a slow client is skipped, or the
   hub waits for it; a closed client stays in the map; the snapshot is built before the
   connection is registered; readPump ends without unregistering. *)
RoomForOneMore(c) == Len(send[c]) <= SendCap
SkipWhenFull(c)   == UNCHANGED <<clients, queue>>
WaitWhenFull(c)   == FALSE
DropKeepsMap(c)   == closed' = [closed EXCEPT ![c] = TRUE] /\ UNCHANGED <<send, updates, first, last, clients>>
EarlySnapshot(c)  ==
    /\ \/ serve[c] = "register" /\ snap[c] = None /\ snap' = [snap EXCEPT ![c] = version] /\ serve' = serve
       \/ serve[c] = "snapshot" /\ serve' = [serve EXCEPT ![c] = "push"] /\ snap[c] # None /\ snap' = snap
    /\ UNCHANGED <<source, hub, queue, writer, reader, frame, socket, screen, joined>>
NoUnregister(c)   == reader' = [reader EXCEPT ![c] = "close"]

-----------------------------------------------------------------------------
Init ==
    /\ version = 0 /\ changes = 0 /\ built = 0
    /\ pub = [p \in Publishers |-> [pc |-> "idle", payload |-> None]]
    /\ broadcast = <<>>
    /\ clients = {}
    /\ current = None
    /\ send = [c \in Clients |-> <<>>]
    /\ closed = [c \in Clients |-> FALSE]
    /\ serve = [c \in Clients |-> "none"]
    /\ snap = [c \in Clients |-> None]
    /\ writer = [c \in Clients |-> "off"]
    /\ reader = [c \in Clients |-> "off"]
    /\ frame = [c \in Clients |-> <<>>]
    /\ socket = [c \in Clients |-> "none"]
    /\ screen = [c \in Clients |-> None]
    /\ taken = <<>>
    /\ joined = [c \in Clients |-> 0]
    /\ updates = [c \in Clients |-> <<>>]
    /\ first = [c \in Clients |-> None]
    /\ last = [c \in Clients |-> None]

Room(c) == Len(send[c]) < SendCap

Push(c, v) ==
    /\ send' = [send EXCEPT ![c] = Append(@, v)]
    /\ last' = [last EXCEPT ![c] = v]
    /\ UNCHANGED closed

CloseSend(c) == closed' = [closed EXCEPT ![c] = TRUE] /\ UNCHANGED <<send, updates, first, last>>

-----------------------------------------------------------------------------
(* Publishers: InsertVote or an update of the settings, then BuildWSPayload, *)
(* then the send on Hub.Broadcast, which blocks while the channel is full.   *)

Commit(p) ==
    /\ pub[p].pc = "idle"
    /\ changes < MaxChanges
    /\ changes' = changes + 1
    /\ version' \in {version, version + 1}      \* only a vote changes the results
    /\ pub' = [pub EXCEPT ![p].pc = "build"]
    /\ UNCHANGED <<built, hub, queue, conns>>

\* GetAllWithVotes, one SELECT.
Payload == version

\* The two reads of the settings that follow fall between this step and Publish.
Build(p) ==
    /\ pub[p].pc = "build"
    /\ pub' = [pub EXCEPT ![p] = [pc |-> "send", payload |-> Payload]]
    /\ built' = version
    /\ UNCHANGED <<version, changes, hub, queue, conns>>

\* The SELECT fails, which is the only error of BuildWSPayload.  Not fatal: the vote or
\* the update stands, and nothing is published.
BuildFails(p) ==
    /\ BuildFaults
    /\ pub[p].pc = "build"
    /\ pub' = [pub EXCEPT ![p].pc = "idle"]
    /\ UNCHANGED <<version, changes, built, hub, queue, conns>>

Publish(p) ==
    /\ pub[p].pc = "send"
    /\ Len(broadcast) < BroadcastCap
    /\ broadcast' = Append(broadcast, pub[p].payload)
    /\ pub' = [pub EXCEPT ![p] = [pc |-> "idle", payload |-> None]]
    /\ UNCHANGED <<version, changes, built, clients, current, taken, queue, conns>>

-----------------------------------------------------------------------------
(* Hub.Run: register and unregister are unbuffered, so each is one rendezvous. *)

Register(c) ==
    /\ current = None
    /\ serve[c] = "register"
    /\ clients' = clients \cup {c}
    /\ serve' = [serve EXCEPT ![c] = "snapshot"]
    /\ joined' = [joined EXCEPT ![c] = Len(taken)]
    /\ UNCHANGED <<source, broadcast, current, taken, queue, snap, writer, reader, frame,
                   socket, screen>>

Drop(c) == clients' = clients \ {c} /\ CloseSend(c)

Unregister(c) ==
    /\ current = None
    /\ reader[c] = "unregister"
    /\ IF c \in clients THEN Drop(c) ELSE UNCHANGED <<clients, queue>>
    /\ reader' = [reader EXCEPT ![c] = "close"]
    /\ UNCHANGED <<source, broadcast, current, taken, serve, snap, writer, frame, socket,
                   screen, joined>>

TakeBroadcast ==
    /\ current = None
    /\ broadcast # <<>>
    /\ current' = IF clients = {} THEN None
                                  ELSE [version |-> Head(broadcast), todo |-> clients]
    /\ taken' = Append(taken, Head(broadcast))
    /\ broadcast' = Tail(broadcast)
    /\ UNCHANGED <<source, clients, queue, conns>>

\* A client whose buffer is full is disconnected, never skipped.
WhenFull(c) == Drop(c)

\* One turn of the loop over the clients, which Go does in any order.
Deliver(c) ==
    /\ current # None
    /\ c \in current.todo
    /\ IF Room(c)
         THEN /\ Push(c, current.version)
              /\ updates' = [updates EXCEPT ![c] = Append(@, current.version)]
              /\ UNCHANGED <<clients, first>>
         ELSE WhenFull(c)
    /\ current' = IF current.todo = {c} THEN None ELSE [current EXCEPT !.todo = @ \ {c}]
    /\ UNCHANGED <<source, broadcast, taken, conns>>

-----------------------------------------------------------------------------
(* ServeWS. *)

Connect(c) ==
    /\ serve[c] = "none"
    /\ serve' = [serve EXCEPT ![c] = "register"]
    /\ socket' = [socket EXCEPT ![c] = "up"]
    /\ UNCHANGED <<source, hub, queue, snap, writer, reader, frame, screen, joined>>

StartPumps(c) ==
    /\ serve' = [serve EXCEPT ![c] = "done"]
    /\ writer' = [writer EXCEPT ![c] = "run"]
    /\ reader' = [reader EXCEPT ![c] = "run"]

BuildSnapshot(c) ==
    /\ serve[c] = "snapshot"
    /\ snap' = [snap EXCEPT ![c] = Payload]
    /\ serve' = [serve EXCEPT ![c] = "push"]
    /\ UNCHANGED <<source, hub, queue, writer, reader, frame, socket, screen, joined>>

NoSnapshot(c) ==
    /\ BuildFaults
    /\ serve[c] = "snapshot"
    /\ StartPumps(c)
    /\ UNCHANGED <<source, hub, queue, snap, frame, socket, screen, joined>>

\* SendToOne; go ahead with the pumps.
PushSnapshot(c) ==
    /\ serve[c] = "push"
    /\ ~closed[c]
    /\ IF Room(c)
         THEN Push(c, snap[c]) /\ first' = [first EXCEPT ![c] = snap[c]] /\ UNCHANGED updates
         ELSE UNCHANGED queue
    /\ snap' = [snap EXCEPT ![c] = None]
    /\ StartPumps(c)
    /\ UNCHANGED <<source, hub, frame, socket, screen, joined>>

\* SendToOne on a channel that Run has closed: the goroutine panics, and the
\* connection has no pump to close it.
PushOnClosed(c) ==
    /\ serve[c] = "push"
    /\ closed[c]
    /\ serve' = [serve EXCEPT ![c] = "panic"]
    /\ snap' = [snap EXCEPT ![c] = None]
    /\ UNCHANGED <<source, hub, queue, writer, reader, frame, socket, screen, joined>>

-----------------------------------------------------------------------------
(* The pumps. *)

\* writePump receives a message; it may grow into a frame of several.
TakeMessage(c) ==
    /\ writer[c] = "run"
    /\ frame[c] = <<>>
    /\ send[c] # <<>>
    /\ frame' = [frame EXCEPT ![c] = <<Head(send[c])>>]
    /\ send' = [send EXCEPT ![c] = Tail(@)]
    /\ UNCHANGED <<source, hub, closed, updates, first, last, serve, snap, writer, reader, socket,
                   screen, joined>>

\* The browser parses a frame as one JSON text: it shows a lone message and ignores
\* several.
OnMessage(c) == IF send[c] = <<>> THEN frame[c][1] ELSE screen[c]

\* All that is queued by now goes into the same frame, separated by newlines.
WriteFrame(c) ==
    /\ writer[c] = "run"
    /\ frame[c] # <<>>
    /\ socket[c] = "up"
    /\ screen' = [screen EXCEPT ![c] = OnMessage(c)]
    /\ frame' = [frame EXCEPT ![c] = <<>>]
    /\ send' = [send EXCEPT ![c] = <<>>]
    /\ UNCHANGED <<source, hub, closed, updates, first, last, serve, snap, writer, reader, socket,
                   joined>>

\* The frame, or the ping, meets a broken socket.
WriteFails(c) ==
    /\ writer[c] = "run"
    /\ socket[c] = "down"
    /\ writer' = [writer EXCEPT ![c] = "done"]
    /\ frame' = [frame EXCEPT ![c] = <<>>]
    /\ UNCHANGED <<source, hub, queue, serve, snap, reader, socket, screen, joined>>

\* The closed channel is empty: say goodbye and close the socket.
WriterClosed(c) ==
    /\ writer[c] = "run"
    /\ frame[c] = <<>>
    /\ send[c] = <<>>
    /\ closed[c]
    /\ writer' = [writer EXCEPT ![c] = "done"]
    /\ socket' = [socket EXCEPT ![c] = "down"]
    /\ UNCHANGED <<source, hub, queue, serve, snap, reader, frame, screen, joined>>

AfterReadError(c) == reader' = [reader EXCEPT ![c] = "unregister"]

ReadError(c) ==
    /\ reader[c] = "run"
    /\ socket[c] = "down"
    /\ AfterReadError(c)
    /\ UNCHANGED <<source, hub, queue, serve, snap, writer, frame, socket, screen, joined>>

CloseSocket(c) ==
    /\ reader[c] = "close"
    /\ reader' = [reader EXCEPT ![c] = "done"]
    /\ socket' = [socket EXCEPT ![c] = "down"]
    /\ UNCHANGED <<source, hub, queue, serve, snap, writer, frame, screen, joined>>

\* The voter leaves, or the network breaks: pongWait passes without a pong.
Disconnect(c) ==
    /\ SocketFaults
    /\ socket[c] = "up"
    /\ socket' = [socket EXCEPT ![c] = "down"]
    /\ UNCHANGED <<source, hub, queue, serve, snap, writer, reader, frame, screen, joined>>

-----------------------------------------------------------------------------
Run == TakeBroadcast \/ \E c \in Clients : Register(c) \/ Unregister(c) \/ Deliver(c)

Serve(c) == BuildSnapshot(c) \/ NoSnapshot(c) \/ PushSnapshot(c) \/ PushOnClosed(c)

WritePump(c) == TakeMessage(c) \/ WriteFrame(c) \/ WriteFails(c) \/ WriterClosed(c)

ReadPump(c) == ReadError(c) \/ CloseSocket(c)

Next ==
    \/ \E p \in Publishers : Commit(p) \/ Build(p) \/ BuildFails(p) \/ Publish(p)
    \/ Run
    \/ \E c \in Clients :
         Connect(c) \/ Disconnect(c) \/ Serve(c) \/ WritePump(c) \/ ReadPump(c)

Spec == Init /\ [][Next]_vars

\* Goroutines run; select picks a ready case, and every case that stays ready in
\* the end: Go chooses among the ready ones at random.
FairSpec ==
    /\ Spec
    /\ WF_vars(TakeBroadcast)
    /\ \A c \in Clients :
         /\ SF_vars(Register(c)) /\ SF_vars(Unregister(c)) /\ WF_vars(Deliver(c))
         /\ WF_vars(Serve(c)) /\ WF_vars(WritePump(c)) /\ WF_vars(ReadPump(c))
    /\ \A p \in Publishers : WF_vars(Build(p)) /\ SF_vars(Publish(p))

-----------------------------------------------------------------------------
(* Properties. *)

\* Types; and channels within their capacity.
TypeOK ==
    /\ version \in Versions /\ changes \in Versions /\ built \in Versions
    /\ pub \in [Publishers -> [pc : {"idle", "build", "send"}, payload : Versions \cup {None}]]
    /\ broadcast \in Seq(Versions)
    /\ Len(broadcast) <= BroadcastCap
    /\ clients \subseteq Clients
    /\ current \in Round \cup {None}
    /\ send \in [Clients -> Seq(Versions)]
    /\ \A c \in Clients : Len(send[c]) <= SendCap
    /\ closed \in [Clients -> BOOLEAN]
    /\ serve \in [Clients -> {"none", "register", "snapshot", "push", "done", "panic"}]
    /\ snap \in [Clients -> Versions \cup {None}]
    /\ writer \in [Clients -> {"off", "run", "done"}]
    /\ reader \in [Clients -> {"off", "run", "unregister", "close", "done"}]
    /\ frame \in [Clients -> Seq(Versions)]
    /\ socket \in [Clients -> {"none", "up", "down"}]
    /\ screen \in [Clients -> Versions \cup {None}]
    /\ taken \in Seq(Versions)
    /\ joined \in [Clients -> Nat]
    /\ updates \in [Clients -> Seq(Versions)]
    /\ first \in [Clients -> Versions \cup {None}]
    /\ last \in [Clients -> Versions \cup {None}]

\* A client in the map, and one Run is still to serve, has an open channel: Run
\* neither sends on a closed channel nor closes one twice, which would panic.
MapMeansOpen ==
    /\ \A c \in clients : ~closed[c]
    /\ current # None => current.todo \subseteq clients

\* A client gets every broadcast from its registration on, in the order of the
\* channel, without gap or repetition, until the hub drops it.
Pending(c) == IF current # None /\ c \in current.todo THEN 1 ELSE 0

NoGap ==
    \A c \in Clients :
        /\ \A i \in 1..Len(updates[c]) : /\ joined[c] + i <= Len(taken)
                                         /\ updates[c][i] = taken[joined[c] + i]
        /\ c \in clients => joined[c] + Len(updates[c]) + Pending(c) = Len(taken)

\* The feed of Feed: what Run took, and how much of it each client was given.
Place == [c \in Clients |-> IF c \in clients THEN "in"
                            ELSE IF serve[c] \in {"none", "register"} THEN "out" ELSE "left"]
Given == [c \in Clients |-> joined[c] + Len(updates[c])]

F == INSTANCE Feed WITH Subscribers <- Clients, Payloads <- Versions, log <- taken,
                        place <- Place, next <- Given, got <- updates

\* The hub goes through the steps of Feed only: no client misses a broadcast, gets one
\* twice or out of order, comes back once dropped, or is served before others have
\* been given the broadcast before (hub.go Run).
ImplementsFeed == F!Spec

\* When everything that was published has been handed out, every connection in the map
\* whose snapshot was queued was given results no older than the newest that a publisher
\* could build: between the snapshot and the first broadcast nothing is lost (ServeWS
\* registers first and asks for the snapshot then).
Quiet ==
    /\ \A p \in Publishers : pub[p].pc = "idle"
    /\ broadcast = <<>> /\ current = None

NewestGiven ==
    Quiet => \A c \in clients :
        serve[c] = "done" /\ first[c] # None => \E v \in {first[c]} \cup ToSet(updates[c]) : v >= built

\* A publisher gets rid of its payload, however slow the clients are: the hub never
\* waits for one, so a full Broadcast channel drains.
PublishersGoOn == \A p \in Publishers : pub[p].pc = "send" ~> pub[p].pc = "idle"

\* A connection whose socket is gone leaves the map: no client is served for ever.
DeadLeave == \A c \in Clients : socket[c] = "down" ~> c \notin clients

-----------------------------------------------------------------------------
(* What the repository says and the code does not do. *)

\* useWebSocket.ts:11 "the UI is never stale": a browser that was sent everything
\* shows the last message.
ShowsLast ==
    \A c \in Clients :
        socket[c] = "up" /\ send[c] = <<>> /\ frame[c] = <<>> /\ last[c] # None =>
            screen[c] = last[c]

================================================================================
