------------------------------ MODULE ChatHub ------------------------------
(***************************************************************************)
(* The live chat of one hangout: the hub's room, and for each socket its   *)
(* client with the goroutine that reads the socket, the one that writes it *)
(* and the buffered channel between the hub and the writer.  Messages are  *)
(* posted over the sockets and over REST, and are numbered in the order in *)
(* which they are stored.                                                  *)
(*                                                                         *)
(* The hub's mutex makes each of its operations one step.                  *)
(***************************************************************************)
EXTENDS Naturals, Sequences, FiniteSets

CONSTANTS
    Conn,        \* chat sockets, each opened once
    Poster,      \* REST requests at a time
    Cap,         \* capacity of a client's channel (16 in the code)
    MaxMessages  \* bound on the messages

ASSUME WriterAssumption == Conn \cap Poster = {}
ASSUME CapAssumption    == Cap \in Nat \ {0}

VARIABLES
    stored,    \* how many messages are stored
    unsent,    \* history: those whose INSERT was answered with an error
    sent,      \* history: the messages that were broadcast, in order
    room,      \* the sockets whose clients are in the hub's room
    chan,      \* the channel of each client
    closed,    \* whether the channel is closed
    link,      \* the state of each socket's connection
    reader,    \* the handler that reads each socket, and each REST request
    pump,      \* the goroutine that writes each socket
    got,       \* history: what was written to each socket
    from,      \* history: Len(sent) when the client was registered
    panicked   \* whether a channel was sent to or closed once it was closed

vars == <<stored, unsent, sent, room, chan, closed, link, reader, pump, got,
          from, panicked>>

connVars == <<chan, closed, link, pump, got, from>>

Message == Nat \ {0}
Writer  == Conn \cup Poster

TypeOK ==
    /\ stored \in Nat
    /\ unsent \subseteq Message
    /\ sent \in Seq(Message)
    /\ room \subseteq Conn
    /\ chan \in [Conn -> Seq(Message)]
    /\ closed \in [Conn -> BOOLEAN]
    /\ link \in [Conn -> {"none", "open", "silent", "gone", "closed"}]
    /\ reader \in [Writer -> [at : {"none", "register", "read", "unregister",
                                    "ended"}]
                               \cup [at : {"broadcast"}, msg : Message]]
    /\ pump \in [Conn -> [at : {"none", "wait", "ended"}]
                           \cup [at : {"write"}, msg : Message]]
    /\ got \in [Conn -> Seq(Message)]
    /\ from \in [Conn -> Nat]
    /\ panicked \in BOOLEAN

Init ==
    /\ stored = 0
    /\ unsent = {}
    /\ sent = <<>>
    /\ room = {}
    /\ chan = [c \in Conn |-> <<>>]
    /\ closed = [c \in Conn |-> FALSE]
    /\ link = [c \in Conn |-> "none"]
    /\ reader = [w \in Writer |-> [at |-> "none"]]
    /\ pump = [c \in Conn |-> [at |-> "none"]]
    /\ got = [c \in Conn |-> <<>>]
    /\ from = [c \in Conn |-> 0]
    /\ panicked = FALSE

Goto(w, state) == reader' = [reader EXCEPT ![w] = state]

-----------------------------------------------------------------------------
(* The hub *)

Register(c) ==
    /\ room' = room \cup {c}
    /\ from' = [from EXCEPT ![c] = Len(sent)]

BugAlways(c) == TRUE
\* Unregister looks the client up: a broadcast may have dropped it.
InRoom(c) == c \in room

Unregister(c) ==
    /\ room' = room \ {c}
    /\ IF InRoom(c)
         THEN /\ closed' = [closed EXCEPT ![c] = TRUE]
              /\ panicked' = (panicked \/ closed[c])
         ELSE UNCHANGED <<closed, panicked>>

BugSkip == {}
\* The clients whose channel is full are dropped.
Slow == {c \in room : Len(chan[c]) >= Cap}

Broadcast(m) ==
    /\ sent' = Append(sent, m)
    /\ chan' = [c \in Conn |-> IF c \in room /\ Len(chan[c]) < Cap
                                 THEN Append(chan[c], m) ELSE chan[c]]
    /\ room' = room \ Slow
    /\ closed' = [c \in Conn |-> closed[c] \/ c \in Slow]
    /\ panicked' = (panicked \/ \E c \in room : closed[c])

-----------------------------------------------------------------------------
(* Messages: stored, and then broadcast.  A message that is refused or not   *)
(* stored leaves everything as it was.                                       *)

\* What the sender does next.
Then(w) == [at |-> IF w \in Conn THEN "read" ELSE "none"]

\* The INSERT is answered, or it commits and the answer is lost: an error,
\* and the handlers go on without a broadcast.
Store(w) ==
    /\ stored < MaxMessages
    /\ stored' = stored + 1
    /\ \/ /\ Goto(w, [at |-> "broadcast", msg |-> stored + 1])
          /\ UNCHANGED unsent
       \/ /\ Goto(w, Then(w))
          /\ unsent' = unsent \cup {stored + 1}
    /\ UNCHANGED <<sent, room, connVars, panicked>>

\* POST /hangouts/:id/messages
Post(p) == p \in Poster /\ reader[p].at = "none" /\ Store(p)

BugOnlySockets(w) == w \in Conn
\* Both handlers pass the stored message to the hub.
FansOut(w) == TRUE

Send(w) ==
    /\ reader[w].at = "broadcast"
    /\ IF FansOut(w) THEN Broadcast(reader[w].msg)
                     ELSE UNCHANGED <<sent, chan, room, closed, panicked>>
    /\ Goto(w, Then(w))
    /\ UNCHANGED <<stored, unsent, link, pump, got, from>>

-----------------------------------------------------------------------------
(* GET /hangouts/:id/chat *)

\* The participant's row is there and the connection is upgraded: from here
\* on the client takes it for open.
Upgrade(c) ==
    /\ reader[c].at = "none"
    /\ link' = [link EXCEPT ![c] = "open"]
    /\ Goto(c, [at |-> "register"])
    /\ UNCHANGED <<stored, unsent, sent, room, chan, closed, pump, got, from,
                   panicked>>

Join(c) ==
    /\ reader[c].at = "register"
    /\ Register(c)
    /\ pump' = [pump EXCEPT ![c] = [at |-> "wait"]]
    /\ Goto(c, [at |-> "read"])
    /\ UNCHANGED <<stored, unsent, sent, chan, closed, link, got, panicked>>

\* ReadMessage returns a message of the peer's, ...
ReadMessage(c) ==
    /\ c \in Conn
    /\ reader[c].at = "read" /\ link[c] # "closed"
    /\ Store(c)

\* ... or the error of a connection that is gone, or that the pump closed.
\* There is no read deadline and no ping: of a silent peer it returns nothing.
ReadFails(c) ==
    /\ reader[c].at = "read" /\ link[c] \in {"gone", "closed"}
    /\ Goto(c, [at |-> "unregister"])
    /\ UNCHANGED <<stored, unsent, sent, room, connVars, panicked>>

\* The deferred Unregister.  The handler leaves the connection to the pump.
Leave(c) ==
    /\ reader[c].at = "unregister"
    /\ Unregister(c)
    /\ Goto(c, [at |-> "ended"])
    /\ UNCHANGED <<stored, unsent, sent, chan, link, pump, got, from>>

-----------------------------------------------------------------------------
(* WritePump *)

Take(c) ==
    /\ pump[c].at = "wait" /\ chan[c] # <<>>
    /\ pump' = [pump EXCEPT ![c] = [at |-> "write", msg |-> Head(chan[c])]]
    /\ chan' = [chan EXCEPT ![c] = Tail(@)]
    /\ UNCHANGED <<stored, unsent, sent, room, closed, link, reader, got, from,
                   panicked>>

\* A connection that is gone may take a few more bytes.
Write(c) ==
    /\ pump[c].at = "write"
    /\ got' = [got EXCEPT ![c] = Append(@, pump[c].msg)]
    /\ pump' = [pump EXCEPT ![c] = [at |-> "wait"]]
    /\ UNCHANGED <<stored, unsent, sent, room, chan, closed, link, reader,
                   from, panicked>>

BugLeaveOpen(c) == link
\* The deferred Close.
Closed(c) == [link EXCEPT ![c] = "closed"]

\* The deadline of ten seconds passes with the buffers full, or the
\* connection is gone: the pump returns.
WriteFails(c) ==
    /\ pump[c].at = "write" /\ link[c] \in {"silent", "gone"}
    /\ pump' = [pump EXCEPT ![c] = [at |-> "ended"]]
    /\ link' = Closed(c)
    /\ UNCHANGED <<stored, unsent, sent, room, chan, closed, reader, got, from,
                   panicked>>

\* The channel is closed and empty.
PumpEnds(c) ==
    /\ pump[c].at = "wait" /\ closed[c] /\ chan[c] = <<>>
    /\ pump' = [pump EXCEPT ![c] = [at |-> "ended"]]
    /\ link' = Closed(c)
    /\ UNCHANGED <<stored, unsent, sent, room, chan, closed, reader, got, from,
                   panicked>>

-----------------------------------------------------------------------------
(* The clients *)

\* The peer stops reading the socket, or its host vanishes without a word:
\* what is written fills the buffers, and a read does not return.
FallSilent(c) ==
    /\ link[c] = "open"
    /\ link' = [link EXCEPT ![c] = "silent"]
    /\ UNCHANGED <<stored, unsent, sent, room, chan, closed, reader, pump, got,
                   from, panicked>>

\* The peer closes the socket or resets the connection, or the kernel gives
\* up on it.
HangUp(c) ==
    /\ link[c] \in {"open", "silent"}
    /\ link' = [link EXCEPT ![c] = "gone"]
    /\ UNCHANGED <<stored, unsent, sent, room, chan, closed, reader, pump, got,
                   from, panicked>>

Handler(c) ==
    Join(c) \/ ReadMessage(c) \/ ReadFails(c) \/ Leave(c) \/ Send(c)

Pump(c) == Take(c) \/ Write(c) \/ WriteFails(c) \/ PumpEnds(c)

Next ==
    \/ \E c \in Conn : \/ Upgrade(c) \/ Handler(c) \/ Pump(c)
                       \/ FallSilent(c) \/ HangUp(c)
    \/ \E p \in Poster : Post(p) \/ Send(p)

\* Goroutines that can go on do, and a read of a connection that is gone or
\* closed returns.  Nothing is assumed of the peers: a silent one may stay so.
Fairness ==
    /\ \A w \in Writer : WF_vars(Send(w))
    /\ \A c \in Conn :
         /\ WF_vars(Join(c)) /\ WF_vars(ReadFails(c)) /\ WF_vars(Leave(c))
         /\ WF_vars(Pump(c))

Spec == Init /\ [][Next]_vars /\ Fairness

-----------------------------------------------------------------------------
(* Properties *)

\* A channel is closed once and nothing is sent to it afterwards, although
\* both the hub, for a slow client, and the reader's deferred Unregister close
\* it: either would be a panic in somebody's request.
NoPanic == ~panicked

\* What a socket gets is, without a gap, what was broadcast since its client
\* was registered: a client that is too slow is dropped, and finds out, rather
\* than missing a message in the middle.
NoGaps ==
    \A c \in Conn : \A i \in 1..Len(got[c]) :
        from[c] + i <= Len(sent) /\ got[c][i] = sent[from[c] + i]

InFlight == {reader[w].msg : w \in {v \in Writer : reader[v].at = "broadcast"}}

OnTheWay(c) ==
    {chan[c][i] : i \in 1..Len(chan[c])}
      \cup (IF pump[c].at = "write" THEN {pump[c].msg} ELSE {})

\* A client in the room whose connection the pump has not given up gets every
\* stored message, but for those that were broadcast before it was registered
\* and those whose INSERT failed for its sender.  One that lists the history
\* once it is registered has seen them all; one that lists it as soon as the
\* socket is open may miss what is broadcast until then.
MissedOnlyAtJoin ==
    \A c \in {d \in room : link[d] # "closed"} : \A m \in 1..stored \ unsent :
        \/ m \in InFlight \cup OnTheWay(c)
        \/ \E i \in 1..Len(got[c]) : got[c][i] = m
        \/ \E i \in 1..from[c] : sent[i] = m

\* A client that is dropped, whose peer has hung up, or to whom a write has
\* failed is cleaned up: its channel and its connection are closed and both
\* its goroutines end.  A peer that is only silent is found out by a write.
GoneClientsEnd ==
    \A c \in Conn :
        (link[c] \in {"gone", "closed"} \/ closed[c]) ~>
            /\ link[c] = "closed" /\ closed[c]
            /\ reader[c].at = "ended" /\ pump[c].at = "ended"
=============================================================================
