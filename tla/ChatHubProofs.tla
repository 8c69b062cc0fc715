--------------------------- MODULE ChatHubProofs ---------------------------
(***************************************************************************)
(* The safety properties of ChatHub, for any number of sockets, posters    *)
(* and messages and for a channel of any capacity.                         *)
(***************************************************************************)
EXTENDS ChatHub, TLAPS

Reading == [at : {"none", "register", "read", "unregister", "ended"}]
             \cup [at : {"broadcast"}, msg : Message]
Pumping == [at : {"none", "wait", "ended"}] \cup [at : {"write"}, msg : Message]

\* What the peer does.
Peer(c) == FallSilent(c) \/ HangUp(c)

\* A writer goes on to a state.
LEMMA ReaderTypes ==
    ASSUME TypeOK, NEW w \in Writer, NEW s \in Reading, Goto(w, s)
    PROVE  /\ reader' \in [Writer -> Reading]
           /\ reader'[w] = s
           /\ \A v \in Writer \ {w} : reader'[v] = reader[v]
  BY DEF TypeOK, Goto, Reading

\* The states of the two goroutines of a socket.
LEMMA States ==
    ASSUME TypeOK
    PROVE  /\ \A w \in Writer : /\ reader[w] \in Reading
                                /\ reader[w].at = "broadcast" =>
                                     reader[w].msg \in Message
           /\ \A c \in Conn : /\ pump[c] \in Pumping
                              /\ pump[c].at = "write" => pump[c].msg \in Message
           /\ Conn \subseteq Writer
  <1>1. ASSUME NEW w \in Writer
        PROVE  /\ reader[w] \in Reading
               /\ reader[w].at = "broadcast" => reader[w].msg \in Message
    BY DEF TypeOK, Reading
  <1>2. ASSUME NEW c \in Conn
        PROVE  /\ pump[c] \in Pumping
               /\ pump[c].at = "write" => pump[c].msg \in Message
    BY DEF TypeOK, Pumping
  <1> QED
    BY <1>1, <1>2 DEF Writer

\* What a broadcast does to the channel of each client.
LEMMA BroadcastEffect ==
    ASSUME TypeOK, NEW m \in Message, Broadcast(m)
    PROVE  /\ sent' \in Seq(Message) /\ sent' = Append(sent, m)
           /\ Len(sent') = Len(sent) + 1
           /\ \A i \in 1..Len(sent) : sent'[i] = sent[i]
           /\ chan' \in [Conn -> Seq(Message)]
           /\ room' \subseteq Conn
           /\ closed' \in [Conn -> BOOLEAN]
           /\ panicked' \in BOOLEAN
           /\ \A c \in Conn :
                /\ c \in room' => chan'[c] = Append(chan[c], m)
                /\ c \notin room => chan'[c] = chan[c] /\ closed'[c] = closed[c]
                /\ c \in room \ room' => chan'[c] = chan[c]
                /\ c \in room' <=> c \in room /\ Len(chan[c]) < Cap
                /\ closed'[c] <=> closed[c] \/ c \in room \ room'
  <1>1. sent \in Seq(Message) /\ \A c \in Conn : Len(chan[c]) \in Nat
    BY DEF TypeOK
  <1>2. /\ sent' \in Seq(Message) /\ sent' = Append(sent, m)
        /\ Len(sent') = Len(sent) + 1
        /\ \A i \in 1..Len(sent) : sent'[i] = sent[i]
    BY <1>1 DEF Broadcast
  <1>3. ASSUME NEW c \in Conn
        PROVE  IF c \in room /\ Len(chan[c]) < Cap
                 THEN chan'[c] = Append(chan[c], m) ELSE chan'[c] = chan[c]
    BY DEF Broadcast
  <1>4. chan' \in [Conn -> Seq(Message)]
    BY DEF Broadcast, TypeOK
  <1>5. \A c \in Conn : c \in Slow <=> c \in room /\ Len(chan[c]) >= Cap
    BY DEF Slow
  <1>6. /\ room' = room \ Slow
        /\ \A c \in Conn : closed'[c] <=> closed[c] \/ c \in Slow
    BY DEF Broadcast
  <1>7. /\ room' \subseteq Conn
        /\ closed' \in [Conn -> BOOLEAN]
        /\ panicked' \in BOOLEAN
    BY DEF Broadcast, TypeOK
  <1>8. ASSUME NEW c \in Conn
        PROVE  /\ c \in room' <=> c \in room /\ Len(chan[c]) < Cap
               /\ c \in Slow <=> c \in room \ room'
    BY <1>1, <1>5, <1>6, CapAssumption
  <1>9. ASSUME NEW c \in Conn, c \notin room PROVE closed'[c] = closed[c]
    <2>1. closed'[c] \in BOOLEAN /\ closed[c] \in BOOLEAN
      BY <1>7 DEF TypeOK
    <2>2. c \notin Slow
      BY <1>5, <1>9
    <2> QED
      BY <1>6, <2>1, <2>2
  <1> QED
    BY <1>2, <1>3, <1>4, <1>6, <1>7, <1>8, <1>9

\* The writer of a stored message broadcasts it, or goes on without.
LEMMA StoreMoves ==
    ASSUME TypeOK, NEW w \in Writer, Store(w)
    PROVE  /\ reader' \in [Writer -> Reading]
           /\ \A v \in Writer \ {w} : reader'[v] = reader[v]
           /\ \/ /\ reader'[w].at = "broadcast" /\ reader'[w].msg = stored + 1
                 /\ unsent' = unsent
              \/ /\ reader'[w].at = IF w \in Conn THEN "read" ELSE "none"
                 /\ unsent' = unsent \cup {stored + 1}
           /\ stored + 1 \in Message
  <1>1. stored + 1 \in Message
    BY DEF TypeOK, Message
  <1>2. /\ [at |-> "broadcast", msg |-> stored + 1] \in Reading
        /\ Then(w) \in Reading
    BY <1>1 DEF Reading, Then
  <1>3. CASE /\ Goto(w, [at |-> "broadcast", msg |-> stored + 1])
             /\ UNCHANGED unsent
    BY <1>1, <1>2, <1>3, ReaderTypes
  <1>4. CASE Goto(w, Then(w)) /\ unsent' = unsent \cup {stored + 1}
    <2>1. reader'[w] = Then(w)
      BY <1>2, <1>4, ReaderTypes
    <2>2. Then(w).at = IF w \in Conn THEN "read" ELSE "none"
      BY DEF Then
    <2> QED
      BY <1>1, <1>2, <1>4, <2>1, <2>2, ReaderTypes
  <1> QED
    BY <1>3, <1>4 DEF Store

-----------------------------------------------------------------------------
\* Types: a message is stored.
LEMMA StoreTypes ==
    ASSUME TypeOK, NEW w \in Writer, Store(w)
    PROVE  TypeOK'
  <1>1. reader' \in [Writer -> Reading] /\ unsent' \subseteq Message
    BY StoreMoves DEF TypeOK
  <1>2. stored' \in Nat
    BY DEF Store, TypeOK
  <1> QED
    BY <1>1, <1>2 DEF Store, TypeOK, connVars, Reading

\* Types: a message is broadcast.
LEMMA SendTypes ==
    ASSUME TypeOK, NEW w \in Writer, Send(w)
    PROVE  TypeOK'
  <1>1. Then(w) \in Reading
    BY DEF Then, Reading
  <1>2. reader' \in [Writer -> Reading]
    BY <1>1, ReaderTypes DEF Send
  <1>3. reader[w].msg \in Message /\ Broadcast(reader[w].msg)
    BY States DEF Send, FansOut
  <1> QED
    BY <1>2, <1>3, BroadcastEffect DEF Send, TypeOK, Reading

\* Types: the handler of a socket.
LEMMA HandlerTypes ==
    ASSUME TypeOK, NEW c \in Conn,
           Upgrade(c) \/ Join(c) \/ ReadFails(c) \/ Leave(c)
    PROVE  TypeOK'
  <1>0. /\ \A a \in {"none", "register", "read", "unregister", "ended"} :
             [at |-> a] \in Reading
        /\ c \in Writer
    BY States DEF Reading
  <1>1. CASE Upgrade(c)
    <2>1. reader' \in [Writer -> Reading]
      BY <1>0, <1>1, ReaderTypes DEF Upgrade
    <2> QED
      BY <1>1, <2>1 DEF Upgrade, TypeOK, Reading
  <1>2. CASE Join(c)
    <2>1. reader' \in [Writer -> Reading]
      BY <1>0, <1>2, ReaderTypes DEF Join
    <2>2. Len(sent) \in Nat
      BY DEF TypeOK
    <2>3. pump' \in [Conn -> Pumping]
      BY <1>2 DEF Join, TypeOK, Pumping
    <2> QED
      BY <1>2, <2>1, <2>2, <2>3 DEF Join, Register, TypeOK, Reading, Pumping
  <1>3. CASE ReadFails(c)
    <2>1. reader' \in [Writer -> Reading]
      BY <1>0, <1>3, ReaderTypes DEF ReadFails
    <2> QED
      BY <1>3, <2>1 DEF ReadFails, TypeOK, connVars, Reading
  <1>4. CASE Leave(c)
    <2>1. reader' \in [Writer -> Reading]
      BY <1>0, <1>4, ReaderTypes DEF Leave
    <2> QED
      BY <1>4, <2>1 DEF Leave, Unregister, TypeOK, Reading
  <1> QED
    BY <1>1, <1>2, <1>3, <1>4

\* Types: the pump, and the peer.
LEMMA PumpTypes ==
    ASSUME TypeOK, NEW c \in Conn, Pump(c) \/ Peer(c)
    PROVE  TypeOK'
  <1>0. [at |-> "wait"] \in Pumping /\ [at |-> "ended"] \in Pumping
    BY DEF Pumping
  <1>1. CASE Take(c)
    <2>1. chan[c] \in Seq(Message) /\ chan[c] # <<>>
      BY <1>1 DEF Take, TypeOK
    <2>2. Head(chan[c]) \in Message /\ Tail(chan[c]) \in Seq(Message)
      BY <2>1
    <2>3. [at |-> "write", msg |-> Head(chan[c])] \in Pumping
      BY <2>2 DEF Pumping
    <2>4. pump' \in [Conn -> Pumping]
      BY <1>1, <2>3 DEF Take, TypeOK, Pumping
    <2>5. chan' \in [Conn -> Seq(Message)]
      BY <1>1, <2>2 DEF Take, TypeOK
    <2> QED
      BY <1>1, <2>4, <2>5 DEF Take, TypeOK, Pumping
  <1>2. CASE Write(c)
    <2>1. pump[c].msg \in Message
      BY <1>2, States DEF Write
    <2>2. pump' \in [Conn -> Pumping]
      BY <1>0, <1>2 DEF Write, TypeOK, Pumping
    <2> QED
      BY <1>2, <2>1, <2>2 DEF Write, TypeOK, Pumping
  <1>3. CASE WriteFails(c) \/ PumpEnds(c)
    <2>1. pump' \in [Conn -> Pumping]
      BY <1>0, <1>3 DEF WriteFails, PumpEnds, TypeOK, Pumping
    <2> QED
      BY <1>3, <2>1 DEF WriteFails, PumpEnds, Closed, TypeOK, Pumping
  <1>4. CASE Peer(c)
    BY <1>4 DEF Peer, FallSilent, HangUp, TypeOK
  <1> QED
    BY <1>1, <1>2, <1>3, <1>4 DEF Pump

\* Every step is one of these.
LEMMA Steps ==
    ASSUME Next
    PROVE  \/ \E w \in Writer : \/ Store(w) /\ reader[w].at # "broadcast"
                                \/ Send(w)
           \/ \E c \in Conn : \/ Upgrade(c) \/ Join(c) \/ ReadFails(c) \/ Leave(c)
                              \/ Pump(c) \/ Peer(c)
  BY DEF Next, Handler, ReadMessage, Post, Writer, Peer

\* Every variable of ChatHub keeps its type.
THEOREM TypeCorrect == Spec => []TypeOK
<1>1. Init => TypeOK
  <2> SUFFICES ASSUME Init PROVE TypeOK
    OBVIOUS
  <2>1. reader \in [Writer -> Reading] /\ pump \in [Conn -> Pumping]
    BY DEF Init, Reading, Pumping
  <2>2. <<>> \in Seq(Message)
    OBVIOUS
  <2> QED
    BY <2>1, <2>2 DEF Init, TypeOK, Reading, Pumping
<1>2. TypeOK /\ [Next]_vars => TypeOK'
  <2>1. TypeOK /\ Next => TypeOK'
    BY Steps, StoreTypes, SendTypes, HandlerTypes, PumpTypes
  <2>2. TypeOK /\ UNCHANGED vars => TypeOK'
    BY DEF TypeOK, vars, connVars
  <2> QED
    BY <2>1, <2>2
<1> QED
  BY <1>1, <1>2, PTL DEF Spec

-----------------------------------------------------------------------------
(* The clients in the room *)

\* The channel of a client in the room is open.  It is closed only once the
\* handler has registered the client, and before that nothing has happened.
RoomHolds(c) ==
    /\ c \in room =>
         ~closed[c] /\ reader[c].at \in {"read", "broadcast", "unregister"}
    /\ reader[c].at \in {"none", "register"} =>
         ~closed[c] /\ got[c] = <<>> /\ chan[c] = <<>> /\ pump[c].at = "none"

RoomInv == NoPanic /\ \A c \in Conn : RoomHolds(c)

\* What is written to a socket, or is about to be.
Taken(c) == Len(got[c]) + (IF pump[c].at = "write" THEN 1 ELSE 0)

\* What is written, what the pump holds and what is in the channel are one
\* stretch of what was broadcast.  For a client in the room it reaches to the
\* end, unless its pump has returned.
LinedUp(c) ==
    /\ \A i \in 1..Len(got[c]) :
         from[c] + i <= Len(sent) /\ got[c][i] = sent[from[c] + i]
    /\ pump[c].at = "write" =>
         /\ from[c] + Taken(c) <= Len(sent)
         /\ pump[c].msg = sent[from[c] + Taken(c)]
    /\ pump[c].at # "ended" =>
         \A j \in 1..Len(chan[c]) :
           /\ from[c] + Taken(c) + j <= Len(sent)
           /\ chan[c][j] = sent[from[c] + Taken(c) + j]
    /\ pump[c].at # "ended" /\ c \in room =>
         from[c] + Taken(c) + Len(chan[c]) = Len(sent)

HubInv == RoomInv /\ \A c \in Conn : LinedUp(c)

LEMMA Lengths ==
    ASSUME TypeOK, NEW c \in Conn
    PROVE  /\ from[c] \in Nat /\ Len(sent) \in Nat /\ Taken(c) \in Nat
           /\ Len(got[c]) \in Nat /\ Len(chan[c]) \in Nat
           /\ chan[c] \in Seq(Message) /\ got[c] \in Seq(Message)
  BY DEF TypeOK, Taken

\* A step that is nothing to a client, apart from where its handler is.
Untouched(c) ==
    /\ \/ reader'[c] = reader[c]
       \/ reader'[c].at \in {"read", "broadcast", "unregister"}
       \/ reader'[c].at = "register" /\ reader[c].at = "none"
    /\ sent' = sent
    /\ c \in room' <=> c \in room
    /\ chan'[c] = chan[c] /\ closed'[c] = closed[c] /\ pump'[c] = pump[c]
    /\ got'[c] = got[c] /\ from'[c] = from[c]

LEMMA ClientFrame ==
    ASSUME HubInv
    PROVE  \A c \in Conn : Untouched(c) => RoomHolds(c)' /\ LinedUp(c)'
  <1> SUFFICES ASSUME NEW c \in Conn, Untouched(c)
               PROVE  RoomHolds(c)' /\ LinedUp(c)'
    OBVIOUS
  <1>0. RoomHolds(c) /\ LinedUp(c)
    BY DEF HubInv, RoomInv
  <1>1. RoomHolds(c)'
    BY <1>0 DEF RoomHolds, Untouched
  <1>2. LinedUp(c)'
    BY <1>0 DEF LinedUp, Taken, Untouched
  <1> QED
    BY <1>1, <1>2

\* A message is stored: the handler of its socket, if it came over one, was
\* reading.
LEMMA StoreKeeps ==
    ASSUME TypeOK, HubInv, NEW w \in Writer, Store(w)
    PROVE  HubInv'
  <1>1. /\ w \in Conn => reader'[w].at \in {"broadcast", "read"}
        /\ \A v \in Writer \ {w} : reader'[v] = reader[v]
    BY StoreMoves
  <1>2. ASSUME NEW c \in Conn
        PROVE  Untouched(c)
    <2>1. reader'[c] = reader[c] \/ reader'[c].at \in {"broadcast", "read"}
      BY <1>1, States
    <2> QED
      BY <2>1 DEF Store, Untouched, connVars
  <1> QED
    BY <1>2, ClientFrame DEF Store, HubInv, RoomInv, NoPanic

\* A broadcast reaches the end of the channel of every client that stays.
LEMMA SendKeeps ==
    ASSUME TypeOK, HubInv, NEW w \in Writer, Send(w)
    PROVE  HubInv'
  <1> DEFINE m == reader[w].msg
  <1>1. m \in Message /\ Broadcast(m)
    BY States DEF Send, FansOut
  <1>2. Then(w) \in Reading
    BY DEF Then, Reading
  <1>3. /\ reader'[w] = Then(w) /\ reader[w].at = "broadcast"
        /\ \A v \in Writer \ {w} : reader'[v] = reader[v]
        /\ UNCHANGED <<pump, got, from>>
    BY <1>2, ReaderTypes DEF Send
  <1> HIDE DEF m
  <1>4. NoPanic'
    BY <1>1 DEF Broadcast, HubInv, RoomInv, RoomHolds, NoPanic, TypeOK
  <1>5. ASSUME NEW c \in Conn
        PROVE  RoomHolds(c)' /\ LinedUp(c)'
    <2>1. reader'[c] = reader[c] \/ (reader'[c].at = "read" /\ reader[c].at = "broadcast")
      BY <1>3, States DEF Then
    <2>2. RoomHolds(c) /\ LinedUp(c)
      BY DEF HubInv, RoomInv
    <2>3. RoomHolds(c)'
      <3>1. c \in room' => c \in room /\ ~closed'[c]
        BY <1>1, <2>2, BroadcastEffect DEF RoomHolds
      <3>2. c \notin room => chan'[c] = chan[c] /\ closed'[c] = closed[c]
        BY <1>1, BroadcastEffect
      <3> QED
        BY <1>3, <2>1, <2>2, <3>1, <3>2 DEF RoomHolds
    <2>4. /\ Len(sent') = Len(sent) + 1
          /\ \A i \in 1..Len(sent) : sent'[i] = sent[i]
          /\ sent'[Len(sent) + 1] = m
      BY <1>1, BroadcastEffect DEF TypeOK
    <2>5. Taken(c)' = Taken(c)
      BY <1>3 DEF Taken
    <2>6. CASE c \in room'
      <3>1. c \in room /\ chan'[c] = Append(chan[c], m)
        BY <1>1, <2>6, BroadcastEffect
      <3>2. /\ Len(chan'[c]) = Len(chan[c]) + 1
            /\ \A j \in 1..Len(chan[c]) : chan'[c][j] = chan[c][j]
            /\ chan'[c][Len(chan[c]) + 1] = m
        BY <1>1, <3>1, Lengths
      <3>3. ASSUME NEW i \in 1..Len(got[c])
            PROVE  from[c] + i <= Len(sent) /\ got[c][i] = sent'[from[c] + i]
        <4>1. from[c] + i <= Len(sent) /\ got[c][i] = sent[from[c] + i]
          BY <2>2 DEF LinedUp
        <4> QED
          BY <2>4, <4>1, Lengths
      <3>4. pump[c].at = "write" =>
              /\ from[c] + Taken(c) <= Len(sent)
              /\ pump[c].msg = sent'[from[c] + Taken(c)]
        <4>1. pump[c].at = "write" => Taken(c) >= 1
          BY Lengths DEF Taken
        <4> QED
          BY <2>2, <2>4, <4>1, Lengths DEF LinedUp
      <3>5. ASSUME pump[c].at # "ended"
            PROVE  /\ from[c] + Taken(c) + Len(chan'[c]) = Len(sent')
                   /\ \A j \in 1..Len(chan'[c]) :
                        /\ from[c] + Taken(c) + j <= Len(sent')
                        /\ chan'[c][j] = sent'[from[c] + Taken(c) + j]
        <4>1. from[c] + Taken(c) + Len(chan[c]) = Len(sent)
          BY <2>2, <3>1, <3>5 DEF LinedUp
        <4>2. ASSUME NEW j \in 1..Len(chan[c])
              PROVE  chan[c][j] = sent'[from[c] + Taken(c) + j]
          <5>1. /\ from[c] + Taken(c) + j <= Len(sent)
                /\ chan[c][j] = sent[from[c] + Taken(c) + j]
            BY <2>2, <3>5 DEF LinedUp
          <5> QED
            BY <2>4, <5>1, Lengths
        <4>3. chan'[c][Len(chan[c]) + 1]
                = sent'[from[c] + Taken(c) + (Len(chan[c]) + 1)]
          <5>1. from[c] + Taken(c) + (Len(chan[c]) + 1) = Len(sent) + 1
            <6>1. /\ from[c] \in Nat /\ Taken(c) \in Nat
                  /\ Len(chan[c]) \in Nat /\ Len(sent) \in Nat
              BY Lengths
            <6> QED
              BY <4>1, <6>1
          <5> QED
            BY <2>4, <3>2, <5>1
        <4>4. \A j \in 1..Len(chan'[c]) :
                \/ j \in 1..Len(chan[c])
                \/ j = Len(chan[c]) + 1
          BY <3>2, Lengths
        <4>5. \A j \in 1..Len(chan'[c]) :
                chan'[c][j] = sent'[from[c] + Taken(c) + j]
          BY <3>2, <4>2, <4>3, <4>4
        <4>6. /\ from[c] \in Nat /\ Taken(c) \in Nat
              /\ Len(chan[c]) \in Nat /\ Len(sent) \in Nat
          BY Lengths
        <4>7. from[c] + Taken(c) + Len(chan'[c]) = Len(sent')
          BY <2>4, <3>2, <4>1, <4>6
        <4>8. ASSUME NEW j \in 1..Len(chan'[c])
              PROVE  from[c] + Taken(c) + j <= Len(sent')
          BY <3>2, <4>6, <4>7
        <4> QED
          BY <4>5, <4>7, <4>8
      <3> QED
        BY <1>3, <2>3, <2>4, <2>5, <3>3, <3>4, <3>5, Lengths DEF LinedUp
    <2>7. CASE c \notin room'
      <3>1. chan'[c] = chan[c]
        BY <1>1, <2>7, BroadcastEffect
      <3>2. ASSUME NEW i \in 1..Len(got[c])
            PROVE  from[c] + i <= Len(sent') /\ got[c][i] = sent'[from[c] + i]
        <4>1. from[c] + i <= Len(sent) /\ got[c][i] = sent[from[c] + i]
          BY <2>2 DEF LinedUp
        <4> QED
          BY <2>4, <4>1, Lengths
      <3>3. pump[c].at = "write" =>
              /\ from[c] + Taken(c) <= Len(sent')
              /\ pump[c].msg = sent'[from[c] + Taken(c)]
        <4>1. pump[c].at = "write" => Taken(c) >= 1
          BY Lengths DEF Taken
        <4> QED
          BY <2>2, <2>4, <4>1, Lengths DEF LinedUp
      <3>4. ASSUME pump[c].at # "ended", NEW j \in 1..Len(chan[c])
            PROVE  /\ from[c] + Taken(c) + j <= Len(sent')
                   /\ chan[c][j] = sent'[from[c] + Taken(c) + j]
        <4>1. /\ from[c] + Taken(c) + j <= Len(sent)
              /\ chan[c][j] = sent[from[c] + Taken(c) + j]
          BY <2>2, <3>4 DEF LinedUp
        <4>2. /\ from[c] \in Nat /\ Taken(c) \in Nat
              /\ Len(chan[c]) \in Nat /\ Len(sent) \in Nat
          BY Lengths
        <4>3. /\ from[c] + Taken(c) + j \in 1..Len(sent)
              /\ from[c] + Taken(c) + j <= Len(sent')
          BY <2>4, <4>1, <4>2
        <4> QED
          BY <2>4, <4>1, <4>3
      <3> QED
        BY <1>3, <2>3, <2>5, <2>7, <3>1, <3>2, <3>3, <3>4 DEF LinedUp
    <2> QED
      BY <2>6, <2>7
  <1> QED
    BY <1>4, <1>5 DEF HubInv, RoomInv

\* A handler opens its socket, and registers and unregisters the client.
LEMMA HandlerKeeps ==
    ASSUME TypeOK, HubInv, NEW c \in Conn,
           Upgrade(c) \/ Join(c) \/ ReadFails(c) \/ Leave(c)
    PROVE  HubInv'
  <1>0. /\ \A a \in {"none", "register", "read", "unregister", "ended"} :
             [at |-> a] \in Reading
        /\ c \in Writer /\ Conn \subseteq Writer
    BY States DEF Reading
  <1>1. CASE Upgrade(c) \/ ReadFails(c)
    <2>1. /\ \/ reader'[c].at = "register" /\ reader[c].at = "none"
             \/ reader'[c].at = "unregister"
          /\ \A d \in Conn \ {c} : reader'[d] = reader[d]
          /\ UNCHANGED <<sent, room, chan, closed, pump, got, from, panicked>>
      BY <1>0, <1>1, ReaderTypes DEF Upgrade, ReadFails, connVars
    <2>2. \A d \in Conn : Untouched(d)
      BY <2>1 DEF Untouched
    <2> QED
      BY <2>1, <2>2, ClientFrame DEF HubInv, RoomInv, NoPanic
  <1>2. CASE Join(c)
    <2>1. /\ reader[c].at = "register" /\ reader'[c].at = "read"
          /\ \A d \in Conn \ {c} : reader'[d] = reader[d]
      BY <1>0, <1>2, ReaderTypes DEF Join
    <2>2. /\ pump'[c] = [at |-> "wait"] /\ from'[c] = Len(sent)
          /\ \A d \in Conn \ {c} : pump'[d] = pump[d] /\ from'[d] = from[d]
          /\ room' = room \cup {c}
          /\ UNCHANGED <<sent, chan, closed, got, panicked>>
      BY <1>2 DEF Join, Register, TypeOK
    <2>3. ~closed[c] /\ got[c] = <<>> /\ chan[c] = <<>>
      BY <2>1 DEF HubInv, RoomInv, RoomHolds
    <2>4. RoomHolds(c)'
      BY <2>1, <2>2, <2>3 DEF RoomHolds
    <2>5. Len(sent) \in Nat
      BY DEF TypeOK
    <2>6. Taken(c)' = 0 /\ Len(got'[c]) = 0 /\ Len(chan'[c]) = 0
      BY <2>2, <2>3 DEF Taken
    <2>7. LinedUp(c)'
      BY <2>2, <2>5, <2>6 DEF LinedUp
    <2>8. \A d \in Conn \ {c} : Untouched(d)
      BY <2>1, <2>2 DEF Untouched
    <2> QED
      BY <2>2, <2>4, <2>7, <2>8, ClientFrame DEF HubInv, RoomInv, NoPanic
  <1>3. CASE Leave(c)
    <2>1. /\ reader'[c].at = "ended"
          /\ \A d \in Conn \ {c} : reader'[d] = reader[d]
      BY <1>0, <1>3, ReaderTypes DEF Leave
    <2>2. /\ UNCHANGED <<sent, chan, pump, got, from>>
          /\ room' = room \ {c}
          /\ \A d \in Conn \ {c} : closed'[d] = closed[d]
      BY <1>3 DEF Leave, Unregister, TypeOK
    <2>3. NoPanic'
      BY <1>3 DEF Leave, Unregister, InRoom, HubInv, RoomInv, RoomHolds, NoPanic,
                  TypeOK
    <2>4. RoomHolds(c)'
      BY <2>1, <2>2 DEF RoomHolds
    <2>5. LinedUp(c)'
      BY <2>2 DEF LinedUp, Taken, HubInv
    <2>6. \A d \in Conn \ {c} : Untouched(d)
      BY <2>1, <2>2 DEF Untouched
    <2> QED
      BY <2>3, <2>4, <2>5, <2>6, ClientFrame DEF HubInv, RoomInv
  <1> QED
    BY <1>1, <1>2, <1>3

\* The pump takes a message, writes it, fails or ends; the peer goes.
LEMMA PumpKeeps ==
    ASSUME TypeOK, HubInv, NEW c \in Conn, Pump(c) \/ Peer(c)
    PROVE  HubInv'
  <1>0. /\ NoPanic /\ RoomHolds(c) /\ LinedUp(c)
        /\ \A d \in Conn : RoomHolds(d) /\ LinedUp(d)
    BY DEF HubInv, RoomInv
  <1>1. CASE Take(c)
    <2>1. chan[c] \in Seq(Message) /\ chan[c] # <<>>
      BY <1>1 DEF Take, TypeOK
    <2>2. /\ pump[c].at = "wait"
          /\ pump'[c] = [at |-> "write", msg |-> Head(chan[c])]
          /\ chan'[c] = Tail(chan[c])
          /\ \A d \in Conn \ {c} : pump'[d] = pump[d] /\ chan'[d] = chan[d]
          /\ UNCHANGED <<sent, room, closed, reader, got, from, panicked>>
      BY <1>1 DEF Take, TypeOK
    <2>3. /\ Head(chan[c]) = chan[c][1] /\ Len(chan[c]) >= 1
          /\ Len(Tail(chan[c])) = Len(chan[c]) - 1
          /\ \A j \in 1..(Len(chan[c]) - 1) : Tail(chan[c])[j] = chan[c][j + 1]
      BY <2>1
    <2>4. pump'[c].at = "write" /\ pump'[c].msg = Head(chan[c])
      BY <2>2
    <2>5. Taken(c) = Len(got[c]) /\ Taken(c)' = Taken(c) + 1
      BY <2>2, <2>4, Lengths DEF Taken
    <2>6. RoomHolds(c)'
      BY <1>0, <2>2 DEF RoomHolds
    <2>7. \A j \in 1..Len(chan[c]) :
            /\ from[c] + Taken(c) + j <= Len(sent)
            /\ chan[c][j] = sent[from[c] + Taken(c) + j]
      BY <1>0, <2>2 DEF LinedUp
    <2>8. /\ from[c] + (Taken(c) + 1) <= Len(sent)
          /\ Head(chan[c]) = sent[from[c] + (Taken(c) + 1)]
      <3>1. 1 \in 1..Len(chan[c])
        BY <2>3, Lengths
      <3>2. from[c] + (Taken(c) + 1) = from[c] + Taken(c) + 1
        <4>1. from[c] \in Nat /\ Taken(c) \in Nat
          BY Lengths
        <4> QED
          BY <4>1
      <3> QED
        BY <2>3, <2>7, <3>1, <3>2
    <2>9. ASSUME NEW j \in 1..Len(Tail(chan[c]))
          PROVE  /\ from[c] + (Taken(c) + 1) + j <= Len(sent)
                 /\ Tail(chan[c])[j] = sent[from[c] + (Taken(c) + 1) + j]
      <3>1. j \in 1..(Len(chan[c]) - 1) /\ j + 1 \in 1..Len(chan[c])
        BY <2>3, <2>9, Lengths
      <3>2. from[c] + (Taken(c) + 1) + j = from[c] + Taken(c) + (j + 1)
        <4>1. from[c] \in Nat /\ Taken(c) \in Nat /\ j \in Nat
          BY <3>1, Lengths
        <4> QED
          BY <4>1
      <3> QED
        BY <2>3, <2>7, <3>1, <3>2
    <2>10. ASSUME c \in room
           PROVE  from[c] + (Taken(c) + 1) + Len(Tail(chan[c])) = Len(sent)
      <3>1. from[c] + Taken(c) + Len(chan[c]) = Len(sent)
        BY <1>0, <2>2, <2>10 DEF LinedUp
      <3> QED
        BY <2>3, <3>1, Lengths
    <2>11. \A i \in 1..Len(got[c]) :
             from[c] + i <= Len(sent) /\ got[c][i] = sent[from[c] + i]
      BY <1>0 DEF LinedUp
    <2>12. LinedUp(c)'
      BY <2>2, <2>4, <2>5, <2>8, <2>9, <2>10, <2>11 DEF LinedUp
    <2>13. \A d \in Conn \ {c} : Untouched(d)
      BY <2>2 DEF Untouched
    <2> QED
      BY <1>0, <2>2, <2>6, <2>12, <2>13, ClientFrame DEF HubInv, RoomInv, NoPanic
  <1>2. CASE Write(c)
    <2>1. pump[c].at = "write" /\ pump[c].msg \in Message
      BY <1>2, States DEF Write
    <2>2. /\ pump'[c] = [at |-> "wait"] /\ got'[c] = Append(got[c], pump[c].msg)
          /\ \A d \in Conn \ {c} : pump'[d] = pump[d] /\ got'[d] = got[d]
          /\ UNCHANGED <<sent, room, chan, closed, reader, from, panicked>>
      BY <1>2 DEF Write, TypeOK
    <2>3. /\ Len(got'[c]) = Len(got[c]) + 1
          /\ \A i \in 1..Len(got[c]) : got'[c][i] = got[c][i]
          /\ got'[c][Len(got[c]) + 1] = pump[c].msg
      BY <2>1, <2>2, Lengths
    <2>4. Taken(c) = Len(got[c]) + 1 /\ Taken(c)' = Taken(c)
      BY <2>1, <2>2, <2>3, Lengths DEF Taken
    <2>5. RoomHolds(c)'
      BY <1>0, <2>1, <2>2 DEF RoomHolds
    <2>6. \A i \in 1..Len(got'[c]) :
            from[c] + i <= Len(sent) /\ got'[c][i] = sent[from[c] + i]
      <3>1. from[c] \in Nat /\ Len(got[c]) \in Nat
        BY Lengths
      <3>2. /\ from[c] + (Len(got[c]) + 1) <= Len(sent)
            /\ got'[c][Len(got[c]) + 1] = sent[from[c] + (Len(got[c]) + 1)]
        BY <1>0, <2>1, <2>3, <2>4 DEF LinedUp
      <3>3. ASSUME NEW i \in 1..Len(got[c])
            PROVE  from[c] + i <= Len(sent) /\ got'[c][i] = sent[from[c] + i]
        BY <1>0, <2>3 DEF LinedUp
      <3>4. \A i \in 1..(Len(got[c]) + 1) :
              i \in 1..Len(got[c]) \/ i = Len(got[c]) + 1
        BY <3>1
      <3> QED
        BY <2>3, <3>2, <3>3, <3>4
    <2>7. LinedUp(c)'
      BY <1>0, <2>1, <2>2, <2>4, <2>6 DEF LinedUp
    <2>8. \A d \in Conn \ {c} : Untouched(d)
      BY <2>2 DEF Untouched
    <2> QED
      BY <1>0, <2>2, <2>5, <2>7, <2>8, ClientFrame DEF HubInv, RoomInv, NoPanic
  <1>3. CASE WriteFails(c) \/ PumpEnds(c)
    <2>1. /\ pump[c].at \in {"wait", "write"} /\ pump'[c] = [at |-> "ended"]
          /\ \A d \in Conn \ {c} : pump'[d] = pump[d]
          /\ UNCHANGED <<sent, room, chan, closed, reader, got, from, panicked>>
      BY <1>3 DEF WriteFails, PumpEnds, TypeOK
    <2>2. RoomHolds(c)'
      BY <1>0, <2>1 DEF RoomHolds
    <2>3. LinedUp(c)'
      BY <1>0, <2>1 DEF LinedUp
    <2>4. \A d \in Conn \ {c} : Untouched(d)
      BY <2>1 DEF Untouched
    <2> QED
      BY <1>0, <2>1, <2>2, <2>3, <2>4, ClientFrame DEF HubInv, RoomInv, NoPanic
  <1>4. CASE Peer(c)
    <2>1. UNCHANGED panicked /\ \A d \in Conn : Untouched(d)
      BY <1>4 DEF Peer, FallSilent, HangUp, Untouched
    <2> QED
      BY <1>0, <2>1, ClientFrame DEF HubInv, RoomInv, NoPanic
  <1> QED
    BY <1>1, <1>2, <1>3, <1>4 DEF Pump

LEMMA HubInvariant == Spec => []HubInv
<1>1. Init => HubInv
  <2> SUFFICES ASSUME Init PROVE HubInv
    OBVIOUS
  <2>1. \A c \in Conn : /\ reader[c].at = "none" /\ pump[c].at = "none"
                        /\ got[c] = <<>> /\ chan[c] = <<>> /\ ~closed[c]
    BY DEF Init, Writer
  <2>2. room = {} /\ NoPanic
    BY DEF Init, NoPanic
  <2>3. \A c \in Conn : Len(got[c]) = 0 /\ Len(chan[c]) = 0
    BY <2>1
  <2> QED
    BY <2>1, <2>2, <2>3 DEF HubInv, RoomInv, RoomHolds, LinedUp
<1>2. TypeOK /\ HubInv /\ [Next]_vars => HubInv'
  <2>1. TypeOK /\ HubInv /\ Next => HubInv'
    BY Steps, StoreKeeps, SendKeeps, HandlerKeeps, PumpKeeps
  <2>2. HubInv /\ UNCHANGED vars => HubInv'
    <3>1. UNCHANGED vars => UNCHANGED panicked /\ \A d \in Conn : Untouched(d)
      BY DEF vars, Untouched
    <3> QED
      BY <3>1, ClientFrame DEF HubInv, RoomInv, NoPanic
  <2> QED
    BY <2>1, <2>2
<1> QED
  BY <1>1, <1>2, TypeCorrect, PTL DEF Spec

\* The hub and the handlers close the channel of a client once, and nothing is
\* sent to it afterwards.
THEOREM ChannelsClosedOnce == Spec => []NoPanic
<1>1. HubInv => NoPanic
  BY DEF HubInv, RoomInv
<1> QED
  BY <1>1, HubInvariant, PTL

\* A socket gets an unbroken stretch of what was broadcast, from the moment
\* its client was registered.
THEOREM DeliveredInOrder == Spec => []NoGaps
<1>1. HubInv => NoGaps
  BY DEF HubInv, LinedUp, NoGaps
<1> QED
  BY <1>1, HubInvariant, PTL

-----------------------------------------------------------------------------
(* The messages *)

\* A stored message has been broadcast, or its writer is about to, unless its
\* INSERT was answered with an error.
AllSent ==
    \A m \in 1..stored \ unsent :
        \/ \E w \in Writer : reader[w].at = "broadcast" /\ reader[w].msg = m
        \/ \E i \in 1..Len(sent) : sent[i] = m

\* The pump of a client in the room runs, until it closes the connection.
PumpRuns ==
    \A c \in Conn : /\ pump[c].at = "ended" => link[c] = "closed"
                    /\ c \in room => pump[c].at # "none"

LEMMA StoreSends ==
    ASSUME TypeOK, AllSent, NEW w \in Writer, Store(w),
           reader[w].at # "broadcast"
    PROVE  AllSent'
  <1>1. stored \in Nat /\ stored' = stored + 1 /\ sent' = sent
    BY DEF TypeOK, Store
  <1>2. /\ \A v \in Writer \ {w} : reader'[v] = reader[v]
        /\ \/ /\ reader'[w].at = "broadcast" /\ reader'[w].msg = stored + 1
              /\ unsent' = unsent
           \/ unsent' = unsent \cup {stored + 1}
    BY StoreMoves
  <1> SUFFICES ASSUME NEW m \in 1..stored' \ unsent'
               PROVE  \/ \E v \in Writer : /\ reader'[v].at = "broadcast"
                                           /\ reader'[v].msg = m
                      \/ \E i \in 1..Len(sent) : sent[i] = m
    BY <1>1 DEF AllSent
  <1>3. CASE m = stored + 1
    BY <1>2, <1>3
  <1>4. CASE m \in 1..stored \ unsent
    BY <1>2, <1>4 DEF AllSent
  <1> QED
    BY <1>1, <1>2, <1>3, <1>4

LEMMA SendSends ==
    ASSUME TypeOK, AllSent, NEW w \in Writer, Send(w)
    PROVE  AllSent'
  <1> DEFINE m == reader[w].msg
  <1>1. m \in Message /\ Broadcast(m)
    BY States DEF Send, FansOut
  <1>2. Then(w) \in Reading
    BY DEF Then, Reading
  <1>3. /\ \A v \in Writer \ {w} : reader'[v] = reader[v]
        /\ stored' = stored /\ unsent' = unsent
    BY <1>2, ReaderTypes DEF Send
  <1>4. /\ Len(sent) \in Nat /\ Len(sent') = Len(sent) + 1
        /\ \A i \in 1..Len(sent) : sent'[i] = sent[i]
        /\ sent'[Len(sent) + 1] = m
    BY <1>1, BroadcastEffect DEF TypeOK
  <1> SUFFICES ASSUME NEW k \in 1..stored \ unsent
               PROVE  \/ \E v \in Writer : /\ reader'[v].at = "broadcast"
                                           /\ reader'[v].msg = k
                      \/ \E i \in 1..Len(sent') : sent'[i] = k
    BY <1>3 DEF AllSent
  <1>5. CASE k = m
    <2>1. Len(sent) + 1 \in 1..Len(sent')
      BY <1>4
    <2> QED
      BY <1>4, <1>5, <2>1
  <1>6. CASE \E v \in Writer \ {w} : reader[v].at = "broadcast" /\ reader[v].msg = k
    BY <1>3, <1>6
  <1>7. CASE \E i \in 1..Len(sent) : sent[i] = k
    <2>1. PICK i \in 1..Len(sent) : sent[i] = k
      BY <1>7
    <2>2. i \in 1..Len(sent') /\ sent'[i] = k
      BY <1>4, <2>1
    <2> QED
      BY <2>2
  <1> QED
    BY <1>5, <1>6, <1>7 DEF AllSent

LEMMA ReadersSend ==
    ASSUME TypeOK, AllSent, NEW c \in Conn,
           \/ Upgrade(c) \/ Join(c) \/ ReadFails(c) \/ Leave(c)
           \/ Pump(c) \/ Peer(c)
    PROVE  AllSent'
  <1>1. stored' = stored /\ unsent' = unsent /\ sent' = sent
    BY DEF Upgrade, Join, ReadFails, Leave, Pump, Take, Write, WriteFails,
           PumpEnds, Peer, FallSilent, HangUp
  <1>2. \A w \in Writer : reader'[w] = reader[w] \/ reader[w].at # "broadcast"
    BY DEF Upgrade, Join, ReadFails, Leave, Pump, Take, Write, WriteFails,
           PumpEnds, Peer, FallSilent, HangUp, Goto, TypeOK
  <1> QED
    BY <1>1, <1>2 DEF AllSent

LEMMA PumpRunsStep ==
    ASSUME TypeOK, HubInv, PumpRuns, Next
    PROVE  PumpRuns'
  <1>1. CASE \E w \in Writer : Store(w)
    BY <1>1 DEF Store, connVars, PumpRuns
  <1>2. ASSUME NEW w \in Writer, Send(w) PROVE PumpRuns'
    <2>1. room' \subseteq room /\ pump' = pump /\ link' = link
      BY <1>2 DEF Send, FansOut, Broadcast
    <2> QED
      BY <2>1 DEF PumpRuns
  <1>3. ASSUME NEW c \in Conn,
               Upgrade(c) \/ Join(c) \/ ReadFails(c) \/ Leave(c)
        PROVE  PumpRuns'
    <2>1. CASE Upgrade(c)
      <3>1. reader[c].at = "none" /\ room' = room /\ pump' = pump
            /\ \A d \in Conn \ {c} : link'[d] = link[d]
        BY <2>1 DEF Upgrade, TypeOK
      <3>2. pump[c].at = "none"
        BY <3>1 DEF HubInv, RoomInv, RoomHolds
      <3> QED
        BY <3>1, <3>2 DEF PumpRuns
    <2>2. CASE Join(c)
      BY <2>2 DEF Join, Register, PumpRuns, TypeOK
    <2>3. CASE ReadFails(c)
      BY <2>3 DEF ReadFails, connVars, PumpRuns
    <2>4. CASE Leave(c)
      BY <2>4 DEF Leave, Unregister, PumpRuns
    <2> QED
      BY <1>3, <2>1, <2>2, <2>3, <2>4
  <1>4. ASSUME NEW c \in Conn, Pump(c) \/ Peer(c)
        PROVE  PumpRuns'
    <2>1. CASE Take(c) \/ Write(c)
      <3>1. /\ room' = room /\ link' = link
            /\ \A d \in Conn \ {c} : pump'[d] = pump[d]
            /\ pump'[c].at \in {"wait", "write"}
        BY <2>1 DEF Take, Write, TypeOK
      <3> QED
        BY <3>1 DEF PumpRuns
    <2>2. CASE WriteFails(c) \/ PumpEnds(c)
      <3>1. /\ room' = room /\ link'[c] = "closed"
            /\ \A d \in Conn \ {c} : pump'[d] = pump[d] /\ link'[d] = link[d]
            /\ pump'[c].at = "ended"
        BY <2>2 DEF WriteFails, PumpEnds, Closed, TypeOK
      <3> QED
        BY <3>1 DEF PumpRuns
    <2>3. CASE Peer(c)
      <3>1. /\ room' = room /\ pump' = pump /\ link[c] \in {"open", "silent"}
            /\ \A d \in Conn \ {c} : link'[d] = link[d]
        BY <2>3 DEF Peer, FallSilent, HangUp, TypeOK
      <3> QED
        BY <3>1 DEF PumpRuns
    <2> QED
      BY <1>4, <2>1, <2>2, <2>3 DEF Pump
  <1> QED
    BY <1>1, <1>2, <1>3, <1>4, Steps

LEMMA MessagesInvariant == Spec => [](AllSent /\ PumpRuns)
<1>1. Init => AllSent /\ PumpRuns
  BY DEF Init, AllSent, PumpRuns
<1>2. TypeOK /\ HubInv /\ AllSent /\ PumpRuns /\ [Next]_vars
        => AllSent' /\ PumpRuns'
  <2>1. TypeOK /\ AllSent /\ Next => AllSent'
    BY Steps, StoreSends, SendSends, ReadersSend
  <2>2. AllSent /\ PumpRuns /\ UNCHANGED vars => AllSent' /\ PumpRuns'
    BY DEF AllSent, PumpRuns, vars, connVars
  <2> QED
    BY <2>1, <2>2, PumpRunsStep
<1> QED
  BY <1>1, <1>2, TypeCorrect, HubInvariant, PTL DEF Spec

\* What was broadcast since a client in the room was registered is in its
\* socket, in its pump or in its channel.
LEMMA Everything ==
    ASSUME TypeOK, HubInv, PumpRuns, NEW c \in room, link[c] # "closed",
           NEW k \in 1..Len(sent), k > from[c]
    PROVE  \/ \E i \in 1..Len(got[c]) : got[c][i] = sent[k]
           \/ sent[k] \in OnTheWay(c)
  <1>1. c \in Conn /\ pump[c].at \in {"wait", "write"}
    <2>1. c \in Conn
      BY DEF TypeOK
    <2>2. pump[c].at \in {"none", "wait", "ended", "write"}
      BY <2>1 DEF TypeOK
    <2> QED
      BY <2>1, <2>2 DEF PumpRuns
  <1>2. LinedUp(c)
    BY <1>1 DEF HubInv
  <1>3. /\ from[c] \in Nat /\ Taken(c) \in Nat /\ Len(got[c]) \in Nat
        /\ Len(chan[c]) \in Nat /\ Len(sent) \in Nat /\ k \in Nat
    BY <1>1, Lengths
  <1>4. from[c] + Taken(c) + Len(chan[c]) = Len(sent)
    BY <1>1, <1>2 DEF LinedUp
  <1>5. CASE k - from[c] \in 1..Len(got[c])
    <2>1. from[c] + (k - from[c]) = k
      BY <1>3
    <2> QED
      BY <1>2, <1>5, <2>1 DEF LinedUp
  <1>6. CASE k = from[c] + Taken(c) /\ pump[c].at = "write"
    BY <1>2, <1>6 DEF LinedUp, OnTheWay
  <1>7. CASE k - (from[c] + Taken(c)) \in 1..Len(chan[c])
    <2> DEFINE j == k - (from[c] + Taken(c))
    <2>1. from[c] + Taken(c) + j = k
      BY <1>3
    <2>2. chan[c][j] = sent[k]
      BY <1>1, <1>2, <1>7, <2>1 DEF LinedUp
    <2> QED
      BY <1>7, <2>2 DEF OnTheWay
  <1>8. \/ k - from[c] \in 1..Len(got[c])
        \/ k = from[c] + Taken(c) /\ pump[c].at = "write"
        \/ k - (from[c] + Taken(c)) \in 1..Len(chan[c])
    <2>1. CASE pump[c].at = "write"
      <3>1. Taken(c) = Len(got[c]) + 1
        BY <1>3, <2>1 DEF Taken
      <3>2. CASE k <= from[c] + Len(got[c])
        BY <1>3, <3>2
      <3>3. CASE k = from[c] + Taken(c)
        BY <2>1, <3>3
      <3>4. CASE k > from[c] + Taken(c)
        <4>1. k <= from[c] + Taken(c) + Len(chan[c])
          BY <1>4
        <4>2. k - (from[c] + Taken(c)) \in 1..Len(chan[c])
          BY <1>3, <4>1, <3>4
        <4> QED
          BY <4>2
      <3>5. \/ k <= from[c] + Len(got[c])
            \/ k = from[c] + (Len(got[c]) + 1)
            \/ k > from[c] + (Len(got[c]) + 1)
        BY <1>3
      <3> QED
        BY <3>1, <3>2, <3>3, <3>4, <3>5
    <2>2. CASE pump[c].at # "write"
      <3>1. Taken(c) = Len(got[c])
        BY <1>3, <2>2 DEF Taken
      <3>2. CASE k <= from[c] + Len(got[c])
        BY <1>3, <3>2
      <3>3. CASE k > from[c] + Taken(c)
        <4>1. k <= from[c] + Taken(c) + Len(chan[c])
          BY <1>4
        <4>2. k - (from[c] + Taken(c)) \in 1..Len(chan[c])
          BY <1>3, <4>1, <3>3
        <4> QED
          BY <4>2
      <3>4. k <= from[c] + Len(got[c]) \/ k > from[c] + Len(got[c])
        BY <1>3
      <3> QED
        BY <3>1, <3>2, <3>3, <3>4
    <2> QED
      BY <2>1, <2>2
  <1> QED
    BY <1>5, <1>6, <1>7, <1>8

\* A client in the room whose connection is not given up gets every message
\* that is stored, but for those that were broadcast before it was registered
\* and those whose INSERT was answered with an error.
THEOREM NothingMissedInTheRoom == Spec => []MissedOnlyAtJoin
<1>1. TypeOK /\ HubInv /\ AllSent /\ PumpRuns => MissedOnlyAtJoin
  <2> SUFFICES ASSUME TypeOK, HubInv, AllSent, PumpRuns,
                      NEW c \in room, link[c] # "closed",
                      NEW m \in 1..stored \ unsent
               PROVE  \/ m \in InFlight \cup OnTheWay(c)
                      \/ \E i \in 1..Len(got[c]) : got[c][i] = m
                      \/ \E i \in 1..from[c] : sent[i] = m
    BY DEF MissedOnlyAtJoin
  <2>1. CASE \E w \in Writer : reader[w].at = "broadcast" /\ reader[w].msg = m
    BY <2>1 DEF InFlight
  <2>2. CASE \E i \in 1..Len(sent) : sent[i] = m
    <3>1. PICK k \in 1..Len(sent) : sent[k] = m
      BY <2>2
    <3>2. c \in Conn /\ from[c] \in Nat
      BY DEF TypeOK
    <3>3. CASE k > from[c]
      BY <3>1, <3>3, Everything
    <3>4. CASE k \in 1..from[c]
      BY <3>1, <3>4
    <3> QED
      BY <3>2, <3>3, <3>4
  <2> QED
    BY <2>1, <2>2 DEF AllSent
<1> QED
  BY <1>1, TypeCorrect, HubInvariant, MessagesInvariant, PTL

=============================================================================
