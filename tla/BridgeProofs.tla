---------------------------- MODULE BridgeProofs ----------------------------
(***************************************************************************)
(* Proofs about Bridge, for every set of plaintexts and any number of      *)
(* connections and frames; and about LockProtocol, which decodes the       *)
(* frames, for frames of any length.                                       *)
(***************************************************************************)
EXTENDS Bridge, FiniteSetTheorems, TLAPS

EventTypes == {"CONNECT", "DISCONNECT", "RX"}
Events == [type : EventTypes, conn : 1 .. MaxConnections, command : Commands]

\* The loop drains only what it swapped out, and all of it.
DrainingWhole == draining # <<>> <=> pc = "drain"

\* Events wait only for the latest connection: the bridge advertises again when the
\* last event of the connection before was processed.
Waiting == draining # <<>> \/ rx_queue # <<>>
OneConnection ==
  /\ conn \in {0, connections}
  /\ advertising => conn = 0 /\ ~Waiting
  /\ \A i \in DOMAIN draining : draining[i].conn = connections
  /\ \A i \in DOMAIN rx_queue : rx_queue[i].conn = connections

\* Its CONNECT is the first of them.
ConnectFirst ==
  /\ \A i \in DOMAIN draining : draining[i].type = "CONNECT" => i = 1
  /\ \A i \in DOMAIN rx_queue : rx_queue[i].type = "CONNECT" => i = 1 /\ draining = <<>>

\* Its DISCONNECT is the last of them, and waits until the bridge advertises.
DisconnectLast ==
  /\ \A i \in DOMAIN draining :
       draining[i].type = "DISCONNECT" => conn = 0 /\ i = Len(draining) /\ rx_queue = <<>>
  /\ \A i \in DOMAIN rx_queue :
       rx_queue[i].type = "DISCONNECT" => conn = 0 /\ i = Len(rx_queue)
  /\ conn = 0 /\ ~advertising =>
       \/ \E i \in DOMAIN draining : draining[i].type = "DISCONNECT"
       \/ \E i \in DOMAIN rx_queue : rx_queue[i].type = "DISCONNECT"

\* Boundaries that the session was told of, and those that still wait.
ConnectWaits ==
  \/ \E i \in DOMAIN draining : draining[i].type = "CONNECT"
  \/ \E i \in DOMAIN rx_queue : rx_queue[i].type = "CONNECT"
BoundariesCounted ==
  boundaries + (IF ConnectWaits THEN 1 ELSE 0) + (IF advertising THEN 0 ELSE 1)
    = 2 * connections

QueueInv ==
  DrainingWhole /\ OneConnection /\ ConnectFirst /\ DisconnectLast /\ BoundariesCounted

\* Frames are numbered, and queued, drained and handled in that order.
IsFrame(event) == event.type = "RX"
FramesIncrease(queue) ==
  \A i, j \in DOMAIN queue :
    i < j /\ IsFrame(queue[i]) /\ IsFrame(queue[j]) =>
      queue[i].command.frame < queue[j].command.frame
FramesAreNew(queue) ==
  \A i \in DOMAIN queue : IsFrame(queue[i]) =>
    /\ queue[i].command.frame \in 1 .. frames
    /\ \A j \in DOMAIN handled : handled[j].frame < queue[i].command.frame
FramesOrdered ==
  /\ FramesIncrease(draining) /\ FramesIncrease(rx_queue)
  /\ FramesAreNew(draining) /\ FramesAreNew(rx_queue)
  /\ \A i \in DOMAIN draining, j \in DOMAIN rx_queue :
       IsFrame(draining[i]) /\ IsFrame(rx_queue[j]) =>
         draining[i].command.frame < rx_queue[j].command.frame
  /\ \A i \in DOMAIN handled : handled[i].frame \in 0 .. frames
  /\ InOrder(handled)

\* A relay carries a handled command, newer than what the lock got before.
Handled(command) == \E j \in DOMAIN handled : handled[j] = command
RelayInv ==
  /\ relay_busy <=> relay.pc # "none"
  /\ relay.pc # "none" => Handled(relay.command)
  /\ relay.pc = "send" =>
       \A i \in DOMAIN delivered : delivered[i].frame < relay.command.frame
  /\ \A i \in DOMAIN delivered : Handled(delivered[i])
  /\ InOrder(delivered)

\* The state is that of the last action, and a poll was answered with it.
StateInv ==
  /\ \/ lock_state = "LOCKED" /\ \A i \in DOMAIN handled : ~Action(i)
     \/ \E i \in DOMAIN handled :
          LastAction(i) /\ lock_state = Position(Type(handled[i].bytes))
  /\ reply.says \in Positions => reply.says = lock_state

IInv == TypeOK /\ QueueInv /\ FramesOrdered /\ RelayInv /\ StateInv /\ ReplyReachesSender

USE BoundsAssumption, PlaintextsAssumption
-----------------------------------------------------------------------------
(* Sequences.                                                              *)

LEMMA TailOf ==
  ASSUME NEW S, NEW s \in Seq(S), s # <<>>
  PROVE  /\ Tail(s) \in Seq(S) /\ Head(s) \in S /\ Head(s) = s[1] /\ 1 \in DOMAIN s
         /\ Len(Tail(s)) = Len(s) - 1
         /\ \A i \in DOMAIN Tail(s) : i + 1 \in DOMAIN s /\ Tail(s)[i] = s[i + 1]
OBVIOUS

LEMMA AppendOf ==
  ASSUME NEW S, NEW s \in Seq(S), NEW e \in S
  PROVE  /\ Append(s, e) \in Seq(S) /\ Len(Append(s, e)) = Len(s) + 1
         /\ DOMAIN Append(s, e) = 1 .. Len(s) + 1 /\ DOMAIN s = 1 .. Len(s)
         /\ Append(s, e)[Len(s) + 1] = e
         /\ \A i \in DOMAIN s : i \in DOMAIN Append(s, e) /\ Append(s, e)[i] = s[i]
OBVIOUS

-----------------------------------------------------------------------------
(* Types.                                                                  *)

\* TypeOK, one variable at a time.
Typed ==
  /\ conn \in 0 .. connections /\ connections \in 0 .. MaxConnections
  /\ frames \in 0 .. MaxFrames /\ boundaries \in Nat
  /\ advertising \in BOOLEAN /\ lock_linked \in BOOLEAN
  /\ relay_busy \in BOOLEAN /\ pending_relay_apply \in BOOLEAN
  /\ rx_queue \in Seq(Events) /\ draining \in Seq(Events)
  /\ handled \in Seq(Commands) /\ delivered \in Seq(Commands)
  /\ pc \in {"rest", "read", "swap", "drain"}
  /\ plaintext \in Commands /\ lock_state \in Positions
  /\ relay \in [pc : {"none", "send", "sent", "command", "ok", "posted"}, command : Commands]
  /\ relay_result \in [command : 0 .. MaxFrames, ok : 0 .. MaxFrames]
  /\ reply \in [to : Commands, conn : 0 .. MaxConnections, heard : 0 .. MaxConnections,
                says : Positions \cup {"ack", "none"}]

LEMMA TypedIs == (TypeOK <=> Typed) /\ (TypeOK' <=> Typed')
<1>1. TypeOK <=> Typed
  BY DEF TypeOK, Typed, Events, EventTypes
<1>2. TypeOK' <=> Typed'
  BY DEF TypeOK, Typed, Events, EventTypes
<1> QED BY <1>1, <1>2

LEMMA CommandTypes ==
  /\ NoCommand \in Commands
  /\ \A n \in 0 .. MaxFrames, bytes \in Plaintexts : Command(n, bytes) \in Commands
BY DEF NoCommand, Command, Commands, NoFrame

\* What draining the event at the head leaves.
LEMMA DrainedOf ==
  ASSUME TypeOK, DrainingWhole, pc = "drain", Drained
  PROVE  /\ draining # <<>> /\ 1 \in DOMAIN draining
         /\ Head(draining) = draining[1] /\ Head(draining) \in Events
         /\ draining' \in Seq(Events) /\ pc' \in {"rest", "drain"}
         /\ draining' # <<>> <=> pc' = "drain"
         /\ Len(draining') = Len(draining) - 1
         /\ \A i \in DOMAIN draining' :
              i + 1 \in DOMAIN draining /\ draining'[i] = draining[i + 1]
         /\ \A i \in DOMAIN draining :
              i # 1 => i - 1 \in DOMAIN draining' /\ draining'[i - 1] = draining[i]
<1>1. draining # <<>> /\ draining \in Seq(Events)
  BY TypedIs DEF Typed, DrainingWhole
<1>2. draining' = Tail(draining) /\ pc' = IF draining' = <<>> THEN "rest" ELSE "drain"
  BY DEF Drained
<1>3. /\ Tail(draining) \in Seq(Events) /\ Head(draining) \in Events
      /\ Head(draining) = draining[1] /\ 1 \in DOMAIN draining
      /\ Len(Tail(draining)) = Len(draining) - 1
      /\ \A i \in DOMAIN Tail(draining) :
           i + 1 \in DOMAIN draining /\ Tail(draining)[i] = draining[i + 1]
  BY <1>1, TailOf
<1>4. \A i \in DOMAIN draining :
        i # 1 => i - 1 \in DOMAIN Tail(draining) /\ Tail(draining)[i - 1] = draining[i]
  BY <1>1, <1>3
<1> QED BY <1>1, <1>2, <1>3, <1>4

LEMMA TypeInit == Init => TypeOK
<1> SUFFICES ASSUME Init PROVE TypeOK
  OBVIOUS
<1>1. <<>> \in Seq(Events) /\ <<>> \in Seq(Commands)
  OBVIOUS
<1>2. NoRelay \in [pc : {"none", "send", "sent", "command", "ok", "posted"}, command : Commands]
  BY CommandTypes DEF NoRelay
<1>3. NoReply \in [to : Commands, conn : 0 .. MaxConnections, heard : 0 .. MaxConnections,
                   says : Positions \cup {"ack", "none"}]
  BY CommandTypes DEF NoReply
<1>4. relay_result \in [command : 0 .. MaxFrames, ok : 0 .. MaxFrames]
  BY DEF Init, NoFrame
<1>5. /\ conn \in 0 .. connections /\ connections \in 0 .. MaxConnections
      /\ frames \in 0 .. MaxFrames /\ boundaries \in Nat
  BY DEF Init
<1>6. /\ advertising \in BOOLEAN /\ lock_linked \in BOOLEAN
      /\ relay_busy \in BOOLEAN /\ pending_relay_apply \in BOOLEAN
  BY DEF Init
<1>7. /\ rx_queue \in Seq(Events) /\ draining \in Seq(Events)
      /\ handled \in Seq(Commands) /\ delivered \in Seq(Commands)
  BY <1>1 DEF Init
<1>8. plaintext \in Commands /\ lock_state \in Positions /\ pc \in {"rest", "read", "swap", "drain"}
  BY CommandTypes DEF Init, Positions
<1>9. relay = NoRelay /\ reply = NoReply
  BY DEF Init
<1> QED BY <1>2, <1>3, <1>4, <1>5, <1>6, <1>7, <1>8, <1>9, TypedIs DEF Typed

LEMMA EventsQueued ==
  ASSUME TypeOK, NEW type \in EventTypes, NEW c \in 1 .. MaxConnections,
         NEW command \in Commands, Queue(Event(type, c, command))
  PROVE  /\ rx_queue' \in Seq(Events)
         /\ rx_queue' = Append(rx_queue, Event(type, c, command))
<1>1. Event(type, c, command) \in Events /\ rx_queue \in Seq(Events)
  BY TypedIs DEF Event, Events, Typed
<1> QED BY <1>1 DEF Queue

LEMMA TypeCallbacks ==
  ASSUME TypeOK, Connect \/ Disconnect \/ \E bytes \in Plaintexts : Write(bytes)
  PROVE  TypeOK'
<1> USE TypedIs
<1>1. CASE Connect
  <2>1. conn' \in 1 .. MaxConnections /\ connections' \in 0 .. MaxConnections
        /\ conn' \in 0 .. connections'
    BY <1>1 DEF Connect, Typed
  <2>2. rx_queue' \in Seq(Events)
    BY <1>1, <2>1, CommandTypes, EventsQueued DEF Connect, EventTypes
  <2> QED BY <1>1, <2>1, <2>2 DEF Connect, Typed, main, result
<1>2. CASE Disconnect
  <2>1. conn \in 1 .. MaxConnections /\ conn' \in 0 .. connections'
    BY <1>2 DEF Disconnect, Typed
  <2>2. rx_queue' \in Seq(Events)
    BY <1>2, <2>1, CommandTypes, EventsQueued DEF Disconnect, EventTypes
  <2> QED BY <1>2, <2>1, <2>2 DEF Disconnect, OnDisconnect, Typed, main, result
<1>3. ASSUME NEW bytes \in Plaintexts, Write(bytes)
      PROVE  TypeOK'
  <2>1. conn \in 1 .. MaxConnections /\ frames' \in 0 .. MaxFrames
    <3>1. conn \in 0 .. connections /\ connections \in 0 .. MaxConnections
          /\ frames \in 0 .. MaxFrames
      BY DEF Typed
    <3>2. conn # 0 /\ frames < MaxFrames /\ frames' = frames + 1
      BY <1>3 DEF Write
    <3> QED BY <3>1, <3>2
  <2>2. rx_queue' \in Seq(Events)
    BY <1>3, <2>1, CommandTypes, EventsQueued DEF Write, EventTypes
  <2> QED BY <1>3, <2>1, <2>2 DEF Write, Typed, main, result
<1> QED BY <1>1, <1>2, <1>3

LEMMA TypeLoop ==
  ASSUME TypeOK, DrainingWhole, Loop \/ LinkChanges
  PROVE  TypeOK'
<1> USE TypedIs
<1>1. CASE LoopBegin
  BY <1>1 DEF LoopBegin, Typed, nimble
<1>2. CASE ReadRelayResult
  BY <1>2 DEF ReadRelayResult, Typed, nimble, result
<1>3. CASE SwapQueue
  BY <1>3 DEF SwapQueue, Swapped, Typed, result
<1>4. CASE LinkChanges
  BY <1>4, CommandTypes DEF LinkChanges, Typed, nimble, result
<1>5. ASSUME NEW type \in {"CONNECT", "DISCONNECT"}, TransportBoundary(type)
      PROVE  TypeOK'
  BY <1>5, CommandTypes, DrainedOf DEF TransportBoundary, AdvertisingAfter, Draining, Typed, result
<1>6. CASE DropFrame
  BY <1>6, CommandTypes, DrainedOf DEF DropFrame, Draining, Typed, nimble, result
<1>7. CASE HandleCommand
  <2> DEFINE command == Head(draining).command
  <2>1. Draining("RX") /\ Respond(command)
    BY <1>7 DEF HandleCommand, HandleLocally, HandleBusy, HandleRelayed, HandleTaskFailed
  <2>2. pc = "drain" /\ Drained
    BY <2>1 DEF Draining, Respond
  <2>3. Head(draining) \in Events /\ draining' \in Seq(Events) /\ pc' \in {"rest", "drain"}
    BY <2>2, DrainedOf
  <2>4. command \in Commands /\ Head(draining).conn \in 1 .. MaxConnections
    BY <2>3 DEF Events
  <2>5. lock_state' \in Positions
    BY <2>1 DEF Respond, StateAfter, Position, Positions, Typed
  <2>6. reply' \in [to : Commands, conn : 0 .. MaxConnections, heard : 0 .. MaxConnections,
                    says : Positions \cup {"ack", "none"}]
    <3>1. conn \in 0 .. MaxConnections
      BY DEF Typed
    <3> QED BY <2>1, <2>4, <2>5, <3>1 DEF Respond, Says
  <2>7. handled' \in Seq(Commands) /\ plaintext' \in Commands
    BY <2>1, <2>4 DEF Respond, Typed
  <2>8. /\ relay_busy' \in BOOLEAN
        /\ relay' \in [pc : {"none", "send", "sent", "command", "ok", "posted"},
                       command : Commands]
    <3>1. \/ relay_busy' = relay_busy /\ relay' = relay
          \/ relay_busy' = TRUE /\ relay' = [pc |-> "send", command |-> command]
          \/ relay_busy' = FALSE /\ relay' = relay
      BY <1>7 DEF HandleCommand, HandleLocally, HandleBusy, HandleRelayed,
        HandleTaskFailed, BusyAfterFailure
    <3>2. [pc |-> "send", command |-> command]
            \in [pc : {"none", "send", "sent", "command", "ok", "posted"}, command : Commands]
      BY <2>4
    <3>3. relay_busy \in BOOLEAN
          /\ relay \in [pc : {"none", "send", "sent", "command", "ok", "posted"},
                        command : Commands]
      BY DEF Typed
    <3> HIDE DEF command
    <3>4. relay_busy' \in BOOLEAN
      BY <3>1, <3>3
    <3> QED BY <3>1, <3>2, <3>3, <3>4
  <2> HIDE DEF command
  <2> QED BY <2>1, <2>3, <2>5, <2>6, <2>7, <2>8 DEF Respond, Typed, nimble, result
<1> QED BY <1>1, <1>2, <1>3, <1>4, <1>5, <1>6, <1>7 DEF Loop

LEMMA TypeRelay ==
  ASSUME TypeOK, Relay
  PROVE  TypeOK'
<1> USE TypedIs
<1>1. CASE Deliver
  <2>1. delivered' \in Seq(Commands)
    BY <1>1 DEF Deliver, Payload, Typed
  <2>2. relay' \in [pc : {"none", "send", "sent", "command", "ok", "posted"},
                    command : Commands]
    BY <1>1 DEF Deliver, Typed
  <2> QED BY <1>1, <2>1, <2>2 DEF Deliver, Typed, nimble, main, result
<1>2. CASE PostCommand
  <2>1. /\ relay.command.frame \in 0 .. MaxFrames
        /\ relay' \in [pc : {"none", "send", "sent", "command", "ok", "posted"},
                       command : Commands]
    BY <1>2 DEF PostCommand, Typed, Commands
  <2>2. relay_result' \in [command : 0 .. MaxFrames, ok : 0 .. MaxFrames]
    BY <1>2, <2>1 DEF PostCommand, Typed
  <2> QED BY <1>2, <2>1, <2>2 DEF PostCommand, Typed, nimble, main
<1>3. CASE PostOk
  <2>1. /\ relay.command.frame \in 0 .. MaxFrames
        /\ relay' \in [pc : {"none", "send", "sent", "command", "ok", "posted"},
                       command : Commands]
    BY <1>3 DEF PostOk, Typed, Commands
  <2>2. relay_result' \in [command : 0 .. MaxFrames, ok : 0 .. MaxFrames]
    BY <1>3, <2>1 DEF PostOk, Typed
  <2> QED BY <1>3, <2>1, <2>2 DEF PostOk, Typed, nimble, main
<1>4. CASE PostFlag
  BY <1>4 DEF PostFlag, Typed, nimble, main
<1>5. CASE RelayEnds
  BY <1>5, CommandTypes DEF RelayEnds, NoRelay, Typed, nimble, main, result
<1> QED BY <1>1, <1>2, <1>3, <1>4, <1>5 DEF Relay

LEMMA TypeNext == TypeOK /\ DrainingWhole /\ [Next]_vars => TypeOK'
<1>1. CASE UNCHANGED vars
  BY <1>1, TypedIs DEF vars, nimble, main, result, Typed
<1> QED BY <1>1, TypeCallbacks, TypeLoop, TypeRelay DEF Next
-----------------------------------------------------------------------------
(* The queue.                                                              *)

\* What queueing an event adds.
LEMMA QueuedIs ==
  ASSUME TypeOK, NEW type \in EventTypes, NEW c \in 1 .. MaxConnections,
         NEW command \in Commands, Queue(Event(type, c, command))
  PROVE  /\ Len(rx_queue) \in Nat /\ Len(rx_queue') = Len(rx_queue) + 1
         /\ DOMAIN rx_queue = 1 .. Len(rx_queue)
         /\ DOMAIN rx_queue' = 1 .. Len(rx_queue) + 1
         /\ rx_queue'[Len(rx_queue) + 1] = Event(type, c, command)
         /\ \A i \in DOMAIN rx_queue : i \in DOMAIN rx_queue' /\ rx_queue'[i] = rx_queue[i]
         /\ rx_queue' # <<>>
<1>1. Event(type, c, command) \in Events /\ rx_queue \in Seq(Events)
  BY TypedIs DEF Event, Events, Typed
<1>2. rx_queue' = Append(rx_queue, Event(type, c, command))
  BY DEF Queue
<1> QED BY <1>1, <1>2, AppendOf

LEMMA QueueConnect ==
  ASSUME TypeOK, QueueInv, Connect
  PROVE  QueueInv'
<1> USE TypedIs DEF QueueInv, Typed
<1>1. /\ rx_queue = <<>> /\ draining = <<>> /\ conn = 0 /\ connections \in Nat
      /\ connections' = connections + 1 /\ conn' = connections + 1
      /\ conn' \in 1 .. MaxConnections
      /\ ~advertising' /\ UNCHANGED <<draining, pc, boundaries>>
  BY DEF Connect, OneConnection, Waiting, main
<1>2. DOMAIN rx_queue' = {1} /\ rx_queue'[1] = Event("CONNECT", conn', NoCommand)
      /\ Len(rx_queue') = 1
  BY <1>1, CommandTypes, QueuedIs DEF Connect, EventTypes
<1>3. DOMAIN draining = {}
  BY <1>1
<1>4. DrainingWhole'
  BY <1>1 DEF DrainingWhole
<1>5. OneConnection'
  BY <1>1, <1>2, <1>3 DEF OneConnection, Event
<1>6. ConnectFirst'
  BY <1>1, <1>2, <1>3 DEF ConnectFirst
<1>7. DisconnectLast'
  BY <1>1, <1>2, <1>3 DEF DisconnectLast, Event
<1>8. BoundariesCounted'
  <2>1. ConnectWaits' /\ ~ConnectWaits
    BY <1>1, <1>2, <1>3 DEF ConnectWaits, Event
  <2>2. advertising
    BY DEF Connect
  <2> QED BY <1>1, <2>1, <2>2 DEF BoundariesCounted
<1> QED BY <1>4, <1>5, <1>6, <1>7, <1>8

LEMMA QueueDisconnect ==
  ASSUME TypeOK, QueueInv, Disconnect
  PROVE  QueueInv'
<1> USE TypedIs DEF QueueInv, Typed
<1>1. /\ conn \in 1 .. MaxConnections /\ conn = connections /\ ~advertising
      /\ conn' = 0 /\ UNCHANGED <<draining, pc, boundaries, connections, advertising>>
  BY DEF Disconnect, OnDisconnect, OneConnection, main
<1> DEFINE last == Len(rx_queue) + 1
<1>2. /\ Len(rx_queue) \in Nat /\ Len(rx_queue') = last /\ DOMAIN rx_queue' = 1 .. last
      /\ DOMAIN rx_queue = 1 .. Len(rx_queue)
      /\ rx_queue'[last] = Event("DISCONNECT", conn, NoCommand)
      /\ \A i \in DOMAIN rx_queue : i \in DOMAIN rx_queue' /\ rx_queue'[i] = rx_queue[i]
  BY <1>1, CommandTypes, QueuedIs DEF Disconnect, EventTypes
<1>3. \A i \in DOMAIN rx_queue' : i = last \/ (i \in DOMAIN rx_queue /\ rx_queue'[i] = rx_queue[i])
  BY <1>2
<1>4. rx_queue'[last].type = "DISCONNECT" /\ rx_queue'[last].conn = conn
  BY <1>2 DEF Event
<1>5. last \in DOMAIN rx_queue'
  BY <1>2
<1> HIDE DEF last
<1>6. DrainingWhole'
  BY <1>1 DEF DrainingWhole
<1>7. OneConnection'
  BY <1>1, <1>3, <1>4 DEF OneConnection
<1>8. ConnectFirst'
  BY <1>1, <1>3, <1>4 DEF ConnectFirst
<1>9. DisconnectLast'
  BY <1>1, <1>2, <1>3, <1>4, <1>5 DEF DisconnectLast
<1>10. BoundariesCounted'
  <2>1. ConnectWaits' <=> ConnectWaits
    BY <1>1, <1>2, <1>3, <1>4, <1>5 DEF ConnectWaits
  <2> QED BY <1>1, <2>1 DEF BoundariesCounted
<1> QED BY <1>6, <1>7, <1>8, <1>9, <1>10

LEMMA QueueWrite ==
  ASSUME TypeOK, QueueInv, NEW bytes \in Plaintexts, Write(bytes)
  PROVE  QueueInv'
<1> USE TypedIs DEF QueueInv, Typed
<1>1. /\ conn \in 1 .. MaxConnections /\ conn = connections /\ ~advertising
      /\ UNCHANGED <<draining, pc, boundaries, connections, conn, advertising>>
  BY DEF Write, OneConnection, main
<1> DEFINE last == Len(rx_queue) + 1
           event == Event("RX", conn, Command(frames', bytes))
<1>2. /\ Len(rx_queue) \in Nat /\ DOMAIN rx_queue' = 1 .. last
      /\ DOMAIN rx_queue = 1 .. Len(rx_queue)
      /\ rx_queue'[last] = event
      /\ \A i \in DOMAIN rx_queue : i \in DOMAIN rx_queue' /\ rx_queue'[i] = rx_queue[i]
  <2>1. frames' \in 0 .. MaxFrames
    BY DEF Write
  <2> QED BY <1>1, <2>1, CommandTypes, QueuedIs DEF Write, EventTypes
<1>3. \A i \in DOMAIN rx_queue' : i = last \/ (i \in DOMAIN rx_queue /\ rx_queue'[i] = rx_queue[i])
  BY <1>2
<1>4. rx_queue'[last].type = "RX" /\ rx_queue'[last].conn = conn
  BY <1>2 DEF Event
<1> HIDE DEF last, event
<1>6. DrainingWhole'
  BY <1>1 DEF DrainingWhole
<1>7. OneConnection'
  BY <1>1, <1>3, <1>4 DEF OneConnection
<1>8. ConnectFirst'
  BY <1>1, <1>3, <1>4 DEF ConnectFirst
<1>9. DisconnectLast'
  BY <1>1, <1>2, <1>3, <1>4 DEF DisconnectLast
<1>10. BoundariesCounted'
  <2>1. ConnectWaits' <=> ConnectWaits
    BY <1>1, <1>2, <1>3, <1>4 DEF ConnectWaits
  <2> QED BY <1>1, <2>1 DEF BoundariesCounted
<1> QED BY <1>6, <1>7, <1>8, <1>9, <1>10

LEMMA QueueSwap ==
  ASSUME TypeOK, QueueInv, SwapQueue
  PROVE  QueueInv'
<1> USE TypedIs DEF QueueInv, Typed
<1>1. /\ draining = <<>> /\ draining' = rx_queue /\ rx_queue' = <<>>
      /\ pc' = IF draining' = <<>> THEN "rest" ELSE "drain"
      /\ UNCHANGED <<boundaries, connections, conn, advertising>>
  BY DEF SwapQueue, Swapped, DrainingWhole
<1>2. DOMAIN draining = {} /\ DOMAIN rx_queue' = {}
  BY <1>1
<1>3. DrainingWhole'
  BY <1>1 DEF DrainingWhole
<1>4. OneConnection'
  BY <1>1 DEF OneConnection, Waiting
<1>5. ConnectFirst'
  BY <1>1, <1>2 DEF ConnectFirst
<1>6. DisconnectLast'
  BY <1>1, <1>2 DEF DisconnectLast
<1>7. BoundariesCounted'
  BY <1>1 DEF BoundariesCounted, ConnectWaits
<1> QED BY <1>3, <1>4, <1>5, <1>6, <1>7

\* The facts about draining that every step of the drain uses.
LEMMA HeadIs ==
  ASSUME TypeOK, QueueInv, NEW type \in EventTypes, Draining(type), Drained
  PROVE  /\ 1 \in DOMAIN draining /\ Len(draining) \in Nat /\ Len(draining) >= 1
         /\ DOMAIN draining = 1 .. Len(draining)
         /\ draining[1] = Head(draining) /\ draining[1].type = type
         /\ draining # <<>> /\ conn \in {0, connections} /\ ~advertising
         /\ draining[1].conn = connections
         /\ \A i \in DOMAIN draining : draining[i].type = "CONNECT" => i = 1
         /\ \A i \in DOMAIN rx_queue : rx_queue[i].type # "CONNECT"
<1>1. pc = "drain" /\ Head(draining).type = type
  BY DEF Draining
<1>2. draining # <<>> /\ 1 \in DOMAIN draining /\ Head(draining) = draining[1]
  BY <1>1, DrainedOf DEF QueueInv
<1>3. Len(draining) \in Nat /\ DOMAIN draining = 1 .. Len(draining)
  BY TypedIs DEF Typed
<1> QED BY <1>1, <1>2, <1>3 DEF QueueInv, OneConnection, ConnectFirst, Waiting

LEMMA QueueBoundary ==
  ASSUME TypeOK, QueueInv, NEW type \in {"CONNECT", "DISCONNECT"}, TransportBoundary(type)
  PROVE  QueueInv'
<1>1. Draining(type) /\ Drained /\ pc = "drain"
  BY DEF TransportBoundary, Draining
<1>2. /\ UNCHANGED <<conn, connections, rx_queue>>
      /\ boundaries' = boundaries + 1 /\ boundaries \in Nat
      /\ advertising' = (type = "DISCONNECT")
      /\ connections \in Nat
  BY <1>1, HeadIs, TypedIs DEF TransportBoundary, AdvertisingAfter, Typed, EventTypes
<1>3. DrainingWhole'
  BY <1>1, DrainedOf DEF DrainingWhole, QueueInv
<1>4. type = "DISCONNECT" =>
        conn = 0 /\ Len(draining) = 1 /\ rx_queue = <<>> /\ draining' = <<>> 
  BY <1>1, HeadIs, DrainedOf DEF QueueInv, DisconnectLast, EventTypes
<1>5. OneConnection'
  <2>1. conn' \in {0, connections'}
    BY <1>2 DEF QueueInv, OneConnection
  <2>2. advertising' => conn' = 0 /\ ~Waiting'
    BY <1>2, <1>4 DEF Waiting
  <2>3. \A i \in DOMAIN draining' : draining'[i].conn = connections'
    BY <1>1, <1>2, DrainedOf DEF QueueInv, OneConnection
  <2>4. \A i \in DOMAIN rx_queue' : rx_queue'[i].conn = connections'
    BY <1>2 DEF QueueInv, OneConnection
  <2> QED BY <2>1, <2>2, <2>3, <2>4 DEF OneConnection
<1>6. ConnectFirst'
  BY <1>1, <1>2, HeadIs, DrainedOf DEF ConnectFirst, QueueInv, EventTypes
<1>7. DisconnectLast'
  <2>1. \A i \in DOMAIN draining' : draining'[i].type = "DISCONNECT" =>
          conn' = 0 /\ i = Len(draining') /\ rx_queue' = <<>>
    BY <1>1, <1>2, HeadIs, DrainedOf DEF DisconnectLast, QueueInv, EventTypes
  <2>2. \A i \in DOMAIN rx_queue' : rx_queue'[i].type = "DISCONNECT" =>
          conn' = 0 /\ i = Len(rx_queue')
    BY <1>2 DEF DisconnectLast, QueueInv
  <2>3. ASSUME conn' = 0, ~advertising'
        PROVE  \/ \E i \in DOMAIN draining' : draining'[i].type = "DISCONNECT"
               \/ \E i \in DOMAIN rx_queue' : rx_queue'[i].type = "DISCONNECT"
    <3>1. type = "CONNECT" /\ conn = 0 /\ ~advertising
      BY <1>1, <1>2, <2>3, HeadIs DEF EventTypes
    <3>2. CASE \E i \in DOMAIN rx_queue : rx_queue[i].type = "DISCONNECT"
      BY <1>2, <3>2
    <3>3. ASSUME NEW i \in DOMAIN draining, draining[i].type = "DISCONNECT"
          PROVE  \E k \in DOMAIN draining' : draining'[k].type = "DISCONNECT"
      <4>1. i # 1
        BY <1>1, <3>1, <3>3, HeadIs DEF EventTypes
      <4> QED BY <1>1, <3>3, <4>1, DrainedOf DEF QueueInv
    <3> QED BY <3>1, <3>2, <3>3 DEF QueueInv, DisconnectLast
  <2> QED BY <2>1, <2>2, <2>3 DEF DisconnectLast
<1>8. BoundariesCounted'
  <2>1. ~ConnectWaits'
    BY <1>1, <1>2, HeadIs, DrainedOf DEF ConnectWaits, QueueInv, EventTypes
  <2>2. ConnectWaits <=> type = "CONNECT"
    BY <1>1, HeadIs DEF ConnectWaits, EventTypes
  <2>3. ~advertising /\ (advertising' <=> type = "DISCONNECT")
    BY <1>1, <1>2, HeadIs DEF EventTypes
  <2> QED BY <1>2, <2>1, <2>2, <2>3 DEF BoundariesCounted, QueueInv
<1> QED BY <1>3, <1>5, <1>6, <1>7, <1>8 DEF QueueInv

\* Whatever becomes of a frame, it leaves the queue alike.
LEMMA QueueFrame ==
  ASSUME TypeOK, QueueInv, Draining("RX"), Drained, UNCHANGED <<nimble, boundaries>>
  PROVE  QueueInv'
<1>1. pc = "drain" /\ UNCHANGED <<conn, connections, rx_queue, advertising, boundaries>>
  BY DEF Draining, nimble
<1>3. DrainingWhole'
  BY <1>1, DrainedOf DEF DrainingWhole, QueueInv
<1>5. OneConnection'
  BY <1>1, HeadIs, DrainedOf DEF OneConnection, QueueInv, Waiting, EventTypes
<1>6. ConnectFirst'
  BY <1>1, HeadIs, DrainedOf DEF ConnectFirst, QueueInv, EventTypes
<1>7. DisconnectLast'
  BY <1>1, HeadIs, DrainedOf DEF DisconnectLast, QueueInv, EventTypes
<1>8. BoundariesCounted'
  <2>1. ~ConnectWaits'
    BY <1>1, HeadIs, DrainedOf DEF ConnectWaits, QueueInv, EventTypes
  <2>2. ~ConnectWaits
    BY <1>1, HeadIs DEF ConnectWaits, EventTypes
  <2> QED BY <1>1, <2>1, <2>2 DEF BoundariesCounted, QueueInv
<1> QED BY <1>3, <1>5, <1>6, <1>7, <1>8 DEF QueueInv

LEMMA QueueKept ==
  ASSUME QueueInv, UNCHANGED <<nimble, draining, boundaries>>, pc' = "drain" <=> pc = "drain"
  PROVE  QueueInv'
BY DEF QueueInv, DrainingWhole, OneConnection, ConnectFirst, DisconnectLast,
  BoundariesCounted, ConnectWaits, Waiting, nimble

LEMMA QueueNext == TypeOK /\ QueueInv /\ [Next]_vars => QueueInv'
<1> SUFFICES ASSUME TypeOK, QueueInv, [Next]_vars PROVE QueueInv'
  OBVIOUS
<1>1. CASE LoopBegin \/ ReadRelayResult \/ LinkChanges \/ Relay \/ UNCHANGED vars
  <2>1. UNCHANGED <<nimble, draining, boundaries>> /\ (pc' = "drain" <=> pc = "drain")
    BY <1>1 DEF LoopBegin, ReadRelayResult, LinkChanges, Relay, Deliver, PostCommand, PostOk,
      PostFlag, RelayEnds, vars, main
  <2> QED BY <2>1, QueueKept
<1>2. CASE DropFrame \/ HandleCommand
  <2>1. Draining("RX") /\ Drained /\ UNCHANGED <<nimble, boundaries>>
    BY <1>2 DEF DropFrame, HandleCommand, HandleLocally, HandleBusy, HandleRelayed,
      HandleTaskFailed, Respond
  <2> QED BY <2>1, QueueFrame
<1> QED
  BY <1>1, <1>2, QueueConnect, QueueDisconnect, QueueWrite, QueueSwap, QueueBoundary
  DEF Next, Loop
-----------------------------------------------------------------------------
(* The order of frames.                                                    *)

\* An event is queued: a boundary, or the next frame.
LEMMA OrderQueue ==
  ASSUME TypeOK, FramesOrdered, NEW type \in EventTypes, NEW c \in 1 .. MaxConnections,
         NEW command \in Commands, Queue(Event(type, c, command)),
         UNCHANGED <<draining, handled>>,
         \/ type # "RX" /\ frames' = frames
         \/ type = "RX" /\ frames' = frames + 1 /\ command.frame = frames'
  PROVE  FramesOrdered'
<1> DEFINE last == Len(rx_queue) + 1
<1>1. /\ Len(rx_queue) \in Nat /\ DOMAIN rx_queue' = 1 .. last
      /\ DOMAIN rx_queue = 1 .. Len(rx_queue)
      /\ rx_queue'[last] = Event(type, c, command)
      /\ \A i \in DOMAIN rx_queue : i \in DOMAIN rx_queue' /\ rx_queue'[i] = rx_queue[i]
  BY QueuedIs
<1>2. \A i \in DOMAIN rx_queue' :
        \/ i = last
        \/ i \in DOMAIN rx_queue /\ i < last /\ rx_queue'[i] = rx_queue[i]
  BY <1>1
<1>3. IsFrame(rx_queue'[last]) =>
        frames' = frames + 1 /\ rx_queue'[last].command.frame = frames'
  BY <1>1 DEF Event, IsFrame
<1>4. frames \in Nat /\ frames' \in Nat /\ frames =< frames'
  BY TypedIs DEF Typed
<1>5. last \in Nat /\ \A i \in DOMAIN rx_queue' : i \in Nat /\ i =< last
  BY <1>1
<1> HIDE DEF last
<1>6. FramesIncrease(draining)' /\ FramesAreNew(draining)'
  BY <1>4 DEF FramesOrdered, FramesIncrease, FramesAreNew
<1>7. FramesIncrease(rx_queue)'
  BY <1>2, <1>3, <1>4, <1>5 DEF FramesOrdered, FramesIncrease, FramesAreNew
<1>8. FramesAreNew(rx_queue)'
  BY <1>2, <1>3, <1>4 DEF FramesOrdered, FramesAreNew
<1>9. \A i \in DOMAIN draining', j \in DOMAIN rx_queue' :
        IsFrame(draining'[i]) /\ IsFrame(rx_queue'[j]) =>
          draining'[i].command.frame < rx_queue'[j].command.frame
  BY <1>2, <1>3, <1>4 DEF FramesOrdered, FramesAreNew
<1>10. (\A i \in DOMAIN handled' : handled'[i].frame \in 0 .. frames') /\ InOrder(handled)'
  BY <1>4 DEF FramesOrdered, InOrder
<1> QED BY <1>6, <1>7, <1>8, <1>9, <1>10 DEF FramesOrdered

LEMMA OrderCallbacks ==
  ASSUME TypeOK, FramesOrdered, Connect \/ Disconnect \/ \E bytes \in Plaintexts : Write(bytes)
  PROVE  FramesOrdered'
<1> USE TypedIs DEF Typed
<1>1. CASE Connect
  <2>1. conn' \in 1 .. MaxConnections
    BY <1>1 DEF Connect
  <2> QED BY <1>1, <2>1, CommandTypes, OrderQueue DEF Connect, EventTypes, main
<1>2. CASE Disconnect
  <2>1. conn \in 1 .. MaxConnections
    BY <1>2 DEF Disconnect
  <2> QED BY <1>2, <2>1, CommandTypes, OrderQueue DEF Disconnect, EventTypes, main
<1>3. ASSUME NEW bytes \in Plaintexts, Write(bytes)
      PROVE  FramesOrdered'
  <2>1. conn \in 1 .. MaxConnections /\ frames' \in 0 .. MaxFrames /\ frames' = frames + 1
    BY <1>3 DEF Write
  <2>2. Command(frames', bytes) \in Commands /\ Command(frames', bytes).frame = frames'
    BY <2>1, CommandTypes DEF Command
  <2> QED BY <1>3, <2>1, <2>2, OrderQueue DEF Write, EventTypes, main
<1> QED BY <1>1, <1>2, <1>3

LEMMA OrderSwap ==
  ASSUME QueueInv, FramesOrdered, SwapQueue
  PROVE  FramesOrdered'
<1>1. /\ draining' = rx_queue /\ rx_queue' = <<>> /\ UNCHANGED <<handled, frames>>
  BY DEF SwapQueue, Swapped
<1>2. DOMAIN rx_queue' = {}
  BY <1>1
<1> QED BY <1>1, <1>2 DEF FramesOrdered, FramesIncrease, FramesAreNew, InOrder

\* An event is drained, and does not lead to a command.
LEMMA OrderDrained ==
  ASSUME TypeOK, QueueInv, FramesOrdered, pc = "drain", Drained,
         UNCHANGED <<rx_queue, handled, frames>>
  PROVE  FramesOrdered'
<1>1. \A i \in DOMAIN draining' :
        i \in Int /\ i + 1 \in DOMAIN draining /\ draining'[i] = draining[i + 1]
  <2>1. draining' \in Seq(Events)
    BY DrainedOf DEF QueueInv
  <2> QED BY <2>1, DrainedOf DEF QueueInv
<1>2. FramesIncrease(draining)'
  BY <1>1 DEF FramesOrdered, FramesIncrease
<1>3. FramesAreNew(draining)'
  BY <1>1 DEF FramesOrdered, FramesAreNew
<1>4. \A i \in DOMAIN draining', j \in DOMAIN rx_queue' :
        IsFrame(draining'[i]) /\ IsFrame(rx_queue'[j]) =>
          draining'[i].command.frame < rx_queue'[j].command.frame
  BY <1>1 DEF FramesOrdered
<1> QED BY <1>2, <1>3, <1>4 DEF FramesOrdered, FramesIncrease, FramesAreNew, InOrder

\* A command is handled: it is newer than the handled ones and older than the queued.
LEMMA OrderHandled ==
  ASSUME TypeOK, QueueInv, FramesOrdered, Draining("RX"), Respond(Head(draining).command)
  PROVE  FramesOrdered'
<1> DEFINE command == Head(draining).command
           last == Len(handled) + 1
<1>1. pc = "drain" /\ Drained /\ UNCHANGED <<rx_queue, frames>>
  BY DEF Draining, Respond, nimble
<1>2. /\ 1 \in DOMAIN draining /\ draining[1] = Head(draining) /\ IsFrame(draining[1])
  BY <1>1, HeadIs DEF EventTypes, IsFrame
<1>3. /\ command \in Commands /\ command.frame \in 1 .. frames
      /\ \A j \in DOMAIN handled : handled[j].frame < command.frame
      /\ \A i \in DOMAIN draining :
           1 < i /\ IsFrame(draining[i]) => command.frame < draining[i].command.frame
      /\ \A i \in DOMAIN rx_queue :
           IsFrame(rx_queue[i]) => command.frame < rx_queue[i].command.frame
  <2>1. command \in Commands
    BY <1>1, DrainedOf DEF QueueInv, Events
  <2> QED BY <1>2, <2>1 DEF FramesOrdered, FramesIncrease, FramesAreNew
<1>4. /\ Len(handled) \in Nat /\ DOMAIN handled = 1 .. Len(handled)
      /\ DOMAIN handled' = 1 .. last /\ handled'[last] = command
      /\ \A i \in DOMAIN handled : handled'[i] = handled[i]
  <2>1. handled' = Append(handled, command) /\ handled \in Seq(Commands)
    BY TypedIs DEF Respond, Typed
  <2> QED BY <1>3, <2>1, AppendOf
<1>5. \A i \in DOMAIN handled' :
        \/ i = last
        \/ i \in DOMAIN handled /\ i < last /\ handled'[i] = handled[i]
  BY <1>4
<1>6. last \in Nat /\ \A i \in DOMAIN handled' : i \in Nat /\ i =< last
  BY <1>4
<1>7. handled'[last] = command
  BY <1>4
<1> HIDE DEF command, last
<1>8. \A i \in DOMAIN draining' :
        /\ i \in Nat /\ i + 1 \in DOMAIN draining /\ 1 < i + 1
        /\ draining'[i] = draining[i + 1]
  <2>1. draining' \in Seq(Events)
    BY <1>1, DrainedOf DEF QueueInv
  <2> QED BY <1>1, <2>1, DrainedOf DEF QueueInv
<1>9. FramesIncrease(draining)' /\ FramesIncrease(rx_queue)'
  BY <1>1, <1>8 DEF FramesOrdered, FramesIncrease
<1>10. FramesAreNew(draining)'
  BY <1>1, <1>3, <1>5, <1>7, <1>8 DEF FramesOrdered, FramesAreNew
<1>11. FramesAreNew(rx_queue)'
  BY <1>1, <1>3, <1>5, <1>7 DEF FramesOrdered, FramesAreNew
<1>12. \A i \in DOMAIN draining', j \in DOMAIN rx_queue' :
         IsFrame(draining'[i]) /\ IsFrame(rx_queue'[j]) =>
           draining'[i].command.frame < rx_queue'[j].command.frame
  BY <1>1, <1>8 DEF FramesOrdered
<1>13. (\A i \in DOMAIN handled' : handled'[i].frame \in 0 .. frames')
  BY <1>1, <1>3, <1>5, <1>7 DEF FramesOrdered
<1>14. InOrder(handled)'
  BY <1>3, <1>5, <1>6, <1>7 DEF FramesOrdered, InOrder
<1> QED BY <1>9, <1>10, <1>11, <1>12, <1>13, <1>14 DEF FramesOrdered

LEMMA OrderNext == TypeOK /\ QueueInv /\ FramesOrdered /\ [Next]_vars => FramesOrdered'
<1> SUFFICES ASSUME TypeOK, QueueInv, FramesOrdered, [Next]_vars PROVE FramesOrdered'
  OBVIOUS
<1>1. CASE LoopBegin \/ ReadRelayResult \/ LinkChanges \/ Relay \/ UNCHANGED vars
  <2>1. UNCHANGED <<rx_queue, draining, handled, frames>>
    BY <1>1 DEF LoopBegin, ReadRelayResult, LinkChanges, Relay, Deliver, PostCommand, PostOk,
      PostFlag, RelayEnds, vars, main, nimble
  <2> QED BY <2>1 DEF FramesOrdered, FramesIncrease, FramesAreNew, InOrder
<1>2. CASE DropFrame \/ \E type \in {"CONNECT", "DISCONNECT"} : TransportBoundary(type)
  <2>1. pc = "drain" /\ Drained /\ UNCHANGED <<rx_queue, handled, frames>>
    BY <1>2 DEF DropFrame, TransportBoundary, Draining, nimble
  <2> QED BY <2>1, OrderDrained
<1>3. CASE HandleCommand
  <2>1. Draining("RX") /\ Respond(Head(draining).command)
    BY <1>3 DEF HandleCommand, HandleLocally, HandleBusy, HandleRelayed, HandleTaskFailed
  <2> QED BY <2>1, OrderHandled
<1> QED BY <1>1, <1>2, <1>3, OrderCallbacks, OrderSwap DEF Next, Loop
-----------------------------------------------------------------------------
(* Commands: the state they lead to, and their relay.                      *)

\* What handling the command at the head does to the log.
LEMMA HandledIs ==
  ASSUME TypeOK, QueueInv, FramesOrdered, Draining("RX"), Respond(Head(draining).command)
  PROVE  LET command == Head(draining).command
             last == Len(handled) + 1 IN
         /\ Len(handled) \in Nat /\ DOMAIN handled = 1 .. Len(handled)
         /\ Len(handled') = last /\ DOMAIN handled' = 1 .. last /\ handled'[last] = command
         /\ \A i \in DOMAIN handled : i \in DOMAIN handled' /\ handled'[i] = handled[i]
         /\ \A j \in DOMAIN handled : handled[j].frame < command.frame
         /\ command \in Commands
<1> DEFINE command == Head(draining).command
<1>1. pc = "drain" /\ Drained
  BY DEF Draining, Respond
<1>2. /\ 1 \in DOMAIN draining /\ draining[1] = Head(draining) /\ IsFrame(draining[1])
  BY <1>1, HeadIs DEF EventTypes, IsFrame
<1>3. \A j \in DOMAIN handled : handled[j].frame < command.frame
  BY <1>2 DEF FramesOrdered, FramesAreNew
<1>4. command \in Commands
  BY <1>1, DrainedOf DEF QueueInv, Events
<1>5. handled' = Append(handled, command) /\ handled \in Seq(Commands)
  BY TypedIs DEF Respond, Typed
<1> HIDE DEF command
<1>6. /\ Len(handled) \in Nat /\ DOMAIN handled = 1 .. Len(handled)
      /\ Len(handled') = Len(handled) + 1 /\ DOMAIN handled' = 1 .. Len(handled) + 1
      /\ handled'[Len(handled) + 1] = command
      /\ \A i \in DOMAIN handled : i \in DOMAIN handled' /\ handled'[i] = handled[i]
  BY <1>4, <1>5, AppendOf
<1> QED BY <1>3, <1>4, <1>6 DEF command

LEMMA StateHandled ==
  ASSUME TypeOK, QueueInv, FramesOrdered, StateInv,
         Draining("RX"), Respond(Head(draining).command)
  PROVE  StateInv'
<1> PICK command \in Commands, last \in Nat :
      command = Head(draining).command /\ last = Len(handled) + 1
  BY HandledIs
<1>1. /\ lock_state' = StateAfter(Type(command.bytes))
      /\ reply'.says = Says(Type(command.bytes), lock_state')
  BY DEF Respond
<1>2. /\ Len(handled) \in Nat /\ DOMAIN handled = 1 .. Len(handled)
      /\ Len(handled') = last /\ DOMAIN handled' = 1 .. last /\ handled'[last] = command
      /\ \A i \in DOMAIN handled : i \in DOMAIN handled' /\ handled'[i] = handled[i]
  BY HandledIs
<1>3. reply'.says \in Positions => reply'.says = lock_state'
  BY <1>1 DEF Says, Positions
<1>4. last \in DOMAIN handled' /\ (Action(last)' <=> IsAction(Type(command.bytes)))
  BY <1>2 DEF Action
<1>5. \A i \in DOMAIN handled : Action(i)' <=> Action(i)
  BY <1>2 DEF Action
<1>6. CASE IsAction(Type(command.bytes))
  <2>1. lock_state' = Position(Type(handled'[last].bytes))
    BY <1>1, <1>2, <1>6 DEF StateAfter
  <2>2. LastAction(last)'
    <3>1. last + 1 .. Len(handled') = {}
      BY <1>2
    <3> QED BY <1>4, <1>6, <3>1 DEF LastAction
  <2> QED BY <1>3, <1>4, <2>1, <2>2 DEF StateInv
<1>7. CASE ~IsAction(Type(command.bytes))
  <2>1. lock_state' = lock_state
    BY <1>1, <1>7 DEF StateAfter
  <2>2. \A i \in DOMAIN handled' : i = last \/ i \in DOMAIN handled
    BY <1>2
  <2>3. CASE lock_state = "LOCKED" /\ \A i \in DOMAIN handled : ~Action(i)
    BY <1>3, <1>4, <1>5, <1>7, <2>1, <2>2, <2>3 DEF StateInv
  <2>4. ASSUME NEW i \in DOMAIN handled, LastAction(i),
               lock_state = Position(Type(handled[i].bytes))
        PROVE  StateInv'
    <3>1. \A j \in i + 1 .. Len(handled') : j = last \/ j \in i + 1 .. Len(handled)
      BY <1>2
    <3>2. \A j \in i + 1 .. Len(handled) : j \in DOMAIN handled
      BY <1>2
    <3>3. LastAction(i)'
      BY <1>4, <1>5, <1>7, <2>4, <3>1, <3>2 DEF LastAction
    <3> QED BY <1>2, <1>3, <2>1, <2>4, <3>3 DEF StateInv
  <2> QED BY <2>3, <2>4 DEF StateInv
<1> QED BY <1>6, <1>7

LEMMA StateNext == TypeOK /\ QueueInv /\ FramesOrdered /\ StateInv /\ [Next]_vars => StateInv'
<1> SUFFICES ASSUME TypeOK, QueueInv, FramesOrdered, StateInv, [Next]_vars PROVE StateInv'
  OBVIOUS
<1>1. CASE HandleCommand
  <2>1. Draining("RX") /\ Respond(Head(draining).command)
    BY <1>1 DEF HandleCommand, HandleLocally, HandleBusy, HandleRelayed, HandleTaskFailed
  <2> QED BY <2>1, StateHandled
<1>2. CASE ~HandleCommand
  <2>1. UNCHANGED <<lock_state, handled, reply>>
    BY <1>2 DEF Next, Loop, Connect, Disconnect, Write, LoopBegin, ReadRelayResult, SwapQueue,
      TransportBoundary, DropFrame, LinkChanges, Relay, Deliver, PostCommand, PostOk,
      PostFlag, RelayEnds, vars, main
  <2> QED BY <2>1 DEF StateInv, LastAction, Action
<1> QED BY <1>1, <1>2

LEMMA ReplyNext == TypeOK /\ QueueInv /\ ReplyReachesSender /\ [Next]_vars => ReplyReachesSender'
<1> SUFFICES ASSUME TypeOK, QueueInv, ReplyReachesSender, [Next]_vars
             PROVE  ReplyReachesSender'
  OBVIOUS
<1>1. CASE HandleCommand
  <2>1. Draining("RX") /\ Respond(Head(draining).command)
    BY <1>1 DEF HandleCommand, HandleLocally, HandleBusy, HandleRelayed, HandleTaskFailed
  <2>2. Drained /\ reply'.heard = conn /\ reply'.conn = Head(draining).conn
    BY <2>1 DEF Respond
  <2>3. conn \in {0, connections} /\ Head(draining).conn = connections
    BY <2>1, <2>2, HeadIs DEF EventTypes
  <2> QED BY <2>2, <2>3 DEF ReplyReachesSender
<1>2. CASE ~HandleCommand
  <2>1. UNCHANGED reply
    BY <1>2 DEF Next, Loop, Connect, Disconnect, Write, LoopBegin, ReadRelayResult, SwapQueue,
      TransportBoundary, DropFrame, LinkChanges, Relay, Deliver, PostCommand, PostOk,
      PostFlag, RelayEnds, vars, main
  <2> QED BY <2>1 DEF ReplyReachesSender
<1> QED BY <1>1, <1>2

\* A handled command is newer than all that was delivered.
LEMMA RelayHandled ==
  ASSUME TypeOK, QueueInv, FramesOrdered, RelayInv, HandleCommand
  PROVE  RelayInv'
<1>1. Draining("RX") /\ Respond(Head(draining).command)
  BY DEF HandleCommand, HandleLocally, HandleBusy, HandleRelayed, HandleTaskFailed
<1> PICK command \in Commands : command = Head(draining).command
  BY <1>1, HandledIs
<1>2. UNCHANGED delivered
  BY <1>1 DEF Respond
<1>3. /\ \A i \in DOMAIN handled : i \in DOMAIN handled' /\ handled'[i] = handled[i]
      /\ \A j \in DOMAIN handled : handled[j].frame < command.frame
      /\ Len(handled) + 1 \in DOMAIN handled' /\ handled'[Len(handled) + 1] = command
  BY <1>1, HandledIs
<1>4. \/ relay_busy' = relay_busy /\ relay' = relay
      \/ relay_busy' = TRUE /\ relay' = [pc |-> "send", command |-> command]
      \/ ~relay_busy /\ relay_busy' = FALSE /\ relay' = relay
  BY DEF HandleCommand, HandleLocally, HandleBusy, HandleRelayed, HandleTaskFailed,
    BusyAfterFailure
<1>5. ASSUME NEW c, Handled(c)
      PROVE  Handled(c)' /\ c.frame < command.frame
  BY <1>3, <1>5 DEF Handled
<1>6. Handled(command)'
  BY <1>3 DEF Handled
<1>7. (\A i \in DOMAIN delivered : Handled(delivered[i]))' /\ InOrder(delivered)'
  BY <1>2, <1>5 DEF RelayInv, InOrder
<1>8. CASE relay' = relay
  <2>1. relay_busy' <=> relay'.pc # "none"
    BY <1>4, <1>8, TypedIs DEF RelayInv, Typed
  <2> QED BY <1>2, <1>5, <1>7, <1>8, <2>1 DEF RelayInv
<1>9. CASE relay_busy' = TRUE /\ relay' = [pc |-> "send", command |-> command]
  <2>1. \A i \in DOMAIN delivered' : delivered'[i].frame < command.frame
    BY <1>2, <1>5 DEF RelayInv
  <2> QED BY <1>6, <1>7, <1>9, <2>1 DEF RelayInv
<1> QED BY <1>4, <1>8, <1>9

LEMMA RelayTask ==
  ASSUME TypeOK, RelayInv, Relay
  PROVE  RelayInv'
<1>1. UNCHANGED handled /\ \A c : Handled(c)' <=> Handled(c)
  BY DEF Relay, Deliver, PostCommand, PostOk, PostFlag, RelayEnds, main, Handled
<1>2. CASE Deliver
  <2> DEFINE last == Len(delivered) + 1
  <2>1. /\ relay.pc = "send" /\ relay'.pc = "sent" /\ relay'.command = relay.command
        /\ UNCHANGED relay_busy
    BY <1>2, TypedIs DEF Deliver, Typed
  <2>2. /\ Len(delivered) \in Nat /\ DOMAIN delivered = 1 .. Len(delivered)
        /\ DOMAIN delivered' = 1 .. last /\ delivered'[last] = relay.command
        /\ \A i \in DOMAIN delivered : delivered'[i] = delivered[i]
    <3>1. /\ delivered' = Append(delivered, relay.command) /\ delivered \in Seq(Commands)
          /\ relay.command \in Commands
      BY <1>2, TypedIs DEF Deliver, Payload, Typed
    <3> QED BY <3>1, AppendOf
  <2>3. \A i \in DOMAIN delivered' :
          \/ i = last
          \/ i \in DOMAIN delivered /\ i < last /\ delivered'[i] = delivered[i]
    BY <2>2
  <2>4. last \in Nat /\ (\A i \in DOMAIN delivered' : i \in Nat /\ i =< last)
        /\ delivered'[last] = relay.command
    BY <2>2
  <2> HIDE DEF last
  <2>5. InOrder(delivered)'
    BY <2>1, <2>3, <2>4 DEF RelayInv, InOrder
  <2>6. (\A i \in DOMAIN delivered : Handled(delivered[i]))'
    BY <1>1, <2>1, <2>3, <2>4 DEF RelayInv
  <2> QED BY <1>1, <2>1, <2>5, <2>6 DEF RelayInv
<1>3. CASE PostCommand \/ PostOk \/ PostFlag
  <2>1. /\ relay.pc # "none" /\ relay'.pc \notin {"none", "send"} /\ relay'.command = relay.command
        /\ UNCHANGED <<relay_busy, delivered>>
    BY <1>3, TypedIs DEF PostCommand, PostOk, PostFlag, Typed
  <2> QED BY <1>1, <2>1 DEF RelayInv, InOrder
<1>4. CASE RelayEnds
  <2>1. relay'.pc = "none" /\ relay_busy' = FALSE /\ UNCHANGED delivered
    BY <1>4 DEF RelayEnds, NoRelay
  <2> QED BY <1>1, <2>1 DEF RelayInv, InOrder
<1> QED BY <1>2, <1>3, <1>4 DEF Relay

LEMMA RelayNext == TypeOK /\ QueueInv /\ FramesOrdered /\ RelayInv /\ [Next]_vars => RelayInv'
<1> SUFFICES ASSUME TypeOK, QueueInv, FramesOrdered, RelayInv, [Next]_vars PROVE RelayInv'
  OBVIOUS
<1>1. CASE ~HandleCommand /\ ~Relay
  <2>1. UNCHANGED <<relay, relay_busy, delivered, handled>>
    BY <1>1 DEF Next, Loop, Connect, Disconnect, Write, LoopBegin, ReadRelayResult, SwapQueue,
      TransportBoundary, DropFrame, LinkChanges, vars, main
  <2> QED BY <2>1 DEF RelayInv, Handled, InOrder
<1> QED BY <1>1, RelayHandled, RelayTask
-----------------------------------------------------------------------------
(* Theorems.                                                               *)

LEMMA IInvInit == Init => IInv
<1> SUFFICES ASSUME Init PROVE IInv
  OBVIOUS
<1>1. DOMAIN draining = {} /\ DOMAIN rx_queue = {} /\ DOMAIN handled = {} /\ DOMAIN delivered = {}
  BY DEF Init
<1>2. QueueInv
  BY <1>1 DEF Init, QueueInv, DrainingWhole, OneConnection, ConnectFirst, DisconnectLast,
    BoundariesCounted, ConnectWaits, Waiting
<1>3. FramesOrdered
  BY <1>1 DEF FramesOrdered, FramesIncrease, FramesAreNew, InOrder
<1>4. RelayInv
  BY <1>1 DEF Init, RelayInv, NoRelay, InOrder
<1>5. StateInv /\ ReplyReachesSender
  BY <1>1 DEF Init, StateInv, NoReply, Positions, ReplyReachesSender
<1> QED BY <1>2, <1>3, <1>4, <1>5, TypeInit DEF IInv

LEMMA IInvNext == IInv /\ [Next]_vars => IInv'
<1> SUFFICES ASSUME IInv, [Next]_vars PROVE IInv'
  OBVIOUS
<1>1. TypeOK'
  BY TypeNext DEF IInv, QueueInv
<1>2. QueueInv'
  BY QueueNext DEF IInv
<1>3. FramesOrdered'
  BY OrderNext DEF IInv
<1>4. RelayInv'
  BY RelayNext DEF IInv
<1>5. StateInv' /\ ReplyReachesSender'
  BY StateNext, ReplyNext DEF IInv
<1> QED BY <1>1, <1>2, <1>3, <1>4, <1>5 DEF IInv

\* The inductive invariant holds in every behaviour.
THEOREM Invariance == Spec => []IInv
BY IInvInit, IInvNext, PTL DEF Spec

\* Every variable has its type, for any plaintexts and any number of connections and
\* frames.
THEOREM BridgeTypeCorrect == Spec => []TypeOK
<1>1. IInv => TypeOK
  BY DEF IInv
<1> QED BY <1>1, Invariance, PTL

\* The boundaries drained before a frame: the CONNECT of its connection, or none when it
\* was drained earlier.
LEMMA BoundariesBefore ==
  ASSUME IInv, NEW i \in DOMAIN draining, draining[i].type = "RX"
  PROVE  boundaries + Cardinality({j \in 1 .. i : draining[j].type # "RX"})
           = 2 * draining[i].conn - 1
<1> DEFINE before == {j \in 1 .. i : draining[j].type # "RX"}
<1>1. /\ draining \in Seq(Events) /\ DOMAIN draining = 1 .. Len(draining)
      /\ Len(draining) \in Nat /\ i \in 1 .. Len(draining)
      /\ boundaries \in Nat /\ connections \in Nat
  BY TypedIs DEF IInv, Typed
<1>2. draining # <<>> /\ ~advertising /\ draining[i].conn = connections
  BY <1>1 DEF IInv, QueueInv, OneConnection, Waiting
<1>3. \A j \in DOMAIN draining : draining[j].type = "DISCONNECT" => j = Len(draining)
  BY DEF IInv, QueueInv, DisconnectLast
<1>4. \A j \in DOMAIN draining : draining[j].type = "CONNECT" => j = 1
  BY DEF IInv, QueueInv, ConnectFirst
<1>5. \A j \in before : j = 1 /\ draining[j].type = "CONNECT"
  <2> SUFFICES ASSUME NEW j \in before PROVE j = 1 /\ draining[j].type = "CONNECT"
    OBVIOUS
  <2>1. j \in DOMAIN draining /\ j =< i /\ draining[j].type # "RX"
    BY <1>1
  <2>2. draining[j].type \in EventTypes
    <3>1. draining[j] \in Events
      BY <1>1, <2>1
    <3> QED BY <3>1 DEF Events
  <2>3. draining[j].type # "DISCONNECT"
    BY <1>1, <1>3, <2>1
  <2> QED BY <1>4, <2>1, <2>2, <2>3 DEF EventTypes
<1>6. ConnectWaits <=> draining[1].type = "CONNECT"
  BY <1>1, <1>2, <1>4 DEF IInv, QueueInv, ConnectFirst, ConnectWaits
<1>7. boundaries + (IF ConnectWaits THEN 1 ELSE 0) + 1 = 2 * connections
  BY <1>2 DEF IInv, QueueInv, BoundariesCounted
<1>8. CASE ConnectWaits
  <2>1. 1 \in before
    BY <1>1, <1>6, <1>8
  <2>2. before = {1}
    BY <1>5, <2>1
  <2>3. Cardinality(before) = 1
    BY <2>2, FS_Singleton
  <2> QED BY <1>1, <1>2, <1>7, <1>8, <2>3
<1>9. CASE ~ConnectWaits
  <2>1. before = {}
    BY <1>5, <1>6, <1>9
  <2>2. Cardinality(before) = 0
    BY <2>1, FS_EmptySet
  <2> QED BY <1>1, <1>2, <1>7, <1>9, <2>2
<1> QED BY <1>8, <1>9

\* switchbot_keypad_bridge.cpp:253-272: a frame is fed to the session between the
\* boundaries of its connection, however many connections there were.
THEOREM FramesStayInTheirConnection == Spec => []FramesBetweenBoundaries
<1>1. IInv => FramesBetweenBoundaries
  BY BoundariesBefore DEF FramesBetweenBoundaries
<1> QED BY <1>1, Invariance, PTL

\* switchbot_keypad_bridge.cpp:266-268: a response is never notified to a connection
\* other than the one whose frame it answers.
THEOREM RepliesReachTheirSender == Spec => []ReplyReachesSender
<1>1. IInv => ReplyReachesSender
  BY DEF IInv
<1> QED BY <1>1, Invariance, PTL

\* switchbot_keypad_bridge.cpp:617-622: a state poll is answered with the last action.
THEOREM PollsTellTheLastAction == Spec => []PollTellsLastAction
<1>1. IInv => PollTellsLastAction
  BY DEF IInv, StateInv, PollTellsLastAction
<1> QED BY <1>1, Invariance, PTL

\* switchbot_keypad_bridge.cpp:253-272 and 655-667: what reaches the physical lock is a
\* subsequence of the handled commands, which are a subsequence of the frames received.
THEOREM LockSeesASubsequence == Spec => []LockFollowsKeypad
<1>1. IInv => LockFollowsKeypad
  <2> SUFFICES ASSUME IInv PROVE LockFollowsKeypad
    OBVIOUS
  <2>1. \A i \in DOMAIN delivered : \E j \in DOMAIN handled : delivered[i] = handled[j]
    BY DEF IInv, RelayInv, Handled
  <2> QED BY <2>1 DEF IInv, FramesOrdered, RelayInv, LockFollowsKeypad
<1> QED BY <1>1, Invariance, PTL

-----------------------------------------------------------------------------
(* What a frame asks for.                                                  *)

Meanings(bytes) ==
  {type \in Types :
     \/ type = "LOCK" /\ IsLockFrame(bytes)
     \/ type = "STATE_POLL" /\ IsStatePoll(bytes)
     \/ type = "DOORBELL" /\ IsDoorbell(bytes)
     \/ type = "UNLOCK" /\ IsUnlockFrame(bytes)}

Frames == Seq(Byte)

\* A lock frame is as long as an unlock frame and begins like one: only the marker byte,
\* 0 in a lock frame, tells them apart.
LEMMA LockIsNotUnlock ==
  ASSUME NEW bytes \in Frames, IsLockFrame(bytes)
  PROVE  Len(bytes) = 8 /\ ~IsUnlockFrame(bytes)
<1>1. Len(bytes) = 8 /\ bytes[6] = 0
  BY DEF IsLockFrame, FrameLock
<1> QED BY <1>1 DEF IsUnlockFrame, UnlockMarkerAt, UnlockMarker

LEMMA FrameLengths ==
  ASSUME NEW bytes \in Frames
  PROVE  /\ Len(bytes) \in Nat
         /\ IsStatePoll(bytes) => Len(bytes) = 4
         /\ IsDoorbell(bytes) => Len(bytes) = 2
         /\ IsUnlockFrame(bytes) => Len(bytes) >= 8
BY DEF Frames, IsStatePoll, IsDoorbell, FrameDoorbell, IsUnlockFrame

LEMMA OneMeaning ==
  ASSUME NEW bytes \in Frames
  PROVE  /\ IsLockFrame(bytes) =>
              ~IsStatePoll(bytes) /\ ~IsDoorbell(bytes) /\ ~IsUnlockFrame(bytes)
         /\ IsStatePoll(bytes) => ~IsDoorbell(bytes) /\ ~IsUnlockFrame(bytes)
         /\ IsDoorbell(bytes) => ~IsUnlockFrame(bytes)
<1>1. IsLockFrame(bytes) => ~IsStatePoll(bytes) /\ ~IsDoorbell(bytes)
  BY DEF IsLockFrame, FrameLock, IsStatePoll, IsDoorbell, FrameDoorbell
<1>2. IsStatePoll(bytes) => ~IsDoorbell(bytes) /\ ~IsUnlockFrame(bytes)
  BY DEF Frames, IsStatePoll, IsDoorbell, FrameDoorbell, IsUnlockFrame
<1>3. IsDoorbell(bytes) => ~IsUnlockFrame(bytes)
  BY DEF IsDoorbell, FrameDoorbell, IsUnlockFrame
<1> QED BY <1>1, <1>2, <1>3, LockIsNotUnlock

\* lock_protocol.cpp:47-62: no frame has two meanings, so the order of the tests in
\* decode_lock_command does not matter, and every frame with a meaning is given it.
THEOREM DecodingUnambiguous ==
  ASSUME NEW bytes \in Frames
  PROVE  Meanings(bytes) = IF Type(bytes) = "UNKNOWN" THEN {} ELSE {Type(bytes)}
BY OneMeaning DEF Meanings, Type, Types

\* lock_protocol.cpp:61-73: the bytes that an unlock frame is decoded from lie within it,
\* the index is a byte less its bias, never the -1 that says there is none, and only an
\* unlock frame has a method and an index.
THEOREM DecodedIsTyped ==
  ASSUME NEW bytes \in Frames
  PROVE  /\ Decode(bytes).type \in Types
         /\ Decode(bytes).method \in Byte
         /\ Decode(bytes).credential_index \in -1 .. 245
         /\ Decode(bytes).credential_index = -1 <=> ~IsUnlockFrame(bytes)
<1>1. Type(bytes) = "UNLOCK" <=> IsUnlockFrame(bytes)
  BY OneMeaning DEF Type
<1>2. Type(bytes) \in Types
  BY DEF Type, Types
<1>3. CASE IsUnlockFrame(bytes)
  <2>1. bytes[UnlockMethodAt] \in Byte /\ bytes[UnlockIndexAt] \in Byte
    BY <1>3, FrameLengths DEF Frames, UnlockMethodAt, UnlockIndexAt
  <2>2. \A byte \in 0 .. 255 : Unbiased(byte) \in 0 .. 245
    BY DEF Unbiased, UnlockIndexBase
  <2>3. Unbiased(bytes[UnlockIndexAt]) \in 0 .. 245
    BY <2>1, <2>2 DEF Byte
  <2>4. Decode(bytes) = [type |-> "UNLOCK", method |-> bytes[UnlockMethodAt],
                         credential_index |-> Unbiased(bytes[UnlockIndexAt])]
    BY <1>1, <1>3 DEF Decode
  <2>5. /\ Decode(bytes).type = "UNLOCK" /\ Decode(bytes).method = bytes[UnlockMethodAt]
        /\ Decode(bytes).credential_index = Unbiased(bytes[UnlockIndexAt])
    BY <2>4
  <2>6. PICK index \in 0 .. 245 : index = Unbiased(bytes[UnlockIndexAt])
    BY <2>3
  <2>7. /\ Decode(bytes).credential_index \in -1 .. 245
        /\ Decode(bytes).credential_index # -1
    <3>1. index \in -1 .. 245 /\ index # -1
      OBVIOUS
    <3>2. Decode(bytes).credential_index = index
      BY <2>5, <2>6
    <3> QED BY <3>1, <3>2
  <2>8. Decode(bytes).type \in Types /\ Decode(bytes).method \in Byte
    BY <2>1, <2>5 DEF Types
  <2> QED BY <1>3, <2>7, <2>8
<1>4. CASE ~IsUnlockFrame(bytes)
  BY <1>1, <1>2, <1>4 DEF Decode, Byte
<1> QED BY <1>3, <1>4
=============================================================================
