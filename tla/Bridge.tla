------------------------------- MODULE Bridge -------------------------------
(***************************************************************************)
(* The running bridge (switchbot_keypad_bridge.cpp): BLE callbacks queue   *)
(* connection events and frames, the main loop drains the queue through    *)
(* the session, acts on each command, answers the keypad, and hands        *)
(* side-effecting commands to a one-shot task that relays them to the      *)
(* linked physical lock.                                                   *)
(*                                                                         *)
(* Three tasks: NimBLE (Connect, Disconnect, Write), the main loop, and    *)
(* the relay task.  What the session makes of a frame is any of its three  *)
(* outcomes; LockSession says which, and LockProtocol what its bytes ask   *)
(* for.  A frame is numbered on arrival.                                   *)
(***************************************************************************)
EXTENDS LockProtocol, FiniteSets

CONSTANTS
  Plaintexts,                  \* what keypads send, decrypted
  MaxConnections, MaxFrames    \* bounds of the model

ASSUME PlaintextsAssumption == Plaintexts \subseteq Seq(Byte)
ASSUME BoundsAssumption == MaxConnections \in Nat /\ MaxFrames \in Nat

Positions == {"LOCKED", "UNLOCKED"}
Position(type) == IF type = "LOCK" THEN "LOCKED" ELSE "UNLOCKED"
IsAction(type) == type \in {"LOCK", "UNLOCK"}

NoFrame == 0
Command(frame, bytes) == [frame |-> frame, bytes |-> bytes]
NoCommand == Command(NoFrame, <<>>)
Commands == [frame : 0 .. MaxFrames, bytes : Plaintexts \cup {<<>>}]

VARIABLES
  conn,            \* the keypad's connection, 0 when there is none
  advertising,     \* the bridge is connectable
  rx_queue,        \* rx_queue_: events queued by the NimBLE task
  draining,        \* loop(): the queue it swapped out
  pc,              \* where the main loop is
  plaintext,       \* session_: the command decrypted last, none after a drop
  lock_state,      \* lock_state_
  lock_linked,     \* lock_linked_
  relay_busy,      \* lock_relay_busy_
  relay,           \* the relay task: where it is, and its RelayCtx
  relay_result,    \* relay_command_, relay_ok_ (the relay that wrote each)
  pending_relay_apply,
  connections, frames,  \* history: connections made, frames received
  boundaries,      \* history: calls of session_.reset_transport()
  handled,         \* history: commands handled, in order
  reply,           \* history: the last local response, and who could hear it
  delivered        \* history: payloads that reached the physical lock

nimble == <<conn, advertising, rx_queue, connections, frames>>
main == <<draining, pc, plaintext, lock_state, boundaries, handled, reply>>
result == <<relay_result, pending_relay_apply>>
vars == <<nimble, main, lock_linked, relay_busy, relay, result, delivered>>

NoRelay == [pc |-> "none", command |-> NoCommand]
NoReply == [to |-> NoCommand, conn |-> 0, heard |-> 0, says |-> "none"]

Init ==
  /\ conn = 0 /\ advertising = TRUE /\ rx_queue = <<>>
  /\ draining = <<>> /\ pc = "rest" /\ plaintext = NoCommand
  /\ lock_state = "LOCKED" /\ lock_linked \in BOOLEAN
  /\ relay_busy = FALSE /\ relay = NoRelay
  /\ relay_result = [command |-> NoFrame, ok |-> NoFrame]
  /\ pending_relay_apply = FALSE
  /\ connections = 0 /\ frames = 0
  /\ boundaries = 0 /\ handled = <<>> /\ reply = NoReply /\ delivered = <<>>

Event(type, c, command) == [type |-> type, conn |-> c, command |-> command]
Queue(event) == rx_queue' = Append(rx_queue, event)

-----------------------------------------------------------------------------
(* The NimBLE task: it only queues.                                        *)

\* Connecting ends the advertising.
Connect ==
  /\ advertising /\ conn = 0
  /\ connections < MaxConnections
  /\ connections' = connections + 1 /\ conn' = connections'
  /\ advertising' = FALSE
  /\ Queue(Event("CONNECT", conn', NoCommand))
  /\ UNCHANGED <<main, lock_linked, relay_busy, relay, result, delivered, frames>>

\* The callback itself does not advertise again: loop() does.
OnDisconnect_Advertise == TRUE
OnDisconnect == advertising

Disconnect ==
  /\ conn # 0
  /\ conn' = 0
  /\ advertising' = OnDisconnect
  /\ Queue(Event("DISCONNECT", conn, NoCommand))
  /\ UNCHANGED <<main, lock_linked, relay_busy, relay, result, delivered,
                 connections, frames>>

\* onWrite of a frame that is not empty.
Write(bytes) ==
  /\ conn # 0
  /\ frames < MaxFrames
  /\ frames' = frames + 1
  /\ Queue(Event("RX", conn, Command(frames', bytes)))
  /\ UNCHANGED <<main, lock_linked, relay_busy, relay, result, delivered,
                 conn, advertising, connections>>

-----------------------------------------------------------------------------
(* The main loop.                                                          *)

\* A pass begins with apply_pending_lock_relay_(): the outcome of a relay is read
\* (and only logged) after its flag was taken down.
LoopBegin ==
  /\ pc = "rest"
  /\ pc' = IF pending_relay_apply THEN "read" ELSE "swap"
  /\ pending_relay_apply' = FALSE
  /\ UNCHANGED <<nimble, draining, plaintext, lock_state, boundaries, handled, reply,
                 lock_linked, relay_busy, relay, relay_result, delivered>>

ReadRelayResult ==
  /\ pc = "read"
  /\ pc' = "swap"
  /\ UNCHANGED <<nimble, draining, plaintext, lock_state, boundaries, handled, reply,
                 lock_linked, relay_busy, relay, result, delivered>>

\* The queue is swapped out under rx_mutex_.
Swapped_Copied == rx_queue
Swapped == <<>>

SwapQueue ==
  /\ pc = "swap"
  /\ draining' = rx_queue
  /\ rx_queue' = Swapped
  /\ pc' = IF draining' = <<>> THEN "rest" ELSE "drain"
  /\ UNCHANGED <<conn, advertising, connections, frames,
                 plaintext, lock_state, boundaries, handled, reply,
                 lock_linked, relay_busy, relay, result, delivered>>

\* The event at the head of the drained queue is done with.
Drained ==
  /\ draining' = Tail(draining)
  /\ pc' = IF draining' = <<>> THEN "rest" ELSE "drain"

Draining(type) == pc = "drain" /\ Head(draining).type = type

\* reset_transport(), and after a disconnection advertising starts again.
AdvertisingAfter_Unchanged(type) == advertising
AdvertisingAfter(type) == advertising \/ type = "DISCONNECT"

TransportBoundary(type) ==
  /\ Draining(type)
  /\ Drained
  /\ boundaries' = boundaries + 1
  /\ plaintext' = NoCommand
  /\ advertising' = AdvertisingAfter(type)
  /\ UNCHANGED <<conn, rx_queue, connections, frames, lock_state, handled, reply,
                 lock_linked, relay_busy, relay, result, delivered>>

\* Action::NONE and Action::SEND_IV: the bridge does nothing but notify the IV.
DropFrame ==
  /\ Draining("RX")
  /\ Drained
  /\ plaintext' = NoCommand
  /\ UNCHANGED <<nimble, lock_state, boundaries, handled, reply,
                 lock_linked, relay_busy, relay, result, delivered>>

\* What send_local_response_ tells the keypad: a poll gets the state, the other
\* commands a fixed payload or a plain ack.
Says(type, state) == IF type = "STATE_POLL" THEN state ELSE "ack"

StateAfter_Raw(type) == IF IsAction(type) THEN type ELSE lock_state
StateAfter_LocalOnly(type) ==
  IF IsAction(type) /\ ~lock_linked THEN Position(type) ELSE lock_state
StateAfter(type) == IF IsAction(type) THEN Position(type) ELSE lock_state

\* handle_command_ up to the relay: event, lock state, local response.
Respond(command) ==
  /\ Drained
  /\ plaintext' = command
  /\ lock_state' = StateAfter(Type(command.bytes))
  /\ handled' = Append(handled, command)
  /\ reply' = [to |-> command, conn |-> Head(draining).conn, heard |-> conn,
               says |-> Says(Type(command.bytes), lock_state')]
  /\ UNCHANGED <<nimble, boundaries, lock_linked, result, delivered>>

\* Commands with a side effect, or of unknown effect, go to the linked lock.
Relayed(type) == lock_linked /\ type \in {"LOCK", "UNLOCK", "UNKNOWN"}

HandleLocally(command) ==
  /\ Respond(command)
  /\ ~Relayed(Type(command.bytes))
  /\ UNCHANGED <<relay_busy, relay>>

\* relay_to_lock_async_: while a relay is in flight the command is not relayed.
HandleBusy(command) ==
  /\ Respond(command)
  /\ Relayed(Type(command.bytes)) /\ relay_busy
  /\ UNCHANGED <<relay_busy, relay>>

HandleRelayed(command) ==
  /\ Respond(command)
  /\ Relayed(Type(command.bytes)) /\ ~relay_busy
  /\ relay_busy' = TRUE
  /\ relay' = [pc |-> "send", command |-> command]

\* The task could not be created: the flag is taken down again.
BusyAfterFailure_Kept == TRUE
BusyAfterFailure == FALSE

HandleTaskFailed(command) ==
  /\ Respond(command)
  /\ Relayed(Type(command.bytes)) /\ ~relay_busy
  /\ relay_busy' = BusyAfterFailure
  /\ UNCHANGED relay

HandleCommand ==
  /\ Draining("RX")
  /\ LET command == Head(draining).command IN
     \/ HandleLocally(command) \/ HandleBusy(command)
     \/ HandleRelayed(command) \/ HandleTaskFailed(command)

\* A lock is linked by the wizard, or forgotten by the Reset button, which also
\* invalidates the session.
LinkChanges ==
  /\ pc = "rest"
  /\ lock_linked' = ~lock_linked
  /\ plaintext' = IF lock_linked THEN NoCommand ELSE plaintext
  /\ UNCHANGED <<nimble, draining, pc, lock_state, boundaries, handled, reply,
                 relay_busy, relay, result, delivered>>

Loop ==
  \/ LoopBegin \/ ReadRelayResult \/ SwapQueue
  \/ (\E type \in {"CONNECT", "DISCONNECT"} : TransportBoundary(type))
  \/ DropFrame \/ HandleCommand

-----------------------------------------------------------------------------
(* The relay task.                                                         *)

\* The payload was copied when the task was created.
Payload_Shared == plaintext
Payload == relay.command

\* send_plaintext: the payload may reach the lock ...
Deliver ==
  /\ relay.pc = "send"
  /\ relay' = [relay EXCEPT !.pc = "sent"]
  /\ delivered' = Append(delivered, Payload)
  /\ UNCHANGED <<nimble, main, lock_linked, relay_busy, result>>

\* ... and the reply, or its absence, is posted: relay_command_ first, ...
PostCommand ==
  /\ relay.pc \in {"send", "sent"}
  /\ relay' = [relay EXCEPT !.pc = "command"]
  /\ relay_result' = [relay_result EXCEPT !.command = relay.command.frame]
  /\ UNCHANGED <<nimble, main, lock_linked, relay_busy, pending_relay_apply, delivered>>

\* ... then relay_ok_, ...
PostOk ==
  /\ relay.pc = "command"
  /\ relay' = [relay EXCEPT !.pc = "ok"]
  /\ relay_result' = [relay_result EXCEPT !.ok = relay.command.frame]
  /\ UNCHANGED <<nimble, main, lock_linked, relay_busy, pending_relay_apply, delivered>>

\* ... then the flag.
PostFlag ==
  /\ relay.pc = "ok"
  /\ relay' = [relay EXCEPT !.pc = "posted"]
  /\ pending_relay_apply' = TRUE
  /\ UNCHANGED <<nimble, main, lock_linked, relay_busy, relay_result, delivered>>

RelayEnds ==
  /\ relay.pc = "posted"
  /\ relay' = NoRelay
  /\ relay_busy' = FALSE
  /\ UNCHANGED <<nimble, main, lock_linked, result, delivered>>

Relay == Deliver \/ PostCommand \/ PostOk \/ PostFlag \/ RelayEnds

Next ==
  \/ Connect \/ Disconnect \/ (\E bytes \in Plaintexts : Write(bytes))
  \/ Loop \/ LinkChanges
  \/ Relay

Spec == Init /\ [][Next]_vars

\* The main loop runs for ever and every BLE operation of the relay times out.
FairSpec == Spec /\ WF_vars(Loop) /\ WF_vars(Relay)

-----------------------------------------------------------------------------
(* Properties.                                                             *)

\* Every variable has its type.
TypeOK ==
  /\ conn \in 0 .. connections /\ connections \in 0 .. MaxConnections
  /\ frames \in 0 .. MaxFrames
  /\ {advertising, lock_linked, relay_busy, pending_relay_apply} \subseteq BOOLEAN
  /\ \A queue \in {rx_queue, draining} : queue \in
       Seq([type : {"CONNECT", "DISCONNECT", "RX"}, conn : 1 .. MaxConnections,
            command : Commands])
  /\ pc \in {"rest", "read", "swap", "drain"}
  /\ plaintext \in Commands /\ lock_state \in Positions
  /\ relay \in [pc : {"none", "send", "sent", "command", "ok", "posted"},
                command : Commands]
  /\ relay_result \in [command : 0 .. MaxFrames, ok : 0 .. MaxFrames]
  /\ boundaries \in Nat
  /\ handled \in Seq(Commands) /\ delivered \in Seq(Commands)
  /\ reply \in [to : Commands, conn : 0 .. MaxConnections, heard : 0 .. MaxConnections,
                says : Positions \cup {"ack", "none"}]

\* switchbot_keypad_bridge.cpp:253-272: a frame is fed to the session after the
\* boundaries that preceded it in the air and before those that followed, so that a
\* Fast Unlock allowance never outlives the connection it was granted in.
FramesBetweenBoundaries ==
  \A i \in DOMAIN draining :
    draining[i].type = "RX" =>
      boundaries + Cardinality({j \in 1 .. i : draining[j].type # "RX"})
        = 2 * draining[i].conn - 1

\* switchbot_keypad_bridge.cpp:266-268: a response is never notified to a keypad
\* connection other than the one whose frame it answers.
ReplyReachesSender == reply.heard \in {0, reply.conn}

\* switchbot_keypad_bridge.cpp:617-622: a state poll is answered with the last action
\* that Home Assistant was told of, whatever became of its relay.
Action(i) == IsAction(Type(handled[i].bytes))
LastAction(i) == Action(i) /\ \A j \in i + 1 .. Len(handled) : ~Action(j)
PollTellsLastAction ==
  reply.says \in Positions =>
    \/ reply.says = "LOCKED" /\ \A i \in DOMAIN handled : ~Action(i)
    \/ \E i \in DOMAIN handled :
         LastAction(i) /\ reply.says = Position(Type(handled[i].bytes))

\* switchbot_keypad_bridge.cpp:253-272 and 655-667: the bridge acts on a frame at most
\* once, in the order of arrival, and what reaches the physical lock is a subsequence
\* of that: no payload of another frame, none twice, none out of order.
InOrder(commands) == \A i, j \in DOMAIN commands : i < j => commands[i].frame < commands[j].frame
LockFollowsKeypad ==
  /\ InOrder(handled) /\ InOrder(delivered)
  /\ \A i \in DOMAIN delivered : \E j \in DOMAIN handled : delivered[i] = handled[j]

\* switchbot_keypad_bridge.cpp:647-709: a relay never keeps the next ones out for
\* ever, also when its task could not be created.
RelayReleased == relay_busy ~> ~relay_busy

\* switchbot_keypad_bridge.cpp:265-268: a keypad that lost its connection can connect
\* again.
AdvertisingResumes == conn = 0 ~> advertising \/ conn # 0

\* switchbot_keypad_bridge.h:271-273: the outcome that loop() reads is stable: both
\* fields are of one relay, and the relay task does not write them.
RelayResultStable ==
  pc = "read" => relay_result.command = relay_result.ok
=============================================================================
