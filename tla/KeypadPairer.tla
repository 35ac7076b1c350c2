---------------------------- MODULE KeypadPairer ----------------------------
(***************************************************************************)
(* The job that pairs a keypad (keypad_pairer.cpp): find it, free it,      *)
(* connect, negotiate a session IV, write the handshake of its family      *)
(* frame by frame, report.  Every notification releases one binary         *)
(* semaphore; a frame is followed by a wait of at most 800 ms for it, and  *)
(* a wait that times out is not a failure.                                 *)
(*                                                                         *)
(* The keypad is the environment: it serves what it received in order, may *)
(* execute, refuse or ignore a frame, answer late or not at all, and       *)
(* notify unasked.  A key is the number of the job that writes it.  The    *)
(* two steps of on_notify_ are one: the BLE host task shares core 0 with   *)
(* the job and has priority over it.                                       *)
(***************************************************************************)
EXTENDS Integers, Sequences, FiniteSets

CONSTANTS
  IvTries,      \* waits of 500 ms for the session IV (6)
  MaxJobs       \* bound of the model

ASSUME TriesAssumption == IvTries \in Nat \ {0}
ASSUME JobsAssumption == MaxJobs \in Nat

Families == {"original", "vision"}

\* The writes of execute_ after the IV request.  A failed write of a mandatory
\* frame ends the job; the others are sent for what they are worth.
Must(op) == [op |-> op, mandatory |-> TRUE]
May(op) == [op |-> op, mandatory |-> FALSE]
Handshake(family) ==
  IF family = "vision"
  THEN <<Must("enter_pairing"), May("capabilities_probe"), May("prep"), Must("slot_init"),
         Must("half_1"), Must("half_2"), Must("lock_mac"), May("finalize_1"),
         May("finalize_2"), May("enable_doorbell")>>
  ELSE <<Must("enter_pairing"), May("prep"), Must("slot_init"), Must("half_1"),
         Must("half_2"), Must("lock_mac"), May("finalize_1"), May("finalize_2")>>

MandatoryOps == {"enter_pairing", "slot_init", "half_1", "half_2", "lock_mac"}

VARIABLES
  state,        \* status_.state: "IDLE", "RUNNING", "SUCCESS", "FAILED"
  job,          \* number of the job, which is its shared token
  family,       \* req.family, which names the dialect of the job: what the
                \* advertisement read at discovery says is only logged
  pc, at,       \* where execute_ is, and in its handshake
  tries,        \* waits for the IV so far
  ack_sem, iv, iv_received,
  connected,    \* the GATT connection is up
  subscribed,   \* the subscription, whose result is not looked at, succeeded
  bridged,      \* the keypad is connected to the bridge's own service
  keypad_family,
  keypad,       \* keypad: its session IV, halves of the key, lock address
  inbox,        \* keypad: frames received and not yet served
  ivs,          \* keypad: IVs drawn so far
  got,          \* history: mandatory frames that reached it readable, this job
  disturbed     \* history: in this job the keypad was late, or ignored a frame, or
                \* notified unasked

progress == <<pc, at, tries>>
session == <<ack_sem, iv, iv_received>>
device == <<keypad_family, keypad, inbox, ivs, got>>
vars == <<state, job, family, progress, session, connected, subscribed,
          bridged, device, disturbed>>

Init ==
  /\ state = "IDLE" /\ job = 0 /\ family = "original"
  /\ pc = "idle" /\ at = 0 /\ tries = 0
  /\ ack_sem = FALSE /\ iv = 0 /\ iv_received = FALSE
  /\ connected = FALSE /\ subscribed = FALSE /\ bridged \in BOOLEAN
  /\ keypad_family \in Families
  /\ keypad = [iv |-> 0, half_1 |-> 0, half_2 |-> 0, lock_mac |-> FALSE]
  /\ inbox = <<>> /\ ivs = 0 /\ got = {} /\ disturbed = FALSE

-----------------------------------------------------------------------------
(* start(), discovery and connection.                                      *)

IvReceivedAtStart_Kept == iv_received
IvReceivedAtStart == FALSE

\* The keypad has served or dropped what an earlier job left it.
Start(f) ==
  /\ state # "RUNNING" /\ pc = "idle" /\ job < MaxJobs
  /\ state' = "RUNNING" /\ job' = job + 1 /\ family' = f
  /\ iv_received' = IvReceivedAtStart /\ ack_sem' = FALSE
  /\ pc' = "discover" /\ at' = 0 /\ tries' = 0
  /\ inbox' = <<>> /\ got' = {} /\ disturbed' = FALSE
  /\ UNCHANGED <<iv, connected, subscribed, bridged, keypad_family, keypad, ivs>>

ConnectionAtEnd_Left == connected
ConnectionAtEnd == FALSE

\* disconnect() and deleteClient() where there is a client, then the status.
Ends(outcome) ==
  /\ state' = outcome /\ pc' = "idle"
  /\ connected' = ConnectionAtEnd /\ subscribed' = FALSE
  /\ UNCHANGED <<job, family, at, tries, iv, ack_sem, iv_received, bridged,
                 keypad_family, keypad, ivs, disturbed>>
Fails == Ends("FAILED") /\ UNCHANGED <<inbox, got>>

Discover ==
  /\ pc = "discover"
  /\ pc' = "free"
  /\ UNCHANGED <<state, job, family, at, tries, session, connected, subscribed,
                 bridged, device, disturbed>>

DiscoverFails == pc = "discover" /\ Fails

\* A keypad still connected as our peripheral's central is disconnected.
Free ==
  /\ pc = "free"
  /\ bridged' = FALSE
  /\ pc' = "connect"
  /\ UNCHANGED <<state, job, family, at, tries, session, connected, subscribed,
                 device, disturbed>>

Connect ==
  /\ pc = "connect" /\ ~bridged
  /\ connected' = TRUE
  /\ subscribed' \in BOOLEAN
  /\ pc' = "request"
  /\ UNCHANGED <<state, job, family, at, tries, session, bridged, device,
                 disturbed>>

ConnectFails == pc = "connect" /\ Fails

-----------------------------------------------------------------------------
(* The session IV.                                                         *)

Received(f) == inbox' = Append(inbox, f)

RequestIv ==
  /\ pc = "request" /\ connected
  /\ Received([op |-> "iv", iv |-> 0, job |-> job, family |-> family])
  /\ ack_sem' = FALSE
  /\ pc' = "iv"
  /\ UNCHANGED <<state, job, family, at, tries, iv, iv_received, connected,
                 subscribed, bridged, keypad_family, keypad, ivs, got, disturbed>>

RequestIvFails == pc = "request" /\ Fails

\* A wait ends with a notification or after 500 ms.
AwaitIv ==
  /\ pc = "iv" /\ ~iv_received /\ tries < IvTries
  /\ ack_sem' = FALSE
  /\ tries' = tries + 1
  /\ UNCHANGED <<state, job, family, pc, at, iv, iv_received, connected,
                 subscribed, bridged, device, disturbed>>

NoIv == pc = "iv" /\ ~iv_received /\ tries = IvTries /\ Fails

IvKnown ==
  /\ pc = "iv" /\ iv_received
  /\ pc' = "write" /\ at' = 1
  /\ UNCHANGED <<state, job, family, tries, session, connected, subscribed,
                 bridged, device, disturbed>>

-----------------------------------------------------------------------------
(* send_command_.                                                          *)

Current == Handshake(family)[at]

\* The next frame, or the end of the handshake.
Proceed ==
  IF at < Len(Handshake(family)) THEN pc' = "write" /\ at' = at + 1
                                 ELSE pc' = "finish" /\ UNCHANGED at

Readable(f) == f.iv = keypad.iv /\ f.iv # 0
CurrentFrame == [op |-> Current.op, iv |-> iv, job |-> job, family |-> family]

\* What releases the semaphore before the write is not the answer to it.
Drained_Not == ack_sem
Drained == FALSE

Write ==
  /\ pc = "write" /\ connected
  /\ ack_sem' = Drained
  /\ Received(CurrentFrame)
  /\ got' = IF Current.mandatory /\ Readable(CurrentFrame) THEN got \cup {Current.op} ELSE got
  /\ pc' = "ack"
  /\ UNCHANGED <<state, job, family, at, tries, iv, iv_received, connected,
                 subscribed, bridged, keypad_family, keypad, ivs, disturbed>>

Mandatory_KeyOnly == Current.op \in {"half_1", "lock_mac"}
Mandatory == Current.mandatory

\* The write is refused, or lost with the connection although the keypad may have
\* received it.
WriteFails ==
  /\ pc = "write"
  /\ Mandatory
  /\ UNCHANGED inbox \/ (connected /\ Received(CurrentFrame))
  /\ Ends("FAILED") /\ UNCHANGED got

WriteFailsIgnored ==
  /\ pc = "write"
  /\ ~Mandatory
  /\ ack_sem' = Drained
  /\ \/ UNCHANGED <<connected, inbox>>
     \/ connected' = FALSE /\ (UNCHANGED inbox \/ (connected /\ Received(CurrentFrame)))
  /\ Proceed
  /\ UNCHANGED <<state, job, family, tries, iv, iv_received, subscribed, bridged,
                 keypad_family, keypad, ivs, got, disturbed>>

Acknowledged ==
  /\ pc = "ack" /\ ack_sem
  /\ ack_sem' = FALSE
  /\ Proceed
  /\ UNCHANGED <<state, job, family, tries, iv, iv_received, connected,
                 subscribed, bridged, device, disturbed>>

\* 800 ms without a notification count as an answer.
AckTimeout ==
  /\ pc = "ack" /\ ~ack_sem
  /\ disturbed' = (disturbed \/ inbox # <<>>)
  /\ Proceed
  /\ UNCHANGED <<state, job, family, tries, session, connected, subscribed,
                 bridged, device>>

Finish == pc = "finish" /\ Ends("SUCCESS") /\ UNCHANGED <<inbox, got>>

-----------------------------------------------------------------------------
(* The keypad.                                                             *)

\* on_notify_ of an answer that is not an IV.
Notify == ack_sem' = (ack_sem \/ (connected /\ subscribed)) /\ UNCHANGED <<iv, iv_received>>

Served ==
  /\ inbox # <<>>
  /\ inbox' = Tail(inbox)
  /\ UNCHANGED <<state, job, family, progress, connected, subscribed, bridged,
                 keypad_family, got>>

OpensSession ==
  /\ Served
  /\ Head(inbox).op = "iv"
  /\ ivs' = ivs + 1
  /\ keypad' = [keypad EXCEPT !.iv = ivs + 1]
  /\ IF connected /\ subscribed
     THEN iv' = ivs + 1 /\ iv_received' = TRUE /\ ack_sem' = TRUE
     ELSE UNCHANGED session
  /\ UNCHANGED disturbed

\* The keypad after a readable frame of its own family.
After(f) ==
  CASE f.op \in {"half_1", "half_2"} -> [keypad EXCEPT ![f.op] = f.job]
    [] f.op = "lock_mac" -> [keypad EXCEPT !.lock_mac = TRUE]
    [] OTHER -> keypad

Executes ==
  LET f == Head(inbox) IN
  /\ Served
  /\ f.op # "iv" /\ Readable(f) /\ f.family = keypad_family
  /\ keypad' = After(f)
  /\ Notify \/ UNCHANGED session
  /\ UNCHANGED <<ivs, disturbed>>

\* What it cannot read, what is not of its family, or is not to its liking.
Refuses ==
  LET f == Head(inbox) IN
  /\ Served
  /\ Notify \/ UNCHANGED session
  /\ disturbed' = (disturbed \/ (Readable(f) /\ f.family = keypad_family))
  /\ UNCHANGED <<keypad, ivs>>

NotifiesUnasked ==
  /\ connected /\ subscribed /\ ~disturbed
  /\ ack_sem' = TRUE
  /\ disturbed' = TRUE
  /\ UNCHANGED <<state, job, family, progress, iv, iv_received, connected,
                 subscribed, bridged, device>>

LosesConnection ==
  /\ connected
  /\ connected' = FALSE
  /\ UNCHANGED <<state, job, family, progress, session, subscribed, bridged,
                 device, disturbed>>

\* The keypad connects to the bridge, for which it keeps looking.
ConnectsToBridge ==
  /\ ~bridged /\ ~connected
  /\ bridged' = TRUE
  /\ UNCHANGED <<state, job, family, progress, session, connected, subscribed,
                 device, disturbed>>

Keypad == OpensSession \/ Executes \/ Refuses \/ NotifiesUnasked
  \/ LosesConnection \/ ConnectsToBridge

\* The job's task.
Execute ==
  \/ Discover \/ DiscoverFails \/ Free \/ Connect \/ ConnectFails
  \/ RequestIv \/ RequestIvFails \/ AwaitIv \/ NoIv \/ IvKnown
  \/ Write \/ WriteFails \/ WriteFailsIgnored \/ Acknowledged \/ AckTimeout
  \/ Finish

Next == (\E f \in Families : Start(f)) \/ Execute \/ Keypad

Spec == Init /\ [][Next]_vars

-----------------------------------------------------------------------------
(* Properties.                                                             *)

Frames == [op : {"iv"} \cup {Handshake("vision")[i].op : i \in DOMAIN Handshake("vision")},
           iv : 0 .. ivs, job : 1 .. MaxJobs, family : Families]

\* Every variable has its type, and the job leaves no connection behind.
TypeOK ==
  /\ state \in {"IDLE", "RUNNING", "SUCCESS", "FAILED"} /\ job \in 0 .. MaxJobs
  /\ family \in Families
  /\ pc \in {"idle", "discover", "free", "connect", "request", "iv", "write", "ack",
             "finish"}
  /\ at \in 0 .. Len(Handshake(family)) /\ tries \in 0 .. IvTries
  /\ ack_sem \in BOOLEAN /\ iv \in 0 .. ivs /\ iv_received \in BOOLEAN
  /\ connected \in BOOLEAN /\ subscribed \in BOOLEAN /\ bridged \in BOOLEAN
  /\ keypad_family \in Families /\ ivs \in 0 .. MaxJobs
  /\ keypad \in [iv : 0 .. ivs, half_1 : 0 .. job, half_2 : 0 .. job, lock_mac : BOOLEAN]
  /\ inbox \in Seq(Frames) /\ got \subseteq MandatoryOps /\ disturbed \in BOOLEAN
  /\ (state = "RUNNING") = (pc # "idle") /\ (connected => state = "RUNNING")

\* keypad_pairer.cpp:264-319: SUCCESS means that every mandatory frame reached the
\* keypad in this job, encrypted under the IV of the keypad's present session; and, if
\* the keypad answered each frame in time and for itself, that it holds this job's key
\* and the bridge's address.
PairedMeansKeyWritten ==
  state = "SUCCESS" =>
    /\ MandatoryOps \subseteq got
    /\ ~disturbed /\ family = keypad_family =>
         keypad.half_1 = job /\ keypad.half_2 = job /\ keypad.lock_mac

\* keypad_pairer.cpp:184-188: a frame is written only when the keypad is done with the
\* one before, unless that took more than 800 ms or the keypad notified unasked.
OneFrameAtATime == ~disturbed /\ state = "RUNNING" => Len(inbox) <= 1
=============================================================================
