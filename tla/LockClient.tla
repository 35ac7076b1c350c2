----------------------------- MODULE LockClient -----------------------------
(***************************************************************************)
(* The BLE client of the physical lock (physical_lock.cpp) under its two   *)
(* users: the job that provisions the shared key (lock_linker.cpp) and the *)
(* relay of a keypad command (relay_to_lock_async_).  One call at a time   *)
(* connects, opens one or two encrypted sessions, writes a script of       *)
(* frames, each of which waits for a notification, and disconnects.        *)
(*                                                                         *)
(* The lock is the environment: it serves the frames of a connection in    *)
(* order, may refuse or ignore each, may be slow, and may notify MaxStray  *)
(* times what answers nothing.  Encryption is what it tells apart: a       *)
(* response read under the credential and session it was made for is the   *)
(* reply, any other is noise of the same length.  Only the length and the  *)
(* state nibble of a lock-info payload are checked, so noise may pass.     *)
(***************************************************************************)
EXTENDS Integers, Sequences

CONSTANTS
  Locks,        \* MACs of the account's locks
  Misjudged,    \* those whose address type cannot be told from the MAC
  NoLock,
  MaxKeys, MaxCalls, MaxStray   \* bounds of the model

ASSUME LocksAssumption == Misjudged \subseteq Locks /\ NoLock \notin Locks
ASSUME BoundsAssumption ==
  MaxKeys \in Nat \ {0} /\ MaxCalls \in Nat /\ MaxStray \in Nat

Keys == 1 .. MaxKeys
NoKey == 0                              \* a half of the slot never written

\* LockLinker::client_ and SwitchbotKeypadBridge::physical_lock_client_.
Clients == {"linker", "bridge"}
Client(kind) == IF kind = "link" THEN "linker" ELSE "bridge"

Advertised(l) == [lock |-> l, rightly_typed |-> TRUE]
AddressFromMac(l) == [lock |-> l, rightly_typed |-> l \notin Misjudged]
NoAddress == [lock |-> NoLock, rightly_typed |-> FALSE]

\* What a call writes, in order.  The cloud key opens the first session of a
\* link job, the shared key of the call every other.
Frame(op, cred) == [op |-> op, cred |-> cred]
Script(kind) ==
  IF kind = "link"
  THEN << Frame("iv", "cloud"), Frame("slot_09", "cloud"), Frame("slot_03", "cloud"),
          Frame("half_1", "cloud"), Frame("half_2", "cloud"),
          Frame("iv", "shared"), Frame("info", "shared") >>
  ELSE << Frame("iv", "shared"), Frame("relay", "shared") >>

Reply(op) ==
  CASE op \in {"slot_09", "half_1", "half_2"} -> "slot"
    [] op = "slot_03" -> "slot_and_nonce"
    [] op = "info" -> "lock_info"
    [] op = "relay" -> "status"

\* A notification: what it answers, under which session, and whether the lock
\* did it.  An IV answer carries the session it opens.
Note(op, cred, iv, ok) == [op |-> op, cred |-> cred, iv |-> iv, ok |-> ok]
NoNote == Note("none", "none", 0, FALSE)

VARIABLES
  shared_key,       \* the bridge's current key
  linked,           \* lock_mac_ of the bridge
  cached_mac,       \* per client: cached_mac_
  cached_addr,      \* per client: cached_addr_
  call,             \* the arguments of the call in progress, or of the last one
  pc, at,           \* where the call is, and in its script
  session,          \* IV of the session, named by the script position asking for it
  responses,        \* decrypted responses so far
  waiter,           \* NotifyWaiter: binary semaphore and last notification
  connected,        \* the lock at the other end
  outcome,          \* "none", "running", "ok", "failed"
  slot,             \* lock: the two halves of the key in the shared slot
  serving,          \* lock: credential and IV of its session
  inbox,            \* lock: frames received and not yet served
  calls, stray,     \* bounds: calls made, notifications that answer nothing
  overwritten,      \* history: in this call a notification replaced an unread one
  ran               \* history: relay calls whose command the lock executed

client == <<cached_mac, cached_addr, call, pc, at, session, responses>>
lock == <<slot, serving, inbox, ran>>
vars == <<shared_key, linked, client, waiter, connected, outcome, lock,
          calls, stray, overwritten>>

FreshWaiter == [sem |-> FALSE, value |-> NoNote]
NoSession == [cred |-> "none", iv |-> 0]
Holds(l, k) == slot[l] = <<k, k>>

\* A bridge that has just started, with nothing linked or with a working link.
Init ==
  /\ shared_key = 1
  /\ linked \in Locks \cup {NoLock}
  /\ slot = [l \in Locks |-> IF l = linked THEN <<1, 1>> ELSE <<NoKey, NoKey>>]
  /\ cached_mac = [c \in Clients |-> NoLock]
  /\ cached_addr = [c \in Clients |-> NoAddress]
  /\ call = [kind |-> "relay", lock |-> NoLock, key |-> NoKey]
  /\ pc = "idle" /\ at = 0 /\ session = 0 /\ responses = <<>>
  /\ waiter = FreshWaiter /\ connected = NoLock /\ outcome = "none"
  /\ serving = [l \in Locks |-> NoSession] /\ inbox = [l \in Locks |-> <<>>]
  /\ calls = 0 /\ stray = 0 /\ overwritten = FALSE /\ ran = <<>>

-----------------------------------------------------------------------------
(* Calls.                                                                  *)

\* A lock serves what it received before it was left, or drops it, by the time
\* another call begins.
Begin(kind, l) ==
  /\ pc = "idle" /\ calls < MaxCalls
  /\ call' = [kind |-> kind, lock |-> l, key |-> shared_key]
  /\ pc' = "direct"
  /\ outcome' = "running" /\ calls' = calls + 1
  /\ serving' = [m \in Locks |-> NoSession] /\ inbox' = [m \in Locks |-> <<>>]
  /\ overwritten' = FALSE
  /\ UNCHANGED <<shared_key, linked, cached_mac, cached_addr, at, session, responses,
                 waiter, connected, slot, ran, stray>>

\* LockLinker::start for a lock the wizard offers: only while none is linked.
Link(l) == linked = NoLock /\ Begin("link", l)

\* relay_to_lock_async_: physical_lock_config_ is the linked lock and shared key.
Relay == linked # NoLock /\ Begin("relay", linked)

\* reset_pairing() between two calls (Wizard has the other interleavings).
Reset ==
  /\ pc = "idle" /\ shared_key < MaxKeys
  /\ shared_key' = shared_key + 1
  /\ linked' = NoLock
  /\ UNCHANGED <<client, waiter, connected, outcome, lock, calls, stray,
                 overwritten>>

\* The semaphore and the last notification are local to the call.
WaiterAfter_Kept == waiter
WaiterAfter == FreshWaiter

\* Every way out of a call leads to the disconnect, with outcome "failed" or, at
\* the end of the script, still "running".
Leave(res) ==
  /\ pc' = "leave" /\ outcome' = res
  /\ UNCHANGED <<shared_key, linked, cached_mac, cached_addr, call, at, session,
                 waiter, connected, slot, serving, ran, calls, stray, overwritten>>
Fail == Leave("failed") /\ UNCHANGED <<responses, inbox>>

\* The notifications of the call are over with its connection.
Disconnect ==
  /\ pc = "leave"
  /\ pc' = IF outcome = "running" THEN "verdict" ELSE "idle"
  /\ connected' = NoLock /\ waiter' = WaiterAfter
  /\ at' = 0 /\ session' = 0
  /\ responses' = IF outcome = "running" THEN responses ELSE <<>>
  /\ UNCHANGED <<shared_key, linked, cached_mac, cached_addr, call, outcome, lock,
                 calls, stray, overwritten>>

Returned(res) ==
  /\ pc = "verdict" /\ pc' = "idle"
  /\ outcome' = res /\ responses' = <<>>
  /\ UNCHANGED <<shared_key, cached_mac, cached_addr, call, at, session, waiter,
                 connected, lock, calls, stray, overwritten>>

-----------------------------------------------------------------------------
(* connect_.                                                               *)

Self == Client(call.kind)

CacheOk_AnyMac == cached_mac[Self] # NoLock
CacheOk == cached_mac[Self] # NoLock /\ cached_mac[Self] = call.lock

Target == IF CacheOk THEN cached_addr[Self] ELSE AddressFromMac(call.lock)

\* The service is found on the device at `addr`.
Connected(addr) ==
  /\ addr.rightly_typed
  /\ connected' = addr.lock
  /\ cached_addr' = [cached_addr EXCEPT ![Self] = addr]
  /\ cached_mac' = [cached_mac EXCEPT ![Self] = call.lock]
  /\ pc' = "subscribe"
  /\ UNCHANGED <<shared_key, linked, call, at, session, responses, waiter, outcome,
                 lock, calls, stray, overwritten>>

DirectConnect == pc = "direct" /\ Connected(Target)

\* Out of range, of the other address type, or without the service.
DirectConnectFails ==
  /\ pc = "direct"
  /\ cached_mac' = [cached_mac EXCEPT ![Self] = NoLock]
  /\ pc' = "scan"
  /\ UNCHANGED <<shared_key, linked, cached_addr, call, at, session, responses,
                 waiter, connected, outcome, lock, calls, stray, overwritten>>

ScanFinds ==
  /\ pc = "scan"
  /\ pc' = "fallback"
  /\ UNCHANGED <<shared_key, linked, cached_mac, cached_addr, call, at, session,
                 responses, waiter, connected, outcome, lock, calls, stray,
                 overwritten>>

FallbackConnect == pc = "fallback" /\ Connected(Advertised(call.lock))

\* The lock is not seen, not reachable, or its notifications cannot be enabled.
ConnectFails == pc \in {"scan", "fallback", "subscribe"} /\ Fail

Subscribe ==
  /\ pc = "subscribe"
  /\ pc' = "write" /\ at' = 1
  /\ UNCHANGED <<shared_key, linked, cached_mac, cached_addr, call, session,
                 responses, waiter, connected, outcome, lock, calls, stray,
                 overwritten>>

-----------------------------------------------------------------------------
(* run_session and send_plaintext_sequence.                                *)

Current == Script(call.kind)[at]

\* The frame as the lock gets it: an IV request names the session it asks for.
Written ==
  [op |-> Current.op, cred |-> Current.cred, key |-> call.key, call |-> calls,
   iv |-> IF Current.op = "iv" THEN at ELSE session]

Delivered == inbox' = [inbox EXCEPT ![connected] = Append(@, Written)]

Write ==
  /\ pc = "write"
  /\ Delivered
  /\ pc' = "await"
  /\ UNCHANGED <<shared_key, linked, cached_mac, cached_addr, call, at, session,
                 responses, waiter, connected, outcome, slot, serving, calls,
                 stray, overwritten, ran>>

\* No acknowledgement of the write; the lock may have got it.
WriteFails ==
  /\ pc = "write"
  /\ Delivered \/ UNCHANGED inbox
  /\ Leave("failed")
  /\ UNCHANGED responses

\* wait_notify: the semaphore, then the value, which may change in between.
Take ==
  /\ pc = "await" /\ waiter.sem
  /\ waiter' = [waiter EXCEPT !.sem = FALSE]
  /\ pc' = "read"
  /\ UNCHANGED <<shared_key, linked, cached_mac, cached_addr, call, at, session,
                 responses, connected, outcome, lock, calls, stray, overwritten>>

\* Nothing in 3000 or 2500 ms: the call is over, and never tried again, because
\* the lock may have executed the command.
AfterTimeout_Retry ==
  /\ pc' = "scan" /\ connected' = NoLock
  /\ UNCHANGED <<shared_key, linked, cached_mac, cached_addr, call, at, session,
                 responses, waiter, outcome, lock, calls, stray, overwritten>>
AfterTimeout == Fail

TimedOut_Never == FALSE
TimedOut == ~waiter.sem

Timeout == pc = "await" /\ TimedOut /\ AfterTimeout

\* parse_session_response_: status 1 and sixteen bytes.
LooksLikeIv(n) == n.op = "iv" \/ (n.op = "info" /\ n.ok)

\* decrypt_notify_: nothing authenticates the plaintext, and the status byte of
\* the header is not looked at.
Decrypt(n) ==
  CASE n.op \in {"iv", "push"} -> "long_noise"
    [] n.op \notin {"iv", "push"} /\ ~n.ok -> "empty"
    [] n.op \notin {"iv", "push"} /\ n.ok ->
         IF n.cred = Current.cred /\ n.iv = session THEN Reply(n.op)
         ELSE IF n.op = "info" THEN "long_noise" ELSE "short_noise"

AtEnd_OffByOne == at > Len(Script(call.kind))
AtEnd == at = Len(Script(call.kind))

\* The next frame of the script, or the end of it.
Proceed ==
  /\ IF AtEnd THEN pc' = "leave" /\ UNCHANGED at
              ELSE pc' = "write" /\ at' = at + 1
  /\ UNCHANGED <<shared_key, linked, cached_mac, cached_addr, call, waiter, connected,
                 outcome, lock, calls, stray, overwritten>>

ReadIv ==
  /\ pc = "read" /\ Current.op = "iv"
  /\ LooksLikeIv(waiter.value)
  /\ session' = waiter.value.iv
  /\ Proceed
  /\ UNCHANGED responses

ReadIvFails ==
  pc = "read" /\ Current.op = "iv" /\ ~LooksLikeIv(waiter.value) /\ Fail

ReadResponse ==
  /\ pc = "read" /\ Current.op # "iv"
  /\ responses' = Append(responses, Decrypt(waiter.value))
  /\ Proceed
  /\ UNCHANGED session

\* lock_info_response_plausible of the last response: noise may pass.
VerifyPlausible == responses[5] \in {"lock_info", "long_noise"}

\* provision_responses_plausible of the first four.
ProvisionPlausible_Skipped == TRUE
ProvisionPlausible ==
  /\ responses[1] \in {"empty", "slot"}
  /\ responses[2] = "slot_and_nonce"
  /\ responses[3] = "slot" /\ responses[4] = "slot"

\* The job reports SUCCESS, which links the lock.
LinkSucceeds ==
  /\ call.kind = "link"
  /\ Returned("ok")
  /\ VerifyPlausible /\ ProvisionPlausible
  /\ linked' = call.lock

LinkFails ==
  /\ call.kind = "link"
  /\ Returned("failed")
  /\ ~VerifyPlausible \/ ~ProvisionPlausible \/ responses[5] = "long_noise"
  /\ UNCHANGED linked

\* Any response confirms a relay.
RelayEnds == call.kind = "relay" /\ Returned("ok") /\ UNCHANGED linked

-----------------------------------------------------------------------------
(* The lock.                                                               *)

\* The notification callback; without a connection the answer is lost.
Notify(l, n) ==
  IF connected = l
  THEN /\ waiter' = [sem |-> TRUE, value |-> n]
       /\ overwritten' = (overwritten \/ waiter.sem \/ pc = "read")
  ELSE UNCHANGED <<waiter, overwritten>>

Served(l) ==
  /\ inbox[l] # <<>>
  /\ inbox' = [inbox EXCEPT ![l] = Tail(@)]
  /\ UNCHANGED <<shared_key, linked, client, connected, outcome, calls, stray>>

OpensSession(l) ==
  LET f == Head(inbox[l]) IN
  /\ Served(l)
  /\ f.op = "iv"
  /\ serving' = [serving EXCEPT ![l] = [cred |-> f.cred, iv |-> f.iv]]
  /\ Notify(l, Note("iv", f.cred, f.iv, TRUE))
  /\ UNCHANGED <<slot, ran>>

\* The frame decrypts under the credential and IV of the lock's session.
Readable(l, f) ==
  /\ serving[l] = [cred |-> f.cred, iv |-> f.iv]
  /\ f.cred = "shared" => Holds(l, f.key)

SlotAfter(l, f) ==
  CASE f.op = "half_1" -> [slot EXCEPT ![l][1] = f.key]
    [] f.op = "half_2" -> [slot EXCEPT ![l][2] = f.key]
    [] OTHER -> slot

Executes(l) ==
  LET f == Head(inbox[l]) IN
  /\ Served(l)
  /\ f.op # "iv" /\ Readable(l, f)
  /\ slot' = SlotAfter(l, f)
  /\ ran' = IF f.op = "relay" THEN Append(ran, f.call) ELSE ran
  /\ Notify(l, Note(f.op, f.cred, f.iv, TRUE))
  /\ UNCHANGED serving

\* An error status without a payload.
Refuses(l) ==
  LET f == Head(inbox[l]) IN
  /\ Served(l)
  /\ Notify(l, Note(f.op, f.cred, f.iv, FALSE))
  /\ UNCHANGED <<slot, serving, ran>>

Ignores(l) ==
  Served(l) /\ UNCHANGED <<slot, serving, ran, waiter, overwritten>>

\* The last notification again, or one pushed by a change of the lock's state.
Strays(l) ==
  /\ stray < MaxStray /\ connected = l /\ at > 0
  /\ Notify(l, waiter.value)
     \/ Notify(l, Note("push", serving[l].cred, serving[l].iv, TRUE))
  /\ stray' = stray + 1
  /\ UNCHANGED <<shared_key, linked, client, connected, outcome, lock, calls>>

LockStep(l) ==
  OpensSession(l) \/ Executes(l) \/ Refuses(l) \/ Ignores(l) \/ Strays(l)

\* The task that makes the call.
CallStep ==
  \/ DirectConnect \/ DirectConnectFails \/ ScanFinds \/ FallbackConnect
  \/ ConnectFails \/ Subscribe
  \/ Write \/ WriteFails \/ Take \/ Timeout
  \/ ReadIv \/ ReadIvFails \/ ReadResponse \/ Disconnect
  \/ LinkSucceeds \/ LinkFails \/ RelayEnds

Next ==
  \/ \E l \in Locks : Link(l)
  \/ Relay \/ Reset
  \/ CallStep
  \/ \E l \in Locks : LockStep(l)

\* A task is scheduled until it ends, and each of its BLE operations returns.
Spec == Init /\ [][Next]_vars /\ WF_vars(CallStep)

-----------------------------------------------------------------------------
(* Properties.                                                             *)

Ops == {"none", "iv", "push", "info", "slot_09", "slot_03", "half_1", "half_2", "relay"}
Creds == {"none", "cloud", "shared"}
Notes == [op : Ops, cred : Creds, iv : 0 .. 7, ok : BOOLEAN]

\* Every variable has its type.
TypeOK ==
  /\ shared_key \in Keys /\ linked \in Locks \cup {NoLock}
  /\ cached_mac \in [Clients -> Locks \cup {NoLock}]
  /\ cached_addr \in [Clients -> [lock : Locks \cup {NoLock}, rightly_typed : BOOLEAN]]
  /\ call \in [kind : {"link", "relay"}, lock : Locks \cup {NoLock},
               key : Keys \cup {NoKey}]
  /\ pc \in {"idle", "direct", "scan", "fallback", "subscribe", "write", "await",
             "read", "leave", "verdict"}
  /\ at \in 0 .. Len(Script(call.kind)) /\ session \in {0, 1, 6}
  /\ Len(responses) <= 5
  /\ waiter \in [sem : BOOLEAN, value : Notes]
  /\ connected \in Locks \cup {NoLock}
  /\ outcome \in {"none", "running", "ok", "failed"}
  /\ slot \in [Locks -> (Keys \cup {NoKey}) \X (Keys \cup {NoKey})]
  /\ serving \in [Locks -> [cred : Creds, iv : 0 .. 7]]
  /\ calls \in 0 .. MaxCalls /\ stray \in 0 .. MaxStray
  /\ overwritten \in BOOLEAN

\* lock_linker.h:3-4 and README.md:194-198: the job succeeds only when the lock
\* holds both halves of its key, whatever the lock refused and although one
\* notification answered nothing.  (One unread notification overwritten by the
\* next on top of that can still deceive both checks.)
LinkedMeansKeyHeld ==
  outcome = "ok" /\ call.kind = "link" /\ ~overwritten => Holds(call.lock, call.key)

\* physical_lock.cpp:469-475: frames go to the lock of this call and never to
\* the one an earlier call left in the address cache.
ReachesConfiguredLock == connected # NoLock => connected = call.lock

\* physical_lock.cpp:31-37: unless the lock notifies unasked, the notification
\* taken after a write is the lock's answer to that write.
AnswersAttributed ==
  stray = 0 /\ pc = "read" =>
    /\ waiter.value.op = Current.op
    /\ Current.op # "iv" => waiter.value.iv = session

\* README.md:200-203: a command is relayed at most once and in the order of the
\* calls, although a call that failed may have been carried out.
RelaysInOrder == \A i, j \in DOMAIN ran : i < j => ran[i] < ran[j]

\* physical_lock.cpp:288 and 298: every call returns, whatever the lock does, so
\* that the relay and the wizard become available again.
CallsReturn == pc # "idle" ~> pc = "idle"
=============================================================================
