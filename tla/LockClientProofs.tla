-------------------------- MODULE LockClientProofs --------------------------
(***************************************************************************)
(* Proofs about LockClient, for every set of locks and any number of keys, *)
(* calls and unasked notifications.                                        *)
(***************************************************************************)
EXTENDS LockClient, TLAPS

\* IVs are named by the script positions that ask for one.
Ivs == {0, 1, 6}
Frames == [op : Ops, cred : Creds, key : Keys, call : Nat, iv : Ivs]
Responses == {"slot", "slot_and_nonce", "lock_info", "status",
              "long_noise", "short_noise", "empty"}

Opening == {"direct", "scan", "fallback", "subscribe"}
Talking == {"write", "await", "read"}

\* Responses read before position n of a script.
ResponsesBefore(kind, n) ==
  CASE kind = "relay" -> IF n =< 2 THEN 0 ELSE 1
    [] kind # "relay" /\ n =< 2 -> 0
    [] kind # "relay" /\ n > 2 /\ n =< 6 -> n - 2
    [] kind # "relay" /\ n > 6 -> n - 3

\* The order in which a call writes its frames; what is no frame comes first.
Rank(f) ==
  CASE f.op = "iv" /\ f.cred = "cloud" -> 1
    [] f.op = "slot_09" -> 2
    [] f.op = "slot_03" -> 3
    [] f.op = "half_1" -> 4
    [] f.op = "half_2" -> 5
    [] f.op = "iv" /\ f.cred = "shared" -> 6
    [] f.op = "info" /\ f.cred = "shared" -> 7
    [] f.op = "relay" -> 8
    [] OTHER -> 0

-----------------------------------------------------------------------------
(* The inductive invariant.                                                *)

\* TypeOK, with the queues and with what an IV can be.
ClientNotes == [op : Ops, cred : Creds, iv : Ivs, ok : BOOLEAN]
Typed ==
  /\ shared_key \in Keys /\ linked \in Locks \cup {NoLock}
  /\ cached_mac \in [Clients -> Locks \cup {NoLock}]
  /\ cached_addr \in [Clients -> [lock : Locks \cup {NoLock}, rightly_typed : BOOLEAN]]
  /\ call \in [kind : {"link", "relay"}, lock : Locks \cup {NoLock},
               key : Keys \cup {NoKey}]
  /\ pc \in {"idle", "leave", "verdict"} \cup Opening \cup Talking
  /\ at \in 0 .. Len(Script(call.kind)) /\ session \in Ivs
  /\ responses \in Seq(Responses) /\ Len(responses) =< 5
  /\ waiter \in [sem : BOOLEAN, value : ClientNotes]
  /\ connected \in Locks \cup {NoLock}
  /\ outcome \in {"none", "running", "ok", "failed"}
  /\ slot \in [Locks -> (Keys \cup {NoKey}) \X (Keys \cup {NoKey})]
  /\ serving \in [Locks -> [cred : Creds, iv : Ivs]]
  /\ inbox \in [Locks -> Seq(Frames)] /\ ran \in Seq(Nat)
  /\ calls \in 0 .. MaxCalls /\ stray \in 0 .. MaxStray
  /\ overwritten \in BOOLEAN

\* What each place of a call says of the rest of it.
Control ==
  /\ pc \notin Talking \cup {"leave"} => at = 0 /\ session = 0 /\ waiter = FreshWaiter
  /\ pc \in {"subscribe"} \cup Talking => connected = call.lock
  /\ pc = "leave" => connected \in {NoLock, call.lock}
  /\ pc \notin Talking \cup {"subscribe", "leave"} => connected = NoLock
  /\ pc # "idle" => call.lock \in Locks /\ call.key \in Keys
  /\ pc \in Opening \cup Talking \cup {"verdict"} => outcome = "running"
  /\ pc = "leave" => outcome \in {"running", "failed"}
  /\ pc \in Opening \cup {"idle"} => responses = <<>>
  /\ pc \in Talking => at > 0 /\ Len(responses) = ResponsesBefore(call.kind, at)
  /\ pc = "verdict" \/ (pc = "leave" /\ outcome = "running") =>
       Len(responses) = ResponsesBefore(call.kind, Len(Script(call.kind)) + 1)

\* A cached address is the one of the lock it is cached for.
CacheMatches ==
  \A c \in Clients : cached_mac[c] # NoLock => cached_addr[c].lock = cached_mac[c]

\* Frames wait only at the lock of the call, and are its own, in the order written.
FrameInv ==
  /\ \A l \in Locks : inbox[l] # <<>> => l = call.lock /\ pc \notin Opening
  /\ \A l \in Locks : \A i \in DOMAIN inbox[l] :
       /\ inbox[l][i].key = call.key /\ inbox[l][i].call = calls
       /\ Rank(inbox[l][i]) > 0
       /\ pc \in Talking => Rank(inbox[l][i]) =< Rank(Current)
       /\ pc = "write" => Rank(inbox[l][i]) < Rank(Current)
  /\ \A l \in Locks : \A i, j \in DOMAIN inbox[l] :
       i < j => Rank(inbox[l][i]) < Rank(inbox[l][j])

\* The last notification answers a frame written before those that wait.
ValueInv ==
  /\ \A l \in Locks : \A i \in DOMAIN inbox[l] :
       Rank(waiter.value) < Rank(inbox[l][i])
  /\ pc \in Talking => Rank(waiter.value) =< Rank(Current)
  /\ pc = "write" => Rank(waiter.value) < Rank(Current)
  /\ waiter.value.ok => waiter.value.op # "none"
  /\ pc = "read" /\ ~overwritten => ~waiter.sem

\* As long as nothing was notified unasked, a frame is answered before the next
\* one is written, or the call is over.
AnswersCurrent == waiter.value.op = Written.op /\ waiter.value.iv = Written.iv
AttributionInv ==
  stray = 0 =>
    /\ pc = "write" => inbox[call.lock] = <<>> /\ ~waiter.sem
    /\ pc = "await" =>
         \/ inbox[call.lock] = <<>> /\ (waiter.sem => AnswersCurrent)
         \/ inbox[call.lock] = <<Written>> /\ ~waiter.sem
    /\ pc = "read" => inbox[call.lock] = <<>> /\ ~waiter.sem /\ AnswersCurrent

\* A call relays one command, and until the lock executes it all that ran is of
\* earlier calls.
RelayWritten ==
  pc \in {"leave", "verdict", "idle"} \/ (pc \in {"await", "read"} /\ Current.op = "relay")
RelayWaits == \E l \in Locks : \E i \in DOMAIN inbox[l] : inbox[l][i].op = "relay"
RelayInv ==
  /\ \A i \in DOMAIN ran : ran[i] \in 0 .. calls
  /\ ~RelayWritten \/ RelayWaits => \A i \in DOMAIN ran : ran[i] < calls
  /\ RelaysInOrder

\* What the answers that came, and those read so far, say of the lock's slot.
HalvesAnswered ==
  /\ waiter.value.op = "half_1" /\ waiter.value.ok => slot[call.lock][1] = call.key
  /\ waiter.value.op = "half_2" /\ waiter.value.ok => slot[call.lock][2] = call.key
NonceRead ==
  pc \in Talking /\ Len(responses) >= 2 /\ responses[2] = "slot_and_nonce" =>
    /\ waiter.value.op # "slot_09"
    /\ \A i \in DOMAIN inbox[call.lock] : Rank(inbox[call.lock][i]) > 3
HalfRead ==
  /\ call.kind = "link" /\ Len(responses) >= 3
  /\ responses[2] = "slot_and_nonce" /\ responses[3] = "slot"
  => slot[call.lock][1] = call.key
KeyInv == HalvesAnswered /\ NonceRead /\ HalfRead

\* An answer of the lock that deceived the first check was read one frame late, and
\* then no answer is left that passes the second.
Deceived ==
  /\ call.kind = "link" /\ ~overwritten
  /\ Len(responses) >= 4 /\ ProvisionPlausible
  /\ ~Holds(call.lock, call.key)
LateInv ==
  Deceived /\ stray =< 1 =>
    /\ stray = 1
    /\ pc \in Talking =>
         /\ \A i \in DOMAIN inbox[call.lock] :
              Rank(inbox[call.lock][i]) \in IF at = 6 THEN {5, 6} ELSE {7}
         /\ waiter.sem \/ pc = "read" =>
              \/ at = 6 /\ Rank(waiter.value) = 5 /\ ~waiter.value.ok
              \/ at = 6 /\ Rank(waiter.value) = 6 /\ inbox[call.lock] = <<>>
              \/ at = 7 /\ Rank(waiter.value) = 7 /\ ~waiter.value.ok
    /\ Len(responses) = 5 => responses[5] = "empty"

\* A link that succeeded did so on a key the lock holds.
LinkTrue == stray =< 1 => LinkedMeansKeyHeld

IInv ==
  /\ Typed /\ Control /\ CacheMatches /\ FrameInv /\ ValueInv
  /\ AttributionInv /\ RelayInv /\ KeyInv /\ LateInv
  /\ LinkTrue

USE LocksAssumption, BoundsAssumption
-----------------------------------------------------------------------------
(* Sequences, scripts and ranks.                                           *)

LEMMA TailOf ==
  ASSUME NEW S, NEW s \in Seq(S), s # <<>>
  PROVE  /\ Tail(s) \in Seq(S) /\ Head(s) \in S /\ Head(s) = s[1] /\ 1 \in DOMAIN s
         /\ Len(Tail(s)) = Len(s) - 1 /\ DOMAIN s = 1 .. Len(s)
         /\ \A i \in DOMAIN Tail(s) : i + 1 \in DOMAIN s /\ Tail(s)[i] = s[i + 1]
OBVIOUS

LEMMA AppendOf ==
  ASSUME NEW S, NEW s \in Seq(S), NEW e \in S
  PROVE  /\ Append(s, e) \in Seq(S) /\ Len(Append(s, e)) = Len(s) + 1
         /\ DOMAIN Append(s, e) = 1 .. Len(s) + 1 /\ DOMAIN s = 1 .. Len(s)
         /\ Append(s, e)[Len(s) + 1] = e
         /\ \A i \in DOMAIN s : i \in DOMAIN Append(s, e) /\ Append(s, e)[i] = s[i]
OBVIOUS

LEMMA RankOf ==
  ASSUME NEW f
  PROVE  /\ Rank(f) \in 0 .. 8
         /\ Rank(f) = 1 <=> f.op = "iv" /\ f.cred = "cloud"
         /\ Rank(f) = 2 <=> f.op = "slot_09"
         /\ Rank(f) = 3 <=> f.op = "slot_03"
         /\ Rank(f) = 4 <=> f.op = "half_1"
         /\ Rank(f) = 5 <=> f.op = "half_2"
         /\ Rank(f) = 6 <=> f.op = "iv" /\ f.cred = "shared"
         /\ Rank(f) = 7 <=> f.op = "info" /\ f.cred = "shared"
         /\ Rank(f) = 8 <=> f.op = "relay"
BY DEF Rank

\* The scripts, position by position.
LEMMA ScriptOf ==
  /\ Len(Script("link")) = 7 /\ Len(Script("relay")) = 2
  /\ Script("link")[1] = Frame("iv", "cloud") /\ Script("link")[2] = Frame("slot_09", "cloud")
  /\ Script("link")[3] = Frame("slot_03", "cloud") /\ Script("link")[4] = Frame("half_1", "cloud")
  /\ Script("link")[5] = Frame("half_2", "cloud") /\ Script("link")[6] = Frame("iv", "shared")
  /\ Script("link")[7] = Frame("info", "shared")
  /\ Script("relay")[1] = Frame("iv", "shared") /\ Script("relay")[2] = Frame("relay", "shared")
BY DEF Script

\* The frames of a script are written in the order of their ranks.
LEMMA RankAt ==
  /\ \A n \in 1 .. 7 : Rank(Script("link")[n]) = n
  /\ Rank(Script("relay")[1]) = 6 /\ Rank(Script("relay")[2]) = 8
BY ScriptOf DEF Frame, Rank

-----------------------------------------------------------------------------
(* Types.                                                                  *)

LEMMA Types == Typed => TypeOK
<1> SUFFICES ASSUME Typed PROVE TypeOK
  OBVIOUS
<1>1. waiter \in [sem : BOOLEAN, value : Notes] /\ serving \in [Locks -> [cred : Creds, iv : 0 .. 7]]
  BY DEF Typed, Notes, ClientNotes, Ivs
<1>2. session \in {0, 1, 6} /\ pc \in {"idle", "direct", "scan", "fallback", "subscribe",
        "write", "await", "read", "leave", "verdict"}
  BY DEF Typed, Ivs, Opening, Talking
<1> QED BY <1>1, <1>2 DEF Typed, TypeOK

LEMMA InitialValues ==
  /\ FreshWaiter \in [sem : BOOLEAN, value : ClientNotes]
  /\ NoSession \in [cred : Creds, iv : Ivs]
  /\ <<>> \in Seq(Responses) /\ <<>> \in Seq(Frames) /\ <<>> \in Seq(Nat) /\ Len(<<>>) = 0
BY DEF FreshWaiter, NoNote, Note, NoSession, Ivs, ClientNotes, Ops, Creds

LEMMA TypedInit == Init => Typed /\ Control
<1> SUFFICES ASSUME Init PROVE Typed /\ Control
  OBVIOUS
<1>1. at \in 0 .. Len(Script(call.kind)) /\ session \in Ivs
  BY ScriptOf DEF Init, Ivs
<1>2. /\ cached_addr \in [Clients -> [lock : Locks \cup {NoLock}, rightly_typed : BOOLEAN]]
      /\ cached_mac \in [Clients -> Locks \cup {NoLock}]
      /\ call \in [kind : {"link", "relay"}, lock : Locks \cup {NoLock}, key : Keys \cup {NoKey}]
  BY DEF Init, NoAddress
<1>3. slot \in [Locks -> (Keys \cup {NoKey}) \X (Keys \cup {NoKey})] /\ shared_key \in Keys
  <2>1. 1 \in Keys
    BY DEF Keys
  <2> QED BY <2>1 DEF Init
<1>4. /\ serving \in [Locks -> [cred : Creds, iv : Ivs]] /\ inbox \in [Locks -> Seq(Frames)]
      /\ ran \in Seq(Nat) /\ responses \in Seq(Responses) /\ Len(responses) =< 5
      /\ waiter \in [sem : BOOLEAN, value : ClientNotes]
  BY InitialValues DEF Init
<1>5. /\ linked \in Locks \cup {NoLock} /\ connected \in Locks \cup {NoLock}
      /\ pc = "idle" /\ outcome = "none" /\ overwritten \in BOOLEAN
      /\ calls \in 0 .. MaxCalls /\ stray \in 0 .. MaxStray
  <2>1. overwritten \in BOOLEAN
    BY Zenon DEF Init
  <2>2. calls = 0 /\ stray = 0 /\ 0 \in 0 .. MaxCalls /\ 0 \in 0 .. MaxStray
    BY DEF Init
  <2> QED BY <2>1, <2>2 DEF Init
<1>6. Typed
  BY <1>1, <1>2, <1>3, <1>4, <1>5 DEF Typed
<1>7. Control
  BY DEF Init, Control, Opening, Talking
<1> QED BY <1>6, <1>7

\* How many responses are read before each position.
LEMMA ResponsesBeforeOf ==
  /\ \A n \in 1 .. 2 : ResponsesBefore("link", n) = 0 /\ ResponsesBefore("relay", n) = 0
  /\ ResponsesBefore("relay", 3) = 1
  /\ \A n \in 3 .. 6 : ResponsesBefore("link", n) = n - 2
  /\ \A n \in 7 .. 8 : ResponsesBefore("link", n) = n - 3
BY DEF ResponsesBefore

\* The frame under way is one of the script, and what reading its answer adds.
LEMMA CurrentOf ==
  ASSUME Typed, Control, pc \in Talking
  PROVE  /\ call.kind \in {"link", "relay"}
         /\ call.kind = "link" => at \in 1 .. 7 /\ Rank(Current) = at
         /\ call.kind = "relay" => at \in 1 .. 2 /\ Rank(Current) = IF at = 1 THEN 6 ELSE 8
         /\ Current.op \in Ops \ {"none", "push"} /\ Current.cred \in Creds
         /\ Current.op = "iv" => at \in {1, 6} /\ ~AtEnd
         /\ ResponsesBefore(call.kind, at + 1) =
              ResponsesBefore(call.kind, at) + IF Current.op = "iv" THEN 0 ELSE 1
<1>1. call.kind \in {"link", "relay"} /\ at \in 1 .. Len(Script(call.kind))
  BY DEF Typed, Control
<1>2. CASE call.kind = "link"
  <2>1. at \in 1 .. 7
    BY <1>1, <1>2, ScriptOf
  <2>2. Rank(Current) = at
    BY <1>2, <2>1, RankAt DEF Current
  <2>3. at = 1 \/ at = 2 \/ at = 3 \/ at = 4 \/ at = 5 \/ at = 6 \/ at = 7
    BY <2>1
  <2>4. /\ Current.op \in Ops \ {"none", "push"} /\ Current.cred \in Creds
        /\ Current.op = "iv" <=> at \in {1, 6}
    BY <1>2, <2>3, ScriptOf DEF Current, Frame, Ops, Creds
  <2>5. ResponsesBefore("link", at + 1) =
          ResponsesBefore("link", at) + IF at \in {1, 6} THEN 0 ELSE 1
    BY <2>3, ResponsesBeforeOf
  <2> QED BY <1>2, <2>1, <2>2, <2>4, <2>5, ScriptOf DEF AtEnd
<1>3. CASE call.kind = "relay"
  <2>1. at \in 1 .. 2
    BY <1>1, <1>3, ScriptOf
  <2>2. Rank(Current) = IF at = 1 THEN 6 ELSE 8
    BY <1>3, <2>1, RankAt DEF Current
  <2>3. at = 1 \/ at = 2
    BY <2>1
  <2>4. /\ Current.op \in Ops \ {"none", "push"} /\ Current.cred \in Creds
        /\ Current.op = "iv" <=> at = 1
    BY <1>3, <2>3, ScriptOf DEF Current, Frame, Ops, Creds
  <2>5. ResponsesBefore("relay", at + 1) =
          ResponsesBefore("relay", at) + IF at = 1 THEN 0 ELSE 1
    BY <2>3, ResponsesBeforeOf
  <2> QED BY <1>3, <2>1, <2>2, <2>4, <2>5, ScriptOf DEF AtEnd
<1> QED BY <1>1, <1>2, <1>3

LEMMA WrittenOf ==
  ASSUME Typed, Control, pc \in Talking
  PROVE  /\ Written \in Frames
         /\ Written.op = Current.op /\ Written.cred = Current.cred
         /\ Written.key = call.key /\ Written.call = calls
         /\ Rank(Written) = Rank(Current)
<1>1. /\ Written.op = Current.op /\ Written.cred = Current.cred
      /\ Written.key = call.key /\ Written.call = calls
  BY DEF Written
<1>2. Rank(Written) = Rank(Current)
  BY <1>1 DEF Rank
<1>3. (IF Current.op = "iv" THEN at ELSE session) \in Ivs
  BY CurrentOf DEF Typed, Ivs
<1>4. call.key \in Keys /\ calls \in Nat
  BY DEF Typed, Control, Talking
<1> QED BY <1>1, <1>2, <1>3, <1>4, CurrentOf DEF Written, Frames

\* Beginning a call.
LEMMA TypedBegin ==
  ASSUME Typed, Control, NEW kind \in {"link", "relay"}, NEW l \in Locks, Begin(kind, l)
  PROVE  Typed' /\ Control'
<1>1. /\ serving' \in [Locks -> [cred : Creds, iv : Ivs]] /\ inbox' \in [Locks -> Seq(Frames)]
  BY InitialValues DEF Begin
<1>2. /\ call' \in [kind : {"link", "relay"}, lock : Locks \cup {NoLock}, key : Keys \cup {NoKey}]
      /\ call'.lock \in Locks /\ call'.key \in Keys /\ call'.kind = kind
  BY DEF Begin, Typed
<1>3. at' = 0 /\ at' \in 0 .. Len(Script(kind))
  BY ScriptOf DEF Begin, Control, Talking
<1>4. Typed'
  <2>1. /\ pc' = "direct" /\ outcome' = "running"
        /\ UNCHANGED <<shared_key, linked, cached_mac, cached_addr, session, responses,
                       waiter, connected, slot, ran, stray>>
    BY DEF Begin
  <2>2. overwritten' \in BOOLEAN
    BY Zenon DEF Begin
  <2>3. calls' \in 0 .. MaxCalls
    BY DEF Begin, Typed
  <2> QED BY <1>1, <1>2, <1>3, <2>1, <2>2, <2>3 DEF Typed, Opening
<1>5. Control'
  BY <1>2, <1>3 DEF Begin, Control, Opening, Talking
<1> QED BY <1>4, <1>5

\* Every action of the task of the call.
LEMMA TypedCall ==
  ASSUME Typed, Control, CacheMatches, ValueInv, CallStep
  PROVE  Typed' /\ Control'
<1>1. CASE DirectConnect
  <2>1. Self \in Clients /\ call.lock \in Locks
    BY <1>1 DEF DirectConnect, Control, Self, Client, Clients
  <2>2. Target \in [lock : Locks \cup {NoLock}, rightly_typed : BOOLEAN]
    BY <2>1 DEF Target, Typed, AddressFromMac
  <2>3. Target.lock = call.lock
    BY <2>1 DEF Target, CacheOk, CacheMatches, AddressFromMac
  <2> HIDE DEF Target, Self
  <2>4. Typed'
    BY <1>1, <2>1, <2>2, <2>3 DEF DirectConnect, Connected, Typed, Opening, lock
  <2>5. Control'
    BY <1>1, <2>1, <2>3 DEF DirectConnect, Connected, Control, Opening, Talking
  <2> QED BY <2>4, <2>5
<1>2. CASE DirectConnectFails
  BY <1>2 DEF DirectConnectFails, Typed, Control, Opening, Talking, lock, Self, Client, Clients
<1>3. CASE ScanFinds
  BY <1>3 DEF ScanFinds, Typed, Control, Opening, Talking, lock
<1>4. CASE FallbackConnect
  BY <1>4 DEF FallbackConnect, Connected, Typed, Control, Opening, Talking, lock, Self, Client,
    Clients, Advertised
<1>5. CASE ConnectFails
  BY <1>5 DEF ConnectFails, Fail, Leave, Typed, Control, Opening, Talking, lock
<1>6. CASE Subscribe
  <2>1. at' \in 1 .. Len(Script(call.kind))
    BY <1>6, ScriptOf DEF Subscribe, Typed
  <2>2. Len(responses) = ResponsesBefore(call.kind, at')
    BY <1>6, ResponsesBeforeOf DEF Subscribe, Typed, Control, Opening
  <2> QED BY <1>6, <2>1, <2>2 DEF Subscribe, Typed, Control, Opening, Talking, lock
<1>7. CASE Write
  BY <1>7, WrittenOf DEF Write, Delivered, Typed, Control, Opening, Talking, lock
<1>8. CASE WriteFails
  <2>1. inbox' \in [Locks -> Seq(Frames)]
    <3>1. Written \in Frames
      BY <1>8, WrittenOf DEF WriteFails, Talking
    <3>2. inbox[connected] \in Seq(Frames) => Append(inbox[connected], Written) \in Seq(Frames)
      BY <3>1
    <3> HIDE DEF Written
    <3>3. inbox \in [Locks -> Seq(Frames)]
      BY DEF Typed
    <3>4. inbox' = inbox \/ inbox' = [inbox EXCEPT ![connected] = Append(inbox[connected], Written)]
      BY <1>8 DEF WriteFails, Delivered
    <3> QED BY <3>2, <3>3, <3>4
  <2> QED BY <1>8, <2>1 DEF WriteFails, Leave, Typed, Control, Opening, Talking
<1>9. CASE Take
  BY <1>9 DEF Take, Typed, Control, Opening, Talking, lock
<1>10. CASE Timeout
  BY <1>10 DEF Timeout, AfterTimeout, Fail, Leave, Typed, Control, Opening, Talking, lock
<1>11. CASE ReadIv
  <2>1. session' \in Ivs
    BY <1>11 DEF ReadIv, Typed, ClientNotes
  <2>2. pc' = "write" /\ at' = at + 1 /\ at' \in 1 .. Len(Script(call.kind))
    BY <1>11, CurrentOf, ScriptOf DEF ReadIv, Proceed, AtEnd, Talking
  <2>3. Len(responses) = ResponsesBefore(call.kind, at')
    BY <1>11, <2>2, CurrentOf DEF ReadIv, Control, Talking
  <2> QED BY <1>11, <2>1, <2>2, <2>3 DEF ReadIv, Proceed, Typed, Control, Opening, Talking, lock
<1>12. CASE ReadIvFails
  BY <1>12 DEF ReadIvFails, Fail, Leave, Typed, Control, Opening, Talking, lock
<1>13. CASE ReadResponse
  <2>1. PICK n \in Nat : n = Len(responses)
    BY DEF Typed
  <2>2. Decrypt(waiter.value) \in Responses
    <3>1. waiter.value.ok => waiter.value.op # "none"
      BY DEF ValueInv
    <3>2. waiter.value.op \in Ops /\ waiter.value.ok \in BOOLEAN
      BY DEF Typed, ClientNotes
    <3> QED BY <3>1, <3>2 DEF Decrypt, Reply, Responses, Ops
  <2>3. responses' \in Seq(Responses) /\ Len(responses') = n + 1
    BY <1>13, <2>1, <2>2, AppendOf DEF ReadResponse, Typed
  <2>4. n + 1 = ResponsesBefore(call.kind, at + 1)
    BY <1>13, <2>1, CurrentOf DEF ReadResponse, Control, Talking
  <2>5. n + 1 =< 5
    BY <1>13, <2>4, CurrentOf, ResponsesBeforeOf DEF ReadResponse, Talking
  <2>6. CASE AtEnd
    <3>1. n + 1 = ResponsesBefore(call.kind, Len(Script(call.kind)) + 1)
      BY <2>4, <2>6 DEF AtEnd
    <3>2. pc' = "leave" /\ at' = at
      BY <1>13, <2>6 DEF ReadResponse, Proceed
    <3> QED BY <1>13, <2>3, <2>5, <3>1, <3>2
          DEF ReadResponse, Proceed, Typed, Control, Opening, Talking, lock
  <2>7. CASE ~AtEnd
    <3>1. pc' = "write" /\ at' = at + 1 /\ at' \in 1 .. Len(Script(call.kind))
      BY <1>13, <2>7, CurrentOf, ScriptOf DEF ReadResponse, Proceed, AtEnd, Talking
    <3> QED BY <1>13, <2>3, <2>4, <2>5, <3>1
          DEF ReadResponse, Proceed, Typed, Control, Opening, Talking, lock
  <2> QED BY <2>6, <2>7
<1>14. CASE Disconnect
  <2>1. responses' \in Seq(Responses) /\ Len(responses') =< 5
    BY <1>14, InitialValues DEF Disconnect, Typed
  <2>2. at' \in 0 .. Len(Script(call.kind)) /\ session' \in Ivs
    BY <1>14, ScriptOf DEF Disconnect, Typed, Ivs
  <2> QED BY <1>14, <2>1, <2>2, InitialValues
        DEF Disconnect, WaiterAfter, Typed, Control, Opening, Talking, lock
<1>15. CASE LinkSucceeds
  BY <1>15 DEF LinkSucceeds, Returned, Typed, Control, Opening, Talking, lock
<1>16. CASE LinkFails
  <2>1. Typed'
    <3>1. responses' = <<>> /\ outcome' = "failed" /\ pc' = "idle"
      BY <1>16 DEF LinkFails, Returned
    <3>2. UNCHANGED <<shared_key, linked, cached_mac, cached_addr, call, at, session, waiter,
                      connected, lock, calls, stray, overwritten>>
      BY <1>16 DEF LinkFails, Returned
    <3> QED BY <3>1, <3>2, InitialValues DEF Typed, lock
  <2>2. Control'
    BY <1>16 DEF LinkFails, Returned, Control, Opening, Talking
  <2> QED BY <2>1, <2>2
<1>17. CASE RelayEnds
  BY <1>17 DEF RelayEnds, Returned, Typed, Control, Opening, Talking, lock
<1> QED BY <1>1, <1>2, <1>3, <1>4, <1>5, <1>6, <1>7, <1>8, <1>9, <1>10, <1>11, <1>12,
  <1>13, <1>14, <1>15, <1>16, <1>17 DEF CallStep

\* Every action of the lock.
LEMMA TypedLock ==
  ASSUME Typed, Control, FrameInv, NEW l \in Locks, LockStep(l)
  PROVE  Typed' /\ Control'
<1>1. ASSUME NEW m \in Locks, NEW n \in ClientNotes, Notify(m, n),
             UNCHANGED <<client, connected, outcome>>, ~(pc \in Opening \cup {"idle", "verdict"})
      PROVE  /\ waiter' \in [sem : BOOLEAN, value : ClientNotes]
             /\ overwritten' \in BOOLEAN /\ Control'
  <2>1. overwritten' \in BOOLEAN /\ (waiter' = waiter \/ waiter' = [sem |-> TRUE, value |-> n])
    BY <1>1, Zenon DEF Notify, Typed
  <2>2. waiter' \in [sem : BOOLEAN, value : ClientNotes]
    <3>1. [sem |-> TRUE, value |-> n] \in [sem : BOOLEAN, value : ClientNotes]
      BY <1>1
    <3> QED BY <2>1, <3>1 DEF Typed
  <2>3. Control'
    <3>1. pc \in Talking \cup {"leave"}
      BY <1>1 DEF Typed
    <3> QED BY <1>1, <3>1 DEF Control, client
  <2> QED BY <2>1, <2>2, <2>3
<1>2. ASSUME NEW m \in Locks, NEW n \in ClientNotes, Notify(m, n),
             UNCHANGED <<client, connected, outcome>>, pc \in {"idle", "verdict"}
      PROVE  /\ waiter' \in [sem : BOOLEAN, value : ClientNotes]
             /\ overwritten' \in BOOLEAN /\ Control'
  <2>1. connected # m
    BY <1>2 DEF Control, Talking
  <2> QED BY <1>2, <2>1 DEF Notify, Control, Opening, Talking, client, Typed
<1>3. ASSUME Served(l)
      PROVE  /\ inbox' \in [Locks -> Seq(Frames)] /\ Head(inbox[l]) \in Frames
             /\ pc \notin Opening /\ UNCHANGED <<client, connected, outcome>>
             /\ UNCHANGED <<shared_key, linked, calls, stray>>
  <2>1. Tail(inbox[l]) \in Seq(Frames) /\ Head(inbox[l]) \in Frames
    BY <1>3, TailOf DEF Served, Typed
  <2> QED BY <1>3, <2>1 DEF Served, Typed, FrameInv
<1>4. CASE OpensSession(l) \/ Executes(l) \/ Refuses(l)
  <2>1. PICK f \in Frames : f = Head(inbox[l])
    BY <1>3, <1>4 DEF OpensSession, Executes, Refuses
  <2>2. PICK n \in ClientNotes : Notify(l, n)
    <3>1. /\ Note("iv", f.cred, f.iv, TRUE) \in ClientNotes
          /\ Note(f.op, f.cred, f.iv, TRUE) \in ClientNotes
          /\ Note(f.op, f.cred, f.iv, FALSE) \in ClientNotes
      BY DEF Frames, Note, ClientNotes, Ops
    <3> QED BY <1>4, <2>1, <3>1 DEF OpensSession, Executes, Refuses
  <2>3. /\ serving' \in [Locks -> [cred : Creds, iv : Ivs]]
        /\ slot' \in [Locks -> (Keys \cup {NoKey}) \X (Keys \cup {NoKey})]
        /\ ran' \in Seq(Nat)
    <3>1. f.call \in Nat /\ f.key \in Keys /\ f.cred \in Creds /\ f.iv \in Ivs
      BY DEF Frames
    <3>2. serving' \in [Locks -> [cred : Creds, iv : Ivs]]
      <4>1. [cred |-> f.cred, iv |-> f.iv] \in [cred : Creds, iv : Ivs]
        BY <3>1
      <4> QED BY <1>4, <2>1, <4>1 DEF OpensSession, Executes, Refuses, Typed
    <3>3. SlotAfter(l, f) \in [Locks -> (Keys \cup {NoKey}) \X (Keys \cup {NoKey})]
      <4> DEFINE Halves == Keys \cup {NoKey}
      <4>1. f.key \in Halves /\ slot \in [Locks -> Halves \X Halves]
        BY <3>1 DEF Typed
      <4> HIDE DEF Halves
      <4>2. /\ [slot EXCEPT ![l][1] = f.key] \in [Locks -> Halves \X Halves]
            /\ [slot EXCEPT ![l][2] = f.key] \in [Locks -> Halves \X Halves]
        BY <4>1
      <4> QED BY <4>1, <4>2 DEF SlotAfter, Halves
    <3>4. ran' \in Seq(Nat)
      <4>1. ran' = ran \/ ran' = Append(ran, f.call)
        BY <1>4, <2>1 DEF OpensSession, Executes, Refuses
      <4>2. Append(ran, f.call) \in Seq(Nat)
        BY <3>1, AppendOf DEF Typed
      <4> QED BY <4>1, <4>2 DEF Typed
    <3> QED BY <1>4, <2>1, <3>2, <3>3, <3>4 DEF OpensSession, Executes, Refuses, Typed
  <2>4. Served(l)
    BY <1>4 DEF OpensSession, Executes, Refuses
  <2>5. /\ waiter' \in [sem : BOOLEAN, value : ClientNotes]
        /\ overwritten' \in BOOLEAN /\ Control'
    BY <1>1, <1>2, <1>3, <2>2, <2>4
  <2> QED BY <1>3, <2>3, <2>4, <2>5 DEF Typed, client
<1>5. CASE Ignores(l)
  <2>1. Control'
    BY <1>3, <1>5 DEF Ignores, Control, client
  <2> QED BY <1>3, <1>5, <2>1 DEF Ignores, Typed, client
<1>6. CASE Strays(l)
  <2>1. PICK n \in ClientNotes : Notify(l, n)
    <3>1. waiter.value \in ClientNotes /\ serving[l].cred \in Creds /\ serving[l].iv \in Ivs
      BY DEF Typed
    <3>2. Note("push", serving[l].cred, serving[l].iv, TRUE) \in ClientNotes
      BY <3>1 DEF Note, ClientNotes, Ops
    <3> QED BY <1>6, <3>1, <3>2 DEF Strays
  <2>2. ~(pc \in Opening \cup {"idle", "verdict"}) /\ UNCHANGED <<client, connected, outcome>>
    BY <1>6 DEF Strays, Control, Opening, Talking
  <2>3. /\ waiter' \in [sem : BOOLEAN, value : ClientNotes]
        /\ overwritten' \in BOOLEAN /\ Control'
    BY <1>1, <2>1, <2>2
  <2>4. stray' \in 0 .. MaxStray
    BY <1>6 DEF Strays, Typed
  <2> QED BY <1>6, <2>3, <2>4 DEF Strays, Typed, client, lock
<1> QED BY <1>4, <1>5, <1>6 DEF LockStep
-----------------------------------------------------------------------------
(* The address cache.                                                      *)

LEMMA CacheCall ==
  ASSUME Typed, Control, CacheMatches, CallStep
  PROVE  CacheMatches'
<1>1. Self \in Clients /\ (pc # "idle" => call.lock \in Locks)
  BY DEF Control, Self, Client, Clients
<1>2. CASE DirectConnect \/ FallbackConnect
  <2>1. PICK addr \in [lock : Locks \cup {NoLock}, rightly_typed : BOOLEAN] :
          addr.lock = call.lock /\ Connected(addr)
    <3>1. call.lock \in Locks
      BY <1>1, <1>2 DEF DirectConnect, FallbackConnect
    <3>2. /\ Target \in [lock : Locks \cup {NoLock}, rightly_typed : BOOLEAN]
          /\ Target.lock = call.lock
      BY <1>1, <3>1 DEF Target, CacheOk, CacheMatches, AddressFromMac, Typed
    <3>3. /\ Advertised(call.lock) \in [lock : Locks \cup {NoLock}, rightly_typed : BOOLEAN]
          /\ Advertised(call.lock).lock = call.lock
      BY <3>1 DEF Advertised
    <3> QED BY <1>2, <3>2, <3>3 DEF DirectConnect, FallbackConnect
  <2> QED BY <1>1, <2>1 DEF Connected, CacheMatches, Typed
<1>3. CASE DirectConnectFails
  BY <1>1, <1>3 DEF DirectConnectFails, CacheMatches, Typed
<1>4. CASE ~DirectConnect /\ ~FallbackConnect /\ ~DirectConnectFails
  <2>1. UNCHANGED <<cached_mac, cached_addr>>
    BY <1>4 DEF CallStep, ScanFinds, ConnectFails, Fail, Leave, Subscribe, Write, WriteFails, Take,
      Timeout, AfterTimeout, ReadIv, ReadIvFails, ReadResponse, Proceed, Disconnect,
      LinkSucceeds, LinkFails, RelayEnds, Returned
  <2> QED BY <2>1 DEF CacheMatches
<1> QED BY <1>2, <1>3, <1>4

LEMMA CacheLock ==
  ASSUME CacheMatches, NEW l \in Locks, LockStep(l)
  PROVE  CacheMatches'
BY DEF LockStep, OpensSession, Executes, Refuses, Ignores, Strays, Served, client, CacheMatches

-----------------------------------------------------------------------------
(* Frames and the last notification.                                       *)

\* The part of the state those two invariants speak of.
Letters == <<inbox, call, calls>>

\* Nothing waits at the lock, or is written, outside a session.
LEMMA FramesOutside ==
  ASSUME FrameInv, ValueInv, UNCHANGED Letters, UNCHANGED <<waiter, overwritten>>,
         pc' \notin Talking, pc' \in Opening => pc \in Opening
  PROVE  FrameInv' /\ ValueInv'
<1>1. FrameInv'
  BY DEF FrameInv, Letters, Talking, Opening
<1>2. ValueInv'
  BY DEF ValueInv, Letters, Talking
<1> QED BY <1>1, <1>2

LEMMA FramesCall ==
  ASSUME Typed, Control, FrameInv, ValueInv, CallStep
  PROVE  FrameInv' /\ ValueInv'
<1>1. CASE \/ DirectConnect \/ DirectConnectFails \/ ScanFinds \/ FallbackConnect
           \/ ConnectFails \/ Timeout \/ ReadIvFails \/ LinkSucceeds \/ LinkFails \/ RelayEnds
  <2>1. UNCHANGED Letters /\ UNCHANGED <<waiter, overwritten>>
    BY <1>1 DEF DirectConnect, DirectConnectFails, ScanFinds, FallbackConnect, Connected,
      ConnectFails, Fail, Leave, Timeout, AfterTimeout, ReadIvFails, LinkSucceeds, LinkFails,
      RelayEnds, Returned, lock, Letters
  <2>2. pc' \notin Talking /\ (pc' \in Opening => pc \in Opening)
    BY <1>1 DEF DirectConnect, DirectConnectFails, ScanFinds, FallbackConnect, Connected,
      ConnectFails, Fail, Leave, Timeout, AfterTimeout, ReadIvFails, LinkSucceeds, LinkFails,
      RelayEnds, Returned, Talking, Opening
  <2> QED BY <2>1, <2>2, FramesOutside
<1>2. CASE Subscribe
  <2>1. /\ UNCHANGED Letters /\ UNCHANGED <<waiter, overwritten>> /\ pc' = "write" /\ at' = 1
        /\ \A l \in Locks : inbox[l] = <<>>
    BY <1>2 DEF Subscribe, Letters, lock, FrameInv, Opening
  <2>2. Rank(Current') > Rank(waiter.value)
    <3>1. Rank(waiter.value) = 0
      BY <1>2 DEF Subscribe, Control, Talking, FreshWaiter, NoNote, Note, Rank
    <3>2. Current' \in {Frame("iv", "cloud"), Frame("iv", "shared")}
      BY <2>1, ScriptOf DEF Current, Letters, Typed
    <3>3. Rank(Current') > 0
      BY <3>2 DEF Frame, Rank
    <3> QED BY <3>1, <3>3, RankOf
  <2>3. FrameInv'
    BY <2>1 DEF FrameInv, Letters, Opening
  <2>4. ValueInv'
    BY <2>1, <2>2, RankOf DEF ValueInv, Letters
  <2> QED BY <2>3, <2>4
<1>3. CASE Write \/ WriteFails
  <2>1. /\ pc = "write" /\ pc' \in {"await", "leave"} /\ connected = call.lock
        /\ call.lock \in Locks
        /\ UNCHANGED <<call, calls, at, waiter, overwritten>>
        /\ Delivered \/ UNCHANGED inbox
    BY <1>3 DEF Write, WriteFails, Leave, Control, Talking
  <2>2. CASE UNCHANGED inbox
    <3>1. FrameInv'
      BY <2>1, <2>2 DEF FrameInv, Opening, Talking, Current
    <3>2. ValueInv'
      BY <2>1, <2>2 DEF ValueInv, Talking, Current
    <3> QED BY <3>1, <3>2
  <2>3. CASE Delivered
    <3>1. PICK f \in Frames : f = Written
      BY <2>1, WrittenOf DEF Talking
    <3>2. f.key = call.key /\ f.call = calls /\ Rank(f) = Rank(Current) /\ Rank(f) > 0
      <4>1. f.key = call.key /\ f.call = calls /\ Rank(f) = Rank(Current)
        BY <2>1, <3>1, WrittenOf DEF Talking
      <4>2. Rank(Current) > 0
        BY <2>1, CurrentOf DEF Talking
      <4> QED BY <4>1, <4>2
    <3>3. /\ inbox' = [inbox EXCEPT ![call.lock] = Append(inbox[call.lock], f)]
          /\ inbox[call.lock] \in Seq(Frames)
      BY <2>1, <2>3, <3>1 DEF Delivered, Typed
    <3>4. PICK s \in Seq(Frames) : s = inbox[call.lock]
      BY <3>3
    <3>5. /\ inbox'[call.lock] = Append(s, f)
          /\ \A l \in Locks \ {call.lock} : inbox'[l] = <<>>
      BY <2>1, <3>3, <3>4 DEF FrameInv, Typed
    <3>6. /\ \A i \in DOMAIN s : s[i].key = call.key /\ s[i].call = calls
                                 /\ Rank(s[i]) > 0 /\ Rank(s[i]) < Rank(f)
                                 /\ Rank(waiter.value) < Rank(s[i])
          /\ \A i, j \in DOMAIN s : i < j => Rank(s[i]) < Rank(s[j])
      BY <2>1, <3>2, <3>4 DEF FrameInv, ValueInv, Talking
    <3>7. /\ \A i \in DOMAIN Append(s, f) :
               Append(s, f)[i].key = call.key /\ Append(s, f)[i].call = calls
               /\ Rank(Append(s, f)[i]) > 0 /\ Rank(Append(s, f)[i]) =< Rank(f)
          /\ \A i, j \in DOMAIN Append(s, f) :
               i < j => Rank(Append(s, f)[i]) < Rank(Append(s, f)[j])
          /\ \A i \in DOMAIN Append(s, f) : Rank(waiter.value) < Rank(Append(s, f)[i])
      <4>1. /\ Rank(waiter.value) < Rank(f) /\ Rank(f) \in 0 .. 8
            /\ Len(s) \in Nat
        BY <2>1, <3>2, RankOf DEF ValueInv
      <4>2. \A i \in DOMAIN Append(s, f) :
              \/ i \in DOMAIN s /\ Append(s, f)[i] = s[i] /\ i < Len(s) + 1
              \/ i = Len(s) + 1 /\ Append(s, f)[i] = f
        BY AppendOf
      <4>3. \A i \in DOMAIN Append(s, f) :
              /\ Append(s, f)[i].key = call.key /\ Append(s, f)[i].call = calls
              /\ Rank(Append(s, f)[i]) > 0 /\ Rank(waiter.value) < Rank(Append(s, f)[i])
        BY <3>2, <3>6, <4>1, <4>2
      <4>4. \A i \in DOMAIN Append(s, f) : Rank(Append(s, f)[i]) =< Rank(f)
        BY <3>6, <4>1, <4>2, RankOf
      <4>5. \A i, j \in DOMAIN Append(s, f) :
              i < j => Rank(Append(s, f)[i]) < Rank(Append(s, f)[j])
        <5> TAKE i, j \in DOMAIN Append(s, f)
        <5>1. CASE j \in DOMAIN s /\ Append(s, f)[j] = s[j] /\ j < Len(s) + 1
          BY <3>6, <4>1, <4>2, <5>1, AppendOf
        <5>2. CASE j = Len(s) + 1 /\ Append(s, f)[j] = f
          BY <3>6, <4>1, <4>2, <5>2
        <5> QED BY <4>2, <5>1, <5>2
      <4> QED BY <4>3, <4>4, <4>5
    <3>8. Rank(Current') = Rank(f)
      BY <2>1, <3>2 DEF Current
    <3>9. FrameInv'
      <4> DEFINE q == Append(s, f)
      <4>1. /\ \A l \in Locks : l = call'.lock \/ inbox'[l] = <<>>
            /\ pc' \notin Opening /\ pc' # "write" /\ call' = call /\ calls' = calls
        BY <2>1, <3>5 DEF Opening
      <4>2. inbox'[call'.lock] = q
        BY <2>1, <3>5
      <4>3. /\ \A i \in DOMAIN q : q[i].key = call'.key /\ q[i].call = calls' /\ Rank(q[i]) > 0
                                   /\ Rank(q[i]) =< Rank(Current')
            /\ \A i, j \in DOMAIN q : i < j => Rank(q[i]) < Rank(q[j])
        BY <3>7, <3>8, <4>1
      <4> HIDE DEF q
      <4> QED BY <4>1, <4>2, <4>3 DEF FrameInv
    <3>10. ValueInv'
      <4>1. Rank(waiter.value) =< Rank(Current')
        BY <2>1, <3>2, <3>8, RankOf DEF ValueInv
      <4>2. \A l \in Locks : l = call.lock \/ inbox'[l] = <<>>
        BY <3>5
      <4>3. \A l \in Locks : \A i \in DOMAIN inbox'[l] : Rank(waiter.value) < Rank(inbox'[l][i])
        <5> DEFINE q == Append(s, f)
        <5>1. inbox'[call.lock] = q /\ \A i \in DOMAIN q : Rank(waiter.value) < Rank(q[i])
          BY <3>5, <3>7
        <5> HIDE DEF q
        <5> QED BY <4>2, <5>1
      <4>4. waiter' = waiter /\ pc' # "write" /\ pc' # "read"
        BY <2>1
      <4> QED BY <4>1, <4>3, <4>4 DEF ValueInv
    <3> QED BY <3>9, <3>10
  <2> QED BY <2>1, <2>2, <2>3
<1>4. CASE Take
  <2>1. /\ pc = "await" /\ pc' = "read" /\ UNCHANGED Letters /\ UNCHANGED <<at, overwritten>>
        /\ waiter'.value = waiter.value /\ ~waiter'.sem
    BY <1>4 DEF Take, Letters, lock, Typed
  <2>2. FrameInv'
    BY <2>1 DEF FrameInv, Letters, Opening, Talking, Current
  <2>3. ValueInv'
    BY <2>1 DEF ValueInv, Letters, Talking, Current
  <2> QED BY <2>2, <2>3
<1>5. CASE ReadIv \/ ReadResponse
  <2>1. /\ pc = "read" /\ UNCHANGED Letters /\ UNCHANGED <<waiter, overwritten>>
        /\ \/ pc' = "leave"
           \/ pc' = "write" /\ at' = at + 1 /\ ~AtEnd
    BY <1>5 DEF ReadIv, ReadResponse, Proceed, Letters, lock
  <2>2. CASE pc' = "leave"
    BY <2>1, <2>2, FramesOutside DEF Talking, Opening
  <2>3. CASE pc' = "write" /\ at' = at + 1 /\ ~AtEnd
    <3>1. Rank(Current) < Rank(Current')
      <4>1. CASE call.kind = "link"
        <5>1. at \in 1 .. 6 /\ Rank(Current) = at
          <6>1. at \in 1 .. 7 /\ Rank(Current) = at
            BY <2>1, <4>1, CurrentOf DEF Talking
          <6>2. at # 7
            BY <2>3, <4>1, ScriptOf DEF AtEnd
          <6> QED BY <6>1, <6>2
        <5>2. Rank(Script("link")[at + 1]) = at + 1
          BY <5>1, RankAt
        <5>3. Rank(Current') = at + 1
          BY <2>1, <2>3, <4>1, <5>2 DEF Current, Letters
        <5> QED BY <5>1, <5>3
      <4>2. CASE call.kind = "relay"
        <5>1. at = 1 /\ Rank(Current) = 6
          <6>1. at \in 1 .. 2 /\ Rank(Current) = IF at = 1 THEN 6 ELSE 8
            BY <2>1, <4>2, CurrentOf DEF Talking
          <6>2. at # 2
            BY <2>3, <4>2, ScriptOf DEF AtEnd
          <6> QED BY <6>1, <6>2
        <5>2. Rank(Current') = 8
          BY <2>1, <2>3, <4>2, <5>1, RankAt DEF Current, Letters
        <5> QED BY <5>1, <5>2
      <4> QED BY <2>1, <4>1, <4>2, CurrentOf DEF Talking
    <3>2. /\ \A l \in Locks : \A i \in DOMAIN inbox[l] : Rank(inbox[l][i]) < Rank(Current')
          /\ Rank(waiter.value) < Rank(Current')
      BY <2>1, <3>1, RankOf DEF FrameInv, ValueInv, Talking
    <3>3. FrameInv'
      BY <2>1, <2>3, <3>2, RankOf DEF FrameInv, Letters, Opening
    <3>4. ValueInv'
      BY <2>1, <2>3, <3>2, RankOf DEF ValueInv, Letters
    <3> QED BY <3>3, <3>4
  <2> QED BY <2>1, <2>2, <2>3
<1>6. CASE Disconnect
  <2>1. UNCHANGED Letters /\ pc' \in {"verdict", "idle"} /\ pc = "leave" /\ waiter' = FreshWaiter
    BY <1>6 DEF Disconnect, Letters, lock, WaiterAfter
  <2>2. /\ Rank(waiter'.value) = 0 /\ ~waiter'.value.ok
    BY <2>1 DEF FreshWaiter, NoNote, Note, Rank
  <2>3. FrameInv'
    BY <2>1 DEF FrameInv, Letters, Opening, Talking
  <2>4. ValueInv'
    BY <2>1, <2>2 DEF FrameInv, ValueInv, Letters, Talking
  <2> QED BY <2>3, <2>4
<1> QED BY <1>1, <1>2, <1>3, <1>4, <1>5, <1>6 DEF CallStep

\* Serving a frame leaves the later ones, and what answers it is of its rank.
LEMMA ServedOf ==
  ASSUME Typed, Control, FrameInv, ValueInv, NEW l \in Locks, Served(l)
  PROVE  /\ l = call.lock /\ pc \notin Opening /\ Head(inbox[l]) \in Frames
         /\ 1 \in DOMAIN inbox[l] /\ Head(inbox[l]) = inbox[l][1]
         /\ Head(inbox[l]).key = call.key /\ Head(inbox[l]).call = calls
         /\ Rank(Head(inbox[l])) > 0 /\ Rank(waiter.value) < Rank(Head(inbox[l]))
         /\ pc \in Talking => Rank(Head(inbox[l])) =< Rank(Current)
         /\ pc = "write" => Rank(Head(inbox[l])) < Rank(Current)
         /\ inbox'[l] = Tail(inbox[l]) /\ \A m \in Locks \ {l} : inbox'[m] = <<>>
         /\ \A i \in DOMAIN inbox'[l] : /\ i + 1 \in DOMAIN inbox[l]
                                        /\ inbox'[l][i] = inbox[l][i + 1]
                                        /\ Rank(Head(inbox[l])) < Rank(inbox'[l][i])
         /\ FrameInv'
         /\ UNCHANGED <<client, calls, stray, connected, outcome>>
<1>1. /\ inbox[l] # <<>> /\ inbox[l] \in Seq(Frames)
      /\ inbox' = [inbox EXCEPT ![l] = Tail(inbox[l])]
      /\ UNCHANGED <<client, calls, stray, connected, outcome>>
  BY DEF Served, Typed
<1>2. PICK s \in Seq(Frames) : s = inbox[l]
  BY <1>1
<1>3. /\ l = call.lock /\ pc \notin Opening
      /\ \A i \in DOMAIN s : s[i].key = call.key /\ s[i].call = calls
                             /\ Rank(s[i]) > 0 /\ Rank(waiter.value) < Rank(s[i])
                             /\ (pc \in Talking => Rank(s[i]) =< Rank(Current))
                             /\ (pc = "write" => Rank(s[i]) < Rank(Current))
      /\ \A i, j \in DOMAIN s : i < j => Rank(s[i]) < Rank(s[j])
  BY <1>1, <1>2 DEF FrameInv, ValueInv
<1>4. /\ Head(s) \in Frames /\ 1 \in DOMAIN s /\ Head(s) = s[1]
      /\ \A i \in DOMAIN Tail(s) : /\ i \in 1 .. Len(s) - 1 /\ i + 1 \in DOMAIN s
                                   /\ Tail(s)[i] = s[i + 1]
  BY <1>1, <1>2, TailOf
<1>5. \A i \in DOMAIN Tail(s) : Rank(s[1]) < Rank(s[i + 1])
  BY <1>3, <1>4
<1>6. \A i, j \in DOMAIN Tail(s) : i < j => Rank(Tail(s)[i]) < Rank(Tail(s)[j])
  <2>1. \A i, j \in DOMAIN Tail(s) : i < j => i + 1 < j + 1
    BY <1>4
  <2> QED BY <1>3, <1>4, <2>1
<1>7. inbox'[l] = Tail(s) /\ \A m \in Locks \ {l} : inbox'[m] = <<>>
  BY <1>1, <1>2, <1>3 DEF FrameInv, Typed
<1>8. UNCHANGED <<call, pc, calls, at>>
  BY <1>1 DEF client
<1>9. FrameInv'
  <2> DEFINE t == Tail(s)
  <2>1. \A i \in DOMAIN t : t[i].key = call.key /\ t[i].call = calls
                            /\ Rank(t[i]) > 0
                            /\ (pc \in Talking => Rank(t[i]) =< Rank(Current))
                            /\ (pc = "write" => Rank(t[i]) < Rank(Current))
    BY <1>3, <1>4
  <2>2. Rank(Current') = Rank(Current)
    BY <1>8 DEF Current
  <2>3. inbox'[l] = t /\ \A i, j \in DOMAIN t : i < j => Rank(t[i]) < Rank(t[j])
    BY <1>6, <1>7
  <2> HIDE DEF t
  <2>4. \A m \in Locks : m = l \/ inbox'[m] = <<>>
    BY <1>7
  <2> QED BY <1>3, <1>8, <2>1, <2>2, <2>3, <2>4 DEF FrameInv
<1>10. \A i \in DOMAIN inbox'[l] : /\ i + 1 \in DOMAIN inbox[l]
                                   /\ inbox'[l][i] = inbox[l][i + 1]
                                   /\ Rank(Head(inbox[l])) < Rank(inbox'[l][i])
  BY <1>2, <1>4, <1>5, <1>7
<1>11. /\ Head(inbox[l]) \in Frames /\ Head(inbox[l]) = inbox[l][1] /\ 1 \in DOMAIN inbox[l]
       /\ Head(inbox[l]).key = call.key /\ Head(inbox[l]).call = calls
       /\ Rank(Head(inbox[l])) > 0 /\ Rank(waiter.value) < Rank(Head(inbox[l]))
       /\ pc \in Talking => Rank(Head(inbox[l])) =< Rank(Current)
       /\ pc = "write" => Rank(Head(inbox[l])) < Rank(Current)
  BY <1>2, <1>3, <1>4
<1> QED BY <1>1, <1>2, <1>3, <1>7, <1>9, <1>10, <1>11

\* What an answer to a frame is.
LEMMA AnswerOf ==
  ASSUME NEW l \in Locks, NEW f \in Frames, f = Head(inbox[l]), Rank(f) > 0,
         OpensSession(l) \/ Executes(l) \/ Refuses(l)
  PROVE  \E n \in ClientNotes :
           /\ Notify(l, n) /\ n.op = f.op /\ n.iv = f.iv
           /\ Rank(n) = Rank(f) /\ n.op \notin {"none", "push"}
           /\ n.ok /\ f.op # "iv" => Executes(l)
<1> DEFINE note(ok) == Note(f.op, f.cred, f.iv, ok)
<1>1. ASSUME NEW ok \in BOOLEAN
      PROVE  /\ note(ok) \in ClientNotes /\ note(ok).op = f.op /\ note(ok).iv = f.iv
             /\ note(ok).ok = ok /\ Rank(note(ok)) = Rank(f)
             /\ note(ok).op \notin {"none", "push"}
  <2>1. note(ok) \in ClientNotes /\ note(ok).ok = ok
    BY DEF Frames, Note, ClientNotes
  <2>2. note(ok).op = f.op /\ note(ok).cred = f.cred /\ note(ok).iv = f.iv
    BY DEF Note
  <2>3. Rank(note(ok)) = Rank(f)
    BY <2>2 DEF Rank
  <2>4. f.op \notin {"none", "push"}
    BY RankOf, Rank(f) > 0 DEF Rank
  <2> QED BY <2>1, <2>2, <2>3, <2>4
<1>2. CASE OpensSession(l)
  <2>1. f.op = "iv" /\ Notify(l, note(TRUE))
    BY <1>2 DEF OpensSession
  <2> HIDE DEF note
  <2> QED BY <1>1, <2>1
<1>3. CASE Executes(l)
  <2>1. Notify(l, note(TRUE))
    BY <1>3 DEF Executes
  <2> HIDE DEF note
  <2> QED BY <1>1, <1>3, <2>1
<1>4. CASE Refuses(l)
  <2>1. Notify(l, note(FALSE))
    BY <1>4 DEF Refuses
  <2> HIDE DEF note
  <2> QED BY <1>1, <2>1
<1> QED BY <1>2, <1>3, <1>4

\* The notification callback keeps ValueInv when what it got is of a served frame.
LEMMA ValueNotified ==
  ASSUME Typed, ValueInv, NEW l \in Locks, NEW n \in ClientNotes, Notify(l, n),
         FrameInv', UNCHANGED <<pc, at, call>>,
         n.ok => n.op # "none",
         \A m \in Locks : \A i \in DOMAIN inbox'[m] :
           Rank(n) < Rank(inbox'[m][i]) /\ Rank(waiter.value) < Rank(inbox'[m][i]),
         pc \in Talking => Rank(n) =< Rank(Current),
         pc = "write" => Rank(n) < Rank(Current)
  PROVE  ValueInv'
<1>1. CASE connected = l
  <2>1. waiter'.value = n /\ waiter'.sem /\ (overwritten' \/ pc # "read")
    <3>1. waiter' = [sem |-> TRUE, value |-> n]
      BY <1>1 DEF Notify
    <3>2. overwritten' = (overwritten \/ waiter.sem \/ pc = "read")
      BY <1>1 DEF Notify
    <3> QED BY <3>1, <3>2
  <2> QED BY <2>1 DEF ValueInv, Current
<1>2. CASE connected # l
  <2>1. UNCHANGED <<waiter, overwritten>>
    BY <1>2 DEF Notify
  <2> QED BY <2>1 DEF ValueInv, Current
<1> QED BY <1>1, <1>2

LEMMA FramesLock ==
  ASSUME Typed, Control, FrameInv, ValueInv, NEW l \in Locks, LockStep(l)
  PROVE  FrameInv' /\ ValueInv'
<1>1. ASSUME Served(l)
      PROVE  /\ FrameInv' /\ UNCHANGED <<pc, at, call>>
             /\ \A m \in Locks : \A i \in DOMAIN inbox'[m] :
                  Rank(Head(inbox[l])) < Rank(inbox'[m][i])
                  /\ Rank(waiter.value) < Rank(inbox'[m][i])
  <2>1. \A i \in DOMAIN inbox'[l] : Rank(Head(inbox[l])) < Rank(inbox'[l][i])
    BY <1>1, ServedOf
  <2>2. \A m \in Locks \ {l} : inbox'[m] = <<>>
    BY <1>1, ServedOf
  <2>3. \A m \in Locks : \A i \in DOMAIN inbox'[m] : Rank(Head(inbox[l])) < Rank(inbox'[m][i])
    BY <2>1, <2>2
  <2>4. Rank(waiter.value) < Rank(Head(inbox[l])) /\ FrameInv' /\ UNCHANGED client
    BY <1>1, ServedOf
  <2> QED BY <2>3, <2>4, RankOf DEF client
<1>2. CASE OpensSession(l) \/ Executes(l) \/ Refuses(l)
  <2>1. Served(l)
    BY <1>2 DEF OpensSession, Executes, Refuses
  <2>2. PICK f \in Frames : f = Head(inbox[l]) /\ Rank(f) > 0
    BY <2>1, ServedOf
  <2>3. PICK n \in ClientNotes : Notify(l, n) /\ Rank(n) = Rank(f) /\ n.op \notin {"none", "push"}
    BY <1>2, <2>2, AnswerOf
  <2>4. /\ pc \in Talking => Rank(n) =< Rank(Current)
        /\ pc = "write" => Rank(n) < Rank(Current)
    BY <2>1, <2>2, <2>3, ServedOf
  <2> QED BY <1>1, <2>1, <2>2, <2>3, <2>4, ValueNotified
<1>3. CASE Ignores(l)
  <2>1. Served(l) /\ UNCHANGED <<waiter, overwritten>>
    BY <1>3 DEF Ignores
  <2> QED BY <1>1, <2>1 DEF ValueInv, Current
<1>4. CASE Strays(l)
  <2>1. UNCHANGED <<inbox, pc, at, call, calls>>
    BY <1>4 DEF Strays, client, lock
  <2>2. FrameInv'
    BY <2>1 DEF FrameInv, Current
  <2>3. PICK n \in ClientNotes : Notify(l, n) /\ (n = waiter.value \/ n.op = "push")
    <3>1. waiter.value \in ClientNotes /\ serving[l].cred \in Creds /\ serving[l].iv \in Ivs
      BY DEF Typed
    <3>2. Note("push", serving[l].cred, serving[l].iv, TRUE) \in ClientNotes
      BY <3>1 DEF Note, ClientNotes, Ops
    <3>3. Note("push", serving[l].cred, serving[l].iv, TRUE).op = "push"
      BY DEF Note
    <3> QED BY <1>4, <3>1, <3>2, <3>3 DEF Strays
  <2>4. Rank(n) = Rank(waiter.value) \/ Rank(n) = 0
    BY <2>3 DEF Rank
  <2>5. Rank(n) =< Rank(waiter.value) /\ (n.ok => n.op # "none")
    BY <2>3, <2>4, RankOf DEF ValueInv
  <2>6. \A m \in Locks : \A i \in DOMAIN inbox'[m] :
          Rank(n) < Rank(inbox'[m][i]) /\ Rank(waiter.value) < Rank(inbox'[m][i])
    BY <2>1, <2>5, RankOf DEF ValueInv
  <2>7. /\ pc \in Talking => Rank(n) =< Rank(Current)
        /\ pc = "write" => Rank(n) < Rank(Current)
    BY <2>5, RankOf DEF ValueInv
  <2> QED BY <2>1, <2>2, <2>3, <2>5, <2>6, <2>7, ValueNotified
<1> QED BY <1>2, <1>3, <1>4 DEF LockStep

-----------------------------------------------------------------------------
(* Answers and the frames they answer.                                     *)

LEMMA AttributionCall ==
  ASSUME Typed, Control, FrameInv, AttributionInv, CallStep
  PROVE  AttributionInv'
<1> SUFFICES ASSUME stray = 0, stray' = 0, pc' \in Talking
             PROVE  AttributionInv'
  <2>1. UNCHANGED stray
    BY DEF CallStep, DirectConnect, DirectConnectFails, ScanFinds, FallbackConnect, Connected,
      ConnectFails, Fail, Leave, Subscribe, Write, WriteFails, Take, Timeout, AfterTimeout,
      ReadIv, ReadIvFails, ReadResponse, Proceed, Disconnect, LinkSucceeds, LinkFails, RelayEnds,
      Returned
  <2> QED BY <2>1 DEF AttributionInv, Talking
<1>1. CASE Subscribe
  BY <1>1 DEF Subscribe, AttributionInv, Control, FrameInv, Opening, Talking, FreshWaiter, lock
<1>2. CASE Write
  <2>1. inbox[call.lock] = <<>> /\ ~waiter.sem /\ connected = call.lock /\ call.lock \in Locks
    BY <1>2 DEF Write, AttributionInv, Control, Talking
  <2>2. inbox'[call.lock] = <<Written>>
    <3>1. inbox'[call.lock] = Append(inbox[call.lock], Written)
      <4>1. inbox' = [inbox EXCEPT ![connected] = Append(@, Written)]
        BY <1>2 DEF Write, Delivered
      <4> HIDE DEF Written
      <4> QED BY <2>1, <4>1 DEF Typed
    <3> HIDE DEF Written
    <3> QED BY <2>1, <3>1
  <2>3. Written' = Written /\ UNCHANGED <<call, waiter>> /\ pc' = "await"
    BY <1>2 DEF Write, Written, Current
  <2> HIDE DEF Written
  <2> QED BY <2>1, <2>2, <2>3 DEF AttributionInv
<1>3. CASE Take
  <2>1. inbox[call.lock] = <<>> /\ AnswersCurrent
    BY <1>3 DEF Take, AttributionInv
  <2>2. /\ UNCHANGED <<call, inbox>> /\ pc' = "read" /\ waiter'.value = waiter.value
        /\ ~waiter'.sem /\ Written' = Written
    BY <1>3 DEF Take, lock, Typed, Written, Current
  <2> HIDE DEF Written
  <2> QED BY <2>1, <2>2 DEF AttributionInv, AnswersCurrent
<1>4. CASE ReadIv \/ ReadResponse
  BY <1>4 DEF ReadIv, ReadResponse, Proceed, AttributionInv, lock, Talking
<1>5. CASE ~Subscribe /\ ~Write /\ ~Take /\ ~ReadIv /\ ~ReadResponse
  BY <1>5 DEF CallStep, DirectConnect, DirectConnectFails, ScanFinds, FallbackConnect, Connected,
    ConnectFails, Fail, Leave, WriteFails, Timeout, AfterTimeout, ReadIvFails, Disconnect,
    LinkSucceeds, LinkFails, RelayEnds, Returned, Talking
<1> QED BY <1>1, <1>2, <1>3, <1>4, <1>5

LEMMA AttributionLock ==
  ASSUME Typed, Control, FrameInv, ValueInv, AttributionInv, NEW l \in Locks, LockStep(l)
  PROVE  AttributionInv'
<1>1. CASE Strays(l)
  BY <1>1 DEF Strays, AttributionInv, Typed
<1>2. CASE ~Strays(l)
  <2>1. Served(l)
    BY <1>2 DEF LockStep, OpensSession, Executes, Refuses, Ignores
  <2>2. /\ l = call.lock /\ inbox[l] # <<>> /\ UNCHANGED <<client, connected, stray, calls>>
    BY <2>1, ServedOf DEF Served
  <2>3. UNCHANGED <<call, pc>> /\ Written' = Written
    BY <2>2 DEF client, Written, Current
  <2> SUFFICES ASSUME stray = 0, pc \in Talking
               PROVE  AttributionInv'
    BY <2>2, <2>3 DEF AttributionInv, Talking
  <2>4. pc = "await" /\ inbox[l] = <<Written>> /\ ~waiter.sem /\ connected = l
    BY <2>2 DEF AttributionInv, Talking, Control
  <2>5. inbox'[l] = <<>>
    BY <2>1, <2>4 DEF Served, Typed
  <2>6. CASE OpensSession(l) \/ Executes(l) \/ Refuses(l)
    <3>1. PICK f \in Frames : f = Head(inbox[l]) /\ Rank(f) > 0
      BY <2>1, ServedOf
    <3>2. PICK n \in ClientNotes : Notify(l, n) /\ n.op = f.op /\ n.iv = f.iv
      BY <2>6, <3>1, AnswerOf
    <3>3. f = Written
      BY <2>4, <3>1
    <3>4. waiter' = [sem |-> TRUE, value |-> n]
      BY <2>4, <3>2 DEF Notify
    <3>5. AnswersCurrent'
      BY <2>3, <3>2, <3>3, <3>4 DEF AnswersCurrent
    <3> QED BY <2>2, <2>3, <2>4, <2>5, <3>5 DEF AttributionInv
  <2>7. CASE Ignores(l)
    <3>1. ~waiter'.sem
      BY <2>4, <2>7 DEF Ignores
    <3> QED BY <2>2, <2>3, <2>4, <2>5, <3>1 DEF AttributionInv
  <2> QED BY <1>2, <2>6, <2>7 DEF LockStep
<1> QED BY <1>1, <1>2

-----------------------------------------------------------------------------
(* Relays.                                                                 *)

LEMMA RelayBegin ==
  ASSUME Typed, RelayInv, NEW kind, NEW l, Begin(kind, l)
  PROVE  RelayInv'
<1>1. calls' = calls + 1 /\ UNCHANGED ran
  BY DEF Begin
<1>2. \A i \in DOMAIN ran : ran[i] \in 0 .. calls
  BY DEF RelayInv
<1>3. \A i \in DOMAIN ran' : ran'[i] \in 0 .. calls' /\ ran'[i] < calls'
  BY <1>1, <1>2 DEF Typed
<1>4. RelaysInOrder'
  BY <1>1 DEF RelayInv, RelaysInOrder
<1> QED BY <1>3, <1>4 DEF RelayInv

LEMMA RelayCall ==
  ASSUME Typed, Control, FrameInv, RelayInv, CallStep
  PROVE  RelayInv'
<1>1. UNCHANGED <<ran, calls, call>>
  BY DEF CallStep, DirectConnect, DirectConnectFails, ScanFinds, FallbackConnect, Connected,
    ConnectFails, Fail, Leave, Subscribe, Write, WriteFails, Take, Timeout, AfterTimeout,
    ReadIv, ReadIvFails, ReadResponse, Proceed, Disconnect, LinkSucceeds, LinkFails, RelayEnds,
    Returned, lock
<1> SUFFICES ASSUME ~RelayWritten' \/ RelayWaits'
             PROVE  ~RelayWritten \/ RelayWaits
  BY <1>1 DEF RelayInv, RelaysInOrder
<1>2. CASE Write \/ WriteFails
  BY <1>2 DEF Write, WriteFails, RelayWritten
<1>3. CASE ReadIv \/ ReadResponse
  <2>1. UNCHANGED inbox
    BY <1>3 DEF ReadIv, ReadResponse, Proceed, lock
  <2>2. CASE RelayWaits'
    BY <2>1, <2>2 DEF RelayWaits
  <2>3. CASE ~RelayWritten' /\ Current.op = "relay"
    <3>1. pc' = "write" /\ ~AtEnd /\ pc = "read"
      BY <1>3, <2>3 DEF ReadIv, ReadResponse, Proceed, RelayWritten
    <3>2. Rank(Current) = 8
      BY <2>3, RankOf
    <3>3. call.kind = "relay" /\ at = 2
      BY <3>1, <3>2, CurrentOf DEF Talking
    <3> QED BY <3>1, <3>3, ScriptOf DEF AtEnd
  <2>4. CASE Current.op # "relay"
    BY <1>3, <2>4 DEF ReadIv, ReadResponse, RelayWritten
  <2> QED BY <2>2, <2>3, <2>4
<1>4. CASE \/ DirectConnect \/ DirectConnectFails \/ ScanFinds \/ FallbackConnect
           \/ ConnectFails \/ Subscribe \/ Disconnect \/ LinkSucceeds \/ LinkFails \/ RelayEnds
  BY <1>4 DEF DirectConnect, DirectConnectFails, ScanFinds, FallbackConnect, Connected,
    ConnectFails, Fail, Leave, Subscribe, Disconnect, LinkSucceeds, LinkFails, RelayEnds,
    Returned, lock, RelayWritten, RelayWaits
<1>5. CASE Take \/ Timeout \/ ReadIvFails
  BY <1>5 DEF Take, Timeout, AfterTimeout, ReadIvFails, Fail, Leave, lock, RelayWritten,
    RelayWaits, Current
<1> QED BY <1>2, <1>3, <1>4, <1>5 DEF CallStep

LEMMA RelayLock ==
  ASSUME Typed, Control, FrameInv, ValueInv, RelayInv, NEW l \in Locks, LockStep(l)
  PROVE  RelayInv'
<1>1. UNCHANGED <<client, calls>>
  BY ServedOf DEF LockStep, OpensSession, Executes, Refuses, Ignores, Strays, Served
<1>2. UNCHANGED <<RelayWritten, calls>>
  BY <1>1 DEF RelayWritten, client, Current
<1>3. CASE Strays(l)
  BY <1>2, <1>3 DEF Strays, RelayInv, RelaysInOrder, RelayWaits, lock
<1>4. CASE ~Strays(l)
  <2>1. Served(l)
    BY <1>4 DEF LockStep, OpensSession, Executes, Refuses, Ignores
  <2>2. PICK f \in Frames : f = Head(inbox[l]) /\ f.call = calls /\ f = inbox[l][1]
    BY <2>1, ServedOf
  <2>3. RelayWaits' => RelayWaits
    <3>1. \A m \in Locks \ {l} : inbox'[m] = <<>>
      BY <2>1, ServedOf
    <3>2. \A i \in DOMAIN inbox'[l] : i + 1 \in DOMAIN inbox[l] /\ inbox'[l][i] = inbox[l][i + 1]
      BY <2>1, ServedOf
    <3> QED BY <3>1, <3>2 DEF RelayWaits
  <2>4. CASE UNCHANGED ran
    BY <1>2, <2>3, <2>4 DEF RelayInv, RelaysInOrder
  <2>5. CASE f.op = "relay" /\ ran' = Append(ran, f.call)
    <3>1. RelayWaits
      BY <2>1, <2>2, <2>5, ServedOf DEF RelayWaits
    <3>2. \A i \in DOMAIN ran : ran[i] \in 0 .. calls /\ ran[i] < calls
      BY <3>1 DEF RelayInv
    <3>3. ran \in Seq(Nat) /\ calls \in Nat /\ Len(ran) \in Nat
      BY DEF Typed
    <3>4. \A i \in DOMAIN ran' : \/ i \in DOMAIN ran /\ ran'[i] = ran[i] /\ i < Len(ran) + 1
                                 \/ i = Len(ran) + 1 /\ ran'[i] = calls
      BY <2>2, <2>5, <3>3, AppendOf
    <3>5. ~RelayWaits'
      <4>1. \A m \in Locks \ {l} : inbox'[m] = <<>>
        BY <2>1, ServedOf
      <4>2. \A i \in DOMAIN inbox'[l] : Rank(f) < Rank(inbox'[l][i])
        BY <2>1, <2>2, ServedOf
      <4>3. Rank(f) = 8
        BY <2>5, RankOf
      <4>4. \A i \in DOMAIN inbox'[l] : FALSE
        BY <4>2, <4>3, RankOf
      <4> QED BY <4>1, <4>4 DEF RelayWaits
    <3>6. RelayWritten'
      <4>1. pc \in Talking => Rank(f) =< Rank(Current)
        BY <2>1, <2>2, ServedOf
      <4>2. pc = "write" => Rank(f) < Rank(Current)
        BY <2>1, <2>2, ServedOf
      <4>3. pc \in Talking => pc # "write" /\ Current.op = "relay"
        BY <2>5, <4>1, <4>2, RankOf
      <4>4. pc \notin Opening
        BY <2>1, ServedOf
      <4> QED BY <1>2, <4>3, <4>4 DEF RelayWritten, Typed, Talking
    <3>7. RelaysInOrder'
      BY <3>2, <3>3, <3>4 DEF RelayInv, RelaysInOrder
    <3>8. \A i \in DOMAIN ran' : ran'[i] \in 0 .. calls'
      BY <1>2, <3>2, <3>3, <3>4
    <3> QED BY <3>5, <3>6, <3>7, <3>8 DEF RelayInv
  <2> QED BY <1>4, <2>2, <2>4, <2>5 DEF LockStep, OpensSession, Executes, Refuses, Ignores
<1> QED BY <1>3, <1>4

-----------------------------------------------------------------------------
(* The key in the lock.                                                    *)

\* A lock writes only the halves that the call gives it.
LEMMA SlotServed ==
  ASSUME Typed, Control, FrameInv, ValueInv, NEW l \in Locks, LockStep(l)
  PROVE  /\ Executes(l) \/ UNCHANGED slot
         /\ slot[call.lock][1] = call.key => slot'[call.lock][1] = call.key
         /\ slot[call.lock][2] = call.key => slot'[call.lock][2] = call.key
         /\ \A f \in Frames : f = Head(inbox[l]) /\ Executes(l) =>
              /\ f.op = "half_1" => slot'[l][1] = call.key
              /\ f.op = "half_2" => slot'[l][2] = call.key
<1>1. CASE Executes(l)
  <2>1. Served(l)
    BY <1>1 DEF Executes
  <2>2. PICK f \in Frames : f = Head(inbox[l]) /\ f.key = call.key
    BY <2>1, ServedOf
  <2>3. slot' = SlotAfter(l, f) /\ l = call.lock
    BY <1>1, <2>1, <2>2, ServedOf DEF Executes
  <2>4. slot \in [Locks -> (Keys \cup {NoKey}) \X (Keys \cup {NoKey})]
    BY DEF Typed
  <2>5. CASE f.op = "half_1"
    <3>1. slot' = [slot EXCEPT ![l][1] = call.key]
      BY <2>2, <2>3, <2>5 DEF SlotAfter
    <3>2. PICK a \in Keys \cup {NoKey}, b \in Keys \cup {NoKey} : slot[l] = <<a, b>>
      BY <2>4
    <3>3. slot'[l] = [<<a, b>> EXCEPT ![1] = call.key]
      BY <2>4, <3>1, <3>2
    <3>4. slot'[l] = <<call.key, b>>
      BY <3>3
    <3> QED BY <1>1, <2>2, <2>3, <2>5, <3>2, <3>4
  <2>6. CASE f.op = "half_2"
    <3>1. slot' = [slot EXCEPT ![l][2] = call.key]
      BY <2>2, <2>3, <2>6 DEF SlotAfter
    <3>2. PICK a \in Keys \cup {NoKey}, b \in Keys \cup {NoKey} : slot[l] = <<a, b>>
      BY <2>4
    <3>3. slot'[l] = [<<a, b>> EXCEPT ![2] = call.key]
      BY <2>4, <3>1, <3>2
    <3>4. slot'[l] = <<a, call.key>>
      BY <3>3
    <3> QED BY <1>1, <2>2, <2>3, <2>6, <3>2, <3>4
  <2>7. CASE f.op \notin {"half_1", "half_2"}
    <3>1. slot' = slot
      BY <2>3, <2>7 DEF SlotAfter
    <3> QED BY <1>1, <2>2, <2>7, <3>1
  <2> QED BY <2>5, <2>6, <2>7
<1>2. CASE ~Executes(l)
  <2>1. UNCHANGED slot
    BY <1>2 DEF LockStep, OpensSession, Refuses, Ignores, Strays, lock
  <2> QED BY <1>2, <2>1
<1> QED BY <1>1, <1>2

\* What can decrypt to what.
LEMMA DecryptOf ==
  ASSUME NEW n \in ClientNotes, n.ok => n.op # "none"
  PROVE  /\ Decrypt(n) = "slot_and_nonce" => n.op = "slot_03"
         /\ Decrypt(n) = "slot" => n.ok /\ n.op \in {"slot_09", "half_1", "half_2"}
         /\ ~n.ok /\ n.op \notin {"iv", "push"} => Decrypt(n) = "empty"
<1>1. n.op \in Ops /\ n.ok \in BOOLEAN
  BY DEF ClientNotes
<1>2. CASE n.op \in {"iv", "push"}
  BY <1>1, <1>2 DEF Decrypt
<1>3. CASE n.op \notin {"iv", "push"} /\ ~n.ok
  BY <1>1, <1>3 DEF Decrypt
<1>4. CASE n.op \notin {"iv", "push"} /\ n.ok
  <2>1. Decrypt(n) \in {Reply(n.op), "long_noise", "short_noise"}
    BY <1>4 DEF Decrypt
  <2>2. /\ Reply(n.op) = "slot_and_nonce" => n.op = "slot_03"
        /\ Reply(n.op) = "slot" => n.op \in {"slot_09", "half_1", "half_2"}
    <3>1. n.op \in Ops \ {"none", "iv", "push"}
      BY <1>1, <1>4
    <3> QED BY <3>1 DEF Reply, Ops
  <2> QED BY <1>4, <2>1, <2>2
<1> QED BY <1>1, <1>2, <1>3, <1>4

\* Reading a response puts it behind the ones read before.
LEMMA ResponseRead ==
  ASSUME Typed, Control, ReadResponse
  PROVE  /\ Len(responses) \in Nat /\ Len(responses') = Len(responses) + 1
         /\ \A i \in 1 .. Len(responses) : responses'[i] = responses[i]
         /\ responses'[Len(responses) + 1] = Decrypt(waiter.value)
         /\ waiter.value \in ClientNotes
         /\ call.kind = "relay" => Len(responses) = 0
         /\ call.kind = "link" => \/ Len(responses) = 0 /\ at = 2
                                  \/ Len(responses) = 1 /\ at = 3
                                  \/ Len(responses) = 2 /\ at = 4
                                  \/ Len(responses) = 3 /\ at = 5
                                  \/ Len(responses) = 4 /\ at = 7
         /\ pc = "read" /\ UNCHANGED <<call, inbox, waiter, slot, stray, overwritten>>
<1>1. PICK r \in Seq(Responses \cup {Decrypt(waiter.value)}) : r = responses
  BY DEF Typed
<1>2. PICK d \in Responses \cup {Decrypt(waiter.value)} : d = Decrypt(waiter.value)
  OBVIOUS
<1>3. responses' = Append(r, d)
  BY <1>1, <1>2 DEF ReadResponse
<1>4. /\ Len(r) \in Nat /\ Len(responses') = Len(r) + 1
      /\ \A i \in 1 .. Len(r) : responses'[i] = r[i]
      /\ responses'[Len(r) + 1] = d
  <2> HIDE DEF Decrypt
  <2> QED BY <1>3, AppendOf
<1>5. pc = "read" /\ Len(responses) = ResponsesBefore(call.kind, at) /\ Current.op # "iv"
  BY DEF ReadResponse, Control, Talking
<1>6. call.kind = "relay" => Len(responses) = 0
  BY <1>5, CurrentOf, ResponsesBeforeOf DEF Talking
<1>7. CASE call.kind = "link"
  <2>1. at \in 1 .. 7 /\ at # 1 /\ at # 6
    BY <1>5, <1>7, CurrentOf, ScriptOf DEF Talking, Current, Frame
  <2> QED BY <1>1, <1>2, <1>4, <1>5, <1>7, <2>1, ResponsesBeforeOf
        DEF ReadResponse, Proceed, lock, Typed
<1>8. CASE call.kind # "link"
  BY <1>1, <1>2, <1>4, <1>5, <1>6, <1>8 DEF ReadResponse, Proceed, lock, Typed
<1> QED BY <1>7, <1>8

LEMMA KeyCall ==
  ASSUME Typed, Control, FrameInv, ValueInv, KeyInv, CallStep
  PROVE  KeyInv'
<1>1. UNCHANGED <<call, slot>> /\ (waiter'.value = waiter.value \/ waiter' = FreshWaiter)
  BY DEF CallStep, DirectConnect, DirectConnectFails, ScanFinds, FallbackConnect, Connected,
    ConnectFails, Fail, Leave, Subscribe, Write, WriteFails, Take, Timeout, AfterTimeout,
    ReadIv, ReadIvFails, ReadResponse, Proceed, Disconnect, LinkSucceeds, LinkFails, RelayEnds,
    Returned, WaiterAfter, lock, Typed
<1>2. HalvesAnswered'
  BY <1>1 DEF KeyInv, HalvesAnswered, FreshWaiter, NoNote, Note
<1>3. CASE ReadResponse
  <2>1. pc = "read" /\ UNCHANGED <<call, inbox, waiter, slot>> /\ waiter.value \in ClientNotes
    BY <1>3, ResponseRead
  <2>2. PICK n \in Nat : n = Len(responses)
    BY <1>3, ResponseRead
  <2>3. Len(responses') = n + 1 /\ responses'[n + 1] = Decrypt(waiter.value)
    BY <1>3, <2>2, ResponseRead
  <2>4. \A i \in 1 .. n : responses'[i] = responses[i]
    BY <1>3, <2>2, ResponseRead
  <2> HIDE DEF Decrypt
  <2>5. CASE n >= 3
    <3>1. responses'[2] = responses[2] /\ responses'[3] = responses[3] /\ Len(responses') >= 3
      BY <2>3, <2>4, <2>5
    <3>2. NonceRead'
      BY <2>1, <2>2, <2>5, <3>1 DEF KeyInv, NonceRead, Talking
    <3>3. HalfRead'
      BY <2>1, <2>2, <2>5, <3>1 DEF KeyInv, HalfRead
    <3> QED BY <1>2, <3>2, <3>3 DEF KeyInv
  <2>6. CASE n = 2
    <3>1. /\ responses'[2] = responses[2] /\ responses'[3] = Decrypt(waiter.value)
          /\ Len(responses) = 2 /\ Len(responses') = 3
      BY <2>2, <2>3, <2>4, <2>6
    <3>2. NonceRead'
      BY <2>1, <3>1 DEF KeyInv, NonceRead, Talking
    <3>3. ASSUME call.kind = "link", responses[2] = "slot_and_nonce", responses'[3] = "slot"
          PROVE  slot[call.lock][1] = call.key
      <4>1. waiter.value.ok /\ waiter.value.op \in {"slot_09", "half_1", "half_2"}
        BY <2>1, <3>1, <3>3, DecryptOf DEF ValueInv
      <4>2. waiter.value.op # "slot_09"
        BY <2>1, <3>1, <3>3 DEF KeyInv, NonceRead, Talking
      <4>3. waiter.value.op # "half_2"
        <5>1. at = 4
          BY <1>3, <3>1, <3>3, ResponseRead
        <5>2. Rank(Current) = 4
          BY <2>1, <3>3, <5>1, CurrentOf DEF Talking
        <5>3. Rank(waiter.value) =< 4
          BY <2>1, <5>2 DEF ValueInv, Talking
        <5> QED BY <5>3, RankOf
      <4> QED BY <4>1, <4>2, <4>3 DEF KeyInv, HalvesAnswered
    <3>4. HalfRead'
      BY <2>1, <3>1, <3>3 DEF HalfRead
    <3> QED BY <1>2, <3>2, <3>4 DEF KeyInv
  <2>7. CASE n = 1
    <3>1. Len(responses') = 2 /\ responses'[2] = Decrypt(waiter.value)
      BY <2>3, <2>7
    <3>2. ASSUME responses'[2] = "slot_and_nonce"
          PROVE  /\ waiter'.value.op # "slot_09"
                 /\ \A i \in DOMAIN inbox'[call.lock] : Rank(inbox'[call.lock][i]) > 3
      <4>1. waiter.value.op = "slot_03"
        BY <2>1, <3>1, <3>2, DecryptOf DEF ValueInv
      <4>2. Rank(waiter.value) = 3 /\ call.lock \in Locks
        BY <2>1, <4>1, RankOf DEF Control
      <4> QED BY <2>1, <4>1, <4>2 DEF ValueInv
    <3>3. NonceRead' /\ HalfRead'
      BY <2>1, <3>1, <3>2 DEF NonceRead, HalfRead
    <3> QED BY <1>2, <3>3 DEF KeyInv
  <2>8. CASE n = 0
    <3>1. Len(responses') = 1
      BY <2>3, <2>8
    <3>2. NonceRead' /\ HalfRead'
      BY <3>1 DEF NonceRead, HalfRead
    <3> QED BY <1>2, <3>2 DEF KeyInv
  <2>9. n = 0 \/ n = 1 \/ n = 2 \/ n >= 3
    BY <2>2
  <2> QED BY <2>5, <2>6, <2>7, <2>8, <2>9
<1>4. CASE Write
  <2>1. /\ UNCHANGED <<responses, waiter, call>> /\ pc = "write" /\ call.lock \in Locks
        /\ connected = call.lock
    BY <1>4 DEF Write, Control, Talking
  <2>2. ASSUME Len(responses) >= 2, responses[2] = "slot_and_nonce"
        PROVE  \A i \in DOMAIN inbox'[call.lock] : Rank(inbox'[call.lock][i]) > 3
    <3>1. PICK f \in Frames : f = Written /\ Rank(f) = Rank(Current)
      BY <2>1, WrittenOf DEF Talking
    <3>2. PICK s \in Seq(Frames) : s = inbox[call.lock]
      BY <2>1 DEF Typed
    <3>3. inbox'[call.lock] = Append(s, f)
      BY <1>4, <2>1, <3>1, <3>2 DEF Write, Delivered, Typed
    <3>4. Rank(Current) > 3
      <4>1. PICK n \in Nat : n = Len(responses)
        BY DEF Typed
      <4>2. n = ResponsesBefore(call.kind, at) /\ n >= 2
        BY <2>1, <2>2, <4>1 DEF Control, Talking
      <4>3. call.kind = "link" /\ at \in 1 .. 7
        <5>1. ASSUME call.kind = "relay" PROVE FALSE
          <6>1. at \in 1 .. 2
            BY <2>1, <5>1, CurrentOf DEF Talking
          <6>2. ResponsesBefore("relay", at) = 0
            BY <6>1, ResponsesBeforeOf
          <6> QED BY <4>2, <5>1, <6>2
        <5> QED BY <2>1, <5>1, CurrentOf DEF Talking
      <4>4. Rank(Current) = at
        BY <2>1, <4>3, CurrentOf DEF Talking
      <4>5. at # 1 /\ at # 2 /\ at # 3
        <5>1. /\ ResponsesBefore("link", 1) = 0 /\ ResponsesBefore("link", 2) = 0
              /\ ResponsesBefore("link", 3) = 1
          BY ResponsesBeforeOf
        <5> QED BY <4>2, <4>3, <5>1
      <4> QED BY <4>3, <4>4, <4>5
    <3>5. \A i \in DOMAIN s : Rank(s[i]) > 3
      BY <2>1, <2>2, <3>2 DEF KeyInv, NonceRead, Talking
    <3> QED BY <3>1, <3>3, <3>4, <3>5, AppendOf
  <2>3. NonceRead'
    BY <2>1, <2>2 DEF KeyInv, NonceRead, Talking
  <2>4. HalfRead'
    BY <1>1, <2>1 DEF KeyInv, HalfRead
  <2> QED BY <1>2, <2>3, <2>4 DEF KeyInv
<1>5. CASE ~ReadResponse /\ ~Write
  <2>1. HalfRead'
    <3>1. responses' = responses \/ responses' = <<>>
      BY <1>5 DEF CallStep, DirectConnect, DirectConnectFails, ScanFinds, FallbackConnect,
        Connected, ConnectFails, Fail, Leave, Subscribe, WriteFails, Take, Timeout, AfterTimeout,
        ReadIv, ReadIvFails, Disconnect, LinkSucceeds, LinkFails, RelayEnds, Returned
    <3>2. CASE responses' = <<>>
      <4>1. Len(responses') = 0
        BY <3>2
      <4> QED BY <4>1 DEF HalfRead
    <3> QED BY <1>1, <3>1, <3>2 DEF KeyInv, HalfRead
  <2>2. CASE Take \/ ReadIv
    <3>1. UNCHANGED <<responses, inbox, call>> /\ pc \in Talking /\ waiter'.value = waiter.value
      BY <2>2 DEF Take, ReadIv, Proceed, lock, Typed, Talking
    <3>2. NonceRead'
      BY <3>1 DEF KeyInv, NonceRead
    <3> QED BY <1>2, <2>1, <3>2 DEF KeyInv
  <2>3. CASE Subscribe
    <3>1. Len(responses') = 0
      BY <2>3 DEF Subscribe, Control, Opening
    <3>2. NonceRead'
      BY <3>1 DEF NonceRead
    <3> QED BY <1>2, <2>1, <3>2 DEF KeyInv
  <2>4. CASE ~Take /\ ~ReadIv /\ ~Subscribe
    <3>1. pc' \notin Talking
      BY <1>5, <2>4 DEF CallStep, DirectConnect, DirectConnectFails, ScanFinds, FallbackConnect,
        Connected, ConnectFails, Fail, Leave, WriteFails, Timeout, AfterTimeout, ReadIvFails,
        Disconnect, LinkSucceeds, LinkFails, RelayEnds, Returned, Talking
    <3>2. NonceRead'
      BY <3>1 DEF NonceRead
    <3> QED BY <1>2, <2>1, <3>2 DEF KeyInv
  <2> QED BY <2>2, <2>3, <2>4
<1> QED BY <1>3, <1>4, <1>5

LEMMA KeyLock ==
  ASSUME Typed, Control, FrameInv, ValueInv, KeyInv, NEW l \in Locks, LockStep(l)
  PROVE  KeyInv'
<1>1. UNCHANGED client
  BY DEF LockStep, OpensSession, Executes, Refuses, Ignores, Strays, Served
<1>2. HalfRead'
  BY <1>1, SlotServed DEF KeyInv, HalfRead, client
<1>3. CASE OpensSession(l) \/ Executes(l) \/ Refuses(l)
  <2>1. Served(l)
    BY <1>3 DEF OpensSession, Executes, Refuses
  <2>2. PICK f \in Frames : f = Head(inbox[l]) /\ Rank(f) > 0 /\ f = inbox[l][1]
    BY <2>1, ServedOf
  <2>3. PICK n \in ClientNotes : /\ Notify(l, n) /\ n.op = f.op /\ n.op \notin {"none", "push"}
                                 /\ n.ok /\ f.op # "iv" => Executes(l)
    BY <1>3, <2>2, AnswerOf
  <2>4. waiter' = waiter \/ waiter' = [sem |-> TRUE, value |-> n]
    BY <2>3 DEF Notify
  <2>5. l = call.lock /\ 1 \in DOMAIN inbox[l]
    BY <2>1, ServedOf
  <2>6. HalvesAnswered'
    <3>1. CASE waiter' = waiter
      BY <1>1, <3>1, SlotServed DEF KeyInv, HalvesAnswered, client
    <3>2. CASE waiter'.value = n
      <4>1. /\ n.op = "half_1" /\ n.ok => slot'[call.lock][1] = call.key
            /\ n.op = "half_2" /\ n.ok => slot'[call.lock][2] = call.key
        BY <2>2, <2>3, <2>5, SlotServed
      <4> QED BY <1>1, <3>2, <4>1 DEF HalvesAnswered, client
    <3> QED BY <2>4, <3>1, <3>2
  <2>7. NonceRead'
    <3> SUFFICES ASSUME pc \in Talking, Len(responses) >= 2, responses[2] = "slot_and_nonce"
                 PROVE  /\ waiter'.value.op # "slot_09"
                        /\ \A i \in DOMAIN inbox'[l] : Rank(inbox'[l][i]) > 3
      BY <1>1, <2>5 DEF NonceRead, client
    <3>1. /\ waiter.value.op # "slot_09"
          /\ \A i \in DOMAIN inbox[l] : Rank(inbox[l][i]) > 3
      BY <2>5 DEF KeyInv, NonceRead
    <3>2. n.op # "slot_09"
      BY <2>2, <2>3, <2>5, <3>1, RankOf
    <3>3. \A i \in DOMAIN inbox'[l] : i + 1 \in DOMAIN inbox[l] /\ inbox'[l][i] = inbox[l][i + 1]
      BY <2>1, ServedOf
    <3> QED BY <2>4, <3>1, <3>2, <3>3
  <2> QED BY <1>2, <2>6, <2>7 DEF KeyInv
<1>4. CASE Ignores(l)
  <2>1. Served(l) /\ UNCHANGED waiter /\ UNCHANGED slot
    BY <1>4 DEF Ignores
  <2>2. \A i \in DOMAIN inbox'[l] : i + 1 \in DOMAIN inbox[l] /\ inbox'[l][i] = inbox[l][i + 1]
    BY <2>1, ServedOf
  <2>3. l = call.lock
    BY <2>1, ServedOf
  <2>4. HalvesAnswered' /\ NonceRead'
    BY <1>1, <2>1, <2>2, <2>3 DEF KeyInv, HalvesAnswered, NonceRead, client
  <2> QED BY <1>2, <2>4 DEF KeyInv
<1>5. CASE Strays(l)
  <2>1. UNCHANGED <<slot, inbox>>
    BY <1>5 DEF Strays, lock
  <2>2. waiter'.value = waiter.value \/ waiter'.value.op = "push"
    BY <1>5 DEF Strays, Notify, Note
  <2>3. HalvesAnswered' /\ NonceRead'
    BY <1>1, <2>1, <2>2 DEF KeyInv, HalvesAnswered, NonceRead, client
  <2> QED BY <1>2, <2>3 DEF KeyInv
<1> QED BY <1>3, <1>4, <1>5 DEF LockStep

-----------------------------------------------------------------------------
(* A deceived link.                                                        *)

LEMMA HoldsOf ==
  ASSUME Typed, NEW l \in Locks, NEW k
  PROVE  Holds(l, k) <=> slot[l][1] = k /\ slot[l][2] = k
<1>1. PICK a \in Keys \cup {NoKey}, b \in Keys \cup {NoKey} : slot[l] = <<a, b>>
  BY DEF Typed
<1> QED BY <1>1 DEF Holds

\* What a lock holds it keeps.
LEMMA HoldsKept ==
  ASSUME Typed, Control, FrameInv, ValueInv, NEW l \in Locks, LockStep(l),
         call.lock \in Locks, Holds(call.lock, call.key)
  PROVE  Holds(call.lock, call.key)'
<1>1. slot'[call.lock][1] = call.key /\ slot'[call.lock][2] = call.key
  BY HoldsOf, SlotServed
<1>2. Typed' /\ UNCHANGED call
  BY TypedLock DEF LockStep, OpensSession, Executes, Refuses, Ignores, Strays, Served, client
<1>3. slot' \in [Locks -> (Keys \cup {NoKey}) \X (Keys \cup {NoKey})]
  BY <1>2 DEF Typed
<1>4. PICK a \in Keys \cup {NoKey}, b \in Keys \cup {NoKey} : slot'[call.lock] = <<a, b>>
  BY <1>3
<1> QED BY <1>1, <1>2, <1>4 DEF Holds

\* After four responses the call is in its second session.
LEMMA SecondSession ==
  ASSUME Typed, Control, Deceived, pc \in Talking
  PROVE  /\ at \in {6, 7} /\ Rank(Current) = at /\ Len(responses) = 4
         /\ connected = call.lock /\ call.lock \in Locks
         /\ Current.op = "iv" => at = 6
<1>1. PICK n \in Nat : n = Len(responses)
  BY DEF Typed
<1>2. call.kind = "link" /\ at \in 1 .. 7 /\ Rank(Current) = at
  BY CurrentOf DEF Deceived
<1>3. n = ResponsesBefore("link", at) /\ n >= 4
  BY <1>1, <1>2 DEF Control, Talking, Deceived
<1>4. /\ at \in {1, 2} => ResponsesBefore("link", at) = 0
      /\ at \in 3 .. 6 => ResponsesBefore("link", at) = at - 2
      /\ at = 7 => ResponsesBefore("link", at) = 4
  BY ResponsesBeforeOf
<1>5. at \in {6, 7} /\ n = 4
  BY <1>2, <1>3, <1>4
<1>6. Current.op = "iv" => at = 6
  BY <1>5, CurrentOf
<1> QED BY <1>1, <1>2, <1>5, <1>6 DEF Control, Talking

LEMMA LateCall ==
  ASSUME Typed, Control, FrameInv, ValueInv, AttributionInv, KeyInv, LateInv, CallStep
  PROVE  LateInv'
<1>1. UNCHANGED <<call, slot, stray, overwritten>>
  BY DEF CallStep, DirectConnect, DirectConnectFails, ScanFinds, FallbackConnect, Connected,
    ConnectFails, Fail, Leave, Subscribe, Write, WriteFails, Take, Timeout, AfterTimeout,
    ReadIv, ReadIvFails, ReadResponse, Proceed, Disconnect, LinkSucceeds, LinkFails, RelayEnds,
    Returned, lock
<1> SUFFICES ASSUME Deceived', stray =< 1 PROVE LateInv'
  BY <1>1 DEF LateInv
<1>2. CASE ReadResponse
  <2>1. call.kind = "link" /\ pc = "read" /\ UNCHANGED <<call, inbox, waiter, slot, stray, overwritten>>
    BY <1>1, <1>2, ResponseRead DEF Deceived
  <2>2. PICK n \in Nat : n = Len(responses)
    BY DEF Typed
  <2>3. Len(responses') = n + 1 /\ responses'[n + 1] = Decrypt(waiter.value)
    BY <1>2, <2>2, ResponseRead
  <2>4. \A i \in 1 .. n : responses'[i] = responses[i]
    BY <1>2, <2>2, ResponseRead
  <2>5. n + 1 >= 4
    BY <2>3 DEF Deceived
  <2>6. (n = 3 /\ at = 5) \/ (n = 4 /\ at = 7)
    BY <1>2, <2>1, <2>2, <2>5, ResponseRead
  <2>7. /\ responses'[2] = "slot_and_nonce" /\ responses'[3] = "slot" /\ responses'[4] = "slot"
        /\ responses'[1] \in {"empty", "slot"}
    BY DEF Deceived, ProvisionPlausible
  <2>8. ~Holds(call.lock, call.key) /\ ~overwritten
    BY <2>1 DEF Deceived, Holds
  <2>9. call.lock \in Locks /\ waiter.value \in ClientNotes /\ ~waiter.sem
    BY <2>1, <2>8 DEF Control, Typed, ValueInv
  <2> HIDE DEF Decrypt
  <2>10. CASE n = 3 /\ at = 5
    <3>1. responses[2] = "slot_and_nonce" /\ responses[3] = "slot" /\ Len(responses) = 3
      BY <2>2, <2>4, <2>7, <2>10
    <3>2. Decrypt(waiter.value) = "slot"
      BY <2>3, <2>7, <2>10
    <3>3. waiter.value.ok /\ waiter.value.op \in {"half_1", "half_2"}
      BY <2>1, <2>9, <3>1, <3>2, DecryptOf DEF KeyInv, NonceRead, ValueInv, Talking
    <3>4. waiter.value.op = "half_1"
      BY <2>1, <2>8, <2>9, <3>1, <3>3, HoldsOf DEF KeyInv, HalvesAnswered, HalfRead
    <3>5. Rank(waiter.value) = 4 /\ Rank(Current) = 5
      BY <2>1, <2>10, <3>4, CurrentOf, RankOf DEF Talking
    <3>6. stray = 1
      <4>1. Current.op # waiter.value.op
        BY <3>4, <3>5, RankOf
      <4>2. stray # 0
        BY <2>1, <4>1 DEF AttributionInv, AnswersCurrent, Written
      <4> QED BY <4>2 DEF Typed
    <3>7. pc' = "write" /\ at' = 6
      BY <1>2, <2>1, <2>10, ScriptOf DEF ReadResponse, Proceed, AtEnd
    <3>8. \A i \in DOMAIN inbox'[call'.lock] : Rank(inbox'[call'.lock][i]) \in {5, 6}
      <4>1. \A i \in DOMAIN inbox[call.lock] :
              4 < Rank(inbox[call.lock][i]) /\ Rank(inbox[call.lock][i]) =< 5
        BY <2>1, <2>9, <3>5 DEF FrameInv, ValueInv, Talking
      <4> QED BY <2>1, <4>1, RankOf
    <3>9. Len(responses') = 4
      BY <2>3, <2>10
    <3> QED BY <2>1, <2>9, <3>6, <3>7, <3>8, <3>9 DEF LateInv
  <2>11. CASE n = 4 /\ at = 7
    <3>1. /\ responses'[1] = responses[1] /\ responses'[2] = responses[2]
          /\ responses'[3] = responses[3] /\ responses'[4] = responses[4] /\ Len(responses) = 4
      BY <2>2, <2>4, <2>11
    <3>2. ProvisionPlausible
      BY <2>7, <3>1 DEF ProvisionPlausible
    <3>3. Deceived
      BY <2>1, <2>8, <3>1, <3>2 DEF Deceived
    <3>4. Rank(waiter.value) = 7 /\ ~waiter.value.ok /\ stray = 1
      BY <2>1, <2>11, <3>3 DEF LateInv, Talking
    <3>5. Decrypt(waiter.value) = "empty"
      BY <2>9, <3>4, DecryptOf, RankOf
    <3>6. responses'[5] = "empty"
      BY <2>3, <2>11, <3>5
    <3>7. pc' = "leave"
      BY <1>2, <2>1, <2>11, ScriptOf DEF ReadResponse, Proceed, AtEnd
    <3> QED BY <2>1, <3>4, <3>6, <3>7 DEF LateInv, Talking
  <2> QED BY <2>6, <2>10, <2>11
<1>3. CASE ~ReadResponse
  <2>1. UNCHANGED responses
    <3>1. responses' = responses \/ responses' = <<>>
      BY <1>3 DEF CallStep, DirectConnect, DirectConnectFails, ScanFinds, FallbackConnect,
        Connected, ConnectFails, Fail, Leave, Subscribe, Write, WriteFails, Take, Timeout,
        AfterTimeout, ReadIv, ReadIvFails, Disconnect, LinkSucceeds, LinkFails, RelayEnds,
        Returned
    <3>2. responses' # <<>>
      <4>1. Len(responses') >= 4
        BY DEF Deceived
      <4> QED BY <4>1
    <3> QED BY <3>1, <3>2
  <2>2. Deceived
    BY <1>1, <2>1 DEF Deceived, ProvisionPlausible, Holds
  <2>3. stray = 1 /\ stray' = 1 /\ (Len(responses') = 5 => responses'[5] = "empty")
    BY <1>1, <2>1, <2>2 DEF LateInv
  <2>4. CASE pc' \notin Talking
    BY <2>3, <2>4 DEF LateInv
  <2>5. CASE Write
    <3>1. pc = "write" /\ pc' = "await" /\ UNCHANGED <<at, waiter>>
      BY <2>5 DEF Write
    <3>2. /\ at \in {6, 7} /\ Rank(Current) = at /\ connected = call.lock /\ call.lock \in Locks
      BY <2>2, <3>1, SecondSession DEF Talking
    <3>3. PICK f \in Frames : f = Written /\ Rank(f) = at
      BY <3>1, <3>2, WrittenOf DEF Talking
    <3>4. PICK q \in Seq(Frames) : q = inbox[call.lock]
      BY <3>2 DEF Typed
    <3>5. inbox'[call.lock] = Append(q, f)
      BY <2>5, <3>2, <3>3, <3>4 DEF Write, Delivered, Typed
    <3>6. \A i \in DOMAIN q : Rank(q[i]) \in IF at = 6 THEN {5, 6} ELSE {7}
      BY <2>2, <3>1, <3>4 DEF LateInv, Talking
    <3>7. \A i \in DOMAIN Append(q, f) :
            Rank(Append(q, f)[i]) \in IF at = 6 THEN {5, 6} ELSE {7}
      BY <3>2, <3>3, <3>6, AppendOf
    <3>8. waiter.sem => at = 6 /\ Rank(waiter.value) = 5 /\ ~waiter.value.ok
      BY <2>2, <3>1, <3>2, RankOf DEF LateInv, ValueInv, Talking
    <3> QED BY <1>1, <2>3, <3>1, <3>5, <3>7, <3>8 DEF LateInv
  <2>6. CASE Take
    <3>1. pc = "await" /\ pc' = "read" /\ UNCHANGED <<at, inbox>> /\ waiter.sem
          /\ waiter'.value = waiter.value
      BY <2>6 DEF Take, lock, Typed
    <3> QED BY <1>1, <2>2, <2>3, <3>1 DEF LateInv, Talking
  <2>7. CASE ReadIv
    <3>1. pc = "read" /\ UNCHANGED <<inbox, waiter>> /\ Current.op = "iv"
          /\ LooksLikeIv(waiter.value)
      BY <2>7 DEF ReadIv, Proceed, lock
    <3>2. at = 6 /\ call.kind = "link"
      BY <2>2, <3>1, SecondSession DEF Talking, Deceived
    <3>3. Rank(waiter.value) # 5
      BY <3>1, RankOf DEF LooksLikeIv
    <3>4. inbox[call.lock] = <<>>
      BY <2>2, <3>1, <3>2, <3>3 DEF LateInv, Talking
    <3>5. ~waiter.sem
      BY <2>2, <3>1 DEF ValueInv, Deceived
    <3>6. pc' = "write" /\ at' = 7
      BY <2>7, <3>2, ScriptOf DEF ReadIv, Proceed, AtEnd
    <3>7. inbox'[call'.lock] = <<>> /\ ~waiter'.sem
      BY <1>1, <3>1, <3>4, <3>5
    <3> QED BY <2>3, <3>6, <3>7 DEF LateInv
  <2>8. CASE Subscribe
    BY <2>2, <2>8 DEF Subscribe, Deceived, Control, Opening
  <2> QED BY <1>3, <2>4, <2>5, <2>6, <2>7, <2>8 DEF CallStep, DirectConnect, DirectConnectFails,
        ScanFinds, FallbackConnect, Connected, ConnectFails, Fail, Leave, WriteFails, Timeout,
        AfterTimeout, ReadIvFails, Disconnect, LinkSucceeds, LinkFails, RelayEnds, Returned, Talking
<1> QED BY <1>2, <1>3

LEMMA LateLock ==
  ASSUME Typed, Control, FrameInv, ValueInv, KeyInv, LateInv, NEW l \in Locks, LockStep(l)
  PROVE  LateInv'
<1>1. UNCHANGED client /\ (overwritten => overwritten')
  BY DEF LockStep, OpensSession, Executes, Refuses, Ignores, Strays, Served, Notify, Typed
<1>2. UNCHANGED <<call, pc, at, responses>>
  BY <1>1 DEF client
<1> SUFFICES ASSUME Deceived', stray' =< 1 PROVE LateInv'
  BY DEF LateInv
<1>3. call.lock \in Locks
  <2>1. Len(responses) >= 4
    BY <1>2 DEF Deceived
  <2> QED BY <2>1 DEF Control
<1>4. Deceived
  <2>1. ~Holds(call.lock, call.key)
    BY <1>2, <1>3, HoldsKept DEF Deceived
  <2> QED BY <1>1, <1>2, <2>1 DEF Deceived, ProvisionPlausible
<1>5. CASE Strays(l)
  BY <1>4, <1>5 DEF Strays, LateInv, Typed
<1>6. CASE ~Strays(l)
  <2>1. Served(l)
    BY <1>6 DEF LockStep, OpensSession, Executes, Refuses, Ignores
  <2>2. UNCHANGED stray /\ l = call.lock /\ inbox[l] # <<>>
    BY <2>1, ServedOf DEF Served
  <2>3. stray = 1 /\ stray' = 1 /\ (Len(responses') = 5 => responses'[5] = "empty")
    BY <1>2, <1>4, <2>2 DEF LateInv
  <2>4. CASE pc \notin Talking
    BY <1>2, <2>3, <2>4 DEF LateInv
  <2>5. CASE pc \in Talking
    <3>1. at \in {6, 7} /\ connected = l
      BY <1>4, <2>2, <2>5, SecondSession
    <3>2. \A i \in DOMAIN inbox[l] : Rank(inbox[l][i]) \in IF at = 6 THEN {5, 6} ELSE {7}
      BY <1>4, <2>2, <2>3, <2>5 DEF LateInv
    <3>3. \A i \in DOMAIN inbox'[l] : /\ i + 1 \in DOMAIN inbox[l]
                                      /\ inbox'[l][i] = inbox[l][i + 1]
                                      /\ Rank(Head(inbox[l])) < Rank(inbox'[l][i])
      BY <2>1, ServedOf
    <3>4. \A i \in DOMAIN inbox'[l] : Rank(inbox'[l][i]) \in IF at = 6 THEN {5, 6} ELSE {7}
      BY <3>2, <3>3
    <3>5. CASE Ignores(l)
      <4>1. UNCHANGED waiter
        BY <3>5 DEF Ignores
      <4>2. waiter.sem \/ pc = "read" =>
              \/ at = 6 /\ Rank(waiter.value) = 5 /\ ~waiter.value.ok
              \/ at = 7 /\ Rank(waiter.value) = 7 /\ ~waiter.value.ok
        BY <1>4, <2>2, <2>3, <2>5 DEF LateInv
      <4> QED BY <1>2, <2>2, <2>3, <3>4, <4>1, <4>2 DEF LateInv
    <3>6. CASE OpensSession(l) \/ Executes(l) \/ Refuses(l)
      <4>1. PICK f \in Frames : /\ f = Head(inbox[l]) /\ Rank(f) > 0 /\ f = inbox[l][1]
                                /\ 1 \in DOMAIN inbox[l] /\ f.key = call.key
        BY <2>1, ServedOf
      <4>2. PICK n \in ClientNotes : /\ Notify(l, n) /\ n.op = f.op /\ Rank(n) = Rank(f)
                                     /\ n.ok /\ f.op # "iv" => Executes(l)
        BY <3>6, <4>1, AnswerOf
      <4>3. /\ waiter' = [sem |-> TRUE, value |-> n] /\ pc # "read"
        BY <1>1, <3>1, <4>2 DEF Notify, Deceived
      <4>4. CASE Rank(f) = 5
        <5>1. at = 6 /\ f.op = "half_2"
          BY <3>1, <3>2, <4>1, <4>4, RankOf
        <5>2. ~n.ok
          <6>1. SUFFICES ASSUME Executes(l), n.ok PROVE FALSE
            BY <4>2, <5>1
          <6>2. slot'[l][2] = call.key
            BY <4>1, <5>1, <6>1, SlotServed
          <6>3. slot[l][1] = call.key
            BY <1>4, <2>2 DEF KeyInv, HalfRead, Deceived, ProvisionPlausible
          <6>4. slot'[l][1] = call.key
            BY <2>2, <6>3, SlotServed
          <6>5. slot' \in [Locks -> (Keys \cup {NoKey}) \X (Keys \cup {NoKey})]
            BY TypedLock DEF Typed
          <6>6. PICK a \in Keys \cup {NoKey}, b \in Keys \cup {NoKey} : slot'[l] = <<a, b>>
            BY <6>5
          <6> QED BY <1>2, <2>2, <6>2, <6>4, <6>6 DEF Deceived, Holds
        <5>3. waiter'.sem /\ Rank(waiter'.value) = 5 /\ ~waiter'.value.ok
          BY <4>2, <4>3, <4>4, <5>2
        <5> QED BY <1>2, <2>2, <2>3, <3>4, <5>1, <5>3 DEF LateInv
      <4>5. CASE Rank(f) = 6
        <5>1. at = 6
          BY <3>1, <3>2, <4>1, <4>5
        <5>2. \A i \in DOMAIN inbox'[l] : FALSE
          BY <3>3, <3>4, <4>1, <4>5, <5>1
        <5>3. inbox'[l] = <<>>
          <6>1. Tail(inbox[l]) \in Seq(Frames) /\ inbox'[l] = Tail(inbox[l])
            BY <2>1, <2>2, ServedOf, TailOf DEF Typed
          <6> QED BY <5>2, <6>1
        <5>4. waiter'.sem /\ Rank(waiter'.value) = 6
          BY <4>2, <4>3, <4>5
        <5> QED BY <1>2, <2>2, <2>3, <3>4, <5>1, <5>3, <5>4 DEF LateInv
      <4>6. CASE Rank(f) = 7
        <5>1. at = 7 /\ f.op = "info" /\ f.cred = "shared"
          BY <3>1, <3>2, <4>1, <4>6, RankOf
        <5>2. ~n.ok
          <6>1. SUFFICES ASSUME Executes(l) PROVE FALSE
            BY <4>2, <5>1
          <6>2. Holds(l, f.key)
            BY <4>1, <5>1, <6>1 DEF Executes, Readable
          <6> QED BY <1>4, <2>2, <4>1, <6>2 DEF Deceived
        <5>3. waiter'.sem /\ Rank(waiter'.value) = 7 /\ ~waiter'.value.ok
          BY <4>2, <4>3, <4>6, <5>2
        <5> QED BY <1>2, <2>2, <2>3, <3>4, <5>1, <5>3 DEF LateInv
      <4> QED BY <3>1, <3>2, <4>1, <4>4, <4>5, <4>6
    <3> QED BY <1>6, <3>5, <3>6 DEF LockStep
  <2> QED BY <2>4, <2>5
<1> QED BY <1>5, <1>6

-----------------------------------------------------------------------------
(* The invariant.                                                          *)

LEMMA LinkCall ==
  ASSUME Typed, Control, LateInv, CallStep
  PROVE  LinkTrue'
<1>1. UNCHANGED <<call, slot, stray, overwritten>>
  BY DEF CallStep, DirectConnect, DirectConnectFails, ScanFinds, FallbackConnect, Connected,
    ConnectFails, Fail, Leave, Subscribe, Write, WriteFails, Take, Timeout, AfterTimeout,
    ReadIv, ReadIvFails, ReadResponse, Proceed, Disconnect, LinkSucceeds, LinkFails, RelayEnds,
    Returned, lock
<1> SUFFICES ASSUME stray =< 1, outcome' = "ok", call.kind = "link", ~overwritten
             PROVE  Holds(call.lock, call.key)
  BY <1>1 DEF LinkTrue, LinkedMeansKeyHeld, Holds
<1>2. LinkSucceeds
  BY DEF CallStep, DirectConnect, DirectConnectFails, ScanFinds, FallbackConnect, Connected,
    ConnectFails, Fail, Leave, Subscribe, Write, WriteFails, Take, Timeout, AfterTimeout,
    ReadIv, ReadIvFails, ReadResponse, Proceed, Disconnect, LinkFails, RelayEnds,
    Returned, Control, Opening, Talking
<1>3. Len(responses) = 5
  <2>1. Len(responses) = ResponsesBefore("link", Len(Script("link")) + 1)
    BY <1>2 DEF LinkSucceeds, Returned, Control
  <2>2. Len(Script("link")) + 1 = 8
    <3>1. \A n : n = 7 => n + 1 = 8
      OBVIOUS
    <3>2. Len(Script("link")) = 7
      BY ScriptOf
    <3> HIDE DEF Script
    <3> QED BY <3>1, <3>2
  <2>3. ResponsesBefore("link", 8) = 5
    BY ResponsesBeforeOf
  <2> QED BY <2>1, <2>2, <2>3
<1>4. ProvisionPlausible /\ responses[5] # "empty"
  BY <1>2 DEF LinkSucceeds, VerifyPlausible
<1> QED BY <1>3, <1>4 DEF LateInv, Deceived

LEMMA LinkLock ==
  ASSUME Typed, Control, FrameInv, ValueInv, LinkTrue, NEW l \in Locks, LockStep(l)
  PROVE  LinkTrue'
<1>1. UNCHANGED <<call, outcome>> /\ (overwritten => overwritten')
  BY DEF LockStep, OpensSession, Executes, Refuses, Ignores, Strays, Served, Notify, Typed, client
<1>2. stray' = stray \/ stray' = stray + 1
  BY DEF LockStep, OpensSession, Executes, Refuses, Ignores, Strays, Served
<1>3. stray' =< 1 => stray =< 1
  BY <1>2 DEF Typed
<1> SUFFICES ASSUME stray' =< 1, outcome = "ok", call.kind = "link", ~overwritten'
             PROVE  Holds(call.lock, call.key)'
  BY <1>1 DEF LinkTrue, LinkedMeansKeyHeld
<1>4. Holds(call.lock, call.key)
  BY <1>1, <1>3 DEF LinkTrue, LinkedMeansKeyHeld
<1>5. CASE Strays(l)
  <2>1. UNCHANGED slot
    BY <1>5 DEF Strays, lock
  <2> QED BY <1>1, <1>4, <2>1 DEF Holds
<1>6. CASE ~Strays(l)
  <2>1. Served(l)
    BY <1>6 DEF LockStep, OpensSession, Executes, Refuses, Ignores
  <2>2. call.lock \in Locks
    BY <2>1, ServedOf
  <2> QED BY <1>4, <2>2, HoldsKept
<1> QED BY <1>5, <1>6

LEMMA InitInv == Init => IInv
<1> SUFFICES ASSUME Init PROVE IInv
  OBVIOUS
<1>1. Typed /\ Control
  BY TypedInit
<1>2. /\ \A l \in Locks : inbox[l] = <<>>
      /\ pc = "idle" /\ waiter.value.op = "none" /\ ~waiter.value.ok /\ outcome = "none"
      /\ ran = <<>> /\ responses = <<>>
  BY DEF Init, FreshWaiter, NoNote, Note
<1>3. CacheMatches
  BY DEF Init, CacheMatches
<1>4. FrameInv /\ ValueInv
  BY <1>2 DEF FrameInv, ValueInv, Talking
<1>5. AttributionInv /\ RelayInv
  BY <1>2 DEF AttributionInv, RelayInv, RelaysInOrder
<1>6. KeyInv /\ LateInv /\ LinkTrue
  <2>1. Len(responses) = 0
    BY <1>2
  <2> QED BY <1>2, <2>1 DEF KeyInv, HalvesAnswered, NonceRead, HalfRead, LateInv, Deceived,
        LinkTrue, LinkedMeansKeyHeld
<1> QED BY <1>1, <1>3, <1>4, <1>5, <1>6 DEF IInv

LEMMA BeginInv ==
  ASSUME IInv, NEW kind \in {"link", "relay"}, NEW l \in Locks, Begin(kind, l)
  PROVE  IInv'
<1>1. Typed' /\ Control'
  BY TypedBegin DEF IInv
<1>2. /\ \A m \in Locks : inbox'[m] = <<>>
      /\ pc' = "direct" /\ outcome' = "running"
      /\ UNCHANGED <<cached_mac, cached_addr, waiter, responses, stray>>
  BY DEF Begin
<1>3. waiter.value.op = "none" /\ ~waiter.value.ok /\ responses = <<>>
  BY DEF IInv, Begin, Control, Talking, FreshWaiter, NoNote, Note
<1>4. CacheMatches' /\ FrameInv' /\ ValueInv'
  BY <1>2, <1>3 DEF IInv, CacheMatches, FrameInv, ValueInv, Talking
<1>5. AttributionInv' /\ RelayInv'
  BY <1>2, RelayBegin DEF IInv, AttributionInv
<1>6. KeyInv' /\ LateInv' /\ LinkTrue'
  <2>1. Len(responses') = 0
    BY <1>2, <1>3
  <2> QED BY <1>2, <1>3, <2>1 DEF KeyInv, HalvesAnswered, NonceRead, HalfRead, LateInv, Deceived,
        LinkTrue, LinkedMeansKeyHeld
<1> QED BY <1>1, <1>4, <1>5, <1>6 DEF IInv

\* A step that changes nothing but the bridge's key and its link.
LEMMA QuietInv ==
  ASSUME IInv, UNCHANGED <<client, waiter, connected, outcome, lock, calls, stray, overwritten>>,
         shared_key' \in Keys, linked' \in Locks \cup {NoLock}
  PROVE  IInv'
<1>1. Typed' /\ Control'
  BY DEF IInv, Typed, Control, client, lock
<1>2. CacheMatches' /\ FrameInv' /\ ValueInv'
  BY DEF IInv, CacheMatches, FrameInv, ValueInv, Current, client, lock
<1>3. AttributionInv' /\ RelayInv'
  BY DEF IInv, AttributionInv, AnswersCurrent, Written, RelayInv, RelaysInOrder, RelayWritten,
    RelayWaits, Current, client, lock
<1>4. KeyInv' /\ LateInv' /\ LinkTrue'
  BY DEF IInv, KeyInv, HalvesAnswered, NonceRead, HalfRead, LateInv, Deceived,
    ProvisionPlausible, LinkTrue, LinkedMeansKeyHeld, Holds, client, lock
<1> QED BY <1>1, <1>2, <1>3, <1>4 DEF IInv

LEMMA NextInv == IInv /\ [Next]_vars => IInv'
<1> SUFFICES ASSUME IInv, [Next]_vars PROVE IInv'
  OBVIOUS
<1>1. ASSUME NEW l \in Locks, Link(l) PROVE IInv'
  BY <1>1, BeginInv DEF Link
<1>2. CASE Relay
  <2>1. linked \in Locks /\ Begin("relay", linked)
    BY <1>2 DEF Relay, IInv, Typed
  <2> QED BY <2>1, BeginInv
<1>3. CASE Reset
  <2>1. shared_key' \in Keys /\ linked' \in Locks \cup {NoLock}
    BY <1>3 DEF Reset, IInv, Typed, Keys
  <2> QED BY <1>3, <2>1, QuietInv DEF Reset
<1>4. CASE CallStep
  BY <1>4, TypedCall, CacheCall, FramesCall, AttributionCall, RelayCall, KeyCall, LateCall, LinkCall
    DEF IInv
<1>5. ASSUME NEW l \in Locks, LockStep(l) PROVE IInv'
  BY <1>5, TypedLock, CacheLock, FramesLock, AttributionLock, RelayLock, KeyLock, LateLock, LinkLock
    DEF IInv
<1>6. CASE UNCHANGED vars
  <2>1. shared_key' \in Keys /\ linked' \in Locks \cup {NoLock}
    BY <1>6 DEF vars, IInv, Typed
  <2> QED BY <1>6, <2>1, QuietInv DEF vars
<1> QED BY <1>1, <1>2, <1>3, <1>4, <1>5, <1>6 DEF Next

LEMMA Invariance == Spec => []IInv
<1> QED BY InitInv, NextInv, PTL DEF Spec

-----------------------------------------------------------------------------
(* The theorems.                                                           *)

\* Every variable of the client, the waiter and the locks keeps its type.
THEOREM TypeCorrect == Spec => []TypeOK
<1>1. IInv => TypeOK
  BY Types DEF IInv
<1> QED BY <1>1, Invariance, PTL

\* physical_lock.cpp:469-475: no call talks to the lock that an earlier call, perhaps
\* of the other client, left in the address cache.
THEOREM CallsReachTheirLock == Spec => []ReachesConfiguredLock
<1>1. IInv => ReachesConfiguredLock
  BY DEF IInv, Typed, Control, ReachesConfiguredLock, Talking, Opening
<1> QED BY <1>1, Invariance, PTL

\* physical_lock.cpp:31-37: with no notification unasked, what wait_notify returns is
\* the answer to the frame just written, although timeouts abandon frames unanswered.
THEOREM AnswersBelongToFrames == Spec => []AnswersAttributed
<1>1. IInv => AnswersAttributed
  <2> SUFFICES ASSUME IInv, stray = 0, pc = "read"
               PROVE  /\ waiter.value.op = Current.op
                      /\ Current.op # "iv" => waiter.value.iv = session
    BY DEF AnswersAttributed
  <2>1. AnswersCurrent
    BY DEF IInv, AttributionInv
  <2> QED BY <2>1 DEF AnswersCurrent, Written
<1> QED BY <1>1, Invariance, PTL

\* README.md:200-203: the lock executes the relayed commands at most once each and in
\* the order of the calls, whatever it refuses, ignores or serves after its call.
THEOREM RelaysRunInOrder == Spec => []RelaysInOrder
<1>1. IInv => RelaysInOrder
  BY DEF IInv, RelayInv
<1> QED BY <1>1, Invariance, PTL

\* lock_linker.h:3-4: a link that succeeded is one whose key the lock holds, as long as
\* no more than one notification answered nothing and none was overwritten unread.
THEOREM LinksHoldTheirKey == Spec => [](stray =< 1 => LinkedMeansKeyHeld)
<1>1. IInv => (stray =< 1 => LinkedMeansKeyHeld)
  BY DEF IInv, LinkTrue
<1> QED BY <1>1, Invariance, PTL
=============================================================================
