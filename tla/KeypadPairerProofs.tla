------------------------- MODULE KeypadPairerProofs -------------------------
(***************************************************************************)
(* Proofs about KeypadPairer, for every number of jobs and of waits for    *)
(* the session IV.                                                         *)
(***************************************************************************)
EXTENDS KeypadPairer, TLAPS

Ops == {Handshake("vision")[i].op : i \in DOMAIN Handshake("vision")}
Letters == [op : {"iv"} \cup Ops, iv : Nat, job : 1 .. MaxJobs, family : Families]
Steps(f) == 1 .. Len(Handshake(f))

Searching == {"discover", "free", "connect", "request"}
Writing == {"write", "ack", "finish"}

-----------------------------------------------------------------------------
(* The inductive invariant.                                                *)

\* TypeOK, with the frames apart from the IVs drawn so far.
Typed ==
  /\ state \in {"IDLE", "RUNNING", "SUCCESS", "FAILED"} /\ job \in 0 .. MaxJobs
  /\ family \in Families
  /\ pc \in {"idle", "iv"} \cup Searching \cup Writing
  /\ at \in 0 .. Len(Handshake(family)) /\ tries \in 0 .. IvTries
  /\ ack_sem \in BOOLEAN /\ iv \in 0 .. ivs /\ iv_received \in BOOLEAN
  /\ connected \in BOOLEAN /\ subscribed \in BOOLEAN /\ bridged \in BOOLEAN
  /\ keypad_family \in Families /\ ivs \in 0 .. MaxJobs
  /\ keypad \in [iv : 0 .. ivs, half_1 : 0 .. job, half_2 : 0 .. job, lock_mac : BOOLEAN]
  /\ inbox \in Seq(Letters) /\ got \subseteq MandatoryOps /\ disturbed \in BOOLEAN

\* A job runs as long as it is somewhere, and is connected only then.
Control ==
  /\ state = "RUNNING" <=> pc # "idle"
  /\ connected => pc # "idle"
  /\ pc # "idle" => job > 0
  /\ pc \in Writing => at \in Steps(family)
  /\ pc \in Searching => ~iv_received /\ inbox = <<>>

\* What waits at the keypad is of this job, and the request for an IV the first of it.
Queue ==
  /\ \A i \in DOMAIN inbox :
       /\ inbox[i].job = job /\ inbox[i].iv =< ivs
       /\ inbox[i].op = "iv" => i = 1
  /\ pc = "iv" => \A i \in DOMAIN inbox : inbox[i].op = "iv"

\* A job draws at most one IV, and what it writes is encrypted under that one.
OneIv ==
  /\ ivs =< job
  /\ pc \in Searching => ivs < job
  /\ (\E i \in DOMAIN inbox : inbox[i].op = "iv") => ivs < job
  /\ pc \in Writing => iv_received
  /\ pc # "idle" /\ iv_received =>
       iv = keypad.iv /\ iv # 0 /\ \A i \in DOMAIN inbox : inbox[i].op # "iv"

\* Every mandatory frame up to the present one reached the keypad.
Reached(n) == \A i \in 1 .. n : Handshake(family)[i].mandatory => Handshake(family)[i].op \in got
MandatoryReached ==
  /\ pc = "write" => Reached(at - 1)
  /\ pc = "ack" => Reached(at)
  /\ pc = "finish" \/ state = "SUCCESS" => Reached(Len(Handshake(family)))

\* While nothing went wrong, a frame waits only for its own answer, or for nothing once
\* the connection is gone.
Undisturbed ==
  ~disturbed =>
    /\ pc # "idle" => Len(inbox) =< 1
    /\ pc = "write" /\ connected => inbox = <<>>
    /\ pc = "ack" => \/ inbox = <<>>
                     \/ inbox = <<CurrentFrame>> /\ ~ack_sem

\* What the keypad made of a frame of the handshake.
Done(op) ==
  /\ op = "half_1" => keypad.half_1 = job
  /\ op = "half_2" => keypad.half_2 = job
  /\ op = "lock_mac" => keypad.lock_mac
Executed(n) == \A i \in 1 .. n : Done(Handshake(family)[i].op)
KeyWritten ==
  ~disturbed /\ family = keypad_family =>
    /\ pc = "write" \/ (pc = "ack" /\ inbox # <<>>) => Executed(at - 1)
    /\ pc = "ack" /\ inbox = <<>> => Executed(at)
    /\ pc = "finish" \/ state = "SUCCESS" => Executed(Len(Handshake(family)))

IInv ==
  /\ Typed /\ Control /\ Queue /\ OneIv /\ MandatoryReached /\ Undisturbed /\ KeyWritten

USE TriesAssumption, JobsAssumption
-----------------------------------------------------------------------------
(* Sequences and handshakes.                                               *)

LEMMA TailOf ==
  ASSUME NEW S, NEW s \in Seq(S), s # <<>>
  PROVE  /\ Tail(s) \in Seq(S) /\ Head(s) \in S /\ Head(s) = s[1] /\ 1 \in DOMAIN s
         /\ Len(Tail(s)) = Len(s) - 1 /\ DOMAIN s = 1 .. Len(s)
         /\ \A i \in DOMAIN Tail(s) : i + 1 \in DOMAIN s /\ Tail(s)[i] = s[i + 1]
OBVIOUS

LEMMA AppendOf ==
  ASSUME NEW S, NEW s \in Seq(S), NEW e \in S
  PROVE  /\ Append(s, e) \in Seq(S) /\ Len(Append(s, e)) = Len(s) + 1
         /\ DOMAIN Append(s, e) = 1 .. Len(s) + 1 /\ DOMAIN s = 1 .. Len(s)
         /\ Append(s, e)[Len(s) + 1] = e
         /\ \A i \in DOMAIN s : i \in DOMAIN Append(s, e) /\ Append(s, e)[i] = s[i]
OBVIOUS

LEMMA SeqOf ==
  ASSUME NEW S, NEW T, NEW s \in Seq(S), \A i \in DOMAIN s : s[i] \in T
  PROVE  s \in Seq(T)
OBVIOUS

\* The handshakes, frame by frame.
LEMMA OriginalHandshake ==
  LET h == Handshake("original") IN
  /\ Len(h) = 8 /\ DOMAIN h = 1 .. 8
  /\ h[1] = Must("enter_pairing") /\ h[2] = May("prep") /\ h[3] = Must("slot_init")
  /\ h[4] = Must("half_1") /\ h[5] = Must("half_2") /\ h[6] = Must("lock_mac")
  /\ h[7] = May("finalize_1") /\ h[8] = May("finalize_2")
BY DEF Handshake

LEMMA VisionHandshake ==
  LET h == Handshake("vision") IN
  /\ Len(h) = 10 /\ DOMAIN h = 1 .. 10
  /\ h[1] = Must("enter_pairing") /\ h[2] = May("capabilities_probe") /\ h[3] = May("prep")
  /\ h[4] = Must("slot_init") /\ h[5] = Must("half_1") /\ h[6] = Must("half_2")
  /\ h[7] = Must("lock_mac") /\ h[8] = May("finalize_1") /\ h[9] = May("finalize_2")
  /\ h[10] = May("enable_doorbell")
BY DEF Handshake

LEMMA Eights == 1 .. 8 = {1, 2, 3, 4, 5, 6, 7, 8}
OBVIOUS
LEMMA Tens == 1 .. 10 = {1, 2, 3, 4, 5, 6, 7, 8, 9, 10}
OBVIOUS

LEMMA FramesOf ==
  ASSUME NEW f \in Families
  PROVE  /\ Len(Handshake(f)) \in {8, 10} /\ DOMAIN Handshake(f) = Steps(f)
         /\ \A i \in Steps(f) :
              /\ Handshake(f)[i].op \in Ops /\ Handshake(f)[i].op # "iv"
              /\ Handshake(f)[i].mandatory \in BOOLEAN
              /\ Handshake(f)[i].mandatory <=> Handshake(f)[i].op \in MandatoryOps
         /\ \A op \in MandatoryOps :
              \E i \in Steps(f) : Handshake(f)[i].op = op /\ Handshake(f)[i].mandatory
<1>1. Ops = {"enter_pairing", "capabilities_probe", "prep", "slot_init", "half_1", "half_2",
             "lock_mac", "finalize_1", "finalize_2", "enable_doorbell"}
  <2> DEFINE h == Handshake("vision")
  <2>1. DOMAIN h = {1, 2, 3, 4, 5, 6, 7, 8, 9, 10}
    BY Tens, VisionHandshake
  <2>2. /\ h[1].op = "enter_pairing" /\ h[2].op = "capabilities_probe" /\ h[3].op = "prep"
        /\ h[4].op = "slot_init" /\ h[5].op = "half_1" /\ h[6].op = "half_2"
        /\ h[7].op = "lock_mac" /\ h[8].op = "finalize_1" /\ h[9].op = "finalize_2"
        /\ h[10].op = "enable_doorbell"
    BY VisionHandshake DEF Must, May
  <2>3. Ops = {h[i].op : i \in DOMAIN h}
    BY DEF Ops
  <2> HIDE DEF h
  <2> QED
    BY <2>1, <2>2, <2>3
<1>2. CASE f = "original"
  <2> DEFINE h == Handshake(f)
  <2>1. /\ Steps(f) = {1, 2, 3, 4, 5, 6, 7, 8} /\ Len(h) = 8
        /\ DOMAIN h = Steps(f)
    BY <1>2, Eights, OriginalHandshake DEF Steps
  <2>2. /\ h[1].op = "enter_pairing" /\ h[1].mandatory = TRUE
        /\ h[2].op = "prep" /\ h[2].mandatory = FALSE
        /\ h[3].op = "slot_init" /\ h[3].mandatory = TRUE
        /\ h[4].op = "half_1" /\ h[4].mandatory = TRUE
        /\ h[5].op = "half_2" /\ h[5].mandatory = TRUE
        /\ h[6].op = "lock_mac" /\ h[6].mandatory = TRUE
        /\ h[7].op = "finalize_1" /\ h[7].mandatory = FALSE
        /\ h[8].op = "finalize_2" /\ h[8].mandatory = FALSE
    BY <1>2, OriginalHandshake DEF Must, May
  <2> HIDE DEF h
  <2>3. \A i \in Steps(f) : h[i].op \in Ops /\ h[i].op # "iv" /\ h[i].mandatory \in BOOLEAN
    BY <1>1, <2>1, <2>2
  <2>4. \A i \in Steps(f) : h[i].mandatory <=> h[i].op \in MandatoryOps
    BY <2>1, <2>2 DEF MandatoryOps
  <2>5. \A op \in MandatoryOps : \E i \in Steps(f) : h[i].op = op /\ h[i].mandatory
    BY <2>1, <2>2 DEF MandatoryOps
  <2> QED
    BY <2>1, <2>3, <2>4, <2>5 DEF h
<1>3. CASE f = "vision"
  <2> DEFINE h == Handshake(f)
  <2>1. /\ Steps(f) = {1, 2, 3, 4, 5, 6, 7, 8, 9, 10} /\ Len(h) = 10
        /\ DOMAIN h = Steps(f)
    BY <1>3, Tens, VisionHandshake DEF Steps
  <2>2. /\ h[1].op = "enter_pairing" /\ h[1].mandatory = TRUE
        /\ h[2].op = "capabilities_probe" /\ h[2].mandatory = FALSE
        /\ h[3].op = "prep" /\ h[3].mandatory = FALSE
        /\ h[4].op = "slot_init" /\ h[4].mandatory = TRUE
        /\ h[5].op = "half_1" /\ h[5].mandatory = TRUE
        /\ h[6].op = "half_2" /\ h[6].mandatory = TRUE
        /\ h[7].op = "lock_mac" /\ h[7].mandatory = TRUE
        /\ h[8].op = "finalize_1" /\ h[8].mandatory = FALSE
        /\ h[9].op = "finalize_2" /\ h[9].mandatory = FALSE
        /\ h[10].op = "enable_doorbell" /\ h[10].mandatory = FALSE
    BY <1>3, VisionHandshake DEF Must, May
  <2> HIDE DEF h
  <2>3. \A i \in Steps(f) : h[i].op \in Ops /\ h[i].op # "iv" /\ h[i].mandatory \in BOOLEAN
    BY <1>1, <2>1, <2>2
  <2>4. \A i \in Steps(f) : h[i].mandatory <=> h[i].op \in MandatoryOps
    BY <2>1, <2>2 DEF MandatoryOps
  <2>5. \A op \in MandatoryOps : \E i \in Steps(f) : h[i].op = op /\ h[i].mandatory
    BY <2>1, <2>2 DEF MandatoryOps
  <2> QED
    BY <2>1, <2>3, <2>4, <2>5 DEF h
<1> QED
  BY <1>2, <1>3 DEF Families

LEMMA CurrentIs ==
  ASSUME Typed, Control, pc \in Writing
  PROVE  /\ CurrentFrame \in Letters /\ at \in Steps(family) /\ job \in 1 .. MaxJobs
         /\ Current.op # "iv" /\ Current.mandatory \in BOOLEAN
         /\ Current.mandatory <=> Current.op \in MandatoryOps
<1>1. at \in Steps(family) /\ family \in Families /\ job \in 1 .. MaxJobs /\ iv \in Nat
  BY DEF Typed, Control, Writing
<1>2. /\ Current.op \in Ops /\ Current.op # "iv" /\ Current.mandatory \in BOOLEAN
      /\ Current.mandatory <=> Current.op \in MandatoryOps
  BY <1>1, FramesOf DEF Current
<1> QED
  BY <1>1, <1>2 DEF CurrentFrame, Letters

\* Where the job is after a frame.
LEMMA ProceedsTo ==
  ASSUME Typed, Control, pc \in Writing, Proceed, UNCHANGED family
  PROVE  /\ pc' \in {"write", "finish"} /\ at' \in Steps(family)
         /\ pc' = "write" => at' - 1 = at
         /\ pc' = "finish" => at = Len(Handshake(family)) /\ at' = at
<1>1. /\ at \in 1 .. Len(Handshake(family))
      /\ Len(Handshake(family)) \in Nat
  BY FramesOf DEF Typed, Control, Steps, Writing
<1> QED
  BY <1>1 DEF Proceed, Steps

\* A frame that the keypad serves.
LEMMA ServedOf ==
  ASSUME Typed, Queue, Served
  PROVE  /\ Head(inbox) \in Letters /\ Head(inbox) = inbox[1] /\ Head(inbox).job = job
         /\ 1 \in DOMAIN inbox
         /\ inbox' \in Seq(Letters) /\ Len(inbox') = Len(inbox) - 1
         /\ \A i \in DOMAIN inbox' : i + 1 \in DOMAIN inbox /\ inbox'[i] = inbox[i + 1]
<1>1. inbox \in Seq(Letters) /\ inbox # <<>> /\ inbox' = Tail(inbox)
  BY DEF Typed, Served
<1>2. 1 \in DOMAIN inbox /\ Head(inbox) = inbox[1]
  BY <1>1, TailOf
<1> QED
  BY <1>1, <1>2, TailOf DEF Queue

-----------------------------------------------------------------------------
(* Types.                                                                  *)

LEMMA InitInv == Init => IInv
<1> SUFFICES ASSUME Init PROVE IInv
  OBVIOUS
<1>1. Typed
  <2>1. Len(Handshake(family)) \in Nat /\ family \in Families
    BY FramesOf DEF Init, Families
  <2>2. keypad \in [iv : 0 .. ivs, half_1 : 0 .. job, half_2 : 0 .. job, lock_mac : BOOLEAN]
    BY DEF Init
  <2>3. inbox \in Seq(Letters)
    BY DEF Init
  <2>4. at \in 0 .. Len(Handshake(family)) /\ tries \in 0 .. IvTries /\ iv \in 0 .. ivs
    BY <2>1 DEF Init
  <2>5. /\ pc \in {"idle"} /\ state \in {"IDLE"} /\ job \in 0 .. MaxJobs
        /\ ivs \in 0 .. MaxJobs /\ got \subseteq MandatoryOps
    BY DEF Init
  <2>6. /\ ack_sem \in BOOLEAN /\ iv_received \in BOOLEAN /\ connected \in BOOLEAN
        /\ subscribed \in BOOLEAN /\ bridged \in BOOLEAN /\ disturbed \in BOOLEAN
    BY DEF Init
  <2>7. keypad_family \in Families
    BY DEF Init
  <2> QED
    BY <2>1, <2>2, <2>3, <2>4, <2>5, <2>6, <2>7 DEF Typed
<1>2. Control /\ Queue /\ OneIv
  BY DEF Init, Control, Queue, OneIv, Searching, Writing
<1>3. MandatoryReached /\ Undisturbed /\ KeyWritten
  BY DEF Init, MandatoryReached, Undisturbed, KeyWritten
<1> QED
  BY <1>1, <1>2, <1>3 DEF IInv

LEMMA TypedKept == IInv /\ [Next]_vars => Typed'
<1> SUFFICES ASSUME IInv, [Next]_vars PROVE Typed'
  OBVIOUS
<1>0. Typed /\ Control /\ Queue /\ OneIv
  BY DEF IInv
<1>1. /\ job \in Nat /\ ivs \in Nat /\ MaxJobs \in Nat /\ IvTries \in Nat /\ job =< MaxJobs
      /\ Len(Handshake(family)) \in Nat
  BY <1>0, FramesOf DEF Typed
<1>2. ASSUME NEW f \in Families, Start(f) PROVE Typed'
  <2>1. Len(Handshake(f)) \in Nat /\ job + 1 \in 0 .. MaxJobs
    BY <1>1, FramesOf, <1>2 DEF Start
  <2>2. keypad' \in [iv : 0 .. ivs, half_1 : 0 .. job + 1, half_2 : 0 .. job + 1,
                     lock_mac : BOOLEAN]
    BY <1>0, <1>1, <1>2 DEF Start, Typed
  <2>3. /\ pc' \in Searching /\ job' \in 0 .. MaxJobs
        /\ iv_received' \in BOOLEAN /\ ack_sem' \in BOOLEAN /\ disturbed' \in BOOLEAN
    BY <1>2, <2>1 DEF Start, Searching, IvReceivedAtStart
  <2>4. /\ at' \in 0 .. Len(Handshake(family')) /\ tries' \in 0 .. IvTries
        /\ inbox' \in Seq(Letters)
    BY <1>1, <1>2, <2>1 DEF Start
  <2> QED
    BY <1>0, <1>1, <1>2, <2>1, <2>2, <2>3, <2>4 DEF Start, Typed
<1>3. CASE DiscoverFails \/ ConnectFails \/ RequestIvFails \/ NoIv \/ Finish
  BY <1>0, <1>3 DEF DiscoverFails, ConnectFails, RequestIvFails, NoIv, Finish, Fails, Ends,
     ConnectionAtEnd, Typed
<1>4. CASE Discover \/ Free \/ Connect \/ AwaitIv
  <2>1. pc' \in {"iv"} \cup Searching /\ tries' \in 0 .. IvTries
    BY <1>0, <1>1, <1>4 DEF Discover, Free, Connect, AwaitIv, Typed, Searching
  <2>2. /\ ack_sem' \in BOOLEAN /\ connected' \in BOOLEAN /\ subscribed' \in BOOLEAN
        /\ bridged' \in BOOLEAN
    BY <1>0, <1>4 DEF Discover, Free, Connect, AwaitIv, Typed, session
  <2> QED
    BY <1>0, <1>4, <2>1, <2>2 DEF Discover, Free, Connect, AwaitIv, session, device, Typed
<1>14. CASE NotifiesUnasked \/ LosesConnection \/ ConnectsToBridge \/ UNCHANGED vars
  BY <1>0, <1>14 DEF NotifiesUnasked, LosesConnection, ConnectsToBridge, vars, progress,
     session, device, Typed
<1>5. CASE RequestIv
  <2> DEFINE f == [op |-> "iv", iv |-> 0, job |-> job, family |-> family]
  <2>1. f \in Letters
    BY <1>0, <1>1, <1>5 DEF RequestIv, Typed, Control, Letters
  <2>2. inbox' \in Seq(Letters)
    BY <1>0, <1>5, <2>1, AppendOf DEF RequestIv, Received, Typed
  <2> QED
    BY <1>0, <1>5, <2>2 DEF RequestIv, Typed
<1>6. CASE IvKnown
  <2>1. 1 \in 0 .. Len(Handshake(family))
    <3>1. Len(Handshake(family)) \in {8, 10}
      BY <1>0, FramesOf DEF Typed
    <3> QED
      BY <3>1
  <2> QED
    BY <1>0, <1>6, <2>1 DEF IvKnown, Typed, session, device, Writing
<1>7. ASSUME pc \in Writing, UNCHANGED inbox \/ Received(CurrentFrame)
      PROVE  inbox' \in Seq(Letters)
  BY <1>0, <1>7, CurrentIs, AppendOf DEF Typed, Received
<1>8. CASE Write
  <2>1. inbox' \in Seq(Letters)
    BY <1>7, <1>8 DEF Write, Writing
  <2>2. got' \subseteq MandatoryOps
    BY <1>0, <1>8, CurrentIs DEF Write, Typed, Writing
  <2> QED
    BY <1>0, <1>8, <2>1, <2>2 DEF Write, Typed, Drained, Writing
<1>9. CASE WriteFails
  <2>1. inbox' \in Seq(Letters)
    BY <1>7, <1>9 DEF WriteFails, Writing
  <2> QED
    BY <1>0, <1>9, <2>1 DEF WriteFails, Ends, ConnectionAtEnd, Typed
<1>10. CASE WriteFailsIgnored \/ Acknowledged \/ AckTimeout
  <2>1. pc \in Writing /\ Proceed /\ UNCHANGED family
    BY <1>10 DEF WriteFailsIgnored, Acknowledged, AckTimeout, Writing, device
  <2>2. pc' \in Writing /\ at' \in 0 .. Len(Handshake(family))
    BY <1>0, <1>1, <2>1, ProceedsTo DEF Writing, Steps
  <2>3. inbox' \in Seq(Letters)
    BY <1>0, <1>7, <1>10, <2>1
       DEF WriteFailsIgnored, Acknowledged, AckTimeout, device, Typed
  <2>4. disturbed' \in BOOLEAN /\ ack_sem' \in BOOLEAN /\ connected' \in BOOLEAN
    BY <1>0, <1>10 DEF WriteFailsIgnored, Acknowledged, AckTimeout, session, Drained, Typed
  <2> QED
    BY <1>0, <1>10, <2>2, <2>3, <2>4
       DEF WriteFailsIgnored, Acknowledged, AckTimeout, session, device, Typed
<1>11. CASE OpensSession
  <2>1. inbox' \in Seq(Letters)
    BY <1>0, <1>11, ServedOf DEF OpensSession
  <2>2. ivs < job
    BY <1>0, <1>11, ServedOf DEF OpensSession, OneIv
  <2>3. ivs' \in 0 .. MaxJobs /\ ivs' = ivs + 1
    BY <1>1, <1>11, <2>2 DEF OpensSession
  <2>4. keypad' \in [iv : 0 .. ivs', half_1 : 0 .. job, half_2 : 0 .. job, lock_mac : BOOLEAN]
    <3>1. keypad \in [iv : 0 .. ivs, half_1 : 0 .. job, half_2 : 0 .. job, lock_mac : BOOLEAN]
      BY <1>0 DEF Typed
    <3>2. ivs + 1 \in 0 .. ivs' /\ keypad' = [keypad EXCEPT !.iv = ivs + 1]
      BY <1>1, <1>11, <2>3 DEF OpensSession
    <3> QED
      BY <3>1, <3>2
  <2>5. iv' \in 0 .. ivs' /\ iv_received' \in BOOLEAN /\ ack_sem' \in BOOLEAN
    <3>1. iv' = iv \/ iv' = ivs + 1
      BY <1>11 DEF OpensSession, session
    <3>2. iv_received' \in BOOLEAN /\ ack_sem' \in BOOLEAN
      BY <1>0, <1>11 DEF OpensSession, session, Typed
    <3> QED
      BY <1>0, <1>1, <2>3, <3>1, <3>2 DEF Typed
  <2> QED
    BY <1>0, <1>11, <2>1, <2>3, <2>4, <2>5 DEF OpensSession, Served, progress, Typed
<1>12. CASE Executes
  <2>1. inbox' \in Seq(Letters) /\ Head(inbox).job = job
    BY <1>0, <1>12, ServedOf DEF Executes
  <2>2. keypad' \in [iv : 0 .. ivs, half_1 : 0 .. job, half_2 : 0 .. job, lock_mac : BOOLEAN]
    <3>1. job \in 0 .. job
      BY <1>1
    <3> QED
      BY <1>0, <1>12, <2>1, <3>1 DEF Executes, After, Typed
  <2>3. iv' = iv /\ iv_received' = iv_received /\ ack_sem' \in BOOLEAN
    BY <1>0, <1>12 DEF Executes, Notify, session, Typed
  <2> QED
    BY <1>0, <1>12, <2>1, <2>2, <2>3 DEF Executes, Served, progress, Typed
<1>13. CASE Refuses
  <2>1. inbox' \in Seq(Letters)
    BY <1>0, <1>13, ServedOf DEF Refuses
  <2>2. iv' = iv /\ iv_received' = iv_received /\ ack_sem' \in BOOLEAN
    BY <1>0, <1>13 DEF Refuses, Notify, session, Typed
  <2>3. disturbed' \in BOOLEAN
    BY <1>0, <1>13 DEF Refuses, Typed
  <2> QED
    BY <1>0, <1>13, <2>1, <2>2, <2>3 DEF Refuses, Served, progress, Typed
<1> QED
  BY <1>2, <1>3, <1>4, <1>5, <1>6, <1>8, <1>9, <1>10, <1>11, <1>12, <1>13,
     <1>14 DEF Next, Execute, Keypad

-----------------------------------------------------------------------------
(* The job, its frames and its IV.                                         *)

\* The keypad serves only once the job asked for an IV.
LEMMA ServesRequested ==
  ASSUME Typed, Control, Served
  PROVE  pc \notin Searching
BY DEF Typed, Control, Served

LEMMA ControlKept == IInv /\ [Next]_vars => Control'
<1> SUFFICES ASSUME IInv, [Next]_vars PROVE Control'
  OBVIOUS
<1>0. Typed /\ Control
  BY DEF IInv
<1>1. ASSUME NEW f \in Families, Start(f) PROVE Control'
  <2>1. job + 1 > 0
    BY <1>0 DEF Typed
  <2> QED
    BY <1>0, <1>1, <2>1 DEF Start, Control, IvReceivedAtStart, Searching, Writing
<1>2. CASE DiscoverFails \/ ConnectFails \/ RequestIvFails \/ NoIv \/ WriteFails \/ Finish
  BY <1>2 DEF DiscoverFails, ConnectFails, RequestIvFails, NoIv, WriteFails, Finish, Fails, Ends,
     ConnectionAtEnd, Control, Searching, Writing
<1>3. CASE Discover \/ Free \/ Connect
  BY <1>0, <1>3 DEF Discover, Free, Connect, session, device, Control, Searching, Writing
<1>4. CASE RequestIv \/ AwaitIv
  BY <1>0, <1>4 DEF RequestIv, AwaitIv, session, device, Control, Searching, Writing
<1>5. CASE NotifiesUnasked \/ LosesConnection \/ ConnectsToBridge \/ UNCHANGED vars
  BY <1>0, <1>5 DEF NotifiesUnasked, LosesConnection, ConnectsToBridge, vars, progress,
     session, device, Control
<1>6. CASE IvKnown
  <2>1. 1 \in Steps(family)
    <3>1. Len(Handshake(family)) \in {8, 10}
      BY <1>0, FramesOf DEF Typed
    <3> QED
      BY <3>1 DEF Steps
  <2> QED
    BY <1>0, <1>6, <2>1 DEF IvKnown, Control, Searching
<1>7. CASE Write
  BY <1>0, <1>7 DEF Write, Control, Searching, Writing
<1>8. CASE WriteFailsIgnored \/ Acknowledged \/ AckTimeout
  <2>1. pc \in Writing /\ Proceed /\ UNCHANGED <<family, job, state>>
    BY <1>8 DEF WriteFailsIgnored, Acknowledged, AckTimeout, Writing, device
  <2>2. pc' \in {"write", "finish"} /\ at' \in Steps(family)
    BY <1>0, <2>1, ProceedsTo
  <2> QED
    BY <1>0, <2>1, <2>2 DEF Control, Searching, Writing
<1>9. CASE OpensSession \/ Executes \/ Refuses
  <2>1. Served
    BY <1>9 DEF OpensSession, Executes, Refuses
  <2> QED
    BY <1>0, <2>1, ServesRequested DEF Served, progress, Control
<1> QED
  BY <1>1, <1>2, <1>3, <1>4, <1>5, <1>6, <1>7, <1>8, <1>9 DEF Next, Execute, Keypad

LEMMA QueueKept == IInv /\ [Next]_vars => Queue'
<1> SUFFICES ASSUME IInv, [Next]_vars PROVE Queue'
  OBVIOUS
<1>0. Typed /\ Control /\ Queue
  BY DEF IInv
<1>1. ASSUME NEW f \in Families, Start(f) PROVE Queue'
  BY <1>1 DEF Start, Queue
<1>2. CASE UNCHANGED <<inbox, job, ivs>> /\ (pc' = "iv" => pc = "iv")
  BY <1>0, <1>2 DEF Queue
<1>3. CASE UNCHANGED <<job, ivs>> /\ Received(CurrentFrame) /\ pc' # "iv" /\ pc \in Writing
  <2>1. inbox \in Seq(Letters) /\ CurrentFrame \in Letters
    BY <1>0, <1>3, CurrentIs DEF Typed
  <2>2. Current.op # "iv" /\ iv =< ivs
    BY <1>0, <1>3, CurrentIs DEF Typed
  <2>3. ASSUME NEW i \in DOMAIN inbox'
        PROVE  inbox'[i] = CurrentFrame \/ (i \in DOMAIN inbox /\ inbox'[i] = inbox[i])
    BY <1>3, <2>1, AppendOf DEF Received
  <2> QED
    BY <1>0, <1>3, <2>2, <2>3 DEF Queue, CurrentFrame
<1>4. CASE RequestIv
  <2>1. inbox = <<>>
    BY <1>0, <1>4 DEF RequestIv, Control, Searching
  <2>2. inbox' = <<[op |-> "iv", iv |-> 0, job |-> job, family |-> family]>>
    BY <1>4, <2>1 DEF RequestIv, Received
  <2> QED
    BY <1>0, <1>4, <2>2 DEF RequestIv, Queue, Typed
<1>5. CASE OpensSession \/ Executes \/ Refuses
  <2>1. Served /\ UNCHANGED <<pc, job>> /\ ivs' \in Nat /\ ivs =< ivs'
    BY <1>0, <1>5 DEF OpensSession, Executes, Refuses, Served, progress, Typed
  <2>2. ASSUME NEW i \in DOMAIN inbox'
        PROVE  i \in Nat /\ i # 0 /\ i + 1 \in DOMAIN inbox /\ inbox'[i] = inbox[i + 1]
    BY <1>0, <2>1, ServedOf
  <2>3. ASSUME NEW i \in DOMAIN inbox PROVE inbox[i].iv \in Nat
    <3>1. inbox[i] \in Letters
      BY <1>0 DEF Typed
    <3> QED
      BY <3>1 DEF Letters
  <2>4. ASSUME NEW i \in DOMAIN inbox'
        PROVE  inbox'[i].job = job' /\ inbox'[i].iv =< ivs' /\ inbox'[i].op # "iv"
    BY <1>0, <2>1, <2>2, <2>3, <2>4 DEF Queue, Typed
  <2>5. pc = "iv" => \A i \in DOMAIN inbox' : inbox'[i].op = "iv"
    BY <1>0, <2>1, <2>2 DEF Queue
  <2> QED
    BY <2>1, <2>4, <2>5 DEF Queue
<1>6. CASE Write
  BY <1>3, <1>6 DEF Write, Writing
<1>7. CASE WriteFails
  BY <1>2, <1>3, <1>7 DEF WriteFails, Ends, Writing
<1>8. CASE WriteFailsIgnored \/ Acknowledged \/ AckTimeout
  <2>1. pc \in Writing /\ Proceed /\ UNCHANGED <<family, job, ivs>>
    BY <1>8 DEF WriteFailsIgnored, Acknowledged, AckTimeout, Writing, device
  <2>2. pc' # "iv"
    BY <1>0, <2>1, ProceedsTo
  <2>3. UNCHANGED inbox \/ Received(CurrentFrame)
    BY <1>8 DEF WriteFailsIgnored, Acknowledged, AckTimeout, device
  <2> QED
    BY <1>2, <1>3, <2>1, <2>2, <2>3
<1>9. CASE DiscoverFails \/ ConnectFails \/ RequestIvFails \/ NoIv \/ Finish
  BY <1>2, <1>9 DEF DiscoverFails, ConnectFails, RequestIvFails, NoIv, Finish, Fails, Ends
<1>10. CASE Discover \/ Free \/ Connect \/ AwaitIv \/ IvKnown
  BY <1>2, <1>10 DEF Discover, Free, Connect, AwaitIv, IvKnown, device
<1>11. CASE NotifiesUnasked \/ LosesConnection \/ ConnectsToBridge \/ UNCHANGED vars
  BY <1>2, <1>11 DEF NotifiesUnasked, LosesConnection, ConnectsToBridge, vars, progress, device
<1> QED
  BY <1>1, <1>4, <1>5, <1>6, <1>7, <1>8, <1>9, <1>10, <1>11 DEF Next, Execute, Keypad

LEMMA OneIvKept == IInv /\ [Next]_vars => OneIv'
<1> SUFFICES ASSUME IInv, [Next]_vars PROVE OneIv'
  OBVIOUS
<1>0. Typed /\ Control /\ Queue /\ OneIv
  BY DEF IInv
<1>n. job \in Nat /\ ivs \in Nat
  BY <1>0 DEF Typed
<1>1. ASSUME NEW f \in Families, Start(f) PROVE OneIv'
  BY <1>0, <1>n, <1>1 DEF Start, OneIv, IvReceivedAtStart, Searching, Writing
<1>2. CASE DiscoverFails \/ ConnectFails \/ RequestIvFails \/ NoIv \/ Finish
  BY <1>0, <1>2 DEF DiscoverFails, ConnectFails, RequestIvFails, NoIv, Finish, Fails, Ends,
     OneIv, Searching, Writing
<1>3. CASE Discover \/ Free \/ Connect
  BY <1>0, <1>3 DEF Discover, Free, Connect, session, device, OneIv, Control, Searching, Writing
<1>4. CASE RequestIv
  <2>1. inbox = <<>> /\ ~iv_received /\ ivs < job
    BY <1>0, <1>4 DEF RequestIv, Control, OneIv, Searching
  <2> QED
    BY <1>0, <1>4, <2>1 DEF RequestIv, OneIv, Searching, Writing
<1>5. CASE AwaitIv \/ IvKnown
  BY <1>0, <1>5 DEF AwaitIv, IvKnown, session, device, OneIv, Searching, Writing
<1>6. CASE NotifiesUnasked \/ LosesConnection \/ ConnectsToBridge \/ UNCHANGED vars
  BY <1>0, <1>6 DEF NotifiesUnasked, LosesConnection, ConnectsToBridge, vars, progress,
     session, device, OneIv
<1>7. ASSUME pc \in Writing, pc' \in Writing \cup {"idle"},
             UNCHANGED inbox \/ Received(CurrentFrame),
             UNCHANGED <<job, iv, iv_received, ivs, keypad>>
      PROVE  OneIv'
  <2>1. inbox \in Seq(Letters) /\ CurrentFrame \in Letters
    BY <1>0, <1>7, CurrentIs DEF Typed
  <2>2. Current.op # "iv"
    BY <1>0, <1>7, CurrentIs
  <2>3. pc # "idle" /\ iv_received
    BY <1>0, <1>7 DEF OneIv, Writing
  <2>4. ASSUME NEW i \in DOMAIN inbox'
        PROVE  inbox'[i] = CurrentFrame \/ (i \in DOMAIN inbox /\ inbox'[i] = inbox[i])
    BY <1>7, <2>1, AppendOf DEF Received
  <2>5. \A i \in DOMAIN inbox' : inbox'[i].op # "iv"
    BY <1>0, <2>2, <2>3, <2>4 DEF OneIv, CurrentFrame
  <2> QED
    BY <1>0, <1>7, <2>3, <2>5 DEF OneIv, Searching, Writing
<1>8. CASE Write \/ WriteFails
  BY <1>7, <1>8 DEF Write, WriteFails, Ends, Writing
<1>9. CASE WriteFailsIgnored \/ Acknowledged \/ AckTimeout
  <2>1. pc \in Writing /\ Proceed /\ UNCHANGED <<family, job, iv, iv_received, ivs, keypad>>
    BY <1>9 DEF WriteFailsIgnored, Acknowledged, AckTimeout, Writing, device, session
  <2>2. pc' \in Writing
    BY <1>0, <2>1, ProceedsTo DEF Writing
  <2>3. UNCHANGED inbox \/ Received(CurrentFrame)
    BY <1>9 DEF WriteFailsIgnored, Acknowledged, AckTimeout, device
  <2> QED
    BY <1>7, <2>1, <2>2, <2>3
<1>10. CASE OpensSession \/ Executes \/ Refuses
  <2>1. Served /\ UNCHANGED <<pc, job>>
    BY <1>10 DEF OpensSession, Executes, Refuses, Served, progress
  <2>2. ASSUME NEW i \in DOMAIN inbox'
        PROVE  i \in Nat /\ i # 0 /\ i + 1 \in DOMAIN inbox /\ inbox'[i] = inbox[i + 1]
    BY <1>0, <2>1, ServedOf
  <2>3. \A i \in DOMAIN inbox' : inbox'[i].op # "iv"
    BY <2>2, <1>0 DEF Queue
  <2>4. pc \notin Searching
    BY <1>0, <2>1, ServesRequested
  <2>5. CASE OpensSession
    <3>1. ivs < job
      BY <1>0, <2>5, ServedOf DEF OpensSession, OneIv
    <3>2. pc # "idle" => ~iv_received
      BY <1>0, <2>5, ServedOf DEF OpensSession, OneIv
    <3>3. ivs' =< job' /\ ivs + 1 # 0
      BY <1>n, <2>1, <2>5, <3>1 DEF OpensSession
    <3>4. pc \notin Writing
      BY <1>0, <3>2 DEF OneIv, Writing
    <3>5. keypad' = [keypad EXCEPT !.iv = ivs + 1] /\ keypad'.iv = ivs + 1
      BY <1>0, <2>5 DEF OpensSession, Typed
    <3>6. pc # "idle" /\ iv_received' => iv' = ivs + 1
      BY <2>5, <3>2 DEF OpensSession, session
    <3> QED
      BY <2>1, <2>3, <2>4, <3>3, <3>4, <3>5, <3>6 DEF OneIv
  <2>6. CASE Executes \/ Refuses
    <3>1. UNCHANGED <<ivs, iv, iv_received>>
      BY <2>6 DEF Executes, Refuses, Notify, session
    <3>2. keypad'.iv = keypad.iv
      BY <1>0, <2>6 DEF Executes, Refuses, After, Typed
    <3> QED
      BY <1>0, <2>1, <2>3, <2>4, <3>1, <3>2 DEF OneIv
  <2> QED
    BY <1>10, <2>5, <2>6
<1> QED
  BY <1>1, <1>2, <1>3, <1>4, <1>5, <1>6, <1>8, <1>9, <1>10 DEF Next, Execute, Keypad

-----------------------------------------------------------------------------
(* The mandatory frames.                                                   *)

LEMMA ReachedKept == IInv /\ [Next]_vars => MandatoryReached'
<1> SUFFICES ASSUME IInv, [Next]_vars PROVE MandatoryReached'
  OBVIOUS
<1>0. Typed /\ Control /\ OneIv /\ MandatoryReached
  BY DEF IInv
<1>1. ASSUME NEW f \in Families, Start(f) PROVE MandatoryReached'
  BY <1>1 DEF Start, MandatoryReached
<1>2. CASE DiscoverFails \/ ConnectFails \/ RequestIvFails \/ NoIv \/ WriteFails
  BY <1>2 DEF DiscoverFails, ConnectFails, RequestIvFails, NoIv, WriteFails, Fails, Ends,
     MandatoryReached
<1>3. CASE Finish
  BY <1>0, <1>3 DEF Finish, Ends, MandatoryReached, Reached
<1>4. CASE Discover \/ Free \/ Connect \/ RequestIv \/ AwaitIv
  BY <1>0, <1>4 DEF Discover, Free, Connect, RequestIv, AwaitIv, device, MandatoryReached, Control
<1>5. CASE IvKnown
  BY <1>0, <1>5 DEF IvKnown, MandatoryReached, Reached, Control
<1>6. CASE NotifiesUnasked \/ LosesConnection \/ ConnectsToBridge \/ UNCHANGED vars
  BY <1>0, <1>6 DEF NotifiesUnasked, LosesConnection, ConnectsToBridge, vars, progress,
     device, MandatoryReached, Reached
<1>7. CASE OpensSession \/ Executes \/ Refuses
  BY <1>0, <1>7 DEF OpensSession, Executes, Refuses, Served, progress, MandatoryReached, Reached
<1>8. ASSUME pc \in Writing, state = "RUNNING",
             \A i \in 1 .. at - 1 : Handshake(family)[i].mandatory => Handshake(family)[i].op \in got',
             Current.mandatory => Current.op \in got', UNCHANGED family
      PROVE  \A i \in 1 .. at : Handshake(family)[i].mandatory => Handshake(family)[i].op \in got'
  <2>1. at \in Nat
    BY <1>0, FramesOf DEF Typed
  <2>2. ASSUME NEW i \in 1 .. at PROVE i \in 1 .. at - 1 \/ i = at
    BY <2>1
  <2> QED
    BY <1>8, <2>2 DEF Current
<1>9. CASE Write
  <2>1. Readable(CurrentFrame)
    BY <1>0, <1>9 DEF Write, OneIv, Readable, CurrentFrame, Writing
  <2>2. /\ got \subseteq got' /\ UNCHANGED <<family, at>> /\ pc' = "ack"
        /\ Current.mandatory => Current.op \in got'
    BY <1>9, <2>1 DEF Write
  <2>3. state = "RUNNING" /\ pc = "write" /\ state' = "RUNNING"
    BY <1>0, <1>9 DEF Write, Control
  <2>4. Reached(at - 1)
    BY <1>0, <2>3 DEF MandatoryReached
  <2>5. \A i \in 1 .. at : Handshake(family)[i].mandatory => Handshake(family)[i].op \in got'
    BY <1>8, <2>2, <2>3, <2>4 DEF Writing, Reached
  <2> QED
    BY <2>2, <2>3, <2>5 DEF MandatoryReached, Reached
<1>10. CASE WriteFailsIgnored \/ Acknowledged \/ AckTimeout
  <2>1. pc \in {"write", "ack"} /\ Proceed /\ UNCHANGED <<family, got, state>> /\ state = "RUNNING"
    BY <1>0, <1>10 DEF WriteFailsIgnored, Acknowledged, AckTimeout, Control, device
  <2>2. /\ pc' \in {"write", "finish"}
        /\ pc' = "write" => at' - 1 = at
        /\ pc' = "finish" => at = Len(Handshake(family)) /\ at' = at
    BY <1>0, <2>1, ProceedsTo DEF Writing
  <2>3. pc = "ack" => Reached(at)
    BY <1>0 DEF MandatoryReached
  <2>4. pc = "write" => Reached(at - 1) /\ ~Current.mandatory
    BY <1>0, <1>10
       DEF WriteFailsIgnored, Acknowledged, AckTimeout, MandatoryReached, Mandatory
  <2>5. \A i \in 1 .. at : Handshake(family)[i].mandatory => Handshake(family)[i].op \in got
    BY <1>8, <2>1, <2>3, <2>4 DEF Writing, Reached
  <2>6. CASE pc' = "write"
    BY <2>1, <2>2, <2>5, <2>6 DEF MandatoryReached, Reached
  <2>7. CASE pc' = "finish"
    BY <2>1, <2>2, <2>5, <2>7 DEF MandatoryReached, Reached
  <2> QED
    BY <2>2, <2>6, <2>7
<1> QED
  BY <1>1, <1>2, <1>3, <1>4, <1>5, <1>6, <1>7, <1>9, <1>10 DEF Next, Execute, Keypad

-----------------------------------------------------------------------------
(* One frame at a time, and what the keypad makes of it.                   *)

LEMMA UndisturbedKept == IInv /\ [Next]_vars => Undisturbed'
<1> SUFFICES ASSUME IInv, [Next]_vars, ~disturbed' PROVE Undisturbed'
  BY DEF Undisturbed
<1>0. Typed /\ Control /\ Queue /\ OneIv /\ Undisturbed
  BY DEF IInv
<1>n. inbox \in Seq(Letters)
  BY <1>0 DEF Typed
<1>1. ASSUME NEW f \in Families, Start(f) PROVE Undisturbed'
  BY <1>1 DEF Start, Undisturbed
<1>2. CASE DiscoverFails \/ ConnectFails \/ RequestIvFails \/ NoIv \/ WriteFails \/ Finish
  BY <1>2 DEF DiscoverFails, ConnectFails, RequestIvFails, NoIv, WriteFails, Finish, Fails, Ends,
     Undisturbed
<1>3. CASE Discover \/ Free \/ Connect
  BY <1>0, <1>3 DEF Discover, Free, Connect, device, Control, Undisturbed, Searching
<1>4. CASE RequestIv
  <2>1. Len(inbox') = 1
    BY <1>0, <1>4 DEF RequestIv, Received, Control, Searching
  <2> QED
    BY <1>4, <2>1 DEF RequestIv, Undisturbed
<1>5. CASE AwaitIv
  BY <1>0, <1>5 DEF AwaitIv, device, Undisturbed
<1>6. CASE IvKnown
  <2>1. DOMAIN inbox = {}
    BY <1>0, <1>6 DEF IvKnown, OneIv, Queue
  <2>2. inbox = <<>>
    BY <1>n, <2>1
  <2> QED
    BY <1>6, <2>2 DEF IvKnown, device, Undisturbed
<1>7. CASE Write
  <2>1. inbox = <<>>
    BY <1>0, <1>7 DEF Write, Undisturbed
  <2>2. inbox' = <<CurrentFrame>> /\ CurrentFrame' = CurrentFrame /\ ~ack_sem'
    BY <1>7, <2>1 DEF Write, Received, Drained, CurrentFrame, Current
  <2> QED
    BY <1>7, <2>2 DEF Write, Undisturbed
<1>8. CASE WriteFailsIgnored
  <2>1. pc' \in {"write", "finish"}
    BY <1>0, <1>8, ProceedsTo DEF WriteFailsIgnored, Writing
  <2>2. Len(inbox) =< 1 /\ (connected => inbox = <<>>)
    BY <1>0, <1>8 DEF WriteFailsIgnored, Undisturbed
  <2>3. CASE UNCHANGED <<connected, inbox>>
    BY <2>1, <2>2, <2>3 DEF Undisturbed
  <2>4. CASE ~connected' /\ UNCHANGED inbox
    BY <2>1, <2>2, <2>4 DEF Undisturbed
  <2>5. CASE ~connected' /\ connected /\ Received(CurrentFrame)
    <3>1. Len(inbox') = 1
      BY <2>2, <2>5 DEF Received
    <3> QED
      BY <2>1, <2>5, <3>1 DEF Undisturbed
  <2> QED
    BY <1>8, <2>3, <2>4, <2>5 DEF WriteFailsIgnored
<1>9. CASE Acknowledged \/ AckTimeout
  <2>1. inbox = <<>> /\ UNCHANGED inbox
    BY <1>0, <1>9 DEF Acknowledged, AckTimeout, device, Undisturbed
  <2>2. pc' \in {"write", "finish"}
    BY <1>0, <1>9, ProceedsTo DEF Acknowledged, AckTimeout, Writing
  <2> QED
    BY <2>1, <2>2 DEF Undisturbed
<1>10. CASE OpensSession \/ Executes \/ Refuses
  <2>1. Served /\ UNCHANGED pc /\ ~disturbed
    BY <1>0, <1>10 DEF OpensSession, Executes, Refuses, Served, progress, Typed
  <2>2. inbox' \in Seq(Letters) /\ Len(inbox') = Len(inbox) - 1
    BY <1>0, <2>1, ServedOf
  <2>3. pc # "idle" => inbox' = <<>>
    BY <1>0, <1>n, <2>1, <2>2 DEF Undisturbed
  <2> QED
    BY <2>1, <2>3 DEF Undisturbed
<1>11. CASE NotifiesUnasked
  BY <1>11 DEF NotifiesUnasked
<1>12. CASE LosesConnection \/ ConnectsToBridge \/ UNCHANGED vars
  BY <1>0, <1>12 DEF LosesConnection, ConnectsToBridge, vars, progress, session, device,
     Undisturbed, CurrentFrame, Current
<1> QED
  BY <1>1, <1>2, <1>3, <1>4, <1>5, <1>6, <1>7, <1>8, <1>9, <1>10, <1>11, <1>12
     DEF Next, Execute, Keypad

\* What a frame did to the keypad, no other frame of the job undoes.
LEMMA DoneStays ==
  ASSUME Typed, Queue, OpensSession \/ Executes \/ Refuses, NEW op, Done(op)
  PROVE  Done(op)'
<1>1. Head(inbox).job = job /\ UNCHANGED job
  BY ServedOf DEF OpensSession, Executes, Refuses, Served
<1>2. CASE OpensSession
  BY <1>1, <1>2 DEF OpensSession, Done, Typed
<1>3. CASE Executes
  BY <1>1, <1>3 DEF Executes, After, Done, Typed
<1>4. CASE Refuses
  BY <1>1, <1>4 DEF Refuses, Done
<1> QED
  BY <1>2, <1>3, <1>4

LEMMA KeyKept == IInv /\ [Next]_vars => KeyWritten'
<1> SUFFICES ASSUME IInv, [Next]_vars, ~disturbed', family' = keypad_family' PROVE KeyWritten'
  BY DEF KeyWritten
<1>0. Typed /\ Control /\ Queue /\ OneIv /\ Undisturbed /\ KeyWritten
  BY DEF IInv
<1>1. ASSUME NEW f \in Families, Start(f) PROVE KeyWritten'
  BY <1>1 DEF Start, KeyWritten
<1>2. CASE DiscoverFails \/ ConnectFails \/ RequestIvFails \/ NoIv \/ WriteFails
  BY <1>2 DEF DiscoverFails, ConnectFails, RequestIvFails, NoIv, WriteFails, Fails, Ends,
     KeyWritten
<1>3. CASE Finish
  BY <1>0, <1>3 DEF Finish, Ends, KeyWritten, Executed, Done
<1>4. CASE Discover \/ Free \/ Connect \/ RequestIv \/ AwaitIv
  BY <1>0, <1>4 DEF Discover, Free, Connect, RequestIv, AwaitIv, KeyWritten, Control
<1>5. CASE IvKnown
  BY <1>0, <1>5 DEF IvKnown, KeyWritten, Executed, Control
<1>6. CASE NotifiesUnasked
  BY <1>6 DEF NotifiesUnasked
<1>7. CASE LosesConnection \/ ConnectsToBridge \/ UNCHANGED vars
  BY <1>0, <1>7 DEF LosesConnection, ConnectsToBridge, vars, progress,
     device, KeyWritten, Executed, Done
<1>8. CASE Write
  <2>1. inbox' # <<>>
    BY <1>0, <1>8, CurrentIs, AppendOf DEF Write, Received, Typed, Writing
  <2>2. state = "RUNNING" /\ Executed(at - 1)
    BY <1>0, <1>8 DEF Write, Control, KeyWritten
  <2> QED
    BY <1>8, <2>1, <2>2 DEF Write, KeyWritten, Executed, Done
<1>9. CASE WriteFailsIgnored \/ Acknowledged \/ AckTimeout
  <2>1. /\ pc \in {"write", "ack"} /\ Proceed /\ UNCHANGED <<family, keypad, job, state>>
        /\ state = "RUNNING" /\ family = keypad_family /\ ~disturbed
    BY <1>0, <1>9 DEF WriteFailsIgnored, Acknowledged, AckTimeout, Control, device, Typed
  <2>2. /\ pc' \in {"write", "finish"}
        /\ pc' = "write" => at' - 1 = at
        /\ pc' = "finish" => at = Len(Handshake(family)) /\ at' = at
    BY <1>0, <2>1, ProceedsTo DEF Writing
  <2>3. ASSUME WriteFailsIgnored PROVE Executed(at)
    <3>1. Executed(at - 1) /\ ~Current.mandatory
      BY <1>0, <2>1, <2>3 DEF WriteFailsIgnored, KeyWritten, Mandatory
    <3>2. Done(Current.op)
      BY <1>0, <2>1, <3>1, CurrentIs DEF Done, MandatoryOps, Writing
    <3>3. at \in Nat
      BY <1>0, FramesOf DEF Typed
    <3>4. ASSUME NEW i \in 1 .. at PROVE i \in 1 .. at - 1 \/ i = at
      BY <3>3
    <3> QED
      BY <3>1, <3>2, <3>4 DEF Executed, Current
  <2>4. ASSUME Acknowledged \/ AckTimeout PROVE Executed(at)
    <3>1. pc = "ack" /\ inbox = <<>>
      BY <1>0, <2>1, <2>4 DEF Acknowledged, AckTimeout, Undisturbed
    <3> QED
      BY <1>0, <2>1, <3>1 DEF KeyWritten
  <2>5. \A i \in 1 .. at : Done(Handshake(family)[i].op)'
    <3>1. Executed(at)
      BY <1>9, <2>3, <2>4
    <3> QED
      BY <2>1, <3>1 DEF Executed, Done
  <2>6. CASE pc' = "write"
    BY <2>1, <2>2, <2>5, <2>6 DEF KeyWritten, Executed, Done
  <2>7. CASE pc' = "finish"
    BY <2>1, <2>2, <2>5, <2>7 DEF KeyWritten, Executed, Done
  <2> QED
    BY <2>2, <2>6, <2>7
<1>10. CASE OpensSession \/ Executes \/ Refuses
  <2>1. /\ Served /\ UNCHANGED <<pc, at, state, family, job>>
        /\ family = keypad_family /\ ~disturbed /\ inbox # <<>>
    BY <1>0, <1>10 DEF OpensSession, Executes, Refuses, Served, progress, Typed
  <2>2. ASSUME NEW n, Executed(n)
        PROVE  \A i \in 1 .. n : Done(Handshake(family)[i].op)'
    <3>1. \A op : Done(op) => Done(op)'
      BY <1>0, <1>10, DoneStays
    <3> QED
      BY <2>1, <2>2, <3>1 DEF Executed, Done
  <2>3. CASE pc = "ack"
    <3>1. inbox = <<CurrentFrame>> /\ state = "RUNNING" /\ Executed(at - 1)
      BY <1>0, <2>1, <2>3 DEF Undisturbed, Control, KeyWritten
    <3>2. /\ Head(inbox) = CurrentFrame /\ Readable(CurrentFrame)
          /\ CurrentFrame.family = keypad_family /\ CurrentFrame.op = Current.op
          /\ CurrentFrame.job = job
      BY <1>0, <2>1, <2>3, <3>1 DEF OneIv, Readable, CurrentFrame, Writing
    <3>3. Current.op # "iv"
      BY <1>0, <2>3, CurrentIs DEF Writing
    <3>4. Executes
      BY <1>10, <3>2, <3>3 DEF OpensSession, Refuses
    <3>5. Done(Current.op)'
      <4>1. keypad' = After(CurrentFrame) /\ UNCHANGED <<family, at, job>>
        BY <2>1, <3>2, <3>4 DEF Executes
      <4>2. Current' = Current
        BY <4>1 DEF Current
      <4> QED
        BY <1>0, <3>2, <4>1, <4>2 DEF After, Done, Typed
    <3>6. at \in Nat
      BY <1>0, FramesOf DEF Typed
    <3>7. ASSUME NEW i \in 1 .. at PROVE i \in 1 .. at - 1 \/ i = at
      BY <3>6
    <3>8. \A i \in 1 .. at : Done(Handshake(family)[i].op)'
      <4>1. \A i \in 1 .. at - 1 : Done(Handshake(family)[i].op)'
        BY <2>2, <3>1
      <4> QED
        BY <2>1, <3>5, <3>7, <4>1 DEF Current, Done
    <3>9. \A i \in 1 .. at - 1 : Done(Handshake(family)[i].op)'
      BY <2>2, <3>1
    <3> QED
      BY <2>1, <2>3, <3>1, <3>8, <3>9 DEF KeyWritten, Executed, Done
  <2>4. CASE pc = "write"
    <3>1. Executed(at - 1) /\ state = "RUNNING"
      BY <1>0, <2>1, <2>4 DEF KeyWritten, Control
    <3>2. \A i \in 1 .. at - 1 : Done(Handshake(family)[i].op)'
      BY <2>2, <3>1
    <3> QED
      BY <2>1, <2>4, <3>1, <3>2 DEF KeyWritten, Executed, Done
  <2>5. CASE pc = "finish" \/ state = "SUCCESS"
    <3>1. Executed(Len(Handshake(family))) /\ pc \notin {"write", "ack"}
      BY <1>0, <2>1, <2>5 DEF KeyWritten, Control
    <3>2. \A i \in 1 .. Len(Handshake(family)) : Done(Handshake(family)[i].op)'
      BY <2>2, <3>1
    <3> QED
      BY <2>1, <3>1, <3>2 DEF KeyWritten, Executed, Done
  <2>6. CASE pc \notin {"write", "ack", "finish"} /\ state # "SUCCESS"
    BY <2>1, <2>6 DEF KeyWritten
  <2> QED
    BY <2>3, <2>4, <2>5, <2>6
<1> QED
  BY <1>1, <1>2, <1>3, <1>4, <1>5, <1>6, <1>7, <1>8, <1>9, <1>10 DEF Next, Execute, Keypad

-----------------------------------------------------------------------------
(* The theorems.                                                           *)

LEMMA Invariance == Spec => []IInv
<1>1. IInv /\ [Next]_vars => IInv'
  BY TypedKept, ControlKept, QueueKept, OneIvKept, ReachedKept, UndisturbedKept, KeyKept
     DEF IInv
<1> QED
  BY InitInv, <1>1, PTL DEF Spec

\* keypad_pairer.cpp:69-319, keypad_pairer.h:84-107: every variable keeps its type, the
\* keypad draws no more IVs than there are jobs, and no connection outlives its job.
THEOREM TypeCorrect == Spec => []TypeOK
<1>1. IInv => TypeOK
  <2> SUFFICES ASSUME IInv PROVE TypeOK
    OBVIOUS
  <2>1. Typed /\ Control /\ Queue
    BY DEF IInv
  <2>2. ASSUME NEW i \in DOMAIN inbox PROVE inbox[i] \in Frames
    <3>1. inbox[i] \in Letters /\ inbox[i].iv =< ivs /\ ivs \in Nat
      BY <2>1 DEF Typed, Queue
    <3> QED
      BY <3>1 DEF Letters, Frames, Ops
  <2>3. inbox \in Seq(Frames)
    BY <2>1, <2>2, SeqOf DEF Typed
  <2> QED
    BY <2>1, <2>3 DEF Typed, Control, TypeOK, Searching, Writing
<1> QED
  BY Invariance, <1>1, PTL

\* keypad_pairer.cpp:264-319: SUCCESS means that every mandatory frame reached the keypad
\* in this job under the IV of its session; and, where the keypad answered each frame in
\* time and for itself, that it holds this job's key and the bridge's address.
THEOREM PairedKeyWritten == Spec => []PairedMeansKeyWritten
<1>1. IInv => PairedMeansKeyWritten
  <2> SUFFICES ASSUME IInv, state = "SUCCESS"
               PROVE  /\ MandatoryOps \subseteq got
                      /\ ~disturbed /\ family = keypad_family =>
                           keypad.half_1 = job /\ keypad.half_2 = job /\ keypad.lock_mac
    BY DEF PairedMeansKeyWritten
  <2>1. family \in Families /\ Reached(Len(Handshake(family)))
    BY DEF IInv, Typed, MandatoryReached
  <2>2. ASSUME NEW op \in MandatoryOps
        PROVE  \E i \in 1 .. Len(Handshake(family)) :
                 Handshake(family)[i].op = op /\ Handshake(family)[i].mandatory
    BY <2>1, FramesOf DEF Steps
  <2>3. MandatoryOps \subseteq got
    BY <2>1, <2>2 DEF Reached
  <2>4. ASSUME ~disturbed, family = keypad_family
        PROVE  \A op \in MandatoryOps : Done(op)
    BY <2>2, <2>4 DEF IInv, KeyWritten, Executed
  <2> QED
    BY <2>3, <2>4 DEF Done, MandatoryOps
<1> QED
  BY Invariance, <1>1, PTL

\* keypad_pairer.cpp:184-188: a frame is written only when the keypad is done with the
\* one before, unless that took more than 800 ms or the keypad notified unasked.
THEOREM FramesOneAtATime == Spec => []OneFrameAtATime
<1>1. IInv => OneFrameAtATime
  BY DEF IInv, Undisturbed, Control, OneFrameAtATime
<1> QED
  BY Invariance, <1>1, PTL
=============================================================================
