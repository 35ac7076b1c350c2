---------------------------- MODULE LockSession ----------------------------
(***************************************************************************)
(* The encrypted session between the bridge and a keypad                   *)
(* (lock_session.cpp): negotiation of session IVs, the hand-off from one   *)
(* IV generation to the next, the one late Fast Unlock a superseded        *)
(* generation may still deliver, and the replay window.                    *)
(*                                                                         *)
(* The keypad and the radio are the environment.  A frame may be encrypted *)
(* under any IV ever advertised, may carry any key_id and may arrive late, *)
(* twice, or never.  An IV is its position in `ivs`, the record of what    *)
(* was advertised; decrypting under another IV yields bytes that match no  *)
(* known command, and random IVs do not repeat (only their two leading     *)
(* bytes, the seq pair, do).                                               *)
(*                                                                         *)
(* Here and in the other modules an operator named X_Y is operator X with  *)
(* a plausible slip Y; properties are confirmed to notice it.              *)
(***************************************************************************)
EXTENDS Integers, Sequences, FiniteSets

CONSTANTS
  Slots,          \* token-slot key_ids keypads use
  VisionSlot,     \* VISION_KEY_SLOT (0xC6): the slot with Fast Unlock
  Seqs,           \* values of the pair <<IV[0], IV[1]>>
  CommandTypes,   \* the values of CommandType that keypads send
  KnownMethods,   \* PIN, NFC, FINGERPRINT, FACE
  OtherMethods,   \* every other method byte, "UNKNOWN" among them
  ReplayWindow,   \* REPLAY_HISTORY_SIZE (8)
  MaxIvs, MaxExecuted, MaxConnections, MaxEpochs   \* bounds of the model

ASSUME TypesAssumption ==
  {"UNKNOWN", "STATE_POLL", "UNLOCK"} \subseteq CommandTypes
ASSUME MethodsAssumption == "UNKNOWN" \in OtherMethods \ KnownMethods
ASSUME WindowAssumption == ReplayWindow \in Nat \ {0}
ASSUME BoundsAssumption ==
  MaxIvs \in Nat /\ MaxExecuted \in Nat /\ MaxConnections \in Nat /\ MaxEpochs \in Nat

NoSlot == "none"        \* slot_id_ == 0x00
ASSUME SlotsAssumption == VisionSlot \in Slots /\ NoSlot \notin Slots

NoIv == 0               \* no IV: an invalid context, or response_iv_valid_ == false

Methods == KnownMethods \cup OtherMethods
Command(type, method) == [type |-> type, method |-> method]
Unknown == Command("UNKNOWN", "UNKNOWN")          \* DecodedCommand{}
Commands ==
  {Command(t, "UNKNOWN") : t \in CommandTypes \ {"UNLOCK"}}
    \cup {Command("UNLOCK", m) : m \in Methods}

IsPoll(cmd) == cmd.type = "STATE_POLL"
IsAction(cmd) == cmd.type \in {"LOCK", "UNLOCK"}
IsFastUnlock(cmd) == cmd.type = "UNLOCK" /\ cmd.method \in KnownMethods

Ring == 0 .. ReplayWindow - 1
\* CryptoContext: an IV and its replay window.  The window holds decrypted
\* actions: under one IV equal plaintexts are equal ciphertexts.
Context(iv) ==
  [iv |-> iv, history |-> [i \in Ring |-> Unknown], head |-> 0,
   late_action_allowed |-> FALSE, handoff_poll_seen |-> FALSE]
NoContext == Context(NoIv)
Valid(c) == c.iv # NoIv

VARIABLES
  slot_id, active, pending, retired,      \* the session proper
  response_iv, header, command, result,   \* outcome of the last process_frame
  reply,        \* IV of the last response packet built for that outcome
  ivs,          \* history: every IV advertised, with when and for whom
  conn, epoch,  \* history: BLE connections, and resets plus slot changes
  executed,     \* history: non-poll commands handed to the bridge, in order
  overlap       \* history: frames accepted since the newest IV was created

session == <<slot_id, active, pending, retired>>
outcome == <<response_iv, header, command, result, reply>>
history == <<ivs, conn, epoch, executed, overlap>>
vars == <<session, outcome, history>>

Newest == Len(ivs)
SeqOf(iv) == ivs[iv].seq
\* FrameHeader: the frame's key_id, and its seq pair as that of the keypad's IV.
NoHeader == [key_id |-> NoSlot, iv |-> NoIv]

Init ==
  /\ slot_id = NoSlot
  /\ active = NoContext /\ pending = NoContext /\ retired = NoContext
  /\ response_iv = NoIv /\ header = NoHeader /\ command = Unknown
  /\ result = "NONE" /\ reply = NoIv
  /\ ivs = <<>> /\ conn = 1 /\ epoch = 1 /\ executed = <<>>
  /\ overlap = [old |-> 0, new |-> 0]

-----------------------------------------------------------------------------
(* Boundaries.                                                             *)

\* clear_transient_, then the outcome `res` of this call.  header_ is readable
\* only after COMMAND (lock_session.h:64), so the one of a dropped frame is not
\* distinguished from none.
Outcome(res, hdr, cmd, iv) ==
  /\ result' = res /\ header' = hdr /\ command' = cmd /\ response_iv' = iv
  /\ reply' = NoIv

Revoked(c) == [c EXCEPT !.late_action_allowed = FALSE, !.handoff_poll_seen = FALSE]

\* reset_transport(): a BLE connection began or ended.
ResetTransport ==
  /\ conn < MaxConnections
  /\ Outcome("NONE", NoHeader, Unknown, NoIv)
  /\ retired' = NoContext
  /\ active' = Revoked(active)
  /\ conn' = conn + 1
  /\ UNCHANGED <<slot_id, pending, ivs, epoch, executed, overlap>>

\* reset() with set_aes_key() and forget_slot(), as reset_pairing() calls them.
Reset ==
  /\ epoch < MaxEpochs
  /\ Outcome("NONE", NoHeader, Unknown, NoIv)
  /\ active' = NoContext /\ pending' = NoContext /\ retired' = NoContext
  /\ slot_id' = NoSlot
  /\ epoch' = epoch + 1
  /\ UNCHANGED <<ivs, conn, executed, overlap>>

-----------------------------------------------------------------------------
(* IV requests: ensure_pending_iv_().                                      *)

\* The request repeats a negotiation that no frame has completed.
IsRetry_Never(slot) == FALSE
IsRetry(slot) == slot = slot_id /\ Valid(pending)

\* The same IV again until a frame proves that the keypad adopted it.
RequestRetried(slot) ==
  /\ IsRetry(slot)
  /\ Outcome("SEND_IV", NoHeader, Unknown, NoIv)
  /\ UNCHANGED <<session, history>>

\* The random pair is redrawn, and in the end flipped, until it differs from
\* the active one.
FreshSeqs_Unchecked(current) == Seqs
FreshSeqs(current) == {q \in Seqs : Valid(current) => q # SeqOf(current.iv)}

\* The active context when the request is for the slot in use; a slot change
\* is a hard session boundary that discards every context.
Surviving_Always(slot) == active
Surviving(slot) == IF slot = slot_id THEN active ELSE NoContext

\* The current context when a new hand-off begins.
Armed(current, slot) ==
  [Revoked(current) EXCEPT
     !.late_action_allowed = Valid(current) /\ slot = VisionSlot]

RequestFresh(slot) ==
  LET current == Surviving(slot) IN
  /\ ~IsRetry(slot)
  /\ Newest < MaxIvs
  /\ epoch' = IF slot_id \in {slot, NoSlot} THEN epoch ELSE epoch + 1
  /\ epoch' <= MaxEpochs
  /\ \E q \in FreshSeqs(current) :
       ivs' = Append(ivs, [seq |-> q, slot |-> slot, conn |-> conn, epoch |-> epoch'])
  /\ slot_id' = slot
  /\ active' = Armed(current, slot)
  /\ pending' = Context(Newest + 1)
  /\ retired' = NoContext
  /\ overlap' = [old |-> 0, new |-> 0]
  /\ Outcome("SEND_IV", NoHeader, Unknown, NoIv)
  /\ UNCHANGED <<conn, executed>>

RequestIv(slot) == RequestRetried(slot) \/ RequestFresh(slot)

-----------------------------------------------------------------------------
(* Encrypted frames.                                                       *)

Frames == [key_id : Slots, iv : 1 .. Newest, command : Commands]

HeaderOf(f) == [key_id |-> f.key_id, iv |-> f.iv]

Matches(c, f) == Valid(c) /\ SeqOf(c.iv) = SeqOf(f.iv)
UsesPending(f) == Matches(pending, f)
UsesActive(f) == Matches(active, f)
UsesRetired(f) == Matches(retired, f)

Recognised(f) ==
  /\ f.key_id = slot_id
  /\ Valid(active) \/ Valid(pending)
  /\ UsesPending(f) \/ UsesActive(f) \/ UsesRetired(f)

Selected(f) ==
  IF UsesPending(f) THEN pending ELSE IF UsesActive(f) THEN active ELSE retired

Decrypt(c, f) == IF c.iv = f.iv THEN f.command ELSE Unknown

Decoded(f) == Decrypt(Selected(f), f)

\* The frame belongs to a generation that a newer one is replacing.
UsesPredecessor(f) == UsesRetired(f) \/ (UsesActive(f) /\ Valid(pending))

Replayed(c, cmd) == IsAction(cmd) /\ \E i \in Ring : c.history[i] = cmd

Recorded_NoWrap(c, cmd) ==
  IF IsAction(cmd) THEN [c EXCEPT !.history[c.head] = cmd, !.head = c.head + 1] ELSE c
Recorded_FixedHead(c, cmd) ==
  IF IsAction(cmd) THEN [c EXCEPT !.history[c.head] = cmd] ELSE c
Recorded(c, cmd) ==
  IF IsAction(cmd)
  THEN [c EXCEPT !.history[c.head] = cmd, !.head = (c.head + 1) % ReplayWindow]
  ELSE c

\* A superseded generation may deliver one Fast Unlock.
MayActLate(c, cmd) == IsFastUnlock(cmd) /\ c.late_action_allowed

\* The first poll under a superseded generation is tolerated, the second
\* closes the allowance, and anything else uses it up.
Overlapped_Unbounded(c, cmd) ==
  IF IsPoll(cmd) THEN c ELSE [c EXCEPT !.late_action_allowed = FALSE]
Overlapped(c, cmd) ==
  CASE ~IsPoll(cmd) -> [c EXCEPT !.late_action_allowed = FALSE]
    [] IsPoll(cmd) /\ ~c.late_action_allowed -> c
    [] IsPoll(cmd) /\ c.late_action_allowed /\ c.handoff_poll_seen ->
         [c EXCEPT !.late_action_allowed = FALSE]
    [] OTHER -> [c EXCEPT !.handoff_poll_seen = TRUE]

\* Seeing the current generation, or anything of the retired one, ends the
\* hand-off: retired_ survives only a frame under pending_.
RetiredAfter_Kept(f) == IF UsesRetired(f) THEN NoContext ELSE retired
RetiredAfter(f) == IF UsesActive(f) \/ UsesRetired(f) THEN NoContext ELSE retired

Admissible(f) ==
  UsesPredecessor(f) /\ ~IsPoll(Decoded(f)) => MayActLate(Selected(f), Decoded(f))

\* The four early returns that leave the session alone: not a protocol frame,
\* an unexpected key_id, no IV negotiated, the seq pair of no live context.
IgnoreFrame ==
  /\ Outcome("NONE", NoHeader, Unknown, NoIv)
  /\ UNCHANGED <<session, history>>

\* An oversized payload, or AES failed: possible whatever the frame is.
DropUndecryptable(f) ==
  /\ retired' = RetiredAfter(f)
  /\ Outcome("NONE", NoHeader, Unknown, NoIv)
  /\ UNCHANGED <<slot_id, active, pending, history>>

\* A non-poll under a superseded IV: the attempt uses the allowance up.
DropSuperseded(f) ==
  /\ ~Admissible(f)
  /\ active' = IF UsesActive(f) THEN Overlapped(active, Decoded(f)) ELSE active
  /\ retired' = RetiredAfter(f)
  /\ Outcome("NONE", NoHeader, Unknown, NoIv)
  /\ UNCHANGED <<slot_id, pending, history>>

\* An action already in the window; the decoded command stays readable.
DropReplayed(f) ==
  /\ Admissible(f)
  /\ Replayed(Selected(f), Decoded(f))
  /\ active' = IF UsesActive(f) /\ UsesPredecessor(f)
               THEN Overlapped(active, Decoded(f)) ELSE active
  /\ retired' = RetiredAfter(f)
  /\ Outcome("NONE", NoHeader, Decoded(f), NoIv)
  /\ UNCHANGED <<slot_id, pending, history>>

\* Still in the connection of the newest IV's first request, and not more than
\* one frame accepted under either generation since.
Prompt == ivs[Newest].conn = conn /\ overlap.old <= 1 /\ overlap.new <= 1

\* response_iv_ snapshots the IV before the contexts move.
ResponseIv_Promoted(f) == IF Valid(pending) THEN pending.iv ELSE active.iv
ResponseIv(f) == Selected(f).iv

\* The frame is admitted and Action::COMMAND returned.
Admitted(f) ==
  /\ Admissible(f)
  /\ ~Replayed(Selected(f), Decoded(f))
  /\ Outcome("COMMAND", HeaderOf(f), Decoded(f), ResponseIv(f))
  /\ \/ IsPoll(Decoded(f)) /\ UNCHANGED executed
     \/ /\ ~IsPoll(Decoded(f))
        /\ Len(executed) < MaxExecuted
        /\ executed' = Append(executed,
             [iv |-> Selected(f).iv, command |-> Decoded(f),
              newest |-> Newest, prompt |-> Prompt])
  /\ UNCHANGED <<slot_id, ivs, conn, epoch>>

Seen(n) == IF n < 2 THEN n + 1 ELSE n     \* saturates: 2 stands for "2 or more"

\* The keypad proves that it adopted the pending IV: promote it.  Only a poll
\* can race an older unlock, so only then is the predecessor retained.
AcceptPending(f) ==
  /\ UsesPending(f)
  /\ Admitted(f)
  /\ retired' = IF IsPoll(Decoded(f)) /\ Valid(active) /\ active.late_action_allowed
                THEN active ELSE NoContext
  /\ active' = Revoked(Recorded(pending, Decoded(f)))
  /\ pending' = NoContext
  /\ overlap' = [overlap EXCEPT !.new = Seen(@)]

AcceptActive(f) ==
  /\ UsesActive(f) /\ ~UsesPending(f)
  /\ Admitted(f)
  /\ active' = LET c == Recorded(active, Decoded(f))
               IN IF UsesPredecessor(f) THEN Overlapped(c, Decoded(f)) ELSE c
  /\ retired' = RetiredAfter(f)
  /\ overlap' = IF Valid(pending) THEN [overlap EXCEPT !.old = Seen(@)]
                ELSE [overlap EXCEPT !.new = Seen(@)]
  /\ UNCHANGED pending

\* The one frame of the retired generation, which is then destroyed.
AcceptRetired(f) ==
  /\ UsesRetired(f) /\ ~UsesPending(f) /\ ~UsesActive(f)
  /\ Admitted(f)
  /\ retired' = RetiredAfter(f)
  /\ overlap' = [overlap EXCEPT !.old = Seen(@)]
  /\ UNCHANGED <<active, pending>>

ProcessFrame(f) ==
  \/ DropUndecryptable(f) \/ DropSuperseded(f) \/ DropReplayed(f)
  \/ AcceptPending(f) \/ AcceptActive(f) \/ AcceptRetired(f)

\* encrypt_response(header, ...): refused unless the header's seq pair is that
\* of the IV which decrypted the last command.
EncryptResponse(h) ==
  /\ response_iv # NoIv
  /\ SeqOf(h.iv) = SeqOf(response_iv)
  /\ reply' = response_iv
  /\ UNCHANGED <<session, history, response_iv, header, command, result>>

Next ==
  \/ ResetTransport
  \/ Reset
  \/ \E slot \in Slots : RequestIv(slot)
  \/ IgnoreFrame
  \/ \E f \in {g \in Frames : Recognised(g)} : ProcessFrame(f)
  \/ EncryptResponse(header)

Spec == Init /\ [][Next]_vars

-----------------------------------------------------------------------------
(* Properties.                                                             *)

ContextsUpTo(n) ==
  [iv : 0 .. n, history : [Ring -> Commands], head : Ring,
   late_action_allowed : BOOLEAN, handoff_poll_seen : BOOLEAN]

Contexts == ContextsUpTo(Newest)

\* Every variable has its type, and every IV in use was advertised.
TypeOK ==
  /\ slot_id \in Slots \cup {NoSlot}
  /\ active \in Contexts /\ pending \in Contexts /\ retired \in Contexts
  /\ response_iv \in 0 .. Newest /\ reply \in 0 .. Newest
  /\ header \in [key_id : Slots, iv : 1 .. Newest] \cup {NoHeader}
  /\ command \in Commands /\ result \in {"NONE", "SEND_IV", "COMMAND"}
  /\ ivs \in Seq([seq : Seqs, slot : Slots, conn : Nat, epoch : Nat])
  /\ conn \in Nat /\ epoch \in Nat
  /\ overlap \in [old : 0 .. 2, new : 0 .. 2]
  /\ executed \in Seq([iv : Nat, command : Commands, newest : Nat,
                       prompt : BOOLEAN])

Older(c, d) == Valid(c) /\ Valid(d) => c.iv < d.iv /\ SeqOf(c.iv) # SeqOf(d.iv)

\* lock_session.cpp:104-107 and lock_session.h:129-133: pending_ and retired_
\* never coexist, and the seq pair of a frame selects one generation at most.
\* A retired generation exists only as the armed predecessor of an active one.
GenerationsDistinct ==
  /\ ~(Valid(pending) /\ Valid(retired))
  /\ Older(active, pending) /\ Older(retired, active)
  /\ Valid(retired) => Valid(active) /\ retired.late_action_allowed

\* lock_session.cpp:67-69: a reset or a slot change is a hard boundary: no IV
\* negotiated before it, or for another slot, is ever used after it.
BoundToEpoch ==
  \A c \in {active, pending, retired} :
    Valid(c) => ivs[c.iv].epoch = epoch /\ ivs[c.iv].slot = slot_id

\* lock_session.cpp:292-295 (issue #19): while no frame has proved that a later
\* IV is in use, the keypad may hold any IV it was advertised, so each of them
\* still has a live context: no command already encrypted with it is stranded.
NoIvStranded ==
  \A iv \in 1 .. Newest :
    ivs[iv].epoch = epoch /\ iv >= active.iv => iv \in {active.iv, pending.iv}

Late(e) == e.iv < e.newest

\* lock_session.cpp:157-160, 171-199, lock_session.h:54: a superseded generation
\* executes nothing but a Fast Unlock on the Vision slot, in the BLE connection in
\* which its successor was first requested, after at most one frame accepted under
\* either generation since then.
LateActionsAdmitted ==
  \A i \in DOMAIN executed :
    LET e == executed[i] IN
    Late(e) => /\ IsFastUnlock(e.command)
               /\ ivs[e.iv].slot = VisionSlot
               /\ ivs[e.newest].epoch = ivs[e.iv].epoch
               /\ e.prompt

\* No command runs after one of a newer generation, and a late action is the
\* last of its generation: an old unlock never runs after what replaced it.
NeverGoesBack ==
  \A i, j \in DOMAIN executed :
    i < j => /\ executed[i].iv <= executed[j].iv
             /\ Late(executed[i]) => executed[i].iv < executed[j].iv

\* lock_session.h:137-139: a command can be answered under the IV the keypad used
\* for it, also when that generation is gone, and nothing else is answered.  (The
\* exception: a frame of a dead generation whose seq pair the current one drew.)
ReplyUnderRequestIv ==
  /\ IF result = "COMMAND" THEN response_iv = header.iv \/ command = Unknown
                           ELSE response_iv = NoIv
  /\ reply # NoIv => result = "COMMAND" /\ reply = response_iv

\* The actions executed under the IV of entry i after it, up to entry n.
Since(i, n) ==
  {k \in i + 1 .. n : executed[k].iv = executed[i].iv /\ IsAction(executed[k].command)}

\* lock_session.cpp:138-141: an action is executed again under the same IV only
\* after ReplayWindow other actions of that IV, whatever promotions, hand-offs
\* and reconnections happened in between.
ReplayWindowHolds ==
  \A i, j \in DOMAIN executed :
    /\ i < j
    /\ executed[i].iv = executed[j].iv
    /\ executed[i].command = executed[j].command
    /\ IsAction(executed[i].command)
    => Cardinality(Since(i, j - 1)) >= ReplayWindow

-----------------------------------------------------------------------------
(* The session implements Handoff.                                          *)

\* Generations that may still execute something other than a poll: the one on offer,
\* the one in use unless its successor is on offer and its allowance is gone, and
\* the retired one.
Live ==
  {iv \in 1 .. Newest :
     \/ iv = pending.iv
     \/ iv = active.iv /\ (Valid(pending) => active.late_action_allowed)
     \/ iv = retired.iv}

Log == [i \in DOMAIN executed |->
          [iv |-> executed[i].iv, command |-> executed[i].command]]

Abstract == INSTANCE Handoff WITH
  Commands <- {c \in Commands : ~IsPoll(c)},
  LateCommands <- {c \in Commands : IsFastUnlock(c)},
  newest <- Newest, live <- Live, log <- Log

\* lock_session.cpp:157-206 and lock_session.h:42-58: every call of the session is an
\* offer, a withdrawal or an execution of the abstract hand-off, or changes nothing
\* there: no order of requests, frames and boundaries revives a superseded generation
\* or gets two commands out of it.
ImplementsHandoff == Abstract!Spec

-----------------------------------------------------------------------------
(* The inductive invariant behind the safety properties: TypeOK and the      *)
(* parts below; WindowsRemember, on top of it, is behind ReplayWindowHolds.  *)

\* Generations advertised so far belong to this epoch or to an earlier one.
EpochsOrdered ==
  \A iv \in 1 .. Newest :
    ivs[iv].epoch <= epoch /\ (slot_id = NoSlot => ivs[iv].epoch < epoch)

\* The newest live generation is the newest advertised one.
NewestLive ==
  /\ Valid(pending) => pending.iv = Newest
  /\ Valid(active) /\ ~Valid(pending) => active.iv = Newest

\* The allowance exists only on the Vision slot, during a hand-off, in the
\* connection that began it, and within the budget of polls.
Allowance ==
  /\ ~pending.late_action_allowed
  /\ active.late_action_allowed =>
       /\ Valid(active) /\ Valid(pending) /\ slot_id = VisionSlot
       /\ ivs[Newest].conn = conn
       /\ overlap.new = 0
       /\ overlap.old <= 1 /\ (~active.handoff_poll_seen => overlap.old = 0)
  /\ Valid(retired) =>
       /\ slot_id = VisionSlot
       /\ ivs[Newest].conn = conn
       /\ overlap.new <= 1 /\ overlap.old <= 1

\* What was executed belongs to generations the live ones do not precede.
ExecutedBefore ==
  \A i \in DOMAIN executed :
    LET e == executed[i] IN
    /\ e.iv \in 1 .. e.newest /\ e.newest \in 1 .. Newest
    /\ Valid(pending) => e.iv < pending.iv
    /\ Valid(active) => e.iv <= active.iv
    /\ Valid(active) /\ Late(e) /\ e.iv = active.iv =>
         Valid(pending) /\ ~active.late_action_allowed
    /\ Valid(retired) => e.iv <= retired.iv /\ (Late(e) => e.iv < retired.iv)

\* The replay window of a live context holds the last actions of its IV, the newest
\* just behind its head.
Remembers(c) ==
  \A i \in DOMAIN executed :
    LET later == Cardinality(Since(i, Len(executed))) IN
    executed[i].iv = c.iv /\ IsAction(executed[i].command) /\ later < ReplayWindow
      => c.history[(c.head - 1 - later) % ReplayWindow] = executed[i].command

WindowsRemember == \A c \in {active, pending, retired} : Valid(c) => Remembers(c)

IInv ==
  /\ TypeOK /\ GenerationsDistinct /\ BoundToEpoch
  /\ EpochsOrdered /\ NewestLive /\ Allowance /\ ExecutedBefore
=============================================================================
