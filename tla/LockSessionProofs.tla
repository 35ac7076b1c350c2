------------------------- MODULE LockSessionProofs -------------------------
(***************************************************************************)
(* Proofs about LockSession, for every set of slots, seq pairs and methods *)
(* and every size of the replay window.                                    *)
(***************************************************************************)
EXTENDS LockSession, FiniteSetTheorems, TLAPS

-----------------------------------------------------------------------------
(* The operators on contexts.                                              *)

\* The empty command is a command, and slot and window are never empty.
LEMMA Basics ==
  /\ Unknown \in Commands
  /\ ~IsPoll(Unknown) /\ ~IsAction(Unknown) /\ ~IsFastUnlock(Unknown)
  /\ 0 \in Ring
<1>1. Unknown \in Commands
  BY TypesAssumption DEF Unknown, Commands, Command
<1>2. 0 \in Ring
  BY WindowAssumption DEF Ring
<1> QED BY <1>1, <1>2 DEF Unknown, Command, IsPoll, IsAction, IsFastUnlock

\* A fresh context holds its IV, an empty window and no allowance.
LEMMA FreshContext ==
  ASSUME NEW n \in Nat, NEW iv \in 0 .. n
  PROVE  /\ Context(iv) \in ContextsUpTo(n)
         /\ Context(iv).iv = iv
         /\ ~Context(iv).late_action_allowed
         /\ ~Context(iv).handoff_poll_seen
BY Basics DEF Context, ContextsUpTo

\* The invalid context is a context, and holds no IV and no allowance.
LEMMA EmptyContext ==
  ASSUME NEW n \in Nat
  PROVE  /\ NoContext \in ContextsUpTo(n)
         /\ NoContext.iv = 0
         /\ ~Valid(NoContext)
         /\ ~NoContext.late_action_allowed
         /\ ~NoContext.handoff_poll_seen
BY FreshContext DEF NoContext, Valid, NoIv

\* Contexts advertised so far stay contexts when more IVs are advertised.
LEMMA ContextsGrow ==
  ASSUME NEW m \in Nat, NEW n \in Nat, m <= n, NEW c \in ContextsUpTo(m)
  PROVE  c \in ContextsUpTo(n)
BY DEF ContextsUpTo

\* A revoked context keeps its IV and window.
LEMMA RevokedContext ==
  ASSUME NEW n \in Nat, NEW c \in ContextsUpTo(n)
  PROVE  /\ Revoked(c) \in ContextsUpTo(n)
         /\ Revoked(c).iv = c.iv
         /\ ~Revoked(c).late_action_allowed
         /\ ~Revoked(c).handoff_poll_seen
BY DEF Revoked, ContextsUpTo

\* Arming grants the allowance to a valid context of the Vision slot only.
LEMMA ArmedContext ==
  ASSUME NEW n \in Nat, NEW c \in ContextsUpTo(n), NEW slot
  PROVE  /\ Armed(c, slot) \in ContextsUpTo(n)
         /\ Armed(c, slot).iv = c.iv
         /\ Armed(c, slot).late_action_allowed = (Valid(c) /\ slot = VisionSlot)
         /\ ~Armed(c, slot).handoff_poll_seen
BY DEF Armed, Revoked, ContextsUpTo, Valid

\* Recording an action touches the window only.
LEMMA RecordedContext ==
  ASSUME NEW n \in Nat, NEW c \in ContextsUpTo(n), NEW cmd \in Commands
  PROVE  /\ Recorded(c, cmd) \in ContextsUpTo(n)
         /\ Recorded(c, cmd).iv = c.iv
         /\ Recorded(c, cmd).late_action_allowed = c.late_action_allowed
         /\ Recorded(c, cmd).handoff_poll_seen = c.handoff_poll_seen
<1>1. (c.head + 1) % ReplayWindow \in Ring
  BY WindowAssumption DEF ContextsUpTo, Ring
<1> QED BY <1>1 DEF Recorded, ContextsUpTo

\* The allowance survives exactly the first poll.
LEMMA OverlappedContext ==
  ASSUME NEW n \in Nat, NEW c \in ContextsUpTo(n), NEW cmd \in Commands
  PROVE  /\ Overlapped(c, cmd) \in ContextsUpTo(n)
         /\ Overlapped(c, cmd).iv = c.iv
         /\ Overlapped(c, cmd).late_action_allowed =
              (IsPoll(cmd) /\ c.late_action_allowed /\ ~c.handoff_poll_seen)
         /\ Overlapped(c, cmd).handoff_poll_seen =
              (c.handoff_poll_seen \/ (IsPoll(cmd) /\ c.late_action_allowed))
BY DEF Overlapped, ContextsUpTo

\* Decryption yields the keypad's command or an unknown one.
LEMMA DecodedCommand ==
  ASSUME NEW f \in Frames
  PROVE  Decoded(f) \in Commands
BY Basics DEF Decoded, Decrypt, Frames

\* The saturating counter of accepted frames stays in range.
LEMMA SeenCount ==
  ASSUME NEW k \in 0 .. 2
  PROVE  Seen(k) \in 0 .. 2
BY DEF Seen

-----------------------------------------------------------------------------
(* Type correctness.                                                       *)

\* What a recognised frame selects is a live context.
LEMMA SelectedContext ==
  ASSUME TypeOK, NEW f \in Frames, Recognised(f)
  PROVE  /\ Selected(f) \in Contexts
         /\ Valid(Selected(f))
         /\ UsesPending(f) => Selected(f) = pending
         /\ UsesActive(f) /\ ~UsesPending(f) => Selected(f) = active
         /\ UsesRetired(f) /\ ~UsesActive(f) /\ ~UsesPending(f) => Selected(f) = retired
BY DEF TypeOK, Recognised, Selected, UsesPending, UsesActive, UsesRetired, Matches

\* Frames leave what was advertised alone, so contexts keep their type.
LEMMA RetiredAfterType ==
  ASSUME TypeOK, NEW f \in Frames
  PROVE  RetiredAfter(f) \in Contexts
BY EmptyContext DEF TypeOK, RetiredAfter, Contexts, Newest

\* The initial session has its types.
LEMMA InitTypeOK == Init => TypeOK
<1> SUFFICES ASSUME Init PROVE TypeOK
  OBVIOUS
<1>1. Newest = 0
  BY DEF Init, Newest
<1>2. NoContext \in Contexts
  BY <1>1, EmptyContext DEF Contexts
<1> QED BY <1>1, <1>2, Basics DEF Init, TypeOK, NoIv

\* An IV request preserves the types; the new IV becomes a legal one.
LEMMA RequestTypeOK ==
  ASSUME TypeOK, NEW slot \in Slots, RequestFresh(slot)
  PROVE  TypeOK'
<1>1. /\ ivs' \in Seq([seq : Seqs, slot : Slots, conn : Nat, epoch : Nat])
      /\ Newest' = Newest + 1 /\ Newest \in Nat
  <2>1. PICK q \in FreshSeqs(Surviving(slot)) :
          ivs' = Append(ivs, [seq |-> q, slot |-> slot, conn |-> conn, epoch |-> epoch'])
    BY DEF RequestFresh
  <2>2. q \in Seqs /\ epoch' \in Nat
    BY DEF FreshSeqs, RequestFresh, TypeOK
  <2> QED BY <2>1, <2>2 DEF TypeOK, Newest
<1>2. active' \in Contexts'
  <2>1. Surviving(slot) \in Contexts
    BY <1>1, EmptyContext DEF Surviving, TypeOK, Contexts
  <2>2. Armed(Surviving(slot), slot) \in Contexts
    BY <1>1, <2>1, ArmedContext DEF Contexts
  <2> QED BY <1>1, <2>2, ContextsGrow DEF Contexts, RequestFresh
<1>3. pending' \in Contexts' /\ retired' \in Contexts'
  BY <1>1, FreshContext, EmptyContext DEF RequestFresh, Contexts
<1>4. epoch' \in Nat
  BY DEF RequestFresh, TypeOK
<1> QED BY <1>1, <1>2, <1>3, <1>4, Basics DEF RequestFresh, Outcome, TypeOK, NoIv

\* Every way a recognised frame can end preserves the types.
LEMMA FrameTypeOK ==
  ASSUME TypeOK, NEW f \in Frames, Recognised(f), ProcessFrame(f)
  PROVE  TypeOK'
<1> DEFINE cmd == Decoded(f)
<1>1. /\ cmd \in Commands
      /\ Selected(f) \in Contexts
      /\ RetiredAfter(f) \in Contexts
      /\ NoContext \in Contexts
      /\ Newest \in Nat
  BY DecodedCommand, SelectedContext, RetiredAfterType, EmptyContext DEF TypeOK, Newest, Contexts
<1>2. /\ Overlapped(active, cmd) \in Contexts
      /\ Recorded(active, cmd) \in Contexts
      /\ Overlapped(Recorded(active, cmd), cmd) \in Contexts
      /\ Revoked(Recorded(pending, cmd)) \in Contexts
  BY <1>1, OverlappedContext, RecordedContext, RevokedContext DEF TypeOK, Contexts
<1>3. /\ UNCHANGED <<slot_id, ivs, conn, epoch>>
      /\ Newest' = Newest /\ Contexts' = Contexts
  BY DEF ProcessFrame, DropUndecryptable, DropSuperseded, DropReplayed, AcceptPending,
         AcceptActive, AcceptRetired, Admitted, history, Newest, Contexts
<1>4. active' \in Contexts /\ pending' \in Contexts /\ retired' \in Contexts
  BY <1>1, <1>2 DEF ProcessFrame, DropUndecryptable, DropSuperseded, DropReplayed,
         AcceptPending, AcceptActive, AcceptRetired, TypeOK
<1>5. /\ response_iv' \in 0 .. Newest /\ reply' \in 0 .. Newest
      /\ header' \in [key_id : Slots, iv : 1 .. Newest] \cup {NoHeader}
      /\ command' \in Commands /\ result' \in {"NONE", "SEND_IV", "COMMAND"}
  <2>1. Selected(f).iv \in 0 .. Newest
    BY <1>1 DEF Contexts, ContextsUpTo
  <2>2. HeaderOf(f) \in [key_id : Slots, iv : 1 .. Newest]
    BY DEF HeaderOf, Frames
  <2> QED BY <1>1, <2>1, <2>2, Basics DEF ProcessFrame, DropUndecryptable, DropSuperseded,
         DropReplayed, AcceptPending, AcceptActive, AcceptRetired, Admitted, Outcome,
         ResponseIv, NoIv
<1>6. overlap' \in [old : 0 .. 2, new : 0 .. 2]
  BY SeenCount DEF ProcessFrame, DropUndecryptable, DropSuperseded, DropReplayed,
         AcceptPending, AcceptActive, AcceptRetired, history, TypeOK
<1>7. executed' \in Seq([iv : Nat, command : Commands, newest : Nat, prompt : BOOLEAN])
  <2>1. Selected(f).iv \in Nat
    BY <1>1 DEF Contexts, ContextsUpTo
  <2>2. CASE UNCHANGED executed
    BY <2>2 DEF TypeOK
  <2>3. CASE executed' = Append(executed, [iv |-> Selected(f).iv, command |-> cmd,
                                 newest |-> Newest, prompt |-> Prompt])
    BY <1>1, <2>1, <2>3 DEF TypeOK, Prompt
  <2> QED BY <2>2, <2>3 DEF ProcessFrame, DropUndecryptable, DropSuperseded, DropReplayed,
         AcceptPending, AcceptActive, AcceptRetired, Admitted, history
<1> QED BY <1>3, <1>4, <1>5, <1>6, <1>7 DEF TypeOK

\* Every step preserves the types: one case for each operation of the session.
LEMMA NextTypeOK == TypeOK /\ [Next]_vars => TypeOK'
<1> SUFFICES ASSUME TypeOK, [Next]_vars PROVE TypeOK'
  OBVIOUS
<1>1. Newest \in Nat
  BY DEF TypeOK, Newest
<1>2. NoContext \in Contexts /\ Revoked(active) \in Contexts
  BY <1>1, EmptyContext, RevokedContext DEF Contexts, TypeOK
<1>3. CASE ResetTransport
  BY <1>1, <1>2, <1>3, Basics DEF ResetTransport, Outcome, TypeOK, Contexts, Newest, NoIv
<1>4. CASE Reset
  BY <1>1, <1>2, <1>4, Basics DEF Reset, Outcome, TypeOK, Contexts, Newest, NoIv
<1>5. ASSUME NEW slot \in Slots, RequestIv(slot) PROVE TypeOK'
  <2>1. CASE RequestRetried(slot)
    BY <1>1, <2>1, Basics
       DEF RequestRetried, Outcome, session, history, TypeOK, Contexts, Newest, NoIv
  <2> QED BY <1>5, <2>1, RequestTypeOK DEF RequestIv
<1>6. CASE IgnoreFrame
  BY <1>1, <1>6, Basics DEF IgnoreFrame, Outcome, session, history, TypeOK, Contexts, Newest, NoIv
<1>7. ASSUME NEW f \in Frames, Recognised(f), ProcessFrame(f) PROVE TypeOK'
  BY <1>7, FrameTypeOK
<1>8. CASE EncryptResponse(header)
  BY <1>8 DEF EncryptResponse, session, history, TypeOK, Contexts, Newest
<1>9. CASE UNCHANGED vars
  BY <1>9 DEF vars, session, outcome, history, TypeOK, Contexts, Newest
<1> QED BY <1>3, <1>4, <1>5, <1>6, <1>7, <1>8, <1>9 DEF Next

\* Every variable keeps its type: lock_session.h:94-146.
THEOREM TypeCorrect == Spec => []TypeOK
BY InitTypeOK, NextTypeOK, PTL DEF Spec

-----------------------------------------------------------------------------
(* The inductive invariant.                                                *)

\* What a dropped frame can change: it may use the allowance up and end the
\* life of the retired generation, nothing else.
LEMMA DropEffect ==
  ASSUME TypeOK, NEW f \in Frames, Recognised(f),
         DropUndecryptable(f) \/ DropSuperseded(f) \/ DropReplayed(f)
  PROVE  /\ UNCHANGED <<slot_id, pending, history>>
         /\ active'.iv = active.iv
         /\ active'.handoff_poll_seen = active.handoff_poll_seen
         /\ active'.late_action_allowed => active.late_action_allowed
         /\ retired' = retired \/ retired' = NoContext
<1>1. Decoded(f) \in Commands /\ active \in Contexts /\ Newest \in Nat
  BY DecodedCommand DEF TypeOK, Newest
<1>2. retired' = retired \/ retired' = NoContext
  BY DEF DropUndecryptable, DropSuperseded, DropReplayed, RetiredAfter
<1>3. ASSUME ~IsPoll(Decoded(f))
      PROVE  /\ Overlapped(active, Decoded(f)).iv = active.iv
             /\ Overlapped(active, Decoded(f)).handoff_poll_seen = active.handoff_poll_seen
             /\ ~Overlapped(active, Decoded(f)).late_action_allowed
  BY <1>1, <1>3 DEF Overlapped, Contexts, ContextsUpTo
<1>4. CASE DropSuperseded(f)
  <2>1. ~IsPoll(Decoded(f))
    BY <1>4 DEF DropSuperseded, Admissible
  <2> QED BY <1>2, <1>3, <1>4, <2>1 DEF DropSuperseded
<1>5. CASE DropReplayed(f)
  <2>1. ~IsPoll(Decoded(f))
    BY <1>5 DEF DropReplayed, Replayed, IsAction, IsPoll
  <2> QED BY <1>2, <1>3, <1>5, <2>1 DEF DropReplayed
<1> QED BY <1>2, <1>4, <1>5 DEF DropUndecryptable

\* A dropped frame (lock_session.cpp:127-223) preserves the inductive invariant.
LEMMA DropIInv ==
  ASSUME IInv, NEW f \in Frames, Recognised(f),
         DropUndecryptable(f) \/ DropSuperseded(f) \/ DropReplayed(f)
  PROVE  IInv'
<1>1. TypeOK'
  BY FrameTypeOK DEF IInv, ProcessFrame
<1>2. /\ UNCHANGED <<slot_id, pending, history>>
      /\ active'.iv = active.iv
      /\ active'.handoff_poll_seen = active.handoff_poll_seen
      /\ active'.late_action_allowed => active.late_action_allowed
      /\ retired' = retired \/ retired' = NoContext
  BY DropEffect DEF IInv
<1>3. Newest' = Newest /\ ~Valid(NoContext)
  BY <1>2 DEF history, Newest, Valid, NoContext, Context
<1>4. GenerationsDistinct'
  BY <1>2, <1>3 DEF IInv, GenerationsDistinct, Older, Valid, SeqOf, history
<1>5. BoundToEpoch'
  BY <1>2, <1>3 DEF IInv, BoundToEpoch, Valid, history
<1>6. EpochsOrdered' /\ NewestLive'
  BY <1>2, <1>3 DEF IInv, EpochsOrdered, NewestLive, Valid, history
<1>7. Allowance'
  BY <1>2, <1>3 DEF IInv, Allowance, Valid, history
<1>8. ExecutedBefore'
  BY <1>2, <1>3 DEF IInv, ExecutedBefore, Valid, history, Late
<1> QED BY <1>1, <1>4, <1>5, <1>6, <1>7, <1>8 DEF IInv

\* The log after an accepted frame: a non-poll adds the entry of the selected
\* generation.
LEMMA ExecutedAfter ==
  ASSUME TypeOK, NEW f \in Frames, Recognised(f), Admitted(f), NEW i \in DOMAIN executed'
  PROVE  \/ i \in DOMAIN executed /\ executed'[i] = executed[i]
         \/ /\ ~IsPoll(Decoded(f))
            /\ i = Len(executed) + 1
            /\ executed'[i].iv = Selected(f).iv
            /\ executed'[i].newest = Newest
            /\ executed'[i].command = Decoded(f)
            /\ executed'[i].prompt = Prompt
<1>1. CASE IsPoll(Decoded(f)) /\ UNCHANGED executed
  BY <1>1
<1>2. CASE /\ ~IsPoll(Decoded(f))
           /\ executed' = Append(executed, [iv |-> Selected(f).iv, command |-> Decoded(f),
                                            newest |-> Newest, prompt |-> Prompt])
  <2> DEFINE e == [iv |-> Selected(f).iv, command |-> Decoded(f),
                   newest |-> Newest, prompt |-> Prompt]
  <2>1. Len(executed) \in Nat /\ DOMAIN executed = 1 .. Len(executed)
    BY DEF TypeOK
  <2>2. DOMAIN executed' = 1 .. Len(executed) + 1
    BY <1>2 DEF TypeOK
  <2>3. CASE i \in 1 .. Len(executed)
    <3>1. executed'[i] = executed[i]
      BY <1>2, <2>3 DEF TypeOK
    <3> QED BY <2>1, <2>3, <3>1
  <2>4. CASE i = Len(executed) + 1
    <3>1. executed'[i] = e
      BY <1>2, <2>4 DEF TypeOK
    <3> QED BY <1>2, <2>4, <3>1
  <2> QED BY <2>1, <2>2, <2>3, <2>4
<1> QED BY <1>1, <1>2 DEF Admitted

\* Promotion: the pending generation becomes the active one.
LEMMA PromotionIInv ==
  ASSUME IInv, NEW f \in Frames, Recognised(f), AcceptPending(f)
  PROVE  IInv'
<1> USE DEF IInv
<1>1. TypeOK'
  BY FrameTypeOK DEF ProcessFrame
<1>2. /\ Decoded(f) \in Commands /\ Newest \in Nat /\ Newest' = Newest
      /\ Selected(f) = pending /\ Valid(pending) /\ ~Valid(NoContext)
      /\ UNCHANGED <<slot_id, ivs, conn, epoch>>
  BY DecodedCommand, SelectedContext
     DEF AcceptPending, UsesPending, Matches, TypeOK, Newest, Admitted, Valid, NoContext, Context
<1>3. /\ active'.iv = pending.iv
      /\ ~active'.late_action_allowed
      /\ ~active'.handoff_poll_seen
      /\ pending' = NoContext
  <2>1. pending \in Contexts
    BY DEF TypeOK
  <2> QED BY <1>2, <2>1, RecordedContext, RevokedContext DEF AcceptPending, Contexts
<1>4. \/ retired' = NoContext
      \/ /\ retired' = active /\ Valid(active) /\ active.late_action_allowed
         /\ IsPoll(Decoded(f)) /\ UNCHANGED executed
  BY DEF AcceptPending, Admitted
<1>5. overlap'.old = overlap.old /\ (overlap.new = 0 => overlap'.new = 1)
  BY DEF AcceptPending, Seen, TypeOK
<1>6. ~NoContext.late_action_allowed
  BY EmptyContext, <1>2
<1>7. GenerationsDistinct'
  BY <1>2, <1>3, <1>4 DEF GenerationsDistinct, Older, Valid, SeqOf
<1>8. BoundToEpoch'
  BY <1>2, <1>3, <1>4 DEF BoundToEpoch, Valid
<1>9. EpochsOrdered' /\ NewestLive'
  BY <1>2, <1>3 DEF EpochsOrdered, NewestLive, Valid
<1>10. Allowance'
  BY <1>2, <1>3, <1>4, <1>5, <1>6 DEF Allowance, Valid
<1>11. ExecutedBefore'
  <2> SUFFICES ASSUME NEW i \in DOMAIN executed'
               PROVE  LET e == executed'[i] IN
                 /\ e.iv \in 1 .. e.newest /\ e.newest \in 1 .. Newest
                 /\ e.iv <= active'.iv
                 /\ ~(Late(e) /\ e.iv = active'.iv)
                 /\ Valid(retired') => e.iv <= retired'.iv /\ (Late(e) => e.iv < retired'.iv)
    BY <1>2, <1>3 DEF ExecutedBefore, Valid, Late
  <2>1. CASE i \in DOMAIN executed /\ executed'[i] = executed[i]
    <3>1. pending.iv \in Nat /\ active.iv \in Nat
      BY DEF TypeOK, Contexts, ContextsUpTo
    <3> QED BY <1>2, <1>3, <1>4, <2>1, <3>1 DEF ExecutedBefore, Valid, Late
  <2>2. CASE /\ ~IsPoll(Decoded(f))
             /\ executed'[i].iv = Selected(f).iv /\ executed'[i].newest = Newest
    <3>1. pending.iv = Newest /\ Newest > 0
      BY <1>2 DEF NewestLive, Valid, NoIv
    <3> QED BY <1>2, <1>3, <1>4, <2>2, <3>1 DEF Late
  <2> QED BY <2>1, <2>2, ExecutedAfter DEF AcceptPending
<1> QED BY <1>1, <1>7, <1>8, <1>9, <1>10, <1>11

\* A frame of the active generation: current, or superseded by pending.
LEMMA ActiveIInv ==
  ASSUME IInv, NEW f \in Frames, Recognised(f), AcceptActive(f)
  PROVE  IInv'
<1> USE DEF IInv
<1> DEFINE cmd == Decoded(f)
<1>1. TypeOK'
  BY FrameTypeOK DEF ProcessFrame
<1>2. /\ cmd \in Commands /\ Newest \in Nat /\ Newest' = Newest
      /\ Selected(f) = active /\ Valid(active) /\ ~Valid(NoContext)
      /\ active \in Contexts
      /\ UNCHANGED <<slot_id, ivs, conn, epoch, pending>>
      /\ retired' = NoContext
  BY DecodedCommand, SelectedContext
     DEF AcceptActive, UsesActive, Matches, TypeOK, Newest, Admitted, Valid, NoContext,
         Context, RetiredAfter
<1>3. UsesPredecessor(f) <=> Valid(pending)
  <2>1. ~(UsesRetired(f))
    BY <1>2 DEF UsesRetired, Matches, GenerationsDistinct, Older, AcceptActive, UsesActive
  <2> QED BY <2>1 DEF UsesPredecessor, AcceptActive
<1>4. CASE ~Valid(pending)
  <2>1. /\ active'.iv = active.iv
        /\ active'.late_action_allowed = active.late_action_allowed
    BY <1>2, <1>3, <1>4, RecordedContext DEF AcceptActive, Contexts
  <2>2. ~active.late_action_allowed
    BY <1>4 DEF Allowance
  <2>3. active.iv = Newest /\ Newest > 0
    BY <1>2, <1>4 DEF NewestLive, Valid, NoIv
  <2>4. GenerationsDistinct' /\ BoundToEpoch'
    BY <1>2, <1>4, <2>1 DEF GenerationsDistinct, Older, Valid, SeqOf, BoundToEpoch
  <2>5. EpochsOrdered' /\ NewestLive'
    BY <1>2, <1>4, <2>1 DEF EpochsOrdered, NewestLive, Valid
  <2>6. Allowance'
    BY <1>2, <1>4, <2>1, <2>2 DEF Allowance, Valid
  <2>7. ExecutedBefore'
    <3> SUFFICES ASSUME NEW i \in DOMAIN executed'
                 PROVE  LET e == executed'[i] IN
                   /\ e.iv \in 1 .. e.newest /\ e.newest \in 1 .. Newest
                   /\ e.iv <= active.iv
                   /\ ~(Late(e) /\ e.iv = active.iv)
      BY <1>2, <1>4, <2>1 DEF ExecutedBefore, Valid, Late
    <3>1. CASE i \in DOMAIN executed /\ executed'[i] = executed[i]
      BY <1>2, <1>4, <3>1 DEF ExecutedBefore, Valid, Late
    <3>2. CASE executed'[i].iv = Selected(f).iv /\ executed'[i].newest = Newest
      BY <1>2, <2>3, <3>2 DEF Late
    <3> QED BY <3>1, <3>2, ExecutedAfter DEF AcceptActive
  <2> QED BY <1>1, <2>4, <2>5, <2>6, <2>7
<1>5. CASE Valid(pending)
  <2>1. /\ active'.iv = active.iv
        /\ active'.late_action_allowed =>
             /\ active.late_action_allowed /\ ~active.handoff_poll_seen /\ IsPoll(cmd)
             /\ active'.handoff_poll_seen
    <3> DEFINE c == Recorded(active, cmd)
    <3>1. /\ c \in ContextsUpTo(Newest) /\ c.iv = active.iv
          /\ c.late_action_allowed = active.late_action_allowed
          /\ c.handoff_poll_seen = active.handoff_poll_seen
      BY <1>2, RecordedContext DEF Contexts
    <3>2. active' = Overlapped(c, cmd)
      BY <1>3, <1>5 DEF AcceptActive
    <3> HIDE DEF c
    <3>3. /\ Overlapped(c, cmd).iv = c.iv
          /\ Overlapped(c, cmd).late_action_allowed =>
               /\ c.late_action_allowed /\ ~c.handoff_poll_seen /\ IsPoll(cmd)
               /\ Overlapped(c, cmd).handoff_poll_seen
      BY <1>2, <3>1, OverlappedContext
    <3> QED BY <3>1, <3>2, <3>3
  <2>2. ~IsPoll(cmd) => active.late_action_allowed /\ ~active'.late_action_allowed
    BY <1>2, <1>3, <1>5, <2>1 DEF AcceptActive, Admitted, Admissible, MayActLate
  <2>3. overlap'.new = overlap.new /\ (overlap.old = 0 => overlap'.old = 1)
    BY <1>5 DEF AcceptActive, Seen, TypeOK
  <2>4. GenerationsDistinct' /\ BoundToEpoch'
    BY <1>2, <1>5, <2>1 DEF GenerationsDistinct, Older, Valid, SeqOf, BoundToEpoch
  <2>5. EpochsOrdered' /\ NewestLive'
    BY <1>2, <1>5, <2>1 DEF EpochsOrdered, NewestLive, Valid
  <2>6. Allowance'
    BY <1>2, <1>5, <2>1, <2>3 DEF Allowance, Valid
  <2>7. active.iv < pending.iv /\ pending.iv = Newest /\ active.iv \in Nat /\ active.iv > 0
    BY <1>2, <1>5 DEF GenerationsDistinct, Older, NewestLive, Valid, NoIv, Contexts, ContextsUpTo
  <2>8. ExecutedBefore'
    <3> SUFFICES ASSUME NEW i \in DOMAIN executed'
                 PROVE  LET e == executed'[i] IN
                   /\ e.iv \in 1 .. e.newest /\ e.newest \in 1 .. Newest
                   /\ e.iv < pending.iv
                   /\ e.iv <= active.iv
                   /\ Late(e) /\ e.iv = active.iv => ~active'.late_action_allowed
      BY <1>2, <1>5, <2>1 DEF ExecutedBefore, Valid, Late
    <3>1. CASE i \in DOMAIN executed /\ executed'[i] = executed[i]
      BY <1>2, <1>5, <2>1, <3>1 DEF ExecutedBefore, Valid, Late
    <3>2. CASE /\ ~IsPoll(cmd)
               /\ executed'[i].iv = Selected(f).iv /\ executed'[i].newest = Newest
      BY <1>2, <2>2, <2>7, <3>2 DEF Late
    <3> QED BY <3>1, <3>2, ExecutedAfter DEF AcceptActive
  <2> QED BY <1>1, <2>4, <2>5, <2>6, <2>8
<1> QED BY <1>4, <1>5

\* The one frame of the retired generation.
LEMMA RetiredIInv ==
  ASSUME IInv, NEW f \in Frames, Recognised(f), AcceptRetired(f)
  PROVE  IInv'
<1> USE DEF IInv
<1>1. TypeOK'
  BY FrameTypeOK DEF ProcessFrame
<1>2. /\ Newest \in Nat /\ Newest' = Newest
      /\ Selected(f) = retired /\ Valid(retired) /\ ~Valid(NoContext)
      /\ UNCHANGED <<slot_id, ivs, conn, epoch, pending, active>>
      /\ retired' = NoContext
  BY SelectedContext
     DEF AcceptRetired, UsesRetired, Matches, TypeOK, Newest, Admitted, Valid, NoContext,
         Context, RetiredAfter
<1>3. /\ ~Valid(pending) /\ Valid(active) /\ active.iv = Newest
      /\ retired.iv < active.iv /\ retired.iv \in Nat /\ retired.iv > 0
      /\ ~active.late_action_allowed
  BY <1>2 DEF GenerationsDistinct, Older, NewestLive, Allowance, Valid, NoIv, TypeOK,
              Contexts, ContextsUpTo
<1>4. GenerationsDistinct' /\ BoundToEpoch'
  BY <1>2, <1>3 DEF GenerationsDistinct, Older, Valid, SeqOf, BoundToEpoch
<1>5. EpochsOrdered' /\ NewestLive'
  BY <1>2 DEF EpochsOrdered, NewestLive, Valid
<1>6. Allowance'
  BY <1>2, <1>3 DEF Allowance, Valid
<1>7. ExecutedBefore'
  <2> SUFFICES ASSUME NEW i \in DOMAIN executed'
               PROVE  LET e == executed'[i] IN
                 /\ e.iv \in 1 .. e.newest /\ e.newest \in 1 .. Newest
                 /\ e.iv <= active.iv
                 /\ ~(Late(e) /\ e.iv = active.iv)
    BY <1>2, <1>3 DEF ExecutedBefore, Valid, Late
  <2>1. CASE i \in DOMAIN executed /\ executed'[i] = executed[i]
    BY <1>2, <1>3, <2>1 DEF ExecutedBefore, Valid, Late
  <2>2. CASE executed'[i].iv = Selected(f).iv /\ executed'[i].newest = Newest
    BY <1>2, <1>3, <2>2 DEF Late
  <2> QED BY <2>1, <2>2, ExecutedAfter DEF AcceptRetired
<1> QED BY <1>1, <1>4, <1>5, <1>6, <1>7

\* Every advertised IV has its connection and epoch, which are numbers.
LEMMA EpochTypes ==
  ASSUME TypeOK
  PROVE  epoch \in Nat /\ \A iv \in 1 .. Newest : ivs[iv].epoch \in Nat
<1> DEFINE Advertised == [seq : Seqs, slot : Slots, conn : Nat, epoch : Nat]
<1>1. ivs \in Seq(Advertised) /\ epoch \in Nat
  BY DEF TypeOK
<1>2. \A iv \in 1 .. Newest : ivs[iv] \in Advertised
  <2> HIDE DEF Advertised
  <2> QED BY <1>1 DEF Newest
<1> QED BY <1>1, <1>2

\* A fresh IV request arms the hand-off from the active generation.
LEMMA RequestIInv ==
  ASSUME IInv, NEW slot \in Slots, RequestFresh(slot)
  PROVE  IInv'
<1> USE DEF IInv
<1> DEFINE current == Surviving(slot)
<1>1. TypeOK'
  BY RequestTypeOK
<1>2. /\ Newest \in Nat /\ Newest' = Newest + 1
      /\ \A iv \in 1 .. Newest : ivs'[iv] = ivs[iv]
      /\ ivs'[Newest + 1].seq \in FreshSeqs(current)
      /\ ivs'[Newest + 1].slot = slot /\ ivs'[Newest + 1].conn = conn
      /\ ivs'[Newest + 1].epoch = epoch'
  <2>1. PICK q \in FreshSeqs(current) :
          ivs' = Append(ivs, [seq |-> q, slot |-> slot, conn |-> conn, epoch |-> epoch'])
    BY DEF RequestFresh
  <2> QED BY <2>1 DEF TypeOK, Newest
<1>3. /\ slot_id' = slot /\ conn' = conn /\ executed' = executed
      /\ overlap' = [old |-> 0, new |-> 0]
      /\ retired' = NoContext /\ ~Valid(NoContext)
      /\ epoch' = IF slot_id \in {slot, NoSlot} THEN epoch ELSE epoch + 1
      /\ slot # NoSlot
  BY SlotsAssumption DEF RequestFresh, Valid, NoContext, Context
<1>4. /\ pending'.iv = Newest + 1 /\ ~pending'.late_action_allowed
  BY <1>2, FreshContext DEF RequestFresh
<1>5. /\ current \in Contexts
      /\ active'.iv = current.iv
      /\ active'.late_action_allowed => Valid(current) /\ slot = VisionSlot
      /\ ~active'.handoff_poll_seen
  <2>1. current \in Contexts
    BY <1>2, EmptyContext DEF Surviving, TypeOK, Contexts
  <2> HIDE DEF current
  <2>2. active' = Armed(current, slot)
    BY DEF RequestFresh, current
  <2> QED BY <1>2, <2>1, <2>2, ArmedContext DEF Contexts
<1>6. CASE Valid(current)
  <2>1. /\ slot = slot_id /\ ~Valid(pending) /\ current = active /\ Valid(active)
        /\ epoch' = epoch
    BY <1>3, <1>6 DEF Surviving, RequestFresh, IsRetry
  <2>2. active.iv = Newest /\ active.iv \in 1 .. Newest
    BY <1>2, <2>1 DEF NewestLive, Valid, NoIv, TypeOK, Contexts, ContextsUpTo
  <2>3. GenerationsDistinct'
    BY <1>2, <1>3, <1>4, <1>5, <2>1, <2>2
       DEF GenerationsDistinct, Older, Valid, NoIv, SeqOf, FreshSeqs
  <2>4. BoundToEpoch'
    BY <1>2, <1>3, <1>4, <1>5, <2>1, <2>2 DEF BoundToEpoch, Valid, NoIv
  <2>5. ExecutedBefore'
    <3> SUFFICES ASSUME NEW i \in DOMAIN executed
                 PROVE  LET e == executed[i] IN
                   /\ e.iv \in 1 .. e.newest /\ e.newest \in 1 .. Newest + 1
                   /\ e.iv < Newest + 1 /\ e.iv <= active.iv
                   /\ ~(Late(e) /\ e.iv = active.iv)
      BY <1>2, <1>3, <1>4, <1>5, <2>1 DEF ExecutedBefore, Valid, NoIv, Late
    <3> QED BY <1>2, <2>1, <2>2 DEF ExecutedBefore, Late
  <2>6. EpochsOrdered'
    BY <1>2, <1>3, <2>1, EpochTypes DEF EpochsOrdered
  <2>7. NewestLive' /\ Allowance'
    BY <1>2, <1>3, <1>4, <1>5, <1>6, <2>1 DEF NewestLive, Allowance, Valid, NoIv
  <2> QED BY <1>1, <2>3, <2>4, <2>5, <2>6, <2>7
<1>7. CASE ~Valid(current)
  <2>1. ~Valid(active') /\ ~active'.late_action_allowed
    BY <1>5, <1>7 DEF Valid
  <2>2. GenerationsDistinct' /\ NewestLive' /\ Allowance'
    BY <1>2, <1>3, <1>4, <2>1 DEF GenerationsDistinct, Older, NewestLive, Allowance, Valid, NoIv
  <2>3. BoundToEpoch'
    BY <1>2, <1>3, <1>4, <2>1 DEF BoundToEpoch, Valid, NoIv
  <2>4. EpochsOrdered'
    BY <1>2, <1>3, EpochTypes DEF EpochsOrdered
  <2>5. ExecutedBefore'
    BY <1>2, <1>3, <1>4, <2>1 DEF ExecutedBefore, Valid, NoIv, Late
  <2> QED BY <1>1, <2>2, <2>3, <2>4, <2>5
<1> QED BY <1>6, <1>7

\* The inductive invariant holds before any IV is advertised.
LEMMA InitIInv == Init => IInv
<1> SUFFICES ASSUME Init PROVE IInv
  OBVIOUS
<1>1. TypeOK
  BY InitTypeOK
<1>2. /\ ~Valid(NoContext) /\ ~NoContext.late_action_allowed /\ Newest = 0
      /\ DOMAIN executed = {}
  BY EmptyContext DEF Init, Newest
<1> QED BY <1>1, <1>2 DEF Init, IInv, GenerationsDistinct, Older, BoundToEpoch, EpochsOrdered,
           NewestLive, Allowance, ExecutedBefore

\* Every operation of the session preserves the inductive invariant.
LEMMA NextIInv == IInv /\ [Next]_vars => IInv'
<1> SUFFICES ASSUME IInv, [Next]_vars PROVE IInv'
  OBVIOUS
<1>1. TypeOK'
  BY NextTypeOK DEF IInv
<1>2. /\ ~Valid(NoContext) /\ ~NoContext.late_action_allowed /\ NoContext.iv = 0
  BY EmptyContext DEF Valid, NoIv
<1>3. CASE ResetTransport
  <2>1. /\ UNCHANGED <<slot_id, pending, ivs, epoch, executed, overlap>>
        /\ retired' = NoContext /\ Newest' = Newest
        /\ active'.iv = active.iv /\ ~active'.late_action_allowed
    <3>1. active \in ContextsUpTo(Newest) /\ Newest \in Nat
      BY DEF IInv, TypeOK, Contexts, Newest
    <3> QED BY <1>3, <3>1, RevokedContext DEF ResetTransport, Newest
  <2>2. GenerationsDistinct' /\ BoundToEpoch' /\ EpochsOrdered' /\ NewestLive'
    BY <1>2, <2>1 DEF IInv, GenerationsDistinct, Older, SeqOf, BoundToEpoch, EpochsOrdered,
                      NewestLive, Valid
  <2>3. Allowance' /\ ExecutedBefore'
    BY <1>2, <2>1 DEF IInv, Allowance, ExecutedBefore, Valid, Late
  <2> QED BY <1>1, <2>2, <2>3 DEF IInv
<1>4. CASE Reset
  <2>1. /\ UNCHANGED <<ivs, conn, executed, overlap>> /\ Newest' = Newest
        /\ active' = NoContext /\ pending' = NoContext /\ retired' = NoContext
        /\ epoch' = epoch + 1
    BY <1>4 DEF Reset, Newest
  <2>2. EpochsOrdered'
    BY <2>1, EpochTypes DEF IInv, EpochsOrdered
  <2>3. /\ GenerationsDistinct' /\ BoundToEpoch' /\ NewestLive' /\ Allowance'
        /\ ExecutedBefore'
    BY <1>2, <2>1 DEF IInv, GenerationsDistinct, Older, BoundToEpoch, NewestLive, Allowance,
                      ExecutedBefore, Late
  <2> QED BY <1>1, <2>2, <2>3 DEF IInv
<1>5. ASSUME UNCHANGED <<session, history>> PROVE IInv'
  BY <1>1, <1>5 DEF session, history, IInv, GenerationsDistinct, Older, SeqOf, BoundToEpoch,
     EpochsOrdered, NewestLive, Allowance, ExecutedBefore, Valid, Late, Newest
<1>6. ASSUME NEW slot \in Slots, RequestIv(slot) PROVE IInv'
  BY <1>5, <1>6, RequestIInv DEF RequestIv, RequestRetried
<1>7. CASE IgnoreFrame \/ EncryptResponse(header) \/ UNCHANGED vars
  BY <1>5, <1>7 DEF IgnoreFrame, EncryptResponse, vars
<1>8. ASSUME NEW f \in Frames, Recognised(f), ProcessFrame(f) PROVE IInv'
  BY <1>8, DropIInv, PromotionIInv, ActiveIInv, RetiredIInv DEF ProcessFrame
<1> QED BY <1>3, <1>4, <1>6, <1>7, <1>8 DEF Next

\* The inductive invariant holds in every reachable state.
LEMMA Inductive == Spec => []IInv
BY InitIInv, NextIInv, PTL DEF Spec

\* lock_session.cpp:104-107: pending_ and retired_ never coexist and seq pairs of
\* live generations differ.
THEOREM GenerationsStayDistinct == Spec => []GenerationsDistinct
BY Inductive, PTL DEF IInv

\* lock_session.cpp:67-69: no IV outlives the reset or slot change after it.
THEOREM EpochIsBoundary == Spec => []BoundToEpoch
BY Inductive, PTL DEF IInv

-----------------------------------------------------------------------------
(* Late actions.                                                           *)

\* The log only grows, by the entry of an accepted frame.
LEMMA LogStep ==
  ASSUME IInv, [Next]_vars, NEW i \in DOMAIN executed'
  PROVE  \/ i \in DOMAIN executed /\ executed'[i] = executed[i]
         \/ /\ i = Len(executed) + 1
            /\ \E f \in Frames :
                 /\ Recognised(f) /\ Admitted(f) /\ ~IsPoll(Decoded(f))
                 /\ executed'[i].iv = Selected(f).iv
                 /\ executed'[i].newest = Newest
                 /\ executed'[i].command = Decoded(f)
                 /\ executed'[i].prompt = Prompt
<1>1. CASE UNCHANGED executed
  BY <1>1
<1>2. CASE \E f \in Frames : Recognised(f) /\ Admitted(f)
  BY <1>2, ExecutedAfter DEF IInv
<1> QED
  BY <1>1, <1>2 DEF Next, ResetTransport, Reset, RequestIv, RequestRetried, RequestFresh,
     IgnoreFrame, EncryptResponse, ProcessFrame, DropUndecryptable, DropSuperseded,
     DropReplayed, AcceptPending, AcceptActive, AcceptRetired, history, vars

\* An admitted command is current, or the allowed late one of a generation that
\* executed nothing late before and nothing newer.
LEMMA AdmittedOrder ==
  ASSUME IInv, NEW f \in Frames, Recognised(f), Admitted(f), ~IsPoll(Decoded(f)),
         NEW i \in DOMAIN executed
  PROVE  /\ executed[i].iv <= Selected(f).iv
         /\ Late(executed[i]) => executed[i].iv < Selected(f).iv
<1> USE DEF IInv
<1>1. /\ Selected(f) = pending \/ Selected(f) = active \/ Selected(f) = retired
      /\ Valid(Selected(f))
  BY SelectedContext DEF Selected
<1>2. /\ executed[i].iv \in Nat /\ pending.iv \in Nat /\ active.iv \in Nat /\ retired.iv \in Nat
  <2>1. executed[i].iv \in Nat
    BY DEF ExecutedBefore
  <2>2. pending \in Contexts /\ active \in Contexts /\ retired \in Contexts
    BY DEF TypeOK
  <2> QED BY <2>1, <2>2 DEF Contexts, ContextsUpTo
<1>3. CASE UsesPending(f)
  BY <1>2, <1>3, SelectedContext DEF ExecutedBefore
<1>4. CASE UsesActive(f) /\ ~UsesPending(f)
  <2>1. Selected(f) = active /\ Valid(active)
    BY <1>4, SelectedContext
  <2>2. Valid(pending) => active.late_action_allowed
    BY <1>4, <2>1 DEF Admitted, Admissible, UsesPredecessor, MayActLate
  <2> QED BY <1>2, <2>1, <2>2 DEF ExecutedBefore
<1>5. CASE UsesRetired(f) /\ ~UsesActive(f) /\ ~UsesPending(f)
  BY <1>2, <1>5, SelectedContext DEF ExecutedBefore
<1> QED BY <1>3, <1>4, <1>5 DEF Recognised

\* The late command itself: a Fast Unlock on the Vision slot, in time.
LEMMA AdmittedLate ==
  ASSUME IInv, NEW f \in Frames, Recognised(f), Admitted(f), ~IsPoll(Decoded(f)),
         Selected(f).iv < Newest
  PROVE  /\ IsFastUnlock(Decoded(f)) /\ Prompt
         /\ ivs[Selected(f).iv].slot = VisionSlot
         /\ ivs[Selected(f).iv].epoch = epoch /\ ivs[Newest].epoch = epoch
<1> USE DEF IInv
<1>1. /\ Newest \in Nat /\ overlap.old \in 0 .. 2 /\ overlap.new \in 0 .. 2
  BY DEF TypeOK, Newest
<1>2. CASE UsesPending(f)
  BY <1>1, <1>2, SelectedContext DEF NewestLive
<1>3. CASE UsesActive(f) /\ ~UsesPending(f)
  <2>1. Selected(f) = active /\ Valid(active) /\ Valid(pending)
    BY <1>1, <1>3, SelectedContext DEF NewestLive
  <2>2. active.late_action_allowed /\ IsFastUnlock(Decoded(f))
    BY <1>3, <2>1 DEF Admitted, Admissible, UsesPredecessor, MayActLate
  <2>3. Prompt /\ slot_id = VisionSlot /\ pending.iv = Newest
    BY <1>1, <2>1, <2>2 DEF Allowance, Prompt, NewestLive
  <2> QED BY <2>1, <2>2, <2>3 DEF BoundToEpoch
<1>4. CASE UsesRetired(f) /\ ~UsesActive(f) /\ ~UsesPending(f)
  <2>1. Selected(f) = retired /\ Valid(retired) /\ Valid(active) /\ ~Valid(pending)
    BY <1>4, SelectedContext DEF GenerationsDistinct
  <2>2. IsFastUnlock(Decoded(f))
    BY <1>4 DEF Admitted, Admissible, UsesPredecessor, MayActLate
  <2>3. Prompt /\ slot_id = VisionSlot /\ active.iv = Newest
    BY <2>1 DEF Allowance, Prompt, NewestLive
  <2> QED BY <2>1, <2>2, <2>3 DEF BoundToEpoch
<1> QED BY <1>2, <1>3, <1>4 DEF Recognised

\* What was advertised is never rewritten.
LEMMA AdvertisedForever ==
  ASSUME IInv, [Next]_vars, NEW iv \in 1 .. Newest
  PROVE  ivs'[iv] = ivs[iv]
<1>1. CASE \E slot \in Slots : RequestFresh(slot)
  BY <1>1 DEF RequestFresh, IInv, TypeOK, Newest
<1>2. CASE UNCHANGED ivs
  BY <1>2
<1> QED
  BY <1>1, <1>2 DEF Next, ResetTransport, Reset, RequestIv, RequestRetried,
     IgnoreFrame, EncryptResponse, ProcessFrame, DropUndecryptable, DropSuperseded,
     DropReplayed, AcceptPending, AcceptActive, AcceptRetired, Admitted, history, vars

\* A step appends at most one command, and none that belongs before the last.
LEMMA NextNeverGoesBack == IInv /\ NeverGoesBack /\ [Next]_vars => NeverGoesBack'
<1> SUFFICES ASSUME IInv, NeverGoesBack, [Next]_vars,
                    NEW i \in DOMAIN executed', NEW j \in DOMAIN executed', i < j
             PROVE  /\ executed'[i].iv <= executed'[j].iv
                    /\ Late(executed'[i]) => executed'[i].iv < executed'[j].iv
  BY DEF NeverGoesBack, Late
<1>1. DOMAIN executed = 1 .. Len(executed) /\ Len(executed) \in Nat
  BY DEF IInv, TypeOK
<1>2. i \in DOMAIN executed /\ executed'[i] = executed[i]
  <2>1. j \in 1 .. Len(executed) + 1
    BY <1>1, LogStep
  <2> QED BY <1>1, <2>1, LogStep
<1>3. CASE j \in DOMAIN executed /\ executed'[j] = executed[j]
  BY <1>2, <1>3 DEF NeverGoesBack
<1>4. CASE \E f \in Frames :
             /\ Recognised(f) /\ Admitted(f) /\ ~IsPoll(Decoded(f))
             /\ executed'[j].iv = Selected(f).iv
  BY <1>2, <1>4, AdmittedOrder
<1> QED BY <1>3, <1>4, LogStep

\* A step executes a late command only as the allowance of its generation permits.
LEMMA NextLateActions == IInv /\ LateActionsAdmitted /\ [Next]_vars => LateActionsAdmitted'
<1> SUFFICES ASSUME IInv, LateActionsAdmitted, [Next]_vars,
                    NEW i \in DOMAIN executed', Late(executed'[i])
             PROVE  LET e == executed'[i] IN
                    /\ IsFastUnlock(e.command)
                    /\ ivs'[e.iv].slot = VisionSlot
                    /\ ivs'[e.newest].epoch = ivs'[e.iv].epoch
                    /\ e.prompt
  BY DEF LateActionsAdmitted, Late
<1>1. CASE i \in DOMAIN executed /\ executed'[i] = executed[i]
  <2>1. executed[i].iv \in 1 .. Newest /\ executed[i].newest \in 1 .. Newest
    <3>1. Newest \in Nat
      BY DEF IInv, TypeOK, Newest
    <3>2. /\ executed[i].iv \in 1 .. executed[i].newest
          /\ executed[i].newest \in 1 .. Newest
      BY <1>1 DEF IInv, ExecutedBefore
    <3> QED BY <3>1, <3>2
  <2> QED BY <1>1, <2>1, AdvertisedForever DEF LateActionsAdmitted, Late
<1>2. CASE \E f \in Frames :
             /\ Recognised(f) /\ Admitted(f) /\ ~IsPoll(Decoded(f))
             /\ executed'[i].iv = Selected(f).iv /\ executed'[i].newest = Newest
             /\ executed'[i].command = Decoded(f) /\ executed'[i].prompt = Prompt
  <2>1. PICK f \in Frames :
             /\ Recognised(f) /\ Admitted(f) /\ ~IsPoll(Decoded(f))
             /\ executed'[i].iv = Selected(f).iv /\ executed'[i].newest = Newest
             /\ executed'[i].command = Decoded(f) /\ executed'[i].prompt = Prompt
    BY <1>2
  <2>2. Selected(f).iv < Newest
    BY <2>1 DEF Late
  <2>3. Selected(f).iv \in 1 .. Newest /\ Newest \in 1 .. Newest
    BY <2>1, <2>2, SelectedContext
       DEF IInv, TypeOK, Contexts, ContextsUpTo, Valid, NoIv, Newest
  <2> QED BY <2>1, <2>2, <2>3, AdmittedLate, AdvertisedForever
<1> QED BY <1>1, <1>2, LogStep

\* An older generation's command never runs after a newer one's, and a late one
\* is the last of its generation (lock_session.cpp:116-122, 185-199).
THEOREM OldUnlockNeverRunsAfter == Spec => []NeverGoesBack
<1>1. Init => NeverGoesBack
  BY DEF Init, NeverGoesBack
<1> QED BY <1>1, NextNeverGoesBack, Inductive, PTL DEF Spec

\* Only a prompt Fast Unlock on the Vision slot runs under a superseded IV
\* (lock_session.cpp:157-199).
THEOREM LateActionsAreFastUnlocks == Spec => []LateActionsAdmitted
<1>1. Init => LateActionsAdmitted
  BY DEF Init, LateActionsAdmitted
<1> QED BY <1>1, NextLateActions, Inductive, PTL DEF Spec

-----------------------------------------------------------------------------
(* Stranding, and the IV of a response.                                    *)

\* A recognised frame leaves the active IV alone, or promotes the pending one.
LEMMA FrameIvs ==
  ASSUME IInv, NEW f \in Frames, Recognised(f), ProcessFrame(f)
  PROVE  /\ UNCHANGED <<ivs, epoch>>
         /\ \/ active'.iv = active.iv /\ UNCHANGED pending
            \/ active'.iv = pending.iv /\ Valid(pending)
<1> USE DEF IInv
<1>1. /\ Decoded(f) \in Commands /\ active \in ContextsUpTo(Newest)
      /\ pending \in ContextsUpTo(Newest) /\ Newest \in Nat
  BY DecodedCommand DEF TypeOK, Contexts, Newest
<1>2. CASE DropUndecryptable(f) \/ DropSuperseded(f) \/ DropReplayed(f)
  BY <1>2, DropEffect DEF history
<1>3. CASE AcceptPending(f)
  <2>1. Revoked(Recorded(pending, Decoded(f))).iv = pending.iv
    BY <1>1, RecordedContext, RevokedContext
  <2> QED BY <1>3, <2>1 DEF AcceptPending, UsesPending, Matches, Admitted
<1>4. CASE AcceptActive(f)
  <2>1. /\ Recorded(active, Decoded(f)).iv = active.iv
        /\ Overlapped(Recorded(active, Decoded(f)), Decoded(f)).iv = active.iv
    BY <1>1, RecordedContext, OverlappedContext
  <2> QED BY <1>4, <2>1 DEF AcceptActive, Admitted
<1>5. CASE AcceptRetired(f)
  BY <1>5 DEF AcceptRetired, Admitted
<1> QED BY <1>2, <1>3, <1>4, <1>5 DEF ProcessFrame

\* No operation leaves an IV that the keypad may hold without a context.
LEMMA NextNoIvStranded == IInv /\ NoIvStranded /\ [Next]_vars => NoIvStranded'
<1> SUFFICES ASSUME IInv, NoIvStranded, [Next]_vars PROVE NoIvStranded'
  OBVIOUS
<1> USE DEF IInv
<1>1. /\ Newest \in Nat /\ active.iv \in Nat /\ pending.iv \in Nat
  BY DEF TypeOK, Contexts, ContextsUpTo, Newest
<1>2. CASE UNCHANGED <<ivs, epoch>> /\ active'.iv = active.iv /\ UNCHANGED pending
  BY <1>2 DEF NoIvStranded, Newest
<1>3. ASSUME NEW slot \in Slots, RequestFresh(slot) PROVE NoIvStranded'
  <2>1. /\ Newest' = Newest + 1 /\ pending'.iv = Newest + 1
        /\ \A iv \in 1 .. Newest : ivs'[iv] = ivs[iv]
    <3>1. Context(Newest + 1).iv = Newest + 1
      BY DEF Context
    <3> QED BY <1>3, <3>1 DEF RequestFresh, TypeOK, Newest
  <2>2. active'.iv = Surviving(slot).iv
    BY <1>3 DEF RequestFresh, Armed, Revoked, Surviving, TypeOK, Contexts, ContextsUpTo,
                NoContext, Context
  <2>3. CASE slot = slot_id
    <3>1. active'.iv = active.iv /\ epoch' = epoch /\ pending.iv = 0
      BY <1>3, <2>2, <2>3 DEF Surviving, RequestFresh, IsRetry, Valid, NoIv
    <3> QED BY <1>1, <2>1, <3>1 DEF NoIvStranded
  <2>4. CASE slot # slot_id
    <3>1. \A iv \in 1 .. Newest : ivs[iv].epoch < epoch'
      BY <1>3, <2>4, EpochTypes DEF RequestFresh, EpochsOrdered
    <3>2. epoch' \in Nat
      BY <1>3, <2>4, EpochTypes DEF RequestFresh
    <3> QED BY <1>1, <2>1, <3>1, <3>2, EpochTypes DEF NoIvStranded
  <2> QED BY <2>3, <2>4
<1>4. CASE Reset
  <2>1. Newest' = Newest /\ ivs' = ivs /\ epoch' = epoch + 1
    BY <1>4 DEF Reset, Newest
  <2> QED BY <2>1, EpochTypes DEF NoIvStranded, EpochsOrdered
<1>5. CASE ResetTransport
  <2>1. active'.iv = active.iv
    BY <1>5 DEF ResetTransport, Revoked, TypeOK, Contexts, ContextsUpTo
  <2> QED BY <1>2, <1>5, <2>1 DEF ResetTransport
<1>6. ASSUME NEW f \in Frames, Recognised(f), ProcessFrame(f) PROVE NoIvStranded'
  <2>1. CASE UNCHANGED <<ivs, epoch>> /\ active'.iv = pending.iv /\ Valid(pending)
    <3>1. active.iv <= pending.iv
      BY <1>1, <2>1 DEF GenerationsDistinct, Older, Valid, NoIv
    <3> QED BY <1>1, <2>1, <3>1 DEF NoIvStranded, GenerationsDistinct, Older, Valid, NoIv, Newest
  <2> QED BY <1>2, <1>6, <2>1, FrameIvs
<1>7. CASE \/ IgnoreFrame \/ EncryptResponse(header) \/ UNCHANGED vars
           \/ \E slot \in Slots : RequestRetried(slot)
  BY <1>2, <1>7 DEF IgnoreFrame, EncryptResponse, RequestRetried, vars, session, history
<1> QED BY <1>3, <1>4, <1>5, <1>6, <1>7 DEF Next, RequestIv

\* lock_session.cpp:292-295 (issue #19): every IV the keypad may still hold is live.
THEOREM NoKeypadStranded == Spec => []NoIvStranded
<1>1. Init => NoIvStranded
  BY DEF Init, NoIvStranded, Newest
<1> QED BY <1>1, NextNoIvStranded, Inductive, PTL DEF Spec

\* The response IV is set with the command it belongs to, and cleared with it.
LEMMA NextReply == IInv /\ ReplyUnderRequestIv /\ [Next]_vars => ReplyUnderRequestIv'
<1> SUFFICES ASSUME IInv, ReplyUnderRequestIv, [Next]_vars PROVE ReplyUnderRequestIv'
  OBVIOUS
<1>1. CASE UNCHANGED outcome
  BY <1>1 DEF ReplyUnderRequestIv, outcome
<1>2. CASE result' # "COMMAND" /\ reply' = NoIv /\ response_iv' = NoIv
  BY <1>2 DEF ReplyUnderRequestIv
<1>3. ASSUME NEW f \in Frames, Recognised(f), Admitted(f) PROVE ReplyUnderRequestIv'
  BY <1>3 DEF Admitted, Outcome, ReplyUnderRequestIv, ResponseIv, HeaderOf, Decoded, Decrypt
<1>4. CASE EncryptResponse(header)
  <2>1. result = "COMMAND"
    BY <1>4 DEF EncryptResponse, ReplyUnderRequestIv
  <2> QED BY <1>4, <2>1 DEF EncryptResponse, ReplyUnderRequestIv
<1> QED
  BY <1>1, <1>2, <1>3, <1>4 DEF Next, ResetTransport, Reset, RequestIv, RequestRetried,
     RequestFresh, IgnoreFrame, ProcessFrame, DropUndecryptable, DropSuperseded, DropReplayed,
     AcceptPending, AcceptActive, AcceptRetired, Outcome, vars

\* lock_session.h:137-139: the response is under the IV of the command it answers.
THEOREM ResponsesUnderRequestIv == Spec => []ReplyUnderRequestIv
<1>1. Init => ReplyUnderRequestIv
  BY DEF Init, ReplyUnderRequestIv
<1> QED BY <1>1, NextReply, Inductive, PTL DEF Spec

-----------------------------------------------------------------------------
(* The replay window.                                                      *)

\* Two contexts with the same IV and the same window.
SameWindow(b, c) == b.iv = c.iv /\ b.history = c.history /\ b.head = c.head

\* The place in the ring of an action that `later` newer ones follow.
Place(head, later) == (head - 1 - later) % ReplayWindow

\* Advancing the head moves no remembered action, and overwrites none but the one
\* that leaves the window.
LEMMA RingStep ==
  ASSUME NEW head \in Ring, NEW later \in Nat, later < ReplayWindow
  PROVE  /\ Place(head, later) \in Ring
         /\ Place((head + 1) % ReplayWindow, 0) = head
         /\ later + 1 < ReplayWindow =>
              /\ Place((head + 1) % ReplayWindow, later + 1) = Place(head, later)
              /\ Place(head, later) # head
<1> DEFINE W == ReplayWindow
<1>1. W \in Nat \ {0} /\ head \in 0 .. W - 1
  BY WindowAssumption DEF Ring
<1> HIDE DEF W
<1>2. \A x \in 0 .. W - 1 : x % W = x /\ (x - W) % W = x
  <2> TAKE x \in 0 .. W - 1
  <2>1. x % W = x
    BY <1>1
  <2>2. (x - W) % W = x
    BY <1>1
  <2> QED BY <2>1, <2>2
<1>3. (head + 1) % W = IF head + 1 = W THEN 0 ELSE head + 1
  BY <1>1
<1>4. ASSUME NEW h \in 0 .. W - 1, NEW a \in Nat, a < W
      PROVE  (h - 1 - a) % W = IF h - 1 - a < 0 THEN h - 1 - a + W ELSE h - 1 - a
  <2>1. CASE h - 1 - a < 0
    <3> DEFINE x == h - 1 - a + W
    <3>1. x \in 0 .. W - 1 /\ x - W = h - 1 - a
      BY <1>1, <1>4, <2>1
    <3> HIDE DEF x
    <3>2. (h - 1 - a) % W = x
      BY <1>2, <3>1
    <3> QED BY <2>1, <3>2 DEF x
  <2>2. CASE ~(h - 1 - a < 0)
    BY <1>1, <1>2, <1>4, <2>2
  <2> QED BY <2>1, <2>2
<1>5. later < W
  BY DEF W
<1>6. (head - 1 - later) % W = IF head - 1 - later < 0 THEN head - 1 - later + W
                               ELSE head - 1 - later
  BY <1>1, <1>4, <1>5
<1> DEFINE n == (head + 1) % W
<1>7. n \in 0 .. W - 1 /\ n = IF head + 1 = W THEN 0 ELSE head + 1
  BY <1>1, <1>3
<1> HIDE DEF n
<1>8. (n - 1 - 0) % W = head
  BY <1>1, <1>4, <1>7
<1>9. ASSUME later + 1 < W
      PROVE  /\ (n - 1 - (later + 1)) % W = (head - 1 - later) % W
             /\ (head - 1 - later) % W # head
  <2>1. (n - 1 - (later + 1)) % W = IF n - 1 - (later + 1) < 0 THEN n - 1 - (later + 1) + W
                                    ELSE n - 1 - (later + 1)
    BY <1>1, <1>4, <1>7, <1>9
  <2> QED BY <1>1, <1>5, <1>6, <1>7, <1>9, <2>1
<1>10. (head - 1 - later) % W \in 0 .. W - 1
  BY <1>1, <1>5, <1>6
<1> QED BY <1>8, <1>9, <1>10 DEF Place, n, W, Ring

\* The actions after an entry can be counted.
LEMMA SinceFinite ==
  ASSUME NEW i \in Nat, NEW n \in Nat
  PROVE  IsFiniteSet(Since(i, n)) /\ Cardinality(Since(i, n)) \in Nat
<1>1. IsFiniteSet(i + 1 .. n) /\ Since(i, n) \in SUBSET (i + 1 .. n)
  BY FS_Interval DEF Since
<1>2. IsFiniteSet(Since(i, n))
  BY <1>1, FS_Subset
<1> QED BY <1>2, FS_CardinalityType

\* The log after an entry: a longer sequence with the same beginning.
LEMMA Appended ==
  ASSUME TypeOK, NEW e, executed' = Append(executed, e)
  PROVE  /\ Len(executed) \in Nat /\ Len(executed') = Len(executed) + 1
         /\ DOMAIN executed = 1 .. Len(executed) /\ DOMAIN executed' = 1 .. Len(executed) + 1
         /\ \A k \in 1 .. Len(executed) : executed'[k] = executed[k]
         /\ executed'[Len(executed) + 1] = e
BY DEF TypeOK

\* A new entry is one more action after those of its IV, and none after the others.
LEMMA SinceAfter ==
  ASSUME TypeOK, NEW e, executed' = Append(executed, e), NEW i \in DOMAIN executed
  PROVE  /\ \A n \in 0 .. Len(executed) : Since(i, n)' = Since(i, n)
         /\ LET later == Cardinality(Since(i, Len(executed))) IN
            /\ later \in Nat
            /\ Cardinality(Since(i, Len(executed)))' =
                 IF e.iv = executed[i].iv /\ IsAction(e.command) THEN later + 1 ELSE later
<1> DEFINE L == Len(executed)
<1>1. /\ L \in Nat /\ Len(executed') = L + 1 /\ i \in 1 .. L
      /\ \A k \in 1 .. L : executed'[k] = executed[k]
      /\ executed'[L + 1] = e
  BY Appended
<1> HIDE DEF L
<1>2. \A n \in 0 .. L : Since(i, n)' = Since(i, n)
  BY <1>1 DEF Since
<1>3. IsFiniteSet(Since(i, L)) /\ Cardinality(Since(i, L)) \in Nat
  BY <1>1, SinceFinite
<1>4. Since(i, Len(executed))' =
        IF e.iv = executed[i].iv /\ IsAction(e.command) THEN Since(i, L) \cup {L + 1}
        ELSE Since(i, L)
  <2>1. Since(i, Len(executed))' =
          {k \in i + 1 .. L + 1 :
             executed'[k].iv = executed'[i].iv /\ IsAction(executed'[k].command)}
    BY <1>1 DEF Since
  <2>2. i + 1 .. L + 1 = (i + 1 .. L) \cup {L + 1}
    BY <1>1
  <2>3. \A k \in i + 1 .. L : executed'[k] = executed[k]
    BY <1>1
  <2> QED BY <1>1, <2>1, <2>2, <2>3 DEF Since
<1>5. L + 1 \notin Since(i, L)
  BY <1>1 DEF Since
<1>6. Cardinality(Since(i, L) \cup {L + 1}) = Cardinality(Since(i, L)) + 1
  BY <1>3, <1>5, FS_AddElement
<1> QED BY <1>2, <1>3, <1>4, <1>6 DEF L

\* A context with the window of one that remembers the log remembers it too, and
\* goes on doing so while the log stays.
LEMMA SameRemembers ==
  ASSUME NEW b, NEW c, SameWindow(b, c), Remembers(b), UNCHANGED executed
  PROVE  Remembers(c)'
BY DEF SameWindow, Remembers, Since

\* An entry of another IV, or one that is no action, is none of the window's.
LEMMA StillRemembers ==
  ASSUME TypeOK, NEW b, NEW c, SameWindow(b, c), Remembers(b),
         NEW e, executed' = Append(executed, e), ~(e.iv = b.iv /\ IsAction(e.command))
  PROVE  Remembers(c)'
<1> SUFFICES ASSUME NEW i \in DOMAIN executed', executed'[i].iv = c.iv,
                    IsAction(executed'[i].command),
                    Cardinality(Since(i, Len(executed)))' < ReplayWindow
             PROVE  c.history[Place(c.head, Cardinality(Since(i, Len(executed)))')]
                      = executed'[i].command
  BY DEF Remembers, Place
<1>1. /\ i \in DOMAIN executed /\ executed'[i] = executed[i]
      /\ ~(e.iv = executed[i].iv /\ IsAction(e.command))
  BY Appended DEF SameWindow
<1> QED BY <1>1, SinceAfter DEF Remembers, SameWindow, Place

\* An action recorded in the window of its IV pushes out the oldest at most.
LEMMA RecordedRemembers ==
  ASSUME TypeOK, NEW n, NEW b \in ContextsUpTo(n), NEW c, Remembers(b),
         NEW e, executed' = Append(executed, e), e.iv = b.iv, IsAction(e.command),
         SameWindow(Recorded(b, e.command), c)
  PROVE  Remembers(c)'
<1> DEFINE later(i) == Cardinality(Since(i, Len(executed)))
<1> SUFFICES ASSUME NEW i \in DOMAIN executed', executed'[i].iv = c.iv,
                    IsAction(executed'[i].command), later(i)' < ReplayWindow
             PROVE  c.history[Place(c.head, later(i)')] = executed'[i].command
  BY DEF Remembers, Place
<1>1. /\ b.head \in Ring /\ DOMAIN b.history = Ring
      /\ c.iv = b.iv /\ c.head = (b.head + 1) % ReplayWindow
      /\ c.history = [b.history EXCEPT ![b.head] = e.command]
  BY DEF SameWindow, Recorded, ContextsUpTo
<1>2. CASE i \in DOMAIN executed
  <2>1. /\ executed'[i] = executed[i] /\ later(i) \in Nat
        /\ later(i)' = later(i) + 1
    BY <1>1, <1>2, Appended, SinceAfter
  <2>2. b.history[Place(b.head, later(i))] = executed[i].command
    BY <1>1, <1>2, <2>1, WindowAssumption DEF Remembers, Place
  <2> HIDE DEF later
  <2>3. /\ Place(b.head, later(i)) \in Ring
        /\ Place(c.head, later(i) + 1) = Place(b.head, later(i))
        /\ Place(b.head, later(i)) # b.head
    BY <1>1, <2>1, RingStep, WindowAssumption
  <2> QED BY <1>1, <2>1, <2>2, <2>3
<1>3. CASE i = Len(executed) + 1
  <2>1. executed'[i] = e /\ later(i)' = 0
    <3>1. Since(i, Len(executed))' = {}
      BY <1>3, Appended DEF Since
    <3> QED BY <1>3, <3>1, Appended, FS_EmptySet
  <2>2. Place(c.head, 0) = b.head
    BY <1>1, RingStep, WindowAssumption
  <2> QED BY <1>1, <2>1, <2>2
<1> QED BY <1>2, <1>3, Appended

\* No entry of the log is of an IV that was just advertised, or is on offer.
LEMMA FreshRemembers ==
  ASSUME IInv, NEW c, c.iv \in Nat, c.iv > Newest, UNCHANGED executed
  PROVE  Remembers(c)'
<1>1. Newest \in Nat
  BY DEF IInv, TypeOK, Newest
<1>2. ASSUME NEW i \in DOMAIN executed PROVE executed[i].iv # c.iv
  <2>1. executed[i].iv \in 1 .. executed[i].newest /\ executed[i].newest \in 1 .. Newest
    BY DEF IInv, ExecutedBefore
  <2> QED BY <1>1, <2>1
<1> QED BY <1>2 DEF Remembers

\* Boundaries, requests and dropped frames only discard windows and open empty ones.
LEMMA QuietWindows ==
  ASSUME IInv, WindowsRemember, UNCHANGED executed,
         \A c \in {active', pending', retired'} : Valid(c) =>
           \/ c.iv \in Nat /\ c.iv > Newest
           \/ \E b \in {active, pending, retired} : SameWindow(b, c)
  PROVE  WindowsRemember'
<1> SUFFICES ASSUME NEW c, c \in {active', pending', retired'}, Valid(c)
             PROVE  Remembers(c)'
  BY DEF WindowsRemember
<1>1. CASE c.iv \in Nat /\ c.iv > Newest
  BY <1>1, FreshRemembers
<1>2. CASE \E b \in {active, pending, retired} : SameWindow(b, c)
  <2>1. PICK b : b \in {active, pending, retired} /\ SameWindow(b, c)
    BY <1>2
  <2>2. Remembers(b)
    BY <2>1 DEF WindowsRemember, SameWindow, Valid
  <2> QED BY <2>1, <2>2, SameRemembers
<1> QED BY <1>1, <1>2

\* The entry of an accepted frame: a non-poll of the selected generation.
LEMMA AcceptedEntry ==
  ASSUME NEW f \in Frames, Admitted(f)
  PROVE  \/ IsPoll(Decoded(f)) /\ UNCHANGED executed
         \/ \E e : /\ executed' = Append(executed, e)
                   /\ e.iv = Selected(f).iv /\ e.command = Decoded(f)
BY DEF Admitted

\* An accepted frame is recorded in the window of its generation, and in no other.
LEMMA AcceptedWindows ==
  ASSUME IInv, WindowsRemember, NEW f \in Frames, Recognised(f), Admitted(f),
         \A c \in {active', pending', retired'} : Valid(c) =>
           \/ SameWindow(Recorded(Selected(f), Decoded(f)), c)
           \/ \E b \in {active, pending, retired} :
                SameWindow(b, c) /\ (b.iv # Selected(f).iv \/ UNCHANGED executed)
  PROVE  WindowsRemember'
<1> SUFFICES ASSUME NEW c, c \in {active', pending', retired'}, Valid(c)
             PROVE  Remembers(c)'
  BY DEF WindowsRemember
<1>1. TypeOK /\ \A b \in {active, pending, retired} : Valid(b) => Remembers(b)
  BY DEF IInv, WindowsRemember
<1>2. CASE SameWindow(Recorded(Selected(f), Decoded(f)), c)
  <2>1. PICK b : b = Selected(f)
    OBVIOUS
  <2>2. PICK cmd : cmd = Decoded(f)
    OBVIOUS
  <2>3. PICK n : n = Newest
    OBVIOUS
  <2>4. b \in ContextsUpTo(n) /\ Remembers(b)
    BY <1>1, <2>1, <2>3, SelectedContext DEF Contexts, Selected
  <2>5. CASE IsPoll(cmd) /\ UNCHANGED executed
    <3>1. SameWindow(b, c)
      BY <1>2, <2>1, <2>2, <2>5 DEF Recorded, IsAction, IsPoll
    <3> QED BY <2>4, <2>5, <3>1, SameRemembers
  <2>6. CASE \E e : executed' = Append(executed, e) /\ e.iv = b.iv /\ e.command = cmd
    <3>1. PICK e : executed' = Append(executed, e) /\ e.iv = b.iv /\ e.command = cmd
      BY <2>6
    <3>2. CASE IsAction(cmd)
      BY <1>1, <1>2, <2>1, <2>2, <2>4, <3>1, <3>2, RecordedRemembers
    <3>3. CASE ~IsAction(cmd)
      <4>1. SameWindow(b, c)
        BY <1>2, <2>1, <2>2, <3>3 DEF Recorded
      <4> QED BY <1>1, <2>4, <3>1, <3>3, <4>1, StillRemembers
    <3> QED BY <3>2, <3>3
  <2> QED BY <2>1, <2>2, <2>5, <2>6, AcceptedEntry
<1>3. CASE \E b \in {active, pending, retired} :
             SameWindow(b, c) /\ (b.iv # Selected(f).iv \/ UNCHANGED executed)
  <2>1. PICK b : /\ b \in {active, pending, retired} /\ SameWindow(b, c)
                 /\ b.iv # Selected(f).iv \/ UNCHANGED executed
    BY <1>3
  <2>2. Remembers(b)
    BY <1>1, <2>1 DEF SameWindow, Valid
  <2>3. CASE UNCHANGED executed
    BY <2>1, <2>2, <2>3, SameRemembers
  <2>4. CASE \E e : executed' = Append(executed, e) /\ e.iv = Selected(f).iv
    <3>1. PICK e : executed' = Append(executed, e) /\ e.iv = Selected(f).iv
      BY <2>4
    <3>2. CASE b.iv # Selected(f).iv
      BY <1>1, <2>1, <2>2, <3>1, <3>2, StillRemembers
    <3> QED BY <2>1, <2>3, <3>2
  <2> QED BY <2>3, <2>4, AcceptedEntry
<1> QED BY <1>2, <1>3

\* Revoking, arming and closing the allowance leave the window alone.
LEMMA KeptWindows ==
  ASSUME NEW n, NEW c \in ContextsUpTo(n), NEW slot, NEW cmd
  PROVE  /\ SameWindow(c, Revoked(c))
         /\ SameWindow(c, Armed(c, slot))
         /\ SameWindow(c, Overlapped(c, cmd))
BY DEF SameWindow, Revoked, Armed, Overlapped, ContextsUpTo

\* Every operation of the session keeps the windows of the live contexts in step with
\* the log.
LEMMA NextWindows == IInv /\ WindowsRemember /\ [Next]_vars => WindowsRemember'
<1> SUFFICES ASSUME IInv, WindowsRemember, [Next]_vars PROVE WindowsRemember'
  OBVIOUS
<1> DEFINE n == Newest
<1>1. /\ active \in ContextsUpTo(n) /\ pending \in ContextsUpTo(n)
      /\ retired \in ContextsUpTo(n) /\ n \in Nat
      /\ ~Valid(NoContext) /\ NoContext \in ContextsUpTo(n)
  BY EmptyContext DEF IInv, TypeOK, Contexts, Newest
<1>2. \A b : SameWindow(b, b)
  BY DEF SameWindow
<1>3. CASE ResetTransport
  <2>1. SameWindow(active, active')
    BY <1>1, <1>3, KeptWindows DEF ResetTransport
  <2> QED BY <1>1, <1>2, <1>3, <2>1, QuietWindows DEF ResetTransport
<1>4. CASE Reset
  BY <1>1, <1>4, QuietWindows DEF Reset
<1>5. ASSUME NEW slot \in Slots, RequestFresh(slot) PROVE WindowsRemember'
  <2>1. pending'.iv = n + 1 /\ retired' = NoContext /\ UNCHANGED executed
    BY <1>5 DEF RequestFresh, Context
  <2>2. Valid(active') => SameWindow(active, active')
    <3>1. SameWindow(Surviving(slot), active') /\ Surviving(slot) \in {active, NoContext}
      BY <1>1, <1>5, KeptWindows DEF RequestFresh, Surviving
    <3> QED BY <1>1, <3>1 DEF SameWindow, Valid
  <2> QED BY <1>1, <2>1, <2>2, QuietWindows
<1>6. ASSUME UNCHANGED <<session, history>> PROVE WindowsRemember'
  BY <1>2, <1>6, QuietWindows DEF session, history
<1>7. ASSUME NEW f \in Frames, Recognised(f), ProcessFrame(f) PROVE WindowsRemember'
  <2> DEFINE cmd == Decoded(f)
  <2>1. /\ cmd \in Commands /\ Selected(f) \in ContextsUpTo(n)
        /\ retired' \in {retired, NoContext, active}
    BY <1>1, <1>7, DecodedCommand, SelectedContext
       DEF IInv, Contexts, ProcessFrame, DropUndecryptable, DropSuperseded, DropReplayed,
           AcceptPending, AcceptActive, AcceptRetired, RetiredAfter
  <2>2. Recorded(Selected(f), cmd) \in ContextsUpTo(n)
    BY <1>1, <2>1, RecordedContext
  <2>3. CASE DropUndecryptable(f) \/ DropSuperseded(f) \/ DropReplayed(f)
    <3>1. UNCHANGED <<pending, executed>> /\ retired' \in {retired, NoContext}
      <4>1. TypeOK
        BY DEF IInv
      <4> QED BY <1>7, <2>3, <4>1, DropEffect DEF history
    <3>2. SameWindow(active, active')
      BY <1>1, <1>2, <2>3, KeptWindows DEF DropUndecryptable, DropSuperseded, DropReplayed
    <3> QED BY <1>1, <1>2, <3>1, <3>2, QuietWindows
  <2>4. CASE AcceptPending(f)
    <3>1. Selected(f) = pending /\ Valid(pending)
      BY <1>7, <2>4, SelectedContext DEF IInv, AcceptPending
    <3>2. SameWindow(Recorded(Selected(f), cmd), active')
      BY <2>2, <2>4, <3>1, KeptWindows DEF AcceptPending
    <3>3. pending' = NoContext /\ retired' \in {active, NoContext}
      BY <2>4 DEF AcceptPending
    <3>4. Valid(active) => active.iv # Selected(f).iv
      BY <1>1, <3>1 DEF IInv, GenerationsDistinct, Older, ContextsUpTo
    <3> QED BY <1>1, <1>2, <1>7, <2>4, <3>2, <3>3, <3>4, AcceptedWindows DEF AcceptPending
  <2>5. CASE AcceptActive(f)
    <3>1. Selected(f) = active /\ Valid(active)
      BY <1>7, <2>5, SelectedContext DEF IInv, AcceptActive
    <3>2. SameWindow(Recorded(Selected(f), cmd), active')
      BY <1>2, <2>2, <2>5, <3>1, KeptWindows DEF AcceptActive
    <3>3. retired' = NoContext /\ pending' = pending
      BY <2>5 DEF AcceptActive, RetiredAfter
    <3>4. Valid(pending) => pending.iv # Selected(f).iv
      BY <1>1, <3>1 DEF IInv, GenerationsDistinct, Older, ContextsUpTo
    <3> QED BY <1>1, <1>2, <1>7, <2>5, <3>2, <3>3, <3>4, AcceptedWindows DEF AcceptActive
  <2>6. CASE AcceptRetired(f)
    <3>1. Selected(f) = retired /\ Valid(retired)
      BY <1>7, <2>6, SelectedContext DEF IInv, AcceptRetired
    <3>2. UNCHANGED <<active, pending>> /\ retired' = NoContext
      BY <2>6 DEF AcceptRetired, RetiredAfter
    <3>3. ~Valid(pending) /\ active.iv # Selected(f).iv
      BY <1>1, <3>1 DEF IInv, GenerationsDistinct, Older, ContextsUpTo
    <3> QED BY <1>1, <1>2, <1>7, <2>6, <3>2, <3>3, AcceptedWindows DEF AcceptRetired
  <2> QED BY <1>7, <2>3, <2>4, <2>5, <2>6 DEF ProcessFrame
<1>8. CASE \/ IgnoreFrame \/ EncryptResponse(header) \/ UNCHANGED vars
           \/ \E slot \in Slots : RequestRetried(slot)
  BY <1>6, <1>8 DEF IgnoreFrame, EncryptResponse, RequestRetried, vars
<1> QED BY <1>3, <1>4, <1>5, <1>7, <1>8 DEF Next, RequestIv

\* An action still in the window of its generation is not admitted a second time.
LEMMA AdmittedOutsideWindow ==
  ASSUME IInv, WindowsRemember, NEW f \in Frames, Recognised(f), Admitted(f),
         NEW i \in DOMAIN executed, executed[i].iv = Selected(f).iv,
         executed[i].command = Decoded(f), IsAction(Decoded(f))
  PROVE  Cardinality(Since(i, Len(executed))) >= ReplayWindow
<1> DEFINE later == Cardinality(Since(i, Len(executed)))
           c == Selected(f)
<1>1. c \in ContextsUpTo(Newest) /\ Remembers(c)
  BY SelectedContext DEF IInv, Contexts, WindowsRemember, Selected
<1>2. later \in Nat /\ ReplayWindow \in Nat \ {0}
  <2>1. i \in Nat /\ Len(executed) \in Nat
    BY DEF IInv, TypeOK
  <2> QED BY <2>1, SinceFinite, WindowAssumption
<1>3. ~Replayed(c, Decoded(f))
  BY DEF Admitted
<1> HIDE DEF c
<1>4. ASSUME later < ReplayWindow PROVE FALSE
  <2>1. c.history[Place(c.head, later)] = Decoded(f)
    BY <1>1, <1>4 DEF Remembers, Place, c
  <2>2. Place(c.head, later) \in Ring
    <3> HIDE DEF later
    <3>1. c.head \in Ring
      BY <1>1 DEF ContextsUpTo
    <3> QED BY <1>2, <1>4, <3>1, RingStep
  <2> QED BY <1>3, <2>1, <2>2 DEF Replayed
<1> HIDE DEF later
<1> QED BY <1>2, <1>4 DEF later

\* A step repeats an action of an IV only after it left the window.
LEMMA NextReplayWindow ==
  IInv /\ WindowsRemember /\ ReplayWindowHolds /\ [Next]_vars => ReplayWindowHolds'
<1> SUFFICES ASSUME IInv, WindowsRemember, ReplayWindowHolds, [Next]_vars
             PROVE  ReplayWindowHolds'
  OBVIOUS
<1>1. CASE UNCHANGED executed
  BY <1>1 DEF ReplayWindowHolds, Since
<1>2. ASSUME NEW f \in Frames, Recognised(f), Admitted(f) PROVE ReplayWindowHolds'
  <2>1. CASE UNCHANGED executed
    BY <1>1, <2>1
  <2>2. CASE \E e : /\ executed' = Append(executed, e)
                    /\ e.iv = Selected(f).iv /\ e.command = Decoded(f)
    <3>1. PICK e : /\ executed' = Append(executed, e)
                   /\ e.iv = Selected(f).iv /\ e.command = Decoded(f)
      BY <2>2
    <3> SUFFICES ASSUME NEW i \in DOMAIN executed', NEW j \in DOMAIN executed', i < j,
                        executed'[i].iv = executed'[j].iv,
                        executed'[i].command = executed'[j].command,
                        IsAction(executed'[i].command)
                 PROVE  Cardinality(Since(i, j - 1)') >= ReplayWindow
      BY DEF ReplayWindowHolds
    <3>2. /\ i \in DOMAIN executed /\ executed'[i] = executed[i]
          /\ j - 1 \in 0 .. Len(executed) /\ Len(executed) \in Nat
      BY <3>1, Appended DEF IInv
    <3>3. Since(i, j - 1)' = Since(i, j - 1)
      BY <3>1, <3>2, SinceAfter DEF IInv
    <3>4. CASE j \in DOMAIN executed /\ executed'[j] = executed[j]
      BY <3>2, <3>3, <3>4 DEF ReplayWindowHolds
    <3>5. CASE j = Len(executed) + 1 /\ executed'[j] = e
      <4>1. j - 1 = Len(executed)
        BY <3>2, <3>5
      <4> QED BY <1>2, <3>1, <3>2, <3>3, <3>5, <4>1, AdmittedOutsideWindow
    <3> QED BY <3>1, <3>4, <3>5, Appended DEF IInv
  <2> QED BY <1>2, <2>1, <2>2, AcceptedEntry
<1> QED
  BY <1>1, <1>2 DEF Next, ResetTransport, Reset, RequestIv, RequestRetried, RequestFresh,
     IgnoreFrame, EncryptResponse, ProcessFrame, DropUndecryptable, DropSuperseded,
     DropReplayed, AcceptPending, AcceptActive, AcceptRetired, history, vars

\* lock_session.cpp:138-141: an action runs again under one IV only after ReplayWindow
\* other actions of that IV, for every size of the window.
THEOREM ReplaysStayOut == Spec => []ReplayWindowHolds
<1>1. Init => WindowsRemember /\ ReplayWindowHolds
  BY EmptyContext DEF Init, WindowsRemember, ReplayWindowHolds
<1> QED BY <1>1, NextWindows, NextReplayWindow, Inductive, PTL DEF Spec
=============================================================================
