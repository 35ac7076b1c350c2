--------------------------- MODULE HandoffProofs ---------------------------
(***************************************************************************)
(* LockSession implements Handoff: every call of the session maps to a     *)
(* step of the abstract hand-off, or to a stutter.                         *)
(***************************************************************************)
EXTENDS LockSessionProofs, SequenceTheorems

-----------------------------------------------------------------------------
(* The mapped variables.                                                   *)

\* IVs are numbers, and no generation is beyond the newest.
LEMMA IvTypes ==
  ASSUME TypeOK
  PROVE  /\ Newest \in Nat
         /\ pending.iv \in 0 .. Newest /\ active.iv \in 0 .. Newest
         /\ retired.iv \in 0 .. Newest
BY DEF TypeOK, Contexts, ContextsUpTo, Newest

\* A step that executes nothing maps to no entry of the abstract log.
LEMMA LogUnchanged == UNCHANGED executed => UNCHANGED Log
BY DEF Log

\* A step that executes a command maps to one entry, with its generation.
LEMMA LogAppended ==
  ASSUME TypeOK, NEW e \in [iv : Nat, command : Commands, newest : Nat, prompt : BOOLEAN],
         executed' = Append(executed, e)
  PROVE  Log' = Append(Log, [iv |-> e.iv, command |-> e.command])
<1> DEFINE Entries == [iv : Nat, command : Commands]
<1> DEFINE entry == [iv |-> e.iv, command |-> e.command]
<1> DEFINE n == Len(executed)
<1>1. n \in Nat /\ DOMAIN executed = 1 .. n
  BY DEF TypeOK
<1>2. /\ DOMAIN executed' = 1 .. n + 1
      /\ \A i \in 1 .. n : executed'[i] = executed[i]
      /\ executed'[n + 1] = e
  BY DEF TypeOK
<1>3. entry \in Entries
  OBVIOUS
<1>4. Log \in Seq(Entries) /\ Len(Log) = n /\ \A i \in 1 .. n : Log[i] \in Entries
  <2> DEFINE Executions == [iv : Nat, command : Commands, newest : Nat, prompt : BOOLEAN]
  <2>1. executed \in Seq(Executions)
    BY DEF TypeOK
  <2>2. ASSUME NEW i \in 1 .. n PROVE executed[i] \in Executions
    <3> HIDE DEF Executions
    <3> QED BY <1>1, <2>1
  <2>3. \A i \in 1 .. n : executed[i].iv \in Nat /\ executed[i].command \in Commands
    BY <2>2
  <2>4. ASSUME NEW i \in 1 .. n PROVE Log[i] \in Entries
    BY <1>1, <2>3 DEF Log
  <2> HIDE DEF Entries
  <2>5. Log = [i \in 1 .. n |-> Log[i]]
    BY <1>1 DEF Log
  <2> QED BY <1>1, <2>4, <2>5
<1>5. Log' = [i \in 1 .. n + 1 |-> IF i = n + 1 THEN entry ELSE Log[i]]
  BY <1>1, <1>2 DEF Log
<1> SUFFICES Log' = Append(Log, entry)
  OBVIOUS
<1> HIDE DEF entry, Entries, n
<1>6. Log' \in Seq(Entries) /\ Len(Log') = n + 1
  <2>1. \A i \in 1 .. n + 1 : Log'[i] \in Entries
    BY <1>1, <1>3, <1>4, <1>5
  <2> QED BY <1>1, <1>5, <2>1
<1>7. /\ Append(Log, entry) \in Seq(Entries) /\ Len(Append(Log, entry)) = n + 1
      /\ \A i \in 1 .. n : Append(Log, entry)[i] = Log[i]
      /\ Append(Log, entry)[n + 1] = entry
  BY <1>3, <1>4, AppendProperties
<1>8. ASSUME NEW i \in 1 .. n + 1 PROVE Log'[i] = Append(Log, entry)[i]
  BY <1>1, <1>5, <1>7
<1> QED BY <1>6, <1>7, <1>8, SeqEqual

\* The abstract log after an admitted frame.
LEMMA LogAfter ==
  ASSUME TypeOK, NEW f \in Frames, Recognised(f), Admitted(f)
  PROVE  /\ IsPoll(Decoded(f)) => UNCHANGED Log
         /\ ~IsPoll(Decoded(f)) =>
              Log' = Append(Log, [iv |-> Selected(f).iv, command |-> Decoded(f)])
<1>1. CASE IsPoll(Decoded(f))
  BY <1>1, LogUnchanged DEF Admitted
<1>2. CASE ~IsPoll(Decoded(f))
  <2> DEFINE e == [iv |-> Selected(f).iv, command |-> Decoded(f),
                   newest |-> Newest, prompt |-> Prompt]
  <2>1. executed' = Append(executed, e)
    BY <1>2 DEF Admitted
  <2>2. Prompt \in BOOLEAN
    BY DEF Prompt
  <2>3. e \in [iv : Nat, command : Commands, newest : Nat, prompt : BOOLEAN]
    BY <2>2, SelectedContext, DecodedCommand, IvTypes DEF Contexts, ContextsUpTo
  <2>4. e.iv = Selected(f).iv /\ e.command = Decoded(f)
    OBVIOUS
  <2> HIDE DEF e
  <2> QED BY <1>2, <2>1, <2>3, <2>4, LogAppended
<1> QED BY <1>1, <1>2

-----------------------------------------------------------------------------
(* The steps.                                                              *)

\* What only takes turns away is a withdrawal.
LEMMA Withdrawn ==
  ASSUME Newest' = Newest, UNCHANGED Log, Live' \subseteq Live
  PROVE  Abstract!Next
BY DEF Abstract!Next, Abstract!Withdraw

\* Boundaries withdraw: what remains was live before.
LEMMA BoundaryMapped ==
  ASSUME IInv, ResetTransport \/ Reset
  PROVE  Abstract!Next
<1>1. /\ Newest' = Newest /\ UNCHANGED Log /\ NoContext.iv = 0
  BY LogUnchanged DEF ResetTransport, Reset, Newest, NoContext, Context, NoIv
<1>2. /\ pending'.iv \in {pending.iv, 0} /\ retired'.iv = 0
      /\ active'.iv \in {active.iv, 0}
      /\ active'.iv # 0 => pending' = pending /\ ~active'.late_action_allowed
  <2>1. active \in ContextsUpTo(Newest) /\ Newest \in Nat
    BY DEF IInv, TypeOK, Contexts, Newest
  <2> QED BY <1>1, <2>1, RevokedContext DEF ResetTransport, Reset
<1>3. Live' \subseteq Live
  BY <1>1, <1>2, IvTypes DEF Live, IInv, Valid, NoIv
<1> QED BY <1>1, <1>3, Withdrawn

\* A fresh IV request offers a generation and keeps at most the armed one.
LEMMA RequestMapped ==
  ASSUME IInv, NEW slot \in Slots, RequestFresh(slot)
  PROVE  Abstract!Next
<1> DEFINE kept == Live' \ {Newest + 1}
<1>1. Newest \in Nat /\ Newest' = Newest + 1 /\ UNCHANGED Log
  <2>1. \E r : ivs' = Append(ivs, r)
    BY DEF RequestFresh
  <2> QED BY <2>1, LogUnchanged, IvTypes DEF RequestFresh, IInv, TypeOK, Newest
<1>2. /\ pending'.iv = Newest + 1 /\ retired'.iv = 0 /\ Valid(pending')
  BY <1>1, FreshContext, EmptyContext DEF RequestFresh, Valid, NoIv
<1>3. /\ active'.iv = Surviving(slot).iv
      /\ active'.late_action_allowed => Valid(Surviving(slot))
  <2>1. Surviving(slot) \in ContextsUpTo(Newest)
    BY <1>1, EmptyContext DEF Surviving, IInv, TypeOK, Contexts
  <2> QED BY <1>1, <2>1, ArmedContext DEF RequestFresh
<1>4. kept \subseteq Live \cap {active'.iv}
  <2> SUFFICES ASSUME NEW iv \in kept PROVE iv \in Live /\ iv = active'.iv
    OBVIOUS
  <2>1. iv \in 1 .. Newest /\ iv = active'.iv /\ active'.late_action_allowed
    BY <1>1, <1>2 DEF Live
  <2>2. Surviving(slot) = active /\ ~Valid(pending)
    <3>1. Surviving(slot) # NoContext
      BY <1>1, <1>3, <2>1, EmptyContext
    <3> QED BY <3>1 DEF Surviving, RequestFresh, IsRetry
  <2> QED BY <1>3, <2>1, <2>2 DEF Live
<1>5. \A g, h \in kept : g = h
  BY <1>4
<1>6. Newest + 1 \in Live'
  BY <1>1, <1>2 DEF Live
<1>7. Live' = kept \cup {Newest'}
  BY <1>1, <1>6
<1>8. kept \in SUBSET Live
  BY <1>4
<1> HIDE DEF kept
<1>9. \E k \in SUBSET Live : (\A g, h \in k : g = h) /\ Live' = k \cup {Newest'}
  <2> WITNESS kept \in SUBSET Live
  <2> QED BY <1>5, <1>7
<1> QED BY <1>1, <1>9 DEF Abstract!Next, Abstract!Offer

\* A dropped frame can only use the allowance up.
LEMMA DropMapped ==
  ASSUME IInv, NEW f \in Frames, Recognised(f),
         DropUndecryptable(f) \/ DropSuperseded(f) \/ DropReplayed(f)
  PROVE  Abstract!Next
<1>1. /\ UNCHANGED <<slot_id, pending, history>>
      /\ active'.iv = active.iv
      /\ active'.late_action_allowed => active.late_action_allowed
      /\ retired' = retired \/ retired' = NoContext
  BY DropEffect DEF IInv
<1>2. Newest' = Newest /\ UNCHANGED Log /\ NoContext.iv = 0
  BY <1>1, LogUnchanged DEF history, Newest, NoContext, Context, NoIv
<1>3. Live' \subseteq Live
  BY <1>1, <1>2, IvTypes DEF Live, IInv, Valid, NoIv
<1> QED BY <1>2, <1>3, Withdrawn

\* The pending generation is the newest: a poll under it takes no turn away, a
\* command leaves it alone.
LEMMA PromotionMapped ==
  ASSUME IInv, NEW f \in Frames, Recognised(f), AcceptPending(f)
  PROVE  Abstract!Next
<1>1. /\ Decoded(f) \in Commands /\ Newest' = Newest /\ Newest \in Nat
      /\ Selected(f) = pending /\ Valid(pending) /\ Admitted(f)
      /\ pending.iv = Newest /\ Newest > 0
  BY DecodedCommand, SelectedContext, IvTypes
     DEF AcceptPending, Newest, Admitted, IInv, NewestLive, Valid, NoIv
<1>2. /\ active'.iv = Newest /\ pending'.iv = 0 /\ ~Valid(pending')
  <2>1. pending \in ContextsUpTo(Newest) /\ active \in ContextsUpTo(Newest)
    BY DEF IInv, TypeOK, Contexts
  <2>2. Revoked(Recorded(pending, Decoded(f))).iv = pending.iv
    BY <1>1, <2>1, RecordedContext, RevokedContext
  <2> QED BY <1>1, <2>2, EmptyContext DEF AcceptPending, Valid, NoIv
<1>3. Newest \in Live
  BY <1>1 DEF Live
<1>4. CASE IsPoll(Decoded(f))
  <2>1. \/ retired'.iv = 0
        \/ retired'.iv = active.iv /\ active.late_action_allowed
    BY <1>1, EmptyContext DEF AcceptPending
  <2>2. Live' \subseteq Live
    BY <1>1, <1>2, <2>1 DEF Live
  <2> QED BY <1>1, <1>4, <2>2, LogAfter, Withdrawn DEF IInv
<1>5. CASE ~IsPoll(Decoded(f))
  <2>1. retired'.iv = 0
    BY <1>1, <1>5, EmptyContext DEF AcceptPending
  <2>2. Live' = {Newest}
    BY <1>1, <1>2, <2>1 DEF Live
  <2>3. Log' = Append(Log, [iv |-> Newest, command |-> Decoded(f)])
    BY <1>1, <1>5, LogAfter DEF IInv
  <2> QED BY <1>1, <1>3, <1>5, <2>2, <2>3
          DEF Abstract!Next, Abstract!ExecuteNewest, Abstract!Executed
<1> QED BY <1>4, <1>5

\* The active generation is the newest, or takes its last turn.
LEMMA ActiveMapped ==
  ASSUME IInv, NEW f \in Frames, Recognised(f), AcceptActive(f)
  PROVE  Abstract!Next
<1> DEFINE cmd == Decoded(f)
<1>1. /\ cmd \in Commands /\ Newest' = Newest /\ Newest \in Nat
      /\ Selected(f) = active /\ Valid(active) /\ Admitted(f)
      /\ active.iv \in 1 .. Newest /\ UNCHANGED pending
  BY DecodedCommand, SelectedContext, IvTypes
     DEF AcceptActive, Newest, Admitted, IInv, Valid, NoIv
<1>2. /\ active'.iv = active.iv
      /\ active'.late_action_allowed => active.late_action_allowed
      /\ UsesPredecessor(f) /\ ~IsPoll(cmd) => ~active'.late_action_allowed
  <2> DEFINE c == Recorded(active, cmd)
  <2>1. /\ c \in ContextsUpTo(Newest) /\ c.iv = active.iv
        /\ c.late_action_allowed = active.late_action_allowed
    BY <1>1, RecordedContext DEF IInv, TypeOK, Contexts
  <2>2. active' = IF UsesPredecessor(f) THEN Overlapped(c, cmd) ELSE c
    BY DEF AcceptActive
  <2> HIDE DEF c, cmd
  <2>3. /\ Overlapped(c, cmd).iv = c.iv
        /\ Overlapped(c, cmd).late_action_allowed => c.late_action_allowed /\ IsPoll(cmd)
    BY <1>1, <2>1, OverlappedContext
  <2> QED BY <2>1, <2>2, <2>3
<1>3. retired'.iv = 0
  BY <1>1, EmptyContext DEF AcceptActive, RetiredAfter
<1>4. CASE IsPoll(cmd)
  <2>1. Live' \subseteq Live
    BY <1>1, <1>2, <1>3 DEF Live, Valid
  <2> QED BY <1>1, <1>4, <2>1, LogAfter, Withdrawn DEF IInv
<1>5. CASE ~IsPoll(cmd) /\ Valid(pending)
  <2>1. UsesPredecessor(f)
    BY <1>5 DEF UsesPredecessor, AcceptActive
  <2>2. active.late_action_allowed /\ IsFastUnlock(cmd)
    BY <1>1, <1>5, <2>1 DEF Admitted, Admissible, MayActLate
  <2>3. /\ active.iv < Newest /\ pending.iv = Newest /\ ~Valid(retired)
    BY <1>1, <1>5 DEF IInv, GenerationsDistinct, Older, NewestLive
  <2>4. Live = {active.iv, Newest} /\ Live' = {Newest}
    BY <1>1, <1>2, <1>3, <1>5, <2>1, <2>2, <2>3 DEF Live, Valid, NoIv
  <2>5. Log' = Append(Log, [iv |-> active.iv, command |-> cmd])
    BY <1>1, <1>5, LogAfter DEF IInv
  <2>6. Live' = Live \ {active.iv} /\ active.iv \in Live
    BY <1>1, <2>3, <2>4
  <2>7. Abstract!ExecuteLate(active.iv)
    BY <1>1, <2>2, <2>3, <2>5, <2>6 DEF Abstract!ExecuteLate, Abstract!Executed
  <2> QED BY <2>6, <2>7 DEF Abstract!Next
<1>6. CASE ~IsPoll(cmd) /\ ~Valid(pending)
  <2>1. active.iv = Newest /\ pending.iv = 0
    BY <1>1, <1>6 DEF IInv, NewestLive, Valid, NoIv
  <2>2. Newest \in Live /\ Live' = {Newest}
    BY <1>1, <1>2, <1>3, <1>6, <2>1 DEF Live, Valid
  <2>3. Log' = Append(Log, [iv |-> Newest, command |-> cmd])
    BY <1>1, <1>6, <2>1, LogAfter DEF IInv
  <2> QED BY <1>1, <1>6, <2>2, <2>3
          DEF Abstract!Next, Abstract!ExecuteNewest, Abstract!Executed
<1> QED BY <1>4, <1>5, <1>6

\* The retired generation takes its last turn.
LEMMA RetiredMapped ==
  ASSUME IInv, NEW f \in Frames, Recognised(f), AcceptRetired(f)
  PROVE  Abstract!Next
<1>1. /\ Decoded(f) \in Commands /\ Newest' = Newest /\ Newest \in Nat
      /\ Selected(f) = retired /\ Valid(retired) /\ Admitted(f)
      /\ retired.iv \in 1 .. Newest /\ UNCHANGED <<active, pending>>
  BY DecodedCommand, SelectedContext, IvTypes
     DEF AcceptRetired, Newest, Admitted, IInv, Valid, NoIv
<1>2. retired'.iv = 0
  BY EmptyContext, <1>1 DEF AcceptRetired, RetiredAfter
<1>3. CASE IsPoll(Decoded(f))
  <2>1. Live' \subseteq Live
    BY <1>1, <1>2 DEF Live, Valid
  <2> QED BY <1>1, <1>3, <2>1, LogAfter, Withdrawn DEF IInv
<1>4. CASE ~IsPoll(Decoded(f))
  <2>1. IsFastUnlock(Decoded(f))
    BY <1>1, <1>4 DEF Admitted, Admissible, MayActLate, UsesPredecessor, AcceptRetired
  <2>2. /\ retired.iv < Newest /\ ~Valid(pending) /\ active.iv = Newest
        /\ pending.iv = 0
    BY <1>1 DEF IInv, GenerationsDistinct, Older, NewestLive, Valid, NoIv
  <2>3. Live' = Live \ {retired.iv} /\ retired.iv \in Live
    BY <1>1, <1>2, <2>2 DEF Live, Valid
  <2>4. Log' = Append(Log, [iv |-> retired.iv, command |-> Decoded(f)])
    BY <1>1, <1>4, LogAfter DEF IInv
  <2>5. Abstract!ExecuteLate(retired.iv)
    BY <1>1, <2>1, <2>2, <2>3, <2>4 DEF Abstract!ExecuteLate, Abstract!Executed
  <2> QED BY <2>3, <2>5 DEF Abstract!Next
<1> QED BY <1>3, <1>4

-----------------------------------------------------------------------------
(* The refinement.                                                         *)

\* A session in which nothing was offered maps to an untouched hand-off.
LEMMA InitMapped == Init => Abstract!Init
BY DEF Init, Abstract!Init, Newest, Live, Log

\* Every step maps to a step or a stutter.
LEMMA StepMapped == IInv /\ [Next]_vars => [Abstract!Next]_(Abstract!vars)
<1> SUFFICES ASSUME IInv, [Next]_vars PROVE [Abstract!Next]_(Abstract!vars)
  OBVIOUS
<1>1. ASSUME UNCHANGED <<session, history>> PROVE UNCHANGED Abstract!vars
  BY <1>1 DEF session, history, Abstract!vars, Newest, Live, Log, Valid
<1>2. CASE ResetTransport \/ Reset
  BY <1>2, BoundaryMapped
<1>3. ASSUME NEW slot \in Slots, RequestIv(slot) PROVE [Abstract!Next]_(Abstract!vars)
  BY <1>1, <1>3, RequestMapped DEF RequestIv, RequestRetried
<1>4. CASE IgnoreFrame \/ EncryptResponse(header) \/ UNCHANGED vars
  BY <1>1, <1>4 DEF IgnoreFrame, EncryptResponse, vars
<1>5. ASSUME NEW f \in Frames, Recognised(f), ProcessFrame(f) PROVE Abstract!Next
  BY <1>5, DropMapped, PromotionMapped, ActiveMapped, RetiredMapped DEF ProcessFrame
<1> QED BY <1>2, <1>3, <1>4, <1>5 DEF Next

\* lock_session.cpp:157-206: the session implements the abstract hand-off.
THEOREM SessionImplementsHandoff == Spec => ImplementsHandoff
BY InitMapped, StepMapped, Inductive, PTL DEF Spec, ImplementsHandoff, Abstract!Spec
=============================================================================
