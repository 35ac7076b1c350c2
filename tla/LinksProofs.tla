----------------------------- MODULE LinksProofs -----------------------------
(***************************************************************************)
(* Proofs about Links, for every set of keypads and locks and any number   *)
(* of rotations and power losses.                                          *)
(***************************************************************************)
EXTENDS Links, TLAPS

SyncingTo(next) == pc = "sync" /\ then = next
Running == pc = "rest" \/ SyncingTo("rest")
HasLinks(records) == records.name # NoDevice \/ records.lock # NoDevice

\* There is a key once it was loaded.  A record that is not staged is in flash as it is
\* in memory, once it was loaded.
Mirrored ==
  /\ pc # "off" => ram.key # NoKey
  /\ pc # "sync" => staged = {}
  /\ pc # "off" /\ "key" \notin staged => flash.key = ram.key
  /\ pc \notin {"off", "links"} /\ ~SyncingTo("links") =>
       /\ "name" \notin staged => flash.name = ram.name
       /\ "info" \notin staged => flash.info = ram.info
       /\ "lock" \notin staged => flash.lock = ram.lock

\* What a sync writes, and what it finds in memory, follows from its purpose.
Phases ==
  /\ SyncingTo("links") \/ SyncingTo("import") => staged \subseteq {"key"}
  /\ SyncingTo("prepare") => staged \subseteq {"lock"} /\ ram.lock = NoDevice
  /\ SyncingTo("reopen") \/ SyncingTo("rest") => "key" \notin staged
  /\ SyncingTo("rest") => ram.name # NoDevice /\ ("lock" \in staged => ram.lock # NoDevice)
  /\ SyncingTo("reopen") \/ pc = "reopen" => ~HasLinks(ram) /\ session_key = ram.key

\* The wizard is open while the loop runs, with the key of the session; what it
\* provisioned holds that key.
WizardOpen ==
  /\ wizard => Running /\ ui_key = session_key /\ session_key = ram.key
  /\ pending.pair # NoDevice =>
       wizard /\ ram.name = NoDevice /\ holds[pending.pair] = ui_key
  /\ pending.lock # NoDevice =>
       wizard /\ ram.name # NoDevice /\ ram.lock = NoDevice /\ holds[pending.lock] = ui_key

\* A rotated key is new until links are made with it.
Rotated ==
  \/ SyncingTo("links") \/ SyncingTo("import") \/ SyncingTo("reopen")
  \/ pc \in {"import", "reopen"}
FreshKey == Rotated => ram.key \notin linked_keys

\* Links in flash older than its key are known as torn; the others share the key.
LinksHold ==
  /\ torn => HasLinks(flash)
  /\ HasLinks(flash) /\ (pc = "import" \/ SyncingTo("reopen")
                         \/ (SyncingTo("import") /\ "key" \notin staged)) => torn
  /\ ~torn => /\ flash.name # NoDevice => holds[flash.name] = flash.key
              /\ flash.lock \notin {NoDevice, Legacy} => holds[flash.lock] = flash.key
  /\ Running /\ ~torn /\ HasLinks(ram) => session_key = ram.key
  /\ Running /\ ~torn /\ ram.name # NoDevice => holds[ram.name] = session_key
  /\ Running /\ ~torn /\ ram.lock # NoDevice => holds[ram.lock] = session_key

IInv ==
  TypeOK /\ Mirrored /\ Phases /\ WizardOpen /\ FreshKey /\ LinksHold /\ ForgottenKeypadLockedOut

USE LinksAssumption
    DEF stored, live, Blank, NoLinks, NoKey, NoDevice, Legacy, Records, Devices,
        SyncingTo, Running, HasLinks, Rotated, Links

-----------------------------------------------------------------------------
(* The invariant is inductive: one lemma per action, one step per part.    *)

\* A new bridge, or one in use, is switched off and agrees with its links.
LEMMA InitInv ==
  ASSUME Init
  PROVE  IInv
<1>1. TypeOK
  <2>1. keys \in Nat /\ crashes \in 0 .. MaxCrashes
    BY DEF Init
  <2>2. flash \in Links(Locks \cup {NoDevice, Legacy})
    BY DEF Init
  <2>3. ram \in Links(Locks \cup {NoDevice}) /\ linked_keys \subseteq 1 .. keys
    BY <2>1 DEF Init
  <2>4. session_key \in 0 .. keys /\ ui_key \in 0 .. keys
    BY <2>1 DEF Init
  <2>5. /\ pending \in [pair : Keypads \cup {NoDevice}, lock : Locks \cup {NoDevice}]
        /\ wizard \in BOOLEAN /\ staged \subseteq Records /\ torn \in BOOLEAN
    BY DEF Init
  <2>6. holds \in [Devices -> 0 .. keys]
    BY DEF Init
  <2> QED BY <2>1, <2>2, <2>3, <2>4, <2>5, <2>6 DEF Init, TypeOK
<1>2. Mirrored BY DEF Init, Mirrored
<1>3. Phases BY DEF Init, Phases
<1>4. WizardOpen BY DEF Init, WizardOpen
<1>5. FreshKey BY DEF Init, FreshKey
<1>6. LinksHold BY DEF Init, LinksHold
<1>7. ForgottenKeypadLockedOut BY DEF Init, ForgottenKeypadLockedOut
<1> QED BY <1>1, <1>2, <1>3, <1>4, <1>5, <1>6, <1>7 DEF IInv

\* A sync writes one of the staged records (sync()).
LEMMA WriteRecordStep ==
  ASSUME IInv, NEW r \in Records, WriteRecord(r)
  PROVE  IInv'
<1> USE DEF IInv, WriteRecord
<1>1. /\ flash' = [flash EXCEPT ![r] = ram[r]]
      /\ flash' \in Links(Locks \cup {NoDevice, Legacy})
  BY DEF TypeOK
<1>2. linked_keys' \subseteq 1 .. keys
  <2>1. r = "name" => flash.key \in 1 .. keys
    BY DEF TypeOK, Phases, Mirrored
  <2> QED BY <2>1 DEF TypeOK
<1>3. TypeOK' BY <1>1, <1>2 DEF TypeOK
<1>4. Mirrored' BY DEF Mirrored, TypeOK
<1>5. Phases' BY DEF Phases
<1>6. WizardOpen' BY DEF WizardOpen
<1>7. FreshKey' BY DEF FreshKey, TypeOK, Phases
<1>8. LinksHold'
  <2>1. CASE r = "key"
    <3>1. torn' = HasLinks(flash) /\ flash'.name = flash.name /\ flash'.lock = flash.lock
      BY <1>1, <2>1 DEF TypeOK
    <3>2. ~Running'
      BY <2>1 DEF Phases
    <3> QED BY <3>1, <3>2 DEF LinksHold
  <2>2. CASE r = "name"
    <3>1. /\ torn' = (torn /\ HasLinks(flash'))
          /\ flash'.name = ram.name /\ flash'.lock = flash.lock /\ flash'.key = flash.key
      BY <1>1, <2>2 DEF TypeOK
    <3>2. SyncingTo("reopen") \/ SyncingTo("rest")
      BY <2>2 DEF Phases, TypeOK
    <3>3. /\ flash.key = ram.key
          /\ SyncingTo("reopen") => ~HasLinks(ram)
          /\ SyncingTo("rest") => ram.name # NoDevice
      BY <3>2 DEF Phases, Mirrored
    <3> QED BY <3>1, <3>2, <3>3 DEF LinksHold
  <2>3. CASE r = "info"
    BY <1>1, <2>3 DEF LinksHold, TypeOK, Phases, Mirrored
  <2>4. CASE r = "lock"
    <3>1. /\ torn' = (torn /\ HasLinks(flash'))
          /\ flash'.name = flash.name /\ flash'.lock = ram.lock /\ flash'.key = flash.key
      BY <1>1, <2>4 DEF TypeOK
    <3>2. /\ flash.key = ram.key
          /\ \/ SyncingTo("reopen") /\ ~HasLinks(ram)
             \/ SyncingTo("prepare") /\ ram.lock = NoDevice
             \/ SyncingTo("rest") /\ ram.lock # NoDevice
      BY <2>4 DEF Phases, Mirrored, TypeOK
    <3>3. ram.lock # Legacy
      BY DEF TypeOK
    <3> QED BY <3>1, <3>2, <3>3 DEF LinksHold
  <2> QED BY <2>1, <2>2, <2>3, <2>4
<1>9. ForgottenKeypadLockedOut'
  <2>1. CASE r = "key"
    BY <1>1, <2>1 DEF ForgottenKeypadLockedOut, TypeOK, Phases, FreshKey
  <2>2. CASE r = "name"
    BY <1>1, <2>2 DEF ForgottenKeypadLockedOut, TypeOK, Phases, FreshKey, Mirrored
  <2>3. CASE r \in {"info", "lock"}
    BY <1>1, <2>3 DEF ForgottenKeypadLockedOut, TypeOK
  <2> QED BY <2>1, <2>2, <2>3
<1> QED BY <1>3, <1>4, <1>5, <1>6, <1>7, <1>8, <1>9

\* A sync ends, and the main task goes on.
LEMMA SyncDoneStep ==
  ASSUME IInv, SyncDone
  PROVE  IInv'
<1> USE DEF IInv, SyncDone, Continue
<1>1. TypeOK' BY DEF TypeOK
<1>2. Mirrored' BY DEF Mirrored
<1>3. Phases' BY DEF Phases
<1>4. WizardOpen' BY DEF WizardOpen
<1>5. FreshKey' BY DEF FreshKey
<1>6. LinksHold' BY DEF LinksHold
<1>7. ForgottenKeypadLockedOut' BY DEF ForgottenKeypadLockedOut, Phases
<1> QED BY <1>1, <1>2, <1>3, <1>4, <1>5, <1>6, <1>7

\* Power is lost: what flash and the other devices hold is all that remains.
LEMMA PowerLossStep ==
  ASSUME IInv, PowerLoss
  PROVE  IInv'
<1> USE DEF IInv, PowerLoss
<1>1. TypeOK'
  <2>1. crashes' \in 0 .. MaxCrashes
    BY DEF TypeOK
  <2>2. ram' \in Links(Locks \cup {NoDevice})'
    BY DEF TypeOK
  <2>3. /\ pending' \in [pair : Keypads \cup {NoDevice}, lock : Locks \cup {NoDevice}]
        /\ flash' \in Links(Locks \cup {NoDevice, Legacy})'
    BY DEF TypeOK
  <2> QED BY <2>1, <2>2, <2>3 DEF TypeOK
<1>2. Mirrored' BY DEF Mirrored
<1>3. Phases' BY DEF Phases
<1>4. WizardOpen' BY DEF WizardOpen
<1>5. FreshKey' BY DEF FreshKey
<1>6. LinksHold' BY DEF LinksHold
<1>7. ForgottenKeypadLockedOut' BY DEF ForgottenKeypadLockedOut
<1> QED BY <1>1, <1>2, <1>3, <1>4, <1>5, <1>6, <1>7

\* setup() loads the shared key or creates the first one.
LEMMA PowerOnStep ==
  ASSUME IInv, PowerOn
  PROVE  IInv'
<1> USE DEF IInv, PowerOn, CreateSharedKey, Created, SyncThen, Continue, Save
<1>1. TypeOK' BY DEF TypeOK
<1>2. Mirrored' BY DEF Mirrored, TypeOK
<1>3. Phases' BY DEF Phases, Mirrored
<1>4. WizardOpen' BY DEF WizardOpen
<1>5. FreshKey' BY DEF FreshKey, TypeOK
<1>6. LinksHold' BY DEF LinksHold
<1>7. ForgottenKeypadLockedOut' BY DEF ForgottenKeypadLockedOut
<1> QED BY <1>1, <1>2, <1>3, <1>4, <1>5, <1>6, <1>7

\* setup() loads the links and drops a lock record of an earlier release.
LEMMA RestoreLinksStep ==
  ASSUME IInv, RestoreLinks
  PROVE  IInv'
<1> USE DEF IInv, RestoreLinks, LockOf, Save, SyncThen, Continue
<1>1. TypeOK'
  <2>1. ram' \in Links(Locks \cup {NoDevice})
    BY DEF TypeOK, Links
  <2>2. staged' \subseteq Records
    BY DEF TypeOK, Records
  <2> QED BY <2>1, <2>2 DEF TypeOK, stored, live
<1>2. Mirrored' BY DEF Mirrored
<1>3. Phases' BY DEF Phases, Mirrored
<1>4. WizardOpen' BY DEF WizardOpen
<1>5. FreshKey' BY DEF FreshKey
<1>6. LinksHold' BY DEF LinksHold
<1>7. ForgottenKeypadLockedOut' BY DEF ForgottenKeypadLockedOut
<1> QED BY <1>1, <1>2, <1>3, <1>4, <1>5, <1>6, <1>7

\* setup() imports the key, and opens the wizard when there is no keypad.
LEMMA PrepareStep ==
  ASSUME IInv, NEW started \in BOOLEAN, Prepare(started)
  PROVE  IInv'
<1> USE DEF IInv, Prepare, Continue
<1>1. TypeOK' BY DEF TypeOK
<1>2. Mirrored' BY DEF Mirrored
<1>3. Phases' BY DEF Phases
<1>4. WizardOpen' BY DEF WizardOpen
<1>5. FreshKey' BY DEF FreshKey
<1>6. LinksHold' BY DEF LinksHold, TypeOK, Mirrored
<1>7. ForgottenKeypadLockedOut' BY DEF ForgottenKeypadLockedOut, Mirrored
<1> QED BY <1>1, <1>2, <1>3, <1>4, <1>5, <1>6, <1>7

\* setup() fails: nothing runs after mark_failed().
LEMMA PrepareFailsStep ==
  ASSUME IInv, PrepareFails
  PROVE  IInv'
<1> USE DEF IInv, PrepareFails, Continue
<1>1. TypeOK' BY DEF TypeOK
<1>2. Mirrored' BY DEF Mirrored
<1>3. Phases' BY DEF Phases
<1>4. WizardOpen' BY DEF WizardOpen
<1>5. FreshKey' BY DEF FreshKey
<1>6. LinksHold' BY DEF LinksHold
<1>7. ForgottenKeypadLockedOut' BY DEF ForgottenKeypadLockedOut
<1> QED BY <1>1, <1>2, <1>3, <1>4, <1>5, <1>6, <1>7

\* reset_pairing() rotates the key first.
LEMMA ResetStep ==
  ASSUME IInv, Reset
  PROVE  IInv'
<1> USE DEF IInv, Reset, CreateSharedKey, Created, SyncThen, Save
<1>1. TypeOK' BY DEF TypeOK
<1>2. Mirrored' BY DEF Mirrored, TypeOK
<1>3. Phases' BY DEF Phases, Mirrored
<1>4. WizardOpen' BY DEF WizardOpen
<1>5. FreshKey' BY DEF FreshKey, TypeOK
<1>6. LinksHold' BY DEF LinksHold
<1>7. ForgottenKeypadLockedOut' BY DEF ForgottenKeypadLockedOut
<1> QED BY <1>1, <1>2, <1>3, <1>4, <1>5, <1>6, <1>7

\* reset_pairing() gives up when the new key cannot be imported.
LEMMA ImportFailsStep ==
  ASSUME IInv, ImportFails
  PROVE  IInv'
<1> USE DEF IInv, ImportFails, Continue
<1>1. TypeOK' BY DEF TypeOK
<1>2. Mirrored' BY DEF Mirrored
<1>3. Phases' BY DEF Phases
<1>4. WizardOpen' BY DEF WizardOpen
<1>5. FreshKey' BY DEF FreshKey
<1>6. LinksHold' BY DEF LinksHold, Mirrored
<1>7. ForgottenKeypadLockedOut' BY DEF ForgottenKeypadLockedOut, TypeOK
<1> QED BY <1>1, <1>2, <1>3, <1>4, <1>5, <1>6, <1>7

\* reset_pairing() clears the links, with the new key imported.
LEMMA ForgetLinksStep ==
  ASSUME IInv, ForgetLinks
  PROVE  IInv'
<1> USE DEF IInv, ForgetLinks, Save, SyncThen
<1>1. TypeOK' BY DEF TypeOK
<1>2. Mirrored' BY DEF Mirrored
<1>3. Phases' BY DEF Phases, Mirrored
<1>4. WizardOpen' BY DEF WizardOpen
<1>5. FreshKey' BY DEF FreshKey
<1>6. LinksHold' BY DEF LinksHold
<1>7. ForgottenKeypadLockedOut' BY DEF ForgottenKeypadLockedOut
<1> QED BY <1>1, <1>2, <1>3, <1>4, <1>5, <1>6, <1>7

\* reset_pairing() opens the wizard with the new key.
LEMMA ReopenStep ==
  ASSUME IInv, NEW started \in BOOLEAN, Reopen(started)
  PROVE  IInv'
<1> USE DEF IInv, Reopen, Continue, UiKeyAfterReset
<1>1. TypeOK' BY DEF TypeOK
<1>2. Mirrored' BY DEF Mirrored
<1>3. Phases' BY DEF Phases
<1>4. WizardOpen' BY DEF WizardOpen, Phases
<1>5. FreshKey' BY DEF FreshKey
<1>6. LinksHold' BY DEF LinksHold, Phases
<1>7. ForgottenKeypadLockedOut' BY DEF ForgottenKeypadLockedOut, Mirrored, FreshKey, Phases
<1> QED BY <1>1, <1>2, <1>3, <1>4, <1>5, <1>6, <1>7

\* A job of the wizard provisions a keypad.
LEMMA PairJobStep ==
  ASSUME IInv, NEW keypad \in Keypads, NEW done \in BOOLEAN, PairJob(keypad, done)
  PROVE  IInv'
<1> USE DEF IInv, PairJob
<1>1. TypeOK' BY DEF TypeOK
<1>2. Mirrored' BY DEF Mirrored
<1>3. Phases' BY DEF Phases
<1>4. WizardOpen' BY DEF WizardOpen, TypeOK
<1>5. FreshKey' BY DEF FreshKey
<1>6. LinksHold' BY DEF LinksHold, TypeOK, WizardOpen, Mirrored, Phases
<1>7. ForgottenKeypadLockedOut' BY DEF ForgottenKeypadLockedOut
<1> QED BY <1>1, <1>2, <1>3, <1>4, <1>5, <1>6, <1>7

\* A job of the wizard provisions a lock.
LEMMA LinkJobStep ==
  ASSUME IInv, NEW lock \in Locks, NEW done \in BOOLEAN, LinkJob(lock, done)
  PROVE  IInv'
<1> USE DEF IInv, LinkJob
<1>1. TypeOK' BY DEF TypeOK
<1>2. Mirrored' BY DEF Mirrored
<1>3. Phases' BY DEF Phases
<1>4. WizardOpen' BY DEF WizardOpen, TypeOK
<1>5. FreshKey' BY DEF FreshKey
<1>6. LinksHold' BY DEF LinksHold, TypeOK, WizardOpen, Mirrored, Phases
<1>7. ForgottenKeypadLockedOut' BY DEF ForgottenKeypadLockedOut
<1> QED BY <1>1, <1>2, <1>3, <1>4, <1>5, <1>6, <1>7

\* loop() applies a finished pairing and saves it.
LEMMA ApplyPairingStep ==
  ASSUME IInv, ApplyPairing
  PROVE  IInv'
<1> USE DEF IInv, ApplyPairing, Save, SyncThen
<1>1. TypeOK' BY DEF TypeOK
<1>2. Mirrored' BY DEF Mirrored
<1>3. Phases' BY DEF Phases, Mirrored
<1>4. WizardOpen' BY DEF WizardOpen
<1>5. FreshKey' BY DEF FreshKey
<1>6. LinksHold' BY DEF LinksHold, WizardOpen
<1>7. ForgottenKeypadLockedOut' BY DEF ForgottenKeypadLockedOut
<1> QED BY <1>1, <1>2, <1>3, <1>4, <1>5, <1>6, <1>7

\* loop() applies a finished lock link and saves it.
LEMMA ApplyLockLinkStep ==
  ASSUME IInv, ApplyLockLink
  PROVE  IInv'
<1> USE DEF IInv, ApplyLockLink, Save, SyncThen, AfterLink
<1>1. TypeOK' BY DEF TypeOK
<1>2. Mirrored' BY DEF Mirrored
<1>3. Phases' BY DEF Phases, Mirrored, WizardOpen
<1>4. WizardOpen' BY DEF WizardOpen
<1>5. FreshKey' BY DEF FreshKey
<1>6. LinksHold' BY DEF LinksHold, WizardOpen
<1>7. ForgottenKeypadLockedOut' BY DEF ForgottenKeypadLockedOut
<1> QED BY <1>1, <1>2, <1>3, <1>4, <1>5, <1>6, <1>7

\* The battery scan saves the identity of the keypad.
LEMMA LearnKeypadStep ==
  ASSUME IInv, NEW keypad \in Keypads, LearnKeypad(keypad)
  PROVE  IInv'
<1> USE DEF IInv, LearnKeypad, Save, SyncThen
<1>1. TypeOK' BY DEF TypeOK
<1>2. Mirrored' BY DEF Mirrored
<1>3. Phases' BY DEF Phases, Mirrored
<1>4. WizardOpen' BY DEF WizardOpen
<1>5. FreshKey' BY DEF FreshKey
<1>6. LinksHold' BY DEF LinksHold
<1>7. ForgottenKeypadLockedOut' BY DEF ForgottenKeypadLockedOut
<1> QED BY <1>1, <1>2, <1>3, <1>4, <1>5, <1>6, <1>7

\* loop() closes the wizard when its work is done.
LEMMA StopIfIdleStep ==
  ASSUME IInv, StopIfIdle
  PROVE  IInv'
<1> USE DEF IInv, StopIfIdle
<1>1. TypeOK' BY DEF TypeOK
<1>2. Mirrored' BY DEF Mirrored
<1>3. Phases' BY DEF Phases
<1>4. WizardOpen' BY DEF WizardOpen
<1>5. FreshKey' BY DEF FreshKey
<1>6. LinksHold' BY DEF LinksHold
<1>7. ForgottenKeypadLockedOut' BY DEF ForgottenKeypadLockedOut
<1> QED BY <1>1, <1>2, <1>3, <1>4, <1>5, <1>6, <1>7

-----------------------------------------------------------------------------
(* The theorems.                                                           *)

\* Nothing moves.
LEMMA IdleStep ==
  ASSUME IInv, UNCHANGED vars
  PROVE  IInv'
BY DEF IInv, vars, TypeOK, Mirrored, Phases, WizardOpen, FreshKey, LinksHold,
       ForgottenKeypadLockedOut

\* Every step of the bridge, of its wizard or of the power supply keeps the invariant.
LEMMA IInvStep == IInv /\ [Next]_vars => IInv'
<1> SUFFICES ASSUME IInv, [Next]_vars
             PROVE  IInv'
  OBVIOUS
<1>1. CASE Setup
  BY <1>1, PowerOnStep, RestoreLinksStep, PrepareStep, PrepareFailsStep DEF Setup
<1>2. CASE ResetPairing
  BY <1>2, ResetStep, ImportFailsStep, ForgetLinksStep, ReopenStep DEF ResetPairing
<1>3. CASE Jobs
  BY <1>3, PairJobStep, LinkJobStep DEF Jobs
<1>4. CASE Loop
  BY <1>4, ApplyPairingStep, ApplyLockLinkStep, LearnKeypadStep, StopIfIdleStep DEF Loop
<1>5. CASE Sync
  BY <1>5, WriteRecordStep, SyncDoneStep DEF Sync
<1>6. CASE PowerLoss
  BY <1>6, PowerLossStep
<1>7. CASE UNCHANGED vars
  BY <1>7, IdleStep
<1> QED BY <1>1, <1>2, <1>3, <1>4, <1>5, <1>6, <1>7 DEF Next

\* The invariant holds from power-up on.
LEMMA IInvHolds == Spec => []IInv
BY InitInv, IInvStep, PTL DEF Spec

\* Every variable has its type; in memory a lock is never a legacy one, as setup()
\* drops the record of an earlier release.
THEOREM LinksTypeCorrect == Spec => []TypeOK
<1>1. IInv => TypeOK BY DEF IInv
<1> QED BY <1>1, IInvHolds, PTL

\* A forgotten keypad is locked out: whenever no keypad is linked, no keypad was ever
\* linked with the key in flash or in the session, wherever power was lost in
\* reset_pairing(), in setup() or in a sync.
THEOREM ForgottenKeypadStaysOut == Spec => []ForgottenKeypadLockedOut
<1>1. IInv => ForgottenKeypadLockedOut BY DEF IInv
<1> QED BY <1>1, IInvHolds, PTL

\* What the bridge works with between two passes of loop() survives a power loss:
\* every path that changes a preference ends in a sync.
THEOREM LinksSurvivePowerLoss == Spec => []RestIsDurable
<1>1. IInv => RestIsDurable
  <2> SUFFICES ASSUME IInv, pc = "rest"
               PROVE  ram = flash
    BY DEF RestIsDurable
  <2>1. \A r \in Records : flash[r] = ram[r]
    BY DEF IInv, Mirrored, TypeOK
  <2> QED BY <2>1 DEF IInv, TypeOK
<1> QED BY <1>1, IInvHolds, PTL

\* Keypad, lock and bridge share one key, across any number of resets and restarts,
\* unless a reset was interrupted between the rotation and the end of its sync.
THEOREM LinkedDevicesShareTheKey == Spec => []KeysAgree
<1>1. IInv => KeysAgree
  BY DEF IInv, TypeOK, LinksHold, WizardOpen, KeysAgree
<1> QED BY <1>1, IInvHolds, PTL
==============================================================================
