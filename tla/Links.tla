-------------------------------- MODULE Links --------------------------------
(***************************************************************************)
(* What the bridge keeps in flash (switchbot_keypad_bridge.cpp): the       *)
(* shared key, the keypad's name and identity, the linked lock; and what a *)
(* power loss at any moment leaves of it.                                  *)
(*                                                                         *)
(* A preference is saved in memory and reaches flash in a sync, one record *)
(* at a time and in any order.  The main loop does nothing else meanwhile. *)
(***************************************************************************)
EXTENDS Integers

CONSTANTS
  Keypads, Locks,
  MaxKeys, MaxCrashes   \* bounds of the model

NoDevice == "none"
Legacy == "legacy"      \* a lock record of an earlier release, with the lock's own key
NoKey == 0
Devices == Keypads \cup Locks

ASSUME LinksAssumption ==
  /\ Keypads \cap Locks = {} /\ {NoDevice, Legacy} \cap Devices = {}
  /\ MaxKeys \in Nat /\ MaxCrashes \in Nat

Blank == [key |-> NoKey, name |-> NoDevice, info |-> NoDevice, lock |-> NoDevice]
Records == DOMAIN Blank

VARIABLES
  flash,        \* the records in NVS
  ram,          \* shared_key_, the linked name, keypad_info_, linked_lock_info_
  staged,       \* records saved since the last sync; what was saved is what ram holds
  session_key,  \* the key imported for session_
  ui_key,       \* the key the wizard provisions
  wizard,       \* the wizard is open
  pending,      \* pending_pair_apply_, pending_lock_apply_ and their data
  pc, then,     \* where the main task is; after a sync, where it goes on
  holds,        \* the key each keypad and lock was provisioned with
  keys, crashes,
  linked_keys,  \* history: keys under which a keypad was linked in flash
  torn          \* history: the key in flash is newer than the links in flash

stored == <<flash, linked_keys, torn>>
live == <<session_key, ui_key, wizard, pending>>
vars == <<stored, ram, staged, live, pc, then, holds, keys, crashes>>

NoLinks == [pair |-> NoDevice, lock |-> NoDevice]

\* A new device, or one in use.
Init ==
  /\ \/ flash = Blank /\ keys = 0
     \/ /\ keys = 1
        /\ \E keypad \in Keypads, lock \in Locks \cup {NoDevice, Legacy} :
             flash = [key |-> 1, name |-> keypad, info |-> keypad, lock |-> lock]
  /\ holds = [d \in Devices |-> IF d \in {flash.name, flash.lock} THEN 1 ELSE NoKey]
  /\ linked_keys = 1 .. keys /\ torn = FALSE
  /\ ram = Blank /\ staged = {} /\ pending = NoLinks
  /\ session_key = NoKey /\ ui_key = NoKey /\ wizard = FALSE
  /\ pc = "off" /\ then = "rest" /\ crashes = 0

-----------------------------------------------------------------------------
(* Preferences.                                                            *)

Save(records) == staged' = staged \cup records

SyncThen(next) == pc' = "sync" /\ then' = next
Continue(next) == pc' = next /\ UNCHANGED then

\* sync() writes the staged records one by one.
WriteRecord(r) ==
  /\ pc = "sync" /\ r \in staged
  /\ flash' = [flash EXCEPT ![r] = ram[r]]
  /\ staged' = staged \ {r}
  /\ linked_keys' = linked_keys \cup
       IF r = "name" /\ flash'.name # NoDevice THEN {flash.key} ELSE {}
  /\ torn' = IF r = "key" THEN {flash.name, flash.lock} # {NoDevice}
             ELSE torn /\ {flash'.name, flash'.lock} # {NoDevice}
  /\ UNCHANGED <<ram, live, pc, then, holds, keys, crashes>>

SyncDone ==
  /\ pc = "sync" /\ staged = {}
  /\ Continue(then)
  /\ UNCHANGED <<stored, ram, staged, live, holds, keys, crashes>>

\* Everything but flash and the other devices is lost.
PowerLoss ==
  /\ pc # "off" /\ crashes < MaxCrashes
  /\ crashes' = crashes + 1
  /\ pc' = "off" /\ then' = "rest"
  /\ ram' = Blank /\ staged' = {} /\ pending' = NoLinks
  /\ session_key' = NoKey /\ ui_key' = NoKey /\ wizard' = FALSE
  /\ UNCHANGED <<stored, holds, keys>>

\* create_shared_key_(), which syncs before it returns.
Created_Unsynced(next) == Continue(next)
Created(next) == SyncThen(next)

CreateSharedKey(next) ==
  /\ keys < MaxKeys
  /\ keys' = keys + 1
  /\ ram' = [ram EXCEPT !.key = keys']
  /\ Save({"key"})
  /\ Created(next)

-----------------------------------------------------------------------------
(* setup().                                                                *)

PowerOn ==
  /\ pc = "off"
  /\ IF flash.key = NoKey THEN CreateSharedKey("links")
     ELSE /\ ram' = [ram EXCEPT !.key = flash.key]
          /\ Continue("links")
          /\ UNCHANGED <<staged, keys>>
  /\ UNCHANGED <<stored, live, holds, crashes>>

\* A lock record that is not based on the shared key is dropped, in flash too.
LockOf_Any(record) == record
LockOf(record) == IF record = Legacy THEN NoDevice ELSE record

RestoreLinks ==
  /\ pc = "links"
  /\ ram' = [flash EXCEPT !.key = ram.key, !.lock = LockOf(flash.lock)]
  /\ IF flash.lock = Legacy
     THEN Save({"lock"}) /\ SyncThen("prepare")
     ELSE Continue("prepare") /\ UNCHANGED staged
  /\ UNCHANGED <<stored, live, holds, keys, crashes>>

\* The key is imported and advertising begins; with no keypad the wizard is opened
\* (started: its port was free).
Prepare(started) ==
  /\ pc = "prepare"
  /\ session_key' = ram.key /\ ui_key' = ram.key
  /\ wizard' = (started /\ ram.name = NoDevice)
  /\ Continue("rest")
  /\ UNCHANGED <<stored, ram, staged, pending, holds, keys, crashes>>

\* mark_failed(): loop() is never called.
PrepareFails ==
  /\ pc = "prepare"
  /\ Continue("failed")
  /\ UNCHANGED <<stored, ram, staged, live, holds, keys, crashes>>

-----------------------------------------------------------------------------
(* reset_pairing().                                                        *)

\* The button is ignored while the wizard is open.
Reset ==
  /\ pc = "rest" /\ ~wizard
  /\ CreateSharedKey("import")
  /\ UNCHANGED <<stored, live, holds, crashes>>

\* The old handle is destroyed before the new key is imported.
ImportFails ==
  /\ pc = "import"
  /\ session_key' = NoKey
  /\ Continue("rest")
  /\ UNCHANGED <<stored, ram, staged, ui_key, wizard, pending, holds, keys, crashes>>

ForgetLinks ==
  /\ pc = "import"
  /\ session_key' = ram.key
  /\ ram' = [Blank EXCEPT !.key = ram.key]
  /\ Save(Records \ {"key"})
  /\ SyncThen("reopen")
  /\ UNCHANGED <<stored, ui_key, wizard, pending, holds, keys, crashes>>

UiKeyAfterReset_Kept == ui_key
UiKeyAfterReset == ram.key

Reopen(started) ==
  /\ pc = "reopen"
  /\ ui_key' = UiKeyAfterReset
  /\ wizard' = started
  /\ Continue("rest")
  /\ UNCHANGED <<stored, ram, staged, session_key, pending, holds, keys, crashes>>

-----------------------------------------------------------------------------
(* The wizard's jobs, and loop().                                          *)

\* A job provisions the device; it may fail after that (done is FALSE).
PairJob(keypad, done) ==
  /\ wizard /\ ram.name = NoDevice /\ pending.pair = NoDevice
  /\ holds' = [holds EXCEPT ![keypad] = ui_key]
  /\ pending' = [pending EXCEPT !.pair = IF done THEN keypad ELSE NoDevice]
  /\ UNCHANGED <<stored, ram, staged, session_key, ui_key, wizard, pc, then, keys, crashes>>

LinkJob(lock, done) ==
  /\ wizard /\ ram.name # NoDevice /\ ram.lock = NoDevice /\ pending.lock = NoDevice
  /\ holds' = [holds EXCEPT ![lock] = ui_key]
  /\ pending' = [pending EXCEPT !.lock = IF done THEN lock ELSE NoDevice]
  /\ UNCHANGED <<stored, ram, staged, session_key, ui_key, wizard, pc, then, keys, crashes>>

\* The name is saved without a sync: that of the keypad's identity writes both.
ApplyPairing ==
  /\ pc = "rest" /\ pending.pair # NoDevice
  /\ ram' = [ram EXCEPT !.name = pending.pair, !.info = pending.pair]
  /\ Save({"name", "info"})
  /\ SyncThen("rest")
  /\ pending' = [pending EXCEPT !.pair = NoDevice]
  /\ UNCHANGED <<stored, session_key, ui_key, wizard, holds, keys, crashes>>

AfterLink_Unsynced == Continue("rest")
AfterLink == SyncThen("rest")

ApplyLockLink ==
  /\ pc = "rest" /\ pending.lock # NoDevice
  /\ ram' = [ram EXCEPT !.lock = pending.lock]
  /\ Save({"lock"})
  /\ AfterLink
  /\ pending' = [pending EXCEPT !.lock = NoDevice]
  /\ UNCHANGED <<stored, session_key, ui_key, wizard, holds, keys, crashes>>

\* The battery scan learns the identity of a keypad whose record was lost.
LearnKeypad(keypad) ==
  /\ pc = "rest" /\ ram.name # NoDevice /\ ram.info = NoDevice
  /\ ram' = [ram EXCEPT !.info = keypad]
  /\ Save({"info"})
  /\ SyncThen("rest")
  /\ UNCHANGED <<stored, live, holds, keys, crashes>>

StopIfIdle ==
  /\ pc = "rest" /\ wizard
  /\ ram.name # NoDevice /\ pending = NoLinks
  /\ wizard' = FALSE
  /\ UNCHANGED <<stored, ram, staged, session_key, ui_key, pending, pc, then, holds, keys,
                 crashes>>

Setup ==
  \/ PowerOn \/ RestoreLinks \/ PrepareFails
  \/ \E started \in BOOLEAN : Prepare(started)
ResetPairing ==
  \/ Reset \/ ImportFails \/ ForgetLinks
  \/ \E started \in BOOLEAN : Reopen(started)
Jobs ==
  \E done \in BOOLEAN :
    \/ \E keypad \in Keypads : PairJob(keypad, done)
    \/ \E lock \in Locks : LinkJob(lock, done)
Loop ==
  \/ ApplyPairing \/ ApplyLockLink \/ StopIfIdle
  \/ \E keypad \in Keypads : LearnKeypad(keypad)
Sync == SyncDone \/ \E r \in Records : WriteRecord(r)

Next == Setup \/ ResetPairing \/ Jobs \/ Loop \/ Sync \/ PowerLoss

Spec == Init /\ [][Next]_vars

-----------------------------------------------------------------------------
(* Properties.                                                             *)

Links(locks) ==
  [key : 0 .. keys, name : Keypads \cup {NoDevice}, info : Keypads \cup {NoDevice}, lock : locks]

\* Every variable has its type; in memory a lock is never a legacy one.
TypeOK ==
  /\ keys \in Nat /\ crashes \in 0 .. MaxCrashes
  /\ flash \in Links(Locks \cup {NoDevice, Legacy})
  /\ ram \in Links(Locks \cup {NoDevice})
  /\ staged \subseteq Records
  /\ session_key \in 0 .. keys /\ ui_key \in 0 .. keys /\ wizard \in BOOLEAN
  /\ pending \in [pair : Keypads \cup {NoDevice}, lock : Locks \cup {NoDevice}]
  /\ pc \in {"off", "links", "prepare", "failed", "rest", "sync", "import", "reopen"}
  /\ then \in {"links", "prepare", "rest", "import", "reopen"}
  /\ holds \in [Devices -> 0 .. keys]
  /\ linked_keys \subseteq 1 .. keys /\ torn \in BOOLEAN

\* README.md:287-289: a bridge without a keypad has a key that no linked keypad ever had,
\* in flash and in the session: the key is rotated before the links are forgotten,
\* wherever power is lost.
ForgottenKeypadLockedOut ==
  /\ flash.name = NoDevice => flash.key \notin linked_keys
  /\ pc = "rest" /\ ram.name = NoDevice => session_key \notin linked_keys

\* switchbot_keypad_bridge.cpp:287: what the bridge works with survives a power loss,
\* once the pass that changed it is over.
RestIsDurable == pc = "rest" => ram = flash

\* switchbot_keypad_bridge.cpp:398-405: keypad, lock and bridge share one key, across
\* resets and restarts, unless a reset was interrupted after the rotation of the key.
KeysAgree ==
  pc = "rest" /\ ~torn =>
    /\ \A d \in {ram.name, ram.lock} \ {NoDevice} : holds[d] = session_key
    /\ wizard => ui_key = session_key
=============================================================================
