# A TLA+ model of the SwitchBot keypad bridge

This directory models the firmware component in
`src/components/switchbot_keypad_bridge` (an ESP32 that pretends to be a
SwitchBot lock, so that a SwitchBot keypad can command Home Assistant and,
optionally, a real lock). File names below are relative to that directory.

## The system

| Part | State it keeps | Operations | Tasks that touch it |
|---|---|---|---|
| Encrypted session (`lock_session.*`) | slot id, three IV generations (active, pending, retired) with their replay windows and late-action allowance, response IV | `process_frame` (IV request or encrypted frame), `encrypt_response`, `reset_transport`, `reset`, `forget_slot` | main loop only |
| Command decoding (`lock_protocol.*`) | none | `decode_lock_command` | main loop |
| Bridge (`switchbot_keypad_bridge.*`) | event queue, links, lock state, pending results, relay busy flag, battery scan window, NVS records | BLE callbacks, `loop`, `handle_command_`, applies, `reset_pairing`, battery scan | NimBLE task, main loop, relay task |
| Setup wizard (`pairing_ui.*`) | HTTP server, idle timer, armed job ids, link flags, cloud session | HTTP handlers, `poll_jobs`, `stop_if_idle` | HTTP task, main loop |
| Jobs (`background_job.h`, `keypad_pairer.*`, `lock_linker.*`) | status of one job each, notify semaphore | `start`, `status`, the job's body | HTTP task, job task, NimBLE task, main loop |
| Physical lock client (`physical_lock.*`) | cached address, notify waiter, session | `send_plaintext`, `provision_and_verify_shared_key` | relay task or job task, NimBLE task |
| Cloud client, adverts, AES, BLE helpers, code generation, web page | none that a protocol depends on | | |

How they interact: NimBLE callbacks append connection events and frames to
`rx_queue_` under a mutex; `loop()` swaps the queue out, feeds the session, acts
on each command, answers the keypad and hands side-effecting commands to a
one-shot relay task. HTTP handlers start a job in a task of its own and arm its
id; `loop()` polls the jobs, and a success becomes a *pending apply* that the same
pass of the loop turns into links, flags and flash records. The relay reports
back through a pending flag in the same way.

What is hard here, and what makes each part correct:

* *Session.* The keypad keeps an IV across reconnections, retries its IV
  requests, and presses of a button race the negotiation of the next IV. Correct
  means: a frame selects one generation at most; no press already encrypted is
  stranded by a retry; an old press never runs after what replaced it, except the
  one Fast Unlock the code admits on purpose; an action is not run twice; a
  response uses the IV of its request.
* *Wizard.* Four tasks share flags and job ids; the browser may vanish; the server
  may be closed under a handler. Correct means: a job is applied once, with its own
  data; the flags agree with the links; setup mode never becomes unreachable; what
  completed is applied.
* *Bridge.* Frames, connection events and replies of two connections, and a relay
  that outlives several passes of the loop. Correct means: order is kept, a reply
  reaches the connection that asked, the lock sees a subsequence of what was
  commanded, the relay and the advertising become available again.
* *Clients of lock and keypad.* A notification names neither its command nor its
  session; an answer may be late, lost or doubled, a timeout does not say whether the
  command ran, and the clients outlive the link they were made for. Correct means: an
  answer is taken for the command it answers, a job reports success only when the
  device holds the key, frames go to the device of the call, a command is never
  relayed twice, and every call returns.

`PROJECT.json` lists the hazards one by one with the properties that cover them.

## Modules

| Module | Models |
|---|---|
| `LockSession` | `lock_session.cpp/.h`, whole |
| `Handoff` | what the session promises: an abstract specification it implements |
| `LockSessionProofs`, `HandoffProofs` | their theorems |
| `Wizard` | `pairing_ui.cpp/.h`, `background_job.h`, and from `switchbot_keypad_bridge.cpp` the applies, the idle shutdown and the Reset button |
| `LockProtocol` | `lock_protocol.cpp/.h`: what the bytes of a decrypted frame ask for |
| `Bridge` | from `switchbot_keypad_bridge.cpp` the callbacks, the queue, command handling, local responses and the relay task |
| `BridgeProofs` | theorems of `Bridge` and `LockProtocol` |
| `Adverts` | `keypad_advert.cpp`, `lock_advert.cpp`: operators on the bytes of an advert |
| `Links` | from `switchbot_keypad_bridge.cpp` `setup`, the flash records, `reset_pairing` and the applies, under power loss |
| `LinksProofs` | its theorems |
| `BatteryScan` | from `switchbot_keypad_bridge.cpp` the battery refresh, with what it shares with wizard, relay and Reset |
| `BatteryScanProofs` | theorems of `BatteryScan` and `Adverts` |
| `LockClient` | `physical_lock.cpp/.h`, `lock_linker.cpp/.h`, and the call that the relay task makes |
| `KeypadPairer` | `keypad_pairer.cpp/.h` |
| `WizardProofs`, `LockClientProofs`, `KeypadPairerProofs` | theorems of `Wizard`, `LockClient`, `KeypadPairer` |
| `MCLockSession`, `MCWizard`, `MCBridge`, `MCLinks`, `MCBatteryScan`, `MCLockClient` | small instances for TLC |

### LockSession

One action per way a call can end. `ResetTransport`, `Reset` and `RequestIv`
are the boundaries and the negotiation (`RequestRetried` repeats the pending IV,
`RequestFresh` draws one). `process_frame` of an encrypted frame is
`IgnoreFrame` (the early returns), `DropUndecryptable`, `DropSuperseded`,
`DropReplayed`, or one of `AcceptPending`, `AcceptActive`, `AcceptRetired`
according to the generation that its seq pair selects. Each action contains the
spending of the allowance and the end of the retired generation that the code
performs on the way to that return.

Keypad and radio are the environment: a frame may be encrypted under any IV ever
advertised and arrive late, twice or never, so `Frames` is every combination of
slot, advertised IV and command. Data is abstracted to what the code compares: an IV
is its position in the list of advertised ones, its first two bytes are the *seq
pair* and may coincide; decryption under another IV gives bytes of no known
command (`Unknown`); random 16-byte IVs do not repeat. The replay window holds the
commands: under one IV and key equal plaintexts are equal ciphertexts. Not
modelled: the length checks byte by byte (they are `IgnoreFrame` and
`DropUndecryptable`), and the credential index, which no property depends on.
The history variables `ivs`, `conn`, `epoch`, `executed` and `overlap` record what
happened for the properties; no guard of the code's behaviour reads them, except
`ivs`, which holds the content of IVs, and the bounds.

### Handoff

The session without its means: generations are offered one after the other, at most one
older one survives an offer, the newest may execute anything and is then alone, an older
one may execute one late command and is then gone, and any of them may lose its turn.
`LockSession!Live` and `LockSession!Log` are the mapping: which generations could still
execute an action, and what was executed. `STATE_POLL`s change nothing there, so a
session step is one step of `Handoff` or none. It is a safety specification: the session
owes its keypad no execution.

### Wizard

`http` is the one handler that `esp_http_server` runs at a time, split where other
tasks can interleave: the gates (`Request`), the cloud calls (`CloudFails`),
`start_job_` (`StartRefused`, `StartJob`) and the arming under `jobs_mu_` (`Arm`).
`pc` is the main loop: `LoopBegin` (the snapshot of `poll_jobs`), `Consume` for each
job, `Apply` (the pending applies), `StopIfIdle`, then `StopRequested` and `Stop`
for `httpd_stop`, which returns when the handler in progress has. `Reset` and
`ResetAborted` are the button. Keypad and lock follow the same code up to names,
so `Kinds` indexes both. `millis()` is a clock modulo `Wrap`; it may advance between
the evaluation of the argument of `stop_if_idle` and the load of the idle timer.
Keys are generation numbers.

Left out: sign-in, parsing, the listing pages (`Browse` stands for all of them) and
the cache of identified keypads, which only feeds a page: the family in a pairing
request is any family.

### Bridge

`Connect`, `Disconnect`, `Write` are the NimBLE callbacks; `LoopBegin`,
`ReadRelayResult`, `SwapQueue`, `TransportBoundary`, `DropFrame` and `HandleCommand` are the
main loop, with an interleaving point wherever another task's write can fall;
`Deliver`, `PostCommand`, `PostOk`, `PostFlag` and `RelayEnds` are the relay task, whose
two plain fields and flag are written one at a time. What the session makes of a
frame is any of its outcomes (`LockSession` says which). A frame carries the bytes that
decryption gives, and `LockProtocol!Type` decides, as `decode_lock_command` does, how it is
handled, answered and relayed. The keypad reconnects only
while the bridge advertises; NimBLE stops advertising on a connection, and does not
restart it by itself.

### Links

`flash` and `ram` have the same four records. `Save` stages a record in memory,
and a sync (`pc = "sync"`) moves staged records to flash one by one, in any order,
as ESPHome's preferences do (every record is saved as memory holds it, so `staged`
only names the records); `then` says where the main task goes on afterwards.
`PowerLoss` may fall between any two steps and leaves flash and the other devices.
`setup` is `PowerOn`, `RestoreLinks`, `Prepare`; `reset_pairing` is `Reset`
(rotate and sync), `ForgetLinks` or `ImportFails`, `Reopen`. `PairJob` and `LinkJob`
stand for the wizard's jobs: they provision the device with the wizard's key, and may
fail after that. Interleavings of the wizard itself are in `Wizard`: here a job ends
before the wizard closes. A write that fails without a power loss is not modelled.

### BatteryScan

The NimBLE callback reads the gate, the wants and the targets of the window one
after the other (`Advert`, `WantsKeypad`, `MatchKeypad`, `MatchLock`) while the main loop may
close the window. `pc` orders the refresh at the end of a pass; events of the pass
(links, idle shutdown, relays) and the Reset button fall while `pc` is `"rest"`. An
advert is the device it comes from, a sensor shows whose level it shows. Each pass
takes one tick of a clock modulo `Wrap`, compared as the code compares it. `OtherScan`
stands for the blocking scans of wizard and relay. A new link is applied in a later
pass than Reset; the exception, a job that survived Reset, is in `Wizard`.

### LockClient

One call at a time, `pc` says where it is: `direct`, `scan`, `fallback` are the attempts of
`connect_`, then `subscribe`, then `write`, `await`, `read` for each frame of the script of
the call, `leave` (unsubscribe, disconnect) and `verdict` (the checks of the linker). A link
job and a relay are the same loop over different scripts; a link job opens two sessions, the
first under the cloud key of the lock. The waiter is a binary semaphore and a value, taken
and read in two steps, because the callback may overwrite the value in between.
The lock is external: it serves the frames of its connection in order and may execute,
refuse or ignore each at any time, and it may notify `MaxStray` times what nobody asked for.
Ciphertext is what it tells apart: a payload read under the credential and session it was made
for is that reply; anything else is noise of the same length, and noise as long as a
lock-info reply may pass its check of one nibble. AES-GCM is not told from AES-CTR: neither
direction of the code authenticates a payload, and no property depends on the mode.
`Misjudged` are the locks whose address type `address_from_mac` guesses wrong.

`Bridge` and `Wizard` see a call of this module only as delivered / answered and as
succeeded / failed; they have the interleavings around it (a busy relay, a Reset during a
job), `LockClient` has what happens in it.

### KeypadPairer

`pc` follows `execute_`: `discover`, `free` (a keypad connected to the bridge's own service
is thrown off first), `connect`, `request` and `iv` for the session IV, `write` and `ack` for each
frame of the handshake of the requested family, `finish`. A frame is mandatory when the code
checks the result of its write. A wait that times out is not a failure. The keypad is
external: it keeps the family it has, whatever family the job was told, and it executes a frame
only under the IV of its session and in its own dialect. Keys are job numbers.

## Runs

| Run | Shows | Instance |
|---|---|---|
| `lock_session` | the eight invariants of the session over every order of requests, frames, reconnections and resets, and that it implements `Handoff` | 2 slots (one with Fast Unlock), 2 seq pairs, 3 IVs, 4 executed commands, 2 connections, 2 epochs, window of 2, `FewBoundaries` |
| `wizard` | invariants, at-most-once application, and that the first pairing is applied | 2 keypads, 1 lock, 2 jobs, 1 reset, clock modulo 4, idle timeout 2 |
| `bridge` | order, boundaries, replies, relay payloads, and that relay and advertising recover | 2 connections, 2 frames, each a lock, unlock, poll, doorbell or over-long lock frame |
| `links` | a forgotten keypad is locked out, links are durable, devices and bridge share one key, wherever power is lost | 2 keypads, 1 lock, 3 keys, 2 power losses, starting new, in use, or with a legacy lock record |
| `battery_scan` | the radio is not shared, windows keep their interval across the wrap, a linked lock's level is its own, windows keep coming | 1 keypad (its identity known or not), 2 locks, clock modulo 5, interval 2, retry 1 |
| `lock_client` | frames reach the lock of the call, answers are attributed, SUCCESS means the key is there, a command is relayed once and in order, every call returns | 2 locks (the address of one is misjudged), 2 keys, 2 calls of either kind, 1 unsolicited notification |
| `keypad_pairer` | SUCCESS means every mandatory frame reached the keypad under its IV; one frame at a time | 2 jobs of either family, keypad of either family, 2 waits for the IV |
| `wizard_one_shot`, `wizard_reset`, `wizard_link`, `bridge_result`, `battery_keypad` | each a disagreement between the code and its documentation (below) | as above |

Why the bounds are enough. Session: a hand-off involves at most three generations
(retired, active, pending), a slot change and a reset are one epoch step each, and
an ordering violation needs two executed commands; the allowance is per
connection, so two connections show its revocation. The seq pairs are symmetric (they
are only compared). Four executed commands wrap a window of two and leave it again;
`FewBoundaries` explores a third and fourth command only with few generations and
boundaries, where the window is the question. Wizard: at most one job of a kind runs, and a stale job needs one
predecessor; two keypads suffice to mix up the data of two jobs; clock 4 with timeout
2 has ticks before, at and after the timeout and a wrap. Bridge: a reordering or a
lost update needs two events; two connections make a reply able to go astray. Links:
three keys allow two resets after the first link, two power losses allow one to fall in
the repair of the other. Battery: an interval of two ticks and a clock modulo five put
deadlines before, at and after the wrap; two locks can be mixed up. Lock client: a stale cache or a stale
answer needs one earlier call, two keys tell a half of the old key from one of the new, two
locks can be mixed up, and the second call may be a link after a relay, a relay after a link,
or a link after a link. Keypad pairer: the same with two jobs; the IV loop is left after its
last wait or before it. The runs of `Links`, `LockClient` and `KeypadPairer` switch the deadlock
check off, and only they: when the bounded keys, jobs or calls are used up, the system rests.

Fairness. `Wizard`, `Bridge` and `BatteryScan` assume that the main loop keeps running (ESPHome
calls `loop()` for ever), that a handler in a cloud call gets an answer or times out
(the HTTP client has timeouts), and that the relay task proceeds (each BLE operation
in `physical_lock.cpp` has a timeout), that a scan has a duration, and that
`scan->start()` does not fail for ever. `LockClient` assumes that the task of a call is scheduled
and that each of its BLE operations returns (NimBLE and the semaphore waits have timeouts), and
nothing of the lock; `KeypadPairer` states no fairness. No fairness is assumed of the keypad, the
browser, the button, or the job tasks. `TimelySpec`, used by the `wizard_*` violation
runs, restricts the environment (a job outlasts a pass of the loop but not the idle
timeout), so that their counterexamples do not rest on absurd timing.

Every property was also confirmed to fail under a plausible slip in a definition it
depends on; the slips are the `X_Y` operators, paired with properties under
`mutants` in `PROJECT.json`.

## Where code and documentation disagree

* `PairingIsOneShot`: `pairing_ui.cpp:550-552` calls pairing a one-shot, but the gate
  is read before the cloud calls and not again before the job starts.
* `ResetForgetsLinks`: `README.md:138-140` says Reset forgets keypad and lock, but a
  job that succeeded and was not polled before the wizard closed stays armed and
  is applied, with the old key, as soon as Reset reopens the wizard.
* `LinkApplied`: `pairing_ui.h:91-94` says a link that completes after the browser
  disappeared is still applied, but `stop_if_idle` can close the server under a
  request (an unsigned underflow of the idle time, or the window between its check
  and `httpd_stop`), and nobody polls while it is closed.
* `RelayResultStable`: `switchbot_keypad_bridge.h:271-273` says the outcome fields are
  stable between flag and consumption, but the busy flag is cleared independently,
  so the next relay overwrites them.
* `BatteryOfLinkedKeypad`: `README.md:259` calls the sensor that of the linked keypad.
  Reset leaves a pending level behind: the next pass publishes it with nothing linked
  and stores the forgotten MAC again. The callback can also catch the window between
  the reset of `battery_scan_keypad_known_` and its own earlier read of the wants: it then
  adopts any keypad in range. (TLC finds the first; with Reset disabled, the second, by a
  relay that closes the window.)

Two more were met and have no run. `README.md:200` says side-effecting payloads are mirrored to
the lock; one that arrives while a relay is in flight is not (`HandleBusy` in `Bridge`, which
answers it locally, as the log line of `switchbot_keypad_bridge.cpp:648` says). And
`keypad_pairer.h:49-51` says that the advertisement read at discovery drives the dialect of the
pairing; `keypad_pairer.cpp:201` takes the family of the request and only logs the other, so a
job told the wrong family ends in SUCCESS although the keypad understood nothing of it:
`PairedMeansKeyWritten` claims the key on the keypad only when the families agree.

A SUCCESS of either job is weaker than it reads. `PairedMeansKeyWritten` needs a keypad that
answers in time (an acknowledgement is never inspected, and its absence is accepted), and
`LinkedMeansKeyHeld` needs that no notification replaced an unread one, because only the length
and one nibble of the verification payload are checked. TLC finds the counterexamples when those
conditions are dropped.

## Proofs

Every invariant and every action property that a passing run checks is also a theorem,
for all values of the constants; what the runs alone show is liveness (below).

`LockSessionProofs` proves the session's eight invariants for every set of slots,
seq pairs, command types and methods, every window size and every bound: types,
distinct generations, epochs as boundaries, no stranded IV, the order of commands,
the conditions of a late action, the IV of responses, and the replay window. The assumptions are the
`ASSUME`s of `LockSession`: the window is not empty, `UNKNOWN`, `STATE_POLL` and `UNLOCK`
are command types, the Vision slot is a slot and "no slot" is not, bounds are numbers.

The properties are not inductive by themselves. `IInv` adds: `EpochsOrdered`
(advertised IVs belong to this epoch or an earlier one), `NewestLive` (the pending IV,
or else the active one, is the last advertised), `Allowance` (an allowance exists only
on the Vision slot, in a hand-off, in the connection that began it, within the
poll budget) and `ExecutedBefore` (what ran belongs to generations not after the live
ones; a generation that acted late has no allowance left). The proof has one lemma per
operator on contexts, one per way a frame can end, one per request, and derives each
theorem from `IInv` and a lemma about one step.

`ReplayWindowHolds` relates two entries of the log, the code compares a command with a
ring of its own. `WindowsRemember` is what connects them: an action of a live
generation that `later` newer actions of it follow, `later` below the size of the window, stands
`later` places behind the one just behind the head. Recording an action moves the head and
counts one more for each older action, so their places stay (`RingStep`), and it overwrites
the one that leaves the window. A promotion takes the ring along, `retired` keeps that of
`active`, and a fresh context owes nothing, because `ExecutedBefore` says that nothing ran
under its IV. An admitted action is in no place of its ring, so a full window ran since
(`AdmittedOutsideWindow`).

`LinksProofs` proves the four properties of the run `links` for all sets of keypads and
locks, any number of resets and any number of power losses. The assumption is
`LinksAssumption`: keypads, locks and the two markers of a record are distinct, the
bounds are numbers. The argument follows one key through its life:

* `Mirrored`: a record that is not staged is in flash as it is in memory. With an empty
  `staged` at rest this is `RestIsDurable`; without it nothing that is known of
  memory would carry over a power loss.
* `Phases`: what a sync is for says which records it writes. The key is only ever
  written alone, before the links; this is the order the code must keep.
* `FreshKey`: a rotated key has never been linked until setup or reset is over.
  `ForgottenKeypadLockedOut` follows where the key is written, and again where the name is
  cleared.
* `WizardOpen`: while the wizard is open session, memory and wizard have one key, and
  a finished job provisioned its device with it.
* `LinksHold`: links that are in flash are held by their devices under the key in
  flash, or `torn` says that the key was replaced under them.

There is one lemma per action, with one step per part of the invariant.

`HandoffProofs` proves that `LockSession` implements `Handoff` for all values of the constants,
from `IInv` and the mapping: initial states map to the initial state, and every action of the
session maps to a step of `Handoff` or to none. A fresh request maps to `Offer`: what survives
is the active generation, while it holds the allowance that it was just given. A retried
request changes nothing there. Boundaries, and dropped frames that cost an allowance, map to
`Withdraw` or to nothing; accepted polls to `Withdraw`, the other accepted commands to
`ExecuteNewest` or `ExecuteLate`, according to `NewestLive`.

`BridgeProofs` proves the five invariants of the run `bridge` for every set of plaintexts and
any number of connections and frames, from `PlaintextsAssumption` and `BoundsAssumption`. Its
`IInv` adds what the order rests on:

* `QueueInv`: at any moment events wait for one connection only, the latest; its CONNECT is
  the first of them, its DISCONNECT the last; and the boundaries told to the session, those
  that wait, and one if the bridge does not advertise, add up to two for each connection. This is
  where the decision of the code to restart advertising only from `loop()` bears the weight.
* `FramesOrdered`: handled, drained and queued frames are in the order of arrival.
* `RelayInv`: the busy flag is up exactly while the relay task exists, and the command of a
  task that has not sent yet is newer than all that the lock received.
* `StateInv`: the state is that of the last action handled.

`BridgeProofs` also proves that decoding (`LockProtocol`) is unambiguous for frames of any length
and bytes (the four tests of the decoder exclude each other, so their order does not matter),
and that the decoder reads within the frame and never yields the index -1 for an unlock frame.

`WizardProofs` proves the invariants of the run `wizard` and `AppliedOnce` for any keypads and
locks, any number of jobs and resets, and any idle timeout below the wrap of the clock. It
assumes that "no device" is none, `0 < IdleTimeout < Wrap`, and that the bounds are numbers. Its
`IInv`:

* `SameDevice`: a job id in the hands of the handler, armed, or copied by `poll_jobs` stands
  with the name of the device of that job, as long as the job was not replaced. The
  copy is taken under `jobs_mu_` and used after it, which is why the copy needs its own clause.
* `Reported`: the flag of the wizard is up exactly when the bridge has the link or the link is
  pending, and nothing is pending outside the pass that polled it. `FlagsAgree` is this at rest.
* `Reachable`: the loop goes on to close the server only with a keypad linked, and none of its
  remaining steps unlinks it; `SetupModeReachable` alone says nothing of `pc`.
* `UsedOnce`: a job whose success was taken is still armed at most with `notified` set, and a
  handler about to arm a job holds an id that nobody armed or took before.

`BatteryScanProofs` proves the invariants of the run `battery_scan` and `IntervalKept`, for any
devices and any interval less than half the wrap (`ScanAssumption`; the code has minutes against
49 days). Its `IInv`: `Exclusive` (an open window excludes wizard and relay, and the
scanner is used only in a window), `Aim` (a window that wants a lock is aimed at the linked
one), `Heard` (a level that waits is that of the linked lock; or no lock is linked and the
next pass takes the level before a new lock can be), and `Waiting` (until an
interval has passed, the next window is due exactly at its end, modulo the wrap). The
callback's reads race the loop, and `Aim` and `Heard` are what makes every order of them harmless
for the lock's sensor; for the keypad's they are not (`BatteryOfLinkedKeypad`). The same module has
the theorems about `Adverts`: for adverts of any length, battery levels are read within the
advert and encryption bits do not decide what a device is. The level of a lock is a percentage;
that of a keypad is only known to be below 128, because `parse_keypad_battery` does not
compare it with 100 (`README.md:259` calls the sensor a percentage).

`LockClientProofs` proves the five invariants of the run `lock_client` for any locks, keys and
number of calls, from `LocksAssumption` (the misjudged locks are locks, "no lock" is
none) and `BoundsAssumption`. `LinkedMeansKeyHeld` is proved for as long as at most one
notification came unasked, which is the instance of the run: with two it is false. The answer to
`half_1`, notified again, is taken for that to `half_2`, which the lock ignored; and a push is as
long as the reply to `info` and may pass its check of one nibble. The frames of a script have a
rank, the order in which a call writes them, and `IInv` says in terms of it:

* `Control`, `CacheMatches`: where a call is, how many responses it has read, and that the
  cache names the lock it is for. `ReachesConfiguredLock` follows.
* `FrameInv`, `ValueInv`: frames wait only at the lock of the call, in the order written, and the
  last notification answers a frame written before those that wait.
* `AttributionInv`: with nothing unasked, a frame is answered before the next is written: a
  timeout ends the call, so no later frame of it can meet the answer.
* `RelayInv`: until the relay frame of a call is executed, all that ran is of earlier calls.
* `KeyInv`, `LateInv`: what the answers sent and read so far say of the halves of the key in the
  lock; and if the first check (`ProvisionPlausible`) was deceived, that the stray notification is
  spent, answers are read one frame late, and none is left to deceive the second.

`KeypadPairerProofs` proves the three invariants of the run `keypad_pairer` for any number of jobs and
of waits for the IV (`TriesAssumption`: at least one). `IInv` has `Queue` and `OneIv` (all that waits
at the keypad is of this job, and a job draws one IV at most, so what it writes is encrypted under
that one), `MandatoryReached` (each mandatory frame up to the present one was delivered), and,
as long as nothing was late or unasked, `Undisturbed` (a frame waits only for its own
acknowledgement) and `KeyWritten` (the frames acknowledged so far were executed by a keypad
of the family of the request).

Only model-checked: all liveness properties (`PairingApplied`, `RelayReleased`, `AdvertisingResumes`,
`RefreshRecurs`, `CallsReturn`), since fairness and ENABLED are out of the reach of the proof
system, and the violation runs, which are counterexamples. Each `IInv` also passes TLC on the
instance of the run of its module.

## Not modelled

* The cloud client: HTTPS and JSON to an external service. `Wizard` models that a call fails.
* MAC conversion, and adverts as bytes in the state machines: `BatteryScan`, `LockClient` and
  `KeypadPairer` abstract an advert to the device that sent it. `Adverts` has the parsers as
  operators of their own, without a run: their theorems cover every advert.
* AES and the NimBLE wrappers: modelled by what they do where they are used.
* The sign-in and listing pages of the wizard, request parsing, the browser page, progress
  texts, logging, the configuration schema and its code generation: no state that a
  property depends on. This is why the wizard server is listed as partly modelled.
* Writes to flash that fail without a power loss, and the blocking time of `httpd_stop` and
  of flash writes: nothing in the code reacts to either.

## Plan

Every component with protocol state has a module, a run and theorems, and no safety property of a
run is left unproved. What could follow:

1. An abstract specification of a job of the wizard (offered, running, applied or lost) that
   `Wizard` implements, as `Handoff` is for the session.
2. `LinkedMeansKeyHeld` for any number of unsolicited notifications, under a condition on what they
   replace instead of on how many they are.
3. The composition of `Bridge` with `LockSession`: what the session makes of a frame is any of
   its outcomes in `Bridge` now.
