----------------------------- MODULE BatteryScan -----------------------------
(***************************************************************************)
(* The battery refresh of the bridge (switchbot_keypad_bridge.cpp): short  *)
(* scan windows for the advertisements of the linked keypad and lock, on   *)
(* the scanner that the wizard and the relay use too.                      *)
(*                                                                         *)
(* Two tasks: the main loop, and NimBLE's, whose callback reads the        *)
(* targets of the window one after the other while the main loop may close *)
(* it.  A tick of the clock is the time between two passes of the loop.    *)
(***************************************************************************)
EXTENDS Integers

CONSTANTS
  Keypads, Locks,    \* devices in range
  Sensors,           \* kinds that have a battery sensor configured
  LegacyLinks,       \* flash may hold a keypad linked before its MAC was stored
  Interval,          \* battery_scan_interval_ms_, in ticks
  Retry,             \* BATTERY_SCAN_RETRY_MS
  Soon,              \* from a new link to the next window (10 s keypad, 5 s lock)
  Wrap               \* millis() counts modulo Wrap (2^32 in the code)

Kinds == {"keypad", "lock"}
NoDevice == "none"
Devices == Keypads \cup Locks
Both(k, l) == [kind \in Kinds |-> IF kind = "keypad" THEN k ELSE l]
Nothing == Both(NoDevice, NoDevice)

ASSUME ScanAssumption ==
  /\ NoDevice \notin Devices /\ Keypads \cap Locks = {}
  /\ Sensors \subseteq Kinds /\ LegacyLinks \in BOOLEAN
  /\ {Interval, Retry, Soon} \subseteq Nat \ {0} /\ Wrap \in Nat
  /\ Retry <= Interval /\ Soon <= Interval /\ 2 * Interval < Wrap

VARIABLES
  now,                  \* millis()
  next_battery_scan_at,
  since,                \* history: ticks since a window was over or a link new, up to Interval
  pc,                   \* where the pass of the main loop is
  linked,               \* keypad_paired_, lock_linked_: the devices linked
  keypad_info,          \* keypad_info_: the MAC known of the keypad
  ui,                   \* the wizard: closed, opened in this pass, or open
  relay_busy,           \* lock_relay_busy_
  connected,            \* the keypad holds a connection
  active,               \* battery_scan_active_
  scanning,             \* isScanning(), and for whom
  wants, found,         \* battery_scan_wants_*_, *_battery_scan_found_
  target,               \* battery_scan_keypad_mac_ (if known), battery_scan_lock_mac_
  callback,             \* the NimBLE task in handle_battery_advert_
  pending,              \* *_battery_advert_pending_ and what comes with it
  shown                 \* whose level each sensor shows

clock == <<now, next_battery_scan_at, since>>
links == <<linked, keypad_info>>
others == <<ui, relay_busy, connected>>
window == <<active, scanning, wants, found, target>>
adverts == <<callback, pending>>
vars == <<clock, pc, links, others, window, adverts, shown>>

Idle == [pc |-> "idle", device |-> NoDevice]

\* setup(): the links come from flash; with no keypad the wizard opens.
Init ==
  /\ now \in 0 .. Wrap - 1 /\ next_battery_scan_at = (now + Retry) % Wrap /\ since = Interval
  /\ pc = "rest"
  /\ linked \in [Kinds -> Devices \cup {NoDevice}]
  /\ linked["keypad"] \notin Locks /\ linked["lock"] \notin Keypads
  /\ keypad_info \in {linked["keypad"]} \cup (IF LegacyLinks THEN {NoDevice} ELSE {})
  /\ ui = IF linked["keypad"] = NoDevice THEN "open" ELSE "closed"
  /\ relay_busy = FALSE /\ connected = FALSE
  /\ active = FALSE /\ scanning = "none" /\ wants = {} /\ found = {} /\ target = Nothing
  /\ callback = Idle /\ pending = Nothing /\ shown = Nothing

In_NoWrap(ticks) == now + ticks
In(ticks) == (now + ticks) % Wrap

\* stop_battery_scan_(), also when there is no window.
StopScan ==
  /\ active' = FALSE
  /\ scanning' = IF active THEN "none" ELSE scanning
  /\ wants' = {} /\ found' = {} /\ target' = Nothing

-----------------------------------------------------------------------------
(* The NimBLE task.                                                        *)

\* Outside our window the callback returns at once.
Advert(device) ==
  /\ scanning # "none" /\ active
  /\ callback = Idle
  /\ callback' = [pc |-> "wants", device |-> device]
  /\ UNCHANGED <<clock, pc, links, others, window, pending, shown>>

WantsKeypad ==
  /\ callback.pc = "wants"
  /\ callback' = [callback EXCEPT !.pc = IF "keypad" \in wants \ found
                                         THEN "match" ELSE "lock"]
  /\ UNCHANGED <<clock, pc, links, others, window, pending, shown>>

\* With no MAC known, the first keypad heard will do.
KeypadMatches ==
  IF target["keypad"] # NoDevice THEN callback.device = target["keypad"]
                                 ELSE callback.device \in Keypads

\* An advert need not carry a level.
MatchKeypad(parsed) ==
  /\ callback.pc = "match"
  /\ callback' = [callback EXCEPT !.pc = "lock"]
  /\ pending' = IF KeypadMatches /\ parsed
                THEN [pending EXCEPT !["keypad"] = callback.device] ELSE pending
  /\ UNCHANGED <<clock, pc, links, others, window, shown>>

MatchLock(parsed) ==
  /\ callback.pc = "lock"
  /\ callback' = Idle
  /\ pending' = IF "lock" \in wants \ found /\ callback.device = target["lock"] /\ parsed
                THEN [pending EXCEPT !["lock"] = callback.device] ELSE pending
  /\ UNCHANGED <<clock, pc, links, others, window, shown>>

\* A window elapses; a blocking scan of the wizard or the relay restarts the scanner.
ScanEnds ==
  /\ scanning # "none"
  /\ scanning' = "none"
  /\ UNCHANGED <<clock, pc, links, others, active, wants, found, target, adverts, shown>>

OtherScan ==
  /\ ui # "closed" \/ relay_busy
  /\ scanning' = "other"
  /\ UNCHANGED <<clock, pc, links, others, active, wants, found, target, adverts, shown>>

Connection ==
  /\ connected' = ~connected
  /\ UNCHANGED <<clock, pc, links, ui, relay_busy, window, adverts, shown>>

RelayEnds ==
  /\ relay_busy
  /\ relay_busy' = FALSE
  /\ UNCHANGED <<clock, pc, links, ui, connected, window, adverts, shown>>

-----------------------------------------------------------------------------
(* A pass of the main loop: links, idle shutdown and frames first, while   *)
(* pc is "rest" as between two passes; then the battery refresh.           *)

\* apply_pending_pairing_(): last_keypad_battery_ is cleared, the sensor is not.
ApplyPairing(keypad) ==
  /\ pc = "rest"
  /\ ui = "open" /\ linked["keypad"] = NoDevice
  /\ linked' = [linked EXCEPT !["keypad"] = keypad]
  /\ keypad_info' = keypad
  /\ next_battery_scan_at' = In(Soon) /\ since' = Interval
  /\ UNCHANGED <<now, pc, others, window, adverts, shown>>

\* apply_pending_lock_link_(): clear_lock_battery_() blanks the sensor.
ShownAfterLink_Kept == shown
ShownAfterLink == [shown EXCEPT !["lock"] = NoDevice]

ApplyLockLink(lock) ==
  /\ pc = "rest"
  /\ ui = "open" /\ linked["keypad"] # NoDevice /\ linked["lock"] = NoDevice
  /\ linked' = [linked EXCEPT !["lock"] = lock]
  /\ shown' = ShownAfterLink
  /\ next_battery_scan_at' = In(Soon) /\ since' = Interval
  /\ UNCHANGED <<now, pc, keypad_info, others, window, adverts>>

StopIfIdle ==
  /\ pc = "rest"
  /\ ui = "open" /\ linked["keypad"] # NoDevice
  /\ ui' = "closed"
  /\ UNCHANGED <<clock, pc, links, relay_busy, connected, window, adverts, shown>>

\* relay_to_lock_async_() stops the window before the task exists; started is FALSE
\* when the task could not be created.
WindowAtRelay_Kept == UNCHANGED window
WindowAtRelay == StopScan

Relay(started) ==
  /\ pc = "rest"
  /\ connected /\ linked["lock"] # NoDevice /\ ~relay_busy
  /\ WindowAtRelay
  /\ relay_busy' = started
  /\ UNCHANGED <<clock, pc, links, ui, connected, adverts, shown>>

Events ==
  \/ StopIfIdle
  \/ \E keypad \in Keypads : ApplyPairing(keypad)
  \/ \E lock \in Locks : ApplyLockLink(lock)
  \/ \E started \in BOOLEAN : Relay(started)

\* Time passes; then apply_pending_keypad_battery_(), apply_pending_lock_battery_(): each
\* takes its pending level under the mutex; an unknown MAC is learned with it.
ApplyBatteries ==
  /\ pc = "rest"
  /\ pc' = "finish"
  /\ now' = In(1)
  /\ since' = IF since < Interval THEN since + 1 ELSE since
  /\ LET heard == {kind \in Kinds : pending[kind] # NoDevice} IN
       /\ found' = found \cup heard
       /\ shown' = [kind \in Kinds |-> IF kind \in heard THEN pending[kind] ELSE shown[kind]]
       /\ keypad_info' = IF keypad_info = NoDevice THEN pending["keypad"] ELSE keypad_info
  /\ pending' = Nothing
  /\ UNCHANGED <<next_battery_scan_at, linked, others, active, scanning, wants, target,
                 callback>>

\* The window is over: the next one is a whole interval away.
WindowOver ==
  /\ StopScan
  /\ next_battery_scan_at' = In(Interval) /\ since' = 0
  /\ UNCHANGED now

\* maybe_finish_battery_scan_(): every target has reported.
Finish ==
  /\ pc = "finish"
  /\ pc' = "start"
  /\ IF active /\ wants \subseteq found THEN WindowOver ELSE UNCHANGED <<clock, window>>
  /\ UNCHANGED <<links, others, adverts, shown>>

-----------------------------------------------------------------------------
(* maybe_start_battery_scan_(), the end of the pass.                       *)

\* The signed difference of two readings of millis() is negative.
Before_Unsigned(t, u) == t < u
Before(t, u) == (t - u) % Wrap >= Wrap \div 2

PassEnds ==
  /\ pc = "start"
  /\ pc' = "rest"
  /\ ui' = IF ui = "fresh" THEN "open" ELSE ui
  /\ UNCHANGED <<links, relay_busy, connected, adverts, shown>>

\* The window elapsed with a target missing.
AtElapsed_Kept == /\ next_battery_scan_at' = In(Interval) /\ since' = 0
                  /\ UNCHANGED <<now, window>>
AtElapsed == WindowOver

WindowElapsed ==
  /\ PassEnds
  /\ active /\ scanning = "none"
  /\ AtElapsed

Due == ~Before(now, next_battery_scan_at)

NotDue ==
  /\ PassEnds
  /\ \/ active /\ scanning # "none"
     \/ ~active /\ ~Due
  /\ UNCHANGED <<clock, window>>

Wanted == {kind \in Sensors : linked[kind] # NoDevice}
BackgroundBleBusy == ui # "closed" \/ relay_busy \/ connected
MayOpen == Wanted # {} /\ ~BackgroundBleBusy /\ scanning = "none"

Defer ==
  /\ PassEnds
  /\ ~active /\ Due /\ ~MayOpen
  /\ next_battery_scan_at' = In(Retry)
  /\ UNCHANGED <<now, since, window>>

OpenWindow ==
  /\ PassEnds
  /\ ~active /\ Due /\ MayOpen
  /\ active' = TRUE /\ scanning' = "battery"
  /\ wants' = Wanted /\ found' = {}
  /\ target' = Both(keypad_info, linked["lock"])
  /\ UNCHANGED clock

\* scan->start() failed.
OpenFails ==
  /\ PassEnds
  /\ ~active /\ Due /\ MayOpen
  /\ StopScan
  /\ next_battery_scan_at' = In(Retry)
  /\ UNCHANGED <<now, since>>

\* The Reset button, between two passes.  Pending levels are not dropped; started is
\* FALSE when the port of the wizard could not be opened.
Reset(started) ==
  /\ pc = "rest"
  /\ ui = "closed"
  /\ StopScan
  /\ linked' = Nothing /\ keypad_info' = NoDevice /\ shown' = Nothing
  /\ ui' = IF started THEN "fresh" ELSE "closed"
  /\ UNCHANGED <<clock, pc, relay_busy, connected, adverts>>

Refresh ==
  \/ ApplyBatteries \/ Finish \/ WindowElapsed \/ NotDue \/ Defer \/ OpenWindow \/ OpenFails
Callback ==
  WantsKeypad \/ \E parsed \in BOOLEAN : MatchKeypad(parsed) \/ MatchLock(parsed)

Next ==
  \/ Events \/ Refresh
  \/ Callback \/ \E device \in Devices : Advert(device)
  \/ ScanEnds \/ OtherScan \/ Connection \/ RelayEnds
  \/ \E started \in BOOLEAN : Reset(started)

Spec == Init /\ [][Next]_vars

\* loop() is called for ever, a scan has a duration, and scan->start() does not fail
\* every time.
Fairness ==
  /\ WF_vars(Refresh)
  /\ WF_vars(Callback) /\ WF_vars(ScanEnds) /\ SF_vars(OpenWindow)
FairSpec == Spec /\ Fairness

-----------------------------------------------------------------------------
(* Properties.                                                             *)

LinkedDevices ==
  {f \in [Kinds -> Devices \cup {NoDevice}] : f["keypad"] \notin Locks /\ f["lock"] \notin Keypads}

\* Every variable has its type.
TypeOK ==
  /\ now \in 0 .. Wrap - 1 /\ next_battery_scan_at \in 0 .. Wrap - 1 /\ since \in 0 .. Interval
  /\ pc \in {"rest", "finish", "start"}
  /\ {linked, target, pending, shown} \subseteq LinkedDevices
  /\ keypad_info \in Keypads \cup {NoDevice}
  /\ ui \in {"closed", "fresh", "open"} /\ relay_busy \in BOOLEAN /\ connected \in BOOLEAN
  /\ active \in BOOLEAN /\ scanning \in {"none", "battery", "other"}
  /\ wants \subseteq Sensors /\ found \subseteq Kinds
  /\ callback \in [pc : {"idle", "wants", "match", "lock"}, device : Devices \cup {NoDevice}]

\* switchbot_keypad_bridge.cpp:376-378, 651-653, 849-856: while the wizard is open or a
\* relay is under way, no window is open and the scanner is not ours.
RadioExclusive == active \/ scanning = "battery" => ui = "closed" /\ ~relay_busy

\* README.md:261: a window opens at the earliest one interval after the last was over,
\* across the wrap of millis(), unless a device was linked meanwhile.
IntervalKept == [][~active /\ active' => since = Interval]_vars

\* README.md:260: while a lock is linked, its sensor shows no other lock's level.
LockBatteryOfLinkedLock ==
  linked["lock"] # NoDevice => shown["lock"] \in {NoDevice, linked["lock"]}

\* Nothing stands in the way of a window.
Quiet == ~BackgroundBleBusy /\ Wanted # {}

\* README.md:235-241: as long as nothing stands in the way, windows keep opening.
RefreshRecurs == <>[]Quiet => []<>(scanning = "battery")

\* README.md:259: "Battery percentage of the linked keypad".
BatteryOfLinkedKeypad == shown["keypad"] \in {NoDevice, linked["keypad"]}
=============================================================================
