------------------------- MODULE BatteryScanProofs -------------------------
(***************************************************************************)
(* Proofs about BatteryScan, for any devices, sensors and intervals and    *)
(* any width of the clock; and about Adverts, from which it takes its      *)
(* levels, for adverts of any length and content.                          *)
(***************************************************************************)
EXTENDS Adverts, BatteryScan, TLAPS

-----------------------------------------------------------------------------
(* The inductive invariant of the battery refresh.                         *)

\* An open window excludes the wizard and the relay, and the scanner is ours only then.
Exclusive ==
  /\ active => ui = "closed" /\ ~relay_busy
  /\ scanning = "battery" => active

\* A window is after the lock that is linked.
Aim ==
  /\ ~active => wants = {}
  /\ "lock" \in wants => linked["lock"] # NoDevice /\ target["lock"] = linked["lock"]

\* A level not applied yet is that of the linked lock, or the lock was unlinked and the
\* next pass takes the level before the wizard can link another.
Heard ==
  pending["lock"] # NoDevice =>
    \/ pending["lock"] = linked["lock"]
    \/ linked["lock"] = NoDevice /\ (ui = "closed" \/ (ui = "fresh" /\ pc = "rest"))

\* What is left of the interval since a window was over.
Remaining == Interval - since
Waiting == since < Interval => next_battery_scan_at = (now + Remaining) % Wrap

IInv == TypeOK /\ Exclusive /\ Aim /\ Heard /\ LockBatteryOfLinkedLock /\ Waiting

USE ScanAssumption
-----------------------------------------------------------------------------
(* Readings of a clock that wraps.                                         *)

LEMMA Clock ==
  ASSUME NEW x \in 0 .. Wrap - 1, NEW d \in 1 .. Interval
  PROVE  /\ (x + 1) % Wrap \in 0 .. Wrap - 1 /\ (x + d) % Wrap \in 0 .. Wrap - 1
         /\ (x + d) % Wrap = (((x + 1) % Wrap) + (d - 1)) % Wrap
         /\ Before(x, (x + d) % Wrap)
<1>1. /\ Wrap \in Nat \ {0} /\ Interval \in Nat \ {0} /\ 2 * Interval < Wrap
      /\ d \in Nat /\ 0 < d /\ d =< Interval /\ d - 1 \in Nat
  OBVIOUS
<1>2. ASSUME NEW y \in 0 .. Wrap - 1
      PROVE  y % Wrap = y /\ (y + Wrap) % Wrap = y
  BY <1>1
<1>3. CASE x + d < Wrap
  <2>1. (x + d) % Wrap = x + d /\ (x + 1) % Wrap = x + 1
    BY <1>1, <1>2, <1>3, x + d \in 0 .. Wrap - 1, x + 1 \in 0 .. Wrap - 1
  <2>2. (x - (x + d)) % Wrap = Wrap - d
    <3>1. \A n \in 1 .. Wrap - 1 : (-n) % Wrap = Wrap - n
      BY <1>1
    <3>2. x - (x + d) = -d /\ d \in 1 .. Wrap - 1
      BY <1>1
    <3> QED
      BY <3>1, <3>2
  <2>3. Wrap - d >= Wrap \div 2
    BY <1>1
  <2>4. (x + 1) + (d - 1) = x + d
    BY <1>1
  <2> QED
    BY <1>1, <1>3, <2>1, <2>2, <2>3, <2>4 DEF Before
<1>4. CASE x + d >= Wrap
  <2>1. PICK y \in 0 .. Wrap - 1 : y = x + d - Wrap
    BY <1>1, <1>4
  <2>2. (x + d) % Wrap = y
    BY <1>1, <1>2, <2>1, x + d = y + Wrap
  <2>3. (((x + 1) % Wrap) + (d - 1)) % Wrap = y
    <3>1. CASE x + 1 < Wrap
      <4>1. (x + 1) % Wrap = x + 1
        BY <1>2, <3>1, x + 1 \in 0 .. Wrap - 1
      <4>2. (x + 1) + (d - 1) = y + Wrap
        BY <1>1, <2>1
      <4> QED
        BY <1>2, <4>1, <4>2
    <3>2. CASE x + 1 >= Wrap
      <4>1. x + 1 = 0 + Wrap /\ y = d - 1
        BY <1>1, <2>1, <3>2
      <4>2. (0 + Wrap) % Wrap = 0
        BY <1>1, <1>2, 0 \in 0 .. Wrap - 1
      <4>3. 0 + (d - 1) = y
        BY <1>1, <4>1
      <4> QED
        BY <1>2, <4>1, <4>2, <4>3
    <3> QED
      BY <1>1, <3>1, <3>2
  <2>4. Before(x, y)
    <3>1. x - y = Wrap - d /\ Wrap - d \in 0 .. Wrap - 1
      BY <1>1, <2>1
    <3>2. (Wrap - d) % Wrap = Wrap - d
      BY <1>2, <3>1
    <3>3. Wrap - d >= Wrap \div 2
      BY <1>1
    <3> QED
      BY <3>1, <3>2, <3>3 DEF Before
  <2>5. (x + 1) % Wrap \in 0 .. Wrap - 1
    BY <1>1
  <2> QED
    BY <2>2, <2>3, <2>4, <2>5
<1> QED
  BY <1>1, <1>3, <1>4

LEMMA LaterOf ==
  ASSUME now \in 0 .. Wrap - 1, NEW d \in {1, Interval, Retry, Soon}
  PROVE  In(d) \in 0 .. Wrap - 1
<1>1. d \in 1 .. Interval
  OBVIOUS
<1> QED
  BY <1>1, Clock DEF In

-----------------------------------------------------------------------------
(* Types.                                                                  *)

\* TypeOK, part by part.
Times ==
  now \in 0 .. Wrap - 1 /\ next_battery_scan_at \in 0 .. Wrap - 1 /\ since \in 0 .. Interval
Names ==
  /\ linked \in LinkedDevices /\ target \in LinkedDevices
  /\ pending \in LinkedDevices /\ shown \in LinkedDevices
  /\ keypad_info \in Keypads \cup {NoDevice}
Flags ==
  /\ pc \in {"rest", "finish", "start"}
  /\ ui \in {"closed", "fresh", "open"} /\ relay_busy \in BOOLEAN /\ connected \in BOOLEAN
  /\ active \in BOOLEAN /\ scanning \in {"none", "battery", "other"}
  /\ wants \subseteq Sensors /\ found \subseteq Kinds
  /\ callback \in [pc : {"idle", "wants", "match", "lock"}, device : Devices \cup {NoDevice}]

LEMMA TypeParts == TypeOK <=> Times /\ Names /\ Flags
BY DEF TypeOK, Times, Names, Flags

LEMMA DevicesOf ==
  /\ Nothing \in LinkedDevices
  /\ \A f \in LinkedDevices :
       /\ f["keypad"] \in Keypads \cup {NoDevice} /\ f["lock"] \in Locks \cup {NoDevice}
       /\ \A d \in Keypads \cup {NoDevice} : [f EXCEPT !["keypad"] = d] \in LinkedDevices
       /\ \A d \in Locks \cup {NoDevice} : [f EXCEPT !["lock"] = d] \in LinkedDevices
  /\ \A k \in Keypads \cup {NoDevice}, l \in Locks \cup {NoDevice} :
       /\ Both(k, l) \in LinkedDevices
       /\ Both(k, l)["keypad"] = k /\ Both(k, l)["lock"] = l
<1>1. \A k \in Keypads \cup {NoDevice}, l \in Locks \cup {NoDevice} :
        /\ Both(k, l) \in LinkedDevices
        /\ Both(k, l)["keypad"] = k /\ Both(k, l)["lock"] = l
  BY DEF Both, LinkedDevices, Devices, Kinds
<1>2. Nothing \in LinkedDevices
  BY <1>1 DEF Nothing
<1>3. ASSUME NEW f \in LinkedDevices
      PROVE  /\ f["keypad"] \in Keypads \cup {NoDevice} /\ f["lock"] \in Locks \cup {NoDevice}
             /\ \A d \in Keypads \cup {NoDevice} : [f EXCEPT !["keypad"] = d] \in LinkedDevices
             /\ \A d \in Locks \cup {NoDevice} : [f EXCEPT !["lock"] = d] \in LinkedDevices
  BY DEF LinkedDevices, Devices, Kinds
<1> QED
  BY <1>1, <1>2, <1>3

\* What closes a window.
LEMMA StopOf ==
  ASSUME Flags, Exclusive, StopScan
  PROVE  /\ ~active' /\ wants' = {} /\ found' = {} /\ target' = Nothing
         /\ active' \in BOOLEAN /\ scanning' \in {"none", "other"}
BY DEF Flags, Exclusive, StopScan

LEMMA InitInv == Init => IInv
<1> SUFFICES ASSUME Init PROVE IInv
  OBVIOUS
<1>1. Times
  <2>1. now \in 0 .. Wrap - 1 /\ next_battery_scan_at = In(Retry)
    BY DEF Init, In
  <2> QED
    BY <2>1, LaterOf DEF Init, Times
<1>2. Names
  <2>1. linked \in LinkedDevices
    BY DEF Init, LinkedDevices
  <2>2. keypad_info \in Keypads \cup {NoDevice}
    BY <2>1, DevicesOf DEF Init
  <2> QED
    BY <2>1, <2>2, DevicesOf DEF Init, Names
<1>3. Flags
  <2>1. Idle \in [pc : {"idle", "wants", "match", "lock"}, device : Devices \cup {NoDevice}]
    BY DEF Idle
  <2> QED
    BY <2>1 DEF Init, Flags
<1>4. Exclusive /\ Aim /\ Waiting
  BY DEF Init, Exclusive, Aim, Waiting
<1>5. Nothing["lock"] = NoDevice
  BY DEF Nothing, Both, Kinds
<1>6. Heard /\ LockBatteryOfLinkedLock
  BY <1>5 DEF Init, Heard, LockBatteryOfLinkedLock
<1> QED
  BY <1>1, <1>2, <1>3, <1>4, <1>6, TypeParts DEF IInv

LEMMA TypesKept == IInv /\ [Next]_vars => TypeOK'
<1> SUFFICES ASSUME IInv, [Next]_vars PROVE Times' /\ Names' /\ Flags'
  BY TypeParts, PTL
<1>0. Times /\ Names /\ Flags /\ Exclusive
  BY TypeParts DEF IInv
<1>1. CASE \/ \E device \in Devices : Advert(device)
           \/ WantsKeypad \/ ScanEnds \/ OtherScan \/ Connection \/ RelayEnds \/ StopIfIdle
           \/ UNCHANGED vars
  <2>1. Times' /\ Names'
    BY <1>0, <1>1 DEF Advert, WantsKeypad, ScanEnds, OtherScan, Connection, RelayEnds, StopIfIdle,
       vars, clock, links, window, adverts, Times, Names
  <2>2. callback' \in [pc : {"idle", "wants", "match", "lock"}, device : Devices \cup {NoDevice}]
    BY <1>0, <1>1 DEF Advert, WantsKeypad, ScanEnds, OtherScan, Connection, RelayEnds, StopIfIdle,
       vars, adverts, Flags
  <2>3. /\ connected' \in BOOLEAN /\ relay_busy' \in BOOLEAN /\ active' \in BOOLEAN
        /\ scanning' \in {"none", "battery", "other"} /\ ui' \in {"closed", "fresh", "open"}
    BY <1>0, <1>1 DEF Advert, WantsKeypad, ScanEnds, OtherScan, Connection, RelayEnds, StopIfIdle,
       vars, window, others, Flags
  <2>4. UNCHANGED <<wants, found, pc>>
    BY <1>1 DEF Advert, WantsKeypad, ScanEnds, OtherScan, Connection, RelayEnds, StopIfIdle,
       vars, window
  <2> QED
    BY <1>0, <2>1, <2>2, <2>3, <2>4 DEF Flags
<1>2. ASSUME NEW parsed \in BOOLEAN, MatchKeypad(parsed) \/ MatchLock(parsed)
      PROVE  Times' /\ Names' /\ Flags'
  <2>1. pending' \in LinkedDevices
    <3>1. CASE MatchKeypad(parsed)
      <4>1. KeypadMatches => callback.device \in Keypads \cup {NoDevice}
        BY <1>0, DevicesOf DEF KeypadMatches, Names
      <4> QED
        BY <1>0, <3>1, <4>1, DevicesOf DEF MatchKeypad, Names
    <3>2. CASE MatchLock(parsed)
      BY <1>0, <3>2, DevicesOf DEF MatchLock, Names
    <3> QED
      BY <1>2, <3>1, <3>2
  <2>2. callback' \in [pc : {"idle", "wants", "match", "lock"}, device : Devices \cup {NoDevice}]
    BY <1>0, <1>2 DEF MatchKeypad, MatchLock, Idle, Flags
  <2> QED
    BY <1>0, <1>2, <2>1, <2>2
       DEF MatchKeypad, MatchLock, clock, links, others, window, Times, Names, Flags
<1>3. ASSUME NEW keypad \in Keypads, ApplyPairing(keypad) PROVE Times' /\ Names' /\ Flags'
  <2>1. linked' \in LinkedDevices
    BY <1>0, <1>3, DevicesOf DEF ApplyPairing, Names
  <2>2. next_battery_scan_at' \in 0 .. Wrap - 1
    BY <1>0, <1>3, LaterOf DEF ApplyPairing, Times
  <2> QED
    BY <1>0, <1>3, <2>1, <2>2
       DEF ApplyPairing, others, window, adverts, Times, Names, Flags
<1>4. ASSUME NEW lock \in Locks, ApplyLockLink(lock) PROVE Times' /\ Names' /\ Flags'
  <2>1. linked' \in LinkedDevices /\ shown' \in LinkedDevices
    BY <1>0, <1>4, DevicesOf DEF ApplyLockLink, ShownAfterLink, Names
  <2>2. next_battery_scan_at' \in 0 .. Wrap - 1
    BY <1>0, <1>4, LaterOf DEF ApplyLockLink, Times
  <2> QED
    BY <1>0, <1>4, <2>1, <2>2
       DEF ApplyLockLink, others, window, adverts, Times, Names, Flags
<1>5. ASSUME NEW started \in BOOLEAN, Relay(started) PROVE Times' /\ Names' /\ Flags'
  <2>1. /\ wants' = {} /\ found' = {} /\ target' = Nothing /\ active' \in BOOLEAN
        /\ scanning' \in {"none", "other"}
    BY <1>0, <1>5, StopOf DEF Relay, WindowAtRelay
  <2> QED
    BY <1>0, <1>5, <2>1, DevicesOf DEF Relay, clock, links, adverts, Times, Names, Flags
<1>6. ASSUME NEW started \in BOOLEAN, Reset(started) PROVE Times' /\ Names' /\ Flags'
  <2>1. /\ wants' = {} /\ found' = {} /\ target' = Nothing /\ active' \in BOOLEAN
        /\ scanning' \in {"none", "other"}
    BY <1>0, <1>6, StopOf DEF Reset
  <2> QED
    BY <1>0, <1>6, <2>1, DevicesOf DEF Reset, clock, adverts, Times, Names, Flags
<1>7. CASE ApplyBatteries
  <2>1. shown' \in LinkedDevices
    <3>1. \A kind \in Kinds : shown'[kind] \in {pending[kind], shown[kind]}
      BY <1>7 DEF ApplyBatteries
    <3>2. shown' \in [Kinds -> Devices \cup {NoDevice}]
      BY <1>0, <1>7 DEF ApplyBatteries, Names, LinkedDevices
    <3> QED
      BY <1>0, <3>1, <3>2 DEF Names, LinkedDevices, Kinds
  <2>2. keypad_info' \in Keypads \cup {NoDevice} /\ pending' \in LinkedDevices
    BY <1>0, <1>7, DevicesOf DEF ApplyBatteries, Names
  <2>3. Times'
    <3>1. In(1) \in 0 .. Wrap - 1
      BY <1>0, LaterOf DEF Times
    <3> QED
      BY <1>0, <1>7, <3>1 DEF ApplyBatteries, Times
  <2>4. found' \subseteq Kinds
    BY <1>0, <1>7 DEF ApplyBatteries, Flags
  <2> QED
    BY <1>0, <1>7, <2>1, <2>2, <2>3, <2>4 DEF ApplyBatteries, others, Names, Flags
<1>8. ASSUME WindowOver
      PROVE  /\ Times' /\ wants' = {} /\ found' = {} /\ target' = Nothing /\ active' \in BOOLEAN
             /\ scanning' \in {"none", "other"}
  <2>1. In(Interval) \in 0 .. Wrap - 1
    BY <1>0, LaterOf DEF Times
  <2>2. Times'
    BY <1>0, <1>8, <2>1 DEF WindowOver, Times
  <2> QED
    BY <1>0, <1>8, <2>2, StopOf DEF WindowOver
<1>9. CASE Finish
  <2>1. CASE WindowOver
    BY <1>0, <1>8, <1>9, <2>1, DevicesOf DEF Finish, links, others, adverts, Names, Flags
  <2>2. CASE UNCHANGED <<clock, window>>
    BY <1>0, <1>9, <2>2
       DEF Finish, clock, links, others, window, adverts, Times, Names, Flags
  <2> QED
    BY <1>9, <2>1, <2>2 DEF Finish
<1>10. CASE PassEnds
  <2>1. /\ pc' = "rest" /\ ui' \in {"closed", "fresh", "open"}
        /\ UNCHANGED <<linked, keypad_info, relay_busy, connected, callback, pending, shown>>
    BY <1>0, <1>10 DEF PassEnds, links, adverts, Flags
  <2>2. CASE WindowElapsed
    BY <1>0, <1>8, <2>1, <2>2, DevicesOf DEF WindowElapsed, AtElapsed, Names, Flags
  <2>3. CASE NotDue
    BY <1>0, <2>1, <2>3 DEF NotDue, clock, window, Times, Names, Flags
  <2>4. CASE Defer
    <3>1. In(Retry) \in 0 .. Wrap - 1
      BY <1>0, LaterOf DEF Times
    <3> QED
      BY <1>0, <2>1, <2>4, <3>1 DEF Defer, window, Times, Names, Flags
  <2>5. CASE OpenWindow
    <3>1. target' \in LinkedDevices
      BY <1>0, <2>5, DevicesOf DEF OpenWindow, Names
    <3>2. wants' \subseteq Sensors
      BY <2>5 DEF OpenWindow, Wanted
    <3> QED
      BY <1>0, <2>1, <2>5, <3>1, <3>2 DEF OpenWindow, clock, Times, Names, Flags
  <2>6. CASE OpenFails
    <3>1. In(Retry) \in 0 .. Wrap - 1
      BY <1>0, LaterOf DEF Times
    <3>2. /\ wants' = {} /\ found' = {} /\ target' = Nothing /\ active' \in BOOLEAN
          /\ scanning' \in {"none", "other"}
      BY <1>0, <2>6, StopOf DEF OpenFails
    <3> QED
      BY <1>0, <2>1, <2>6, <3>1, <3>2, DevicesOf DEF OpenFails, Times, Names, Flags
  <2>7. WindowElapsed \/ NotDue \/ Defer \/ OpenWindow \/ OpenFails
    BY <1>10 DEF Next, Events, StopIfIdle, ApplyPairing, ApplyLockLink, Relay, Refresh,
       ApplyBatteries, Finish, Callback, WantsKeypad, MatchKeypad, MatchLock, Advert, ScanEnds,
       OtherScan, Connection, RelayEnds, Reset, vars, PassEnds
  <2> QED
    BY <2>2, <2>3, <2>4, <2>5, <2>6, <2>7
<1> QED
  BY <1>1, <1>2, <1>3, <1>4, <1>5, <1>6, <1>7, <1>9, <1>10
     DEF Next, Events, Refresh, Callback, WindowElapsed, NotDue, Defer, OpenWindow, OpenFails

-----------------------------------------------------------------------------
(* The window, the radio and the levels.                                   *)

LEMMA ExclusiveKept == IInv /\ [Next]_vars => Exclusive'
<1> SUFFICES ASSUME IInv, [Next]_vars PROVE Exclusive'
  OBVIOUS
<1>0. Flags /\ Exclusive
  BY TypeParts DEF IInv
<1>1. CASE UNCHANGED <<active, scanning, ui, relay_busy>>
  BY <1>0, <1>1 DEF Exclusive
<1>2. CASE \/ \E device \in Devices : Advert(device)
           \/ \E parsed \in BOOLEAN : MatchKeypad(parsed) \/ MatchLock(parsed)
           \/ \E keypad \in Keypads : ApplyPairing(keypad)
           \/ \E lock \in Locks : ApplyLockLink(lock)
           \/ WantsKeypad \/ Connection \/ ApplyBatteries \/ UNCHANGED vars
  BY <1>1, <1>2 DEF Advert, MatchKeypad, MatchLock, ApplyPairing, ApplyLockLink, WantsKeypad,
     Connection, ApplyBatteries, vars, others, window
<1>3. CASE ScanEnds \/ OtherScan \/ RelayEnds \/ StopIfIdle
  BY <1>0, <1>3 DEF ScanEnds, OtherScan, RelayEnds, StopIfIdle, others, window, Exclusive
<1>4. ASSUME ~active', scanning' # "battery" PROVE Exclusive'
  BY <1>4 DEF Exclusive
<1>5. CASE \/ \E started \in BOOLEAN : Relay(started) \/ Reset(started)
           \/ WindowElapsed \/ OpenFails
  BY <1>0, <1>4, <1>5, StopOf
     DEF Relay, WindowAtRelay, Reset, WindowElapsed, AtElapsed, WindowOver, OpenFails
<1>6. CASE Finish
  <2>1. CASE WindowOver
    BY <1>0, <1>4, <2>1, StopOf DEF WindowOver
  <2>2. CASE UNCHANGED window
    BY <1>1, <1>6, <2>2 DEF Finish, others, window
  <2> QED
    BY <1>6, <2>1, <2>2 DEF Finish
<1>7. CASE NotDue \/ Defer
  BY <1>0, <1>7 DEF NotDue, Defer, PassEnds, window, Exclusive
<1>8. CASE OpenWindow
  BY <1>8 DEF OpenWindow, PassEnds, MayOpen, BackgroundBleBusy, Exclusive
<1> QED
  BY <1>2, <1>3, <1>5, <1>6, <1>7, <1>8 DEF Next, Events, Refresh, Callback

LEMMA AimKept == IInv /\ [Next]_vars => Aim'
<1> SUFFICES ASSUME IInv, [Next]_vars PROVE Aim'
  OBVIOUS
<1>0. Names /\ Flags /\ Exclusive /\ Aim
  BY TypeParts DEF IInv
<1>1. CASE UNCHANGED <<active, wants, target, linked>>
  BY <1>0, <1>1 DEF Aim
<1>2. CASE \/ \E device \in Devices : Advert(device)
           \/ \E parsed \in BOOLEAN : MatchKeypad(parsed) \/ MatchLock(parsed)
           \/ WantsKeypad \/ Connection \/ ApplyBatteries \/ ScanEnds \/ OtherScan
           \/ RelayEnds \/ StopIfIdle \/ NotDue \/ Defer \/ UNCHANGED vars
  BY <1>1, <1>2 DEF Advert, MatchKeypad, MatchLock, WantsKeypad, Connection, ApplyBatteries,
     ScanEnds, OtherScan, RelayEnds, StopIfIdle, NotDue, Defer, PassEnds, vars, links, window
<1>3. ASSUME ~active', wants' = {} PROVE Aim'
  BY <1>3 DEF Aim
<1>4. CASE \/ \E started \in BOOLEAN : Relay(started) \/ Reset(started)
           \/ WindowElapsed \/ OpenFails
  BY <1>0, <1>3, <1>4, StopOf
     DEF Relay, WindowAtRelay, Reset, WindowElapsed, AtElapsed, WindowOver, OpenFails
<1>5. CASE Finish
  <2>1. CASE WindowOver
    BY <1>0, <1>3, <2>1, StopOf DEF WindowOver
  <2>2. CASE UNCHANGED window
    BY <1>1, <1>5, <2>2 DEF Finish, links, window
  <2> QED
    BY <1>5, <2>1, <2>2 DEF Finish
\* A link is applied while the wizard is open, when there is no window.
<1>6. CASE \/ \E keypad \in Keypads : ApplyPairing(keypad)
           \/ \E lock \in Locks : ApplyLockLink(lock)
  <2>1. ~active /\ UNCHANGED window
    BY <1>0, <1>6 DEF ApplyPairing, ApplyLockLink, Exclusive
  <2> QED
    BY <1>0, <2>1 DEF Aim, window
<1>7. CASE OpenWindow
  <2>1. target' = Both(keypad_info, linked["lock"]) /\ target'["lock"] = linked["lock"]
    BY <1>0, <1>7, DevicesOf DEF OpenWindow, Names
  <2> QED
    BY <1>7, <2>1 DEF OpenWindow, PassEnds, links, Wanted, Aim
<1> QED
  BY <1>2, <1>4, <1>5, <1>6, <1>7 DEF Next, Events, Refresh, Callback

LEMMA HeardKept == IInv /\ [Next]_vars => Heard'
<1> SUFFICES ASSUME IInv, [Next]_vars PROVE Heard'
  OBVIOUS
<1>0. Names /\ Flags /\ Aim /\ Heard
  BY TypeParts DEF IInv
<1>1. CASE UNCHANGED <<pending, linked, ui, pc>>
  BY <1>0, <1>1 DEF Heard
<1>2. CASE \/ \E device \in Devices : Advert(device)
           \/ \E started \in BOOLEAN : Relay(started)
           \/ WantsKeypad \/ Connection \/ ScanEnds \/ OtherScan \/ RelayEnds \/ UNCHANGED vars
  BY <1>1, <1>2 DEF Advert, Relay, WantsKeypad, Connection, ScanEnds, OtherScan, RelayEnds, vars,
     links, others, adverts
<1>3. ASSUME NEW parsed \in BOOLEAN, MatchKeypad(parsed) PROVE Heard'
  <2>1. pending'["lock"] = pending["lock"] /\ UNCHANGED <<linked, ui, pc>>
    BY <1>0, <1>3 DEF MatchKeypad, Names, LinkedDevices, Kinds, links, others
  <2> QED
    BY <1>0, <2>1 DEF Heard
\* A level is stored for the lock the window is after, which is the linked one.
<1>4. ASSUME NEW parsed \in BOOLEAN, MatchLock(parsed) PROVE Heard'
  <2>1. \/ pending' = pending
        \/ /\ "lock" \in wants /\ callback.device = target["lock"]
           /\ pending' = [pending EXCEPT !["lock"] = callback.device]
    BY <1>4 DEF MatchLock
  <2>2. pending'["lock"] = pending["lock"] \/ pending'["lock"] = linked["lock"]
    BY <1>0, <2>1 DEF Aim, Names, LinkedDevices, Kinds
  <2>3. UNCHANGED <<linked, ui, pc>>
    BY <1>4 DEF MatchLock, links, others
  <2> QED
    BY <1>0, <2>2, <2>3 DEF Heard
<1>5. CASE ApplyBatteries
  <2>1. pending'["lock"] = NoDevice
    BY <1>5, DevicesOf DEF ApplyBatteries, Nothing
  <2> QED
    BY <2>1 DEF Heard
<1>6. ASSUME NEW keypad \in Keypads, ApplyPairing(keypad) PROVE Heard'
  <2>1. linked'["lock"] = linked["lock"] /\ UNCHANGED <<pending, ui, pc>>
    BY <1>0, <1>6 DEF ApplyPairing, Names, LinkedDevices, Kinds, others, adverts
  <2> QED
    BY <1>0, <2>1 DEF Heard
<1>7. ASSUME NEW lock \in Locks, ApplyLockLink(lock) PROVE Heard'
  <2>1. ui = "open" /\ linked["lock"] = NoDevice /\ UNCHANGED pending
    BY <1>7 DEF ApplyLockLink, adverts
  <2>2. pending["lock"] = NoDevice
    BY <1>0, <2>1 DEF Heard
  <2> QED
    BY <2>1, <2>2 DEF Heard
<1>8. CASE StopIfIdle
  BY <1>0, <1>8 DEF StopIfIdle, links, adverts, Heard
<1>9. CASE Finish
  BY <1>0, <1>9 DEF Finish, links, others, adverts, Heard
<1>10. CASE WindowElapsed \/ NotDue \/ Defer \/ OpenWindow \/ OpenFails
  <2>1. PassEnds
    BY <1>10 DEF WindowElapsed, NotDue, Defer, OpenWindow, OpenFails
  <2> QED
    BY <1>0, <2>1 DEF PassEnds, links, adverts, Heard
<1>11. ASSUME NEW started \in BOOLEAN, Reset(started) PROVE Heard'
  <2>1. linked'["lock"] = NoDevice /\ UNCHANGED <<pending, pc>> /\ pc = "rest"
        /\ ui' \in {"fresh", "closed"}
    BY <1>11, DevicesOf DEF Reset, Nothing, adverts
  <2> QED
    BY <2>1 DEF Heard
<1> QED
  BY <1>2, <1>3, <1>4, <1>5, <1>6, <1>7, <1>8, <1>9, <1>10, <1>11
     DEF Next, Events, Refresh, Callback

LEMMA ShownKept == IInv /\ [Next]_vars => LockBatteryOfLinkedLock'
<1> SUFFICES ASSUME IInv, [Next]_vars PROVE LockBatteryOfLinkedLock'
  OBVIOUS
<1>0. Names /\ Flags /\ Heard /\ LockBatteryOfLinkedLock
  BY TypeParts DEF IInv
<1>1. CASE ApplyBatteries
  <2>1. shown'["lock"] = IF pending["lock"] # NoDevice THEN pending["lock"] ELSE shown["lock"]
    BY <1>1 DEF ApplyBatteries, Kinds
  <2> QED
    BY <1>0, <1>1, <2>1 DEF ApplyBatteries, Heard, LockBatteryOfLinkedLock
<1>2. ASSUME NEW lock \in Locks, ApplyLockLink(lock) PROVE LockBatteryOfLinkedLock'
  <2>1. shown'["lock"] = NoDevice
    BY <1>0, <1>2 DEF ApplyLockLink, ShownAfterLink, Names, LinkedDevices, Kinds
  <2> QED
    BY <2>1 DEF LockBatteryOfLinkedLock
<1>3. ASSUME NEW keypad \in Keypads, ApplyPairing(keypad) PROVE LockBatteryOfLinkedLock'
  <2>1. linked'["lock"] = linked["lock"] /\ UNCHANGED shown
    BY <1>0, <1>3 DEF ApplyPairing, Names, LinkedDevices, Kinds
  <2> QED
    BY <1>0, <2>1 DEF LockBatteryOfLinkedLock
<1>4. ASSUME NEW started \in BOOLEAN, Reset(started) PROVE LockBatteryOfLinkedLock'
  <2>1. linked'["lock"] = NoDevice
    BY <1>4, DevicesOf DEF Reset, Nothing
  <2> QED
    BY <2>1 DEF LockBatteryOfLinkedLock
<1>5. CASE \/ \E device \in Devices : Advert(device)
           \/ \E parsed \in BOOLEAN : MatchKeypad(parsed) \/ MatchLock(parsed)
           \/ \E started \in BOOLEAN : Relay(started)
           \/ WantsKeypad \/ Connection \/ ScanEnds \/ OtherScan \/ RelayEnds \/ StopIfIdle
           \/ Finish \/ WindowElapsed \/ NotDue \/ Defer \/ OpenWindow \/ OpenFails
           \/ UNCHANGED vars
  <2>1. UNCHANGED <<linked, shown>>
    BY <1>5 DEF Advert, MatchKeypad, MatchLock, Relay, WantsKeypad, Connection, ScanEnds, OtherScan,
       RelayEnds, StopIfIdle, Finish, WindowElapsed, NotDue, Defer, OpenWindow, OpenFails,
       PassEnds, vars, links
  <2> QED
    BY <1>0, <2>1 DEF LockBatteryOfLinkedLock
<1> QED
  BY <1>1, <1>2, <1>3, <1>4, <1>5 DEF Next, Events, Refresh, Callback

-----------------------------------------------------------------------------
(* The interval between two windows.                                       *)

\* Before the interval is over the next window is not due.
LEMMA NotDueYet ==
  ASSUME Times, Waiting, since < Interval
  PROVE  ~Due
<1>1. Remaining \in 1 .. Interval /\ next_battery_scan_at = (now + Remaining) % Wrap
  BY DEF Times, Waiting, Remaining
<1>2. PICK d \in 1 .. Interval : d = Remaining
  BY <1>1
<1>3. Before(now, (now + d) % Wrap)
  BY Clock DEF Times
<1> QED
  BY <1>1, <1>2, <1>3 DEF Due

LEMMA WaitingKept == IInv /\ [Next]_vars => Waiting'
<1> SUFFICES ASSUME IInv, [Next]_vars, since' < Interval PROVE Waiting'
  BY DEF Waiting
<1>0. Times /\ Waiting
  BY TypeParts DEF IInv
<1>1. CASE UNCHANGED clock
  BY <1>0, <1>1 DEF clock, Waiting, Remaining
<1>2. CASE WindowOver
  BY <1>2 DEF WindowOver, In, Waiting, Remaining
<1>3. CASE ApplyBatteries
  <2>1. /\ since < Interval /\ since' = since + 1 /\ now' = (now + 1) % Wrap
        /\ UNCHANGED next_battery_scan_at
    BY <1>0, <1>3 DEF ApplyBatteries, In, Times
  <2>2. PICK d \in 1 .. Interval : d = Remaining
    BY <1>0, <2>1 DEF Times, Remaining
  <2>3. Remaining' = d - 1
    BY <1>0, <2>1, <2>2 DEF Remaining, Times
  <2>4. (now + d) % Wrap = (((now + 1) % Wrap) + (d - 1)) % Wrap
    BY <1>0, Clock DEF Times
  <2>5. next_battery_scan_at' = (now' + Remaining') % Wrap
    BY <1>0, <2>1, <2>2, <2>3, <2>4 DEF Waiting
  <2> QED
    BY <2>5 DEF Waiting
<1>4. CASE Defer \/ OpenFails
  BY <1>0, <1>4, NotDueYet DEF Defer, OpenFails
<1>5. CASE \/ \E keypad \in Keypads : ApplyPairing(keypad)
           \/ \E lock \in Locks : ApplyLockLink(lock)
  BY <1>5 DEF ApplyPairing, ApplyLockLink
<1>6. CASE Finish \/ WindowElapsed
  BY <1>1, <1>2, <1>6 DEF Finish, WindowElapsed, AtElapsed
<1>7. CASE \/ \E device \in Devices : Advert(device)
           \/ \E parsed \in BOOLEAN : MatchKeypad(parsed) \/ MatchLock(parsed)
           \/ \E started \in BOOLEAN : Relay(started) \/ Reset(started)
           \/ WantsKeypad \/ Connection \/ ScanEnds \/ OtherScan \/ RelayEnds \/ StopIfIdle
           \/ NotDue \/ OpenWindow \/ UNCHANGED vars
  BY <1>1, <1>7 DEF Advert, MatchKeypad, MatchLock, Relay, Reset, WantsKeypad, Connection,
     ScanEnds, OtherScan, RelayEnds, StopIfIdle, NotDue, OpenWindow, vars
<1> QED
  BY <1>3, <1>4, <1>5, <1>6, <1>7 DEF Next, Events, Refresh, Callback

-----------------------------------------------------------------------------
(* The theorems about the battery refresh.                                 *)

LEMMA Invariance == Spec => []IInv
<1>1. IInv /\ [Next]_vars => IInv'
  BY TypesKept, ExclusiveKept, AimKept, HeardKept, ShownKept, WaitingKept DEF IInv
<1> QED
  BY InitInv, <1>1, PTL DEF Spec

\* switchbot_keypad_bridge.h:284-309: every variable keeps its type, and no step takes a lock for
\* a keypad or a keypad for a lock.
THEOREM TypeCorrect == Spec => []TypeOK
<1>1. IInv => TypeOK
  BY DEF IInv
<1> QED
  BY Invariance, <1>1, PTL

\* switchbot_keypad_bridge.cpp:376-378, 651-653, 849-856: while the wizard is open or a
\* relay is under way, no window is open and the scanner is not ours.
THEOREM RadioIsExclusive == Spec => []RadioExclusive
<1>1. IInv => RadioExclusive
  BY DEF IInv, Exclusive, RadioExclusive
<1> QED
  BY Invariance, <1>1, PTL

\* README.md:260: while a lock is linked, its sensor shows no other lock's level, although
\* a reset leaves a level that waits to be applied.
THEOREM LockBatteryIsOfLinkedLock == Spec => []LockBatteryOfLinkedLock
<1>1. IInv => LockBatteryOfLinkedLock
  BY DEF IInv
<1> QED
  BY Invariance, <1>1, PTL

\* README.md:261: a window opens at the earliest one interval after the last was over,
\* across the wrap of millis(), unless a device was linked meanwhile.
THEOREM WindowsAnIntervalApart == Spec => IntervalKept
<1> DEFINE A == ~active /\ active' => since = Interval
<1>1. IInv /\ [Next]_vars => A
  <2> SUFFICES ASSUME IInv, [Next]_vars, ~active, active' PROVE since = Interval
    OBVIOUS
  <2>0. Times /\ Flags /\ Exclusive /\ Waiting
    BY TypeParts DEF IInv
  <2>1. ~StopScan
    BY <2>0, StopOf
  <2>2. OpenWindow
    BY <2>1 DEF Next, Events, StopIfIdle, ApplyPairing, ApplyLockLink, Relay, WindowAtRelay,
       Refresh, ApplyBatteries, Finish, WindowOver, WindowElapsed, AtElapsed, NotDue, Defer,
       OpenFails, Callback, WantsKeypad, MatchKeypad, MatchLock, Advert, ScanEnds, OtherScan,
       Connection, RelayEnds, Reset, vars, window
  <2>3. Due
    BY <2>2 DEF OpenWindow
  <2> QED
    BY <2>0, <2>3, NotDueYet DEF Times
<1>2. IInv /\ [Next]_vars => [A]_vars
  BY <1>1
<1> QED
  BY Invariance, <1>2, PTL DEF Spec, IntervalKept

-----------------------------------------------------------------------------
(* Families and levels in adverts.                                         *)

Data == Seq(Byte)

LEMMA LevelOfByte ==
  \A byte \in Byte : LowBits(byte) \in 0 .. 127 /\ Percent(byte) \in -1 .. 100
BY DEF Byte, LowBits, Percent, NoLevel

LEMMA LevelsOf ==
  ASSUME NEW data \in Data, NEW n \in Nat \ {0}, Len(data) >= n
  PROVE  /\ LowBits(data[n]) \in 0 .. 127
         /\ Percent(data[n]) \in -1 .. 100
<1>1. data[n] \in Byte
  BY DEF Data
<1> QED BY <1>1, LevelOfByte

\* keypad_advert.cpp:70-84: whatever a keypad advertises, the level is read from bytes that
\* are there, or there is none.  It may exceed 100: unlike that of a lock, it is not
\* compared with 100.
THEOREM KeypadLevelInRange ==
  ASSUME NEW family \in Families, NEW service \in Data, NEW manufacturer \in Data
  PROVE  KeypadLevel(family, service, manufacturer) \in -1 .. 127
<1>1. Len(service) \in Nat /\ Len(manufacturer) \in Nat
  BY DEF Data
<1>2. Len(service) >= 3 => LowBits(service[3]) \in 0 .. 127
  BY LevelsOf, 3 \in Nat \ {0}, 10 \in Nat \ {0}
<1>3. Len(manufacturer) >= 10 => LowBits(manufacturer[10]) \in 0 .. 127
  BY LevelsOf, 3 \in Nat \ {0}, 10 \in Nat \ {0}
<1>4. CASE family = "ORIGINAL"
  BY <1>2, <1>4 DEF KeypadLevel, NoLevel
<1>5. CASE family = "VISION"
  BY <1>3, <1>5 DEF KeypadLevel, NoLevel
<1> QED BY <1>4, <1>5 DEF Families

\* lock_advert.cpp:8-36: whatever a lock advertises, the level is a percentage read from
\* bytes that are there, or there is none.
THEOREM LockLevelIsPercentage ==
  ASSUME NEW model \in Models, NEW service \in Data, NEW manufacturer \in Data
  PROVE  LockLevel(model, service, manufacturer) \in -1 .. 100
<1>1. Len(service) \in Nat /\ Len(manufacturer) \in Nat
  BY DEF Data
<1>2. Len(service) >= 3 => Percent(service[3]) \in -1 .. 100
  BY LevelsOf, 3 \in Nat \ {0}, 10 \in Nat \ {0}
<1>3. Payload(manufacturer) \in Data
  BY <1>1 DEF Payload, Data
<1>4. Len(Payload(manufacturer)) >= 10 => Percent(Payload(manufacturer)[10]) \in -1 .. 100
  BY <1>3, LevelsOf, 10 \in Nat \ {0}
<1>5. CASE model \in OnServiceData
  <2>1. model \notin OnManufacturerData
    BY <1>5 DEF OnServiceData, OnManufacturerData
  <2> QED BY <1>2, <1>5, <2>1 DEF LockLevel, NoLevel
<1>6. CASE model \in OnManufacturerData
  <2>1. model \notin OnServiceData
    BY <1>6 DEF OnServiceData, OnManufacturerData
  <2> QED BY <1>4, <1>6, <2>1 DEF LockLevel, NoLevel
<1>7. CASE model = "UNKNOWN"
  BY <1>7 DEF LockLevel, NoLevel, OnServiceData, OnManufacturerData
<1> QED BY <1>5, <1>6, <1>7 DEF Models

\* Service data that differ in encryption bits only: the high bit of the first byte, and
\* the bytes where a Vision suffix has its bit.
Encrypted(service, other) ==
  /\ Len(other) = Len(service)
  /\ LowBits(other[1]) = LowBits(service[1])
  /\ \A i \in 2 .. Len(service) :
       \/ other[i] = service[i]
       \/ i \in {Len(service) - 3, Len(service) - 4} /\ {other[i], service[i]} \subseteq {0, 1}

\* keypad_advert.cpp:42-68: the encryption bits decide neither whether a device is a keypad
\* nor which family it is, although the two windows that are searched for a suffix overlap.
THEOREM EncryptionBitsIgnored ==
  ASSUME NEW service \in Data, NEW other \in Data, Encrypted(service, other)
  PROVE  /\ IsKeypad(other) <=> IsKeypad(service)
         /\ Family(other) = Family(service)
<1>1. /\ Len(service) \in Nat /\ Len(other) = Len(service)
      /\ DOMAIN service = 1 .. Len(service) /\ DOMAIN other = 1 .. Len(service)
  BY DEF Encrypted, Data
<1>2. HasTypeByte(other) <=> HasTypeByte(service)
  <2>1. other = <<>> <=> service = <<>>
    BY <1>1 DEF Data
  <2> QED BY <2>1 DEF Encrypted, HasTypeByte
<1>3. ASSUME Len(service) > 5, NEW first \in {Len(service) - 3, Len(service) - 4}
      PROVE  SuffixAt(other, first) <=> SuffixAt(service, first)
  <2>1. /\ first \in 2 .. Len(service) /\ first + 1 \in 2 .. Len(service)
        /\ first + 2 \in 2 .. Len(service) /\ first + 3 \in 2 .. Len(service)
    <3>1. \A n \in Nat : n > 5 =>
            \A f \in {n - 3, n - 4} :
              f \in 2 .. n /\ f + 1 \in 2 .. n /\ f + 2 \in 2 .. n /\ f + 3 \in 2 .. n
      OBVIOUS
    <3> QED BY <1>1, <1>3, <3>1
  <2>2. other[first] \in {0, 1} <=> service[first] \in {0, 1}
    BY <2>1 DEF Encrypted
  <2>3. other[first + 2] = service[first + 2] /\ other[first + 3] = service[first + 3]
    <3>1. /\ first + 2 \notin {Len(service) - 3, Len(service) - 4}
          /\ first + 3 \notin {Len(service) - 3, Len(service) - 4}
      <4>1. \A n \in Nat : \A f \in {n - 3, n - 4} :
              f + 2 \notin {n - 3, n - 4} /\ f + 3 \notin {n - 3, n - 4}
        OBVIOUS
      <4> QED BY <1>1, <1>3, <4>1
    <3> QED BY <2>1, <3>1 DEF Encrypted
  <2>4. other[first + 1] = service[first + 1] \/ {other[first + 1], service[first + 1]} \subseteq {0, 1}
    BY <2>1 DEF Encrypted
  <2> QED BY <2>2, <2>3, <2>4 DEF SuffixAt, VisionSuffixes
<1>4. HasVisionSuffix(other) <=> HasVisionSuffix(service)
  BY <1>1, <1>3 DEF HasVisionSuffix
<1> QED BY <1>2, <1>4 DEF IsKeypad, Family
=============================================================================
