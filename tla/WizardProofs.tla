---------------------------- MODULE WizardProofs ----------------------------
(***************************************************************************)
(* Proofs about Wizard, for any devices, any number of jobs and resets,    *)
(* and any width of the clock.                                             *)
(***************************************************************************)
EXTENDS Wizard, TLAPS

Names == Keypads \cup Locks \cup {NoDevice}

-----------------------------------------------------------------------------
(* The inductive invariant.                                                *)

\* The job a request, an armed poll or a snapshot of it refers to is of its device.
SameDevice ==
  /\ http.stage = "arm" =>
       http.job # NoJob /\ job[http.kind].id = http.job /\ job[http.kind].device = http.device
  /\ \A k \in Kinds :
       /\ armed[k].job # NoJob /\ armed[k].job = job[k].id => armed[k].name = job[k].device
       /\ snapshot[k].job # NoJob /\ snapshot[k].job = job[k].id =>
            snapshot[k].name = job[k].device
       /\ pending[k].name = pending[k].device /\ bridge[k].name = bridge[k].device

\* What poll_jobs() reported is applied in the same pass, and until then the wizard alone
\* takes the device for linked.
Reported ==
  /\ \A k \in Kinds : linked[k] <=> Linked(k) \/ pending[k] # NoLink
  /\ pc \notin {"lock", "apply"} => \A k \in Kinds : pending[k] = NoLink

\* With no keypad linked the server runs, or could not be started; only with one is it
\* stopped.
Reachable ==
  /\ ~Linked("keypad") => server \/ start_failed
  /\ pc \in {"idle", "stopping", "stop"} => Linked("keypad")

\* The jobs that were applied or are about to be.
Used == applied \cup ({pending[k].job : k \in Kinds} \ {NoJob})

\* A used job is not armed any more, nor will it be.
UsedOnce ==
  /\ http.stage = "arm" => http.job \notin Used /\ \A k \in Kinds : armed[k].job # http.job
  /\ \A k \in Kinds : armed[k].job \in Used => armed[k].notified
  /\ armed["keypad"].job = armed["lock"].job => armed["lock"].job = NoJob

IInv == TypeOK /\ SameDevice /\ Reported /\ Reachable /\ UsedOnce

USE DevicesAssumption, ClockAssumption, BoundsAssumption
-----------------------------------------------------------------------------
(* Types.                                                                  *)

\* The types of jobs, links and the rest name the numbers drawn so far, which only grow.
LEMMA Growing ==
  ASSUME NEW n \in Nat, NEW m \in Nat, n =< m
  PROVE  0 .. n \subseteq 0 .. m /\ 1 .. n \subseteq 1 .. m
OBVIOUS

JobsOf(n, key_) ==
  [state : {"IDLE", "RUNNING", "SUCCESS", "FAILED"}, id : 0 .. n, device : Names,
   family : Families, key : 0 .. key_]
LinksOf(n, key_) ==
  [job : 0 .. n, name : Names, device : Names, family : Families, key : 0 .. key_]
ArmedOf(n) == [job : 0 .. n, name : Names, notified : BOOLEAN]
RequestsOf(n) ==
  [stage : {"none", "cloud", "arm"}, kind : Kinds, family : Families, device : Names,
   job : 0 .. n]
SnapshotsOf(n) == [job : 0 .. n, name : Names]

LEMMA RecordsGrow ==
  ASSUME NEW n \in Nat, NEW m \in Nat, n =< m, NEW a \in Nat, NEW b \in Nat, a =< b
  PROVE  /\ JobsOf(n, a) \subseteq JobsOf(m, b) /\ LinksOf(n, a) \subseteq LinksOf(m, b)
         /\ ArmedOf(n) \subseteq ArmedOf(m) /\ RequestsOf(n) \subseteq RequestsOf(m)
         /\ SnapshotsOf(n) \subseteq SnapshotsOf(m)
<1>1. 0 .. n \subseteq 0 .. m /\ 0 .. a \subseteq 0 .. b
  OBVIOUS
<1>2. JobsOf(n, a) \subseteq JobsOf(m, b)
  BY <1>1 DEF JobsOf
<1>3. LinksOf(n, a) \subseteq LinksOf(m, b)
  BY <1>1 DEF LinksOf
<1>4. ArmedOf(n) \subseteq ArmedOf(m)
  BY <1>1 DEF ArmedOf
<1>5. RequestsOf(n) \subseteq RequestsOf(m)
  BY <1>1 DEF RequestsOf
<1>6. SnapshotsOf(n) \subseteq SnapshotsOf(m)
  BY <1>1 DEF SnapshotsOf
<1> QED
  BY <1>2, <1>3, <1>4, <1>5, <1>6

\* TypeOK, part by part.
Clocks ==
  now \in 0 .. Wrap - 1 /\ last_activity \in 0 .. Wrap - 1 /\ now_ms \in 0 .. Wrap - 1
Flags ==
  /\ server \in BOOLEAN /\ start_failed \in BOOLEAN
  /\ linked \in [Kinds -> BOOLEAN] /\ family \in Families
Counts == key \in Nat /\ ui_key \in 1 .. key /\ jobs \in Nat /\ applied \subseteq 1 .. jobs
Records ==
  /\ job \in [Kinds -> JobsOf(jobs, key)] /\ armed \in [Kinds -> ArmedOf(jobs)]
  /\ http \in RequestsOf(jobs) /\ snapshot \in [Kinds -> SnapshotsOf(jobs)]
  /\ pending \in [Kinds -> LinksOf(jobs, key)] /\ bridge \in [Kinds -> LinksOf(jobs, key)]
Place == pc \in {"rest", "keypad", "lock", "apply", "idle", "stopping", "stop"}

LEMMA TypeParts == TypeOK <=> Clocks /\ Flags /\ Counts /\ Records /\ Place
BY DEF TypeOK, Clocks, Flags, Counts, Records, Place, Jobs, Links, JobsOf, LinksOf, ArmedOf,
   RequestsOf, SnapshotsOf, Names

LEMMA InitInv == Init => IInv
<1> SUFFICES ASSUME Init PROVE IInv
  OBVIOUS
<1>1. 1 \in 0 .. Wrap - 1 /\ 0 \in 0 .. Wrap - 1 /\ Wrap - 1 \in Nat
  BY DEF Init
<1>2. ASSUME NEW k \in Kinds
      PROVE  /\ bridge[k] \in LinksOf(0, 1) /\ bridge[k].name = bridge[k].device
             /\ bridge[k].job = NoJob
  <2>1. bridge[k] \in StoredLinks(k)
    BY DEF Init, Kinds
  <2>2. Devices(k) \subseteq Names /\ NoDevice \in Names
    BY DEF Devices, Names
  <2>3. 0 \in 0 .. 0 /\ 0 \in 0 .. 1 /\ 1 \in 0 .. 1
    OBVIOUS
  <2> QED
    BY <2>1, <2>2, <2>3 DEF StoredLinks, StoredLink, NoLink, LinksOf, Families, NoJob
<1>3. bridge \in [Kinds -> LinksOf(0, 1)]
  <2>1. bridge \in [{"keypad", "lock"} -> {bridge["keypad"], bridge["lock"]}]
    BY DEF Init
  <2> QED
    BY <1>2, <2>1 DEF Kinds
<1>4. Clocks /\ Counts /\ Place
  BY <1>1 DEF Init, Clocks, Counts, Place
<1>5. Flags
  <2>1. linked \in [Kinds -> BOOLEAN]
    BY DEF Init, Linked
  <2>2. start_failed \in BOOLEAN
    BY DEF Init
  <2>3. family \in Families
    BY <1>3 DEF Init, LinksOf, Kinds
  <2> QED
    BY <2>1, <2>2, <2>3 DEF Init, Flags
<1>6. Records
  <2>1. NoDevice \in Names /\ 0 \in 0 .. 0 /\ 0 \in 0 .. 1 /\ "ORIGINAL" \in Families
    BY DEF Names, Families
  <2>2. /\ IdleJob \in JobsOf(0, 1) /\ NotArmed \in ArmedOf(0) /\ NoRequest \in RequestsOf(0)
        /\ NoSnapshot \in SnapshotsOf(0) /\ NoLink \in LinksOf(0, 1)
    BY <2>1 DEF IdleJob, NotArmed, NoRequest, NoSnapshot, NoLink, JobsOf, ArmedOf, RequestsOf,
       SnapshotsOf, LinksOf, Kinds, NoJob
  <2> QED
    BY <1>3, <2>2 DEF Init, Records
<1>7. SameDevice
  BY <1>2 DEF Init, SameDevice, NoRequest, NotArmed, NoSnapshot, NoLink, NoJob
<1>8. Reported
  <2>1. \A k \in Kinds : (linked[k] <=> Linked(k)) /\ pending[k] = NoLink
    BY DEF Init, Linked
  <2> QED
    BY <2>1 DEF Reported
<1>9. Reachable
  BY DEF Init, Reachable
<1>10. UsedOnce
  BY DEF Init, UsedOnce, Used, NoRequest, NotArmed, NoLink, NoJob, Kinds
<1> QED
  BY <1>4, <1>5, <1>6, <1>7, <1>8, <1>9, <1>10, TypeParts DEF IInv

\* What poll_jobs() hands over.
LEMMA OutcomeOf ==
  ASSUME TypeOK, SameDevice, NEW k \in Kinds, Observed(k)
  PROVE  /\ Outcome(k) \in LinksOf(jobs, key) /\ Outcome(k) # NoLink
         /\ Outcome(k).name = Outcome(k).device /\ Outcome(k).job = armed[k].job
         /\ armed[k].job \in 1 .. jobs /\ ~armed[k].notified
<1>1. /\ job[k] \in JobsOf(jobs, key) /\ snapshot[k] \in SnapshotsOf(jobs)
      /\ armed[k] \in ArmedOf(jobs) /\ jobs \in Nat
  BY TypeParts DEF Records, Counts
<1>2. /\ snapshot[k].job # NoJob /\ job[k].id = snapshot[k].job /\ armed[k].job = job[k].id
      /\ ~armed[k].notified
  BY DEF Observed
<1>3. snapshot[k].name = job[k].device
  BY <1>2 DEF SameDevice
<1>4. /\ Outcome(k).job = job[k].id /\ Outcome(k).name = job[k].device
      /\ Outcome(k).device = job[k].device
  BY <1>3 DEF Outcome
<1>5. Outcome(k) \in LinksOf(jobs, key)
  BY <1>1, <1>3 DEF Outcome, LinksOf, JobsOf
<1>6. Outcome(k) # NoLink
  BY <1>2, <1>4 DEF NoLink
<1> QED
  BY <1>1, <1>2, <1>4, <1>5, <1>6 DEF ArmedOf, NoJob

LEMMA TypesKept == IInv /\ [Next]_vars => TypeOK'
<1> SUFFICES ASSUME IInv, [Next]_vars PROVE Clocks' /\ Flags' /\ Counts' /\ Records' /\ Place'
  BY TypeParts, PTL
<1>0. Clocks /\ Flags /\ Counts /\ Records /\ Place /\ TypeOK /\ SameDevice
  BY TypeParts DEF IInv
<1>1. CASE Tick
  <2>1. Later \in 0 .. Wrap - 1
    BY <1>0 DEF Later, Clocks
  <2> QED
    BY <1>0, <1>1, <2>1 DEF Tick, Clocks, Flags, Counts, Records, Place, ui, loop, links
<1>2. CASE Browse
  BY <1>0, <1>2 DEF Browse, Touch, Clocks, Flags, Counts, Records, Place, loop, links
<1>3. ASSUME NEW kind \in Kinds, NEW device \in Devices(kind), NEW fam \in Families,
             Request(kind, device, fam)
      PROVE  Clocks' /\ Flags' /\ Counts' /\ Records' /\ Place'
  <2>1. device \in Names /\ 0 \in 0 .. jobs
    BY <1>0 DEF Devices, Names, Counts
  <2>2. http' \in RequestsOf(jobs)
    BY <1>3, <2>1 DEF Request, RequestsOf, NoJob
  <2> QED
    BY <1>0, <1>3, <2>2 DEF Request, Touch, Clocks, Flags, Counts, Records, Place, loop, links
<1>4. CASE CloudFails \/ StartRefused
  <2>1. http' \in RequestsOf(jobs)
    <3>1. NoDevice \in Names /\ 0 \in 0 .. jobs /\ "ORIGINAL" \in Families
      BY <1>0 DEF Names, Counts, Families
    <3> QED
      BY <1>4, <3>1 DEF CloudFails, StartRefused, NoRequest, RequestsOf, NoJob, Kinds
  <2> QED
    BY <1>0, <1>4, <2>1 DEF CloudFails, StartRefused, Clocks, Flags, Counts, Records, Place, ui,
       loop, links
<1>5. ASSUME NEW outcome \in {"RUNNING", "FAILED"}, StartJob(outcome)
      PROVE  Clocks' /\ Flags' /\ Counts' /\ Records' /\ Place'
  <2>1. jobs' = jobs + 1 /\ jobs' \in Nat /\ jobs =< jobs' /\ UNCHANGED <<key, ui_key>>
    BY <1>0, <1>5 DEF StartJob, Counts, links
  <2>2. /\ http \in RequestsOf(jobs) /\ NoRequest \in RequestsOf(jobs')
        /\ 0 .. jobs \subseteq 0 .. jobs' /\ jobs + 1 \in 0 .. jobs'
    <3>1. NoDevice \in Names /\ 0 \in 0 .. jobs' /\ "ORIGINAL" \in Families
      BY <2>1 DEF Names, Families
    <3> QED
      BY <1>0, <2>1, <3>1 DEF Records, NoRequest, RequestsOf, NoJob, Kinds, Counts
  <2>3. http' \in RequestsOf(jobs')
    <3>1. [http EXCEPT !.stage = "arm", !.job = jobs + 1] \in RequestsOf(jobs')
      BY <2>2 DEF RequestsOf
    <3> QED
      BY <1>5, <2>2, <3>1 DEF StartJob
  <2>4. /\ job \in [Kinds -> JobsOf(jobs', key)] /\ armed \in [Kinds -> ArmedOf(jobs')]
        /\ snapshot \in [Kinds -> SnapshotsOf(jobs')]
        /\ pending \in [Kinds -> LinksOf(jobs', key)] /\ bridge \in [Kinds -> LinksOf(jobs', key)]
    <3>1. /\ JobsOf(jobs, key) \subseteq JobsOf(jobs', key)
          /\ LinksOf(jobs, key) \subseteq LinksOf(jobs', key)
          /\ ArmedOf(jobs) \subseteq ArmedOf(jobs')
          /\ SnapshotsOf(jobs) \subseteq SnapshotsOf(jobs')
      BY <1>0, <2>1, RecordsGrow DEF Counts
    <3> QED
      BY <1>0, <3>1 DEF Records
  <2>5. job' \in [Kinds -> JobsOf(jobs', key)]
    <3>1. RequestFamily \in Families /\ http.device \in Names /\ ui_key \in 0 .. key
      BY <1>0 DEF RequestFamily, Flags, Counts, Records, RequestsOf
    <3>2. [state |-> outcome, id |-> jobs + 1, device |-> http.device,
           family |-> RequestFamily, key |-> ui_key] \in JobsOf(jobs', key)
      BY <2>2, <3>1 DEF JobsOf
    <3> QED
      BY <1>5, <2>4, <3>2 DEF StartJob
  <2>6. applied \subseteq 1 .. jobs'
    BY <1>0, <2>1, Growing DEF Counts
  <2> QED
    BY <1>0, <1>5, <2>1, <2>3, <2>4, <2>5, <2>6
       DEF StartJob, Clocks, Flags, Counts, Records, Place, ui, loop, links
<1>6. CASE Arm
  <2>1. armed' \in [Kinds -> ArmedOf(jobs)]
    <3>1. [job |-> http.job, name |-> http.device, notified |-> FALSE] \in ArmedOf(jobs)
      BY <1>0 DEF Records, RequestsOf, ArmedOf
    <3> QED
      BY <1>0, <1>6, <3>1 DEF Arm, Records
  <2>2. http' \in RequestsOf(jobs)
    <3>1. NoDevice \in Names /\ 0 \in 0 .. jobs /\ "ORIGINAL" \in Families
      BY <1>0 DEF Names, Counts, Families
    <3> QED
      BY <1>6, <3>1 DEF Arm, NoRequest, RequestsOf, NoJob, Kinds
  <2> QED
    BY <1>0, <1>6, <2>1, <2>2 DEF Arm, Clocks, Flags, Counts, Records, Place, loop, links
<1>7. ASSUME NEW kind \in Kinds, NEW outcome \in {"SUCCESS", "FAILED"}, JobEnds(kind, outcome)
      PROVE  Clocks' /\ Flags' /\ Counts' /\ Records' /\ Place'
  <2>1. job' \in [Kinds -> JobsOf(jobs, key)]
    BY <1>0, <1>7 DEF JobEnds, Records, JobsOf
  <2> QED
    BY <1>0, <1>7, <2>1 DEF JobEnds, Clocks, Flags, Counts, Records, Place, ui, loop, links
<1>8. CASE LoopBegin
  <2>1. snapshot' \in [Kinds -> SnapshotsOf(jobs)]
    <3>1. NoDevice \in Names /\ 0 \in 0 .. jobs
      BY <1>0 DEF Names, Counts
    <3>2. \A k \in Kinds : Snapshot(k) \in SnapshotsOf(jobs)
      BY <1>0, <3>1 DEF Snapshot, NoSnapshot, SnapshotsOf, ArmedOf, Records, NoJob
    <3> QED
      BY <1>0, <1>8, <3>2 DEF LoopBegin, Records
  <2> QED
    BY <1>0, <1>8, <2>1 DEF LoopBegin, Clocks, Flags, Counts, Records, Place, ui, links
<1>9. ASSUME NEW kind \in Kinds, Consume(kind)
      PROVE  Clocks' /\ Flags' /\ Counts' /\ Records' /\ Place'
  <2>1. snapshot' \in [Kinds -> SnapshotsOf(jobs)]
    <3>1. NoSnapshot \in SnapshotsOf(jobs)
      BY <1>0 DEF Names, Counts, NoSnapshot, SnapshotsOf, NoJob
    <3> QED
      BY <1>0, <1>9, <3>1 DEF Consume, Records
  <2>2. armed' \in [Kinds -> ArmedOf(jobs)] /\ linked' \in [Kinds -> BOOLEAN]
    <3>1. Notified(kind) \in [Kinds -> ArmedOf(jobs)]
      BY <1>0 DEF Notified, Records, ArmedOf
    <3> QED
      BY <1>0, <1>9, <3>1 DEF Consume, Flags, Records
  <2>3. pending' \in [Kinds -> LinksOf(jobs, key)]
    <3>1. Observed(kind) => Outcome(kind) \in LinksOf(jobs, key)
      BY <1>0, OutcomeOf
    <3> QED
      BY <1>0, <1>9, <3>1 DEF Consume, Records
  <2>4. Place'
    BY <1>9 DEF Consume, Place
  <2> QED
    BY <1>0, <1>9, <2>1, <2>2, <2>3, <2>4 DEF Consume, Clocks, Flags, Counts, Records
<1>10. CASE Apply
  <2>1. bridge' \in [Kinds -> LinksOf(jobs, key)]
    BY <1>0, <1>10 DEF Apply, Records
  <2>2. pending' \in [Kinds -> LinksOf(jobs, key)]
    <3>1. NoDevice \in Names /\ 0 \in 0 .. jobs /\ 0 \in 0 .. key /\ "ORIGINAL" \in Families
      BY <1>0 DEF Names, Counts, Families
    <3>2. NoLink \in LinksOf(jobs, key)
      BY <3>1 DEF NoLink, LinksOf, NoJob
    <3> QED
      BY <1>10, <3>2 DEF Apply
  <2>3. Flags'
    <3>1. linked' \in [Kinds -> BOOLEAN]
      BY <1>10 DEF Apply
    <3>2. family' \in Families
      <4>1. pending["keypad"].family \in Families
        BY <1>0 DEF Records, LinksOf, Kinds
      <4> QED
        BY <1>0, <1>10, <4>1 DEF Apply, Flags
    <3> QED
      BY <1>0, <1>10, <3>1, <3>2 DEF Apply, Flags
  <2>4. Counts'
    <3>1. \A k \in Kinds : pending[k].job # NoJob => pending[k].job \in 1 .. jobs
      BY <1>0 DEF Records, LinksOf, Counts, NoJob
    <3> QED
      BY <1>0, <1>10, <3>1 DEF Apply, Counts
  <2>5. Clocks' /\ Place'
    <3>1. 0 \in 0 .. Wrap - 1
      OBVIOUS
    <3> QED
      BY <1>0, <1>10, <3>1 DEF Apply, Clocks, Place
  <2>6. Records'
    BY <1>0, <1>10, <2>1, <2>2 DEF Apply, Records
  <2> QED
    BY <2>3, <2>4, <2>5, <2>6
<1>11. CASE StopIfIdle \/ StopRequested \/ Stop
  <2>1. 0 \in 0 .. Wrap - 1
    OBVIOUS
  <2>2. Clocks' /\ Place'
    BY <1>0, <1>11, <2>1 DEF StopIfIdle, StopRequested, Stop, Clocks, Place, ui
  <2>3. Flags'
    BY <1>0, <1>11 DEF StopIfIdle, StopRequested, Stop, Flags, ui
  <2> QED
    BY <1>0, <1>11, <2>2, <2>3
       DEF StopIfIdle, StopRequested, Stop, Counts, Records, ui, links
<1>12. ASSUME key' = key + 1, ui_key' \in 1 .. key',
              UNCHANGED <<job, armed, http, snapshot, pending, jobs, applied>>,
              bridge' \in [Kinds -> LinksOf(jobs, key)]
       PROVE  Counts' /\ Records'
  <2>1. key' \in Nat /\ key =< key' /\ jobs \in Nat /\ key \in Nat
    BY <1>0, <1>12 DEF Counts
  <2>2. /\ JobsOf(jobs, key) \subseteq JobsOf(jobs, key')
        /\ LinksOf(jobs, key) \subseteq LinksOf(jobs, key')
    BY <2>1, RecordsGrow
  <2>3. Counts'
    BY <1>0, <1>12, <2>1 DEF Counts
  <2>4. /\ job' \in [Kinds -> JobsOf(jobs, key')]
        /\ pending' \in [Kinds -> LinksOf(jobs, key')] /\ bridge' \in [Kinds -> LinksOf(jobs, key')]
    BY <1>0, <1>12, <2>2 DEF Records
  <2> QED
    BY <1>0, <1>12, <2>3, <2>4 DEF Records
<1>13. ASSUME NEW started \in BOOLEAN, Reset(started)
       PROVE  Clocks' /\ Flags' /\ Counts' /\ Records' /\ Place'
  <2>1. bridge' \in [Kinds -> LinksOf(jobs, key)]
    <3>1. NoDevice \in Names /\ 0 \in 0 .. jobs /\ 0 \in 0 .. key /\ "ORIGINAL" \in Families
      BY <1>0 DEF Names, Counts, Families
    <3>2. NoLink \in LinksOf(jobs, key)
      BY <3>1 DEF NoLink, LinksOf, NoJob
    <3> QED
      BY <1>13, <3>2 DEF Reset
  <2>2. ui_key' \in 1 .. key'
    BY <1>0, <1>13 DEF Reset, Counts
  <2>3. Flags'
    BY <1>13 DEF Reset, Flags, FlagsAfterReset, Families
  <2>4. Clocks' /\ Place'
    BY <1>0, <1>13 DEF Reset, Clocks, Place, loop
  <2> QED
    BY <1>12, <1>13, <2>1, <2>2, <2>3, <2>4 DEF Reset, loop
<1>14. CASE ResetAborted
  <2>1. ui_key' \in 1 .. key'
    BY <1>0, <1>14 DEF ResetAborted, Counts
  <2>2. bridge' \in [Kinds -> LinksOf(jobs, key)]
    BY <1>0, <1>14 DEF ResetAborted, Records
  <2>3. Clocks' /\ Flags' /\ Place'
    BY <1>0, <1>14 DEF ResetAborted, Clocks, Flags, Place, ui, loop
  <2> QED
    BY <1>12, <1>14, <2>1, <2>2, <2>3 DEF ResetAborted, ui, loop
<1>15. CASE UNCHANGED vars
  BY <1>0, <1>15 DEF vars, Clocks, Flags, Counts, Records, Place, ui, loop, links
<1> QED
  BY <1>1, <1>2, <1>3, <1>4, <1>5, <1>6, <1>7, <1>8, <1>9, <1>10, <1>11, <1>13, <1>14, <1>15
     DEF Next, Http, Loop

-----------------------------------------------------------------------------
(* Names, flags and reachability.                                          *)

LEMMA SameDeviceKept == IInv /\ [Next]_vars => SameDevice'
<1> SUFFICES ASSUME IInv, [Next]_vars PROVE SameDevice'
  OBVIOUS
<1>0. TypeOK /\ Records /\ Counts /\ SameDevice
  BY TypeParts DEF IInv
<1>1. CASE Tick \/ Browse \/ UNCHANGED vars
  BY <1>0, <1>1 DEF Tick, Browse, vars, ui, loop, links, SameDevice
<1>2. CASE \E kind \in Kinds : \E device \in Devices(kind), fam \in Families :
             Request(kind, device, fam)
  BY <1>0, <1>2 DEF Request, loop, links, SameDevice
<1>3. CASE CloudFails \/ StartRefused
  BY <1>0, <1>3 DEF CloudFails, StartRefused, NoRequest, ui, loop, links, SameDevice
<1>4. ASSUME NEW outcome \in {"RUNNING", "FAILED"}, StartJob(outcome) PROVE SameDevice'
  <2>1. \A k \in Kinds : armed[k].job # jobs + 1 /\ snapshot[k].job # jobs + 1
    BY <1>0 DEF Records, Counts, ArmedOf, SnapshotsOf
  <2>2. UNCHANGED <<armed, snapshot, pending, bridge>>
    BY <1>4 DEF StartJob, ui, loop, links
  <2>3. http.kind \in Kinds
    BY <1>0 DEF Records, RequestsOf
  <2>4. /\ job'[http.kind].id = jobs + 1 /\ job'[http.kind].device = http.device
        /\ \A k \in Kinds : k # http.kind => job'[k] = job[k]
    BY <1>0, <1>4, <2>3 DEF StartJob, Records
  <2>5. http'.stage = "arm" =>
          /\ http'.job # NoJob /\ http'.kind = http.kind /\ http'.job = jobs + 1
          /\ http'.device = http.device
    <3>1. jobs + 1 # NoJob /\ http \in RequestsOf(jobs)
      BY <1>0 DEF Counts, NoJob, Records
    <3>2. CASE outcome = "RUNNING"
      BY <1>4, <3>1, <3>2 DEF StartJob, RequestsOf
    <3>3. CASE outcome # "RUNNING"
      BY <1>4, <3>3 DEF StartJob, NoRequest
    <3> QED
      BY <3>2, <3>3
  <2> QED
    BY <1>0, <2>1, <2>2, <2>3, <2>4, <2>5 DEF SameDevice
<1>5. CASE Arm
  <2>1. /\ armed' = [armed EXCEPT ![http.kind] =
              [job |-> http.job, name |-> http.device, notified |-> FALSE]]
        /\ UNCHANGED <<job, snapshot, pending, bridge>> /\ http'.stage = "none"
    BY <1>5 DEF Arm, NoRequest, loop, links
  <2>2. job[http.kind].device = http.device
    BY <1>0, <1>5 DEF Arm, SameDevice
  <2> QED
    BY <1>0, <2>1, <2>2 DEF SameDevice, Records
<1>6. ASSUME NEW kind \in Kinds, NEW outcome \in {"SUCCESS", "FAILED"}, JobEnds(kind, outcome)
      PROVE  SameDevice'
  <2>1. \A k \in Kinds : job'[k].id = job[k].id /\ job'[k].device = job[k].device
    BY <1>0, <1>6 DEF JobEnds, Records, JobsOf
  <2>2. http.kind \in Kinds
    BY <1>0 DEF Records, RequestsOf
  <2> QED
    BY <1>0, <1>6, <2>1, <2>2 DEF JobEnds, ui, loop, links, SameDevice
<1>7. CASE LoopBegin
  <2>1. \A k \in Kinds : snapshot'[k].job # NoJob =>
          \/ snapshot'[k].job = armed[k].job /\ snapshot'[k].name = armed[k].name
          \/ snapshot'[k] = snapshot[k]
    BY <1>7 DEF LoopBegin, Snapshot, NoSnapshot
  <2> QED
    BY <1>0, <1>7, <2>1 DEF LoopBegin, ui, links, SameDevice
<1>8. ASSUME NEW kind \in Kinds, Consume(kind) PROVE SameDevice'
  <2>1. \A k \in Kinds : armed'[k].job = armed[k].job /\ armed'[k].name = armed[k].name
    BY <1>0, <1>8 DEF Consume, Notified, Records, ArmedOf
  <2>2. \A k \in Kinds : snapshot'[k].job = NoJob \/ snapshot'[k] = snapshot[k]
    BY <1>0, <1>8 DEF Consume, NoSnapshot, Records
  <2>3. \A k \in Kinds : pending'[k].name = pending'[k].device
    <3>1. Observed(kind) => Outcome(kind).name = Outcome(kind).device
      BY <1>0, OutcomeOf
    <3> QED
      BY <1>0, <1>8, <3>1 DEF Consume, Records, SameDevice
  <2> QED
    BY <1>0, <1>8, <2>1, <2>2, <2>3 DEF Consume, SameDevice
<1>9. CASE Apply
  <2>1. \A k \in Kinds : bridge'[k].name = bridge'[k].device
    BY <1>0, <1>9 DEF Apply, SameDevice
  <2>2. \A k \in Kinds : pending'[k].name = pending'[k].device
    BY <1>9 DEF Apply, NoLink
  <2> QED
    BY <1>0, <1>9, <2>1, <2>2 DEF Apply, SameDevice
<1>10. CASE StopIfIdle \/ StopRequested \/ Stop \/ ResetAborted
  BY <1>0, <1>10 DEF StopIfIdle, StopRequested, Stop, ResetAborted, ui, loop, links, SameDevice
<1>11. ASSUME NEW started \in BOOLEAN, Reset(started) PROVE SameDevice'
  <2>1. \A k \in Kinds : bridge'[k].name = bridge'[k].device
    BY <1>11 DEF Reset, NoLink
  <2> QED
    BY <1>0, <1>11, <2>1 DEF Reset, loop, SameDevice
<1> QED
  BY <1>1, <1>2, <1>3, <1>4, <1>5, <1>6, <1>7, <1>8, <1>9, <1>10, <1>11 DEF Next, Http, Loop

\* The steps after which what is linked is what it was.
LEMMA LinksUntouched ==
  ASSUME Next, ~\E kind \in Kinds : Consume(kind), ~Apply,
         ~\E started \in BOOLEAN : Reset(started)
  PROVE  UNCHANGED <<linked, bridge, pending>>
BY DEF Next, Tick, Http, Browse, Request, CloudFails, StartRefused, StartJob, Arm, JobEnds, Loop,
   LoopBegin, StopIfIdle, StopRequested, Stop, ResetAborted, ui, loop, links

LEMMA ReportedKept == IInv /\ [Next]_vars => Reported'
<1> SUFFICES ASSUME IInv, [Next]_vars PROVE Reported'
  OBVIOUS
<1>0. TypeOK /\ Records /\ Flags /\ SameDevice /\ Reported
  BY TypeParts DEF IInv
<1>1. ASSUME NEW kind \in Kinds, Consume(kind) PROVE Reported'
  <2>1. UNCHANGED bridge /\ pc' \in {"lock", "apply"}
    BY <1>1 DEF Consume
  <2>2. CASE Observed(kind)
    <3>1. Outcome(kind) # NoLink
      BY <1>0, <2>2, OutcomeOf
    <3>2. /\ linked'[kind] /\ pending'[kind] # NoLink
          /\ \A k \in Kinds : k # kind => linked'[k] = linked[k] /\ pending'[k] = pending[k]
      BY <1>0, <1>1, <2>2, <3>1 DEF Consume, Records, Flags
    <3> QED
      BY <1>0, <2>1, <3>2 DEF Reported, Linked
  <2>3. CASE ~Observed(kind)
    <3>1. UNCHANGED <<linked, pending>>
      BY <1>1, <2>3 DEF Consume
    <3> QED
      BY <1>0, <2>1, <3>1 DEF Reported, Linked
  <2> QED
    BY <2>2, <2>3
<1>2. CASE Apply
  <2>1. ASSUME NEW k \in Kinds
        PROVE  /\ pending'[k] = NoLink
               /\ linked'[k] <=> linked[k] \/ pending[k] # NoLink
               /\ bridge'[k] # NoLink <=> bridge[k] # NoLink \/ pending[k] # NoLink
    BY <1>2 DEF Apply
  <2> QED
    BY <1>0, <2>1 DEF Reported, Linked
<1>3. ASSUME NEW started \in BOOLEAN, Reset(started) PROVE Reported'
  <2>1. /\ \A k \in Kinds : ~linked'[k] /\ bridge'[k] = NoLink
        /\ UNCHANGED <<pc, pending>> /\ pc = "rest"
    BY <1>3 DEF Reset, FlagsAfterReset, loop
  <2> QED
    BY <1>0, <2>1 DEF Reported, Linked
<1>4. CASE UNCHANGED vars
  BY <1>0, <1>4 DEF vars, ui, loop, links, Reported, Linked
<1>5. ASSUME Next, ~\E kind \in Kinds : Consume(kind), ~Apply,
             ~\E started \in BOOLEAN : Reset(started)
      PROVE  Reported'
  <2>1. UNCHANGED <<linked, bridge, pending>>
    BY <1>5, LinksUntouched
  <2>2. pc \in {"lock", "apply"} => pc' \in {"lock", "apply"}
    BY <1>5 DEF Next, Tick, Http, Browse, Request, CloudFails, StartRefused, StartJob, Arm,
       JobEnds, Loop, LoopBegin, StopIfIdle, StopRequested, Stop, ResetAborted, ui, loop, links
  <2>3. \A k \in Kinds : Linked(k)' <=> Linked(k)
    BY <2>1 DEF Linked
  <2>4. pc' \notin {"lock", "apply"} => \A k \in Kinds : pending'[k] = NoLink
    BY <1>0, <2>1, <2>2 DEF Reported
  <2> QED
    BY <1>0, <2>1, <2>3, <2>4 DEF Reported
<1> QED
  BY <1>1, <1>2, <1>3, <1>4, <1>5

LEMMA ReachableKept == IInv /\ [Next]_vars => Reachable'
<1> SUFFICES ASSUME IInv, [Next]_vars PROVE Reachable'
  OBVIOUS
<1>0. Reachable /\ Reported
  BY DEF IInv
<1>1. CASE Apply
  <2>1. Linked("keypad") => Linked("keypad")'
    BY <1>1 DEF Apply, Linked, Kinds
  <2>2. pc' = "idle" => Linked("keypad")'
    BY <1>1 DEF Apply, IdleCloses
  <2> QED
    BY <1>0, <1>1, <2>1, <2>2 DEF Apply, Reachable
<1>2. ASSUME NEW started \in BOOLEAN, Reset(started) PROVE Reachable'
  BY <1>2 DEF Reset, loop, Reachable
<1>3. CASE Stop
  BY <1>0, <1>3 DEF Stop, Reachable, Linked, links
<1>4. CASE \/ Tick \/ Http \/ LoopBegin \/ StopIfIdle \/ StopRequested \/ ResetAborted
           \/ UNCHANGED vars
           \/ \E kind \in Kinds, outcome \in {"SUCCESS", "FAILED"} : JobEnds(kind, outcome)
           \/ \E kind \in Kinds : Consume(kind)
  <2>1. UNCHANGED <<server, start_failed, bridge>>
    BY <1>4 DEF Tick, Http, Browse, Request, CloudFails, StartRefused, StartJob, Arm, JobEnds,
       LoopBegin, Consume, StopIfIdle, StopRequested, ResetAborted, vars, ui, loop, links
  <2>2. pc' \in {"idle", "stopping", "stop"} => pc \in {"idle", "stopping", "stop"}
    BY <1>4 DEF Tick, Http, Browse, Request, CloudFails, StartRefused, StartJob, Arm, JobEnds,
       LoopBegin, Consume, StopIfIdle, StopRequested, ResetAborted, vars, ui, loop, links
  <2> QED
    BY <1>0, <2>1, <2>2 DEF Reachable, Linked
<1> QED
  BY <1>1, <1>2, <1>3, <1>4 DEF Next, Loop

-----------------------------------------------------------------------------
(* Each job is applied once.                                               *)

LEMMA UsedIds == TypeOK => Used \subseteq 1 .. jobs
BY TypeParts DEF Used, Records, Counts, LinksOf, NoJob

LEMMA UsedOnceKept == IInv /\ [Next]_vars => UsedOnce'
<1> SUFFICES ASSUME IInv, [Next]_vars PROVE UsedOnce'
  OBVIOUS
<1>0. TypeOK /\ Records /\ Counts /\ SameDevice /\ UsedOnce /\ Reported
  BY TypeParts DEF IInv
<1>1. ASSUME UNCHANGED <<armed, pending, applied>>, http'.stage = "arm" => http' = http
      PROVE  UsedOnce'
  BY <1>0, <1>1 DEF UsedOnce, Used
<1>2. CASE Tick \/ Browse \/ LoopBegin \/ StopIfIdle \/ StopRequested \/ Stop \/ ResetAborted
           \/ UNCHANGED vars
  BY <1>1, <1>2 DEF Tick, Browse, LoopBegin, StopIfIdle, StopRequested, Stop, ResetAborted,
     vars, ui, loop, links
<1>3. CASE \/ \E kind \in Kinds : \E device \in Devices(kind), fam \in Families :
                Request(kind, device, fam)
           \/ CloudFails \/ StartRefused
           \/ \E started \in BOOLEAN : Reset(started)
           \/ \E kind \in Kinds, outcome \in {"SUCCESS", "FAILED"} : JobEnds(kind, outcome)
  BY <1>1, <1>3 DEF Request, CloudFails, StartRefused, NoRequest, Reset, JobEnds, ui, loop, links
<1>4. ASSUME NEW outcome \in {"RUNNING", "FAILED"}, StartJob(outcome) PROVE UsedOnce'
  <2>1. UNCHANGED <<armed, pending, applied>>
    BY <1>4 DEF StartJob, ui, links
  <2>2. http'.stage = "arm" => http'.job = jobs + 1
    <3>1. http \in RequestsOf(jobs)
      BY <1>0 DEF Records
    <3>2. CASE outcome = "RUNNING"
      BY <1>4, <3>1, <3>2 DEF StartJob, RequestsOf
    <3>3. CASE outcome # "RUNNING"
      BY <1>4, <3>3 DEF StartJob, NoRequest
    <3> QED
      BY <3>2, <3>3
  <2>3. jobs + 1 \notin Used /\ \A k \in Kinds : armed[k].job # jobs + 1
    BY <1>0, UsedIds DEF Counts, Records, ArmedOf
  <2> QED
    BY <1>0, <2>1, <2>2, <2>3 DEF UsedOnce, Used
<1>5. CASE Arm
  <2>1. http.stage = "arm" /\ http.kind \in Kinds /\ http.job # NoJob
    BY <1>0, <1>5 DEF Arm, Records, RequestsOf, SameDevice
  <2>2. /\ http.job \notin Used /\ \A k \in Kinds : armed[k].job # http.job
    BY <1>0, <2>1 DEF UsedOnce
  <2>3. /\ armed'[http.kind].job = http.job
        /\ \A k \in Kinds : k # http.kind => armed'[k] = armed[k]
        /\ http'.stage = "none" /\ UNCHANGED <<pending, applied>>
    BY <1>0, <1>5, <2>1 DEF Arm, NoRequest, Records, links
  <2>4. Used' = Used
    BY <2>3 DEF Used
  <2>5. \A k \in Kinds : armed'[k].job \in Used => armed'[k].notified
    BY <1>0, <2>2, <2>3 DEF UsedOnce
  <2>6. armed'["keypad"].job = armed'["lock"].job => armed'["lock"].job = NoJob
    BY <1>0, <2>1, <2>2, <2>3 DEF UsedOnce, Kinds
  <2> QED
    BY <2>3, <2>4, <2>5, <2>6 DEF UsedOnce
<1>6. ASSUME NEW kind \in Kinds, Consume(kind) PROVE UsedOnce'
  <2>1. CASE ~Observed(kind)
    BY <1>1, <1>6, <2>1 DEF Consume
  <2>2. CASE Observed(kind)
    <3>1. /\ Outcome(kind).job = armed[kind].job /\ armed[kind].job \in 1 .. jobs
      BY <1>0, <2>2, OutcomeOf
    <3>2. /\ armed' = Notified(kind) /\ UNCHANGED <<http, applied>>
          /\ pending' = [pending EXCEPT ![kind] = Outcome(kind)]
      BY <1>6, <2>2 DEF Consume
    <3>3. /\ armed'[kind].notified
          /\ \A k \in Kinds : armed'[k].job = armed[k].job /\ (k # kind => armed'[k] = armed[k])
      BY <1>0, <3>2 DEF Notified, Records, ArmedOf
    <3>4. \A k \in Kinds : pending'[k].job \in {pending[k].job, armed[kind].job}
      BY <1>0, <3>1, <3>2 DEF Records
    <3>5. Used' \subseteq Used \cup {armed[kind].job}
      BY <3>2, <3>4 DEF Used
    <3>6. \A k \in Kinds : k # kind => armed[k].job # armed[kind].job
      BY <1>0, <3>1 DEF UsedOnce, Kinds, NoJob
    <3>7. \A k \in Kinds : armed'[k].job \in Used' => armed'[k].notified
      BY <1>0, <3>3, <3>5, <3>6 DEF UsedOnce
    <3>8. http.stage = "arm" => http.job \notin Used' /\ \A k \in Kinds : armed'[k].job # http.job
      BY <1>0, <3>3, <3>5 DEF UsedOnce
    <3> QED
      BY <1>0, <3>2, <3>3, <3>7, <3>8 DEF UsedOnce, Kinds
  <2> QED
    BY <2>1, <2>2
<1>7. CASE Apply
  <2>1. Used' = Used
    BY <1>7 DEF Apply, Used, NoLink
  <2>2. UNCHANGED <<armed, http>>
    BY <1>7 DEF Apply
  <2> QED
    BY <1>0, <2>1, <2>2 DEF UsedOnce
<1> QED
  BY <1>2, <1>3, <1>4, <1>5, <1>6, <1>7 DEF Next, Http, Loop

-----------------------------------------------------------------------------
(* The theorems.                                                           *)

LEMMA Invariance == Spec => []IInv
<1>1. IInv /\ [Next]_vars => IInv'
  BY TypesKept, SameDeviceKept, ReportedKept, ReachableKept, UsedOnceKept DEF IInv
<1> QED
  BY InitInv, <1>1, PTL DEF Spec

\* pairing_ui.h:117-140, background_job.h:23-37: every variable keeps its type, and no
\* record names a job or a key that was not drawn yet.
THEOREM TypeCorrect == Spec => []TypeOK
<1>1. IInv => TypeOK
  BY DEF IInv
<1> QED
  BY Invariance, <1>1, PTL

\* pairing_ui.h:130-135, pairing_ui.cpp:589: a linked device is named after the request of
\* the very job that provisioned it, however jobs, polls and new requests interleave.
THEOREM LinksFromOneJob == Spec => []LinkFromOneJob
<1>1. IInv => LinkFromOneJob
  BY DEF IInv, SameDevice, LinkFromOneJob
<1> QED
  BY Invariance, <1>1, PTL

\* switchbot_keypad_bridge.cpp:245-248: with nothing linked the wizard stays reachable,
\* unless its port could not be opened.
THEOREM SetupReachable == Spec => []SetupModeReachable
<1>1. IInv => SetupModeReachable
  BY DEF IInv, Reachable, SetupModeReachable
<1> QED
  BY Invariance, <1>1, PTL

\* pairing_ui.cpp:127-161, switchbot_keypad_bridge.cpp:283-334: between two passes of the
\* loop the one-shot gates of the wizard are those of the bridge, although poll_jobs() sets
\* the ones before the bridge sets the others.
THEOREM GatesAgree == Spec => []FlagsAgree
<1>1. IInv => FlagsAgree
  <2> SUFFICES ASSUME IInv, pc = "rest", NEW k \in Kinds PROVE linked[k] = Linked(k)
    BY DEF FlagsAgree
  <2>1. linked[k] \in BOOLEAN /\ Linked(k) \in BOOLEAN
    BY TypeParts DEF IInv, Flags, Linked
  <2>2. linked[k] <=> Linked(k)
    BY DEF IInv, Reported
  <2> QED
    BY <2>1, <2>2
<1> QED
  BY Invariance, <1>1, PTL

\* pairing_ui.h:91-94: the success of a job is applied at most once.
THEOREM EachJobAppliedOnce == Spec => AppliedOnce
<1> DEFINE A == \A k \in Kinds : pending[k] = NoLink /\ pending'[k] # NoLink
                  => pending'[k].job \notin applied
<1>1. IInv /\ [Next]_vars => A
  <2> SUFFICES ASSUME IInv, [Next]_vars, NEW k \in Kinds,
                      pending[k] = NoLink, pending'[k] # NoLink
               PROVE  pending'[k].job \notin applied
    OBVIOUS
  <2>0. TypeOK /\ Records /\ SameDevice /\ UsedOnce
    BY TypeParts DEF IInv
  <2>1. PICK kind \in Kinds : Consume(kind)
    BY LinksUntouched DEF vars, links, Apply, Reset
  <2>2. kind = k /\ Observed(k) /\ pending'[k] = Outcome(k)
    BY <2>0, <2>1 DEF Consume, Records
  <2>3. Outcome(k).job = armed[k].job /\ ~armed[k].notified
    BY <2>0, <2>2, OutcomeOf
  <2> QED
    BY <2>0, <2>2, <2>3 DEF UsedOnce, Used
<1>2. IInv /\ [Next]_vars => [A]_vars
  BY <1>1
<1> QED
  BY Invariance, <1>2, PTL DEF Spec, AppliedOnce
=============================================================================
