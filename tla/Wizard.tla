------------------------------- MODULE Wizard -------------------------------
(***************************************************************************)
(* The setup wizard: the HTTP handlers that start the two background BLE   *)
(* jobs (pairing_ui.cpp, background_job.h), the main loop that observes    *)
(* their outcome and applies it to the bridge, the idle shutdown of the    *)
(* server, and the Reset button (switchbot_keypad_bridge.cpp).             *)
(*                                                                         *)
(* Four tasks share this state: the main loop (pc, which also runs the     *)
(* button), the HTTP server, which serves one request at a time (http),    *)
(* and one task per running job.  Pairing a keypad and linking a lock are  *)
(* the same handler, job and apply code up to names; `Kinds` indexes both. *)
(* Sign-in and the listing pages only touch the idle timer.                *)
(***************************************************************************)
EXTENDS Integers, FiniteSets

CONSTANTS
  Keypads, Locks,    \* devices of the account
  Wrap,              \* millis() counts modulo Wrap (2^32)
  IdleTimeout,       \* timeout_ms of stop_if_idle (5 minutes)
  MaxJobs, MaxResets \* bounds of the model

Kinds == {"keypad", "lock"}
Families == {"ORIGINAL", "VISION"}
Devices(kind) == IF kind = "keypad" THEN Keypads ELSE Locks

NoDevice == "none"
ASSUME DevicesAssumption == NoDevice \notin Keypads \cup Locks
ASSUME ClockAssumption ==
  /\ Wrap \in Nat /\ IdleTimeout \in Nat
  /\ 0 < IdleTimeout /\ IdleTimeout < Wrap
ASSUME BoundsAssumption == MaxJobs \in Nat /\ MaxResets \in Nat

VARIABLES
  server,          \* server_ # nullptr
  start_failed,    \* history: the last httpd_start failed
  now,             \* millis()
  last_activity,   \* last_activity_ms_
  job,             \* pairer_ and linker_: status_ and the request
  armed,           \* pairing_job_id_, pairing_keypad_name_, success_notified_
  linked,          \* keypad_paired_ and lock_linked_ of the UI
  family,          \* keypad_family_ of the UI
  http,            \* the request being served
  pc,              \* where the main loop is
  snapshot,        \* local to poll_jobs: what was armed
  now_ms,          \* local to stop_if_idle: its argument
  pending,         \* pending_pair_apply_, pending_lock_apply_ and their data
  bridge,          \* keypad_paired_, keypad_info_, linked_lock_info_
  key, ui_key,     \* shared_key_ of the bridge and of the UI, as generations
  jobs, applied    \* history: jobs started, jobs applied

ui == <<server, start_failed, last_activity, armed, linked, family>>
loop == <<pc, snapshot, now_ms>>
links == <<pending, bridge, key, ui_key, applied>>
vars == <<ui, now, job, http, loop, links, jobs>>

NoJob == 0
JobIds == 1 .. MaxJobs
\* Status and Request of a job: `key` is shared_token / shared_key, `family` the
\* dialect of a keypad job and the shared slot of a lock job.
IdleJob == [state |-> "IDLE", id |-> NoJob, device |-> NoDevice,
            family |-> "ORIGINAL", key |-> 0]
NotArmed == [job |-> NoJob, name |-> NoDevice, notified |-> FALSE]
NoSnapshot == [job |-> NoJob, name |-> NoDevice]
NoLink == [job |-> NoJob, name |-> NoDevice, device |-> NoDevice,
           family |-> "ORIGINAL", key |-> 0]
NoRequest == [stage |-> "none", kind |-> "keypad", device |-> NoDevice,
              family |-> "ORIGINAL", job |-> NoJob]

Linked(kind) == bridge[kind] # NoLink

\* A device linked in an earlier boot: job 0, provisioned with this boot's key.
StoredLink(kind, device, fam) ==
  [job |-> NoJob, name |-> device, device |-> device, family |-> fam, key |-> 1]
StoredLinks(kind) ==
  {NoLink} \cup {StoredLink(kind, d, f) : d \in Devices(kind), f \in Families}

\* setup(): restores the links; with no keypad linked it opens the wizard.
Init ==
  /\ bridge \in [keypad : StoredLinks("keypad"), lock : StoredLinks("lock")]
  /\ server \in BOOLEAN /\ (Linked("keypad") => ~server)
  /\ start_failed = (~Linked("keypad") /\ ~server)
  /\ now = 1 /\ last_activity = IF server THEN now ELSE 0
  /\ job = [k \in Kinds |-> IdleJob] /\ armed = [k \in Kinds |-> NotArmed]
  /\ linked = [k \in Kinds |-> Linked(k)]
  /\ family = bridge["keypad"].family
  /\ http = NoRequest
  /\ pc = "rest" /\ snapshot = [k \in Kinds |-> NoSnapshot] /\ now_ms = 0
  /\ pending = [k \in Kinds |-> NoLink]
  /\ key = 1 /\ ui_key = 1 /\ jobs = 0 /\ applied = {}

Later == (now + 1) % Wrap

\* A pass of the loop is shorter than a tick; one may fall between the evaluation of
\* millis() and the load of the idle timer.
Tick ==
  /\ pc = "rest" \/ (pc = "idle" /\ now = now_ms)
  /\ now' = Later
  /\ UNCHANGED <<ui, job, http, loop, links, jobs>>

-----------------------------------------------------------------------------
(* The HTTP task.                                                          *)

Accepting == server /\ http = NoRequest /\ pc # "stop"

Touch == last_activity' = now

\* The pages that only report, list or sign in.
Browse ==
  /\ Accepting
  /\ Touch
  /\ UNCHANGED <<server, start_failed, armed, linked, family,
                 now, job, http, loop, links, jobs>>

\* Only a linked keypad makes a lock linkable; each link is a one-shot.
Gate(kind) == ~linked[kind] /\ (kind = "lock" => linked["keypad"])

\* handle_pair_ and handle_lock_link_ up to the cloud calls.
Request(kind, device, fam) ==
  /\ Accepting
  /\ Touch
  /\ Gate(kind)
  /\ http' = [stage |-> "cloud", kind |-> kind, device |-> device,
              family |-> fam, job |-> NoJob]
  /\ UNCHANGED <<server, start_failed, armed, linked, family,
                 now, job, loop, links, jobs>>

\* The account or the key could not be read, or the device is not supported.
CloudFails ==
  /\ http.stage = "cloud"
  /\ http' = NoRequest
  /\ UNCHANGED <<ui, now, job, loop, links, jobs>>

\* A lock request that leaves shared_slot_id at its default.
RequestFamily_Unset == IF http.kind = "lock" THEN "none" ELSE http.family

\* The shared slot of a lock follows the keypad's family as it is by now.
RequestFamily == IF http.kind = "lock" THEN family ELSE http.family

\* start_job_ refuses a second job.
StartRefused ==
  /\ http.stage = "cloud"
  /\ job[http.kind].state = "RUNNING"
  /\ http' = NoRequest
  /\ UNCHANGED <<ui, now, job, loop, links, jobs>>

\* start_job_ marks the job RUNNING, then creates its task.  When that fails the
\* job is marked FAILED and the handler answers as if one were in progress.
StartJob(outcome) ==
  /\ http.stage = "cloud"
  /\ job[http.kind].state # "RUNNING"
  /\ jobs < MaxJobs
  /\ jobs' = jobs + 1
  /\ job' = [job EXCEPT ![http.kind] =
       [state |-> outcome, id |-> jobs + 1, device |-> http.device,
        family |-> RequestFamily, key |-> ui_key]]
  /\ http' = IF outcome = "RUNNING"
             THEN [http EXCEPT !.stage = "arm", !.job = jobs + 1] ELSE NoRequest
  /\ UNCHANGED <<ui, now, loop, links>>

\* Under jobs_mu_: the started job becomes the one poll_jobs() waits for.
Arm ==
  /\ http.stage = "arm"
  /\ armed' = [armed EXCEPT ![http.kind] =
       [job |-> http.job, name |-> http.device, notified |-> FALSE]]
  /\ http' = NoRequest
  /\ UNCHANGED <<server, start_failed, last_activity, linked, family,
                 now, job, loop, links, jobs>>

Http ==
  \/ Browse
  \/ \E kind \in Kinds : \E device \in Devices(kind), fam \in Families :
       Request(kind, device, fam)
  \/ CloudFails \/ StartRefused
  \/ \E outcome \in {"RUNNING", "FAILED"} : StartJob(outcome)
  \/ Arm

\* The job's task: set_success_ or set_failed_ is the last thing it does.
JobEnds(kind, outcome) ==
  /\ job[kind].state = "RUNNING"
  /\ job' = [job EXCEPT ![kind].state = outcome]
  /\ UNCHANGED <<ui, now, http, loop, links, jobs>>

-----------------------------------------------------------------------------
(* The main loop.                                                          *)

\* poll_jobs(), first part: what is armed and not yet notified.
Snapshot(kind) ==
  IF armed[kind].notified THEN NoSnapshot
  ELSE [job |-> armed[kind].job, name |-> armed[kind].name]

LoopBegin ==
  /\ pc = "rest"
  /\ pc' = IF server THEN "keypad" ELSE "apply"
  /\ snapshot' = IF server THEN [k \in Kinds |-> Snapshot(k)] ELSE snapshot
  /\ UNCHANGED <<ui, now, job, http, now_ms, links, jobs>>

\* The armed job is the one that succeeded, and nothing was armed since.
Observed_AnyJob(kind) ==
  snapshot[kind].job # NoJob /\ job[kind].state = "SUCCESS" /\ ~armed[kind].notified
Observed(kind) ==
  /\ snapshot[kind].job # NoJob
  /\ job[kind].state = "SUCCESS" /\ job[kind].id = snapshot[kind].job
  /\ armed[kind].job = snapshot[kind].job /\ ~armed[kind].notified

Notified_Rearmed(kind) == armed
Notified(kind) == [armed EXCEPT ![kind].notified = TRUE]

\* What the success callback hands to the bridge: the name is the one stored when
\* a keypad job was armed, everything else comes from the job's status.
Outcome(kind) ==
  [job |-> job[kind].id,
   name |-> IF kind = "keypad" THEN snapshot[kind].name ELSE job[kind].device,
   device |-> job[kind].device, family |-> job[kind].family, key |-> job[kind].key]

\* poll_jobs(), second part, once for each kind of job.
Consume(kind) ==
  /\ pc = kind
  /\ pc' = IF kind = "keypad" THEN "lock" ELSE "apply"
  /\ snapshot' = [snapshot EXCEPT ![kind] = NoSnapshot]
  /\ IF Observed(kind)
     THEN /\ armed' = Notified(kind)
          /\ linked' = [linked EXCEPT ![kind] = TRUE]
          /\ pending' = [pending EXCEPT ![kind] = Outcome(kind)]
     ELSE UNCHANGED <<armed, linked, pending>>
  /\ UNCHANGED <<server, start_failed, last_activity, family,
                 now, job, http, now_ms, bridge, key, ui_key, applied, jobs>>

\* apply_pending_pairing_(), then apply_pending_lock_link_().  The wizard is then
\* closed when idle, but only if a keypad is linked.
IdleCloses_Always == TRUE
IdleCloses == Linked("keypad")'

Apply ==
  /\ pc = "apply"
  /\ bridge' = [k \in Kinds |-> IF pending[k] # NoLink THEN pending[k] ELSE bridge[k]]
  /\ linked' = [k \in Kinds |-> linked[k] \/ pending[k] # NoLink]
  /\ family' = IF pending["keypad"] # NoLink THEN pending["keypad"].family ELSE family
  /\ applied' = applied \cup ({pending[k].job : k \in Kinds} \ {NoJob})
  /\ pending' = [k \in Kinds |-> NoLink]
  /\ IF IdleCloses THEN pc' = "idle" /\ now_ms' = now ELSE pc' = "rest" /\ now_ms' = 0
  /\ UNCHANGED <<server, start_failed, last_activity, armed,
                 now, job, http, snapshot, key, ui_key, jobs>>

\* The subtraction is unsigned: it wraps when the timer is newer than now_ms.
Elapsed == (now_ms - last_activity) % Wrap

MayStop ==
  /\ server
  /\ last_activity # 0 /\ Elapsed >= IdleTimeout
  /\ \A k \in Kinds : job[k].state # "RUNNING"

StopIfIdle ==
  /\ pc = "idle"
  /\ pc' = IF MayStop THEN "stopping" ELSE "rest"
  /\ now_ms' = 0
  /\ UNCHANGED <<ui, now, job, http, snapshot, links, jobs>>

\* httpd_stop() takes no further request, and returns once the handler in
\* progress has.
StopRequested ==
  /\ pc = "stopping"
  /\ pc' = "stop"
  /\ UNCHANGED <<ui, now, job, http, snapshot, now_ms, links, jobs>>

Stop ==
  /\ pc = "stop" /\ http = NoRequest
  /\ pc' = "rest"
  /\ server' = FALSE /\ last_activity' = 0
  /\ UNCHANGED <<start_failed, armed, linked, family,
                 now, job, http, snapshot, now_ms, links, jobs>>

\* The Reset button: ignored while the wizard is open, otherwise reset_pairing().
FlagsAfterReset_LockKept == [linked EXCEPT !["keypad"] = FALSE]
FlagsAfterReset == [k \in Kinds |-> FALSE]

Reset(started) ==
  /\ pc = "rest" /\ ~server
  /\ key <= MaxResets
  /\ key' = key + 1 /\ ui_key' = key'
  /\ bridge' = [k \in Kinds |-> NoLink]
  /\ linked' = FlagsAfterReset
  /\ family' = "ORIGINAL"
  /\ server' = started /\ start_failed' = ~started
  /\ last_activity' = IF started THEN now ELSE last_activity
  /\ UNCHANGED <<armed, now, job, http, loop, pending, applied, jobs>>

\* The new key could not be imported: it is already saved, everything else stays.
ResetAborted ==
  /\ pc = "rest" /\ ~server
  /\ key <= MaxResets
  /\ key' = key + 1
  /\ UNCHANGED <<ui, now, job, http, loop, pending, bridge, ui_key, applied, jobs>>

Loop ==
  \/ LoopBegin \/ (\E kind \in Kinds : Consume(kind)) \/ Apply
  \/ StopIfIdle \/ StopRequested \/ Stop

Next ==
  \/ Tick
  \/ Http
  \/ \E kind \in Kinds, outcome \in {"SUCCESS", "FAILED"} : JobEnds(kind, outcome)
  \/ Loop
  \/ \E started \in BOOLEAN : Reset(started)
  \/ ResetAborted

Spec == Init /\ [][Next]_vars

\* The main loop runs for ever; a handler gets an answer from the cloud or times
\* out.  Neither a job nor a request nor a button press is ever promised.
Fairness ==
  /\ WF_vars(Loop)
  /\ WF_vars(CloudFails \/ StartRefused \/ Arm)
FairSpec == Spec /\ Fairness

-----------------------------------------------------------------------------
(* Properties.                                                             *)

Jobs ==
  [state : {"IDLE", "RUNNING", "SUCCESS", "FAILED"}, id : 0 .. jobs,
   device : Keypads \cup Locks \cup {NoDevice}, family : Families, key : 0 .. key]
Links ==
  [job : 0 .. jobs, name : Keypads \cup Locks \cup {NoDevice},
   device : Keypads \cup Locks \cup {NoDevice}, family : Families, key : 0 .. key]

\* Every variable has its type.
TypeOK ==
  /\ server \in BOOLEAN /\ start_failed \in BOOLEAN
  /\ now \in 0 .. Wrap - 1 /\ last_activity \in 0 .. Wrap - 1 /\ now_ms \in 0 .. Wrap - 1
  /\ job \in [Kinds -> Jobs]
  /\ armed \in [Kinds -> [job : 0 .. jobs, name : Keypads \cup Locks \cup {NoDevice},
                          notified : BOOLEAN]]
  /\ linked \in [Kinds -> BOOLEAN] /\ family \in Families
  /\ http \in [stage : {"none", "cloud", "arm"}, kind : Kinds, family : Families,
               device : Keypads \cup Locks \cup {NoDevice}, job : 0 .. jobs]
  /\ pc \in {"rest", "keypad", "lock", "apply", "idle", "stopping", "stop"}
  /\ snapshot \in [Kinds -> [job : 0 .. jobs, name : Keypads \cup Locks \cup {NoDevice}]]
  /\ pending \in [Kinds -> Links] /\ bridge \in [Kinds -> Links]
  /\ key \in Nat /\ ui_key \in 1 .. key /\ jobs \in Nat /\ applied \subseteq 1 .. jobs

\* pairing_ui.h:130-135, pairing_ui.cpp:589: a linked device is named after the
\* request of the very job that provisioned it, however jobs, polls and new
\* requests interleave.
LinkFromOneJob == \A k \in Kinds : bridge[k].name = bridge[k].device

\* pairing_ui.h:91-94: the success of a job is applied at most once.
AppliedOnce ==
  [][\A k \in Kinds : pending[k] = NoLink /\ pending'[k] # NoLink
       => pending'[k].job \notin applied]_vars

\* switchbot_keypad_bridge.cpp:245-248: with nothing linked the wizard stays
\* reachable, unless its port could not be opened.
SetupModeReachable == ~Linked("keypad") => server \/ start_failed

\* Between two passes of the loop the one-shot gates of the wizard are those of the
\* bridge: after a reset both devices can be linked again, and only then.
FlagsAgree == pc = "rest" => \A k \in Kinds : linked[k] = Linked(k)

\* A job that succeeded, waits for poll_jobs(), and was not replaced by another.
AwaitsPoll(kind, id) ==
  /\ job[kind].state = "SUCCESS" /\ job[kind].id = id
  /\ armed[kind].job = id /\ ~armed[kind].notified
Settled(kind, id) == bridge[kind].job = id \/ job[kind].id # id

\* pairing_ui.h:91-94: the first keypad's pairing is applied also when the browser
\* has gone, provided the wizard is open.
PairingApplied ==
  \A id \in JobIds :
    AwaitsPoll("keypad", id) /\ server /\ ~linked["keypad"] ~> Settled("keypad", id)

\* pairing_ui.h:91-94: "a pairing/link that completes after the browser disappeared
\* is still applied".
LinkApplied == \A id \in JobIds : AwaitsPoll("lock", id) ~> Settled("lock", id)

\* pairing_ui.cpp:550-552: "Pairing is a one-shot: once confirmed it can only be
\* redone through the Reset button".
PairingIsOneShot ==
  [][job'["keypad"].id # job["keypad"].id => ~Linked("keypad")]_vars

\* README.md:138-140: Reset "forgets the current keypad and lock" and rotates the
\* key: no device provisioned with an earlier key is linked afterwards.
ResetForgetsLinks ==
  [][\A k \in Kinds : bridge'[k] # bridge[k] /\ bridge'[k] # NoLink
       => bridge'[k].key = key']_vars
=============================================================================
