------------------------- MODULE ScheduleReconciler -------------------------
(***************************************************************************)
(* A scheduled chat: its record in the store, its Schedule in Temporal, and *)
(* the runs started from either.  The API writes the record and reconciles *)
(* once; every worker replica reconciles it again and again.  A pass reads *)
(* the record and applies what it read some remote calls later, so passes  *)
(* overwrite each other with older readings, and any call may fail.        *)
(***************************************************************************)
EXTENDS Naturals, FiniteSets

CONSTANTS
    Loops,       \* the reconcile loops of the worker replicas
    Calls,       \* API requests on the record, each served once
    NoRec, NoSched,
    MaxFailures  \* bound: calls that fail and processes that die

ASSUME CallsAssumption == IsFiniteSet(Calls) /\ Loops \cap Calls = {}
ASSUME FailuresAssumption == MaxFailures \in Nat

VARIABLES
    rec,       \* the scheduled chat's row, or NoRec
    sched,     \* its Schedule in Temporal, or NoSched
    auto,      \* the run the Schedule started (overlap SKIP: one at a time)
    starts,    \* how often a run was started under a request key
    stamp,     \* the last instant handed out
    pass,      \* what each loop and each request is doing
    failures,  \* failures so far
    missed     \* history: requests consumed by a pass that had not read them

recVars  == <<rec, stamp, missed>>
runVars  == <<auto, starts>>
schedVars == <<rec, sched, auto, starts, stamp, pass, failures, missed>>

Procs  == Loops \cup Calls
\* Every request and every successful claim of one takes an instant of its own.
Stamps == 0 .. 2 * Cardinality(Calls)
Never  == 0

\* has_trigger and enabled: without a trigger a record is run by hand only.
Specs    == [trigger : BOOLEAN, enabled : BOOLEAN]
Versions == 1 .. (1 + Cardinality(Calls))
Records  == [ver : Versions, spec : Specs, requested : Stamps, claimed : Stamps,
             sync : {"pending", "synced", "error"}]
Schedules == [ver : Versions, enabled : BOOLEAN]
Stored(v, spec) == [ver |-> v, spec |-> spec, requested |-> Never,
                    claimed |-> Never, sync |-> "pending"]

\* build_schedule: the Schedule a record asks for, paused when it is disabled.
Desired(r) == IF ~r.spec.trigger THEN NoSched
              ELSE [ver |-> r.ver, enabled |-> r.spec.enabled]

\* run_requested: the request is newer than the last claim.
RunRequested(r) == r.requested > r.claimed

\* A loop starts over, a request has been answered.
Rest(p)   == IF p \in Loops THEN "read" ELSE "done"
At(p, s)  == pass[p].at = s
Goes(p, s) == pass' = [pass EXCEPT ![p].at = s]
Rests(p)   == pass' = [pass EXCEPT ![p] = [at |-> Rest(p), seen |-> NoRec]]

SchedInit ==
    /\ rec \in {NoRec, Stored(1, [trigger |-> TRUE, enabled |-> TRUE])} /\ sched = NoSched
    /\ auto = "none" /\ starts = [k \in Stamps |-> 0]
    /\ stamp = Never /\ failures = 0 /\ missed = {}
    /\ pass = [p \in Procs |-> [at |-> IF p \in Loops THEN "read" ELSE "call",
                                seen |-> NoRec]]
-----------------------------------------------------------------------------
(* The requests: create_managed, update_managed, delete_managed, run_managed. *)

\* Ids are drawn anew, so a record that was deleted is not created again.
Create(p) ==
    /\ At(p, "call") /\ rec = NoRec /\ \A q \in Calls : At(q, "call")
    /\ \E spec \in Specs : rec' = Stored(1, spec)
    /\ Goes(p, "read")
    /\ UNCHANGED <<sched, runVars, stamp, failures, missed>>

\* update_scheduled_chat leaves the sync status as it was.
Update(p) ==
    /\ At(p, "call") /\ rec # NoRec
    /\ \E spec \in Specs : rec' = [rec EXCEPT !.ver = @ + 1, !.spec = spec]
    /\ Goes(p, "read")
    /\ UNCHANGED <<sched, runVars, stamp, failures, missed>>

\* The Schedule goes first, and the record only once that has succeeded.
DeleteSchedule(p) ==
    /\ At(p, "call") /\ rec # NoRec
    /\ sched' = NoSched
    /\ Goes(p, "drop")
    /\ UNCHANGED <<recVars, runVars, failures>>
DeleteRecord(p) ==
    /\ At(p, "drop")
    /\ rec' = NoRec                         \* gone already: 404
    /\ Rests(p)
    /\ UNCHANGED <<sched, runVars, stamp, failures, missed>>

\* run_managed records the request, then starts the run under its key.
RequestRun(p) ==
    /\ At(p, "call") /\ rec # NoRec
    /\ stamp' = stamp + 1
    /\ rec' = [rec EXCEPT !.requested = stamp']
    /\ pass' = [pass EXCEPT ![p] = [at |-> "run", seen |-> rec']]
    /\ UNCHANGED <<sched, runVars, failures, missed>>

\* start_workflow refuses an id whose run is open and takes it again once that
\* run has closed, however it ended: no id_reuse_policy is given, and Temporal's
\* default allows duplicates. How long a run is open is anybody's guess.
StartRun(k) ==
    \/ starts' = [starts EXCEPT ![k] = @ + 1]
    \/ starts[k] > 0 /\ UNCHANGED starts

RunNow(p) ==
    /\ At(p, "run")
    /\ StartRun(pass[p].seen.requested)
    /\ Rests(p)
    /\ UNCHANGED <<recVars, sched, auto, failures>>
-----------------------------------------------------------------------------
(* reconcile_by_id, by a loop or at the end of a create or an update. *)

\* Mutant: a pass leaves the requests to the process that recorded them.
ReadUnasked(p) ==
    /\ At(p, "read") /\ rec # NoRec
    /\ pass' = [pass EXCEPT ![p] = [at |-> "apply", seen |-> rec]]
    /\ UNCHANGED <<recVars, sched, runVars, failures>>
Read(p) ==
    /\ At(p, "read") /\ rec # NoRec
    /\ pass' = [pass EXCEPT ![p] =
                  [at |-> IF RunRequested(rec) THEN "start" ELSE "apply", seen |-> rec]]
    /\ UNCHANGED <<recVars, sched, runVars, failures>>
ReadGone(p) ==
    /\ p \in Calls /\ At(p, "read") /\ rec = NoRec
    /\ Rests(p)
    /\ UNCHANGED <<recVars, sched, runVars, failures>>

Start(p) ==
    /\ At(p, "start")
    /\ StartRun(pass[p].seen.requested)
    /\ Goes(p, "claim")
    /\ UNCHANGED <<recVars, sched, auto, failures>>

\* acquire_scheduled_chat_lock compares last_scheduled_at with the reading and
\* sets it to now. The answer is not looked at.
Acquires(p) == rec # NoRec /\ rec.claimed = pass[p].seen.claimed
AcquireLock(p) ==
    /\ At(p, "claim")
    /\ IF Acquires(p)
       THEN /\ stamp' = stamp + 1
            /\ rec' = [rec EXCEPT !.claimed = stamp']
            /\ missed' = IF rec.requested = pass[p].seen.requested THEN missed
                         ELSE missed \cup {rec.requested}
       ELSE UNCHANGED recVars
    /\ Goes(p, "apply")
    /\ UNCHANGED <<sched, runVars, failures>>

\* reconcile: nothing in Temporal for a record without a trigger; otherwise
\* create, with a first run at once when it is enabled and due
\* (_trigger_immediately).
RemoveSchedule(p) ==
    /\ At(p, "apply") /\ Desired(pass[p].seen) = NoSched
    /\ sched' = NoSched
    /\ Goes(p, "report")
    /\ UNCHANGED <<recVars, runVars, failures>>
CreateSchedule(p) ==
    /\ At(p, "apply") /\ Desired(pass[p].seen) # NoSched /\ sched = NoSched
    /\ sched' = Desired(pass[p].seen)
    /\ auto' \in IF auto = "none" /\ sched'.enabled THEN {"none", "fired"} ELSE {auto}
    /\ Goes(p, "report")
    /\ UNCHANGED <<recVars, starts, failures>>
AlreadyRunning(p) ==
    /\ At(p, "apply") /\ Desired(pass[p].seen) # NoSched /\ sched # NoSched
    /\ Goes(p, "update")
    /\ UNCHANGED <<recVars, sched, runVars, failures>>
\* Mutant: a Schedule that is there already is left as it is.
UpdateNothing(p) ==
    /\ At(p, "update")
    /\ Goes(p, "report")
    /\ UNCHANGED <<recVars, sched, runVars, failures>>
\* handle.update fails when the Schedule was deleted in between.
UpdateSchedule(p) ==
    /\ At(p, "update")
    /\ sched' = IF sched = NoSched THEN NoSched ELSE Desired(pass[p].seen)
    /\ Goes(p, IF sched = NoSched THEN "error" ELSE "report")
    /\ UNCHANGED <<recVars, runVars, failures>>

\* set_chat_schedule_sync_status, whoever wrote it last.
Report(p) ==
    /\ pass[p].at \in {"report", "error"}
    /\ rec' = IF rec = NoRec THEN NoRec
              ELSE [rec EXCEPT !.sync = IF At(p, "report") THEN "synced" ELSE "error"]
    /\ Rests(p)
    /\ UNCHANGED <<sched, runVars, stamp, failures, missed>>

\* Any call of a pass may fail, which is recorded, and any process may die.
Fail(p) ==
    /\ failures < MaxFailures
    /\ pass[p].at \in {"start", "claim", "apply", "update", "report"}
    /\ failures' = failures + 1
    /\ Goes(p, "error")
    /\ UNCHANGED <<recVars, sched, runVars>>
Die(p) ==
    /\ failures < MaxFailures
    /\ pass[p].at \notin {"call", "done"}
    /\ failures' = failures + 1
    /\ Rests(p)
    /\ UNCHANGED <<recVars, sched, runVars>>
-----------------------------------------------------------------------------
(* Temporal and the workflows it runs. *)

Fire ==
    /\ sched # NoSched /\ sched.enabled /\ auto = "none"
    /\ auto' = "fired"
    /\ UNCHANGED <<recVars, sched, starts, pass, failures>>
\* Mutant: a firing is executed without another look at the record.
LoadTrusting ==
    /\ auto = "fired"
    /\ auto' = "running"
    /\ UNCHANGED <<recVars, sched, starts, pass, failures>>
\* load_scheduled_chat: a record that is gone or disabled is not run, one that
\* nothing triggers any more is. An enabled one may still be skipped: its watch
\* scans are unchanged, no run falls on this day, its model profile is gone.
Load ==
    /\ auto = "fired"
    /\ auto' \in IF rec # NoRec /\ rec.spec.enabled THEN {"none", "running"} ELSE {"none"}
    /\ UNCHANGED <<recVars, sched, starts, pass, failures>>
AutoEnds ==
    /\ auto = "running"
    /\ auto' = "none"
    /\ UNCHANGED <<recVars, sched, starts, pass, failures>>

Passes(p) ==
    \/ Read(p) \/ Start(p) \/ AcquireLock(p) \/ RemoveSchedule(p) \/ CreateSchedule(p)
    \/ AlreadyRunning(p) \/ UpdateSchedule(p) \/ Report(p)
ServeCall(p) ==
    \/ Create(p) \/ Update(p) \/ DeleteSchedule(p) \/ DeleteRecord(p)
    \/ RequestRun(p) \/ RunNow(p) \/ ReadGone(p) \/ Passes(p)
Temporal == Fire \/ Load \/ AutoEnds

SchedNext ==
    \/ \E p \in Loops : Passes(p)
    \/ \E p \in Calls : ServeCall(p)
    \/ \E p \in Procs : Fail(p) \/ Die(p)
    \/ Temporal

\* Users and failures are under no obligation, nor is a request once it has
\* begun; the loops keep going, and so does Temporal.
SchedFairness ==
    /\ \A p \in Loops : WF_schedVars(Passes(p))
    /\ WF_schedVars(Temporal)
SchedSpec == SchedInit /\ [][SchedNext]_schedVars /\ SchedFairness
-----------------------------------------------------------------------------
Places == {"call", "drop", "run", "read", "start", "claim", "apply", "update",
           "report", "error", "done"}

\* Types, and what a pass carries: it reads before it acts, and only a request
\* newer than its reading's claim makes it start a run.
SchedTypeOK ==
    /\ rec \in Records \cup {NoRec} /\ sched \in Schedules \cup {NoSched}
    /\ auto \in {"none", "fired", "running"}
    /\ starts \in [Stamps -> Nat] /\ stamp \in Stamps /\ failures \in 0 .. MaxFailures
    /\ pass \in [Procs -> [at : Places, seen : Records \cup {NoRec}]]
    /\ missed \subseteq Stamps
    /\ \A p \in Procs : pass[p].at \in {"start", "claim"} =>
          pass[p].seen # NoRec /\ pass[p].seen.requested > pass[p].seen.claimed

\* Whatever older readings passes applied, a record that stays gets the Schedule
\* of its last version, and says that it is in sync.
ScheduleFollowsRecord ==
    <>[](rec # NoRec) =>
        <>[](rec # NoRec /\ sched = Desired(rec) /\ rec.sync = "synced")

\* A record that is gone, disabled or without a trigger for good is not run by
\* its Schedule for ever: an orphan's firings find no record, and what passes
\* with older readings left in Temporal is put right.
Wanted == rec # NoRec /\ rec.spec.trigger /\ rec.spec.enabled
UnwantedRunsEnd == <>[]~Wanted => <>[](auto # "running")

\* A request to run is served although the process that recorded it dies, unless
\* a later request replaces it or a pass that had not read it consumes it.
Unserved == /\ rec # NoRec /\ rec.requested # Never
            /\ starts[rec.requested] = 0 /\ rec.requested \notin missed
RequestIsServed == Unserved ~> ~Unserved

\* run_managed: "Starting is idempotent per request key, so the recovery path
\* cannot produce a second run."
RunOncePerRequest == \A k \in Stamps : starts[k] <= 1
=============================================================================
