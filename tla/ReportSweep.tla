----------------------------- MODULE ReportSweep -----------------------------
(***************************************************************************)
(* Scheduled reports: the sweep that beat starts every minute              *)
(* (workers/report_task.py), the mail and the webhooks of one firing       *)
(* (services/report_email.py, services/report_webhooks.py).                *)
(*                                                                         *)
(* Time is in minutes.  A cron expression is the set of minutes it names.  *)
(* A sweep slot holds one message and the sweep it becomes.  The rows of   *)
(* report_schedules are written outside the repository; they go with their *)
(* dashboard.                                                              *)
(***************************************************************************)
EXTENDS Integers, FiniteSets

CONSTANTS Schedules,
          Cron,       \* Cron[s]: the minutes of a schedule; {} if it is not valid
          Mailed,     \* schedules with an address to mail to
          Hooks,      \* Hooks[s]: webhook URLs of a schedule
          Malformed,  \* URLs that urlparse rejects with an exception
          MaxTime,    \* bound: the clock
          MaxSweeps,  \* bound: messages and sweeps at a time
          MaxWorkers, \* bound: concurrency of the Celery worker
          Crashes     \* bound: sweeps that die

ASSUME ReportAssumption ==
  /\ Schedules # {}
  /\ MaxTime \in Nat \ {0} /\ MaxSweeps \in Nat \ {0}
  /\ MaxWorkers \in Nat \ {0} /\ Crashes \in Nat
  /\ DOMAIN Cron = Schedules /\ DOMAIN Hooks = Schedules
  /\ \A s \in Schedules : Cron[s] \subseteq 1 .. MaxTime
  /\ Mailed \subseteq Schedules

VARIABLES workers, \* concurrency the deployment has chosen
          now,     \* the clock
          sched,   \* report_schedules rows
          sweep,   \* messages and sweeps
          mails,   \* mails[s][c]: mails sent for minute c (history)
          reached, \* minutes of s that a webhook took, s mailing nobody (history)
          crashes

vars == <<workers, now, sched, sweep, mails, reached, crashes>>
history == <<mails, reached>>

Sweeps == 1 .. MaxSweeps
Time == 0 .. MaxTime
Never == -1
Schedule == [exists : BOOLEAN, fired : Time \cup {Never},
             last : {"none", "ok", "error"}]
Stages == {"free", "queued", "listed", "rendering", "mailing", "posting",
           "sent", "failed"}
NewRow == [exists |-> TRUE, fired |-> Never, last |-> "none"]
NoSweep(s) == [at |-> "free", now |-> 0, rows |-> [r \in Schedules |-> NewRow],
               todo |-> {}, cur |-> s]
Busy == Cardinality({k \in Sweeps : sweep[k].at \notin {"free", "queued"}})

\* Mutant: the next minute after the last firing includes its own.
BaseInclusive(row, t) == (IF row.fired = Never THEN t - 1 ELSE row.fired) - 1
\* Mutant: only the minute that has just begun is looked at.
BaseOneMinute(row, t) == IF row.fired < t - 1 THEN t - 1 ELSE row.fired
\* The next minute of the cron after Base must not lie ahead.
Base(row, t) == IF row.fired = Never THEN t - 1 ELSE row.fired
DueMinutes(s, row, t) == {c \in Cron[s] : Base(row, t) < c /\ c <= t}

Latest(minutes) == CHOOSE c \in minutes : \A d \in minutes : d <= c
\* The minute a firing of sweep k is for.
For(k) == LET s == sweep[k].cur
          IN Latest(DueMinutes(s, sweep[k].rows[s], sweep[k].now))

Init ==
  /\ workers \in 1 .. MaxWorkers
  /\ now = 0
  /\ sched = [s \in Schedules |-> NewRow]
  /\ sweep = [k \in Sweeps |-> NoSweep(CHOOSE s \in Schedules : TRUE)]
  /\ mails = [s \in Schedules |-> [c \in Time |-> 0]]
  /\ reached = [s \in Schedules |-> {}]
  /\ crashes = 0

Moves(k, stage) == sweep' = [sweep EXCEPT ![k].at = stage]
Frees(k) == sweep' = [sweep EXCEPT ![k] = NoSweep(sweep[k].cur)]

\* A minute passes and beat sends a message; at the bound, time stands still.
Minute(k) ==
  /\ sweep[k].at = "free" /\ \A j \in 1 .. (k - 1) : sweep[j].at # "free"
  /\ now' = IF now < MaxTime THEN now + 1 ELSE now
  /\ Moves(k, "queued")
  /\ UNCHANGED <<workers, sched, history, crashes>>

\* The dashboard, its workspace or its owner is deleted.
DeleteSchedule(s) ==
  /\ sched[s].exists
  /\ sched' = [sched EXCEPT ![s].exists = FALSE]
  /\ UNCHANGED <<workers, now, sweep, history, crashes>>

IsDue(s, row, t) == row.exists /\ DueMinutes(s, row, t) # {}

\* _sweep_async reads the clock and the rows once; the rows it has in memory say
\* which of them are due, whatever is committed later.
ListSchedules(k) ==
  /\ sweep[k].at = "queued"
  /\ Busy < workers
  /\ sweep' = [sweep EXCEPT ![k] =
       [@ EXCEPT !.at = "listed", !.now = now, !.rows = sched,
                 !.todo = {s \in Schedules : IsDue(s, sched[s], now)}]]
  /\ UNCHANGED <<workers, now, sched, history, crashes>>

NextSchedule(k, s) ==
  /\ sweep[k].at = "listed"
  /\ s \in sweep[k].todo
  /\ sweep' = [sweep EXCEPT ![k].at = "rendering", ![k].cur = s,
                            ![k].todo = @ \ {s}]
  /\ UNCHANGED <<workers, now, sched, history, crashes>>

\* _fire_one: the dashboard must still exist; a question that fails is a card.
Render(k) ==
  /\ sweep[k].at = "rendering"
  /\ LET s == sweep[k].cur IN
     Moves(k, IF \/ ~sched[s].exists
                 \/ s \notin Mailed /\ Hooks[s] = {} THEN "failed"
              ELSE IF s \in Mailed THEN "mailing" ELSE "posting")
  /\ UNCHANGED <<workers, now, sched, history, crashes>>

Mail(k) ==
  /\ sweep[k].at = "mailing"
  /\ LET s == sweep[k].cur IN
     /\ mails' = [mails EXCEPT ![s][For(k)] = @ + 1]
     /\ Moves(k, IF Hooks[s] = {} THEN "sent" ELSE "posting")
  /\ UNCHANGED <<workers, now, sched, reached, crashes>>

MailFails(k) ==
  /\ sweep[k].at = "mailing"
  /\ Moves(k, "failed")
  /\ UNCHANGED <<workers, now, sched, history, crashes>>

\* Mutant: a firing that reached nobody counts as a success.
PostedAnyway(s, ok) == "sent"
\* Failed posts fail the firing when nothing else was sent and all of them failed.
Posted(s, ok) == IF s \notin Mailed /\ ok = {} THEN "failed" ELSE "sent"

\* fan_out_webhooks posts to one URL after the other.  Each gets an outcome, but
\* for one that cannot be parsed: the exception leaves the loop and _fire_one.
Post(k) ==
  /\ sweep[k].at = "posting"
  /\ LET s == sweep[k].cur
         raises == Hooks[s] \cap Malformed # {}
     IN \E ok \in SUBSET (Hooks[s] \ Malformed) :
          /\ Moves(k, IF raises THEN "failed" ELSE Posted(s, ok))
          /\ reached' = [reached EXCEPT ![s] =
                           IF ok = {} \/ s \in Mailed THEN @ ELSE @ \cup {For(k)}]
  /\ UNCHANGED <<workers, now, sched, mails, crashes>>

\* Only what differs from the row the sweep has read is written.
Fired(k, row) ==
  [row EXCEPT !.fired = sweep[k].now,
              !.last = IF sweep[k].rows[sweep[k].cur].last = "ok" THEN @ ELSE "ok"]

\* Each schedule is committed on its own.  The UPDATE of a row that is gone raises
\* outside the try block and ends the sweep.
MarkOk(k) ==
  /\ sweep[k].at = "sent"
  /\ LET s == sweep[k].cur IN
     \/ /\ sched[s].exists
        /\ sched' = [sched EXCEPT ![s] = Fired(k, @)]
        /\ Moves(k, "listed")
     \/ ~sched[s].exists /\ Frees(k) /\ UNCHANGED sched
  /\ UNCHANGED <<workers, now, history, crashes>>

Failed(row) == [row EXCEPT !.last = "error"]

\* Nothing is written when the error is the one the sweep has read.
MarkFailed(k) ==
  /\ sweep[k].at = "failed"
  /\ LET s == sweep[k].cur IN
     \/ sched[s].exists /\ Moves(k, "listed")
        /\ sched' = [sched EXCEPT ![s] = Failed(@)]
     \/ ~sched[s].exists /\ Frees(k) /\ UNCHANGED sched
     \/ sweep[k].rows[s].last = "error" /\ Moves(k, "listed") /\ UNCHANGED sched
  /\ UNCHANGED <<workers, now, history, crashes>>

EndSweep(k) ==
  /\ sweep[k].at = "listed"
  /\ sweep[k].todo = {}
  /\ Frees(k)
  /\ UNCHANGED <<workers, now, sched, history, crashes>>

\* A worker dies, or the sweep reaches its time limit.
Crash(k) ==
  /\ crashes < Crashes
  /\ sweep[k].at \notin {"free", "queued"}
  /\ Frees(k)
  /\ crashes' = crashes + 1
  /\ UNCHANGED <<workers, now, sched, history>>

SweepStep(k) ==
  \/ ListSchedules(k)
  \/ \E s \in Schedules : NextSchedule(k, s)
  \/ Render(k)
  \/ Mail(k)
  \/ MailFails(k)
  \/ Post(k)
  \/ MarkOk(k)
  \/ MarkFailed(k)
  \/ EndSweep(k)

Next ==
  \/ \E k \in Sweeps : Minute(k) \/ SweepStep(k) \/ Crash(k)
  \/ \E s \in Schedules : DeleteSchedule(s)

Spec == Init /\ [][Next]_vars

\* Beat goes on, and a live worker takes messages in turn.
FairSpec ==
  /\ Spec
  /\ \A k \in Sweeps : WF_vars(Minute(k)) /\ SF_vars(SweepStep(k))

-----------------------------------------------------------------------------
(* Properties *)

\* The type invariant: what a sweep fires for is a minute of the schedule.
TypeOK ==
  /\ workers \in 1 .. MaxWorkers
  /\ now \in Time
  /\ sched \in [Schedules -> Schedule]
  /\ sweep \in [Sweeps -> [at : Stages, now : Time, rows : [Schedules -> Schedule],
                           todo : SUBSET Schedules, cur : Schedules]]
  /\ \A k \in Sweeps :
       sweep[k].at \in {"rendering", "mailing", "posting", "sent", "failed"} =>
         DueMinutes(sweep[k].cur, sweep[k].rows[sweep[k].cur], sweep[k].now) # {}
  /\ mails \in [Schedules -> [Time -> Nat]]
  /\ reached \in [Schedules -> SUBSET Time]
  /\ crashes \in 0 .. Crashes

\* What a firing must do: mail, where the schedule has an address, and else reach
\* one webhook at least.
Delivered(s, c) == IF s \in Mailed THEN mails[s][c] > 0 ELSE c \in reached[s]

\* last_status = 'ok' is the truth: the last firing that was recorded was mailed or,
\* where the schedule mails nobody, taken by a webhook, whatever failed beside it.
OkWasDelivered ==
  \A s \in Schedules :
    sched[s].fired # Never =>
      Delivered(s, Latest({c \in Cron[s] : c <= sched[s].fired}))

\* What a schedule's row and a sweep record is what was sent and what was due.
RecordsTrue == TypeOK /\ OkWasDelivered

\* While sweeps do not overlap and none dies, a schedule is mailed at most once for
\* a minute of its cron: "Commit per schedule so a later failure doesn't roll back
\* the earlier successful sends".  A schedule with a malformed URL is not counted.
OneMailPerMinute ==
  workers = 1 /\ crashes = 0 =>
    \A s \in Schedules :
      Hooks[s] \cap Malformed = {} => \A c \in Time : mails[s][c] <= 1

\* "A broken schedule never poisons the loop": a schedule that fired before and is
\* due again fires, fails on its own account, or goes, although sweeps come late
\* and other schedules are deleted under them.
DueIsTried ==
  \A s \in Schedules : \A c \in Cron[s] :
    sched[s].exists /\ sched[s].fired \in 0 .. (c - 1) /\ now >= c ~>
      sched[s].fired >= c \/ sched[s].last = "error" \/ ~sched[s].exists

-----------------------------------------------------------------------------
(* What the repository says and the code does not do *)

\* report_webhooks.py:14-16 "never lets one bad URL block the others" and
\* report_task.py:243 "Partial failure -- log but treat the firing as a success".
\* A URL that cannot be parsed fails the firing after its mail was sent.
PartialFailureIsSuccess ==
  [][\A k \in Sweeps : \A s \in Schedules :
       sweep[k].at = "posting" /\ sweep[k].cur = s /\ s \in Mailed =>
         sweep'[k].at # "failed"]_vars
=============================================================================
