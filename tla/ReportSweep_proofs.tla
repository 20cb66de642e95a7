------------------------- MODULE ReportSweep_proofs -------------------------
(***************************************************************************)
(* Proofs about ReportSweep for every number of schedules, sweeps, workers *)
(* and crashes.  OkWasDelivered needs to know that a sweep which is about  *)
(* to record a success has delivered it (DeliveredInv).                    *)
(***************************************************************************)
EXTENDS ReportSweep, TLAPS, FiniteSetTheorems, WellFoundedInduction

SweepRecord == [at : Stages, now : Time, rows : [Schedules -> Schedule],
                todo : SUBSET Schedules, cur : Schedules]

\* The stages of a firing.
Firing == {"rendering", "mailing", "posting", "sent", "failed"}

\* What sweep k read says that s is due.
DueFor(k, s) == DueMinutes(s, sweep[k].rows[s], sweep[k].now) # {}

\* A sweep fires what it has listed, and it lists what is due.
TodoInv ==
  \A k \in Sweeps : \A s \in sweep[k].todo : DueFor(k, s)

\* The minute of a firing is delivered once it counts as sent; a mail is enough.
DeliveredInv ==
  \A k \in Sweeps :
    /\ sweep[k].at = "mailing" => sweep[k].cur \in Mailed
    /\ \/ sweep[k].at = "sent"
       \/ sweep[k].at = "posting" /\ sweep[k].cur \in Mailed
       => Delivered(sweep[k].cur, For(k))

\* OkWasDelivered, and that there is such a minute.
OkInv ==
  \A s \in Schedules :
    sched[s].fired # Never =>
      /\ {c \in Cron[s] : c <= sched[s].fired} # {}
      /\ Delivered(s, Latest({c \in Cron[s] : c <= sched[s].fired}))

IInv == TypeOK /\ TodoInv /\ DeliveredInv /\ OkInv

\* A step that takes no mail and no post back.
StayDelivered ==
  \A s \in Schedules : \A c \in Time : Delivered(s, c) => Delivered(s, c)'

LEMMA NothingTakenBack == UNCHANGED <<mails, reached>> => StayDelivered
BY DEF StayDelivered, Delivered

-----------------------------------------------------------------------------
(* Minutes *)

\* A nonempty set of minutes has a last one.
LEMMA LastMinute ==
  ASSUME NEW n \in Nat, NEW S, S \subseteq 1 .. n, S # {}
  PROVE  \E c \in S : \A d \in S : d <= c
<1> DEFINE T == {n - c : c \in S}
<1>1. PICK e \in S : TRUE
  OBVIOUS
<1>2. T \subseteq Nat
  OBVIOUS
<1>3. n - e \in T
  BY <1>1
<1>4. PICK x \in T : \A y \in T : ~ (<<y, x>> \in OpToRel(<, Nat))
  BY <1>2, <1>3, WFMin, NatLessThanWellFounded
<1>5. \A y \in T : ~(y < x)
  BY <1>2, <1>4 DEF OpToRel
<1>6. PICK c \in S : x = n - c
  OBVIOUS
<1>7. ASSUME NEW d \in S PROVE d <= c
  <2>1. n - d \in T /\ d \in 1 .. n /\ c \in 1 .. n
    OBVIOUS
  <2>2. ~(n - d < n - c)
    BY <2>1, <1>5, <1>6
  <2>3. QED BY <2>1, <2>2
<1>8. QED BY <1>7

LEMMA LatestFacts ==
  ASSUME NEW n \in Nat, NEW S, S \subseteq 1 .. n, S # {}
  PROVE  Latest(S) \in S /\ \A d \in S : d <= Latest(S)
BY LastMinute DEF Latest

\* The last minute after b is the last minute, if there is one after b.
LEMMA LatestAfter ==
  ASSUME NEW n \in Nat, NEW S, S \subseteq 1 .. n, NEW b \in Int,
         NEW D, D = {c \in S : b < c}, D # {}
  PROVE  Latest(D) = Latest(S)
<1>1. /\ Latest(D) \in D /\ \A d \in D : d <= Latest(D)
      /\ Latest(S) \in S /\ \A d \in S : d <= Latest(S)
  BY LatestFacts
<1>2. Latest(D) \in S /\ b < Latest(D)
  BY <1>1
<1>3. Latest(D) <= Latest(S) /\ Latest(S) \in 1 .. n /\ Latest(D) \in 1 .. n
  BY <1>1, <1>2
<1>4. Latest(S) \in D
  BY <1>1, <1>2, <1>3
<1>5. QED BY <1>1, <1>3, <1>4

\* The minute of a firing is one of the schedule, after the last firing the sweep
\* knows of and not after its clock; no later minute of the schedule has begun.
LEMMA DueFacts ==
  ASSUME TypeOK, NEW k \in Sweeps, DueFor(k, sweep[k].cur)
  PROVE  LET s == sweep[k].cur IN
         /\ For(k) \in Cron[s] /\ For(k) \in Time
         /\ Base(sweep[k].rows[s], sweep[k].now) < For(k)
         /\ For(k) <= sweep[k].now
         /\ For(k) = Latest({c \in Cron[s] : c <= sweep[k].now})
<1> DEFINE s == sweep[k].cur
<1> DEFINE D == DueMinutes(s, sweep[k].rows[s], sweep[k].now)
<1> DEFINE E == {c \in Cron[s] : c <= sweep[k].now}
<1>1. /\ s \in Schedules /\ sweep[k].now \in Time
      /\ sweep[k].rows[s] \in Schedule
      /\ Cron[s] \subseteq 1 .. MaxTime /\ MaxTime \in Nat
  BY ReportAssumption DEF TypeOK
<1>2. D \subseteq 1 .. MaxTime /\ D # {} /\ D \subseteq E /\ E \subseteq 1 .. MaxTime
  BY <1>1 DEF DueMinutes, DueFor
<1>3. For(k) = Latest(D)
  BY DEF For
<1>4. Latest(D) \in D /\ \A d \in D : d <= Latest(D)
  BY <1>1, <1>2, LatestFacts
<1>5. Base(sweep[k].rows[s], sweep[k].now) \in Int
  BY <1>1 DEF Base, Schedule, Time, Never
<1>6. /\ Latest(D) \in Cron[s]
      /\ Base(sweep[k].rows[s], sweep[k].now) < Latest(D)
      /\ Latest(D) <= sweep[k].now
  BY <1>4 DEF DueMinutes
<1>7. Latest(D) = Latest(E)
  <2>1. D = {c \in E : Base(sweep[k].rows[s], sweep[k].now) < c}
    BY DEF DueMinutes
  <2>2. QED BY <1>1, <1>2, <1>5, <2>1, LatestAfter
<1>8. Latest(D) \in Time
  BY <1>1, <1>6 DEF Time
<1>9. QED BY <1>3, <1>6, <1>7, <1>8

-----------------------------------------------------------------------------
(* Steps of a sweep *)

LEMMA SweepTyped == TypeOK => sweep \in [Sweeps -> SweepRecord]
BY DEF TypeOK, SweepRecord

\* A sweep that moves keeps what it has read.
LEMMA MovesFacts ==
  ASSUME TypeOK, NEW k \in Sweeps, NEW stage \in Stages, Moves(k, stage)
  PROVE  /\ sweep' \in [Sweeps -> SweepRecord]
         /\ sweep'[k].at = stage /\ sweep'[k].now = sweep[k].now
         /\ sweep'[k].rows = sweep[k].rows /\ sweep'[k].cur = sweep[k].cur
         /\ sweep'[k].todo = sweep[k].todo
         /\ \A j \in Sweeps \ {k} : sweep'[j] = sweep[j]
BY SweepTyped DEF Moves, SweepRecord

\* A sweep that ends forgets it.
LEMMA FreesFacts ==
  ASSUME TypeOK, NEW k \in Sweeps, Frees(k)
  PROVE  /\ sweep' \in [Sweeps -> SweepRecord]
         /\ sweep'[k].at = "free" /\ sweep'[k].todo = {}
         /\ \A j \in Sweeps \ {k} : sweep'[j] = sweep[j]
<1>1. NoSweep(sweep[k].cur) \in SweepRecord
  BY SweepTyped, ReportAssumption
  DEF NoSweep, NewRow, SweepRecord, Schedule, Stages, Time, Never
<1>2. /\ NoSweep(sweep[k].cur).at = "free" /\ NoSweep(sweep[k].cur).todo = {}
  BY DEF NoSweep
<1>3. QED BY <1>1, <1>2, SweepTyped DEF Frees

\* The invariants that speak of one sweep only, sweep by sweep.
SweepInv(k) ==
  /\ sweep[k].at \in Firing => DueFor(k, sweep[k].cur)
  /\ \A s \in sweep[k].todo : DueFor(k, s)
  /\ sweep[k].at = "mailing" => sweep[k].cur \in Mailed
  /\ \/ sweep[k].at = "sent"
     \/ sweep[k].at = "posting" /\ sweep[k].cur \in Mailed
     => Delivered(sweep[k].cur, For(k))

LEMMA SweepInvFacts ==
  IInv => \A k \in Sweeps : SweepInv(k)
BY DEF IInv, TypeOK, TodoInv, DeliveredInv, SweepInv, Firing, DueFor

\* A step of sweep k leaves the others as they were; what was reached stays reached.
LEMMA OtherSweeps ==
  ASSUME IInv, NEW j \in Sweeps, sweep'[j] = sweep[j],
         StayDelivered
  PROVE  SweepInv(j)'
<1>1. SweepInv(j) /\ sweep[j].cur \in Schedules
  BY SweepInvFacts DEF IInv, TypeOK
<1>2. For(j)' = For(j)
  BY DEF For, DueMinutes, Base
<1>3. \A s \in Schedules : DueFor(j, s)' = DueFor(j, s)
  BY DEF DueFor, DueMinutes, Base
<1>4. sweep[j].todo \subseteq Schedules
  BY DEF IInv, TypeOK
<1>5. ASSUME sweep[j].at \in Firing, Delivered(sweep[j].cur, For(j))
      PROVE  Delivered(sweep[j].cur, For(j))'
  <2>1. For(j) \in Time
    BY <1>1, <1>5, DueFacts DEF SweepInv, IInv
  <2>2. Delivered(sweep[j].cur, For(j)) => Delivered(sweep[j].cur, For(j))'
    BY <1>1, <1>2, <2>1 DEF StayDelivered, Delivered
  <2>3. QED BY <1>5, <2>2
<1>6. QED BY <1>1, <1>2, <1>3, <1>4, <1>5 DEF SweepInv, Firing

\* The parts of the type invariant that are not about one sweep.
RestTyped ==
  /\ workers \in 1 .. MaxWorkers
  /\ now \in Time
  /\ sched \in [Schedules -> Schedule]
  /\ mails \in [Schedules -> [Time -> Nat]]
  /\ reached \in [Schedules -> SUBSET Time]
  /\ crashes \in 0 .. Crashes

LEMMA RestFacts == IInv => RestTyped
BY DEF IInv, TypeOK, RestTyped

LEMMA InitIInv == Init => IInv
<1> SUFFICES ASSUME Init PROVE IInv
  OBVIOUS
<1> DEFINE z == CHOOSE s \in Schedules : TRUE
<1>1. z \in Schedules
  BY ReportAssumption
<1>2. NewRow \in Schedule /\ NewRow.fired = Never
  BY DEF NewRow, Schedule
<1>3. NoSweep(z) \in SweepRecord /\ NoSweep(z).at = "free" /\ NoSweep(z).todo = {}
  BY <1>1, <1>2, ReportAssumption DEF NoSweep, SweepRecord, Stages, Time
<1>4. sweep \in [Sweeps -> SweepRecord]
  BY <1>3 DEF Init
<1>5. \A k \in Sweeps : sweep[k].at = "free" /\ sweep[k].todo = {}
  BY <1>3 DEF Init
<1>6. TypeOK
  BY <1>2, <1>4, <1>5, ReportAssumption DEF Init, TypeOK, SweepRecord, Time
<1>7. TodoInv /\ DeliveredInv
  BY <1>5 DEF TodoInv, DeliveredInv
<1>8. OkInv
  BY <1>2 DEF Init, OkInv
<1>9. QED BY <1>6, <1>7, <1>8 DEF IInv

\* A step of sweep k preserves IInv if what it leaves of k is sound and what it
\* writes is.
LEMMA StepOf ==
  ASSUME IInv, NEW k \in Sweeps,
         sweep' \in [Sweeps -> SweepRecord],
         \A j \in Sweeps \ {k} : sweep'[j] = sweep[j],
         StayDelivered,
         SweepInv(k)', RestTyped', OkInv'
  PROVE  IInv'
<1>1. \A j \in Sweeps : SweepInv(j)'
  BY OtherSweeps
<1>2. TypeOK'
  BY <1>1 DEF TypeOK, RestTyped, SweepInv, SweepRecord, Firing, DueFor
<1>3. TodoInv' /\ DeliveredInv'
  BY <1>1 DEF TodoInv, DeliveredInv, SweepInv
<1>4. QED BY <1>2, <1>3 DEF IInv

\* A step that records no firing leaves the recorded ones delivered.
LEMMA OkStays ==
  ASSUME IInv, \A s \in Schedules : sched'[s].fired = sched[s].fired,
         StayDelivered
  PROVE  OkInv'
<1> SUFFICES ASSUME NEW s \in Schedules, sched[s].fired # Never
             PROVE  LET D == {c \in Cron[s] : c <= sched[s].fired}
                    IN D # {} /\ Delivered(s, Latest(D))'
  BY DEF OkInv
<1> DEFINE D == {c \in Cron[s] : c <= sched[s].fired}
<1>1. D # {} /\ Delivered(s, Latest(D))
  BY DEF IInv, OkInv
<1>2. Latest(D) \in Time
  BY <1>1, LatestFacts, ReportAssumption DEF Time
<1>3. QED BY <1>1, <1>2 DEF StayDelivered, Delivered

\* A sweep that moves on with what it has read keeps its minute.
LEMMA SameReading ==
  ASSUME NEW k \in Sweeps, sweep'[k].now = sweep[k].now,
         sweep'[k].rows = sweep[k].rows, sweep'[k].cur = sweep[k].cur
  PROVE  /\ For(k)' = For(k)
         /\ \A s \in Schedules : DueFor(k, s)' = DueFor(k, s)
BY DEF For, DueFor, DueMinutes, Base

\* A sweep that ends leaves nothing to keep.
LEMMA FreeSweep ==
  ASSUME NEW k \in Sweeps, sweep'[k].at = "free", sweep'[k].todo = {}
  PROVE  SweepInv(k)'
BY DEF SweepInv, Firing

-----------------------------------------------------------------------------
(* One lemma per step *)

LEMMA MinuteStep ==
  ASSUME IInv, NEW k \in Sweeps, Minute(k)
  PROVE  IInv'
<1>1. TypeOK /\ SweepInv(k) /\ sweep[k].at = "free"
  BY SweepInvFacts DEF IInv, Minute
<1>2. /\ sweep' \in [Sweeps -> SweepRecord]
      /\ sweep'[k].at = "queued" /\ sweep'[k].now = sweep[k].now
      /\ sweep'[k].rows = sweep[k].rows /\ sweep'[k].cur = sweep[k].cur
      /\ sweep'[k].todo = sweep[k].todo
      /\ \A j \in Sweeps \ {k} : sweep'[j] = sweep[j]
  BY <1>1, MovesFacts DEF Minute, Stages
<1>3. sweep[k].todo \subseteq Schedules
  BY <1>1 DEF TypeOK
<1>4. SweepInv(k)'
  BY <1>1, <1>2, <1>3, SameReading DEF SweepInv, Firing
<1>5. RestTyped'
  BY RestFacts, ReportAssumption, SMTT(30) DEF Minute, RestTyped, history, Time
<1>6. OkInv'
  BY OkStays, NothingTakenBack DEF Minute, history
<1>7. QED BY <1>2, <1>4, <1>5, <1>6, StepOf, NothingTakenBack DEF Minute, history

LEMMA DeleteScheduleStep ==
  ASSUME IInv, NEW s \in Schedules, DeleteSchedule(s)
  PROVE  IInv'
<1>1. /\ UNCHANGED <<workers, now, sweep, mails, reached, crashes>>
      /\ sched' \in [Schedules -> Schedule]
      /\ \A r \in Schedules : sched'[r].fired = sched[r].fired
  BY ZenonT(30) DEF DeleteSchedule, IInv, TypeOK, Schedule, history
<1>2. OkInv'
  BY <1>1, OkStays, NothingTakenBack
<1>3. TypeOK'
  BY <1>1 DEF IInv, TypeOK, DueMinutes, Base
<1>4. TodoInv' /\ DeliveredInv'
  BY <1>1 DEF IInv, TodoInv, DeliveredInv, DueFor, For, DueMinutes, Base, Delivered
<1>5. QED BY <1>2, <1>3, <1>4 DEF IInv

LEMMA ListSchedulesStep ==
  ASSUME IInv, NEW k \in Sweeps, ListSchedules(k)
  PROVE  IInv'
<1> DEFINE due == {s \in Schedules : IsDue(s, sched[s], now)}
<1>1. /\ sweep[k] \in SweepRecord
      /\ sweep' = [sweep EXCEPT ![k] =
                     [sweep[k] EXCEPT !.at = "listed", !.now = now, !.rows = sched,
                                      !.todo = due]]
      /\ UNCHANGED <<workers, now, sched, mails, reached, crashes>>
  BY SweepTyped DEF ListSchedules, IInv, history
<1>2. /\ sweep'[k] \in SweepRecord
      /\ sweep'[k].at = "listed" /\ sweep'[k].now = now
      /\ sweep'[k].rows = sched /\ sweep'[k].todo = due
      /\ \A j \in Sweeps \ {k} : sweep'[j] = sweep[j]
      /\ sweep' \in [Sweeps -> SweepRecord]
  BY <1>1, SweepTyped DEF SweepRecord, IInv, TypeOK, Stages
<1>3. SweepInv(k)'
  BY <1>2 DEF SweepInv, Firing, DueFor, IsDue
<1>4. RestTyped' /\ OkInv'
  BY <1>1, RestFacts, OkStays, NothingTakenBack DEF RestTyped
<1>5. QED BY <1>1, <1>2, <1>3, <1>4, StepOf, NothingTakenBack

LEMMA NextScheduleStep ==
  ASSUME IInv, NEW k \in Sweeps, NEW s \in Schedules, NextSchedule(k, s)
  PROVE  IInv'
<1>1. /\ sweep[k] \in SweepRecord /\ s \in sweep[k].todo /\ SweepInv(k)
      /\ UNCHANGED <<workers, now, sched, mails, reached, crashes>>
  BY SweepTyped, SweepInvFacts DEF NextSchedule, IInv, history
<1>2. /\ sweep'[k].at = "rendering" /\ sweep'[k].now = sweep[k].now
      /\ sweep'[k].rows = sweep[k].rows /\ sweep'[k].cur = s
      /\ sweep'[k].todo = sweep[k].todo \ {s}
      /\ \A j \in Sweeps \ {k} : sweep'[j] = sweep[j]
      /\ sweep' \in [Sweeps -> SweepRecord]
  BY <1>1, SweepTyped DEF NextSchedule, SweepRecord, IInv, Stages
<1>3. \A r \in Schedules : DueFor(k, r)' = DueFor(k, r)
  BY <1>2 DEF DueFor, DueMinutes, Base
<1>4. SweepInv(k)'
  BY <1>1, <1>2, <1>3 DEF SweepInv, SweepRecord, Firing
<1>5. RestTyped' /\ OkInv'
  BY <1>1, RestFacts, OkStays, NothingTakenBack DEF RestTyped
<1>6. QED BY <1>1, <1>2, <1>4, <1>5, StepOf, NothingTakenBack

\* A firing that moves on keeps its minute, which stays due.
LEMMA FiringMoves ==
  ASSUME IInv, NEW k \in Sweeps, NEW stage \in Stages, sweep[k].at \in Firing,
         Moves(k, stage),
         StayDelivered,
         \/ stage = "sent" \/ (stage = "posting" /\ sweep[k].cur \in Mailed)
           => Delivered(sweep[k].cur, For(k))',
         stage = "mailing" => sweep[k].cur \in Mailed,
         RestTyped', OkInv'
  PROVE  IInv'
<1>1. TypeOK /\ SweepInv(k) /\ sweep[k].cur \in Schedules /\ sweep[k].todo \subseteq Schedules
  BY SweepInvFacts DEF IInv, TypeOK
<1>2. /\ sweep' \in [Sweeps -> SweepRecord]
      /\ sweep'[k].at = stage /\ sweep'[k].now = sweep[k].now
      /\ sweep'[k].rows = sweep[k].rows /\ sweep'[k].cur = sweep[k].cur
      /\ sweep'[k].todo = sweep[k].todo
      /\ \A j \in Sweeps \ {k} : sweep'[j] = sweep[j]
  BY <1>1, MovesFacts
<1>3. SweepInv(k)'
  BY <1>1, <1>2, SameReading DEF SweepInv
<1>4. QED BY <1>2, <1>3, StepOf, NothingTakenBack

LEMMA RenderStep ==
  ASSUME IInv, NEW k \in Sweeps, Render(k)
  PROVE  IInv'
<1>1. /\ UNCHANGED <<workers, now, sched, mails, reached, crashes>>
      /\ sweep[k].at = "rendering"
  BY DEF Render, history
<1>2. RestTyped' /\ OkInv'
  BY <1>1, RestFacts, OkStays, NothingTakenBack DEF RestTyped
<1>3. PICK stage \in {"failed", "mailing", "posting"} :
        /\ Moves(k, stage)
        /\ stage = "posting" => sweep[k].cur \notin Mailed
        /\ stage = "mailing" => sweep[k].cur \in Mailed
  BY DEF Render
<1>4. QED BY <1>1, <1>2, <1>3, FiringMoves, NothingTakenBack DEF Firing, Stages

LEMMA MailSteps ==
  ASSUME IInv, NEW k \in Sweeps, Mail(k) \/ MailFails(k)
  PROVE  IInv'
<1> DEFINE s == sweep[k].cur
<1>1. /\ UNCHANGED <<workers, now, sched, crashes>>
      /\ sweep[k].at = "mailing" /\ sweep[k].at \in Firing
  BY DEF Mail, MailFails, history, Firing
<1>2. s \in Schedules /\ s \in Mailed /\ For(k) \in Time
  BY <1>1, SweepInvFacts, DueFacts DEF IInv, TypeOK, SweepInv
<1>3. CASE Mail(k)
  <2>1. /\ mails' = [mails EXCEPT ![s][For(k)] = @ + 1]
        /\ UNCHANGED reached
        /\ Moves(k, "sent") \/ Moves(k, "posting")
    BY <1>3 DEF Mail
  <2>2. /\ mails' \in [Schedules -> [Time -> Nat]]
        /\ mails'[s][For(k)] = mails[s][For(k)] + 1
        /\ \A r \in Schedules, c \in Time : mails'[r][c] >= mails[r][c]
    BY <2>1, <1>2 DEF IInv, TypeOK
  <2>3. StayDelivered
    <3> SUFFICES ASSUME NEW r \in Schedules, NEW c \in Time, Delivered(r, c)
                 PROVE  Delivered(r, c)'
      BY DEF StayDelivered
    <3>1. mails[r][c] \in Nat /\ mails'[r][c] \in Nat /\ mails'[r][c] >= mails[r][c]
      BY <2>2 DEF IInv, TypeOK
    <3>2. QED BY <3>1, <2>1 DEF Delivered
  <2>4. mails[s][For(k)] \in Nat
    BY <1>2 DEF IInv, TypeOK
  <2>5. (For(k))' = For(k) /\ (sweep[k].cur)' = s
    BY <2>1, <1>1, MovesFacts, SameReading DEF Stages, IInv
  <2>6. Delivered(s, For(k))'
    BY <2>2, <2>4, <2>5, <1>2 DEF Delivered
  <2>7. RestTyped' /\ OkInv'
    BY <1>1, <2>1, <2>2, <2>3, RestFacts, OkStays DEF RestTyped
  <2>8. QED BY <1>1, <1>2, <2>1, <2>3, <2>6, <2>7, FiringMoves DEF Stages
<1>4. CASE MailFails(k)
  <2>1. Moves(k, "failed") /\ UNCHANGED <<mails, reached>>
    BY <1>4 DEF MailFails, history
  <2>2. RestTyped' /\ OkInv'
    BY <1>1, <2>1, RestFacts, OkStays, NothingTakenBack DEF RestTyped
  <2>3. QED BY <1>1, <2>1, <2>2, FiringMoves, NothingTakenBack DEF Stages
<1>5. QED BY <1>3, <1>4

LEMMA PostStep ==
  ASSUME IInv, NEW k \in Sweeps, Post(k)
  PROVE  IInv'
<1> DEFINE s == sweep[k].cur
<1>1. /\ UNCHANGED <<workers, now, sched, mails, crashes>>
      /\ sweep[k].at = "posting" /\ sweep[k].at \in Firing
  BY DEF Post, Firing
<1>2. /\ s \in Schedules /\ For(k) \in Time
      /\ s \in Mailed => Delivered(s, For(k))
  BY <1>1, SweepInvFacts, DueFacts DEF IInv, TypeOK, SweepInv
<1>3. PICK ok \in SUBSET (Hooks[s] \ Malformed), stage \in {"failed", "sent"} :
        /\ Moves(k, stage)
        /\ stage = "sent" => s \in Mailed \/ ok # {}
        /\ reached' = [reached EXCEPT ![s] =
                         IF ok = {} \/ s \in Mailed THEN @ ELSE @ \cup {For(k)}]
  BY DEF Post, Posted
<1>4. /\ reached' \in [Schedules -> SUBSET Time]
      /\ ok # {} /\ s \notin Mailed => For(k) \in reached'[s]
      /\ \A r \in Schedules : reached[r] \subseteq reached'[r]
  BY <1>2, <1>3 DEF IInv, TypeOK
<1>5. StayDelivered
  BY <1>1, <1>4 DEF StayDelivered, Delivered
<1>6. RestTyped' /\ OkInv'
  BY <1>1, <1>4, <1>5, RestFacts, OkStays DEF RestTyped
<1>7. (For(k))' = For(k) /\ (sweep[k].cur)' = s
  BY <1>1, <1>3, MovesFacts, SameReading DEF Stages, IInv
<1>8. stage = "sent" => Delivered(s, For(k))'
  <2>1. CASE s \in Mailed
    BY <2>1, <1>1, <1>2, <1>7 DEF Delivered
  <2>2. CASE s \notin Mailed
    BY <2>2, <1>3, <1>4, <1>7 DEF Delivered
  <2>3. QED BY <2>1, <2>2
<1>9. QED BY <1>1, <1>3, <1>5, <1>6, <1>8, FiringMoves DEF Stages

\* A success is recorded for the minute the firing was for.
LEMMA MarkOkStep ==
  ASSUME IInv, NEW k \in Sweeps, MarkOk(k)
  PROVE  IInv'
<1> DEFINE s == sweep[k].cur
<1>1. /\ UNCHANGED <<workers, now, mails, reached, crashes>>
      /\ sweep[k].at = "sent" /\ sweep[k].at \in Firing
      /\ TypeOK
  BY DEF MarkOk, history, Firing, IInv
<1>2. /\ s \in Schedules /\ Delivered(s, For(k)) /\ For(k) \in Cron[s]
      /\ For(k) <= sweep[k].now
      /\ For(k) = Latest({c \in Cron[s] : c <= sweep[k].now})
      /\ sweep[k].now \in Time
  BY <1>1, SweepInvFacts, DueFacts DEF TypeOK, SweepInv
<1>3. CASE Moves(k, "listed") /\ sched' = [sched EXCEPT ![s] = Fired(k, @)]
  <2>1. /\ Fired(k, sched[s]) \in Schedule
        /\ Fired(k, sched[s]).fired = sweep[k].now
    <3>1. sched[s] \in Schedule
      BY <1>1, <1>2 DEF TypeOK
    <3>2. QED BY <3>1, <1>2 DEF Fired, Schedule
  <2>2. /\ sched' \in [Schedules -> Schedule]
        /\ sched'[s].fired = sweep[k].now
        /\ \A r \in Schedules \ {s} : sched'[r] = sched[r]
    BY <1>1, <1>2, <1>3, <2>1 DEF TypeOK
  <2>3. OkInv'
    <3> SUFFICES ASSUME NEW r \in Schedules, sched'[r].fired # Never
                 PROVE  LET D == {c \in Cron[r] : c <= sched'[r].fired}
                        IN D # {} /\ Delivered(r, Latest(D))
      BY <1>1 DEF OkInv, Delivered
    <3>2. CASE r = s
      BY <1>2, <2>2, <3>2
    <3>3. CASE r # s
      BY <2>2, <3>3 DEF IInv, OkInv
    <3>4. QED BY <3>2, <3>3
  <2>4. RestTyped'
    BY <1>1, <2>2, RestFacts DEF RestTyped
  <2>5. QED BY <1>1, <1>3, <2>3, <2>4, FiringMoves, NothingTakenBack DEF Stages
<1>4. CASE Frees(k) /\ UNCHANGED sched
  <2>1. RestTyped' /\ OkInv'
    BY <1>1, <1>4, RestFacts, OkStays, NothingTakenBack DEF RestTyped
  <2>2. QED BY <1>1, <1>4, <2>1, FreesFacts, FreeSweep, StepOf, NothingTakenBack
<1>5. QED BY <1>3, <1>4 DEF MarkOk

LEMMA MarkFailedStep ==
  ASSUME IInv, NEW k \in Sweeps, MarkFailed(k)
  PROVE  IInv'
<1> DEFINE s == sweep[k].cur
<1>1. /\ UNCHANGED <<workers, now, mails, reached, crashes>>
      /\ sweep[k].at = "failed" /\ sweep[k].at \in Firing
      /\ TypeOK /\ s \in Schedules
  BY DEF MarkFailed, history, Firing, IInv, TypeOK
<1>2. /\ sched' \in [Schedules -> Schedule]
      /\ \A r \in Schedules : sched'[r].fired = sched[r].fired
  <2>1. /\ Failed(sched[s]) \in Schedule
        /\ Failed(sched[s]).fired = sched[s].fired
    <3>1. sched[s] \in Schedule
      BY <1>1 DEF TypeOK
    <3>2. QED BY <3>1 DEF Failed, Schedule
  <2>2. CASE UNCHANGED sched
    BY <1>1, <2>2 DEF TypeOK
  <2>3. CASE sched' = [sched EXCEPT ![s] = Failed(sched[s])]
    BY <1>1, <2>1, <2>3 DEF TypeOK
  <2>4. QED BY <2>2, <2>3 DEF MarkFailed
<1>3. RestTyped' /\ OkInv'
  BY <1>1, <1>2, RestFacts, OkStays, NothingTakenBack DEF RestTyped
<1>4. CASE Moves(k, "listed")
  BY <1>1, <1>3, <1>4, FiringMoves, NothingTakenBack DEF Stages
<1>5. CASE Frees(k)
  BY <1>1, <1>3, <1>5, FreesFacts, FreeSweep, StepOf, NothingTakenBack
<1>6. QED BY <1>4, <1>5 DEF MarkFailed

LEMMA EndSteps ==
  ASSUME IInv, NEW k \in Sweeps, EndSweep(k) \/ Crash(k)
  PROVE  IInv'
<1>1. /\ UNCHANGED <<workers, now, sched, mails, reached>>
      /\ crashes' \in 0 .. Crashes /\ Frees(k) /\ TypeOK
  BY ReportAssumption DEF EndSweep, Crash, history, IInv, TypeOK
<1>2. RestTyped' /\ OkInv'
  BY <1>1, RestFacts, OkStays, NothingTakenBack DEF RestTyped
<1>3. QED BY <1>1, <1>2, FreesFacts, FreeSweep, StepOf, NothingTakenBack

LEMMA StepIInv ==
  ASSUME IInv, [Next]_vars
  PROVE  IInv'
<1>1. CASE \E k \in Sweeps : Minute(k) \/ SweepStep(k) \/ Crash(k)
  BY <1>1, MinuteStep, ListSchedulesStep, NextScheduleStep, RenderStep, MailSteps,
     PostStep, MarkOkStep, MarkFailedStep, EndSteps DEF SweepStep
<1>2. CASE \E s \in Schedules : DeleteSchedule(s)
  BY <1>2, DeleteScheduleStep
<1>3. CASE UNCHANGED vars
  BY <1>3 DEF vars, history, IInv, TypeOK, TodoInv, DeliveredInv, OkInv, Delivered,
              DueFor, For, DueMinutes, Base
<1>4. QED BY <1>1, <1>2, <1>3 DEF Next

THEOREM Invariance == Spec => []IInv
<1>1. Init => IInv
  BY InitIInv
<1>2. IInv /\ [Next]_vars => IInv'
  BY StepIInv
<1>3. QED BY <1>1, <1>2, PTL DEF Spec

\* report_task.py:69-72: a success is recorded only for a minute for which a mail
\* went out or, where the schedule mails nobody, a webhook took the report, for any
\* number of overlapping sweeps.
THEOREM RecordsAreTrue == Spec => []RecordsTrue
<1>1. IInv => RecordsTrue
  BY DEF IInv, RecordsTrue, OkInv, OkWasDelivered
<1>2. QED BY <1>1, Invariance, PTL

-----------------------------------------------------------------------------
(* One mail for a minute, when one worker runs and none dies *)

\* Sweep k is not running.
Idle(k) == sweep[k].at \in {"free", "queued"}

\* The schedule sweep k is firing, and those it has yet to mail.
Current(k) == IF sweep[k].at \in Firing THEN {sweep[k].cur} ELSE {}
Pending(k) ==
  sweep[k].todo \cup (IF sweep[k].at \in {"rendering", "mailing"}
                      THEN {sweep[k].cur} ELSE {})

\* A sweep that runs alone knows when each schedule it has yet to record last fired.
AloneInv(k) ==
  /\ Idle(k) => sweep[k].todo = {}
  /\ sweep[k].at \in Firing => sweep[k].cur \notin sweep[k].todo
  /\ \A s \in sweep[k].todo \cup Current(k) :
       sweep[k].rows[s].fired = sched[s].fired
  /\ sweep[k].at = "mailing" => sweep[k].cur \in Mailed

\* A mail for minute c of s is recorded, about to be recorded, or can never be
\* repeated because s is gone.
Accounted(s, c) ==
  \/ sched[s].fired >= c
  \/ \E k \in Sweeps : /\ sweep[k].at \in {"posting", "sent"}
                       /\ sweep[k].cur = s /\ sweep[k].now >= c
  \/ ~sched[s].exists /\ \A k \in Sweeps : s \notin Pending(k)

WellFormed(s) == Hooks[s] \cap Malformed = {}

MailInv ==
  \A s \in Schedules, c \in Time :
    WellFormed(s) =>
      mails[s][c] <= 1 /\ (mails[s][c] > 0 => s \in Mailed /\ Accounted(s, c))

OneInv ==
  workers = 1 =>
    /\ \A k \in Sweeps : AloneInv(k)
    /\ \A j, k \in Sweeps : ~Idle(j) /\ ~Idle(k) => j = k
    /\ crashes = 0 => MailInv

LEMMA InitOneInv == Init => OneInv
<1> SUFFICES ASSUME Init PROVE OneInv
  OBVIOUS
<1>1. \A k \in Sweeps : sweep[k].at = "free" /\ sweep[k].todo = {}
  BY DEF Init, NoSweep
<1>2. \A k \in Sweeps : AloneInv(k) /\ Idle(k)
  BY <1>1 DEF AloneInv, Idle, Current, Firing
<1>3. MailInv
  BY DEF Init, MailInv
<1>4. QED BY <1>2, <1>3 DEF OneInv

\* A step of a running sweep, which runs alone, preserves what is said of sweeps.
LEMMA AloneStep ==
  ASSUME OneInv, workers = 1, NEW k \in Sweeps, ~Idle(k),
         \A j \in Sweeps \ {k} : sweep'[j] = sweep[j],
         AloneInv(k)'
  PROVE  /\ \A j \in Sweeps : AloneInv(j)'
         /\ \A i, j \in Sweeps : ~Idle(i)' /\ ~Idle(j)' => i = j
<1>1. ASSUME NEW j \in Sweeps, j # k
      PROVE  AloneInv(j)' /\ Idle(j)'
  <2>1. Idle(j) /\ AloneInv(j) /\ sweep'[j] = sweep[j]
    BY <1>1 DEF OneInv
  <2>2. QED BY <2>1 DEF AloneInv, Idle, Current, Firing
<1>2. QED BY <1>1

\* What accounts for a mail still does after a step that takes nothing back.
LEMMA AccountedStays ==
  ASSUME NEW s \in Schedules, NEW c \in Time, Accounted(s, c),
         sched'[s].fired = sched[s].fired,
         ~sched[s].exists => ~sched'[s].exists,
         ~sched[s].exists => \A k \in Sweeps : s \in Pending(k)' => s \in Pending(k),
         \A k \in Sweeps :
           sweep[k].at \in {"posting", "sent"} /\ sweep[k].cur = s =>
             /\ sweep'[k].at \in {"posting", "sent"}
             /\ sweep'[k].cur = s /\ sweep'[k].now = sweep[k].now
  PROVE  Accounted(s, c)'
BY DEF Accounted

\* The same for every mail, when a step sends none.
LEMMA MailsStay ==
  ASSUME MailInv, mails' = mails,
         \A s \in Schedules :
           /\ sched'[s].fired = sched[s].fired
           /\ ~sched[s].exists => ~sched'[s].exists
           /\ ~sched[s].exists => \A k \in Sweeps : s \in Pending(k)' => s \in Pending(k)
           /\ WellFormed(s) /\ s \in Mailed =>
                \A k \in Sweeps :
                  sweep[k].at \in {"posting", "sent"} /\ sweep[k].cur = s =>
                    /\ sweep'[k].at \in {"posting", "sent"}
                    /\ sweep'[k].cur = s /\ sweep'[k].now = sweep[k].now
  PROVE  MailInv'
<1> SUFFICES ASSUME NEW s \in Schedules, NEW c \in Time, WellFormed(s)
             PROVE  /\ mails[s][c] <= 1
                    /\ mails[s][c] > 0 => s \in Mailed /\ Accounted(s, c)'
  BY DEF MailInv, WellFormed
<1>1. /\ mails[s][c] <= 1
      /\ mails[s][c] > 0 => s \in Mailed /\ Accounted(s, c)
  BY DEF MailInv
<1>2. QED BY <1>1, AccountedStays

-----------------------------------------------------------------------------
(* The same, step by step *)

LEMMA OneMinute ==
  ASSUME IInv, OneInv, workers = 1, NEW k \in Sweeps, Minute(k)
  PROVE  OneInv'
<1>1. /\ TypeOK /\ AloneInv(k) /\ sweep[k].at = "free"
      /\ UNCHANGED <<workers, sched, mails, reached, crashes>>
  BY DEF IInv, OneInv, Minute, history
<1>2. /\ sweep'[k].at = "queued" /\ sweep'[k].todo = sweep[k].todo
      /\ \A j \in Sweeps \ {k} : sweep'[j] = sweep[j]
  BY <1>1, MovesFacts DEF Minute, Stages
<1>3. \A j \in Sweeps : AloneInv(j)' /\ (Idle(j)' <=> Idle(j))
  <2>1. AloneInv(k)' /\ Idle(k)' /\ Idle(k)
    BY <1>1, <1>2 DEF AloneInv, Idle, Current, Firing
  <2>2. ASSUME NEW j \in Sweeps, j # k PROVE AloneInv(j)' /\ (Idle(j)' <=> Idle(j))
    BY <1>1, <1>2, <2>2 DEF OneInv, AloneInv, Idle, Current
  <2>3. QED BY <2>1, <2>2
<1>4. \A j \in Sweeps : /\ Pending(j)' \subseteq Pending(j)
                        /\ j # k => sweep'[j] = sweep[j]
  BY <1>1, <1>2 DEF Pending
<1>5. crashes = 0 => MailInv'
  BY <1>1, <1>4, MailsStay DEF OneInv
<1>6. QED BY <1>1, <1>3, <1>5 DEF OneInv

LEMMA OneDelete ==
  ASSUME IInv, OneInv, workers = 1, NEW r \in Schedules, DeleteSchedule(r)
  PROVE  OneInv'
<1>1. /\ UNCHANGED <<workers, now, sweep, mails, reached, crashes>>
      /\ \A s \in Schedules : /\ sched'[s].fired = sched[s].fired
                              /\ ~sched[s].exists => ~sched'[s].exists
  BY DEF DeleteSchedule, IInv, TypeOK, Schedule, history
<1>2. \A k \in Sweeps : /\ sweep[k].todo \subseteq Schedules /\ sweep[k].cur \in Schedules
                        /\ AloneInv(k)
  BY DEF IInv, TypeOK, OneInv
<1>3. \A k \in Sweeps : AloneInv(k)' /\ (Idle(k)' <=> Idle(k))
  BY <1>1, <1>2 DEF AloneInv, Idle, Current
<1>4. crashes = 0 => MailInv'
  BY <1>1, MailsStay DEF OneInv, Pending
<1>5. QED BY <1>1, <1>3, <1>4 DEF OneInv

\* The sweep that starts finds no other running: one worker has one process.
LEMMA OneList ==
  ASSUME IInv, OneInv, workers = 1, NEW k \in Sweeps, ListSchedules(k)
  PROVE  OneInv'
<1> DEFINE busy == {j \in Sweeps : sweep[j].at \notin {"free", "queued"}}
<1>1. \A j \in Sweeps : Idle(j)
  <2>1. IsFiniteSet(Sweeps)
    BY FS_Interval, ReportAssumption DEF Sweeps
  <2>2. IsFiniteSet(busy) /\ Cardinality(busy) \in Nat
    BY <2>1, FS_Subset, FS_CardinalityType
  <2>3. Cardinality(busy) = 0
    BY <2>2 DEF ListSchedules, Busy
  <2>4. busy = {}
    BY <2>2, <2>3, FS_EmptySet
  <2>5. QED BY <2>4 DEF Idle
<1>2. /\ sweep'[k].at = "listed" /\ sweep'[k].rows = sched
      /\ sweep'[k].todo = {s \in Schedules : IsDue(s, sched[s], now)}
      /\ \A j \in Sweeps \ {k} : sweep'[j] = sweep[j]
      /\ UNCHANGED <<workers, now, sched, mails, reached, crashes>>
  BY SweepTyped DEF ListSchedules, IInv, SweepRecord, history
<1>3. \A j \in Sweeps \ {k} : AloneInv(j)' /\ Idle(j)'
  BY <1>1, <1>2 DEF OneInv, AloneInv, Idle, Current, Firing
<1>4. AloneInv(k)'
  BY <1>2 DEF AloneInv, Idle, Current, Firing
<1>5. \A s \in Schedules : ~sched[s].exists =>
        \A j \in Sweeps : s \in Pending(j)' => s \in Pending(j)
  BY <1>2 DEF Pending, IsDue
<1>6. \A j \in Sweeps : sweep[j].at \notin {"posting", "sent"}
  BY <1>1 DEF Idle
<1>7. crashes = 0 => MailInv'
  BY <1>2, <1>5, <1>6, MailsStay DEF OneInv
<1>8. QED BY <1>2, <1>3, <1>4, <1>7 DEF OneInv

LEMMA OneNext ==
  ASSUME IInv, OneInv, workers = 1, NEW k \in Sweeps, NEW s \in Schedules,
         NextSchedule(k, s)
  PROVE  OneInv'
<1>1. /\ sweep[k] \in SweepRecord /\ s \in sweep[k].todo /\ sweep[k].at = "listed"
      /\ UNCHANGED <<workers, now, sched, mails, reached, crashes>>
      /\ AloneInv(k) /\ ~Idle(k)
  BY SweepTyped DEF NextSchedule, IInv, history, OneInv, Idle
<1>2. /\ sweep'[k].at = "rendering" /\ sweep'[k].rows = sweep[k].rows
      /\ sweep'[k].cur = s /\ sweep'[k].todo = sweep[k].todo \ {s}
      /\ \A j \in Sweeps \ {k} : sweep'[j] = sweep[j]
  BY <1>1, SweepTyped DEF NextSchedule, SweepRecord, IInv
<1>3. AloneInv(k)'
  BY <1>1, <1>2 DEF AloneInv, Idle, Current, Firing
<1>4. \A j \in Sweeps : Pending(j)' \subseteq Pending(j)
  BY <1>1, <1>2 DEF Pending
<1>5. crashes = 0 => MailInv'
  BY <1>1, <1>2, <1>4, MailsStay DEF OneInv
<1>6. QED BY <1>1, <1>2, <1>3, <1>5, AloneStep DEF OneInv

\* A firing that moves on without a mail or a record.
LEMMA OneMoves ==
  ASSUME IInv, OneInv, workers = 1, NEW k \in Sweeps, NEW stage \in Stages,
         sweep[k].at \in Firing, Moves(k, stage),
         UNCHANGED <<workers, mails, crashes>>,
         stage \in Firing \cup {"listed"},
         stage \in {"rendering", "mailing"} => sweep[k].at = "rendering",
         stage = "mailing" => sweep[k].cur \in Mailed,
         \A s \in Schedules : /\ sched'[s].fired = sched[s].fired
                              /\ sched'[s].exists = sched[s].exists,
         sweep[k].at \in {"posting", "sent"} =>
           (WellFormed(sweep[k].cur) /\ sweep[k].cur \in Mailed =>
              stage \in {"posting", "sent"})
  PROVE  OneInv'
<1>1. /\ TypeOK /\ AloneInv(k) /\ ~Idle(k)
      /\ sweep[k].todo \subseteq Schedules /\ sweep[k].cur \in Schedules
  BY DEF IInv, OneInv, Idle, Firing, TypeOK
<1>2. /\ sweep'[k].at = stage /\ sweep'[k].now = sweep[k].now
      /\ sweep'[k].rows = sweep[k].rows /\ sweep'[k].cur = sweep[k].cur
      /\ sweep'[k].todo = sweep[k].todo
      /\ \A j \in Sweeps \ {k} : sweep'[j] = sweep[j]
  BY <1>1, MovesFacts
<1>3. AloneInv(k)'
  BY <1>1, <1>2 DEF AloneInv, Idle, Current, Firing
<1>4. \A j \in Sweeps : Pending(j)' \subseteq Pending(j)
  BY <1>2 DEF Pending
<1>5. crashes = 0 => MailInv'
  BY <1>2, <1>4, MailsStay DEF OneInv
<1>6. QED BY <1>1, <1>2, <1>3, <1>5, AloneStep DEF OneInv

\* A sweep that ends with nothing left to record.
LEMMA OneFrees ==
  ASSUME IInv, OneInv, workers = 1, NEW k \in Sweeps, ~Idle(k), Frees(k),
         UNCHANGED <<workers, mails>>,
         \A s \in Schedules : /\ sched'[s].fired = sched[s].fired
                              /\ sched'[s].exists = sched[s].exists,
         crashes' = 0 => crashes = 0 /\
           (\/ sweep[k].at \notin {"posting", "sent"}
            \/ ~sched[sweep[k].cur].exists)
  PROVE  OneInv'
<1>1. /\ sweep'[k].at = "free" /\ sweep'[k].todo = {}
      /\ \A j \in Sweeps \ {k} : sweep'[j] = sweep[j]
  BY FreesFacts DEF IInv
<1>2. AloneInv(k)'
  BY <1>1 DEF AloneInv, Idle, Current, Firing
<1>3. \A j \in Sweeps \ {k} : Idle(j) /\ AloneInv(j)
  BY DEF OneInv
<1>4. \A j \in Sweeps : Pending(j)' = {}
  <2>1. Pending(k)' = {}
    BY <1>1 DEF Pending
  <2>2. ASSUME NEW j \in Sweeps, j # k PROVE Pending(j)' = {}
    BY <2>2, <1>1, <1>3 DEF Pending, AloneInv, Idle
  <2>3. QED BY <2>1, <2>2
<1>5. ASSUME crashes' = 0 PROVE MailInv'
  <2> SUFFICES ASSUME NEW s \in Schedules, NEW c \in Time, WellFormed(s)
               PROVE  /\ mails[s][c] <= 1
                      /\ mails[s][c] > 0 => s \in Mailed /\ Accounted(s, c)'
    BY DEF MailInv, WellFormed
  <2>1. /\ mails[s][c] <= 1
        /\ mails[s][c] > 0 => s \in Mailed /\ Accounted(s, c)
    BY <1>5 DEF OneInv, MailInv
  <2>2. CASE ~sched[s].exists
    BY <2>1, <2>2, <1>4 DEF Accounted
  <2>3. CASE sched[s].exists
    <3>1. \A j \in Sweeps : ~(sweep[j].at \in {"posting", "sent"} /\ sweep[j].cur = s)
      BY <1>3, <1>5, <2>3 DEF Idle
    <3>2. QED BY <2>1, <2>3, <3>1 DEF Accounted
  <2>4. QED BY <2>2, <2>3
<1>6. QED BY <1>1, <1>2, <1>5, AloneStep DEF OneInv

\* A mail goes out for a minute after the last that was recorded, so for one that
\* no mail has gone out for.
LEMMA OneMail ==
  ASSUME IInv, OneInv, workers = 1, NEW k \in Sweeps, Mail(k)
  PROVE  OneInv'
<1> DEFINE s == sweep[k].cur
<1> DEFINE m == For(k)
<1>1. /\ TypeOK /\ SweepInv(k) /\ AloneInv(k) /\ ~Idle(k)
      /\ sweep[k].at = "mailing" /\ sweep[k].at \in Firing
      /\ s \in Schedules /\ s \in Mailed
      /\ sweep[k].todo \subseteq Schedules
      /\ UNCHANGED <<workers, now, sched, crashes>>
  BY SweepInvFacts DEF IInv, OneInv, Mail, Idle, Firing, TypeOK, AloneInv
<1>2. /\ m \in Time /\ m <= sweep[k].now
      /\ Base(sweep[k].rows[s], sweep[k].now) < m
  BY <1>1, DueFacts DEF SweepInv
<1>3. PICK stage \in {"sent", "posting"} :
        Moves(k, stage) /\ mails' = [mails EXCEPT ![s][m] = @ + 1]
  BY DEF Mail
<1>4. /\ sweep'[k].at = stage /\ sweep'[k].now = sweep[k].now
      /\ sweep'[k].rows = sweep[k].rows /\ sweep'[k].cur = sweep[k].cur
      /\ sweep'[k].todo = sweep[k].todo
      /\ \A j \in Sweeps \ {k} : sweep'[j] = sweep[j]
  BY <1>1, <1>3, MovesFacts DEF Stages
<1>5. AloneInv(k)'
  BY <1>1, <1>4 DEF AloneInv, Idle, Current, Firing
<1>6. /\ mails'[s][m] = mails[s][m] + 1
      /\ \A r \in Schedules, c \in Time : r # s \/ c # m => mails'[r][c] = mails[r][c]
  BY <1>1, <1>2, <1>3 DEF TypeOK
<1>7. ASSUME crashes = 0 PROVE MailInv'
  <2>1. WellFormed(s) => mails[s][m] = 0
    <3> SUFFICES ASSUME WellFormed(s), mails[s][m] # 0 PROVE FALSE
      OBVIOUS
    <3>1. mails[s][m] > 0
      BY <1>1, <1>2 DEF TypeOK
    <3>2. Accounted(s, m)
      BY <1>1, <1>2, <1>7, <3>1 DEF OneInv, MailInv
    <3>3. sweep[k].rows[s].fired = sched[s].fired
      BY <1>1 DEF AloneInv, Current
    <3>4. ~(sched[s].fired >= m)
      BY <1>1, <1>2, <3>3 DEF Base, Never, TypeOK, Schedule, Time
    <3>5. \A j \in Sweeps : sweep[j].at \notin {"posting", "sent"}
      BY <1>1 DEF OneInv, Idle
    <3>6. s \in Pending(k)
      BY <1>1 DEF Pending
    <3>7. QED BY <3>2, <3>4, <3>5, <3>6 DEF Accounted
  <2> SUFFICES ASSUME NEW r \in Schedules, NEW c \in Time, WellFormed(r)
               PROVE  /\ mails'[r][c] <= 1
                      /\ mails'[r][c] > 0 => r \in Mailed /\ Accounted(r, c)'
    BY DEF MailInv, WellFormed
  <2>2. CASE r = s /\ c = m
    <3>1. sweep'[k].now >= c /\ sweep'[k].cur = r
      BY <1>2, <1>4, <2>2
    <3>2. Accounted(r, c)'
      BY <3>1, <1>4 DEF Accounted
    <3>3. r \in Mailed /\ mails'[r][c] = 1
      BY <2>1, <2>2, <1>1, <1>6
    <3>4. QED BY <3>2, <3>3
  <2>3. CASE r # s \/ c # m
    <3>1. /\ mails[r][c] <= 1
          /\ mails[r][c] > 0 => r \in Mailed /\ Accounted(r, c)
      BY <1>7 DEF OneInv, MailInv
    <3>2. \A j \in Sweeps : /\ Pending(j)' \subseteq Pending(j)
                            /\ sweep[j].at \notin {"posting", "sent"}
      BY <1>1, <1>4 DEF Pending, OneInv, Idle
    <3>3. Accounted(r, c) => Accounted(r, c)'
      BY <1>1, <3>2, AccountedStays
    <3>4. QED BY <2>3, <3>1, <3>3, <1>6
  <2>4. QED BY <2>2, <2>3
<1>8. QED BY <1>1, <1>4, <1>5, <1>7, AloneStep DEF OneInv

\* Recording a success moves last_fired_at on, past every minute mailed before.
LEMMA OneMarkOk ==
  ASSUME IInv, OneInv, workers = 1, NEW k \in Sweeps, MarkOk(k)
  PROVE  OneInv'
<1> DEFINE s == sweep[k].cur
<1>1. /\ TypeOK /\ SweepInv(k) /\ AloneInv(k) /\ ~Idle(k)
      /\ sweep[k].at = "sent" /\ sweep[k].at \in Firing
      /\ s \in Schedules /\ sweep[k].todo \subseteq Schedules
      /\ sweep[k].now \in Time /\ sched[s] \in Schedule
      /\ UNCHANGED <<workers, now, mails, reached, crashes>>
  BY SweepInvFacts DEF IInv, OneInv, MarkOk, Idle, Firing, TypeOK, history
<1>2. CASE Frees(k) /\ UNCHANGED sched /\ ~sched[s].exists
  BY <1>1, <1>2, OneFrees
<1>3. CASE Moves(k, "listed") /\ sched' = [sched EXCEPT ![s] = Fired(k, @)]
  <2>1. /\ sweep'[k].at = "listed" /\ sweep'[k].now = sweep[k].now
        /\ sweep'[k].rows = sweep[k].rows /\ sweep'[k].cur = sweep[k].cur
        /\ sweep'[k].todo = sweep[k].todo
        /\ \A j \in Sweeps \ {k} : sweep'[j] = sweep[j]
    BY <1>1, <1>3, MovesFacts DEF Stages
  <2>2. /\ sched'[s].fired = sweep[k].now
        /\ sched'[s].exists = sched[s].exists
        /\ \A r \in Schedules \ {s} : sched'[r] = sched[r]
    BY <1>1, <1>3 DEF Fired, TypeOK, Schedule
  <2>3. AloneInv(k)'
    BY <1>1, <2>1, <2>2 DEF AloneInv, Idle, Current, Firing
  <2>4. sched[s].fired <= sweep[k].now
    <3>1. /\ sweep[k].rows[s].fired = sched[s].fired
          /\ For(k) \in Time /\ For(k) <= sweep[k].now
          /\ Base(sweep[k].rows[s], sweep[k].now) < For(k)
      BY <1>1, DueFacts DEF AloneInv, Current, SweepInv
    <3>2. QED BY <1>1, <3>1 DEF Base, Never, Schedule, Time
  <2>5. ASSUME crashes = 0 PROVE MailInv'
    <3> SUFFICES ASSUME NEW r \in Schedules, NEW c \in Time, WellFormed(r)
                 PROVE  /\ mails[r][c] <= 1
                        /\ mails[r][c] > 0 => r \in Mailed /\ Accounted(r, c)'
      BY <1>1 DEF MailInv, WellFormed
    <3>1. /\ mails[r][c] <= 1
          /\ mails[r][c] > 0 => r \in Mailed /\ Accounted(r, c)
      BY <2>5 DEF OneInv, MailInv
    <3>2. \A j \in Sweeps : /\ Pending(j)' \subseteq Pending(j)
                            /\ sweep[j].at \in {"posting", "sent"} => j = k
      BY <1>1, <2>1 DEF Pending, OneInv, Idle
    <3>3. CASE r = s
      <4>1. Accounted(r, c) => sweep[k].now >= c \/ (~sched[s].exists /\ \A j \in Sweeps : s \notin Pending(j))
        BY <3>2, <3>3, <2>4, <1>1 DEF Accounted, Schedule, Time, Never
      <4>2. Accounted(r, c) => Accounted(r, c)'
        BY <4>1, <3>2, <3>3, <2>2 DEF Accounted
      <4>3. QED BY <3>1, <4>2
    <3>4. CASE r # s
      <4>1. Accounted(r, c) => Accounted(r, c)'
        BY <3>2, <3>4, <2>2, AccountedStays
      <4>2. QED BY <3>1, <4>1
    <3>5. QED BY <3>3, <3>4
  <2>6. QED BY <1>1, <2>1, <2>3, <2>5, AloneStep DEF OneInv
<1>4. QED BY <1>2, <1>3 DEF MarkOk

LEMMA OneRest ==
  ASSUME IInv, OneInv, workers = 1, NEW k \in Sweeps,
         Render(k) \/ MailFails(k) \/ Post(k) \/ MarkFailed(k) \/ EndSweep(k) \/ Crash(k)
  PROVE  OneInv'
<1>1. CASE Render(k)
  <2>1. PICK stage \in {"failed", "mailing", "posting"} :
          /\ Moves(k, stage)
          /\ stage = "mailing" => sweep[k].cur \in Mailed
    BY <1>1 DEF Render
  <2>2. /\ sweep[k].at = "rendering"
        /\ UNCHANGED <<workers, now, sched, mails, reached, crashes>>
    BY <1>1 DEF Render, history
  <2>3. QED BY <2>1, <2>2, OneMoves DEF Firing, Stages
<1>2. CASE MailFails(k)
  <2>1. /\ sweep[k].at = "mailing" /\ Moves(k, "failed")
        /\ UNCHANGED <<workers, now, sched, mails, reached, crashes>>
    BY <1>2 DEF MailFails, history
  <2>2. QED BY <2>1, OneMoves DEF Firing, Stages
<1>3. CASE Post(k)
  <2>1. /\ sweep[k].at = "posting"
        /\ UNCHANGED <<workers, now, sched, mails, crashes>>
    BY <1>3 DEF Post
  <2>2. PICK stage \in {"failed", "sent"} :
          /\ Moves(k, stage)
          /\ WellFormed(sweep[k].cur) /\ sweep[k].cur \in Mailed => stage = "sent"
    BY <1>3 DEF Post, Posted, WellFormed
  <2>3. QED BY <2>1, <2>2, OneMoves DEF Firing, Stages
<1>4. CASE MarkFailed(k)
  <2> DEFINE s == sweep[k].cur
  <2>1. /\ sweep[k].at = "failed" /\ s \in Schedules /\ sched[s] \in Schedule
        /\ UNCHANGED <<workers, now, mails, reached, crashes>>
    BY <1>4 DEF MarkFailed, history, IInv, TypeOK
  <2>2. \A r \in Schedules : /\ sched'[r].fired = sched[r].fired
                             /\ sched'[r].exists = sched[r].exists
    <3>1. CASE UNCHANGED sched
      BY <3>1
    <3>2. CASE sched' = [sched EXCEPT ![s] = Failed(sched[s])]
      BY <2>1, <3>2 DEF Failed, IInv, TypeOK, Schedule
    <3>3. QED BY <1>4, <3>1, <3>2 DEF MarkFailed
  <2>3. CASE Moves(k, "listed")
    BY <2>1, <2>2, <2>3, OneMoves DEF Firing, Stages
  <2>4. CASE Frees(k)
    BY <2>1, <2>2, <2>4, OneFrees DEF Idle
  <2>5. QED BY <1>4, <2>3, <2>4 DEF MarkFailed
<1>5. CASE EndSweep(k)
  <2>1. /\ sweep[k].at = "listed" /\ Frees(k)
        /\ UNCHANGED <<workers, now, sched, mails, reached, crashes>>
    BY <1>5 DEF EndSweep, history
  <2>2. QED BY <2>1, OneFrees DEF Idle
<1>6. CASE Crash(k)
  <2>1. /\ ~Idle(k) /\ Frees(k) /\ crashes' # 0
        /\ UNCHANGED <<workers, now, sched, mails, reached>>
    BY <1>6 DEF Crash, history, Idle, IInv, TypeOK
  <2>2. QED BY <2>1, OneFrees
<1>7. QED BY <1>1, <1>2, <1>3, <1>4, <1>5, <1>6

LEMMA StepOneInv ==
  ASSUME IInv, OneInv, [Next]_vars
  PROVE  OneInv'
<1> SUFFICES ASSUME workers' = 1 PROVE OneInv'
  BY DEF OneInv
<1>1. workers = 1
  BY DEF Next, vars, Minute, SweepStep, ListSchedules, NextSchedule, Render, Mail,
         MailFails, Post, MarkOk, MarkFailed, EndSweep, Crash, DeleteSchedule
<1>2. CASE \E k \in Sweeps : Minute(k) \/ SweepStep(k) \/ Crash(k)
  BY <1>1, <1>2, OneMinute, OneList, OneNext, OneMail, OneMarkOk, OneRest DEF SweepStep
<1>3. CASE \E s \in Schedules : DeleteSchedule(s)
  BY <1>1, <1>3, OneDelete
<1>4. CASE UNCHANGED vars
  BY <1>4 DEF vars, OneInv, AloneInv, Idle, Current, MailInv, Accounted, Pending
<1>5. QED BY <1>2, <1>3, <1>4 DEF Next

\* report_task.py:81 "Commit per schedule so a later failure doesn't roll back the
\* earlier successful sends": with one worker process that does not die, no minute of
\* a schedule is mailed twice, however late the sweeps come and whatever fails.
THEOREM OneMailForAMinute == Spec => []OneMailPerMinute
<1>1. Init => OneInv
  BY InitOneInv
<1>2. IInv /\ OneInv /\ [Next]_vars => OneInv'
  BY StepOneInv
<1>3. IInv /\ OneInv => OneMailPerMinute
  BY DEF OneInv, MailInv, WellFormed, OneMailPerMinute
<1>4. QED BY <1>1, <1>2, <1>3, Invariance, PTL DEF Spec
=============================================================================
