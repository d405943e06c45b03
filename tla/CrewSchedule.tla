---------------------------- MODULE CrewSchedule ----------------------------
(***************************************************************************)
(* The crew of one job: the days it is planned on and a row for every      *)
(* employee and day.  The job is an inquiry's move or a Termin of the      *)
(* calendar, whose tables and handlers mirror each other.                  *)
(*                                                                         *)
(* The dashboard, the assistant and the workers' portal write the same     *)
(* rows.  A request that reads first and writes in a transaction of its    *)
(* own is two steps here, and other requests come between them.  A row     *)
(* carries the hours the office recorded (clock_in, clock_out,             *)
(* actual_hours: "work") and those the worker reported (employee_clock_in, *)
(* employee_clock_out: "punch"); payroll keeps overrides of the recorded   *)
(* hours beside them until a month is cleaned up.                          *)
(*                                                                         *)
(* A transaction's writes are one step.  A request that fails is rolled    *)
(* back.  The status of the job and the active flag of an employee are     *)
(* left out; dates are numbers and 0 is NULL.                              *)
(***************************************************************************)
EXTENDS Integers, FiniteSets

CONSTANTS
  Employees,   \* the employees
  Requests,    \* requests that may be open at once
  MaxDay,      \* bound: the last day of the calendar
  MaxEdits     \* bound: requests made

ASSUME CrewAssumption == MaxDay \in Nat \ {0} /\ MaxEdits \in Nat

Days == 1..MaxDay
Rows == Employees \X Days
Created == 1          \* the day of created_at
Keep == -1            \* end_date not in the request

VARIABLES
  kind,     \* "inquiry" or "termin"
  start,    \* scheduled_date
  finish,   \* end_date
  crew,     \* the assignment rows
  work,     \* those with recorded hours
  punch,    \* those with the worker's own hours
  adj,      \* the payroll override of each employee and day
  open,     \* the requests under way and what they read
  stray,    \* rows written outside the job's days by a request that had
            \* read other days, or was told a day of its own
  edits     \* requests made so far

dates == <<start, finish>>
assignments == <<crew, work, punch>>
crewVars == <<kind, dates, assignments, adj, open, stray, edits>>

Closed == [op |-> "none"]
Request == edits < MaxEdits /\ edits' = edits + 1

Opens(r, req) == open[r] = Closed /\ Request /\ open' = [open EXCEPT ![r] = req]
Goes(r, req) == open' = [open EXCEPT ![r] = req]

Last(s, f) == IF f # 0 THEN f ELSE s
Span(s, f) == IF s = 0 THEN {} ELSE s .. Last(s, f)

\* generate_series of the days a new crew member is booked for.
SeriesDays == LET s == IF start = 0 THEN Created ELSE start IN s .. Last(s, finish)

DaysOf(e) == {d \in Days : <<e, d>> \in crew}
RowsOf(S) == {w \in crew : w[1] \in S}
-----------------------------------------------------------------------------
CrewInit ==
  /\ kind \in {"inquiry", "termin"}
  /\ start \in 0..MaxDay /\ finish \in {0, start}
  /\ kind = "termin" => finish = start
  /\ crew = {} /\ work = {} /\ punch = {}
  /\ adj = [w \in Rows |-> "none"]
  /\ open = [r \in Requests |-> Closed]
  /\ stray = {} /\ edits = 0

(***************************************************************************)
(* Moving and resizing the job                                             *)
(***************************************************************************)

\* The request reads the date it is about to change; s = 0: none given.
ReadsDate(r, s, f, next) ==
  Opens(r, [op |-> "move", old |-> IF s = 0 THEN 0 ELSE start, new |-> s, end |-> f,
            next |-> next])

NewStart(q) == IF q.new # 0 THEN q.new ELSE start
NewFinish(q) ==
  IF q.end # Keep THEN q.end
  ELSE IF q.new = 0 \/ finish = 0 THEN finish
  ELSE IF start = 0 THEN 0 ELSE finish + (q.new - start)

\* Rows without recorded work before the first day or after the last are dropped.
Inside(s, f) ==
  {w \in crew : w \in work \/ ((s # 0 => w[2] >= s) /\ (Last(s, f) # 0 => w[2] <= Last(s, f)))}

\* Bug: a new end date alone leaves the crew as it is.
KeepOnResize(s, f) ==
  /\ crew' = IF s = start THEN crew ELSE Inside(s, f)
  /\ punch' = punch \cap crew'
  /\ UNCHANGED work

KeepInside(s, f) ==
  /\ crew' = Inside(s, f)
  /\ punch' = punch \cap crew'
  /\ UNCHANGED work

\* Where a row without recorded work goes when the start moves by n days.
Shifted(S, n) == {<<w[1], w[2] + n>> : w \in S \ work}

\* Bug: the copies of the moved rows are made without the worker's own hours.
MoveColumns(n, window) ==
  LET landed == {w \in Shifted(crew, n) : w[2] \in window}
  IN /\ crew' = work \union landed
     /\ punch' = punch \cap work
     /\ UNCHANGED work

\* The rows move with the job, except onto recorded ones and out of the window.
MoveCrew(n, window) ==
  LET landed == {w \in Shifted(crew, n) : w[2] \in window}
  IN /\ crew' = work \union landed
     /\ punch' = (punch \cap work) \union ((Shifted(punch, n) \cap landed) \ work)
     /\ UNCHANGED work

\* The transaction of update_fields; the table's CHECK rejects an end before
\* the start, and the calendar ends at MaxDay.
update_fields(q) ==
  LET s == NewStart(q)
      f == NewFinish(q)
  IN /\ f <= MaxDay /\ (s # 0 /\ f # 0 => s <= f)
     /\ start' = s /\ finish' = f
     /\ IF q.new # 0 /\ q.old # 0 /\ q.new # q.old
        THEN MoveCrew(q.new - q.old, Span(s, f))
        ELSE KeepInside(s, f)
     /\ stray' = {}

\* A request of the dashboard gives a start, an end, an empty end, or several.
update_inquiry(r) ==
  /\ kind = "inquiry"
  /\ \E s \in 0..MaxDay, f \in {Keep, 0} \union Days :
       (s # 0 \/ f # Keep) /\ ReadsDate(r, s, f, Closed)
  /\ UNCHANGED <<kind, dates, assignments, adj, stray>>

update_item(r) ==
  /\ kind = "termin"
  /\ \E s \in 0..MaxDay, f \in {Keep, 0} \union Days :
       (s # 0 \/ f # Keep) /\ ReadsDate(r, s, f, Closed)
  /\ UNCHANGED <<kind, dates, assignments, adj, stray>>

Moves(r) ==
  /\ open[r].op = "move"
  /\ update_fields(open[r])
  /\ Goes(r, open[r].next)
  /\ UNCHANGED <<kind, adj, edits>>

(***************************************************************************)
(* The assistant schedules a move or gives a Termin a date and a crew      *)
(***************************************************************************)

\* The date, as the dashboard sets it, then each of the crew on that day.
schedule_inquiry(r) ==
  /\ kind = "inquiry"
  /\ \E d \in Days, c \in SUBSET Employees :
       ReadsDate(r, d, Keep, [op |-> "staff", day |-> d, crew |-> c])
  /\ UNCHANGED <<kind, dates, assignments, adj, stray>>

StaffsDay(r) ==
  /\ open[r].op = "staff"
  /\ \E e \in open[r].crew :
       /\ crew' = crew \union {<<e, open[r].day>>}
       /\ stray' = IF open[r].day \in Span(start, finish) THEN stray
                   ELSE stray \union {<<e, open[r].day>>}
       /\ Goes(r, [open[r] EXCEPT !.crew = @ \ {e}])
  /\ UNCHANGED <<kind, dates, work, punch, adj, edits>>

\* The date if there is a new one; the rows of the others go; then every day
\* of the Termin for each of the crew.
reassign_termin(r) ==
  /\ kind = "termin"
  /\ \E c \in SUBSET Employees :
       LET next == [op |-> "replace", crew |-> c]
       IN \/ \E d \in Days : ReadsDate(r, d, Keep, next)
          \/ Opens(r, next)
  /\ UNCHANGED <<kind, dates, assignments, adj, stray>>

ReplacesCrew(r) ==
  /\ open[r].op = "replace"
  /\ crew' = RowsOf(open[r].crew)
  /\ work' = work \cap crew' /\ punch' = punch \cap crew'
  /\ Goes(r, [open[r] EXCEPT !.op = "prune"])
  /\ UNCHANGED <<kind, dates, adj, stray, edits>>

\* A Termin without a date is not booked; a DELETE that fails is not noticed.
PrunesStale(r) ==
  /\ open[r].op = "prune"
  /\ \/ start = 0 /\ Goes(r, Closed) /\ UNCHANGED assignments
     \/ /\ start # 0 /\ Goes(r, [open[r] EXCEPT !.op = "book"])
        /\ KeepInside(start, finish) \/ UNCHANGED assignments
  /\ UNCHANGED <<kind, dates, adj, stray, edits>>

BooksDays(r) ==
  /\ open[r].op = "book"
  /\ \E e \in open[r].crew :
       /\ crew' = crew \union ({e} \X SeriesDays)
       /\ Goes(r, [open[r] EXCEPT !.crew = @ \ {e}])
  /\ UNCHANGED <<kind, dates, work, punch, adj, stray, edits>>

Answers(r) ==
  /\ open[r].op \in {"staff", "book"} /\ open[r].crew = {}
  /\ Goes(r, Closed)
  /\ UNCHANGED <<kind, dates, assignments, adj, stray, edits>>

(***************************************************************************)
(* Adding and removing one employee                                        *)
(***************************************************************************)

insert_employee_assignment(e) ==
  /\ kind = "inquiry" /\ Request
  /\ crew' = crew \union ({e} \X SeriesDays)
  /\ UNCHANGED <<kind, dates, work, punch, adj, open, stray>>

insert_item_employee(e) ==
  /\ kind = "termin" /\ Request
  /\ crew' = crew \union ({e} \X SeriesDays)
  /\ UNCHANGED <<kind, dates, work, punch, adj, open, stray>>

Removed(e) == crew' = {w \in crew : w[1] # e}

delete_employee_assignment(e) ==
  /\ kind = "inquiry" /\ DaysOf(e) # {} /\ Request
  /\ Removed(e) /\ work' = work \cap crew' /\ punch' = punch \cap crew'
  /\ UNCHANGED <<kind, dates, adj, open, stray>>

delete_item_employee(e) ==
  /\ kind = "termin" /\ DaysOf(e) # {} /\ Request
  /\ Removed(e) /\ work' = work \cap crew' /\ punch' = punch \cap crew'
  /\ UNCHANGED <<kind, dates, adj, open, stray>>

(***************************************************************************)
(* Hours                                                                   *)
(***************************************************************************)

\* The office enters hours for a day, or for the first one.
update_employee_assignment(e) ==
  /\ kind = "inquiry"
  /\ \E d \in DaysOf(e) : Request /\ work' = work \union {<<e, d>>}
  /\ UNCHANGED <<kind, dates, crew, punch, adj, open, stray>>

update_item_employee(e) ==
  /\ kind = "termin"
  /\ \E d \in DaysOf(e) : Request /\ work' = work \union {<<e, d>>}
  /\ UNCHANGED <<kind, dates, crew, punch, adj, open, stray>>

\* The worker enters or empties hours of their own.
update_clock_times(e) ==
  /\ kind = "inquiry"
  /\ \E d \in DaysOf(e) :
       Request /\ (punch' = punch \union {<<e, d>>} \/ punch' = punch \ {<<e, d>>})
  /\ UNCHANGED <<kind, dates, crew, work, adj, open, stray>>

update_item_clock_times(e) ==
  /\ kind = "termin"
  /\ \E d \in DaysOf(e) :
       Request /\ (punch' = punch \union {<<e, d>>} \/ punch' = punch \ {<<e, d>>})
  /\ UNCHANGED <<kind, dates, crew, work, adj, open, stray>>

\* The assistant enters hours: for a day the employee has, or for all the rows
\* of one who had a single day when it looked.
assigned_days(r, e) ==
  /\ \/ Cardinality(DaysOf(e)) <= 1 /\ Opens(r, [op |-> "hours", who |-> e, days |-> Days])
     \/ \E d \in Days : (DaysOf(e) = {} \/ d \in DaysOf(e))
                        /\ Opens(r, [op |-> "hours", who |-> e, days |-> {d}])
  /\ UNCHANGED <<kind, dates, assignments, adj, stray>>

set_employee_schedule(r) ==
  /\ open[r].op = "hours"
  /\ work' = work \union (crew \cap ({open[r].who} \X open[r].days))
  /\ Goes(r, Closed)
  /\ UNCHANGED <<kind, dates, crew, punch, adj, stray, edits>>

(***************************************************************************)
(* Writing the whole crew                                                  *)
(***************************************************************************)

\* The dashboard sends its list of rows, some with hours; the days are compared
\* with the job's as it is now, and the list is written afterwards.
ReadsSpan(r) ==
  \E list \in SUBSET (IF start = 0 THEN Rows ELSE Rows \cap (Employees \X Span(start, finish))) :
    \E hours \in {{}, list} :
      Opens(r, [op |-> "put", list |-> list, hours |-> hours, span |-> Span(start, finish)])

put_inquiry_employees(r) ==
  kind = "inquiry" /\ ReadsSpan(r) /\ UNCHANGED <<kind, dates, assignments, adj, stray>>

\* A Termin without a date cannot be read as one with a span: an error.
put_item_employees(r) ==
  kind = "termin" /\ start # 0 /\ ReadsSpan(r) /\ UNCHANGED <<kind, dates, assignments, adj, stray>>

Outside(S) == {w \in S : w[2] \notin Span(start, finish)}

\* Bug: every row is deleted and the list inserted (the incident of 2026-06-10).
FullReplace(r) ==
  /\ open[r].op = "put"
  /\ crew' = open[r].list /\ work' = open[r].hours /\ punch' = {}
  /\ stray' = IF open[r].span = Span(start, finish) THEN stray
              ELSE stray \union Outside(open[r].list)
  /\ Goes(r, Closed)
  /\ UNCHANGED <<kind, dates, adj, edits>>

\* Rows not on the list are deleted; what the others hold stays, gaps are filled.
PutsList(r) ==
  /\ open[r].op = "put"
  /\ crew' = open[r].list
  /\ work' = (work \cap open[r].list) \union open[r].hours
  /\ punch' = punch \cap open[r].list
  /\ stray' = IF open[r].span = Span(start, finish) THEN stray
              ELSE stray \union Outside(open[r].list)
  /\ Goes(r, Closed)
  /\ UNCHANGED <<kind, dates, adj, edits>>

\* The assistant names the crew: for a day, or for all the days of the job.
set_inquiry_crew(r) ==
  /\ kind = "inquiry"
  /\ \E c \in SUBSET Employees :
       \/ /\ start # 0
          /\ Opens(r, [op |-> "crew", crew |-> c, days |-> Span(start, finish), told |-> FALSE])
       \/ \E d \in Days : Opens(r, [op |-> "crew", crew |-> c, days |-> {d}, told |-> TRUE])
  /\ UNCHANGED <<kind, dates, assignments, adj, stray>>

WritesCrew(r) ==
  /\ open[r].op = "crew"
  /\ LET booked == open[r].crew \X open[r].days
     IN /\ crew' = (RowsOf(open[r].crew) \cap work) \union booked
        /\ stray' = IF ~open[r].told /\ open[r].days = Span(start, finish) THEN stray
                    ELSE stray \union Outside(booked)
  /\ work' = work \cap crew' /\ punch' = punch \cap crew'
  /\ Goes(r, Closed)
  /\ UNCHANGED <<kind, dates, adj, edits>>

(***************************************************************************)
(* Payroll                                                                 *)
(***************************************************************************)

\* The employee's overrides of the month are replaced, by at most one here, of
\* a day the employee has.
upsert_hours_adjustments(e) ==
  /\ Request
  /\ \E d \in DaysOf(e), a \in {"none", "off", "paid"} :
       adj' = [w \in Rows |-> IF w = <<e, d>> THEN a ELSE IF w[1] = e THEN "none" ELSE adj[w]]
  /\ UNCHANGED <<kind, dates, assignments, open, stray>>

\* The overrides are read before the transaction.
fetch_hours_adjustments(r, e) ==
  /\ Opens(r, [op |-> "cleanup", who |-> e,
               off |-> {w \in Rows : w[1] = e /\ adj[w] = "off"},
               paid |-> {w \in Rows : w[1] = e /\ adj[w] = "paid"}])
  /\ UNCHANGED <<kind, dates, assignments, adj, stray>>

\* A day switched off is deleted, a paid one becomes the recorded one.
cleanup_hours_adjustments(r) ==
  /\ open[r].op = "cleanup"
  /\ crew' = crew \ open[r].off
  /\ work' = (work \ open[r].off) \union (open[r].paid \cap crew)
  /\ punch' = punch \ open[r].off
  /\ adj' = [w \in Rows |-> IF w[1] = open[r].who THEN "none" ELSE adj[w]]
  /\ Goes(r, Closed)
  /\ UNCHANGED <<kind, dates, stray, edits>>

-----------------------------------------------------------------------------
\* A statement fails and the request with it; what was committed stays.  One
\* that fails before it committed anything changes nothing and is left out.
Fails(r) ==
  /\ open[r].op \in {"staff", "replace", "prune", "book"} /\ open[r].crew # {}
  /\ Goes(r, Closed)
  /\ UNCHANGED <<kind, dates, assignments, adj, stray, edits>>

AtOnce(e) ==
  \/ insert_employee_assignment(e) \/ insert_item_employee(e)
  \/ delete_employee_assignment(e) \/ delete_item_employee(e)
  \/ update_employee_assignment(e) \/ update_item_employee(e)
  \/ update_clock_times(e) \/ update_item_clock_times(e)
  \/ upsert_hours_adjustments(e)

Handle(r) ==
  \/ update_inquiry(r) \/ update_item(r) \/ Moves(r)
  \/ schedule_inquiry(r) \/ StaffsDay(r)
  \/ reassign_termin(r) \/ ReplacesCrew(r) \/ PrunesStale(r) \/ BooksDays(r) \/ Answers(r)
  \/ \E e \in Employees : assigned_days(r, e)
  \/ set_employee_schedule(r)
  \/ put_inquiry_employees(r) \/ put_item_employees(r) \/ PutsList(r)
  \/ set_inquiry_crew(r) \/ WritesCrew(r)
  \/ \E e \in Employees : fetch_hours_adjustments(r, e)
  \/ cleanup_hours_adjustments(r)
  \/ Fails(r)

CrewNext == (\E e \in Employees : AtOnce(e)) \/ (\E r \in Requests : Handle(r))
CrewSpec == CrewInit /\ [][CrewNext]_crewVars
-----------------------------------------------------------------------------
(***************************************************************************)
(* A row without recorded hours lies on a day of the job, whatever was     *)
(* moved, resized, added and written in between (inquiry_repo.rs,          *)
(* calendar_item_update.rs: rows out of the window are ghosts in the       *)
(* calendar).  The exceptions are the rows a request wrote after the days  *)
(* it had read had changed, or for a day it was told; they are gone with   *)
(* the next change of the job's days.                                      *)
(***************************************************************************)
CrewInSpan ==
  start # 0 => \A w \in crew \ work : w[2] \in Span(start, finish) \/ w \in stray

\* The requests that take a row away on purpose: a list without it, a crew
\* without the employee, an override that switches the day off.
TakesAway(r, w) ==
  /\ open'[r] # open[r]
  /\ \/ open[r].op = "put" /\ w \notin open[r].list
     \/ open[r].op \in {"crew", "replace"} /\ w[1] \notin open[r].crew
     \/ open[r].op = "cleanup" /\ w \in open[r].off

(***************************************************************************)
(* Recorded hours are historical fact (inquiry_repo.rs, the incident of    *)
(* 2026-06-10): a row with recorded hours keeps them through every move,   *)
(* resize, list and crew, except when the office takes away that row or    *)
(* that employee.                                                          *)
(***************************************************************************)
RecordedStays ==
  [][\A w \in work :
       \/ w \in work'
       \/ \E r \in Requests : TakesAway(r, w)
       \/ open' = open /\ \A v \in crew' : v[1] # w[1]]_crewVars

(***************************************************************************)
(* The crew travels with the job: when a request that read the current     *)
(* start moves the job by n days and keeps its length, every row of a day  *)
(* of the job without recorded hours is there n days later, with the hours *)
(* the worker reported unless a recorded row was already there.            *)
(***************************************************************************)
CrewTravels ==
  [][\A r \in Requests :
       (/\ open[r].op = "move" /\ start # 0 /\ start' # start
        /\ open[r].old = start /\ open'[r] # open[r]
        /\ Last(start', finish') - start' = Last(start, finish) - start)
       => \A w \in crew \ work :
            w[2] \in Span(start, finish) =>
              LET to == <<w[1], w[2] + (start' - start)>>
              IN to \in crew' /\ (w \in punch => to \in punch' \/ to \in work)]_crewVars
=============================================================================
