---- MODULE Timetable ----
(***************************************************************************)
(* The timetable of one class: its sessions, and publishing and cancelling *)
(* the class (apps/api/src/classrooms/sessions.service.ts and              *)
(* classrooms.service.ts), and what the room does to a session's status    *)
(* (apps/api/src/live/live.service.ts).  Requests of the host interleave   *)
(* at every await; each one reads, perhaps counts, and writes by id.       *)
(***************************************************************************)
EXTENDS Naturals, FiniteSets

CONSTANTS
    Sessions,   \* ids a session may get
    Requests,   \* HTTP requests of the host
    MaxTime,    \* bound on the instants
    MaxLength   \* how long a session may run

ASSUME TimetableAssumption ==
    /\ MaxTime \in Nat \ {0}
    /\ MaxLength \in 1..MaxTime
    /\ IsFiniteSet(Requests)

VARIABLES
    class,      \* the status of the class
    sessions,   \* its sessions
    task,       \* what each request is doing
    abreast     \* history: how many requests ever took up a time at once

vars == <<class, sessions, task, abreast>>

NoSession == [status |-> "NONE", from |-> 0, to |-> 0]

Rows == [status : {"SCHEDULED", "LIVE", "ENDED", "CANCELLED"}, from : 0..MaxTime, to : 0..MaxTime]

Idle == [pc |-> "idle"]

Tasks ==
    {Idle}
    \cup [pc : {"scheduleCount", "scheduleWrite"}, from : 0..MaxTime, to : 0..MaxTime]
    \cup [pc : {"moveCount", "moveWrite"}, id : Sessions, from : 0..MaxTime, to : 0..MaxTime]
    \cup [pc : {"cancelSession", "goLive"}, id : Sessions]
    \cup [pc : {"publishCount", "publishWrite", "cancelClass"}]

TypeOK ==
    /\ class \in {"DRAFT", "PUBLISHED", "CANCELLED"}
    /\ sessions \in [Sessions -> Rows \cup {NoSession}]
    /\ task \in [Requests -> Tasks]
    /\ abreast \in 0..Cardinality(Requests)

\* create: a class is a DRAFT without sessions.
Init ==
    /\ class = "DRAFT"
    /\ sessions = [s \in Sessions |-> NoSession]
    /\ task = [r \in Requests |-> Idle]
    /\ abreast = 0

-----------------------------------------------------------------------------
(* Helpers *)

At(r, pc) == task[r].pc = pc

Become(r, t) == task' = [task EXCEPT ![r] = t]

GoTo(r, pc) == task' = [task EXCEPT ![r].pc = pc]

On == {s \in Sessions : sessions[s].status \in {"SCHEDULED", "LIVE"}}

\* Mutant of Clashes: sessions that share only their first instant clash.
ClashesAtStart(others, from, to) ==
    \E s \in others : sessions[s].from = from /\ to > from

\* assertNoOverlap: half-open intervals of sessions that are on.
Clashes(others, from, to) ==
    \E s \in others : sessions[s].from < to /\ sessions[s].to > from

\* Requests that take up a time, by placing a session there or by taking the one
\* that is there live; one more than now.
Placing ==
    Cardinality({q \in Requests : task[q].pc \in {"scheduleCount", "scheduleWrite",
                                                  "moveCount", "moveWrite", "goLive"}}) + 1

Placed == abreast' = IF Placing > abreast THEN Placing ELSE abreast

-----------------------------------------------------------------------------
(* schedule *)

\* createSessionSchema checks the body, requireOwnedClassroom only whose class it is.
Schedule(r, from, to) ==
    /\ At(r, "idle")
    /\ to > from
    /\ to - from <= MaxLength
    /\ Become(r, [pc |-> "scheduleCount", from |-> from, to |-> to])
    /\ Placed
    /\ UNCHANGED <<class, sessions>>

ScheduleCounts(r) ==
    /\ At(r, "scheduleCount")
    /\ IF Clashes(On, task[r].from, task[r].to) THEN Become(r, Idle) ELSE GoTo(r, "scheduleWrite")
    /\ UNCHANGED <<class, sessions, abreast>>

ScheduleWrites(r) ==
    /\ At(r, "scheduleWrite")
    /\ \E s \in Sessions :
           /\ sessions[s] = NoSession
           /\ sessions' = [sessions EXCEPT ![s] =
                  [status |-> "SCHEDULED", from |-> task[r].from, to |-> task[r].to]]
    /\ Become(r, Idle)
    /\ UNCHANGED <<class, abreast>>

-----------------------------------------------------------------------------
(* update *)

\* Mutant of EndsAfterStart: the merged result is not checked.
EndsUnchecked(from, to) == from \in Nat /\ to \in Nat

EndsAfterStart(from, to) == to > from

\* What the body leaves out is taken from the row, so that any pair may result.
\* How long the session then runs is not looked at.
Move(r, s, from, to) ==
    /\ At(r, "idle")
    /\ sessions[s].status = "SCHEDULED"
    /\ EndsAfterStart(from, to)
    /\ Become(r, [pc |-> "moveCount", id |-> s, from |-> from, to |-> to])
    /\ Placed
    /\ UNCHANGED <<class, sessions>>

MoveCounts(r) ==
    /\ At(r, "moveCount")
    /\ IF Clashes(On \ {task[r].id}, task[r].from, task[r].to)
       THEN Become(r, Idle) ELSE GoTo(r, "moveWrite")
    /\ UNCHANGED <<class, sessions, abreast>>

\* Both ends are written, whatever the session is by now.
MoveWrites(r) ==
    /\ At(r, "moveWrite")
    /\ sessions' = [sessions EXCEPT ![task[r].id].from = task[r].from,
                                    ![task[r].id].to = task[r].to]
    /\ Become(r, Idle)
    /\ UNCHANGED <<class, abreast>>

-----------------------------------------------------------------------------
(* cancel, of a session *)

\* Mutant of MayCancel: a session that has ended can be cancelled.
MayCancelAnything(s) == sessions[s] # NoSession

MayCancel(s) == sessions[s].status \notin {"NONE", "ENDED"}

CancelSession(r, s) ==
    /\ At(r, "idle")
    /\ sessions[s] # NoSession
    /\ MayCancel(s)
    /\ Become(r, [pc |-> "cancelSession", id |-> s])
    /\ UNCHANGED <<class, sessions, abreast>>

CancelSessionWrites(r) ==
    /\ At(r, "cancelSession")
    /\ sessions' = [sessions EXCEPT ![task[r].id].status = "CANCELLED"]
    /\ Become(r, Idle)
    /\ UNCHANGED <<class, abreast>>

-----------------------------------------------------------------------------
(* publish and cancel, of the class *)

\* The host's address is verified; a host whose is not never gets further.
MayPublish == class # "CANCELLED"

Publish(r) ==
    /\ At(r, "idle")
    /\ MayPublish
    /\ Become(r, [pc |-> "publishCount"])
    /\ UNCHANGED <<class, sessions, abreast>>

HasSession == On # {}

PublishCounts(r) ==
    /\ At(r, "publishCount")
    /\ IF HasSession THEN GoTo(r, "publishWrite") ELSE Become(r, Idle)
    /\ UNCHANGED <<class, sessions, abreast>>

PublishWrites(r) ==
    /\ At(r, "publishWrite")
    /\ class' = "PUBLISHED"
    /\ Become(r, Idle)
    /\ UNCHANGED <<sessions, abreast>>

\* Nothing is asked of the class but its owner.
CancelClass(r) ==
    /\ At(r, "idle")
    /\ Become(r, [pc |-> "cancelClass"])
    /\ UNCHANGED <<class, sessions, abreast>>

\* One transaction; a session that is LIVE goes on.
CancelClassWrites(r) ==
    /\ At(r, "cancelClass")
    /\ class' = "CANCELLED"
    /\ sessions' = [s \in Sessions |-> IF sessions[s].status = "SCHEDULED"
                                       THEN [sessions[s] EXCEPT !.status = "CANCELLED"]
                                       ELSE sessions[s]]
    /\ Become(r, Idle)
    /\ UNCHANGED abreast

-----------------------------------------------------------------------------
(* The room; module LiveSession has the other steps of these handlers *)

\* Mutant of MayGoLive: a session that was cancelled is taken live.
MayGoLiveAnyhow(s) == sessions[s].status \in {"SCHEDULED", "CANCELLED"}

\* joinToken of the host: the session was SCHEDULED when it was read.
MayGoLive(s) == sessions[s].status = "SCHEDULED"

Join(r, s) ==
    /\ At(r, "idle")
    /\ MayGoLive(s)
    /\ Become(r, [pc |-> "goLive", id |-> s])
    /\ Placed
    /\ UNCHANGED <<class, sessions>>

\* LIVE is written by id, whatever the session is by now.
GoLive(r) ==
    /\ At(r, "goLive")
    /\ sessions' = [sessions EXCEPT ![task[r].id].status = "LIVE"]
    /\ Become(r, Idle)
    /\ UNCHANGED <<class, abreast>>

\* end asks only that there is a session, and writes; what room_finished read before
\* it writes the same may have changed since.
Ends(s) ==
    /\ sessions[s] # NoSession
    /\ sessions' = [sessions EXCEPT ![s].status = "ENDED"]
    /\ UNCHANGED <<class, task, abreast>>

\* A request dies, or its statement fails, before its next step.
Crash(r) ==
    /\ ~At(r, "idle")
    /\ Become(r, Idle)
    /\ UNCHANGED <<class, sessions, abreast>>

Arrive(r) ==
    \/ \E from, to \in 0..MaxTime :
           Schedule(r, from, to) \/ \E s \in Sessions : Move(r, s, from, to)
    \/ \E s \in Sessions : CancelSession(r, s) \/ Join(r, s)
    \/ Publish(r)
    \/ CancelClass(r)

HandlerStep(r) ==
    \/ ScheduleCounts(r)
    \/ ScheduleWrites(r)
    \/ MoveCounts(r)
    \/ MoveWrites(r)
    \/ CancelSessionWrites(r)
    \/ PublishCounts(r)
    \/ PublishWrites(r)
    \/ CancelClassWrites(r)
    \/ GoLive(r)

Next ==
    \/ \E r \in Requests : Arrive(r) \/ HandlerStep(r) \/ Crash(r)
    \/ \E s \in Sessions : Ends(s)

Spec == Init /\ [][Next]_vars

-----------------------------------------------------------------------------
(* Properties *)

\* The rows are of their types, and every session ends after it starts, however
\* partial updates of it interleave (sessions.service.ts:66-70).
SessionsMakeSense ==
    TypeOK /\ \A s \in Sessions : sessions[s] # NoSession => sessions[s].to > sessions[s].from

\* No more sessions take place at an instant than requests ever took up a time at
\* once, schedules, moves and sessions on their way to LIVE together: one request
\* at a time, no two sessions overlap (sessions.service.ts:110-133).
ClashIsBounded ==
    \A t \in 0..MaxTime :
        LET there == {s \in On : sessions[s].from <= t /\ t < sessions[s].to}
        IN there # {} => Cardinality(there) <= abreast

\* Requests that have read a session, or the class, and are yet to write its status.
Pending(pc, s) == \E q \in Requests : At(q, pc) /\ task[q].id = s

\* Cancelled, and no publish under way.
ClassIsOff ==
    class = "CANCELLED" /\ ~\E q \in Requests : At(q, "publishCount") \/ At(q, "publishWrite")

\* Over, and nobody about to take it live.
IsOver(s) == sessions[s].status \in {"ENDED", "CANCELLED"} /\ ~Pending("goLive", s)

HasEnded(s) == IsOver(s) /\ sessions[s].status = "ENDED" /\ ~Pending("cancelSession", s)

\* What is over is over for good: a class that is cancelled while no publish of it is
\* under way is never on sale again, a session that is over while no join is about to
\* take it live never comes back, and one that has ended while no cancel of it is
\* under way stays as it ended (classrooms.service.ts:163-165, live.service.ts:131-133
\* and sessions.service.ts:87-89).
OverIsFinal ==
    [][/\ ClassIsOff => ClassIsOff'
       /\ \A s \in Sessions : (IsOver(s) => IsOver(s)') /\ (HasEnded(s) => HasEnded(s)')]_vars

\* No session runs longer than is allowed when it is scheduled: the schema says
\* that rescheduling is held to the same limit (schemas/classroom.ts:80-84).
NeverTooLong == \A s \in Sessions : sessions[s].to <= sessions[s].from + MaxLength

\* "A cancelled class cannot be published again" (classrooms.service.ts:164),
\* whatever overlaps.
CancelledStaysOff == [][class = "CANCELLED" => class' = "CANCELLED"]_vars

====
