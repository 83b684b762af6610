---- MODULE TimetableProofs ----
(***************************************************************************)
(* Proofs about Timetable, for every number of sessions, requests and      *)
(* instants: it keeps its types, sessions end after they start, what is    *)
(* over with no request at it is over for good, and how many sessions      *)
(* clash has a bound.                                                      *)
(***************************************************************************)
EXTENDS Timetable, FiniteSetTheorems, TLAPS

USE TimetableAssumption

Placings == {"scheduleCount", "scheduleWrite", "moveCount", "moveWrite"}

\* A request at one of these names a session.
Naming == {"moveCount", "moveWrite", "cancelSession", "goLive"}

USE DEF Naming

\* What a request is about to write makes sense, and the row it goes to exists.
TasksMakeSense ==
    \A r \in Requests :
        /\ task[r].pc \in Placings => task[r].to > task[r].from
        /\ task[r].pc \in Naming =>
               sessions[task[r].id] # NoSession

TimetableInv == TasksMakeSense /\ SessionsMakeSense

-----------------------------------------------------------------------------
LEMMA RowFields ==
    ASSUME NEW row \in Rows \cup {NoSession}
    PROVE  /\ row # NoSession <=> row \in Rows
           /\ row.status \in {"SCHEDULED", "LIVE", "ENDED", "CANCELLED"} => row \in Rows
           /\ row.from \in 0..MaxTime /\ row.to \in 0..MaxTime
           /\ row.status \in {"NONE", "SCHEDULED", "LIVE", "ENDED", "CANCELLED"}
BY DEF Rows, NoSession

LEMMA IdleTask == Idle \in Tasks /\ Idle.pc = "idle"
BY DEF Idle, Tasks

LEMMA TaskFields ==
    ASSUME NEW t \in Tasks
    PROVE  /\ t.pc \in Placings => t.from \in 0..MaxTime /\ t.to \in 0..MaxTime
           /\ t.pc \in Naming => t.id \in Sessions
BY DEF Tasks, Idle, Placings

\* A request that found no clash goes on with what it had in mind.
LEMMA ScheduleGoesOn ==
    ASSUME NEW t \in Tasks, t.pc = "scheduleCount"
    PROVE  LET n == [t EXCEPT !.pc = "scheduleWrite"]
           IN  n \in Tasks /\ n.pc = "scheduleWrite" /\ n.from = t.from /\ n.to = t.to
<1>1. t \in [pc : {"scheduleCount", "scheduleWrite"}, from : 0..MaxTime, to : 0..MaxTime]
    BY DEF Tasks, Idle
<1> QED
    BY <1>1 DEF Tasks

LEMMA MoveGoesOn ==
    ASSUME NEW t \in Tasks, t.pc = "moveCount"
    PROVE  LET n == [t EXCEPT !.pc = "moveWrite"]
           IN  n \in Tasks /\ n.pc = "moveWrite" /\ n.id = t.id /\ n.from = t.from /\ n.to = t.to
<1>1. t \in [pc : {"moveCount", "moveWrite"}, id : Sessions, from : 0..MaxTime, to : 0..MaxTime]
    BY DEF Tasks, Idle
<1> QED
    BY <1>1 DEF Tasks

LEMMA PublishGoesOn ==
    ASSUME NEW t \in Tasks, t.pc = "publishCount"
    PROVE  LET n == [t EXCEPT !.pc = "publishWrite"]
           IN  n \in Tasks /\ n.pc = "publishWrite"
<1>1. t \in [pc : {"publishCount", "publishWrite", "cancelClass"}]
    BY DEF Tasks, Idle
<1> QED
    BY <1>1 DEF Tasks

\* An idle request that begins to place a session makes their count one larger
\* at most than there are requests.
LEMMA Abreast ==
    ASSUME TypeOK, NEW r \in Requests, task[r].pc = "idle", Placed
    PROVE  abreast' \in 0..Cardinality(Requests)
<1> DEFINE S == {q \in Requests : task[q].pc \in {"scheduleCount", "scheduleWrite",
                                                  "moveCount", "moveWrite", "goLive"}}
<1>1. S \subseteq Requests \ {r}
    OBVIOUS
<1>2. IsFiniteSet(Requests \ {r}) /\ Cardinality(Requests \ {r}) = Cardinality(Requests) - 1
    BY FS_RemoveElement
<1>3. IsFiniteSet(S) /\ Cardinality(S) <= Cardinality(Requests) - 1
    BY <1>1, <1>2, FS_Subset
<1>4. Cardinality(S) \in Nat /\ Cardinality(Requests) \in Nat
    BY <1>3, FS_CardinalityType
<1>5. Placing \in 0..Cardinality(Requests)
    BY <1>3, <1>4 DEF Placing
<1> QED
    BY <1>5 DEF Placed, TypeOK

\* A request that is given something that makes sense spoils nothing.
LEMMA TaskStep ==
    ASSUME TimetableInv, NEW r \in Requests, NEW t \in Tasks, Become(r, t),
           \A s \in Sessions : sessions[s] # NoSession => sessions'[s] # NoSession,
           t.pc \in Placings => t.to > t.from,
           t.pc \in Naming => sessions[t.id] # NoSession
    PROVE  task' \in [Requests -> Tasks] /\ TasksMakeSense'
<1>1. \A q \in Requests : task[q] \in Tasks
    BY DEF TimetableInv, SessionsMakeSense, TypeOK
<1>2. \A q \in Requests : task'[q] = IF q = r THEN t ELSE task[q]
    BY DEF Become, TimetableInv, SessionsMakeSense, TypeOK
<1>3. task' \in [Requests -> Tasks]
    BY <1>1 DEF Become, TimetableInv, SessionsMakeSense, TypeOK
<1> QED
    BY <1>1, <1>2, <1>3, TaskFields DEF TimetableInv, TasksMakeSense

LEMMA InvInitial == Init => TimetableInv
<1> SUFFICES ASSUME Init PROVE TimetableInv
    OBVIOUS
<1>1. 0 \in 0..Cardinality(Requests)
    BY FS_CardinalityType
<1> QED
    BY <1>1, IdleTask DEF Init, TimetableInv, TasksMakeSense, SessionsMakeSense, TypeOK, Placings

LEMMA InvInductive == TimetableInv /\ [Next]_vars => TimetableInv'
<1> SUFFICES ASSUME TimetableInv, [Next]_vars PROVE TimetableInv'
    OBVIOUS
<1>0. /\ TypeOK
      /\ \A r \in Requests : task[r] \in Tasks
      /\ \A s \in Sessions : sessions[s] \in Rows \cup {NoSession}
      /\ \A s \in Sessions : sessions[s] # NoSession => sessions[s].to > sessions[s].from
    BY DEF TimetableInv, SessionsMakeSense, TypeOK
\* Most steps write no session and change one request.
<1>1. ASSUME NEW r \in Requests, NEW t \in Tasks, Become(r, t), UNCHANGED sessions,
             class' \in {"DRAFT", "PUBLISHED", "CANCELLED"},
             abreast' \in 0..Cardinality(Requests),
             t.pc \in Placings => t.to > t.from,
             t.pc \in Naming => sessions[t.id] # NoSession
      PROVE  TimetableInv'
    BY <1>0, <1>1, TaskStep DEF TimetableInv, SessionsMakeSense, TypeOK
\* The others write sessions that make sense, and the request is done.
<1>2. ASSUME NEW r \in Requests, Become(r, Idle), NEW new \in [Sessions -> Rows \cup {NoSession}],
             sessions' = new,
             \A s \in Sessions : new[s] # NoSession => new[s].to > new[s].from,
             \A s \in Sessions : sessions[s] # NoSession => new[s] # NoSession,
             class' \in {"DRAFT", "PUBLISHED", "CANCELLED"}, abreast' = abreast
      PROVE  TimetableInv'
    BY <1>0, <1>2, IdleTask, TaskStep DEF TimetableInv, SessionsMakeSense, TypeOK, Placings
<1>3. ASSUME NEW r \in Requests, NEW from \in 0..MaxTime, NEW to \in 0..MaxTime,
             Schedule(r, from, to)
      PROVE  TimetableInv'
    <2>1. [pc |-> "scheduleCount", from |-> from, to |-> to] \in Tasks
        BY DEF Tasks
    <2>2. abreast' \in 0..Cardinality(Requests)
        BY <1>0, <1>3, Abreast DEF Schedule, At
    <2> QED
        BY <1>0, <1>1, <1>3, <2>1, <2>2 DEF Schedule, TypeOK
<1>4. ASSUME NEW r \in Requests, ScheduleCounts(r) PROVE TimetableInv'
    <2> DEFINE n == [task[r] EXCEPT !.pc = "scheduleWrite"]
    <2>1. n \in Tasks /\ n.pc = "scheduleWrite" /\ n.to > n.from
        BY <1>0, <1>4, ScheduleGoesOn DEF ScheduleCounts, At, TimetableInv, TasksMakeSense, Placings
    <2>2. Become(r, Idle) \/ Become(r, n)
        BY <1>0, <1>4 DEF ScheduleCounts, GoTo, Become, TypeOK
    <2> QED
        BY <1>0, <1>1, <1>4, <2>1, <2>2, IdleTask DEF ScheduleCounts, TypeOK, Placings
<1>5. ASSUME NEW r \in Requests, ScheduleWrites(r) PROVE TimetableInv'
    <2>1. PICK s \in Sessions :
              /\ sessions[s] = NoSession
              /\ sessions' = [sessions EXCEPT ![s] =
                     [status |-> "SCHEDULED", from |-> task[r].from, to |-> task[r].to]]
        BY <1>5 DEF ScheduleWrites
    <2> DEFINE row == [status |-> "SCHEDULED", from |-> task[r].from, to |-> task[r].to]
    <2>2. row \in Rows /\ row # NoSession /\ row.to > row.from
        BY <1>0, <1>5, TaskFields
        DEF ScheduleWrites, At, Rows, NoSession, TimetableInv, TasksMakeSense, Placings
    <2> QED
        BY <1>0, <1>2, <1>5, <2>1, <2>2 DEF ScheduleWrites, TypeOK
<1>6. ASSUME NEW r \in Requests, NEW s \in Sessions, NEW from \in 0..MaxTime,
             NEW to \in 0..MaxTime, Move(r, s, from, to)
      PROVE  TimetableInv'
    <2>1. [pc |-> "moveCount", id |-> s, from |-> from, to |-> to] \in Tasks
        BY DEF Tasks
    <2>2. abreast' \in 0..Cardinality(Requests)
        BY <1>0, <1>6, Abreast DEF Move, At
    <2>3. sessions[s] # NoSession
        BY <1>6 DEF Move, NoSession
    <2> QED
        BY <1>0, <1>1, <1>6, <2>1, <2>2, <2>3 DEF Move, EndsAfterStart, TypeOK
<1>7. ASSUME NEW r \in Requests, MoveCounts(r) PROVE TimetableInv'
    <2> DEFINE n == [task[r] EXCEPT !.pc = "moveWrite"]
    <2>1. n \in Tasks /\ n.pc = "moveWrite" /\ n.to > n.from /\ sessions[n.id] # NoSession
        BY <1>0, <1>7, MoveGoesOn DEF MoveCounts, At, TimetableInv, TasksMakeSense, Placings
    <2>2. Become(r, Idle) \/ Become(r, n)
        BY <1>0, <1>7 DEF MoveCounts, GoTo, Become, TypeOK
    <2> QED
        BY <1>0, <1>1, <1>7, <2>1, <2>2, IdleTask DEF MoveCounts, TypeOK, Placings
<1>8. ASSUME NEW r \in Requests, MoveWrites(r) PROVE TimetableInv'
    <2>1. /\ task[r].id \in Sessions /\ sessions[task[r].id] \in Rows
          /\ task[r].from \in 0..MaxTime /\ task[r].to \in 0..MaxTime
          /\ task[r].to > task[r].from
        BY <1>0, <1>8, TaskFields, RowFields
        DEF MoveWrites, At, TimetableInv, TasksMakeSense, Placings
    <2> DEFINE row == [sessions[task[r].id] EXCEPT !.from = task[r].from, !.to = task[r].to]
    <2>2. row \in Rows /\ row.to > row.from
        BY <2>1 DEF Rows
    <2>3. row # NoSession
        BY <2>2, RowFields
    <2>4. sessions' = [sessions EXCEPT ![task[r].id] = row]
        BY <1>0, <1>8, <2>1 DEF MoveWrites, TypeOK
    <2>5. sessions' \in [Sessions -> Rows \cup {NoSession}]
        BY <1>0, <2>2, <2>4 DEF TypeOK
    <2>6. \A s \in Sessions : sessions'[s] = IF s = task[r].id THEN row ELSE sessions[s]
        BY <1>0, <2>4 DEF TypeOK
    <2> QED
        BY <1>0, <1>2, <1>8, <2>2, <2>3, <2>5, <2>6 DEF MoveWrites, TypeOK
<1>9. ASSUME NEW r \in Requests, NEW s \in Sessions, CancelSession(r, s) PROVE TimetableInv'
    <2>1. [pc |-> "cancelSession", id |-> s] \in Tasks
        BY <1>0, <1>9, RowFields DEF CancelSession, MayCancel, Tasks
    <2> QED
        BY <1>0, <1>1, <1>9, <2>1 DEF CancelSession, TypeOK, Placings
<1>10. ASSUME NEW r \in Requests, CancelSessionWrites(r) PROVE TimetableInv'
    <2>1. task[r].id \in Sessions /\ sessions[task[r].id] \in Rows
        BY <1>0, <1>10, TaskFields, RowFields DEF CancelSessionWrites, At, TimetableInv, TasksMakeSense
    <2> DEFINE row == [sessions[task[r].id] EXCEPT !.status = "CANCELLED"]
    <2>2. row \in Rows /\ row.to = sessions[task[r].id].to /\ row.from = sessions[task[r].id].from
        BY <2>1 DEF Rows
    <2>3. row # NoSession /\ sessions[task[r].id] # NoSession
        BY <2>1, <2>2, RowFields
    <2>4. sessions' = [sessions EXCEPT ![task[r].id] = row]
        BY <1>10 DEF CancelSessionWrites
    <2> QED
        BY <1>0, <1>2, <1>10, <2>1, <2>2, <2>3, <2>4 DEF CancelSessionWrites, TypeOK
<1>11. ASSUME NEW r \in Requests, Publish(r) PROVE TimetableInv'
    <2>1. [pc |-> "publishCount"] \in Tasks
        BY <1>0, <1>11 DEF Publish, MayPublish, TypeOK, Tasks
    <2> QED
        BY <1>0, <1>1, <1>11, <2>1 DEF Publish, TypeOK, Placings
<1>12. ASSUME NEW r \in Requests, PublishCounts(r) PROVE TimetableInv'
    <2> DEFINE n == [task[r] EXCEPT !.pc = "publishWrite"]
    <2>1. n \in Tasks /\ n.pc = "publishWrite"
        BY <1>0, <1>12, PublishGoesOn DEF PublishCounts, At
    <2>2. Become(r, Idle) \/ Become(r, n)
        BY <1>0, <1>12 DEF PublishCounts, GoTo, Become, TypeOK
    <2> QED
        BY <1>0, <1>1, <1>12, <2>1, <2>2, IdleTask DEF PublishCounts, TypeOK, Placings
<1>13. ASSUME NEW r \in Requests, PublishWrites(r) PROVE TimetableInv'
    BY <1>0, <1>1, <1>13, IdleTask DEF PublishWrites, TypeOK, Placings
<1>14. ASSUME NEW r \in Requests, CancelClass(r) PROVE TimetableInv'
    <2>1. [pc |-> "cancelClass"] \in Tasks
        BY DEF Tasks
    <2> QED
        BY <1>0, <1>1, <1>14, <2>1 DEF CancelClass, TypeOK, Placings
<1>15. ASSUME NEW r \in Requests, CancelClassWrites(r) PROVE TimetableInv'
    <2> DEFINE new == [s \in Sessions |-> IF sessions[s].status = "SCHEDULED"
                                          THEN [sessions[s] EXCEPT !.status = "CANCELLED"]
                                          ELSE sessions[s]]
    <2>1. ASSUME NEW s \in Sessions
          PROVE  /\ new[s] \in Rows \cup {NoSession}
                 /\ sessions[s] # NoSession <=> new[s] # NoSession
                 /\ new[s] # NoSession => new[s].to > new[s].from
        <3>1. CASE sessions[s].status = "SCHEDULED"
            <4>1. sessions[s] \in Rows /\ sessions[s] # NoSession
                BY <1>0, <3>1, RowFields
            <4>2. new[s] \in Rows /\ new[s].to = sessions[s].to /\ new[s].from = sessions[s].from
                BY <3>1, <4>1 DEF Rows
            <4> QED
                BY <1>0, <4>1, <4>2, RowFields
        <3>2. CASE sessions[s].status # "SCHEDULED"
            BY <1>0, <3>2
        <3> QED
            BY <3>1, <3>2
    <2>2. new \in [Sessions -> Rows \cup {NoSession}]
        BY <2>1
    <2> QED
        BY <1>0, <1>2, <1>15, <2>1, <2>2 DEF CancelClassWrites, TypeOK
<1>16. ASSUME NEW r \in Requests, NEW s \in Sessions, Join(r, s) PROVE TimetableInv'
    <2>1. [pc |-> "goLive", id |-> s] \in Tasks
        BY DEF Tasks
    <2>2. sessions[s] # NoSession
        BY <1>16 DEF Join, MayGoLive, NoSession
    <2>3. abreast' \in 0..Cardinality(Requests)
        BY <1>0, <1>16, Abreast DEF Join, At
    <2> QED
        BY <1>0, <1>1, <1>16, <2>1, <2>2, <2>3 DEF Join, TypeOK, Placings
<1>17. ASSUME NEW r \in Requests, GoLive(r) PROVE TimetableInv'
    <2>1. task[r].id \in Sessions /\ sessions[task[r].id] \in Rows
        BY <1>0, <1>17, TaskFields, RowFields DEF GoLive, At, TimetableInv, TasksMakeSense
    <2> DEFINE row == [sessions[task[r].id] EXCEPT !.status = "LIVE"]
    <2>2. row \in Rows /\ row.to = sessions[task[r].id].to /\ row.from = sessions[task[r].id].from
        BY <2>1 DEF Rows
    <2>3. row # NoSession /\ sessions[task[r].id] # NoSession
        BY <2>1, <2>2, RowFields
    <2>4. sessions' = [sessions EXCEPT ![task[r].id] = row]
        BY <1>17 DEF GoLive
    <2> QED
        BY <1>0, <1>2, <1>17, <2>1, <2>2, <2>3, <2>4 DEF GoLive, TypeOK
<1>18. ASSUME NEW s \in Sessions, Ends(s) PROVE TimetableInv'
    <2>1. sessions' = [sessions EXCEPT ![s].status = "ENDED"]
        BY <1>18 DEF Ends
    <2>2. sessions[s] \in Rows /\ sessions[s] # NoSession
        BY <1>0, <1>18 DEF Ends
    <2> DEFINE row == [sessions[s] EXCEPT !.status = "ENDED"]
    <2>3. row \in Rows /\ row.to = sessions[s].to /\ row.from = sessions[s].from
        BY <2>2 DEF Rows
    <2>4. row # NoSession
        BY <2>3, RowFields
    <2>5. \A q \in Sessions : sessions'[q] = IF q = s THEN row ELSE sessions[q]
        BY <1>0, <2>1 DEF TypeOK
    <2>6. sessions' \in [Sessions -> Rows \cup {NoSession}]
        BY <1>0, <2>1, <2>3 DEF TypeOK
    <2>7. SessionsMakeSense'
        BY <1>0, <1>18, <2>2, <2>3, <2>5, <2>6 DEF Ends, SessionsMakeSense, TypeOK
    <2>8. TasksMakeSense'
        BY <1>0, <1>18, <2>2, <2>4, <2>5, TaskFields DEF Ends, TimetableInv, TasksMakeSense
    <2> QED
        BY <2>7, <2>8 DEF TimetableInv
<1>19. ASSUME NEW r \in Requests, Crash(r) PROVE TimetableInv'
    BY <1>0, <1>1, <1>19, IdleTask DEF Crash, TypeOK, Placings
<1>20. CASE UNCHANGED vars
    BY <1>20 DEF vars, TimetableInv, TasksMakeSense, SessionsMakeSense, TypeOK
<1> QED
    BY <1>3, <1>4, <1>5, <1>6, <1>7, <1>8, <1>9, <1>10, <1>11, <1>12, <1>13, <1>14, <1>15, <1>16,
       <1>17, <1>18, <1>19, <1>20 DEF Next, Arrive, HandlerStep

\* The rows are of their types and every session ends after it starts, however
\* requests interleave (sessions.service.ts:66-70).
THEOREM TimetableMakesSense == Spec => []SessionsMakeSense
<1>1. TimetableInv => SessionsMakeSense
    BY DEF TimetableInv
<1> QED
    BY InvInitial, InvInductive, <1>1, PTL DEF Spec

-----------------------------------------------------------------------------
(* What is over *)

Final ==
    /\ ClassIsOff => ClassIsOff'
    /\ \A s \in Sessions : (IsOver(s) => IsOver(s)') /\ (HasEnded(s) => HasEnded(s)')

\* A step of one request brings no publish and no join of a session that is over.
LEMMA RequestStep ==
    ASSUME TimetableInv, NEW r \in Requests, NEW u, Become(r, u),
           u.pc \in {"publishCount", "publishWrite"} =>
               class # "CANCELLED" \/ task[r].pc \in {"publishCount", "publishWrite"},
           u.pc = "goLive" => sessions[u.id].status \notin {"ENDED", "CANCELLED"},
           u.pc = "cancelSession" => sessions[u.id].status # "ENDED",
           ClassIsOff => class' = "CANCELLED",
           \A s \in Sessions : IsOver(s) => sessions'[s].status \in {"ENDED", "CANCELLED"},
           \A s \in Sessions : HasEnded(s) => sessions'[s].status = "ENDED"
    PROVE  Final
<1>1. \A q \in Requests : task'[q] = IF q = r THEN u ELSE task[q]
    BY DEF Become, TimetableInv, SessionsMakeSense, TypeOK
<1>2. ClassIsOff => ClassIsOff'
    BY <1>1 DEF ClassIsOff, At
<1>3. ASSUME NEW s \in Sessions, IsOver(s) PROVE IsOver(s)'
    <2>1. ASSUME NEW q \in Requests, task'[q].pc = "goLive", task'[q].id = s PROVE FALSE
        BY <1>1, <1>3, <2>1 DEF IsOver, Pending, At
    <2> QED
        BY <1>3, <2>1 DEF IsOver, Pending, At
<1>4. ASSUME NEW s \in Sessions, HasEnded(s) PROVE HasEnded(s)'
    <2>1. ASSUME NEW q \in Requests, task'[q].pc = "cancelSession", task'[q].id = s PROVE FALSE
        BY <1>1, <1>4, <2>1 DEF HasEnded, Pending, At
    <2>2. IsOver(s)'
        BY <1>3, <1>4 DEF HasEnded
    <2> QED
        BY <1>4, <2>1, <2>2 DEF HasEnded, Pending, At
<1> QED
    BY <1>2, <1>3, <1>4 DEF Final

LEMMA StepIsFinal == TimetableInv /\ [Next]_vars => Final
<1> SUFFICES ASSUME TimetableInv, [Next]_vars PROVE Final
    OBVIOUS
<1>0. /\ TypeOK
      /\ \A r \in Requests : task[r] \in Tasks
      /\ \A s \in Sessions : sessions[s] \in Rows \cup {NoSession}
    BY DEF TimetableInv, SessionsMakeSense, TypeOK
\* Most steps leave both statuses alone.
<1>1. ASSUME NEW r \in Requests, NEW u, Become(r, u), UNCHANGED <<class, sessions>>,
             u.pc \in {"publishCount", "publishWrite"} =>
                 class # "CANCELLED" \/ task[r].pc \in {"publishCount", "publishWrite"},
             u.pc = "goLive" => sessions[u.id].status \notin {"ENDED", "CANCELLED"},
             u.pc = "cancelSession" => sessions[u.id].status # "ENDED"
      PROVE  Final
    <2>1. /\ ClassIsOff => class' = "CANCELLED"
          /\ \A s \in Sessions : IsOver(s) => sessions'[s].status \in {"ENDED", "CANCELLED"}
          /\ \A s \in Sessions : HasEnded(s) => sessions'[s].status = "ENDED"
        BY <1>1 DEF ClassIsOff, IsOver, HasEnded
    <2> QED
        BY <1>1, <2>1, RequestStep
\* The others end a request that wrote one session at most, or all that are SCHEDULED.
<1>2. ASSUME NEW r \in Requests, Become(r, Idle),
             ClassIsOff => class' = "CANCELLED",
             \A s \in Sessions : IsOver(s) => sessions'[s].status \in {"ENDED", "CANCELLED"},
             \A s \in Sessions : HasEnded(s) => sessions'[s].status = "ENDED"
      PROVE  Final
    BY <1>2, IdleTask, RequestStep
<1>3. ASSUME NEW r \in Requests, NEW from \in 0..MaxTime, NEW to \in 0..MaxTime,
             Schedule(r, from, to)
      PROVE  Final
    BY <1>1, <1>3 DEF Schedule
<1>4. ASSUME NEW r \in Requests, ScheduleCounts(r) PROVE Final
    <2> DEFINE n == [task[r] EXCEPT !.pc = "scheduleWrite"]
    <2>1. n.pc = "scheduleWrite"
        BY <1>0, <1>4, ScheduleGoesOn DEF ScheduleCounts, At
    <2>2. Become(r, Idle) \/ Become(r, n)
        BY <1>0, <1>4 DEF ScheduleCounts, GoTo, Become, TypeOK
    <2> HIDE DEF n
    <2> QED
        BY <1>1, <1>4, <2>1, <2>2, IdleTask DEF ScheduleCounts
<1>5. ASSUME NEW r \in Requests, ScheduleWrites(r) PROVE Final
    <2>1. \A s \in Sessions : sessions[s] # NoSession => sessions'[s] = sessions[s]
        BY <1>0, <1>5 DEF ScheduleWrites, TypeOK
    <2>2. \A s \in Sessions : IsOver(s) => sessions[s] # NoSession
        BY DEF IsOver, NoSession
    <2>3. Become(r, Idle) /\ class' = class
        BY <1>5 DEF ScheduleWrites
    <2> QED
        BY <1>2, <2>1, <2>2, <2>3 DEF ClassIsOff, IsOver, HasEnded
<1>6. ASSUME NEW r \in Requests, NEW s \in Sessions, NEW from \in 0..MaxTime,
             NEW to \in 0..MaxTime, Move(r, s, from, to)
      PROVE  Final
    BY <1>1, <1>6 DEF Move
<1>7. ASSUME NEW r \in Requests, MoveCounts(r) PROVE Final
    <2> DEFINE n == [task[r] EXCEPT !.pc = "moveWrite"]
    <2>1. n.pc = "moveWrite"
        BY <1>0, <1>7, MoveGoesOn DEF MoveCounts, At
    <2>2. Become(r, Idle) \/ Become(r, n)
        BY <1>0, <1>7 DEF MoveCounts, GoTo, Become, TypeOK
    <2> HIDE DEF n
    <2> QED
        BY <1>1, <1>7, <2>1, <2>2, IdleTask DEF MoveCounts
<1>8. ASSUME NEW r \in Requests, MoveWrites(r) PROVE Final
    <2>1. PICK i \in Sessions : i = task[r].id
        BY <1>0, <1>8, TaskFields DEF MoveWrites, At
    <2>2. sessions[i] \in Rows
        BY <1>0, <1>8, <2>1, RowFields DEF MoveWrites, At, TimetableInv, TasksMakeSense
    <2>3. \A s \in Sessions : sessions'[s].status = sessions[s].status
        BY <1>0, <1>8, <2>1, <2>2 DEF MoveWrites, TypeOK, Rows
    <2>4. Become(r, Idle) /\ class' = class
        BY <1>8 DEF MoveWrites
    <2> QED
        BY <1>2, <2>3, <2>4 DEF ClassIsOff, IsOver, HasEnded
<1>9. ASSUME NEW r \in Requests, NEW s \in Sessions, CancelSession(r, s) PROVE Final
    BY <1>1, <1>9 DEF CancelSession, MayCancel
<1>10. ASSUME NEW r \in Requests, CancelSessionWrites(r) PROVE Final
    <2>1. PICK i \in Sessions : i = task[r].id
        BY <1>0, <1>10, TaskFields DEF CancelSessionWrites, At
    <2>2. sessions[i] \in Rows
        BY <1>0, <1>10, <2>1, RowFields DEF CancelSessionWrites, At, TimetableInv, TasksMakeSense
    <2>3. sessions'[i].status = "CANCELLED" /\ ~HasEnded(i)
        BY <1>0, <1>10, <2>1, <2>2 DEF CancelSessionWrites, TypeOK, Rows, HasEnded, Pending
    <2>4. \A s \in Sessions : s # i => sessions'[s] = sessions[s]
        BY <1>0, <1>10, <2>1 DEF CancelSessionWrites, TypeOK
    <2>5. Become(r, Idle) /\ class' = class
        BY <1>10 DEF CancelSessionWrites
    <2> QED
        BY <1>2, <2>3, <2>4, <2>5 DEF ClassIsOff, IsOver, HasEnded
<1>11. ASSUME NEW r \in Requests, Publish(r) PROVE Final
    BY <1>1, <1>11 DEF Publish, MayPublish
<1>12. ASSUME NEW r \in Requests, PublishCounts(r) PROVE Final
    <2> DEFINE n == [task[r] EXCEPT !.pc = "publishWrite"]
    <2>1. n.pc = "publishWrite"
        BY <1>0, <1>12, PublishGoesOn DEF PublishCounts, At
    <2>2. Become(r, Idle) \/ Become(r, n)
        BY <1>0, <1>12 DEF PublishCounts, GoTo, Become, TypeOK
    <2> HIDE DEF n
    <2> QED
        BY <1>1, <1>12, <2>1, <2>2, IdleTask DEF PublishCounts, At
<1>13. ASSUME NEW r \in Requests, PublishWrites(r) PROVE Final
    <2>1. ~ClassIsOff
        BY <1>13 DEF PublishWrites, ClassIsOff
    <2> QED
        BY <1>2, <1>13, <2>1 DEF PublishWrites, IsOver, HasEnded
<1>14. ASSUME NEW r \in Requests, CancelClass(r) PROVE Final
    BY <1>1, <1>14 DEF CancelClass
<1>15. ASSUME NEW r \in Requests, CancelClassWrites(r) PROVE Final
    BY <1>2, <1>15 DEF CancelClassWrites, IsOver, HasEnded
<1>16. ASSUME NEW r \in Requests, NEW s \in Sessions, Join(r, s) PROVE Final
    BY <1>1, <1>16 DEF Join, MayGoLive
<1>17. ASSUME NEW r \in Requests, GoLive(r) PROVE Final
    <2>1. PICK i \in Sessions : i = task[r].id
        BY <1>0, <1>17, TaskFields DEF GoLive, At
    <2>2. ~IsOver(i)
        BY <1>17, <2>1 DEF GoLive, IsOver, Pending
    <2>3. \A s \in Sessions : s # i => sessions'[s] = sessions[s]
        BY <1>0, <1>17, <2>1 DEF GoLive, TypeOK
    <2>4. Become(r, Idle) /\ class' = class
        BY <1>17 DEF GoLive
    <2> QED
        BY <1>2, <2>2, <2>3, <2>4 DEF ClassIsOff, IsOver, HasEnded
<1>18. ASSUME NEW s \in Sessions, Ends(s) PROVE Final
    <2>1. sessions[s] \in Rows
        BY <1>0, <1>18 DEF Ends
    <2>2. \A x \in Sessions : sessions'[x].status = IF x = s THEN "ENDED" ELSE sessions[x].status
        BY <1>0, <1>18, <2>1 DEF Ends, TypeOK, Rows
    <2> QED
        BY <1>18, <2>2 DEF Ends, Final, ClassIsOff, IsOver, HasEnded, Pending, At
<1>19. ASSUME NEW r \in Requests, Crash(r) PROVE Final
    BY <1>1, <1>19, IdleTask DEF Crash
<1>20. CASE UNCHANGED vars
    BY <1>20 DEF vars, Final, ClassIsOff, IsOver, HasEnded, Pending, At
<1> QED
    BY <1>3, <1>4, <1>5, <1>6, <1>7, <1>8, <1>9, <1>10, <1>11, <1>12, <1>13, <1>14, <1>15, <1>16,
       <1>17, <1>18, <1>19, <1>20 DEF Next, Arrive, HandlerStep

\* What is over is over for good: a class that is cancelled while no publish of it is
\* under way is never on sale again, a session that is over while no join is about to
\* take it live never comes back, and one that has ended while no cancel of it is
\* under way stays as it ended (classrooms.service.ts:163-165, live.service.ts:131-133
\* and sessions.service.ts:87-89).
THEOREM WhatIsOverIsFinal == Spec => OverIsFinal
<1>1. TimetableInv /\ [Next]_vars => [Final]_vars
    BY StepIsFinal
<1> QED
    BY InvInitial, InvInductive, <1>1, PTL DEF Spec, OverIsFinal, Final

-----------------------------------------------------------------------------
(* Sessions that clash *)

\* The requests that take up a time, the sessions about to go live, and the sessions
\* that take place at t or will once they are live.
Placers == {q \in Requests : task[q].pc \in Placings \cup {"goLive"}}

Joiners == {q \in Requests : task[q].pc = "goLive"}

Joined == {task[q].id : q \in Joiners}

There(t) == {s \in Sessions : /\ s \in On \cup Joined
                             /\ sessions[s].from <= t /\ t < sessions[s].to}

\* The requests about to write a session that covers t.
Writers(t) ==
    {q \in Requests : /\ task[q].pc \in {"scheduleWrite", "moveWrite"}
                      /\ task[q].from <= t /\ t < task[q].to}

\* The sessions at t that no request is about to move, to t again.
Settled(t) ==
    {s \in There(t) : \A q \in Writers(t) : task[q].pc = "moveWrite" => task[q].id # s}

\* Each session at an instant, there or about to be, has a request of its own among
\* those that once were under way together.
ClashInv ==
    /\ TimetableInv
    /\ Cardinality(Placers) <= abreast
    /\ \A t \in 0..MaxTime :
           /\ IsFiniteSet(Settled(t))
           /\ Cardinality(Settled(t)) + Cardinality(Writers(t)) <= abreast

LEMMA WritersFinite ==
    ASSUME TimetableInv, NEW t
    PROVE  /\ IsFiniteSet(Placers) /\ Cardinality(Placers) \in Nat
           /\ IsFiniteSet(Writers(t)) /\ Cardinality(Writers(t)) \in Nat
           /\ Cardinality(Writers(t)) <= Cardinality(Placers)
           /\ abreast \in Nat
<1>1. Placers \subseteq Requests /\ Writers(t) \subseteq Placers
    BY DEF Placers, Writers, Placings
<1>2. IsFiniteSet(Placers)
    BY <1>1, FS_Subset
<1>3. IsFiniteSet(Writers(t)) /\ Cardinality(Writers(t)) <= Cardinality(Placers)
    BY <1>1, <1>2, FS_Subset
<1>4. abreast \in Nat
    <2>1. Cardinality(Requests) \in Nat
        BY FS_CardinalityType
    <2> QED
        BY <2>1 DEF TimetableInv, SessionsMakeSense, TypeOK
<1> QED
    BY <1>2, <1>3, <1>4, FS_CardinalityType

\* A set that gained one element at most.
LEMMA AtMostOneMore ==
    ASSUME NEW S, IsFiniteSet(S), NEW x, NEW T, T \subseteq S \cup {x}
    PROVE  IsFiniteSet(T) /\ Cardinality(T) \in Nat /\ Cardinality(T) <= Cardinality(S) + 1
<1>1. Cardinality(S) \in Nat
    BY FS_CardinalityType
<1>2. /\ IsFiniteSet(S \cup {x})
      /\ Cardinality(S \cup {x}) = IF x \in S THEN Cardinality(S) ELSE Cardinality(S) + 1
    BY FS_AddElement
<1>3. IsFiniteSet(T) /\ Cardinality(T) <= Cardinality(S \cup {x})
    BY <1>2, FS_Subset
<1>4. Cardinality(T) \in Nat
    BY <1>3, FS_CardinalityType
<1>5. CASE x \in S
    BY <1>1, <1>2, <1>3, <1>4, <1>5
<1>6. CASE x \notin S
    BY <1>1, <1>2, <1>3, <1>4, <1>6
<1> QED
    BY <1>3, <1>5, <1>6

\* What a step may do at an instant: settle or unsettle no session, give the place of
\* a request to a session, or begin to write where nothing is settled but sessions that
\* are yet to go live.
MayPlace(t) ==
    \/ Settled(t)' \subseteq Settled(t) /\ Writers(t)' \subseteq Writers(t)
    \/ \E s \in Sessions, q \in Writers(t) :
           Settled(t)' \subseteq Settled(t) \cup {s} /\ Writers(t)' \subseteq Writers(t) \ {q}
    \/ Settled(t)' \subseteq Joined'

LEMMA PlaceStep ==
    ASSUME ClashInv, TimetableInv', abreast <= abreast', Cardinality(Placers') <= abreast',
           \A t \in 0..MaxTime : MayPlace(t)
    PROVE  ClashInv'
<1> SUFFICES ASSUME NEW t \in 0..MaxTime
             PROVE  /\ IsFiniteSet(Settled(t)')
                    /\ Cardinality(Settled(t)') + Cardinality(Writers(t)') <= abreast'
    BY DEF ClashInv
<1> DEFINE S == Settled(t)
           W == Writers(t)
           P == Placers
           J == Joiners
           G == Joined
<1>1. /\ IsFiniteSet(S) /\ Cardinality(S) \in Nat
      /\ Cardinality(S) + Cardinality(W) <= abreast
    BY FS_CardinalityType DEF ClashInv
<1>2. IsFiniteSet(W) /\ Cardinality(W) \in Nat /\ abreast \in Nat
    BY WritersFinite DEF ClashInv
<1>3. /\ IsFiniteSet(W') /\ Cardinality(W') \in Nat /\ abreast' \in Nat
      /\ Cardinality(W') <= Cardinality(P') /\ Cardinality(P') \in Nat
    <2>1. P' \subseteq Requests /\ W' \subseteq P'
        BY DEF Placers, Writers, Placings
    <2>2. IsFiniteSet(P')
        BY <2>1, FS_Subset
    <2>3. IsFiniteSet(W') /\ Cardinality(W') <= Cardinality(P')
        BY <2>1, <2>2, FS_Subset
    <2>4. abreast' \in Nat
        <3>1. Cardinality(Requests) \in Nat
            BY FS_CardinalityType
        <3> QED
            BY <3>1 DEF TimetableInv, SessionsMakeSense, TypeOK
    <2> QED
        BY <2>2, <2>3, <2>4, FS_CardinalityType
<1>4. Cardinality(P') <= abreast' /\ abreast <= abreast'
    OBVIOUS
<1>5. \/ S' \subseteq S /\ W' \subseteq W
      \/ \E s \in Sessions, q \in W : S' \subseteq S \cup {s} /\ W' \subseteq W \ {q}
      \/ S' \subseteq G'
    BY DEF MayPlace
<1>9. /\ J' \subseteq P' /\ W' \subseteq P' /\ W' \cap J' = {}
      /\ G' = {task'[q].id : q \in J'}
      /\ IsFiniteSet(P')
    <2>1. P' \subseteq Requests
        BY DEF Placers
    <2>2. IsFiniteSet(P')
        BY <2>1, FS_Subset
    <2> QED
        BY <2>2 DEF Placers, Joiners, Joined, Writers, Placings
<1> HIDE DEF S, W, P, J, G
<1>6. CASE S' \subseteq S /\ W' \subseteq W
    <2>1. IsFiniteSet(S') /\ Cardinality(S') <= Cardinality(S)
        BY <1>1, <1>6, FS_Subset
    <2>2. Cardinality(W') <= Cardinality(W)
        BY <1>2, <1>6, FS_Subset
    <2>3. Cardinality(S') \in Nat
        BY <2>1, FS_CardinalityType
    <2>4. Cardinality(S') + Cardinality(W') <= abreast'
        BY <1>1, <1>2, <1>3, <1>4, <2>1, <2>2, <2>3
    <2> QED
        BY <2>1, <2>4 DEF S, W
<1>7. CASE \E s \in Sessions, q \in W : S' \subseteq S \cup {s} /\ W' \subseteq W \ {q}
    <2>1. PICK s \in Sessions, q \in W : S' \subseteq S \cup {s} /\ W' \subseteq W \ {q}
        BY <1>7
    <2>2. IsFiniteSet(S') /\ Cardinality(S') \in Nat /\ Cardinality(S') <= Cardinality(S) + 1
        BY <1>1, <2>1, AtMostOneMore
    <2>3. IsFiniteSet(W \ {q}) /\ Cardinality(W \ {q}) = Cardinality(W) - 1
        BY <1>2, <2>1, FS_RemoveElement
    <2>4. Cardinality(W') <= Cardinality(W \ {q})
        BY <2>1, <2>3, FS_Subset
    <2>5. Cardinality(S') + Cardinality(W') <= abreast'
        BY <1>1, <1>2, <1>3, <1>4, <2>2, <2>3, <2>4
    <2> QED
        BY <2>2, <2>5 DEF S, W
<1>8. CASE S' \subseteq G'
    <2> DEFINE f == [q \in J' |-> task'[q].id]
    <2>1. IsFiniteSet(J') /\ Cardinality(J') \in Nat
        BY <1>9, FS_Subset, FS_CardinalityType
    <2>2. f \in Surjection(J', G')
        BY <1>9 DEF Surjection
    <2> HIDE DEF f
    <2>3. IsFiniteSet(G') /\ Cardinality(G') <= Cardinality(J')
        BY <2>1, <2>2, FS_Surjection
    <2>4. IsFiniteSet(S') /\ Cardinality(S') <= Cardinality(G')
        BY <1>8, <2>3, FS_Subset
    <2>5. Cardinality(W' \cup J') = Cardinality(W') + Cardinality(J') - Cardinality(W' \cap J')
        BY <1>3, <2>1, FS_Union
    <2>6. Cardinality(W' \cap J') = 0
        BY <1>9, FS_EmptySet
    <2>7. W' \cup J' \subseteq P'
        BY <1>9
    <2>8. IsFiniteSet(W' \cup J') /\ Cardinality(W' \cup J') <= Cardinality(P')
        BY <1>9, <2>7, FS_Subset
    <2>9. Cardinality(S') \in Nat /\ Cardinality(G') \in Nat /\ Cardinality(W' \cup J') \in Nat
        BY <2>3, <2>4, <2>8, FS_CardinalityType
    <2>10. Cardinality(S') + Cardinality(W') <= abreast'
        BY <1>3, <1>4, <2>1, <2>3, <2>4, <2>5, <2>6, <2>8, <2>9
    <2> QED
        BY <2>4, <2>10 DEF S, W
<1> QED
    BY <1>5, <1>6, <1>7, <1>8

LEMMA ClashInitial == Init => ClashInv
<1> SUFFICES ASSUME Init PROVE ClashInv
    OBVIOUS
<1>1. Placers = {} /\ (\A t \in 0..MaxTime : Settled(t) = {} /\ Writers(t) = {})
    BY IdleTask DEF Init, Placers, Placings, Settled, There, On, Joined, Joiners, NoSession, Writers
<1>2. IsFiniteSet({}) /\ Cardinality({}) = 0
    BY FS_EmptySet
<1>3. abreast = 0
    BY DEF Init
<1> HIDE DEF Placers, Settled, Writers
<1>4. ASSUME NEW t \in 0..MaxTime
      PROVE  /\ IsFiniteSet(Settled(t))
             /\ Cardinality(Settled(t)) + Cardinality(Writers(t)) <= abreast
    <2>1. Settled(t) = {} /\ Writers(t) = {}
        BY <1>1
    <2>2. IsFiniteSet(Settled(t)) /\ Cardinality(Settled(t)) = 0 /\ Cardinality(Writers(t)) = 0
        BY <1>2, <2>1
    <2> QED
        BY <1>3, <2>2
<1>5. Cardinality(Placers) <= abreast
    BY <1>1, <1>2, <1>3
<1> QED
    BY <1>4, <1>5, InvInitial DEF ClashInv

\* A request that begins to place a session is counted.
LEMMA PlacedCounts ==
    ASSUME ClashInv, NEW r \in Requests, NEW u, task[r].pc = "idle", Become(r, u), Placed
    PROVE  abreast <= abreast' /\ Cardinality(Placers') <= abreast'
<1>1. IsFiniteSet(Placers) /\ Cardinality(Placers) \in Nat /\ abreast \in Nat
    BY WritersFinite DEF ClashInv
<1>2. Placers' \subseteq Placers \cup {r}
    BY DEF Become, Placers, ClashInv, TimetableInv, SessionsMakeSense, TypeOK
<1>3. Cardinality(Placers') \in Nat /\ Cardinality(Placers') <= Cardinality(Placers) + 1
    BY <1>1, <1>2, AtMostOneMore
<1>4. Placing = Cardinality(Placers) + 1
    BY DEF Placing, Placers, Placings
<1>5. abreast' = IF Cardinality(Placers) + 1 > abreast THEN Cardinality(Placers) + 1 ELSE abreast
    BY <1>4 DEF Placed
<1> HIDE DEF Placers
<1> QED
    BY <1>1, <1>3, <1>5

\* One that goes on was counted already.
LEMMA CountsStay ==
    ASSUME ClashInv, Placers' \subseteq Placers, abreast' = abreast
    PROVE  abreast <= abreast' /\ Cardinality(Placers') <= abreast'
<1>1. IsFiniteSet(Placers) /\ Cardinality(Placers) \in Nat /\ abreast \in Nat
    BY WritersFinite DEF ClashInv
<1>2. IsFiniteSet(Placers') /\ Cardinality(Placers') <= Cardinality(Placers)
    BY <1>1, FS_Subset
<1>3. Cardinality(Placers') \in Nat /\ Cardinality(Placers) <= abreast
    BY <1>2, FS_CardinalityType DEF ClashInv
<1> HIDE DEF Placers
<1> QED
    BY <1>1, <1>2, <1>3

\* Nothing is at an instant that was not, if times stay and only what was about to go
\* live comes on.
LEMMA NoneCome ==
    ASSUME TimetableInv, NEW r \in Requests, NEW u, Become(r, u),
           \A s \in Sessions : /\ sessions'[s].from = sessions[s].from
                               /\ sessions'[s].to = sessions[s].to
                               /\ s \in On' => s \in On \cup Joined,
           u.pc = "goLive" => u.id \in On
    PROVE  \A t \in 0..MaxTime : There(t)' \subseteq There(t)
<1>1. \A q \in Requests : task'[q] = IF q = r THEN u ELSE task[q]
    BY DEF Become, TimetableInv, SessionsMakeSense, TypeOK
<1>2. Joined' \subseteq On \cup Joined
    BY <1>1 DEF Joined, Joiners
<1> QED
    BY <1>2 DEF There

LEMMA JoinedStay ==
    ASSUME TimetableInv, NEW r \in Requests, NEW u, Become(r, u), u.pc # "goLive"
    PROVE  Joined' \subseteq Joined
<1>1. \A q \in Requests : task'[q] = IF q = r THEN u ELSE task[q]
    BY DEF Become, TimetableInv, SessionsMakeSense, TypeOK
<1> QED
    BY <1>1 DEF Joined, Joiners

\* A request that neither wrote a session nor will, when no more sessions are on.
LEMMA NothingPlaced ==
    ASSUME ClashInv, TimetableInv', NEW r \in Requests, NEW u, Become(r, u),
           task[r].pc \notin {"scheduleWrite", "moveWrite"},
           u.pc \notin {"scheduleWrite", "moveWrite"},
           \A t \in 0..MaxTime : There(t)' \subseteq There(t),
           \/ task[r].pc = "idle" /\ Placed
           \/ /\ u.pc \in Placings => task[r].pc \in Placings
              /\ u.pc # "goLive" /\ abreast' = abreast
    PROVE  ClashInv'
<1>1. \A q \in Requests : task'[q] = IF q = r THEN u ELSE task[q]
    BY DEF Become, ClashInv, TimetableInv, SessionsMakeSense, TypeOK
<1>2. abreast <= abreast' /\ Cardinality(Placers') <= abreast'
    <2>1. CASE task[r].pc = "idle" /\ Placed
        BY <2>1, PlacedCounts
    <2>2. CASE /\ u.pc \in Placings => task[r].pc \in Placings
               /\ u.pc # "goLive" /\ abreast' = abreast
        <3>1. Placers' \subseteq Placers
            BY <1>1, <2>2 DEF Placers
        <3> QED
            BY <2>2, <3>1, CountsStay
    <2> QED
        BY <2>1, <2>2
<1>3. ASSUME NEW t \in 0..MaxTime PROVE MayPlace(t)
    <2>1. Writers(t)' = Writers(t) /\ (\A q \in Writers(t) : task'[q] = task[q])
        BY <1>1 DEF Writers
    <2>2. Settled(t)' \subseteq Settled(t)
        BY <1>3, <2>1 DEF Settled
    <2> QED
        BY <2>1, <2>2 DEF MayPlace
<1> QED
    BY <1>2, <1>3, PlaceStep DEF ClashInv

\* A request that was about to write, and whose session may be there now.
LEMMA OnePlaced ==
    ASSUME ClashInv, TimetableInv', NEW r \in Requests, Become(r, Idle), abreast' = abreast,
           task[r].pc \in {"scheduleWrite", "moveWrite"}, NEW s \in Sessions,
           task[r].pc = "moveWrite" => task[r].id = s,
           \A t \in 0..MaxTime :
               There(t)' \subseteq There(t) \cup IF r \in Writers(t) THEN {s} ELSE {}
    PROVE  ClashInv'
<1>1. \A q \in Requests : task'[q] = IF q = r THEN Idle ELSE task[q]
    BY DEF Become, ClashInv, TimetableInv, SessionsMakeSense, TypeOK
<1>2. Placers' \subseteq Placers
    BY <1>1, IdleTask DEF Placers, Placings
<1>3. ASSUME NEW t \in 0..MaxTime PROVE MayPlace(t)
    <2>1. Writers(t)' = Writers(t) \ {r} /\ (\A q \in Writers(t)' : task'[q] = task[q])
        BY <1>1, IdleTask DEF Writers
    <2>2. CASE r \in Writers(t)
        <3>1. Settled(t)' \subseteq Settled(t) \cup {s}
            <4> SUFFICES ASSUME NEW x \in Settled(t)', x # s PROVE x \in Settled(t)
                OBVIOUS
            <4>1. x \in There(t)
                BY <1>3, <2>2 DEF Settled
            <4>2. \A q \in Writers(t) : task[q].pc = "moveWrite" => task[q].id # x
                BY <2>1 DEF Settled
            <4> QED
                BY <4>1, <4>2 DEF Settled
        <3> QED
            BY <2>1, <2>2, <3>1 DEF MayPlace
    <2>3. CASE r \notin Writers(t)
        <3>1. There(t)' \subseteq There(t)
            BY <1>3, <2>3
        <3>2. Settled(t)' \subseteq Settled(t)
            BY <2>1, <2>3, <3>1 DEF Settled
        <3> QED
            BY <2>1, <3>2 DEF MayPlace
    <2> QED
        BY <2>2, <2>3
<1> QED
    BY <1>2, <1>3, CountsStay, PlaceStep DEF ClashInv

\* A request that found no session at the time it wants, but the one it moves and
\* those that are yet to go live.
LEMMA PlaceFound ==
    ASSUME ClashInv, TimetableInv', NEW r \in Requests, NEW u, Become(r, u),
           UNCHANGED sessions, abreast' = abreast, task[r].pc \in {"scheduleCount", "moveCount"},
           u.pc \in {"scheduleWrite", "moveWrite"},
           \A t \in 0..MaxTime : u.from <= t /\ t < u.to =>
               \A s \in There(t) : s \in Joined \/ (u.pc = "moveWrite" /\ s = u.id)
    PROVE  ClashInv'
<1>1. \A q \in Requests : task'[q] = IF q = r THEN u ELSE task[q]
    BY DEF Become, ClashInv, TimetableInv, SessionsMakeSense, TypeOK
<1>2. Placers' \subseteq Placers
    BY <1>1 DEF Placers, Placings
<1>3. ASSUME NEW t \in 0..MaxTime PROVE MayPlace(t)
    <2>1. Joined' = Joined /\ There(t)' = There(t)
        <3>1. Joiners' = Joiners /\ (\A q \in Joiners : task'[q] = task[q])
            BY <1>1 DEF Joiners
        <3>2. Joined' = Joined
            BY <3>1 DEF Joined
        <3> QED
            BY <3>2 DEF There, On
    <2>2. CASE u.from <= t /\ t < u.to
        <3>1. r \in Writers(t)' /\ task'[r] = u
            BY <1>1, <2>2 DEF Writers
        <3>2. Settled(t)' \subseteq Joined'
            BY <1>3, <2>1, <2>2, <3>1 DEF Settled
        <3> QED
            BY <3>2 DEF MayPlace
    <2>3. CASE ~(u.from <= t /\ t < u.to)
        <3>1. Writers(t)' = Writers(t) /\ (\A q \in Writers(t) : task'[q] = task[q])
            BY <1>1, <2>3 DEF Writers
        <3>2. Settled(t)' \subseteq Settled(t)
            BY <2>1, <3>1 DEF Settled
        <3> QED
            BY <3>1, <3>2 DEF MayPlace
    <2> QED
        BY <2>2, <2>3
<1> QED
    BY <1>2, <1>3, CountsStay, PlaceStep DEF ClashInv

LEMMA ClashInductive == ClashInv /\ [Next]_vars => ClashInv'
<1> SUFFICES ASSUME ClashInv, [Next]_vars PROVE ClashInv'
    OBVIOUS
<1>0. /\ TimetableInv /\ TimetableInv' /\ TypeOK
      /\ \A r \in Requests : task[r] \in Tasks
      /\ \A s \in Sessions : sessions[s] \in Rows \cup {NoSession}
    BY InvInductive DEF ClashInv, TimetableInv, SessionsMakeSense, TypeOK
<1>1. ASSUME UNCHANGED sessions, NEW r \in Requests, NEW u, Become(r, u),
             u.pc = "goLive" => u.id \in On
      PROVE  \A t \in 0..MaxTime : There(t)' \subseteq There(t)
    <2>1. On' = On
        BY <1>1 DEF On
    <2> QED
        BY <1>0, <1>1, <2>1, NoneCome
<1>2. ASSUME NEW r \in Requests, NEW from \in 0..MaxTime, NEW to \in 0..MaxTime,
             Schedule(r, from, to)
      PROVE  ClashInv'
    <2> DEFINE u == [pc |-> "scheduleCount", from |-> from, to |-> to]
    <2>1. u.pc = "scheduleCount" /\ Become(r, u) /\ task[r].pc = "idle" /\ Placed
        BY <1>2 DEF Schedule, At
    <2>2. \A t \in 0..MaxTime : There(t)' \subseteq There(t)
        BY <1>1, <1>2, <2>1 DEF Schedule
    <2> HIDE DEF u
    <2> QED
        BY <1>0, <2>1, <2>2, NothingPlaced
<1>3. ASSUME NEW r \in Requests, ScheduleCounts(r) PROVE ClashInv'
    <2> DEFINE n == [task[r] EXCEPT !.pc = "scheduleWrite"]
    <2>1. n.pc = "scheduleWrite" /\ n.from = task[r].from /\ n.to = task[r].to
        BY <1>0, <1>3, ScheduleGoesOn DEF ScheduleCounts, At
    <2>2. task[r].pc = "scheduleCount" /\ abreast' = abreast /\ UNCHANGED sessions
        BY <1>3 DEF ScheduleCounts, At
    <2>3. CASE Clashes(On, task[r].from, task[r].to)
        <3>1. Become(r, Idle)
            BY <1>3, <2>3 DEF ScheduleCounts
        <3> QED
            BY <1>0, <1>1, <2>2, <3>1, IdleTask, NothingPlaced DEF Placings
    <2>4. CASE ~Clashes(On, task[r].from, task[r].to)
        <3>1. Become(r, n)
            BY <1>0, <1>3, <2>4 DEF ScheduleCounts, GoTo, Become, TypeOK
        <3>2. ASSUME NEW t \in 0..MaxTime, n.from <= t, t < n.to, NEW s \in There(t), s \notin Joined
              PROVE  FALSE
            <4>1. /\ s \in On /\ sessions[s].from \in 0..MaxTime /\ sessions[s].to \in 0..MaxTime
                  /\ sessions[s].from <= t /\ t < sessions[s].to
                BY <1>0, <3>2, RowFields DEF There, On
            <4>2. task[r].from \in 0..MaxTime /\ task[r].to \in 0..MaxTime
                BY <1>0, <2>2, TaskFields DEF Placings
            <4>3. sessions[s].from < task[r].to /\ sessions[s].to > task[r].from
                BY <2>1, <3>2, <4>1, <4>2
            <4> QED
                BY <2>4, <4>1, <4>3 DEF Clashes
        <3> HIDE DEF n
        <3>3. \A t \in 0..MaxTime : n.from <= t /\ t < n.to =>
                  \A s \in There(t) : s \in Joined \/ (n.pc = "moveWrite" /\ s = n.id)
            BY <2>1, <3>2
        <3> QED
            BY <1>0, <2>1, <2>2, <3>1, <3>3, PlaceFound
    <2> QED
        BY <2>3, <2>4
<1>4. ASSUME NEW r \in Requests, ScheduleWrites(r) PROVE ClashInv'
    <2>1. PICK s \in Sessions :
              /\ sessions[s] = NoSession
              /\ sessions' = [sessions EXCEPT ![s] =
                     [status |-> "SCHEDULED", from |-> task[r].from, to |-> task[r].to]]
        BY <1>4 DEF ScheduleWrites
    <2>2. \A x \in Sessions : x # s => sessions'[x] = sessions[x]
        BY <1>0, <2>1 DEF TypeOK
    <2>3. sessions'[s].from = task[r].from /\ sessions'[s].to = task[r].to
        BY <1>0, <2>1 DEF TypeOK
    <2>4. task[r].pc = "scheduleWrite" /\ Become(r, Idle) /\ abreast' = abreast
        BY <1>4 DEF ScheduleWrites, At
    <2>5. ASSUME NEW t \in 0..MaxTime
          PROVE  There(t)' \subseteq There(t) \cup IF r \in Writers(t) THEN {s} ELSE {}
        <3>1. Joined' \subseteq Joined
            BY <1>0, <2>4, IdleTask, JoinedStay
        <3> QED
            BY <2>2, <2>3, <2>4, <3>1 DEF There, On, Writers
    <2> QED
        BY <1>0, <2>4, <2>5, OnePlaced
<1>5. ASSUME NEW r \in Requests, NEW s \in Sessions, NEW from \in 0..MaxTime,
             NEW to \in 0..MaxTime, Move(r, s, from, to)
      PROVE  ClashInv'
    <2> DEFINE u == [pc |-> "moveCount", id |-> s, from |-> from, to |-> to]
    <2>1. u.pc = "moveCount" /\ Become(r, u) /\ task[r].pc = "idle" /\ Placed
        BY <1>5 DEF Move, At
    <2>2. \A t \in 0..MaxTime : There(t)' \subseteq There(t)
        BY <1>1, <1>5, <2>1 DEF Move
    <2> HIDE DEF u
    <2> QED
        BY <1>0, <2>1, <2>2, NothingPlaced
<1>6. ASSUME NEW r \in Requests, MoveCounts(r) PROVE ClashInv'
    <2> DEFINE n == [task[r] EXCEPT !.pc = "moveWrite"]
    <2>1. /\ n.pc = "moveWrite" /\ n.from = task[r].from /\ n.to = task[r].to
          /\ n.id = task[r].id
        BY <1>0, <1>6, MoveGoesOn DEF MoveCounts, At
    <2>2. task[r].pc = "moveCount" /\ abreast' = abreast /\ UNCHANGED sessions
        BY <1>6 DEF MoveCounts, At
    <2>3. CASE Clashes(On \ {task[r].id}, task[r].from, task[r].to)
        <3>1. Become(r, Idle)
            BY <1>6, <2>3 DEF MoveCounts
        <3> QED
            BY <1>0, <1>1, <2>2, <3>1, IdleTask, NothingPlaced DEF Placings
    <2>4. CASE ~Clashes(On \ {task[r].id}, task[r].from, task[r].to)
        <3>1. Become(r, n)
            BY <1>0, <1>6, <2>4 DEF MoveCounts, GoTo, Become, TypeOK
        <3>2. ASSUME NEW t \in 0..MaxTime, n.from <= t, t < n.to, NEW s \in There(t),
                     s \notin Joined, s # n.id
              PROVE  FALSE
            <4>1. /\ s \in On \ {task[r].id}
                  /\ sessions[s].from \in 0..MaxTime /\ sessions[s].to \in 0..MaxTime
                  /\ sessions[s].from <= t /\ t < sessions[s].to
                BY <1>0, <2>1, <3>2, RowFields DEF There, On
            <4>2. task[r].from \in 0..MaxTime /\ task[r].to \in 0..MaxTime
                BY <1>0, <2>2, TaskFields DEF Placings
            <4>3. sessions[s].from < task[r].to /\ sessions[s].to > task[r].from
                BY <2>1, <3>2, <4>1, <4>2
            <4> QED
                BY <2>4, <4>1, <4>3 DEF Clashes
        <3> HIDE DEF n
        <3>3. \A t \in 0..MaxTime : n.from <= t /\ t < n.to =>
                  \A s \in There(t) : s \in Joined \/ (n.pc = "moveWrite" /\ s = n.id)
            BY <2>1, <3>2
        <3> QED
            BY <1>0, <2>1, <2>2, <3>1, <3>3, PlaceFound
    <2> QED
        BY <2>3, <2>4
<1>7. ASSUME NEW r \in Requests, MoveWrites(r) PROVE ClashInv'
    <2>1. PICK s \in Sessions : s = task[r].id
        BY <1>0, <1>7, TaskFields DEF MoveWrites, At
    <2>2. sessions[s] \in Rows
        BY <1>0, <1>7, <2>1, RowFields DEF MoveWrites, At, TimetableInv, TasksMakeSense
    <2>3. \A x \in Sessions : x # s => sessions'[x] = sessions[x]
        BY <1>0, <1>7, <2>1 DEF MoveWrites, TypeOK
    <2>4. sessions'[s].from = task[r].from /\ sessions'[s].to = task[r].to
        BY <1>0, <1>7, <2>1, <2>2 DEF MoveWrites, TypeOK, Rows
    <2>5. task[r].pc = "moveWrite" /\ Become(r, Idle) /\ abreast' = abreast
        BY <1>7 DEF MoveWrites, At
    <2>6. ASSUME NEW t \in 0..MaxTime
          PROVE  There(t)' \subseteq There(t) \cup IF r \in Writers(t) THEN {s} ELSE {}
        <3>1. Joined' \subseteq Joined
            BY <1>0, <2>5, IdleTask, JoinedStay
        <3> QED
            BY <2>3, <2>4, <2>5, <3>1 DEF There, On, Writers
    <2> QED
        BY <1>0, <2>1, <2>5, <2>6, OnePlaced
<1>8. ASSUME NEW r \in Requests, NEW s \in Sessions, CancelSession(r, s) PROVE ClashInv'
    <2> DEFINE u == [pc |-> "cancelSession", id |-> s]
    <2>1. u.pc = "cancelSession" /\ Become(r, u) /\ task[r].pc = "idle" /\ abreast' = abreast
        BY <1>8 DEF CancelSession, At
    <2>2. \A t \in 0..MaxTime : There(t)' \subseteq There(t)
        BY <1>1, <1>8, <2>1 DEF CancelSession
    <2> HIDE DEF u
    <2> QED
        BY <1>0, <2>1, <2>2, NothingPlaced DEF Placings
\* Fewer sessions are on, or as many, at the times they were.
<1>10. ASSUME NEW r \in Requests, CancelSessionWrites(r) PROVE ClashInv'
    <2>1. PICK s \in Sessions : s = task[r].id
        BY <1>0, <1>10, TaskFields DEF CancelSessionWrites, At
    <2>2. sessions[s] \in Rows
        BY <1>0, <1>10, <2>1, RowFields DEF CancelSessionWrites, At, TimetableInv, TasksMakeSense
    <2>3. \A x \in Sessions : x # s => sessions'[x] = sessions[x]
        BY <1>0, <1>10, <2>1 DEF CancelSessionWrites, TypeOK
    <2>4. sessions'[s].status = "CANCELLED"
        BY <1>0, <1>10, <2>1, <2>2 DEF CancelSessionWrites, TypeOK, Rows
    <2>5. sessions'[s].from = sessions[s].from /\ sessions'[s].to = sessions[s].to
        BY <1>0, <1>10, <2>1, <2>2 DEF CancelSessionWrites, TypeOK, Rows
    <2>6. \A t \in 0..MaxTime : There(t)' \subseteq There(t)
        BY <1>0, <1>10, <2>3, <2>4, <2>5, IdleTask, NoneCome DEF CancelSessionWrites, On
    <2> QED
        BY <1>0, <1>10, <2>6, IdleTask, NothingPlaced DEF CancelSessionWrites, At, Placings
<1>11. ASSUME NEW r \in Requests, Publish(r) \/ CancelClass(r) PROVE ClashInv'
    <2>1. PICK u : Become(r, u) /\ u.pc \in {"publishCount", "cancelClass"}
        BY <1>11 DEF Publish, CancelClass
    <2>2. \A t \in 0..MaxTime : There(t)' \subseteq There(t)
        BY <1>1, <1>11, <2>1 DEF Publish, CancelClass
    <2> QED
        BY <1>0, <1>11, <2>1, <2>2, NothingPlaced DEF Publish, CancelClass, At, Placings
<1>12. ASSUME NEW r \in Requests, PublishCounts(r) PROVE ClashInv'
    <2> DEFINE n == [task[r] EXCEPT !.pc = "publishWrite"]
    <2>1. n.pc = "publishWrite"
        BY <1>0, <1>12, PublishGoesOn DEF PublishCounts, At
    <2>2. Become(r, Idle) \/ Become(r, n)
        BY <1>0, <1>12 DEF PublishCounts, GoTo, Become, TypeOK
    <2>3. \A t \in 0..MaxTime : There(t)' \subseteq There(t)
        BY <1>1, <1>12, <2>1, <2>2, IdleTask DEF PublishCounts
    <2> HIDE DEF n
    <2> QED
        BY <1>0, <1>12, <2>1, <2>2, <2>3, IdleTask, NothingPlaced DEF PublishCounts, At, Placings
<1>13. ASSUME NEW r \in Requests, PublishWrites(r) PROVE ClashInv'
    <2>1. \A t \in 0..MaxTime : There(t)' \subseteq There(t)
        BY <1>1, <1>13, IdleTask DEF PublishWrites
    <2> QED
        BY <1>0, <1>13, <2>1, IdleTask, NothingPlaced DEF PublishWrites, At, Placings
<1>14. ASSUME NEW r \in Requests, CancelClassWrites(r) PROVE ClashInv'
    <2>1. ASSUME NEW x \in Sessions
          PROVE  /\ x \in On' => x \in On
                 /\ sessions'[x].from = sessions[x].from
                 /\ sessions'[x].to = sessions[x].to
        <3>1. CASE sessions[x].status = "SCHEDULED"
            <4>1. sessions[x] \in Rows /\ sessions'[x] = [sessions[x] EXCEPT !.status = "CANCELLED"]
                BY <1>0, <1>14, <3>1, RowFields DEF CancelClassWrites
            <4>2. /\ sessions'[x].status = "CANCELLED"
                  /\ sessions'[x].from = sessions[x].from /\ sessions'[x].to = sessions[x].to
                BY <4>1 DEF Rows
            <4> QED
                BY <4>2 DEF On
        <3>2. CASE sessions[x].status # "SCHEDULED"
            BY <1>14, <3>2 DEF CancelClassWrites, On
        <3> QED
            BY <3>1, <3>2
    <2>2. \A t \in 0..MaxTime : There(t)' \subseteq There(t)
        BY <1>0, <1>14, <2>1, IdleTask, NoneCome DEF CancelClassWrites
    <2> QED
        BY <1>0, <1>14, <2>2, IdleTask, NothingPlaced DEF CancelClassWrites, At, Placings
<1>9. ASSUME NEW r \in Requests, NEW s \in Sessions, Join(r, s) PROVE ClashInv'
    <2> DEFINE u == [pc |-> "goLive", id |-> s]
    <2>1. /\ u.pc = "goLive" /\ u.id = s /\ s \in On
          /\ Become(r, u) /\ task[r].pc = "idle" /\ Placed
        BY <1>9 DEF Join, MayGoLive, At, On
    <2>2. \A t \in 0..MaxTime : There(t)' \subseteq There(t)
        BY <1>1, <1>9, <2>1 DEF Join
    <2> HIDE DEF u
    <2> QED
        BY <1>0, <2>1, <2>2, NothingPlaced
<1>15. ASSUME NEW r \in Requests, GoLive(r) PROVE ClashInv'
    <2>1. PICK s \in Sessions : s = task[r].id
        BY <1>0, <1>15, TaskFields DEF GoLive, At
    <2>2. sessions[s] \in Rows /\ s \in Joined
        BY <1>0, <1>15, <2>1, RowFields
        DEF GoLive, At, TimetableInv, TasksMakeSense, Naming, Joined, Joiners
    <2>3. \A x \in Sessions : x # s => sessions'[x] = sessions[x]
        BY <1>0, <1>15, <2>1 DEF GoLive, TypeOK
    <2>4. sessions'[s].from = sessions[s].from /\ sessions'[s].to = sessions[s].to
        BY <1>0, <1>15, <2>1, <2>2 DEF GoLive, TypeOK, Rows
    <2>5. \A t \in 0..MaxTime : There(t)' \subseteq There(t)
        BY <1>0, <1>15, <2>2, <2>3, <2>4, IdleTask, NoneCome DEF GoLive, On
    <2> QED
        BY <1>0, <1>15, <2>5, IdleTask, NothingPlaced DEF GoLive, At, Placings
<1>18. ASSUME NEW s \in Sessions, Ends(s) PROVE ClashInv'
    <2>1. sessions[s] \in Rows
        BY <1>0, <1>18 DEF Ends
    <2>2. /\ sessions'[s].from = sessions[s].from /\ sessions'[s].to = sessions[s].to
          /\ sessions'[s].status = "ENDED"
        BY <1>0, <1>18, <2>1 DEF Ends, TypeOK, Rows
    <2>3. \A x \in Sessions : x # s => sessions'[x] = sessions[x]
        BY <1>0, <1>18 DEF Ends, TypeOK
    <2>4. UNCHANGED <<task, abreast>> /\ Joined' = Joined
        BY <1>18 DEF Ends, Joined, Joiners
    <2>5. \A t \in 0..MaxTime : There(t)' \subseteq There(t)
        BY <2>2, <2>3, <2>4 DEF There, On
    <2>6. \A t \in 0..MaxTime : MayPlace(t)
        BY <2>4, <2>5 DEF MayPlace, Settled, Writers
    <2>7. Placers' \subseteq Placers
        BY <2>4 DEF Placers
    <2> QED
        BY <1>0, <2>4, <2>6, <2>7, CountsStay, PlaceStep
<1>16. ASSUME NEW r \in Requests, Crash(r) PROVE ClashInv'
    <2>1. Become(r, Idle) /\ abreast' = abreast
        BY <1>16 DEF Crash
    <2>2. \A t \in 0..MaxTime : There(t)' \subseteq There(t)
        BY <1>1, <1>16, IdleTask DEF Crash
    <2>3. CASE task[r].pc \notin {"scheduleWrite", "moveWrite"}
        BY <1>0, <2>1, <2>2, <2>3, IdleTask, NothingPlaced DEF Placings
    <2>4. CASE task[r].pc = "moveWrite"
        <3>1. task[r].id \in Sessions
            BY <1>0, <2>4, TaskFields
        <3> QED
            BY <1>0, <2>1, <2>2, <2>4, <3>1, OnePlaced
    <2>5. CASE task[r].pc = "scheduleWrite"
        <3>1. \A q \in Requests : task'[q] = IF q = r THEN Idle ELSE task[q]
            BY <1>0, <2>1 DEF Become, TypeOK
        <3>2. Placers' \subseteq Placers
            BY <3>1, IdleTask DEF Placers, Placings
        <3>3. ASSUME NEW t \in 0..MaxTime PROVE MayPlace(t)
            <4>1. /\ Writers(t)' = Writers(t) \ {r}
                  /\ \A q \in Writers(t)' : task'[q] = task[q]
                BY <3>1, IdleTask DEF Writers
            <4>2. Settled(t)' \subseteq Settled(t)
                BY <2>2, <2>5, <3>3, <4>1 DEF Settled
            <4> QED
                BY <4>1, <4>2 DEF MayPlace
        <3> QED
            BY <1>0, <2>1, <3>2, <3>3, CountsStay, PlaceStep
    <2> QED
        BY <2>3, <2>4, <2>5
<1>17. CASE UNCHANGED vars
    <2>1. UNCHANGED <<sessions, task, abreast>>
        BY <1>17 DEF vars
    <2>2. \A t \in 0..MaxTime : MayPlace(t)
        BY <2>1 DEF MayPlace, Settled, There, On, Joined, Joiners, Writers
    <2>3. Placers' \subseteq Placers
        BY <2>1 DEF Placers
    <2> QED
        BY <1>0, <2>1, <2>2, <2>3, CountsStay, PlaceStep
<1> QED
    BY <1>2, <1>3, <1>4, <1>5, <1>6, <1>7, <1>8, <1>9, <1>10, <1>11, <1>12, <1>13, <1>14, <1>15,
       <1>16, <1>17, <1>18 DEF Next, Arrive, HandlerStep

\* The sessions at an instant that are not settled there have a request each that is
\* about to move them.
LEMMA ThereIsBounded ==
    ASSUME ClashInv, NEW t \in 0..MaxTime
    PROVE  IsFiniteSet(There(t)) /\ Cardinality(There(t)) <= abreast
<1> DEFINE S == Settled(t)
           W == Writers(t)
           U == There(t) \ S
           V == {q \in W : task[q].pc = "moveWrite" /\ task[q].id \in U}
           f == [q \in V |-> task[q].id]
<1>1. /\ IsFiniteSet(S) /\ Cardinality(S) \in Nat /\ Cardinality(S) + Cardinality(W) <= abreast
      /\ IsFiniteSet(W) /\ Cardinality(W) \in Nat /\ abreast \in Nat
    BY WritersFinite, FS_CardinalityType DEF ClashInv
<1>2. V \subseteq W /\ (\A s \in U : \E q \in V : task[q].id = s) /\ U \cup S = There(t)
      /\ S \cap U = {}
    BY DEF Settled
<1> HIDE DEF S, W, U
<1>3. IsFiniteSet(V) /\ Cardinality(V) <= Cardinality(W)
    BY <1>1, <1>2, FS_Subset
<1>4. f \in Surjection(V, U)
    <2>1. f \in [V -> U]
        OBVIOUS
    <2>2. \A s \in U : \E q \in V : f[q] = s
        BY <1>2
    <2> QED
        BY <2>1, <2>2 DEF Surjection
<1> HIDE DEF V, f
<1>5. IsFiniteSet(U) /\ Cardinality(U) <= Cardinality(V)
    BY <1>3, <1>4, FS_Surjection
<1>6. Cardinality(V) \in Nat /\ Cardinality(U) \in Nat
    BY <1>3, <1>5, FS_CardinalityType
<1>7. Cardinality(S \cup U) = Cardinality(S) + Cardinality(U) - Cardinality(S \cap U)
    BY <1>1, <1>5, FS_Union
<1>8. Cardinality(S \cap U) = 0
    BY <1>2, FS_EmptySet
<1>9. IsFiniteSet(S \cup U)
    BY <1>1, <1>5, FS_Union
<1>10. There(t) = S \cup U /\ Cardinality(There(t)) = Cardinality(S \cup U)
    <2>1. There(t) = S \cup U
        BY <1>2
    <2> QED
        BY <2>1
<1> HIDE DEF There
<1> QED
    BY <1>1, <1>3, <1>5, <1>6, <1>7, <1>8, <1>9, <1>10

\* No more sessions take place at an instant than requests ever took up a time at once,
\* schedules, moves and sessions on their way to LIVE together, however many there are
\* and wherever they are moved (sessions.service.ts:110-133).
THEOREM ClashesAreBounded == Spec => []ClashIsBounded
<1>1. ASSUME ClashInv PROVE ClashIsBounded
    <2> SUFFICES ASSUME NEW t \in 0..MaxTime
                 PROVE  Cardinality({s \in On : sessions[s].from <= t /\ t < sessions[s].to})
                            <= abreast
        BY DEF ClashIsBounded
    <2> DEFINE O == {s \in On : sessions[s].from <= t /\ t < sessions[s].to}
               T == There(t)
    <2>1. O \subseteq T
        BY DEF There, On
    <2>2. IsFiniteSet(T) /\ Cardinality(T) <= abreast
        BY <1>1, ThereIsBounded
    <2>3. abreast \in Nat
        BY <1>1, WritersFinite DEF ClashInv
    <2> HIDE DEF O, T
    <2>4. IsFiniteSet(O) /\ Cardinality(O) <= Cardinality(T)
        BY <2>1, <2>2, FS_Subset
    <2>5. Cardinality(O) \in Nat /\ Cardinality(T) \in Nat
        BY <2>2, <2>4, FS_CardinalityType
    <2>6. Cardinality(O) <= abreast
        BY <2>2, <2>3, <2>4, <2>5
    <2> QED
        BY <2>6 DEF O
<1> QED
    BY ClashInitial, ClashInductive, <1>1, PTL DEF Spec

====
