---- MODULE LiveSessionProofs ----
(***************************************************************************)
(* Proofs about LiveSession, for every set of users and requests: it keeps *)
(* its types, only members are in the room, nobody speaks who was never    *)
(* given the floor, and a session goes live through its host.              *)
(***************************************************************************)
EXTENDS LiveSession, TLAPS

USE LiveAssumption

\* What a request carries from one of its steps to a later one is still true
\* there: seats are only added, rows never deleted, grants never forgotten.
TasksAreTrue ==
    \A r \in Requests :
        LET t == task[r]  u == t.user IN
        /\ t.live \/ t.pc = "joinLive" => u = Host
        /\ t.pc \in {"joinRow", "joinUpsert", "joinLive"} => u = Host \/ u \in seats
        /\ t.pc \in {"joinUpsert", "joinLive"} /\ u = Host => t.canPublish
        /\ t.pc \in {"joinUpsert", "joinLive"} \cup PromoteSteps /\ u # Host /\ t.canPublish
               => u \in granted
        /\ t.pc \in {"joinLive"} \cup PromoteSteps => rows[u] # NoRow

LiveInv ==
    /\ TypeOK
    /\ TasksAreTrue
    /\ Admitted
    /\ SpeakersWereGranted
    /\ LiveThroughHost

-----------------------------------------------------------------------------
(* Rows and floors *)

HostRows == [role : {"HOST", "CO_HOST"}, canPublish : {TRUE}, present : BOOLEAN]

StudentRows == [role : {"STUDENT"}, canPublish : BOOLEAN, present : BOOLEAN]

LEMMA RowFields ==
    ASSUME NEW row \in Rows
    PROVE  row # NoRow
<1>1. row.role \in {"HOST", "CO_HOST", "STUDENT"}
    <2>1. CASE row \in HostRows
        BY <2>1 DEF HostRows
    <2>2. CASE row \in StudentRows
        BY <2>2 DEF StudentRows
    <2> QED
        BY <2>1, <2>2 DEF Rows, HostRows, StudentRows
<1>2. NoRow.role = "NONE"
    BY DEF NoRow
<1> QED
    BY <1>1, <1>2

\* Somebody who leaves keeps the row, and the floor in it.
LEMMA LeftRow ==
    ASSUME NEW row \in Rows \cup {NoRow}
    PROVE  LET left == [row EXCEPT !.present = FALSE] IN
           /\ left \in Rows \cup {NoRow}
           /\ left.canPublish = row.canPublish
           /\ row # NoRow => left # NoRow
<1> DEFINE left == [row EXCEPT !.present = FALSE]
<1>1. CASE row = NoRow
    <2>1. NoRow = [NoRow EXCEPT !.present = NoRow.present]
        BY Zenon DEF NoRow
    <2>2. NoRow.present = FALSE
        BY Zenon DEF NoRow
    <2> QED
        BY <1>1, <2>1, <2>2
<1>2. CASE row \in HostRows
    <2>1. left \in HostRows /\ left.canPublish = row.canPublish
        BY <1>2 DEF HostRows
    <2> QED
        BY <2>1, RowFields DEF Rows, HostRows
<1>3. CASE row \in StudentRows
    <2>1. left \in StudentRows /\ left.canPublish = row.canPublish
        BY <1>3 DEF StudentRows
    <2> QED
        BY <2>1, RowFields DEF Rows, StudentRows
<1> QED
    BY <1>1, <1>2, <1>3 DEF Rows, HostRows, StudentRows

\* The row of somebody who is promoted, or is no longer.
LEMMA PromotedRow ==
    ASSUME NEW row \in Rows, NEW canPublish \in BOOLEAN
    PROVE  LET new == [row EXCEPT !.canPublish = canPublish,
                                  !.role = IF canPublish THEN "CO_HOST" ELSE "STUDENT"] IN
           new \in Rows /\ new.canPublish = canPublish
<1> DEFINE new == [row EXCEPT !.canPublish = canPublish,
                              !.role = IF canPublish THEN "CO_HOST" ELSE "STUDENT"]
<1>1. row \in [role : {"HOST", "CO_HOST", "STUDENT"}, canPublish : BOOLEAN, present : BOOLEAN]
    BY DEF Rows
<1>2. CASE canPublish
    <2>1. new \in HostRows /\ new.canPublish
        BY <1>1, <1>2 DEF HostRows
    <2> QED
        BY <1>2, <2>1 DEF Rows, HostRows
<1>3. CASE ~canPublish
    <2>1. new \in StudentRows /\ ~new.canPublish
        BY <1>1, <1>3 DEF StudentRows
    <2> QED
        BY <1>3, <2>1 DEF Rows, StudentRows
<1> QED
    BY <1>2, <1>3

\* The row of somebody who joins.
LEMMA JoinedRow ==
    ASSUME NEW u \in Users, NEW canPublish \in BOOLEAN, u = Host => canPublish
    PROVE  LET new == [role |-> IF u = Host THEN "HOST" ELSE "STUDENT",
                       canPublish |-> canPublish, present |-> TRUE] IN
           new \in Rows /\ new.canPublish = canPublish
BY DEF Rows

LEMMA FloorType ==
    ASSUME NEW u \in Users, NEW canPublish \in BOOLEAN
    PROVE  /\ FloorOf(u, canPublish) \in Floors
           /\ u # Host => FloorOf(u, canPublish) # "presenter"
           /\ u # Host /\ FloorOf(u, canPublish) = "speaker" => canPublish
BY DEF FloorOf, Floors

LEMMA IdleTask == Idle \in Tasks
BY DEF Idle, Tasks

-----------------------------------------------------------------------------
(* What keeps the invariant *)

LEMMA TaskAt ==
    ASSUME LiveInv, NEW r \in Requests
    PROVE  /\ task[r] \in Tasks
           /\ task[r].user \in Users
           /\ task[r].canPublish \in BOOLEAN
BY DEF LiveInv, TypeOK, Tasks

\* A request that is given something true to do, or nothing, spoils nothing.
LEMMA TaskSteps ==
    ASSUME LiveInv, NEW r \in Requests, NEW t \in Tasks,
           task' = [task EXCEPT ![r] = t],
           seats \subseteq seats', granted \subseteq granted',
           \A u \in Users : rows[u] # NoRow => rows'[u] # NoRow,
           t.live \/ t.pc = "joinLive" => t.user = Host,
           t.pc \in {"joinRow", "joinUpsert", "joinLive"} => t.user = Host \/ t.user \in seats,
           t.pc \in {"joinUpsert", "joinLive"} /\ t.user = Host => t.canPublish,
           t.pc \in {"joinUpsert", "joinLive"} \cup PromoteSteps /\ t.user # Host /\ t.canPublish
               => t.user \in granted',
           t.pc \in {"joinLive"} \cup PromoteSteps => rows'[t.user] # NoRow
    PROVE  task' \in [Requests -> Tasks] /\ TasksAreTrue'
<1>1. task' \in [Requests -> Tasks]
    BY DEF LiveInv, TypeOK
<1>2. ASSUME NEW q \in Requests, q # r
      PROVE  task'[q] = task[q] /\ task[q].user \in Users
    BY <1>2, TaskAt DEF LiveInv, TypeOK
<1>3. task'[r] = t /\ t.user \in Users
    BY DEF LiveInv, TypeOK, Tasks
<1>4. ASSUME NEW q \in Requests
      PROVE  LET s == task'[q]  u == s.user IN
             /\ s.live \/ s.pc = "joinLive" => u = Host
             /\ s.pc \in {"joinRow", "joinUpsert", "joinLive"} => u = Host \/ u \in seats'
             /\ s.pc \in {"joinUpsert", "joinLive"} /\ u = Host => s.canPublish
             /\ s.pc \in {"joinUpsert", "joinLive"} \cup PromoteSteps /\ u # Host /\ s.canPublish
                    => u \in granted'
             /\ s.pc \in {"joinLive"} \cup PromoteSteps => rows'[u] # NoRow
    <2>1. CASE q = r
        BY <2>1, <1>3
    <2>2. CASE q # r
        BY <2>2, <1>2 DEF LiveInv, TasksAreTrue
    <2> QED
        BY <2>1, <2>2
<1> QED
    BY <1>1, <1>4 DEF TasksAreTrue

\* No task changes.
LEMMA TasksStay ==
    ASSUME LiveInv, UNCHANGED task,
           seats \subseteq seats', granted \subseteq granted',
           \A u \in Users : rows[u] # NoRow => rows'[u] # NoRow
    PROVE  task' \in [Requests -> Tasks] /\ TasksAreTrue'
<1>1. \A r \in Requests : task[r].user \in Users
    BY TaskAt
<1> QED
    BY <1>1 DEF LiveInv, TypeOK, TasksAreTrue

LEMMA DoneSpoilsNothing ==
    ASSUME LiveInv, NEW r \in Requests, Done(r),
           seats \subseteq seats', granted \subseteq granted',
           \A u \in Users : rows[u] # NoRow => rows'[u] # NoRow
    PROVE  task' \in [Requests -> Tasks] /\ TasksAreTrue'
<1>1. /\ Idle \in Tasks /\ ~Idle.live
      /\ Idle.pc \notin {"joinRow", "joinUpsert", "joinLive"} \cup PromoteSteps
    BY IdleTask DEF Idle, PromoteSteps
<1> QED
    BY <1>1, TaskSteps DEF Done

LEMMA FaultKeepsType ==
    ASSUME TypeOK, NEW kind, Fault(kind)
    PROVE  faults' \in 0..MaxFaults
BY DEF TypeOK, Fault

\* Neither a row nor a token nor the room changes.
LEMMA OthersStay ==
    ASSUME LiveInv, UNCHANGED <<rows, token, room>>,
           seats \subseteq seats', granted \subseteq granted',
           session' = "LIVE" => session = "LIVE"
    PROVE  Admitted' /\ SpeakersWereGranted' /\ LiveThroughHost'
BY DEF LiveInv, Admitted, SpeakersWereGranted, LiveThroughHost

\* A request goes on with what it has.
LEMMA GoToTask ==
    ASSUME LiveInv, NEW r \in Requests,
           NEW pc \in {"idle", "endRoom", "cancel"} \cup JoinSteps \cup PromoteSteps, GoTo(r, pc)
    PROVE  LET t == [task[r] EXCEPT !.pc = pc] IN
           /\ t \in Tasks /\ task' = [task EXCEPT ![r] = t]
           /\ t.pc = pc /\ t.user = task[r].user
           /\ t.canPublish = task[r].canPublish /\ t.live = task[r].live
<1> DEFINE t == [task[r] EXCEPT !.pc = pc]
<1>1. task[r] \in Tasks
    BY TaskAt
<1>2. t \in Tasks /\ t.pc = pc /\ t.user = task[r].user
      /\ t.canPublish = task[r].canPublish /\ t.live = task[r].live
    BY <1>1 DEF Tasks
<1>3. task' = [task EXCEPT ![r] = t]
    BY DEF GoTo
<1> QED
    BY <1>2, <1>3

-----------------------------------------------------------------------------
(* joinToken *)

LEMMA ArriveJoinKeepsInv ==
    ASSUME LiveInv, NEW r \in Requests, NEW u \in Users, ArriveJoin(r, u)
    PROVE  LiveInv'
<1> DEFINE t == [pc |-> IF u = Host THEN "joinRow" ELSE "joinSeat", user |-> u,
                 canPublish |-> FALSE, live |-> GoesLive(u)]
<1>1. t \in Tasks
    BY DEF Tasks, JoinSteps, GoesLive
<1>2. task' = [task EXCEPT ![r] = t] /\ (GoesLive(u) => u = Host)
    BY DEF ArriveJoin, GoesLive
<1>3. UNCHANGED <<session, seats, rows, token, livekit, hook, granted, faults>>
    BY DEF ArriveJoin
<1>4. task' \in [Requests -> Tasks] /\ TasksAreTrue'
    BY <1>1, <1>2, <1>3, TaskSteps DEF PromoteSteps
<1>5. Admitted' /\ SpeakersWereGranted' /\ LiveThroughHost'
    BY <1>3, OthersStay DEF livekit
<1> QED
    BY <1>3, <1>4, <1>5 DEF LiveInv, TypeOK, livekit

LEMMA CheckSeatKeepsInv ==
    ASSUME LiveInv, NEW r \in Requests, CheckSeat(r)
    PROVE  LiveInv'
<1>1. UNCHANGED <<session, seats, rows, token, livekit, hook, granted, faults>>
    BY DEF CheckSeat
<1>2. task' \in [Requests -> Tasks] /\ TasksAreTrue'
    <2>1. CASE HasSeat(task[r].user)
        <3> DEFINE t == [task[r] EXCEPT !.pc = "joinRow"]
        <3>1. t \in Tasks /\ task' = [task EXCEPT ![r] = t]
              /\ t.pc = "joinRow" /\ t.user = task[r].user /\ t.live = task[r].live
            BY <2>1, GoToTask DEF CheckSeat, JoinSteps
        <3>2. task[r].live => task[r].user = Host
            BY DEF LiveInv, TasksAreTrue
        <3>3. task[r].user \in seats
            BY <2>1 DEF HasSeat
        <3> HIDE DEF t
        <3> QED
            BY <1>1, <3>1, <3>2, <3>3, TaskSteps DEF PromoteSteps
    <2>2. CASE ~HasSeat(task[r].user)
        BY <1>1, <2>2, DoneSpoilsNothing DEF CheckSeat
    <2> QED
        BY <2>1, <2>2
<1>3. Admitted' /\ SpeakersWereGranted' /\ LiveThroughHost'
    BY <1>1, OthersStay DEF livekit
<1> QED
    BY <1>1, <1>2, <1>3 DEF LiveInv, TypeOK, livekit

LEMMA ReadParticipantKeepsInv ==
    ASSUME LiveInv, NEW r \in Requests, ReadParticipant(r)
    PROVE  LiveInv'
<1> DEFINE u == task[r].user
           t == [task[r] EXCEPT !.pc = "joinUpsert", !.canPublish = CanPublish(u)]
<1>1. UNCHANGED <<session, seats, rows, token, livekit, hook, granted, faults>>
    BY DEF ReadParticipant
<1>2. task[r] \in Tasks /\ u \in Users
    BY TaskAt
<1>3. CanPublish(u) \in BOOLEAN /\ (u = Host => CanPublish(u))
    BY DEF CanPublish
<1>4. t \in Tasks /\ t.pc = "joinUpsert" /\ t.user = u /\ t.live = task[r].live
      /\ t.canPublish = CanPublish(u)
    BY <1>2, <1>3 DEF Tasks, JoinSteps
<1>5. task' = [task EXCEPT ![r] = t]
    BY <1>2 DEF ReadParticipant
<1>6. (u = Host \/ u \in seats) /\ (task[r].live => u = Host)
    BY DEF ReadParticipant, At, LiveInv, TasksAreTrue
<1>7. u # Host /\ CanPublish(u) => u \in granted
    BY <1>2 DEF CanPublish, LiveInv, SpeakersWereGranted
<1>8. task' \in [Requests -> Tasks] /\ TasksAreTrue'
    <2> HIDE DEF t, u
    <2> QED
        BY <1>1, <1>3, <1>4, <1>5, <1>6, <1>7, TaskSteps DEF PromoteSteps
<1>9. Admitted' /\ SpeakersWereGranted' /\ LiveThroughHost'
    BY <1>1, OthersStay DEF livekit
<1> QED
    BY <1>1, <1>8, <1>9 DEF LiveInv, TypeOK, livekit

\* The token of somebody who is on record, with the floor they were granted.
LEMMA AnswerIsTrue ==
    ASSUME LiveInv, NEW r \in Requests, task[r].pc \in {"joinUpsert", "joinLive"}, Answer(r),
           UNCHANGED <<seats, room, granted>>,
           rows' \in [Users -> Rows \cup {NoRow}],
           rows'[task[r].user] # NoRow,
           \A v \in Users : rows[v] # NoRow => rows'[v] # NoRow,
           \A v \in Users \ {Host} : rows'[v].canPublish => v \in granted
    PROVE  /\ token' \in [Users -> {"none"} \cup Floors]
           /\ Admitted' /\ SpeakersWereGranted'
<1> DEFINE u == task[r].user
<1>1. u \in Users /\ task[r].canPublish \in BOOLEAN
    BY TaskAt
<1>2. FloorOf(u, task[r].canPublish) \in Floors
    BY <1>1, FloorType
<1>3. token' = [token EXCEPT ![u] = FloorOf(u, task[r].canPublish)]
    BY DEF Answer
<1>4. token' \in [Users -> {"none"} \cup Floors]
    BY <1>1, <1>2, <1>3 DEF LiveInv, TypeOK
<1>5. u = Host \/ u \in seats
    BY DEF LiveInv, TasksAreTrue
<1>6. u # Host /\ task[r].canPublish => u \in granted
    BY DEF LiveInv, TasksAreTrue
<1>7. \A v \in Users : v # u => token'[v] = token[v]
    BY <1>1, <1>3 DEF LiveInv, TypeOK
<1>8. token'[u] = FloorOf(u, task[r].canPublish)
    BY <1>1, <1>3 DEF LiveInv, TypeOK
<1>9. u # Host => token'[u] # "presenter" /\ (token'[u] = "speaker" => u \in granted)
    BY <1>1, <1>6, <1>8, FloorType
<1>10. Admitted'
    <2> HIDE DEF u
    <2> QED
        BY <1>5, <1>7 DEF LiveInv, Admitted, u
<1>11. SpeakersWereGranted'
    <2> HIDE DEF u
    <2> QED
        BY <1>7, <1>9 DEF LiveInv, SpeakersWereGranted
<1> QED
    BY <1>4, <1>10, <1>11

LEMMA UpsertParticipantKeepsInv ==
    ASSUME LiveInv, NEW r \in Requests, UpsertParticipant(r)
    PROVE  LiveInv'
<1> DEFINE u == task[r].user
           new == [role |-> IF u = Host THEN "HOST" ELSE "STUDENT",
                   canPublish |-> task[r].canPublish, present |-> TRUE]
<1>1. u \in Users /\ task[r].canPublish \in BOOLEAN
    BY TaskAt
<1>2. UNCHANGED <<session, seats, livekit, hook, granted, faults>> /\ At(r, "joinUpsert")
    BY DEF UpsertParticipant
<1>3. /\ u = Host => task[r].canPublish
      /\ u # Host /\ task[r].canPublish => u \in granted
      /\ task[r].live => u = Host
      /\ u = Host \/ u \in seats
    BY <1>2 DEF At, LiveInv, TasksAreTrue
<1>4. new \in Rows /\ new.canPublish = task[r].canPublish
    BY <1>1, <1>3, JoinedRow
<1>5. rows' = [rows EXCEPT ![u] = new]
    BY DEF UpsertParticipant
<1> HIDE DEF new
<1>6. rows' \in [Users -> Rows \cup {NoRow}] /\ rows'[u] = new
      /\ \A v \in Users : v # u => rows'[v] = rows[v]
    BY <1>1, <1>4, <1>5 DEF LiveInv, TypeOK
<1>7. rows'[u] # NoRow
    BY <1>4, <1>6, RowFields
<1>8. \A v \in Users : rows[v] # NoRow => rows'[v] # NoRow
    BY <1>6, <1>7
<1>9. \A v \in Users \ {Host} : rows'[v].canPublish => v \in granted
    BY <1>3, <1>4, <1>6 DEF LiveInv, SpeakersWereGranted
<1>10. LiveThroughHost'
    BY <1>2, <1>8 DEF LiveInv, LiveThroughHost
<1>11. CASE task[r].live
    <2> DEFINE t == [task[r] EXCEPT !.pc = "joinLive"]
    <2>1. GoTo(r, "joinLive") /\ UNCHANGED token
        BY <1>11 DEF UpsertParticipant
    <2>2. t \in Tasks /\ task' = [task EXCEPT ![r] = t] /\ t.pc = "joinLive" /\ t.user = u
          /\ t.canPublish = task[r].canPublish /\ t.live = task[r].live
        BY <2>1, GoToTask DEF JoinSteps
    <2>3. task' \in [Requests -> Tasks] /\ TasksAreTrue'
        <3> HIDE DEF t, u
        <3> QED
            BY <1>2, <1>3, <1>7, <1>8, <1>11, <2>2, TaskSteps
    <2>4. Admitted' /\ SpeakersWereGranted'
        BY <1>2, <1>8, <1>9, <2>1 DEF LiveInv, Admitted, SpeakersWereGranted, livekit
    <2> QED
        BY <1>2, <1>6, <1>10, <2>1, <2>3, <2>4 DEF LiveInv, TypeOK, livekit
<1>12. CASE ~task[r].live
    <2>1. Answer(r)
        BY <1>12 DEF UpsertParticipant
    <2>2. token' \in [Users -> {"none"} \cup Floors] /\ Admitted' /\ SpeakersWereGranted'
        BY <1>2, <1>6, <1>7, <1>8, <1>9, <2>1, AnswerIsTrue DEF At, livekit
    <2>3. task' \in [Requests -> Tasks] /\ TasksAreTrue'
        BY <1>2, <1>8, <2>1, DoneSpoilsNothing DEF Answer
    <2> QED
        BY <1>2, <1>6, <1>10, <2>2, <2>3 DEF LiveInv, TypeOK, livekit
<1> QED
    BY <1>11, <1>12

LEMMA GoLiveKeepsInv ==
    ASSUME LiveInv, NEW r \in Requests, GoLive(r)
    PROVE  LiveInv'
<1>1. UNCHANGED <<seats, rows, livekit, hook, granted, faults>> /\ At(r, "joinLive")
      /\ Answer(r) /\ session' = "LIVE"
    BY DEF GoLive
<1>2. rows[task[r].user] # NoRow
    BY <1>1 DEF At, LiveInv, TasksAreTrue
<1>3. \A v \in Users \ {Host} : rows[v].canPublish => v \in granted
    BY DEF LiveInv, SpeakersWereGranted
<1>4. token' \in [Users -> {"none"} \cup Floors] /\ Admitted' /\ SpeakersWereGranted'
    BY <1>1, <1>2, <1>3, AnswerIsTrue DEF At, livekit, LiveInv, TypeOK
<1>5. task' \in [Requests -> Tasks] /\ TasksAreTrue'
    BY <1>1, DoneSpoilsNothing DEF Answer
<1>6. LiveThroughHost'
    <2>1. task[r].user = Host
        BY <1>1 DEF At, LiveInv, TasksAreTrue
    <2> QED
        BY <1>1, <1>2, <2>1 DEF LiveThroughHost
<1> QED
    BY <1>1, <1>4, <1>5, <1>6 DEF LiveInv, TypeOK, livekit

-----------------------------------------------------------------------------
(* promote *)

LEMMA ArrivePromoteKeepsInv ==
    ASSUME LiveInv, NEW r \in Requests, NEW u \in Users, NEW canPublish \in BOOLEAN,
           ArrivePromote(r, u, canPublish)
    PROVE  LiveInv'
<1> DEFINE t == [pc |-> "promoteLiveKit", user |-> u, canPublish |-> canPublish, live |-> FALSE]
<1>1. t \in Tasks
    BY DEF Tasks, PromoteSteps
<1>2. /\ task' = [task EXCEPT ![r] = t]
      /\ UNCHANGED <<session, seats, rows, token, livekit, hook, faults>>
      /\ rows[u] # NoRow
    BY DEF ArrivePromote
<1>3. granted' \in SUBSET Users /\ granted \subseteq granted'
      /\ (canPublish /\ u # Host => u \in granted')
    BY DEF ArrivePromote, LiveInv, TypeOK
<1>4. task' \in [Requests -> Tasks] /\ TasksAreTrue'
    BY <1>1, <1>2, <1>3, TaskSteps
<1>5. Admitted' /\ SpeakersWereGranted' /\ LiveThroughHost'
    BY <1>2, <1>3, OthersStay DEF livekit
<1> QED
    BY <1>2, <1>3, <1>4, <1>5 DEF LiveInv, TypeOK, livekit

LEMMA UpdateLiveKitKeepsInv ==
    ASSUME LiveInv, NEW r \in Requests, UpdateLiveKit(r)
    PROVE  LiveInv'
<1> DEFINE u == task[r].user
           t == [task[r] EXCEPT !.pc = "promoteRow"]
<1>1. u \in Users /\ task[r].canPublish \in BOOLEAN
    BY TaskAt
<1>2. UNCHANGED <<session, seats, rows, token, roomOpen, finished, hook, granted>>
      /\ At(r, "promoteLiveKit") /\ GoTo(r, "promoteRow")
    BY DEF UpdateLiveKit
<1>3. /\ task[r].live => u = Host
      /\ u # Host /\ task[r].canPublish => u \in granted
      /\ rows[u] # NoRow
    BY <1>2 DEF At, PromoteSteps, LiveInv, TasksAreTrue
<1>4. task' \in [Requests -> Tasks] /\ TasksAreTrue'
    <2>1. t \in Tasks /\ task' = [task EXCEPT ![r] = t] /\ t.pc = "promoteRow" /\ t.user = u
          /\ t.canPublish = task[r].canPublish /\ t.live = task[r].live
        BY <1>2, GoToTask DEF PromoteSteps
    <2> HIDE DEF t, u
    <2> QED
        BY <1>2, <1>3, <2>1, TaskSteps DEF PromoteSteps
<1>5. faults' \in 0..MaxFaults
    BY FaultKeepsType DEF UpdateLiveKit, LiveInv, TypeOK
<1>6. CASE UNCHANGED room
    <2>1. Admitted' /\ SpeakersWereGranted' /\ LiveThroughHost'
        BY <1>2, <1>6, OthersStay
    <2> QED
        BY <1>2, <1>4, <1>5, <1>6, <2>1 DEF LiveInv, TypeOK
<1>7. CASE room' = Updated(u, task[r].canPublish) /\ room[u] # "out"
    <2>1. room' = [room EXCEPT ![u] = IF task[r].canPublish THEN "speaker" ELSE "listener"]
        BY <1>7 DEF Updated
    <2>2. room' \in [Users -> {"out"} \cup Floors]
        BY <1>1, <2>1 DEF LiveInv, TypeOK, Floors
    <2>3. \A v \in Users : v # u => room'[v] = room[v]
        BY <1>1, <2>1 DEF LiveInv, TypeOK
    <2>4. room'[u] = IF task[r].canPublish THEN "speaker" ELSE "listener"
        BY <1>1, <2>1 DEF LiveInv, TypeOK
    <2>5. Admitted'
        BY <1>2, <1>7, <2>3 DEF LiveInv, Admitted
    <2>6. SpeakersWereGranted'
        BY <1>2, <1>3, <2>3, <2>4 DEF LiveInv, SpeakersWereGranted
    <2>7. LiveThroughHost'
        BY <1>2 DEF LiveInv, LiveThroughHost
    <2> QED
        BY <1>2, <1>4, <1>5, <2>2, <2>5, <2>6, <2>7 DEF LiveInv, TypeOK
<1> QED
    BY <1>6, <1>7 DEF UpdateLiveKit, Updated

LEMMA UpdateParticipantKeepsInv ==
    ASSUME LiveInv, NEW r \in Requests, UpdateParticipant(r)
    PROVE  LiveInv'
<1> DEFINE u == task[r].user
           new == [rows[u] EXCEPT !.canPublish = task[r].canPublish,
                                  !.role = IF task[r].canPublish THEN "CO_HOST" ELSE "STUDENT"]
<1>1. u \in Users /\ task[r].canPublish \in BOOLEAN
    BY TaskAt
<1>2. UNCHANGED <<session, seats, token, livekit, hook, granted, faults>>
      /\ At(r, "promoteRow") /\ Done(r)
    BY DEF UpdateParticipant
<1>3. rows[u] # NoRow /\ (u # Host /\ task[r].canPublish => u \in granted)
    BY <1>2 DEF At, PromoteSteps, LiveInv, TasksAreTrue
<1>4. rows[u] \in Rows
    BY <1>1, <1>3 DEF LiveInv, TypeOK
<1>5. new \in Rows /\ new.canPublish = task[r].canPublish
    BY <1>1, <1>4, PromotedRow
<1>6. rows' = [rows EXCEPT ![u] = new]
    BY <1>1 DEF UpdateParticipant, LiveInv, TypeOK
<1> HIDE DEF new
<1>7. rows' \in [Users -> Rows \cup {NoRow}] /\ rows'[u] = new
      /\ \A v \in Users : v # u => rows'[v] = rows[v]
    BY <1>1, <1>5, <1>6 DEF LiveInv, TypeOK
<1>8. \A v \in Users : rows[v] # NoRow => rows'[v] # NoRow
    BY <1>5, <1>7, RowFields
<1>9. Admitted' /\ LiveThroughHost'
    BY <1>2, <1>8 DEF LiveInv, Admitted, LiveThroughHost, livekit
<1>10. SpeakersWereGranted'
    BY <1>2, <1>3, <1>5, <1>7 DEF LiveInv, SpeakersWereGranted, livekit
<1>11. task' \in [Requests -> Tasks] /\ TasksAreTrue'
    BY <1>2, <1>8, DoneSpoilsNothing
<1> QED
    BY <1>2, <1>7, <1>9, <1>10, <1>11 DEF LiveInv, TypeOK, livekit

-----------------------------------------------------------------------------
(* end, cancel and room_finished *)

LEMMA EndsKeepInv ==
    ASSUME LiveInv, NEW r \in Requests,
           EndSession(r) \/ ArriveCancel(r) \/ CancelSession(r) \/ Crash(r)
    PROVE  LiveInv'
<1>1. UNCHANGED <<seats, rows, token, livekit, hook, granted>>
    BY DEF EndSession, ArriveCancel, CancelSession, Crash
<1>2. session' \in {"SCHEDULED", "LIVE"} \cup Over /\ (session' = "LIVE" => session = "LIVE")
    BY DEF EndSession, ArriveCancel, CancelSession, Crash, Over, LiveInv, TypeOK
<1>3. faults' \in 0..MaxFaults
    BY FaultKeepsType DEF EndSession, ArriveCancel, CancelSession, Crash, LiveInv, TypeOK
<1>4. Admitted' /\ SpeakersWereGranted' /\ LiveThroughHost'
    BY <1>1, <1>2, OthersStay DEF livekit
<1>5. task' \in [Requests -> Tasks] /\ TasksAreTrue'
    <2>1. CASE CancelSession(r) \/ Crash(r)
        BY <1>1, <2>1, DoneSpoilsNothing DEF CancelSession, Crash
    <2>2. ASSUME NEW pc \in {"endRoom", "cancel"}, task' = [task EXCEPT ![r] = [Idle EXCEPT !.pc = pc]]
          PROVE  task' \in [Requests -> Tasks] /\ TasksAreTrue'
        <3> DEFINE t == [Idle EXCEPT !.pc = pc]
        <3>1. t \in Tasks /\ t.pc = pc /\ ~t.live
            BY <2>2, IdleTask DEF Tasks, Idle
        <3> HIDE DEF t
        <3>2. task' = [task EXCEPT ![r] = t]
            BY <2>2 DEF t
        <3> QED
            BY <1>1, <2>2, <3>1, <3>2, TaskSteps DEF PromoteSteps
    <2> QED
        BY <2>1, <2>2 DEF EndSession, ArriveCancel
<1> QED
    BY <1>1, <1>2, <1>3, <1>4, <1>5 DEF LiveInv, TypeOK, livekit

LEMMA DeleteRoomKeepsInv ==
    ASSUME LiveInv, NEW r \in Requests, DeleteRoom(r)
    PROVE  LiveInv'
<1>1. UNCHANGED <<session, seats, rows, token, hook, granted>> /\ Done(r)
    BY DEF DeleteRoom
<1>2. task' \in [Requests -> Tasks] /\ TasksAreTrue'
    BY <1>1, DoneSpoilsNothing
<1>3. faults' \in 0..MaxFaults
    BY FaultKeepsType DEF DeleteRoom, LiveInv, TypeOK
<1>4. /\ room' \in [Users -> {"out"} \cup Floors] /\ roomOpen' \in BOOLEAN /\ finished' \in BOOLEAN
      /\ \A u \in Users : room'[u] \in {"out", room[u]}
    BY DEF DeleteRoom, livekit, LiveInv, TypeOK
<1>5. Admitted' /\ SpeakersWereGranted' /\ LiveThroughHost'
    BY <1>1, <1>4 DEF LiveInv, Admitted, SpeakersWereGranted, LiveThroughHost
<1> QED
    BY <1>1, <1>2, <1>3, <1>4, <1>5 DEF LiveInv, TypeOK

LEMMA FinishSessionKeepsInv ==
    ASSUME LiveInv, FinishSession
    PROVE  LiveInv'
<1>1. /\ session' = "ENDED" /\ hook' = "idle"
      /\ rows' = [u \in Users |-> [rows[u] EXCEPT !.present = FALSE]]
      /\ UNCHANGED <<seats, token, livekit, task, granted, faults>>
    BY DEF FinishSession
<1>2. ASSUME NEW u \in Users
      PROVE  /\ rows'[u] \in Rows \cup {NoRow}
             /\ rows'[u].canPublish = rows[u].canPublish
             /\ rows[u] # NoRow => rows'[u] # NoRow
    <2>1. rows[u] \in Rows \cup {NoRow}
        BY DEF LiveInv, TypeOK
    <2>2. rows'[u] = [rows[u] EXCEPT !.present = FALSE]
        BY <1>1
    <2> QED
        BY <2>1, <2>2, LeftRow
<1>3. rows' \in [Users -> Rows \cup {NoRow}]
    BY <1>1, <1>2
<1>4. task' \in [Requests -> Tasks] /\ TasksAreTrue'
    BY <1>1, <1>2, TasksStay
<1>5. Admitted' /\ SpeakersWereGranted' /\ LiveThroughHost'
    BY <1>1, <1>2 DEF LiveInv, Admitted, SpeakersWereGranted, LiveThroughHost, livekit
<1> QED
    BY <1>1, <1>3, <1>4, <1>5 DEF LiveInv, TypeOK, livekit, Over

LEMMA WebhookKeepsInv ==
    ASSUME LiveInv, ReadFinished \/ FailFinish \/ RoomCloses \/ CancelClassroom
    PROVE  LiveInv'
<1>1. UNCHANGED <<seats, rows, token, room, task, granted>>
    BY DEF ReadFinished, FailFinish, RoomCloses, CancelClassroom, livekit
<1>2. session' \in {"SCHEDULED", "LIVE"} \cup Over /\ (session' = "LIVE" => session = "LIVE")
    BY DEF ReadFinished, FailFinish, RoomCloses, CancelClassroom, Over, LiveInv, TypeOK
<1>3. /\ roomOpen' \in BOOLEAN /\ finished' \in BOOLEAN
      /\ hook' \in {"idle", "finish"} /\ faults' \in 0..MaxFaults
    BY FaultKeepsType
       DEF ReadFinished, FailFinish, RoomCloses, CancelClassroom, livekit, LiveInv, TypeOK
<1>4. task' \in [Requests -> Tasks] /\ TasksAreTrue'
    BY <1>1, TasksStay
<1>5. Admitted' /\ SpeakersWereGranted' /\ LiveThroughHost'
    BY <1>1, <1>2, OthersStay
<1> QED
    BY <1>1, <1>2, <1>3, <1>4, <1>5 DEF LiveInv, TypeOK

-----------------------------------------------------------------------------
(* The participants' clients *)

LEMMA ClientKeepsInv ==
    ASSUME LiveInv, NEW u \in Users, Client(u)
    PROVE  LiveInv'
<1>1. UNCHANGED <<session, rows, finished, hook, task, granted, faults>> /\ seats \subseteq seats'
    BY DEF Client, Enrol, Connect, DropToken, Leave, livekit
<1>2. seats' \in SUBSET Users
    BY DEF Client, Enrol, Connect, DropToken, Leave, LiveInv, TypeOK
<1>3. roomOpen' \in BOOLEAN
    BY DEF Client, Enrol, Connect, DropToken, Leave, livekit, LiveInv, TypeOK
<1>4. \A v \in Users : token'[v] \in {token[v], "none"} /\ room'[v] \in {room[v], token[v], "out"}
    BY DEF Client, Enrol, Connect, DropToken, Leave, livekit, LiveInv, TypeOK
<1>5. token' \in [Users -> {"none"} \cup Floors]
    BY DEF Client, Enrol, Connect, DropToken, Leave, LiveInv, TypeOK
<1>6. room' \in [Users -> {"out"} \cup Floors]
    BY DEF Client, Enrol, Connect, DropToken, Leave, livekit, LiveInv, TypeOK
<1>7. \A v \in Users : room'[v] # "out" => room[v] # "out" \/ token[v] # "none"
    <2>1. CASE Connect(u)
        BY <2>1 DEF Connect, LiveInv, TypeOK
    <2>2. CASE Leave(u)
        BY <2>2 DEF Leave, LiveInv, TypeOK
    <2>3. CASE Enrol(u) \/ DropToken(u)
        BY <2>3 DEF Enrol, DropToken, livekit
    <2> QED
        BY <2>1, <2>2, <2>3 DEF Client
<1>8. Admitted'
    BY <1>1, <1>4, <1>7 DEF LiveInv, Admitted
<1>9. SpeakersWereGranted'
    BY <1>1, <1>4 DEF LiveInv, SpeakersWereGranted
<1>10. LiveThroughHost'
    BY <1>1 DEF LiveInv, LiveThroughHost
<1>11. task' \in [Requests -> Tasks] /\ TasksAreTrue'
    BY <1>1, TasksStay
<1> QED
    BY <1>1, <1>2, <1>3, <1>5, <1>6, <1>8, <1>9, <1>10, <1>11 DEF LiveInv, TypeOK

-----------------------------------------------------------------------------
(* The invariant *)

LEMMA LiveInvInitial == Init => LiveInv
<1> SUFFICES ASSUME Init PROVE LiveInv
    OBVIOUS
<1>1. ~NoRow.canPublish
    BY Zenon DEF NoRow
<1>2. TypeOK
    <2>1. rows \in [Users -> Rows \cup {NoRow}] /\ task \in [Requests -> Tasks]
        BY IdleTask DEF Init
    <2>2. /\ token \in [Users -> {"none"} \cup Floors] /\ room \in [Users -> {"out"} \cup Floors]
          /\ seats \in SUBSET Users /\ granted \in SUBSET Users /\ faults \in 0..MaxFaults
        BY DEF Init
    <2>3. /\ session \in {"SCHEDULED", "LIVE"} \cup Over /\ hook \in {"idle", "finish"}
          /\ roomOpen \in BOOLEAN /\ finished \in BOOLEAN
        BY DEF Init
    <2> QED
        BY <2>1, <2>2, <2>3 DEF TypeOK
<1>3. TasksAreTrue
    BY DEF Init, TasksAreTrue, Idle, PromoteSteps
<1>4. Admitted /\ LiveThroughHost
    BY DEF Init, Admitted, LiveThroughHost
<1>5. SpeakersWereGranted
    BY <1>1 DEF Init, SpeakersWereGranted
<1> QED
    BY <1>2, <1>3, <1>4, <1>5 DEF LiveInv

LEMMA LiveInvInductive == LiveInv /\ [Next]_vars => LiveInv'
<1> SUFFICES ASSUME LiveInv, [Next]_vars PROVE LiveInv'
    OBVIOUS
<1>1. ASSUME NEW r \in Requests, Arrival(r) PROVE LiveInv'
    BY <1>1, ArriveJoinKeepsInv, ArrivePromoteKeepsInv, EndsKeepInv DEF Arrival
<1>2. ASSUME NEW r \in Requests, HandlerStep(r) PROVE LiveInv'
    BY <1>2, CheckSeatKeepsInv, ReadParticipantKeepsInv, UpsertParticipantKeepsInv, GoLiveKeepsInv,
       UpdateLiveKitKeepsInv, UpdateParticipantKeepsInv, DeleteRoomKeepsInv, EndsKeepInv
       DEF HandlerStep
<1>3. ASSUME NEW r \in Requests, Crash(r) PROVE LiveInv'
    BY <1>3, EndsKeepInv
<1>4. ASSUME NEW u \in Users, Client(u) PROVE LiveInv'
    BY <1>4, ClientKeepsInv
<1>5. CASE CancelClassroom \/ ReadFinished \/ FailFinish \/ RoomCloses
    BY <1>5, WebhookKeepsInv
<1>6. CASE FinishSession
    BY <1>6, FinishSessionKeepsInv
<1>7. CASE UNCHANGED vars
    <2>1. task' \in [Requests -> Tasks] /\ TasksAreTrue'
        BY <1>7, TasksStay DEF vars
    <2>2. Admitted' /\ SpeakersWereGranted' /\ LiveThroughHost'
        BY <1>7, OthersStay DEF vars
    <2> QED
        BY <1>7, <2>1, <2>2 DEF vars, LiveInv, TypeOK
<1> QED
    BY <1>1, <1>2, <1>3, <1>4, <1>5, <1>6, <1>7 DEF Next

-----------------------------------------------------------------------------
\* Every variable stays in its set, whatever requests, clients and LiveKit do.
THEOREM LiveTypeCorrect == Spec => []TypeOK
<1>1. LiveInv => TypeOK
    BY DEF LiveInv
<1> QED
    BY LiveInvInitial, LiveInvInductive, <1>1, PTL DEF Spec

\* Nobody but the host and users with a seat ever holds a join token or is in
\* the room, and whoever is has a ClassParticipant row (LiveService.joinToken):
\* however joins, promotes, ends, cancels, failures and webhooks interleave.
THEOREM OnlyMembersAreIn == Spec => []Admitted
<1>1. LiveInv => Admitted
    BY DEF LiveInv
<1> QED
    BY LiveInvInitial, LiveInvInductive, <1>1, PTL DEF Spec

\* Nobody speaks whom the host never gave the floor, and nobody but the host
\* shares a screen, whichever promotes and joins race (LiveService.promote and
\* the grants of LiveService.joinToken).
THEOREM FloorIsGranted == Spec => []SpeakersWereGranted
<1>1. LiveInv => SpeakersWereGranted
    BY DEF LiveInv
<1> QED
    BY LiveInvInitial, LiveInvInductive, <1>1, PTL DEF Spec

\* A session that is live was taken live by its host, who is on record
\* (LiveService.joinToken).
THEOREM HostTakesLive == Spec => []LiveThroughHost
<1>1. LiveInv => LiveThroughHost
    BY DEF LiveInv
<1> QED
    BY LiveInvInitial, LiveInvInductive, <1>1, PTL DEF Spec

-----------------------------------------------------------------------------
(* One thing at a time: what Prompt adds *)

Busy == {r \in Requests : ~At(r, "idle")}

Webhook == finished \/ hook = "finish"

\* One request, or the webhook, or tokens that wait for their clients.
OneAtATime ==
    /\ \A r, q \in Busy : r = q
    /\ Busy # {} \/ Webhook => \A u \in Users : token[u] = "none"
    /\ Webhook => Busy = {}

\* The room has finished: nobody is in it, and nobody can come in.
NobodyIsIn == Webhook => \A u \in Users : room[u] = "out"

\* What a join read still holds.
ReadsAreFresh ==
    \A r \in Requests :
        /\ task[r].pc \in JoinSteps => session \notin Over
        /\ At(r, "joinUpsert") /\ task[r].user # Host =>
               (task[r].canPublish <=> rows[task[r].user].canPublish)

\* A promote of u that has told LiveKit and not the row.
Telling(r, u) == At(r, "promoteRow") /\ task[r].user = u

\* Whether u has the floor: as the promote under way says, or else the row.
HasFloor(u) ==
    \/ \E r \in Requests : Telling(r, u) /\ task[r].canPublish
    \/ rows[u].canPublish /\ \A r \in Requests : ~Telling(r, u)

\* Until something fails, tokens and LiveKit agree with the host's decisions.
FloorsAgree ==
    faults = 0 => \A u \in Users \ {Host} :
        /\ token[u] # "none" => (token[u] = "speaker" <=> rows[u].canPublish)
        /\ room[u] # "out" => (room[u] = "speaker" <=> HasFloor(u))

CalmInv == LiveInv /\ OneAtATime /\ NobodyIsIn /\ ReadsAreFresh /\ FloorsAgree

\* Whoever works on a request is alone with it.
Alone(r) == r \in Requests /\ \A q \in Requests : q # r => At(q, "idle")

LEMMA AtWorkIsAlone ==
    ASSUME CalmInv, NEW r \in Requests, ~At(r, "idle")
    PROVE  /\ Alone(r) /\ ~Webhook
           /\ \A u \in Users : token[u] = "none"
BY DEF CalmInv, OneAtATime, Busy, Alone

LEMMA ArrivalIsAlone ==
    ASSUME Prompt, NEW r \in Requests, Arrives(r)
    PROVE  /\ Alone(r) /\ ~Webhook
           /\ \A u \in Users : token[u] = "none"
           /\ \A q \in Requests, u \in Users : ~Telling(q, u)
BY DEF Arrives, Quiet, Alone, Webhook, At, Telling

\* What a request must see to when it goes on to t.
LEMMA TurnIsCalm ==
    ASSUME CalmInv, LiveInv', NEW r \in Requests, Alone(r),
           NEW t \in Tasks, task' = [task EXCEPT ![r] = t],
           t.pc # "idle" \/ Webhook' => \A u \in Users : token'[u] = "none",
           Webhook' => t.pc = "idle" /\ \A u \in Users : room'[u] = "out",
           t.pc \in JoinSteps => session' \notin Over,
           t.pc = "joinUpsert" /\ t.user # Host => (t.canPublish <=> rows'[t.user].canPublish),
           faults' = 0 => \A u \in Users \ {Host} :
               /\ token'[u] # "none" => (token'[u] = "speaker" <=> rows'[u].canPublish)
               /\ room'[u] # "out" =>
                      (room'[u] = "speaker" <=> IF t.pc = "promoteRow" /\ t.user = u
                                                THEN t.canPublish ELSE rows'[u].canPublish)
    PROVE  CalmInv'
<1>1. task'[r] = t /\ \A q \in Requests : q # r => task'[q] = task[q] /\ task'[q].pc = "idle"
    BY DEF CalmInv, LiveInv, TypeOK, Alone, At
<1>2. Busy' = IF t.pc = "idle" THEN {} ELSE {r}
    BY <1>1 DEF Busy, At
<1>3. OneAtATime' /\ NobodyIsIn'
    BY <1>2 DEF OneAtATime, NobodyIsIn
<1>4. ReadsAreFresh'
    BY <1>1 DEF ReadsAreFresh, At, JoinSteps
<1>5. ASSUME NEW u \in Users
      PROVE  HasFloor(u)' <=> IF t.pc = "promoteRow" /\ t.user = u
                              THEN t.canPublish ELSE rows'[u].canPublish
    <2>1. \A q \in Requests : Telling(q, u)' <=> q = r /\ t.pc = "promoteRow" /\ t.user = u
        BY <1>1 DEF Telling, At
    <2> QED
        BY <1>1, <2>1 DEF HasFloor
<1>6. FloorsAgree'
    BY <1>5 DEF FloorsAgree
<1> QED
    BY <1>3, <1>4, <1>6 DEF CalmInv

\* Steps of no request: what they may change.
LEMMA OutsideIsCalm ==
    ASSUME CalmInv, LiveInv', UNCHANGED task,
           \A u \in Users : rows'[u].canPublish = rows[u].canPublish,
           Webhook' => Busy = {} /\ \A u \in Users : room'[u] = "out" /\ token'[u] = "none",
           \A u \in Users : token'[u] \in {token[u], "none"},
           \A u \in Users : \/ room'[u] \in {room[u], "out"}
                            \/ room'[u] = token[u] /\ token[u] # "none" /\ Busy = {},
           Busy = {} \/ UNCHANGED session,
           faults' = 0 => faults = 0
    PROVE  CalmInv'
<1>1. Busy' = Busy
    BY DEF Busy, At
<1>2. OneAtATime' /\ NobodyIsIn'
    BY <1>1 DEF OneAtATime, NobodyIsIn, CalmInv
<1>3. ReadsAreFresh'
    <2> SUFFICES ASSUME NEW r \in Requests
                 PROVE  /\ task[r].pc \in JoinSteps => session' \notin Over
                        /\ At(r, "joinUpsert") /\ task[r].user # Host =>
                               (task[r].canPublish <=> rows'[task[r].user].canPublish)
        BY DEF ReadsAreFresh, At
    <2>1. task[r].pc \in JoinSteps => r \in Busy
        BY DEF Busy, At, JoinSteps
    <2>2. task[r].user \in Users
        BY TaskAt DEF CalmInv
    <2> QED
        BY <2>1, <2>2 DEF CalmInv, ReadsAreFresh
<1>4. ASSUME NEW u \in Users
      PROVE  HasFloor(u)' <=> HasFloor(u)
    BY DEF HasFloor, Telling, At
<1>5. ASSUME NEW u \in Users, Busy = {}
      PROVE  HasFloor(u) <=> rows[u].canPublish
    BY <1>5 DEF HasFloor, Telling, Busy, At
<1>6. FloorsAgree'
    <2> SUFFICES ASSUME faults' = 0, NEW u \in Users \ {Host}
                 PROVE  /\ token'[u] # "none" => (token'[u] = "speaker" <=> rows'[u].canPublish)
                        /\ room'[u] # "out" => (room'[u] = "speaker" <=> HasFloor(u)')
        BY DEF FloorsAgree
    <2>1. /\ token[u] # "none" => (token[u] = "speaker" <=> rows[u].canPublish)
          /\ room[u] # "out" => (room[u] = "speaker" <=> HasFloor(u))
        BY DEF CalmInv, FloorsAgree
    <2>2. token'[u] # "none" => (token'[u] = "speaker" <=> rows'[u].canPublish)
        BY <2>1
    <2>3. CASE room'[u] \in {room[u], "out"}
        BY <2>1, <2>3, <1>4
    <2>4. CASE room'[u] = token[u] /\ Busy = {} /\ token[u] # "none"
        BY <2>1, <2>4, <1>4, <1>5
    <2> QED
        BY <2>2, <2>3, <2>4
<1> QED
    BY <1>2, <1>3, <1>6 DEF CalmInv

-----------------------------------------------------------------------------
(* No step disturbs the calm *)

LEMMA ArrivalIsCalm ==
    ASSUME Prompt, CalmInv, LiveInv', NEW r \in Requests, Arrival(r)
    PROVE  CalmInv'
<1>1. Arrives(r)
    BY DEF Arrival, ArriveJoin, ArrivePromote, EndSession, ArriveCancel
<1>2. /\ Alone(r) /\ ~Webhook
      /\ \A u \in Users : token[u] = "none"
      /\ \A u \in Users : HasFloor(u) <=> rows[u].canPublish
    BY <1>1, ArrivalIsAlone DEF HasFloor
<1>3. UNCHANGED <<rows, token, livekit, hook, faults>>
    BY DEF Arrival, ArriveJoin, ArrivePromote, EndSession, ArriveCancel
<1>4. /\ ~Webhook'
      /\ faults' = 0 => \A u \in Users \ {Host} :
             room'[u] # "out" => (room'[u] = "speaker" <=> rows'[u].canPublish)
    BY <1>2, <1>3 DEF livekit, Webhook, CalmInv, FloorsAgree
<1>5. ASSUME NEW t \in Tasks, task' = [task EXCEPT ![r] = t],
             t.pc \notin {"joinUpsert", "promoteRow"},
             t.pc \in JoinSteps => session' \notin Over
      PROVE  CalmInv'
    BY <1>2, <1>3, <1>4, <1>5, TurnIsCalm
<1>6. ASSUME NEW u \in Users, ArriveJoin(r, u)
      PROVE  CalmInv'
    <2>1. [pc |-> IF u = Host THEN "joinRow" ELSE "joinSeat", user |-> u,
           canPublish |-> FALSE, live |-> GoesLive(u)] \in Tasks
        BY DEF Tasks, JoinSteps, GoesLive
    <2> QED
        BY <1>5, <1>6, <2>1 DEF ArriveJoin, MayJoin
<1>7. ASSUME NEW u \in Users, NEW canPublish \in BOOLEAN, ArrivePromote(r, u, canPublish)
      PROVE  CalmInv'
    <2>1. [pc |-> "promoteLiveKit", user |-> u, canPublish |-> canPublish, live |-> FALSE] \in Tasks
        BY DEF Tasks, PromoteSteps
    <2> QED
        BY <1>5, <1>7, <2>1 DEF ArrivePromote, JoinSteps
<1>8. ASSUME NEW pc \in {"endRoom", "cancel"}, task' = [task EXCEPT ![r] = [Idle EXCEPT !.pc = pc]]
      PROVE  CalmInv'
    <2>1. [Idle EXCEPT !.pc = pc] \in Tasks /\ [Idle EXCEPT !.pc = pc].pc = pc
        BY DEF Tasks, Idle
    <2> QED
        BY <1>5, <1>8, <2>1 DEF JoinSteps
<1> QED
    BY <1>6, <1>7, <1>8 DEF Arrival, EndSession, ArriveCancel

\* A request is done, and nothing it relied on is asked for any more.
LEMMA DoneIsCalm ==
    ASSUME CalmInv, LiveInv', NEW r \in Requests, Alone(r), Done(r),
           Webhook' => \A u \in Users : room'[u] = "out" /\ token'[u] = "none",
           faults' = 0 => \A u \in Users \ {Host} :
               /\ token'[u] # "none" => (token'[u] = "speaker" <=> rows'[u].canPublish)
               /\ room'[u] # "out" => (room'[u] = "speaker" <=> rows'[u].canPublish)
    PROVE  CalmInv'
<1>1. Idle \in Tasks /\ Idle.pc = "idle"
    BY IdleTask DEF Idle
<1> QED
    BY <1>1, TurnIsCalm DEF Done, JoinSteps

\* A request goes on, and nothing but its place changes.
LEMMA GoesOnCalmly ==
    ASSUME CalmInv, LiveInv', NEW r \in Requests, NEW pc \in JoinSteps, ~At(r, "idle"),
           task[r].pc \in JoinSteps, GoTo(r, pc), pc # "joinUpsert",
           UNCHANGED <<session, token, room, finished, hook, faults>>,
           \A u \in Users \ {Host} : rows'[u].canPublish = rows[u].canPublish
    PROVE  CalmInv'
<1> DEFINE t == [task[r] EXCEPT !.pc = pc]
<1>1. t \in Tasks /\ task' = [task EXCEPT ![r] = t] /\ t.pc = pc
    BY GoToTask DEF CalmInv
<1>2. Alone(r) /\ ~Webhook' /\ \A u \in Users : token'[u] = "none"
    BY AtWorkIsAlone DEF Webhook
<1>3. session' \notin Over
    BY DEF CalmInv, ReadsAreFresh
<1>4. \A u \in Users : HasFloor(u) <=> rows[u].canPublish
    BY <1>2 DEF HasFloor, Telling, Alone, At, JoinSteps
<1>5. faults' = 0 => \A u \in Users \ {Host} :
          room'[u] # "out" => (room'[u] = "speaker" <=> rows'[u].canPublish)
    BY <1>4 DEF CalmInv, FloorsAgree
<1> HIDE DEF t
<1> QED
    BY <1>1, <1>2, <1>3, <1>5, TurnIsCalm DEF JoinSteps

\* While a request works on something else than a promote, rows have the last word.
LEMMA RowsDecide ==
    ASSUME CalmInv, NEW r \in Requests, Alone(r), ~At(r, "promoteRow")
    PROVE  /\ \A u \in Users : HasFloor(u) <=> rows[u].canPublish
           /\ faults = 0 => \A u \in Users \ {Host} :
                  room[u] # "out" => (room[u] = "speaker" <=> rows[u].canPublish)
<1>1. \A u \in Users : HasFloor(u) <=> rows[u].canPublish
    BY DEF HasFloor, Telling, Alone, At
<1> QED
    BY <1>1 DEF CalmInv, FloorsAgree

LEMMA RowFloor ==
    ASSUME LiveInv, NEW u \in Users
    PROVE  rows[u].canPublish \in BOOLEAN
<1>1. NoRow.canPublish = FALSE
    BY Zenon DEF NoRow
<1>2. rows[u] \in HostRows \/ rows[u] \in StudentRows \/ rows[u] = NoRow
    BY DEF LiveInv, TypeOK, Rows, HostRows, StudentRows
<1> QED
    BY <1>1, <1>2 DEF HostRows, StudentRows

LEMMA ReadIsCalm ==
    ASSUME CalmInv, LiveInv', NEW r \in Requests, CheckSeat(r) \/ ReadParticipant(r)
    PROVE  CalmInv'
<1>1. /\ Alone(r) /\ ~Webhook
      /\ \A u \in Users : token[u] = "none"
    BY AtWorkIsAlone DEF CheckSeat, ReadParticipant, At
<1>2. /\ UNCHANGED <<session, rows, token, room, finished, hook, faults>>
      /\ ~Webhook'
    BY <1>1 DEF CheckSeat, ReadParticipant, livekit, Webhook
<1>3. faults' = 0 => \A u \in Users \ {Host} :
          room'[u] # "out" => (room'[u] = "speaker" <=> rows'[u].canPublish)
    BY <1>1, <1>2, RowsDecide DEF CheckSeat, ReadParticipant, At
<1>4. CASE CheckSeat(r) /\ HasSeat(task[r].user)
    BY <1>2, <1>4, GoesOnCalmly DEF CheckSeat, At, JoinSteps
<1>5. CASE CheckSeat(r) /\ ~HasSeat(task[r].user)
    BY <1>1, <1>2, <1>3, <1>5, DoneIsCalm DEF CheckSeat
<1>6. CASE ReadParticipant(r)
    <2> DEFINE u == task[r].user
               t == [task[r] EXCEPT !.pc = "joinUpsert", !.canPublish = CanPublish(u)]
    <2>1. task[r] \in Tasks /\ u \in Users
        BY TaskAt DEF CalmInv
    <2>2. t \in Tasks /\ t.pc = "joinUpsert" /\ t.user = u /\ t.canPublish = CanPublish(u)
        BY <2>1 DEF Tasks, JoinSteps, CanPublish, CalmInv, LiveInv, TypeOK, Rows, NoRow
    <2>3. task' = [task EXCEPT ![r] = t]
        BY <1>6, <2>1 DEF ReadParticipant
    <2>4. session' \notin Over
        BY <1>2, <1>6 DEF ReadParticipant, At, CalmInv, ReadsAreFresh, JoinSteps
    <2>5. u # Host => (t.canPublish <=> rows'[u].canPublish)
        BY <1>2, <2>2 DEF CanPublish
    <2> HIDE DEF t, u
    <2> QED
        BY <1>1, <1>2, <1>3, <2>2, <2>3, <2>4, <2>5, TurnIsCalm
<1> QED
    BY <1>4, <1>5, <1>6

\* An answer of a join tells the client what the row has.
LEMMA AnswerIsCalm ==
    ASSUME CalmInv, LiveInv', NEW r \in Requests, ~At(r, "idle"), ~At(r, "promoteRow"),
           Answer(r), UNCHANGED <<room, finished, hook, faults>>,
           \A u \in Users \ {Host} : rows'[u].canPublish = rows[u].canPublish,
           task[r].user # Host => (task[r].canPublish <=> rows[task[r].user].canPublish)
    PROVE  CalmInv'
<1> DEFINE u == task[r].user
<1>1. /\ Alone(r) /\ ~Webhook'
      /\ \A v \in Users : token[v] = "none"
    BY AtWorkIsAlone DEF Webhook
<1>2. u \in Users /\ task[r].canPublish \in BOOLEAN
    BY TaskAt DEF CalmInv
<1>3. u # Host => (FloorOf(u, task[r].canPublish) = "speaker" <=> task[r].canPublish)
    BY <1>2 DEF FloorOf
<1>4. \A v \in Users : token'[v] = IF v = u THEN FloorOf(u, task[r].canPublish) ELSE "none"
    BY <1>1, <1>2 DEF Answer, CalmInv, LiveInv, TypeOK
<1>5. faults' = 0 => \A v \in Users \ {Host} :
          room'[v] # "out" => (room'[v] = "speaker" <=> rows'[v].canPublish)
    BY <1>1, RowsDecide
<1> QED
    BY <1>1, <1>2, <1>3, <1>4, <1>5, DoneIsCalm DEF Answer

LEMMA JoinIsCalm ==
    ASSUME CalmInv, LiveInv', NEW r \in Requests, UpsertParticipant(r) \/ GoLive(r)
    PROVE  CalmInv'
<1> DEFINE u == task[r].user
<1>1. u \in Users /\ (task[r].live \/ At(r, "joinLive") => u = Host)
    BY TaskAt DEF CalmInv, LiveInv, TasksAreTrue, At
<1>2. CASE UpsertParticipant(r)
    <2>1. At(r, "joinUpsert") /\ UNCHANGED <<session, room, finished, hook, faults>>
        BY <1>2 DEF UpsertParticipant, livekit
    <2>2. u # Host => (task[r].canPublish <=> rows[u].canPublish)
        BY <2>1 DEF CalmInv, ReadsAreFresh
    <2>3. \A v \in Users \ {Host} : rows'[v].canPublish = rows[v].canPublish
        <3>1. task[r].canPublish \in BOOLEAN /\ rows[u].canPublish \in BOOLEAN
            BY <1>1, TaskAt, RowFloor DEF CalmInv
        <3>2. \A v \in Users : rows'[v] = IF v = u THEN [role |-> IF u = Host THEN "HOST" ELSE "STUDENT",
                                                         canPublish |-> task[r].canPublish,
                                                         present |-> TRUE] ELSE rows[v]
            BY <1>2, <1>1 DEF UpsertParticipant, CalmInv, LiveInv, TypeOK
        <3>3. u # Host => task[r].canPublish = rows[u].canPublish
            BY <3>1, <2>2
        <3> QED
            BY <3>2, <3>3
    <2>4. CASE task[r].live
        BY <1>2, <2>1, <2>3, <2>4, GoesOnCalmly DEF UpsertParticipant, At, JoinSteps
    <2>5. CASE ~task[r].live
        BY <1>2, <2>1, <2>2, <2>3, <2>5, AnswerIsCalm DEF UpsertParticipant, At
    <2> QED
        BY <2>4, <2>5
<1>3. CASE GoLive(r)
    BY <1>1, <1>3, AnswerIsCalm DEF GoLive, livekit, At
<1> QED
    BY <1>2, <1>3

LEMMA PromoteIsCalm ==
    ASSUME CalmInv, LiveInv', NEW r \in Requests, UpdateLiveKit(r) \/ UpdateParticipant(r)
    PROVE  CalmInv'
<1> DEFINE u == task[r].user
<1>1. /\ Alone(r) /\ ~Webhook
      /\ \A v \in Users : token[v] = "none"
    BY AtWorkIsAlone DEF UpdateLiveKit, UpdateParticipant, At
<1>2. u \in Users /\ task[r].canPublish \in BOOLEAN /\ task[r] \in Tasks
    BY TaskAt DEF CalmInv
<1>3. CASE UpdateLiveKit(r)
    <2> DEFINE t == [task[r] EXCEPT !.pc = "promoteRow"]
    <2>1. /\ t \in Tasks /\ task' = [task EXCEPT ![r] = t]
          /\ t.pc = "promoteRow" /\ t.user = u /\ t.canPublish = task[r].canPublish
        BY <1>3, GoToTask DEF UpdateLiveKit, PromoteSteps, CalmInv
    <2>2. UNCHANGED <<session, rows, token, finished, hook>> /\ ~Webhook'
        BY <1>1, <1>3 DEF UpdateLiveKit, Webhook
    <2>3. faults = 0 => \A v \in Users \ {Host} :
              room[v] # "out" => (room[v] = "speaker" <=> rows[v].canPublish)
        BY <1>1, <1>3, RowsDecide DEF UpdateLiveKit, At
    <2>4. CASE room' = Updated(u, task[r].canPublish) /\ UNCHANGED faults
        <3>1. \A v \in Users : room'[v] = IF v = u /\ room[u] # "out"
                                         THEN IF task[r].canPublish THEN "speaker" ELSE "listener"
                                         ELSE room[v]
            BY <1>2, <2>4 DEF Updated, CalmInv, LiveInv, TypeOK
        <3>2. faults' = 0 => \A v \in Users \ {Host} :
                  room'[v] # "out" =>
                      (room'[v] = "speaker" <=> IF v = u THEN task[r].canPublish ELSE rows'[v].canPublish)
            BY <2>2, <2>3, <2>4, <3>1
        <3> HIDE DEF t, u
        <3> QED
            BY <1>1, <2>1, <2>2, <3>2, TurnIsCalm DEF JoinSteps
    <2>5. CASE Fault("liveKitDown")
        <3>1. faults' # 0
            BY <2>5 DEF Fault, CalmInv, LiveInv, TypeOK
        <3> HIDE DEF t, u
        <3> QED
            BY <1>1, <2>1, <2>2, <3>1, TurnIsCalm DEF JoinSteps
    <2> QED
        BY <1>3, <2>4, <2>5 DEF UpdateLiveKit
<1>4. CASE UpdateParticipant(r)
    <2>1. At(r, "promoteRow") /\ Done(r) /\ UNCHANGED <<token, room, finished, hook, faults>>
        BY <1>4 DEF UpdateParticipant, livekit
    <2>2. \A v \in Users : rows'[v].canPublish = IF v = u THEN task[r].canPublish ELSE rows[v].canPublish
        <3>1. rows[u] \in Rows
            BY <1>2, <2>1 DEF CalmInv, LiveInv, TypeOK, TasksAreTrue, At, PromoteSteps
        <3> DEFINE new == [rows[u] EXCEPT !.canPublish = task[r].canPublish,
                                          !.role = IF task[r].canPublish THEN "CO_HOST" ELSE "STUDENT"]
        <3>2. new.canPublish = task[r].canPublish
            BY <1>2, <3>1, PromotedRow
        <3>3. rows' = [rows EXCEPT ![u] = new]
            BY <1>2, <1>4 DEF UpdateParticipant, CalmInv, LiveInv, TypeOK
        <3> HIDE DEF new
        <3> QED
            BY <1>2, <3>2, <3>3 DEF CalmInv, LiveInv, TypeOK
    <2>3. \A v \in Users : HasFloor(v) <=> rows'[v].canPublish
        BY <1>1, <2>1, <2>2 DEF HasFloor, Telling, Alone, At
    <2> QED
        BY <1>1, <2>1, <2>3, DoneIsCalm DEF CalmInv, FloorsAgree, Webhook
<1> QED
    BY <1>3, <1>4

LEMMA EndIsCalm ==
    ASSUME CalmInv, LiveInv', NEW r \in Requests, DeleteRoom(r) \/ CancelSession(r) \/ Crash(r)
    PROVE  CalmInv'
<1>1. /\ Alone(r) /\ ~Webhook
      /\ \A u \in Users : token'[u] = "none"
    BY AtWorkIsAlone DEF DeleteRoom, CancelSession, Crash, At
<1>2. CASE Fault("liveKitDown") \/ Crash(r)
    <2>1. faults' # 0
        BY <1>2 DEF Crash, Fault, CalmInv, LiveInv, TypeOK
    <2> QED
        BY <1>1, <1>2, <2>1, DoneIsCalm DEF DeleteRoom, CancelSession, Crash, Webhook, livekit
<1>3. CASE DeleteRoom(r) /\ room' = [u \in Users |-> "out"]
    BY <1>1, <1>3, DoneIsCalm DEF DeleteRoom
<1>4. CASE CancelSession(r)
    BY <1>1, <1>4, RowsDecide, DoneIsCalm DEF CancelSession, Webhook, livekit, At
<1> QED
    BY <1>2, <1>3, <1>4 DEF DeleteRoom

LEMMA WebhookIsCalm ==
    ASSUME Prompt, CalmInv, LiveInv',
           CancelClassroom \/ ReadFinished \/ FinishSession \/ FailFinish \/ RoomCloses
    PROVE  CalmInv'
<1>1. \A u \in Users : rows'[u].canPublish = rows[u].canPublish
    <2>1. CASE FinishSession
        BY <2>1, LeftRow DEF FinishSession, CalmInv, LiveInv, TypeOK
    <2>2. CASE UNCHANGED rows
        BY <2>2
    <2> QED
        BY <2>1, <2>2 DEF CancelClassroom, ReadFinished, FailFinish, RoomCloses
<1>2. Busy = {} /\ \A u \in Users : token[u] = "none"
    <2>1. CASE Quiet
        BY <2>1 DEF Quiet, Busy
    <2>2. CASE Webhook
        BY <2>2 DEF CalmInv, OneAtATime
    <2> QED
        BY <2>1, <2>2 DEF CancelClassroom, ReadFinished, FinishSession, FailFinish, RoomCloses, Webhook
<1>3. Webhook' => \A u \in Users : room'[u] = "out"
    BY DEF CancelClassroom, ReadFinished, FinishSession, FailFinish, RoomCloses, Webhook, CalmInv,
           NobodyIsIn, livekit
<1>4. UNCHANGED <<task, token, room>> /\ (faults' = 0 => faults = 0)
    BY DEF CancelClassroom, ReadFinished, FinishSession, FailFinish, RoomCloses, Fault, livekit,
           CalmInv, LiveInv, TypeOK
<1> QED
    BY <1>1, <1>2, <1>3, <1>4, OutsideIsCalm

LEMMA ClientIsCalm ==
    ASSUME CalmInv, LiveInv', NEW u \in Users, Client(u)
    PROVE  CalmInv'
<1>1. UNCHANGED <<session, rows, finished, hook, task, faults>> /\ (Webhook' <=> Webhook)
    BY DEF Client, Enrol, Connect, DropToken, Leave, livekit, Webhook
<1>2. /\ \A v \in Users : token'[v] \in {token[v], "none"}
      /\ \A v \in Users : \/ room'[v] \in {room[v], "out"}
                          \/ room'[v] = token[v] /\ token[v] # "none" /\ Busy = {}
    <2>1. token[u] # "none" => Busy = {}
        BY DEF CalmInv, OneAtATime
    <2>2. CASE Enrol(u)
        BY <2>2 DEF Enrol, livekit
    <2>3. CASE Connect(u)
        BY <2>1, <2>3 DEF Connect, CalmInv, LiveInv, TypeOK
    <2>4. CASE DropToken(u)
        BY <2>4 DEF DropToken, livekit, CalmInv, LiveInv, TypeOK
    <2>5. CASE Leave(u)
        BY <2>5 DEF Leave, CalmInv, LiveInv, TypeOK
    <2> QED
        BY <2>2, <2>3, <2>4, <2>5 DEF Client
<1>3. Webhook' => Busy = {} /\ \A v \in Users : room'[v] = "out" /\ token'[v] = "none"
    BY <1>1, <1>2 DEF CalmInv, OneAtATime, NobodyIsIn
<1> QED
    BY <1>1, <1>2, <1>3, OutsideIsCalm

LEMMA CalmInitial == Init => CalmInv
<1> SUFFICES ASSUME Init PROVE CalmInv
    OBVIOUS
<1>1. \A r \in Requests : task[r].pc = "idle"
    BY DEF Init, Idle
<1>2. OneAtATime /\ NobodyIsIn
    BY <1>1 DEF Init, OneAtATime, NobodyIsIn, Busy, Webhook, At
<1>3. ReadsAreFresh /\ FloorsAgree
    BY <1>1 DEF Init, ReadsAreFresh, FloorsAgree, At, JoinSteps
<1> QED
    BY <1>2, <1>3, LiveInvInitial DEF CalmInv

LEMMA CalmInductive ==
    ASSUME Prompt
    PROVE  CalmInv /\ [Next]_vars => CalmInv'
<1> SUFFICES ASSUME CalmInv, [Next]_vars PROVE CalmInv'
    OBVIOUS
<1>1. LiveInv'
    BY LiveInvInductive DEF CalmInv
<1>2. ASSUME NEW r \in Requests, Arrival(r) \/ Crash(r) PROVE CalmInv'
    BY <1>1, <1>2, ArrivalIsCalm, EndIsCalm
<1>3. ASSUME NEW r \in Requests, HandlerStep(r) PROVE CalmInv'
    BY <1>1, <1>3, ReadIsCalm, JoinIsCalm, PromoteIsCalm, EndIsCalm DEF HandlerStep
<1>4. ASSUME NEW u \in Users, Client(u) PROVE CalmInv'
    BY <1>1, <1>4, ClientIsCalm
<1>5. CASE CancelClassroom \/ ReadFinished \/ FinishSession \/ FailFinish \/ RoomCloses
    BY <1>1, <1>5, WebhookIsCalm
<1>6. CASE UNCHANGED vars
    BY <1>1, <1>6, OutsideIsCalm DEF vars, CalmInv, OneAtATime, NobodyIsIn, Webhook
<1> QED
    BY <1>2, <1>3, <1>4, <1>5, <1>6 DEF Next

-----------------------------------------------------------------------------
(* What is promised when requests come one at a time *)

\* A session that is over stays over, and nobody is given a token for it any more
\* (LiveService.joinToken), when a request comes once the one before is done.
THEOREM WhatIsOverStaysOver ==
    ASSUME Prompt
    PROVE  Spec => OverIsFinal
<1>1. ASSUME CalmInv, [Next]_vars, session \in Over
      PROVE  session' \in Over /\ \A u \in Users : token'[u] \in {token[u], "none"}
    <2> USE <1>1
    <2>1. ASSUME NEW r \in Requests
          PROVE  task[r].pc \notin JoinSteps
        BY DEF CalmInv, ReadsAreFresh
    <2>2. ASSUME NEW r \in Requests, Arrival(r) \/ HandlerStep(r) \/ Crash(r)
          PROVE  session' \in Over /\ UNCHANGED token
        BY <2>1, <2>2 DEF Arrival, ArriveJoin, ArrivePromote, EndSession, ArriveCancel,
           HandlerStep, CheckSeat, ReadParticipant, UpsertParticipant, GoLive, UpdateLiveKit,
           UpdateParticipant, DeleteRoom, CancelSession, Crash, At, JoinSteps, Over
    <2>3. ASSUME NEW u \in Users, Client(u)
          PROVE  UNCHANGED session /\ \A v \in Users : token'[v] \in {token[v], "none"}
        BY <2>3 DEF Client, Enrol, Connect, DropToken, Leave, CalmInv, LiveInv, TypeOK
    <2>4. CASE CancelClassroom \/ ReadFinished \/ FinishSession \/ FailFinish \/ RoomCloses
        BY <2>4 DEF CancelClassroom, ReadFinished, FinishSession, FailFinish, RoomCloses, Over
    <2>5. CASE UNCHANGED vars
        BY <2>5 DEF vars
    <2> QED
        BY <2>2, <2>3, <2>4, <2>5 DEF Next
<1> QED
    BY CalmInitial, CalmInductive, <1>1, PTL DEF Spec, OverIsFinal

\* A student's row changes as a promote said and not by a reconnect, and LiveKit
\* agrees with the row once nothing is under way (LiveService.promote and the
\* upsert of LiveService.joinToken), when a request comes once the one before is
\* done; LiveKit as long as nothing fails.
THEOREM TheFloorIsKept ==
    ASSUME Prompt
    PROVE  Spec => FloorIsKept
<1>1. CalmInv => FloorIsHeard
    <2> SUFFICES ASSUME CalmInv, Quiet, faults = 0, NEW u \in Users \ {Host}, room[u] # "out"
                 PROVE  room[u] = "speaker" <=> rows[u].canPublish
        BY DEF FloorIsHeard
    <2>1. HasFloor(u) <=> rows[u].canPublish
        BY DEF HasFloor, Telling, Quiet, At
    <2> QED
        BY <2>1 DEF CalmInv, FloorsAgree
<1>2. ASSUME CalmInv, [Next]_vars
      PROVE  FloorIsTheHosts
    <2> SUFFICES ASSUME NEW u \in Users \ {Host}, rows'[u].canPublish # rows[u].canPublish
                 PROVE  \E r \in Requests : /\ At(r, "promoteRow") /\ task[r].user = u
                                            /\ task[r].canPublish = rows'[u].canPublish
        BY DEF FloorIsTheHosts
    <2> USE <1>2
    <2>1. ~UNCHANGED rows
        OBVIOUS
    <2>2. ~FinishSession
        <3>1. rows[u] \in Rows \cup {NoRow}
            BY DEF CalmInv, LiveInv, TypeOK
        <3>2. [rows[u] EXCEPT !.present = FALSE].canPublish = rows[u].canPublish
            BY <3>1, LeftRow
        <3> QED
            BY <3>2 DEF FinishSession
    <2>3. PICK r \in Requests : UpsertParticipant(r) \/ UpdateParticipant(r)
        BY <2>1, <2>2 DEF Next, vars, Arrival, ArriveJoin, ArrivePromote, EndSession, ArriveCancel,
           HandlerStep, CheckSeat, ReadParticipant, GoLive, UpdateLiveKit, DeleteRoom,
           CancelSession, Crash, Client, Enrol, Connect, DropToken, Leave, CancelClassroom,
           ReadFinished, FailFinish, RoomCloses
    <2>4. task[r].user = u
        BY <2>3, TaskAt DEF UpsertParticipant, UpdateParticipant, CalmInv, LiveInv, TypeOK
    <2>5. ~UpsertParticipant(r)
        <3> SUFFICES ASSUME UpsertParticipant(r) PROVE FALSE
            OBVIOUS
        <3>1. task[r].canPublish \in BOOLEAN /\ rows[u].canPublish \in BOOLEAN
            BY TaskAt, RowFloor DEF CalmInv
        <3>2. task[r].canPublish <=> rows[u].canPublish
            BY <2>4 DEF UpsertParticipant, CalmInv, ReadsAreFresh
        <3>3. rows'[u].canPublish = task[r].canPublish
            BY <2>4 DEF UpsertParticipant, CalmInv, LiveInv, TypeOK
        <3> QED
            BY <3>1, <3>2, <3>3
    <2>6. At(r, "promoteRow")
        BY <2>3, <2>5 DEF UpdateParticipant
    <2>7. rows[u] \in Rows
        BY <2>4, <2>6 DEF CalmInv, LiveInv, TypeOK, TasksAreTrue, At, PromoteSteps
    <2> DEFINE new == [rows[u] EXCEPT !.canPublish = task[r].canPublish,
                                      !.role = IF task[r].canPublish THEN "CO_HOST" ELSE "STUDENT"]
    <2>8. new.canPublish = task[r].canPublish
        BY <2>7, TaskAt, PromotedRow DEF CalmInv
    <2>9. rows' = [rows EXCEPT ![u] = new]
        BY <2>3, <2>4, <2>5 DEF UpdateParticipant, CalmInv, LiveInv, TypeOK
    <2> HIDE DEF new
    <2> QED
        BY <2>4, <2>6, <2>8, <2>9 DEF CalmInv, LiveInv, TypeOK
<1> QED
    BY CalmInitial, CalmInductive, <1>1, <1>2, PTL DEF Spec, FloorIsKept

\* Nobody is written down as gone who is in the room (LiveService.handleRoomFinished),
\* when LiveKit says that the room finished while nothing else is under way.
THEOREM WhoIsGoneHasLeft ==
    ASSUME Prompt
    PROVE  Spec => GoneAreGone
<1>1. ASSUME CalmInv, [Next]_vars, NEW u \in Users, rows[u].present, ~rows'[u].present
      PROVE  room[u] = "out"
    <2> USE <1>1
    <2>1. ASSUME NEW r \in Requests, UpsertParticipant(r) PROVE FALSE
        BY <2>1, TaskAt DEF UpsertParticipant, CalmInv, LiveInv, TypeOK
    <2>2. ASSUME NEW r \in Requests, UpdateParticipant(r) PROVE FALSE
        <3>1. rows[task[r].user] \in Rows /\ task[r].user \in Users
            BY <2>2, TaskAt DEF UpdateParticipant, CalmInv, LiveInv, TypeOK, TasksAreTrue, At,
               PromoteSteps
        <3>2. rows'[u].present = rows[u].present
            BY <2>2, <3>1 DEF UpdateParticipant, CalmInv, LiveInv, TypeOK, Rows
        <3> QED
            BY <3>2
    <2>3. FinishSession
        BY <2>1, <2>2 DEF Next, vars, Arrival, ArriveJoin, ArrivePromote, EndSession, ArriveCancel,
           HandlerStep, CheckSeat, ReadParticipant, GoLive, UpdateLiveKit, DeleteRoom,
           CancelSession, Crash, Client, Enrol, Connect, DropToken, Leave, CancelClassroom,
           ReadFinished, FailFinish, RoomCloses
    <2> QED
        BY <2>3 DEF FinishSession, CalmInv, NobodyIsIn, Webhook
<1>2. CalmInv /\ [Next]_vars
      => (\A u \in Users : rows[u].present /\ ~rows'[u].present => room[u] = "out")
    BY <1>1
<1> QED
    BY CalmInitial, CalmInductive, <1>2, PTL DEF Spec, GoneAreGone

====
