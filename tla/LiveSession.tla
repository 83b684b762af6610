---- MODULE LiveSession ----
(***************************************************************************)
(* One live session: joining, promoting, ending and cancelling it          *)
(* (apps/api/src/live/live.service.ts, classrooms/sessions.service.ts) and *)
(* the LiveKit room behind it.  Handlers interleave at every await that    *)
(* reads or writes what another one changes.                               *)
(***************************************************************************)
EXTENDS Naturals, FiniteSets

CONSTANTS
    Users,
    Host,       \* the user who owns the class
    Enrolled,   \* users with an ACTIVE seat from the start
    Requests,   \* HTTP requests
    Prompt,     \* whether everything under way is done before a request comes
    Faults,     \* which kinds of failure happen, see FaultKinds
    MaxFaults   \* bound on how many of them happen in a behaviour

(* crash        a request dies before its next statement                    *)
(* liveKitDown  a call of LiveKit's room service fails                      *)
FaultKinds == {"crash", "liveKitDown"}

ASSUME LiveAssumption ==
    /\ Host \in Users
    /\ Enrolled \subseteq Users \ {Host}
    /\ Prompt \in BOOLEAN
    /\ Faults \subseteq FaultKinds
    /\ MaxFaults \in Nat

VARIABLES
    session,    \* the status of the session
    seats,      \* users with an ACTIVE seat
    rows,       \* the ClassParticipant row of each user
    token,      \* what the latest unused join token of each user allows
    room,       \* who is connected, and what LiveKit lets them publish
    roomOpen,   \* whether the room exists in LiveKit
    finished,   \* whether a room_finished webhook is under way
    hook,       \* what the handler of room_finished is doing
    task,       \* what each request is doing
    granted,    \* history: the students the host ever gave the floor
    faults      \* failures so far

vars == <<session, seats, rows, token, room, roomOpen, finished, hook, task,
          granted, faults>>

livekit == <<room, roomOpen, finished>>

Over == {"ENDED", "CANCELLED"}

\* What a participant may publish: nothing, camera and microphone, or those and
\* the screen.
Floors == {"listener", "speaker", "presenter"}

NoRow == [role |-> "NONE", canPublish |-> FALSE, present |-> FALSE]

\* present: leftAt is null
Rows == [role : {"HOST", "CO_HOST"}, canPublish : {TRUE}, present : BOOLEAN]
        \cup [role : {"STUDENT"}, canPublish : BOOLEAN, present : BOOLEAN]

JoinSteps == {"joinSeat", "joinRow", "joinUpsert", "joinLive"}

PromoteSteps == {"promoteLiveKit", "promoteRow"}

\* user: whom the request is about; canPublish: what it is about to write;
\* live: whether it takes the session live.
Tasks == [pc : {"idle", "endRoom", "cancel"} \cup JoinSteps \cup PromoteSteps,
          user : Users, canPublish : BOOLEAN, live : BOOLEAN]

Idle == [pc |-> "idle", user |-> Host, canPublish |-> FALSE, live |-> FALSE]

TypeOK ==
    /\ session \in {"SCHEDULED", "LIVE"} \cup Over
    /\ seats \in SUBSET Users
    /\ rows \in [Users -> Rows \cup {NoRow}]
    /\ token \in [Users -> {"none"} \cup Floors]
    /\ room \in [Users -> {"out"} \cup Floors]
    /\ roomOpen \in BOOLEAN
    /\ finished \in BOOLEAN
    /\ hook \in {"idle", "finish"}
    /\ task \in [Requests -> Tasks]
    /\ granted \in SUBSET Users
    /\ faults \in 0..MaxFaults

Init ==
    /\ session = "SCHEDULED"
    /\ seats = Enrolled
    /\ rows = [u \in Users |-> NoRow]
    /\ token = [u \in Users |-> "none"]
    /\ room = [u \in Users |-> "out"]
    /\ roomOpen = FALSE
    /\ finished = FALSE
    /\ hook = "idle"
    /\ task = [r \in Requests |-> Idle]
    /\ granted = {}
    /\ faults = 0

-----------------------------------------------------------------------------
(* Helpers *)

At(r, pc) == task[r].pc = pc

GoTo(r, pc) == task' = [task EXCEPT ![r].pc = pc]

Done(r) == task' = [task EXCEPT ![r] = Idle]

\* Nothing is under way.
Quiet ==
    /\ \A r \in Requests : At(r, "idle")
    /\ \A u \in Users : token[u] = "none"
    /\ ~finished
    /\ hook = "idle"

\* A request comes in.
Arrives(r) == At(r, "idle") /\ (Prompt => Quiet)

Fault(kind) ==
    /\ kind \in Faults
    /\ faults < MaxFaults
    /\ faults' = faults + 1

-----------------------------------------------------------------------------
(* joinToken *)

\* Mutant of MayJoin: only a session that has ended is over.
MayJoinUnlessEnded == session # "ENDED"

MayJoin == session \notin Over

\* Mutant of GoesLive: the first to arrive opens the session.
GoesLiveForAnyone(u) == u \in Users /\ session = "SCHEDULED"

\* The host's arrival takes a scheduled session live.
GoesLive(u) == u = Host /\ session = "SCHEDULED"

ArriveJoin(r, u) ==
    /\ Arrives(r)
    /\ MayJoin
    /\ task' = [task EXCEPT ![r] = [pc |-> IF u = Host THEN "joinRow" ELSE "joinSeat", user |-> u,
                                   canPublish |-> FALSE, live |-> GoesLive(u)]]
    /\ UNCHANGED <<session, seats, rows, token, livekit, hook, granted, faults>>

\* Mutant of HasSeat: anyone may come in.
AnyoneHasSeat(u) == u \in Users

HasSeat(u) == u \in seats

CheckSeat(r) ==
    /\ At(r, "joinSeat")
    /\ IF HasSeat(task[r].user) THEN GoTo(r, "joinRow") ELSE Done(r)
    /\ UNCHANGED <<session, seats, rows, token, livekit, hook, granted, faults>>

\* Mutant of CanPublish: the row alone says who may speak.
CanPublishByRow(u) == rows[u].canPublish

\* Mutant of CanPublish: whoever came before may speak.
CanPublishOnReturn(u) == u = Host \/ rows[u] # NoRow

\* A speaker keeps the floor across a reconnect.
CanPublish(u) == u = Host \/ rows[u].canPublish

ReadParticipant(r) ==
    /\ At(r, "joinRow")
    /\ task' = [task EXCEPT ![r].pc = "joinUpsert", ![r].canPublish = CanPublish(task[r].user)]
    /\ UNCHANGED <<session, seats, rows, token, livekit, hook, granted, faults>>

\* What a token grants: the screen is the host's alone.
FloorOf(u, canPublish) ==
    IF ~canPublish THEN "listener" ELSE IF u = Host THEN "presenter" ELSE "speaker"

\* The answer carries the token; what is read after the last write changes nothing.
Answer(r) ==
    LET u == task[r].user IN
    /\ token' = [token EXCEPT ![u] = FloorOf(u, task[r].canPublish)]
    /\ Done(r)

UpsertParticipant(r) ==
    LET u == task[r].user IN
    /\ At(r, "joinUpsert")
    /\ rows' = [rows EXCEPT ![u] = [role |-> IF u = Host THEN "HOST" ELSE "STUDENT",
                                    canPublish |-> task[r].canPublish, present |-> TRUE]]
    /\ IF task[r].live THEN GoTo(r, "joinLive") /\ UNCHANGED token ELSE Answer(r)
    /\ UNCHANGED <<session, seats, livekit, hook, granted, faults>>

GoLive(r) ==
    /\ At(r, "joinLive")
    /\ session' = "LIVE"
    /\ Answer(r)
    /\ UNCHANGED <<seats, rows, livekit, hook, granted, faults>>

-----------------------------------------------------------------------------
(* promote: the host gives the floor to a participant or takes it back *)

\* Rows are never deleted, so finding the row and the arrival are one step.
ArrivePromote(r, u, canPublish) ==
    /\ Arrives(r)
    /\ rows[u] # NoRow
    /\ task' = [task EXCEPT ![r] = [pc |-> "promoteLiveKit", user |-> u,
                                   canPublish |-> canPublish, live |-> FALSE]]
    /\ granted' = IF canPublish /\ u # Host THEN granted \cup {u} ELSE granted
    /\ UNCHANGED <<session, seats, rows, token, livekit, hook, faults>>

\* Mutant of Updated: a participant gets the floor at once, and loses it at the
\* next reconnect.
UpdatedOnGrant(u, canPublish) ==
    IF canPublish /\ room[u] # "out" THEN [room EXCEPT ![u] = "speaker"] ELSE room

\* updateParticipant: nobody is given the screen; who has dropped is not found.
Updated(u, canPublish) ==
    IF room[u] = "out" THEN room
    ELSE [room EXCEPT ![u] = IF canPublish THEN "speaker" ELSE "listener"]

\* The update may fail, which does not matter to the handler.
UpdateLiveKit(r) ==
    /\ At(r, "promoteLiveKit")
    /\ \/ room' = Updated(task[r].user, task[r].canPublish) /\ UNCHANGED faults
       \/ Fault("liveKitDown") /\ UNCHANGED room
    /\ GoTo(r, "promoteRow")
    /\ UNCHANGED <<session, seats, rows, token, roomOpen, finished, hook, granted>>

UpdateParticipant(r) ==
    LET u == task[r].user IN
    /\ At(r, "promoteRow")
    /\ rows' = [rows EXCEPT ![u].canPublish = task[r].canPublish,
                            ![u].role = IF task[r].canPublish THEN "CO_HOST" ELSE "STUDENT"]
    /\ Done(r)
    /\ UNCHANGED <<session, seats, token, livekit, hook, granted, faults>>

-----------------------------------------------------------------------------
(* end and cancel *)

\* end: whatever the status is, it becomes ENDED.
EndSession(r) ==
    /\ Arrives(r)
    /\ session' = "ENDED"
    /\ task' = [task EXCEPT ![r] = [Idle EXCEPT !.pc = "endRoom"]]
    /\ UNCHANGED <<seats, rows, token, livekit, hook, granted, faults>>

\* deleteRoom: everyone is sent out; its failure does not matter to the handler.
DeleteRoom(r) ==
    /\ At(r, "endRoom")
    /\ \/ /\ room' = [u \in Users |-> "out"]
          /\ roomOpen' = FALSE
          /\ finished' = (finished \/ roomOpen)
          /\ UNCHANGED faults
       \/ Fault("liveKitDown") /\ UNCHANGED livekit
    /\ Done(r)
    /\ UNCHANGED <<session, seats, rows, token, hook, granted>>

\* Cancelling one session: only one that has ended is refused.
ArriveCancel(r) ==
    /\ Arrives(r)
    /\ session # "ENDED"
    /\ task' = [task EXCEPT ![r] = [Idle EXCEPT !.pc = "cancel"]]
    /\ UNCHANGED <<session, seats, rows, token, livekit, hook, granted, faults>>

CancelSession(r) ==
    /\ At(r, "cancel")
    /\ session' = "CANCELLED"
    /\ Done(r)
    /\ UNCHANGED <<seats, rows, token, livekit, hook, granted, faults>>

\* Cancelling the class takes its scheduled sessions with it, in one statement.
CancelClassroom ==
    /\ session = "SCHEDULED"
    /\ Prompt => Quiet
    /\ session' = "CANCELLED"
    /\ UNCHANGED <<seats, rows, token, livekit, hook, task, granted, faults>>

\* A request dies, or its statement fails.
Crash(r) ==
    /\ ~At(r, "idle")
    /\ Fault("crash")
    /\ Done(r)
    /\ UNCHANGED <<session, seats, rows, token, livekit, hook, granted>>

\* A payment or an invitation gives a user a seat; no operation takes one away.
Enrol(u) ==
    /\ u \in Users \ (seats \cup {Host})
    /\ seats' = seats \cup {u}
    /\ UNCHANGED <<session, rows, token, livekit, hook, task, granted, faults>>

-----------------------------------------------------------------------------
(* handleRoomFinished *)

\* Mutant of StillOpen: a session that is not live has nothing to end.
StillOpenWhenLive == session = "LIVE"

StillOpen == session # "ENDED"

\* The webhook may come again.
ReadFinished ==
    /\ finished
    /\ hook = "idle"
    /\ hook' = IF StillOpen THEN "finish" ELSE "idle"
    /\ finished' = FALSE \/ (~Prompt /\ finished' = TRUE)
    /\ UNCHANGED <<session, seats, rows, token, room, roomOpen, task, granted, faults>>

\* One transaction: the session ends and whoever is present has left.
FinishSession ==
    /\ hook = "finish"
    /\ session' = "ENDED"
    /\ rows' = [u \in Users |-> [rows[u] EXCEPT !.present = FALSE]]
    /\ hook' = "idle"
    /\ UNCHANGED <<seats, token, livekit, task, granted, faults>>

\* The handler fails before it wrote; LiveKit posts the webhook again.
FailFinish ==
    /\ hook = "finish"
    /\ Fault("crash")
    /\ hook' = "idle"
    /\ finished' = TRUE
    /\ UNCHANGED <<session, seats, rows, token, room, roomOpen, task, granted>>

-----------------------------------------------------------------------------
(* The participants' clients and LiveKit *)

\* A client connects, or reconnects; LiveKit opens the room if there is none.
Connect(u) ==
    /\ token[u] # "none"
    /\ room' = [room EXCEPT ![u] = token[u]]
    /\ roomOpen' = TRUE
    /\ token' = [token EXCEPT ![u] = "none"]
    /\ UNCHANGED <<session, seats, rows, finished, hook, task, granted, faults>>

\* A token is dropped or expires.
DropToken(u) ==
    /\ token[u] # "none"
    /\ token' = [token EXCEPT ![u] = "none"]
    /\ UNCHANGED <<session, seats, rows, livekit, hook, task, granted, faults>>

Leave(u) ==
    /\ room[u] # "out"
    /\ room' = [room EXCEPT ![u] = "out"]
    /\ UNCHANGED <<session, seats, rows, token, roomOpen, finished, hook, task, granted, faults>>

\* A room nobody is in closes after a while, and LiveKit says so.
RoomCloses ==
    /\ roomOpen
    /\ Prompt => Quiet
    /\ \A u \in Users : room[u] = "out"
    /\ roomOpen' = FALSE
    /\ finished' = TRUE
    /\ UNCHANGED <<session, seats, rows, token, room, hook, task, granted, faults>>

-----------------------------------------------------------------------------
HandlerStep(r) ==
    \/ CheckSeat(r)
    \/ ReadParticipant(r)
    \/ UpsertParticipant(r)
    \/ GoLive(r)
    \/ UpdateLiveKit(r)
    \/ UpdateParticipant(r)
    \/ DeleteRoom(r)
    \/ CancelSession(r)

Arrival(r) ==
    \/ \E u \in Users : ArriveJoin(r, u)
    \/ \E u \in Users : \E canPublish \in BOOLEAN : ArrivePromote(r, u, canPublish)
    \/ EndSession(r)
    \/ ArriveCancel(r)

Client(u) == Enrol(u) \/ Connect(u) \/ DropToken(u) \/ Leave(u)

Next ==
    \/ \E r \in Requests : Arrival(r) \/ HandlerStep(r) \/ Crash(r)
    \/ \E u \in Users : Client(u)
    \/ CancelClassroom
    \/ ReadFinished
    \/ FinishSession
    \/ FailFinish
    \/ RoomCloses

Spec == Init /\ [][Next]_vars

\* Handlers that have started go on, LiveKit closes a room nobody is in and
\* delivers its webhook.  Nothing is assumed of the users.
Fairness ==
    /\ \A r \in Requests : WF_vars(HandlerStep(r))
    /\ WF_vars(ReadFinished)
    /\ WF_vars(FinishSession)
    /\ WF_vars(RoomCloses)

FairSpec == Spec /\ Fairness

-----------------------------------------------------------------------------
(* Properties *)

\* Only the host and users with an ACTIVE seat hold a token or are in the room
\* (live.service.ts:115-116), and each of them is on the attendance record
\* (schema.prisma:366), which is written before the token is handed out.
Admitted ==
    \A u \in Users : token[u] # "none" \/ room[u] # "out" =>
        /\ u = Host \/ u \in seats
        /\ rows[u] # NoRow

\* Nobody but the host can publish, or has a token or a row that says so, unless
\* the host once gave them the floor; the screen is the host's alone, whatever
\* the host grants (live.service.ts:176-178, 267-269).
SpeakersWereGranted ==
    \A u \in Users \ {Host} :
        /\ "presenter" \notin {token[u], room[u]}
        /\ token[u] = "speaker" \/ room[u] = "speaker" \/ rows[u].canPublish => u \in granted

\* A session goes live through its host only (live.service.ts:188-189).
LiveThroughHost == session = "LIVE" => rows[Host] # NoRow

\* A session that is over stays over, and nobody is given a token for it any more
\* (live.service.ts:131-133).
OverIsFinal ==
    [][(session \in Over) =>
          (session' \in Over /\ \A u \in Users : token'[u] \in {token[u], "none"})]_vars

\* A session that is over is never taken live again (live.service.ts:131-133).
OverStaysOver == [][(session \in Over) => (session' \in Over)]_vars

\* Only the host changes who has the floor: a student's row changes as a promote
\* said, not because somebody reconnects (live.service.ts:160-161).
FloorIsTheHosts ==
    \A u \in Users \ {Host} :
        rows'[u].canPublish # rows[u].canPublish =>
            \E r \in Requests : /\ At(r, "promoteRow") /\ task[r].user = u
                                /\ task[r].canPublish = rows'[u].canPublish

\* LiveKit and the row agree on who may speak once every request is done, unless
\* one of them died or LiveKit refused (live.service.ts:236-238).
FloorIsHeard ==
    Quiet /\ faults = 0 => \A u \in Users \ {Host} :
        room[u] # "out" => (room[u] = "speaker" <=> rows[u].canPublish)

\* Nobody is written down as gone who is in the room: room_finished says that
\* everyone left (live.service.ts:413-414).
GoneAreGone ==
    [][\A u \in Users : rows[u].present /\ ~rows'[u].present => room[u] = "out"]_vars

\* A session whose room finished comes to its end (live.service.ts:413).
FinishedIsEnded == finished ~> session = "ENDED"

\* Who has the floor: the row moves with the host's word alone, LiveKit with the row.
FloorIsKept == [][FloorIsTheHosts /\ FloorIsHeard']_vars

\* What room_finished does is true: everyone written down as gone is gone, and the
\* session ends.
FinishIsTrue == GoneAreGone /\ FinishedIsEnded

\* Who was given the floor "keeps that right across a reconnect"
\* (live.service.ts:160-161), whatever overlaps.
FloorSurvives == [][FloorIsTheHosts]_vars

====
