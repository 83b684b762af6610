---- MODULE RecordingEgressProofs ----
(***************************************************************************)
(* Proofs about RecordingEgress, for every number of requests and egresses *)
(* and every order of webhooks: it keeps its types, and a recording is     *)
(* offered only when LiveKit completed it.                                 *)
(***************************************************************************)
EXTENDS RecordingEgress, TLAPS

USE EgressAssumption

\* What is on its way tells of a capture's end only when it has ended, with the
\* file when it completed.
SentIsTrue ==
    \A m \in sent : m.status \in Over =>
        /\ egress[m.egress] = m.status
        /\ m.status = "COMPLETE" => m.file

EgressInv == TypeOK /\ SentIsTrue /\ OfferedIsPlayable

-----------------------------------------------------------------------------
\* LiveKit moves an egress that is not over, and its webhook tells the truth:
\* what is over stays as it was.
LEMMA MovesKeepsTruth ==
    ASSUME TypeOK, SentIsTrue, OfferedIsPlayable,
           NEW e \in Egresses, egress[e] \notin Over,
           NEW status \in Running \cup Over,
           Moves(e, status)
    PROVE  /\ egress' \in [Egresses -> {"NONE"} \cup Running \cup Over]
           /\ sent' \in SUBSET Messages
           /\ SentIsTrue'
           /\ recording' = recording => OfferedIsPlayable'
<1>1. PICK file \in BOOLEAN :
          /\ status = "COMPLETE" => file
          /\ sent' = sent \cup {[egress |-> e, status |-> status, file |-> file]}
    BY DEF Moves
<1>2. egress' = [egress EXCEPT ![e] = status]
    BY DEF Moves
<1>3. egress' \in [Egresses -> {"NONE"} \cup Running \cup Over]
    BY <1>2 DEF TypeOK
<1>4. sent' \in SUBSET Messages
    BY <1>1 DEF TypeOK, Messages
<1>5. \A d \in Egresses : egress[d] \in Over => egress'[d] = egress[d]
    BY <1>2 DEF TypeOK
<1>6. SentIsTrue'
    <2> SUFFICES ASSUME NEW m \in sent', m.status \in Over
                 PROVE  /\ egress'[m.egress] = m.status
                        /\ m.status = "COMPLETE" => m.file
        BY DEF SentIsTrue
    <2>1. CASE m \in sent
        <3>1. egress[m.egress] = m.status /\ (m.status = "COMPLETE" => m.file)
            BY <2>1 DEF SentIsTrue
        <3>2. m.egress \in Egresses
            BY <2>1 DEF TypeOK, Messages
        <3> QED
            BY <3>1, <3>2, <1>5
    <2>2. CASE m = [egress |-> e, status |-> status, file |-> file]
        BY <2>2, <1>1, <1>2 DEF TypeOK
    <2> QED
        BY <1>1, <2>1, <2>2
<1>7. recording' = recording => OfferedIsPlayable'
    BY <1>5 DEF OfferedIsPlayable, TypeOK, Recordings, NoRecording, Over
<1> QED
    BY <1>3, <1>4, <1>6, <1>7

\* A request goes from one step of its handler to another.
LEMMA BecomeKeepsType ==
    ASSUME TypeOK, NEW r \in Requests,
           NEW t \in Tasks,
           Become(r, t)
    PROVE  task' \in [Requests -> Tasks]
BY DEF TypeOK, Become

QuietSteps == {"idle", "startSession", "startRow", "startEgress", "stopSession", "stopRow"}

LEMMA TaskType ==
    /\ Idle \in Tasks
    /\ \A pc \in QuietSteps : [pc |-> pc, egress |-> Null] \in Tasks
    /\ \A e \in Egresses : /\ [pc |-> "save", egress |-> e] \in Tasks
                           /\ [pc |-> "stopEgress", egress |-> e] \in Tasks
BY DEF QuietSteps, Idle, Tasks

LEMMA GoToKeepsType ==
    ASSUME TypeOK, NEW r \in Requests, NEW pc \in QuietSteps, GoTo(r, pc)
    PROVE  task' \in [Requests -> Tasks]
BY TaskType, BecomeKeepsType DEF GoTo

\* Steps that touch neither the row nor LiveKit.
LEMMA QuietKeepsInv ==
    ASSUME EgressInv,
           task' \in [Requests -> Tasks],
           session' \in {"LIVE", "ENDED"},
           faults' \in 0..MaxFaults,
           UNCHANGED <<recording, livekit>>
    PROVE  EgressInv'
BY DEF EgressInv, TypeOK, SentIsTrue, OfferedIsPlayable, livekit

\* Steps that move one egress and, at most, one request.
LEMMA MovesKeepsInv ==
    ASSUME EgressInv,
           NEW e \in Egresses, egress[e] \notin Over,
           NEW status \in Running \cup Over,
           Moves(e, status),
           task' \in [Requests -> Tasks],
           faults' \in 0..MaxFaults,
           UNCHANGED <<session, recording>>
    PROVE  EgressInv'
<1>1. /\ egress' \in [Egresses -> {"NONE"} \cup Running \cup Over]
      /\ sent' \in SUBSET Messages
      /\ SentIsTrue'
      /\ OfferedIsPlayable'
    BY MovesKeepsTruth DEF EgressInv
<1>2. reordered' \in BOOLEAN
    BY DEF Moves, EgressInv, TypeOK
<1> QED
    BY <1>1, <1>2 DEF EgressInv, TypeOK

LEMMA FaultKeepsType ==
    ASSUME TypeOK, NEW kind, Fault(kind)
    PROVE  faults' \in 0..MaxFaults
BY DEF TypeOK, Fault

\* The steps of a handler that only read.
LEMMA ReadsKeepInv ==
    ASSUME EgressInv, NEW r \in Requests,
           ArriveStart(r) \/ RequireLive(r) \/ ReadBeforeStart(r)
           \/ ArriveStop(r) \/ ReadBeforeStop(r) \/ Crash(r)
    PROVE  EgressInv'
<1> USE DEF EgressInv
<1>1. CASE ArriveStart(r) \/ ArriveStop(r) \/ RequireLive(r) \/ ReadBeforeStart(r)
    <2>1. \E pc \in QuietSteps : GoTo(r, pc)
        BY <1>1 DEF ArriveStart, ArriveStop, RequireLive, ReadBeforeStart, QuietSteps
    <2> QED
        BY <1>1, <2>1, GoToKeepsType, QuietKeepsInv
           DEF ArriveStart, ArriveStop, RequireLive, ReadBeforeStart, TypeOK
<1>2. CASE ReadBeforeStop(r)
    <2>1. CASE recording.status \in {"STARTING", "ACTIVE"}
        <3>1. recording.egress \in Egresses
            BY <2>1 DEF TypeOK, Recordings, NoRecording
        <3>2. Become(r, [pc |-> "stopEgress", egress |-> recording.egress])
            BY <1>2, <2>1 DEF ReadBeforeStop
        <3> QED
            BY <1>2, <3>1, <3>2, TaskType, BecomeKeepsType, QuietKeepsInv DEF ReadBeforeStop, TypeOK
    <2>2. CASE recording.status \notin {"STARTING", "ACTIVE"}
        BY <1>2, <2>2, TaskType, BecomeKeepsType, QuietKeepsInv DEF ReadBeforeStop, TypeOK
    <2> QED
        BY <2>1, <2>2
<1>3. CASE Crash(r)
    BY <1>3, TaskType, BecomeKeepsType, FaultKeepsType, QuietKeepsInv DEF Crash, TypeOK
<1> QED
    BY <1>1, <1>2, <1>3

LEMMA StartEgressKeepsInv ==
    ASSUME EgressInv, NEW r \in Requests, StartEgress(r)
    PROVE  EgressInv'
<1> USE DEF EgressInv
<1>1. CASE Become(r, Idle) /\ UNCHANGED <<livekit, faults>>
    BY <1>1, TaskType, BecomeKeepsType, QuietKeepsInv DEF StartEgress, TypeOK
<1>2. ASSUME NEW e \in Egresses, egress[e] = "NONE", Moves(e, "STARTING"),
             \/ Become(r, [pc |-> "save", egress |-> e]) /\ UNCHANGED faults
             \/ Become(r, Idle) /\ Fault("lostResponse")
      PROVE  EgressInv'
    <2>1. task' \in [Requests -> Tasks]
        BY <1>2, TaskType, BecomeKeepsType
    <2>2. faults' \in 0..MaxFaults
        BY <1>2, FaultKeepsType DEF TypeOK
    <2> QED
        BY <1>2, <2>1, <2>2, MovesKeepsInv DEF StartEgress, Running, Over
<1> QED
    BY <1>1, <1>2 DEF StartEgress

LEMMA StopEgressKeepsInv ==
    ASSUME EgressInv, NEW r \in Requests, StopEgress(r)
    PROVE  EgressInv'
<1> USE DEF EgressInv
<1>1. task[r].egress \in Egresses
    BY DEF TypeOK, StopEgress, At, Tasks
<1>2. task' \in [Requests -> Tasks]
    BY TaskType, BecomeKeepsType DEF StopEgress
<1>3. CASE UNCHANGED livekit
    BY <1>2, <1>3, QuietKeepsInv DEF StopEgress, TypeOK
<1>4. CASE egress[task[r].egress] \in {"STARTING", "ACTIVE"} /\ Moves(task[r].egress, "ENDING")
    <2>1. egress[task[r].egress] \notin Over /\ "ENDING" \in Running \cup Over
        BY <1>4 DEF Over, Running
    <2>2. faults' \in 0..MaxFaults /\ UNCHANGED <<session, recording>>
        BY DEF StopEgress, TypeOK
    <2> QED
        BY <1>1, <1>2, <1>4, <2>1, <2>2, MovesKeepsInv
<1> QED
    BY <1>3, <1>4 DEF StopEgress

\* The row is taken over by a capture that is not over.
LEMMA SaveRecordingKeepsInv ==
    ASSUME EgressInv, NEW r \in Requests, SaveRecording(r)
    PROVE  EgressInv'
<1> USE DEF EgressInv
<1>1. task[r].egress \in Egresses
    BY DEF TypeOK, SaveRecording, At, Tasks
<1>2. task' \in [Requests -> Tasks]
    BY TaskType, BecomeKeepsType DEF SaveRecording
<1>3. recording.file \in BOOLEAN
    <2>1. CASE recording \in Recordings
        BY ONLY <2>1, Zenon DEF Recordings
    <2>2. CASE recording = NoRecording
        BY <2>2 DEF NoRecording
    <2> QED
        BY <2>1, <2>2 DEF TypeOK
<1>4. recording' \in Recordings /\ recording'.status \notin Over
    BY <1>1, <1>3 DEF SaveRecording, Saved, Recordings, Over
<1> QED
    BY <1>2, <1>4 DEF SaveRecording, TypeOK, SentIsTrue, OfferedIsPlayable, livekit

\* A webhook tells the truth about the egress it names, and the row it finds
\* names the same egress.
LEMMA WebhookKeepsInv ==
    ASSUME EgressInv, NEW m \in Messages, Webhook(m)
    PROVE  EgressInv'
<1> USE DEF EgressInv
<1>1. sent' \subseteq sent /\ UNCHANGED <<session, egress, task, faults>>
    BY DEF Webhook
<1>2. SentIsTrue' /\ reordered' \in BOOLEAN
    <2>1. SentIsTrue'
        BY <1>1 DEF SentIsTrue
    <2>2. Overtakes(m) \in BOOLEAN
        BY DEF Overtakes
    <2>3. reordered' \in BOOLEAN
        BY <2>2 DEF Webhook, TypeOK
    <2> QED
        BY <2>1, <2>3
<1>3. CASE recording.egress # m.egress
    BY <1>1, <1>2, <1>3 DEF Webhook, Handled, TypeOK, OfferedIsPlayable
<1>4. CASE recording.egress = m.egress
    <2>1. recording' = mapEgressToRecordingUpdate(m)
        BY <1>4 DEF Webhook, Handled
    <2>2. recording' \in Recordings
        BY <2>1 DEF mapEgressToRecordingUpdate, mapEgressStatus, Recordings, Messages, Running, Over
    <2>3. recording'.status \in Over => recording'.status = m.status /\ m.status \in Over
        BY <2>1 DEF mapEgressToRecordingUpdate, mapEgressStatus, Messages, Running, Over
    <2>4. m.status \in Over => egress[m.egress] = m.status /\ (m.status = "COMPLETE" => m.file)
        BY DEF Webhook, SentIsTrue
    <2>5. OfferedIsPlayable'
        BY <1>1, <2>1, <2>3, <2>4 DEF mapEgressToRecordingUpdate, OfferedIsPlayable
    <2> QED
        BY <1>1, <1>2, <2>2, <2>5 DEF TypeOK
<1> QED
    BY <1>3, <1>4

LEMMA LiveKitKeepsInv ==
    ASSUME EgressInv, NEW e \in Egresses,
           Capture(e) \/ Finish(e) \/ Abort(e) \/ RoomCloses(e)
    PROVE  EgressInv'
<1>1. \E status \in Running \cup Over : Moves(e, status)
    BY DEF Capture, Finish, Abort, RoomCloses, Running, Over
<1>2. egress[e] \notin Over
    BY DEF Capture, Finish, Abort, RoomCloses, Over
<1>3. UNCHANGED <<session, recording, task, faults>>
    BY DEF Capture, Finish, Abort, RoomCloses
<1>4. task' \in [Requests -> Tasks] /\ faults' \in 0..MaxFaults
    BY <1>3 DEF EgressInv, TypeOK
<1> QED
    BY <1>1, <1>2, <1>3, <1>4, MovesKeepsInv

LEMMA EgressInvInductive == EgressInv /\ [Next]_vars => EgressInv'
<1> SUFFICES ASSUME EgressInv, [Next]_vars PROVE EgressInv'
    OBVIOUS
<1>1. ASSUME NEW r \in Requests, ArriveStart(r) \/ ArriveStop(r) \/ HandlerStep(r) \/ Crash(r)
      PROVE  EgressInv'
    BY <1>1, ReadsKeepInv, StartEgressKeepsInv, SaveRecordingKeepsInv, StopEgressKeepsInv DEF HandlerStep
<1>2. ASSUME NEW m \in Messages, Webhook(m) \/ LoseWebhook(m)
      PROVE  EgressInv'
    <2>1. CASE Webhook(m)
        BY <2>1, WebhookKeepsInv
    <2>2. CASE LoseWebhook(m)
        BY <2>2, FaultKeepsType DEF LoseWebhook, EgressInv, TypeOK, SentIsTrue, OfferedIsPlayable
    <2> QED
        BY <1>2, <2>1, <2>2
<1>3. ASSUME NEW e \in Egresses, Capture(e) \/ Finish(e) \/ Abort(e) \/ RoomCloses(e)
      PROVE  EgressInv'
    BY <1>3, LiveKitKeepsInv
<1>4. CASE SessionEnds
    BY <1>4, QuietKeepsInv DEF SessionEnds, EgressInv, TypeOK
<1>5. CASE UNCHANGED vars
    BY <1>5, QuietKeepsInv DEF vars, livekit, EgressInv, TypeOK
<1> QED
    BY <1>1, <1>2, <1>3, <1>4, <1>5 DEF Next

LEMMA EgressInvInitial == Init => EgressInv
<1> SUFFICES ASSUME Init PROVE EgressInv
    OBVIOUS
<1>1. task \in [Requests -> Tasks]
    BY TaskType DEF Init
<1>2. SentIsTrue /\ sent \in SUBSET Messages
    BY DEF Init, SentIsTrue
<1>3. OfferedIsPlayable
    BY DEF Init, OfferedIsPlayable, NoRecording, Over
<1>4. reordered \in BOOLEAN
    BY DEF Init
<1> QED
    BY <1>1, <1>2, <1>3, <1>4 DEF Init, EgressInv, TypeOK

-----------------------------------------------------------------------------
\* Every variable stays in its set, whatever the requests and LiveKit do.
THEOREM EgressTypeCorrect == Spec => []TypeOK
<1>1. EgressInv => TypeOK
    BY DEF EgressInv
<1> QED
    BY EgressInvInitial, EgressInvInductive, <1>1, PTL DEF Spec

\* The library offers a recording (RecordingsService.library asks for COMPLETE)
\* only when LiveKit completed its capture and its file is known, and a capture
\* may be tried again only when it failed: however the requests interleave and
\* however late or often the webhooks arrive.
THEOREM Playable == Spec => []OfferedIsPlayable
<1>1. EgressInv => OfferedIsPlayable
    BY DEF EgressInv
<1> QED
    BY EgressInvInitial, EgressInvInductive, <1>1, PTL DEF Spec

-----------------------------------------------------------------------------
(* The end of a capture is told once *)

OneEnd ==
    \A m, n \in sent : m.egress = n.egress /\ m.status \in Over /\ n.status \in Over => m = n

\* Once the row says how its capture ended, nothing is on its way about it,
\* unless webhooks came out of order.
EndsAreLast ==
    ~reordered /\ recording.status \in Over => \A m \in sent : m.egress # recording.egress

EndInv == EgressInv /\ OneEnd /\ EndsAreLast

LEMMA RankOfEnds ==
    /\ \A s \in Running : Rank[s] < 4
    /\ \A s \in Over : Rank[s] = 4
<1>1. /\ Rank["STARTING"] = 1 /\ Rank["ACTIVE"] = 2 /\ Rank["ENDING"] = 3
      /\ Rank["COMPLETE"] = 4 /\ Rank["FAILED"] = 4
    BY DEF Rank
<1> QED
    BY <1>1 DEF Running, Over

\* A capture moves on that was not over.
LEMMA MovesKeepsEnds ==
    ASSUME EndInv, NEW e \in Egresses, egress[e] \notin Over, NEW status, Moves(e, status),
           UNCHANGED recording
    PROVE  OneEnd' /\ EndsAreLast'
<1>1. PICK file \in BOOLEAN : sent' = sent \cup {[egress |-> e, status |-> status, file |-> file]}
    BY DEF Moves
<1>2. \A m \in sent : m.egress = e => m.status \notin Over
    BY DEF EndInv, EgressInv, SentIsTrue
<1>3. recording.status \in Over => recording.egress # e
    BY DEF EndInv, EgressInv, OfferedIsPlayable
<1>4. UNCHANGED reordered
    BY DEF Moves
<1>5. OneEnd'
    BY <1>1, <1>2 DEF OneEnd, EndInv
<1> QED
    BY <1>1, <1>3, <1>4, <1>5 DEF EndsAreLast, EndInv

\* The row is about another capture, or webhooks were out of order before, or
\* this is the end of the capture, and the last that is heard of it.
LEMMA WebhookKeepsEnds ==
    ASSUME EndInv, NEW m \in Messages, Webhook(m)
    PROVE  OneEnd' /\ EndsAreLast'
<1>1. sent' \subseteq sent /\ (reordered => reordered')
    BY DEF Webhook
<1>2. OneEnd'
    BY <1>1 DEF OneEnd, EndInv
<1>3. ASSUME ~reordered', recording'.status \in Over, NEW n \in sent'
      PROVE  n.egress # recording'.egress
    <2> USE <1>3
    <2>1. CASE recording.egress # m.egress
        BY <1>1, <2>1 DEF Webhook, Handled, EndInv, EndsAreLast
    <2>2. CASE recording.egress = m.egress
        <3>1. recording'.egress = m.egress /\ m.status \in Over
            BY <2>2 DEF Webhook, Handled, mapEgressToRecordingUpdate, mapEgressStatus, Messages,
               Running, Over
        <3>2. sent' = sent \ {m} /\ ~Overtakes(m)
            BY DEF Webhook
        <3>3. CASE n.status \in Over
            BY <3>1, <3>2, <3>3 DEF EndInv, OneEnd, Webhook
        <3>4. CASE n.status \in Running
            BY <3>1, <3>2, <3>4, RankOfEnds DEF Overtakes
        <3> QED
            BY <3>2, <3>3, <3>4 DEF EndInv, EgressInv, TypeOK, Messages
    <2> QED
        BY <2>1, <2>2
<1> QED
    BY <1>2, <1>3 DEF EndsAreLast

\* Requests, but for the one that saves the row, and what LiveKit does.
LEMMA LiveKitMoves ==
    ASSUME EndInv, NEW e \in Egresses,
           Capture(e) \/ Finish(e) \/ Abort(e) \/ RoomCloses(e)
    PROVE  /\ egress[e] \notin Over /\ UNCHANGED <<recording, task, faults, reordered>>
           /\ \E status \in Running \cup Over :
                  /\ Moves(e, status)
                  /\ status \in Running => egress[e] \in Running
BY DEF Capture, Finish, Abort, RoomCloses, Running, Over, Moves

LEMMA EndInvInductive == EndInv /\ [Next]_vars => EndInv'
<1> SUFFICES ASSUME EndInv, [Next]_vars PROVE EndInv'
    OBVIOUS
<1>1. EgressInv'
    BY EgressInvInductive DEF EndInv
<1>2. ASSUME UNCHANGED <<recording, sent, reordered>>
      PROVE  OneEnd' /\ EndsAreLast'
    BY <1>2 DEF EndInv, OneEnd, EndsAreLast
<1>3. ASSUME NEW r \in Requests, ArriveStart(r) \/ ArriveStop(r) \/ HandlerStep(r) \/ Crash(r)
      PROVE  OneEnd' /\ EndsAreLast'
    <2>1. CASE StartEgress(r)
        BY <1>2, <2>1, MovesKeepsEnds DEF StartEgress, livekit, Over
    <2>2. CASE SaveRecording(r)
        <3>1. recording'.status = "STARTING" /\ UNCHANGED <<sent, reordered>>
            BY <2>2 DEF SaveRecording, Saved, livekit
        <3> QED
            BY <3>1 DEF EndInv, OneEnd, EndsAreLast, Over
    <2>3. CASE StopEgress(r)
        <3>1. task[r].egress \in Egresses
            BY <2>3 DEF EndInv, EgressInv, TypeOK, StopEgress, At, Tasks
        <3> QED
            BY <1>2, <2>3, <3>1, MovesKeepsEnds DEF StopEgress, livekit, Over
    <2> QED
        BY <1>2, <1>3, <2>1, <2>2, <2>3 DEF HandlerStep, ArriveStart, ArriveStop, RequireLive,
           ReadBeforeStart, ReadBeforeStop, Crash, livekit
<1>4. ASSUME NEW m \in Messages, Webhook(m) \/ LoseWebhook(m)
      PROVE  OneEnd' /\ EndsAreLast'
    <2>1. CASE LoseWebhook(m)
        <3>1. sent' \subseteq sent /\ UNCHANGED <<recording, reordered>>
            BY <2>1 DEF LoseWebhook
        <3> QED
            BY <3>1 DEF EndInv, OneEnd, EndsAreLast
    <2> QED
        BY <1>4, <2>1, WebhookKeepsEnds
<1>5. ASSUME NEW e \in Egresses, Capture(e) \/ Finish(e) \/ Abort(e) \/ RoomCloses(e)
      PROVE  OneEnd' /\ EndsAreLast'
    BY <1>5, LiveKitMoves, MovesKeepsEnds
<1>6. ASSUME SessionEnds \/ UNCHANGED vars
      PROVE  OneEnd' /\ EndsAreLast'
    <2>1. UNCHANGED <<recording, sent, reordered>>
        BY <1>6 DEF SessionEnds, vars, livekit
    <2> QED
        BY <2>1 DEF EndInv, OneEnd, EndsAreLast
<1>7. OneEnd' /\ EndsAreLast'
    BY <1>3, <1>4, <1>5, <1>6 DEF Next
<1> QED
    BY <1>1, <1>7 DEF EndInv

LEMMA EndInvInitial == Init => EndInv
<1> SUFFICES ASSUME Init PROVE EndInv
    OBVIOUS
<1>1. OneEnd /\ EndsAreLast
    BY DEF Init, OneEnd, EndsAreLast
<1> QED
    BY <1>1, EgressInvInitial DEF EndInv

-----------------------------------------------------------------------------
(* One request at a time *)

\* The host's starts and stops do not overlap.
OneRequest == \A q, r \in Requests : q = r

Starting(t) == t.pc \in {"startEgress", "save"}

RowIsOver == recording = NoRecording \/ egress[recording.egress] \in Over

\* Whoever starts a capture found none to be in its way, and none is since; the row
\* itself says so still, unless webhooks came out of order.
StartsAreFree ==
    \A r \in Requests : Starting(task[r]) => RowIsOver /\ (~reordered => MayStart)

HandInv == EndInv /\ StartsAreFree /\ CaptureIsKnown

\* What LiveKit has finished stays so.
LEMMA OverStaysOver ==
    ASSUME TypeOK, NEW e \in Egresses, egress[e] \notin Over, NEW status, Moves(e, status)
    PROVE  /\ \A d \in Egresses : d # e => egress'[d] = egress[d]
           /\ egress'[e] = status
           /\ \A d \in Egresses : egress[d] \in Over => egress'[d] \in Over
           /\ UNCHANGED recording => (RowIsOver => RowIsOver')
<1>1. egress' = [egress EXCEPT ![e] = status]
    BY DEF Moves
<1>2. \A d \in Egresses : egress'[d] = IF d = e THEN status ELSE egress[d]
    BY <1>1 DEF TypeOK
<1>3. recording # NoRecording => recording.egress \in Egresses
    BY DEF TypeOK, Recordings
<1> QED
    BY <1>2, <1>3 DEF RowIsOver

\* The row and its capture stay; what a request starts with is as it was read.
LEMMA TurnKeepsHand ==
    ASSUME OneRequest, HandInv, NEW r \in Requests, NEW t \in Tasks, Become(r, t),
           UNCHANGED <<recording, egress, reordered>>,
           Starting(t) => RowIsOver /\ (~reordered => MayStart),
           faults' = 0 => faults = 0 /\ ~At(r, "save")
    PROVE  StartsAreFree' /\ CaptureIsKnown'
<1>1. task'[r] = t /\ \A q \in Requests : q = r
    BY DEF Become, OneRequest, HandInv, EndInv, EgressInv, TypeOK
<1>2. StartsAreFree'
    BY <1>1 DEF StartsAreFree, Starting, RowIsOver, MayStart
<1>3. ASSUME faults' = 0, NEW e \in Egresses, egress'[e] \in Running
      PROVE  recording'.egress = e
    <2>1. task[r] # [pc |-> "save", egress |-> e]
        BY <1>3 DEF At
    <2> QED
        BY <1>1, <1>3, <2>1 DEF HandInv, CaptureIsKnown
<1> QED
    BY <1>2, <1>3 DEF CaptureIsKnown

LEMMA ReadsKeepHand ==
    ASSUME OneRequest, HandInv, NEW r \in Requests,
           ArriveStart(r) \/ RequireLive(r) \/ ReadBeforeStart(r)
           \/ ArriveStop(r) \/ ReadBeforeStop(r) \/ Crash(r)
    PROVE  StartsAreFree' /\ CaptureIsKnown'
<1>1. UNCHANGED <<recording, egress, reordered>>
    BY DEF ArriveStart, RequireLive, ReadBeforeStart, ArriveStop, ReadBeforeStop, Crash, livekit
<1>2. faults' = 0 => faults = 0 /\ ~At(r, "save")
    BY DEF ArriveStart, RequireLive, ReadBeforeStart, ArriveStop, ReadBeforeStop, Crash, Fault, At,
           HandInv, EndInv, EgressInv, TypeOK
<1>3. MayStart => RowIsOver
    BY DEF MayStart, RowIsOver, HandInv, EndInv, EgressInv, OfferedIsPlayable, Over
<1>4. CASE ReadBeforeStart(r)
    <2>1. \E t \in Tasks : Become(r, t) /\ (Starting(t) => MayStart)
        BY <1>4, TaskType DEF ReadBeforeStart, GoTo, Starting, QuietSteps
    <2> QED
        BY <1>1, <1>2, <1>3, <2>1, TurnKeepsHand
<1>5. CASE ~ReadBeforeStart(r)
    <2>1. CASE ReadBeforeStop(r)
        <3>1. recording.status \in {"STARTING", "ACTIVE"} => recording.egress \in Egresses
            BY DEF HandInv, EndInv, EgressInv, TypeOK, Recordings, NoRecording
        <3>2. \E t \in Tasks : Become(r, t) /\ ~Starting(t)
            BY <2>1, <3>1, TaskType DEF ReadBeforeStop, Starting, Idle
        <3> QED
            BY <1>1, <1>2, <3>2, TurnKeepsHand
    <2>2. CASE ~ReadBeforeStop(r)
        <3>1. \E t \in Tasks : Become(r, t) /\ ~Starting(t)
            BY <1>5, <2>2, TaskType DEF ArriveStart, RequireLive, ArriveStop, Crash, GoTo, Starting,
               Idle, QuietSteps
        <3> QED
            BY <1>1, <1>2, <3>1, TurnKeepsHand
    <2> QED
        BY <2>1, <2>2
<1> QED
    BY <1>4, <1>5

\* When somebody is about to start a capture, none is running, but for the one that
\* is about to be saved.
LEMMA NoneIsRunning ==
    ASSUME OneRequest, HandInv, NEW r \in Requests, Starting(task[r]), faults = 0,
           NEW e \in Egresses, egress[e] \in Running
    PROVE  task[r] = [pc |-> "save", egress |-> e]
<1>1. recording.egress # e
    BY DEF HandInv, StartsAreFree, RowIsOver, NoRecording, Over, Running
<1> QED
    BY <1>1 DEF HandInv, CaptureIsKnown, OneRequest

LEMMA StartEgressKeepsHand ==
    ASSUME OneRequest, HandInv, NEW r \in Requests, StartEgress(r)
    PROVE  StartsAreFree' /\ CaptureIsKnown'
<1>1. CASE Become(r, Idle) /\ UNCHANGED <<livekit, faults>>
    BY <1>1, TaskType, TurnKeepsHand DEF StartEgress, livekit, Starting, Idle, At
<1>2. ASSUME NEW e \in Egresses, egress[e] = "NONE", Moves(e, "STARTING"),
             \/ Become(r, [pc |-> "save", egress |-> e]) /\ UNCHANGED faults
             \/ Become(r, Idle) /\ Fault("lostResponse")
      PROVE  StartsAreFree' /\ CaptureIsKnown'
    <2>1. /\ \A d \in Egresses : d # e => egress'[d] = egress[d]
          /\ egress'[e] = "STARTING" /\ RowIsOver' /\ UNCHANGED reordered
        <3>1. egress[e] \notin Over /\ UNCHANGED <<recording, reordered>>
            BY <1>2 DEF StartEgress, Moves, Over
        <3>2. RowIsOver
            BY DEF StartEgress, HandInv, StartsAreFree, Starting, At
        <3> QED
            BY <1>2, <3>1, <3>2, OverStaysOver DEF HandInv, EndInv, EgressInv
    <2>2. UNCHANGED recording /\ (~reordered => MayStart)
        BY DEF StartEgress, HandInv, StartsAreFree, Starting, At
    <2>3. StartsAreFree'
        BY <2>1, <2>2 DEF StartsAreFree, MayStart
    <2>4. CASE Become(r, [pc |-> "save", egress |-> e]) /\ UNCHANGED faults
        <3>1. task'[r] = [pc |-> "save", egress |-> e]
            BY <2>4 DEF Become, HandInv, EndInv, EgressInv, TypeOK
        <3>2. ASSUME faults = 0, NEW d \in Egresses, egress[d] \in Running PROVE FALSE
            <4>1. Starting(task[r]) /\ task[r].pc = "startEgress"
                BY DEF StartEgress, Starting, At
            <4>2. task[r] = [pc |-> "save", egress |-> d]
                BY <3>2, <4>1, NoneIsRunning
            <4> QED
                BY <4>1, <4>2
        <3> QED
            BY <2>1, <2>3, <2>4, <3>1, <3>2 DEF CaptureIsKnown
    <2>5. CASE Fault("lostResponse")
        BY <2>3, <2>5 DEF Fault, CaptureIsKnown, HandInv, EndInv, EgressInv, TypeOK
    <2> QED
        BY <1>2, <2>4, <2>5
<1> QED
    BY <1>1, <1>2 DEF StartEgress

LEMMA SaveRecordingKeepsHand ==
    ASSUME OneRequest, HandInv, NEW r \in Requests, SaveRecording(r)
    PROVE  StartsAreFree' /\ CaptureIsKnown'
<1>1. Starting(task[r]) /\ UNCHANGED <<egress, faults>> /\ recording'.egress = task[r].egress
    BY DEF SaveRecording, Saved, Starting, At, livekit
<1>2. \A q \in Requests : ~Starting(task'[q])
    BY DEF SaveRecording, Become, Idle, Starting, OneRequest, HandInv, EndInv, EgressInv, TypeOK
<1>3. ASSUME faults = 0, NEW e \in Egresses, egress[e] \in Running
      PROVE  recording'.egress = e
    <2>1. task[r] = [pc |-> "save", egress |-> e]
        BY <1>1, <1>3, NoneIsRunning
    <2> QED
        BY <1>1, <2>1
<1> QED
    BY <1>1, <1>2, <1>3 DEF StartsAreFree, CaptureIsKnown

\* A capture that was running already moves on, and no request is starting one,
\* or none moves at all.
LEMMA MovesKeepHand ==
    ASSUME HandInv, NEW e \in Egresses, egress[e] \notin Over, NEW status, Moves(e, status),
           status \in Running => egress[e] \in Running,
           UNCHANGED <<recording, faults>>,
           \A q \in Requests : Starting(task[q]) \/ Starting(task'[q]) => task'[q] = task[q]
    PROVE  StartsAreFree' /\ CaptureIsKnown'
<1>1. /\ \A d \in Egresses : d # e => egress'[d] = egress[d]
      /\ egress'[e] = status
      /\ RowIsOver => RowIsOver'
    BY OverStaysOver DEF HandInv, EndInv, EgressInv
<1>2. UNCHANGED reordered
    BY DEF Moves
<1>3. StartsAreFree'
    BY <1>1, <1>2 DEF HandInv, StartsAreFree, MayStart
<1>4. ASSUME NEW q \in Requests, NEW d \in Egresses, task[q] = [pc |-> "save", egress |-> d]
      PROVE  task'[q] = [pc |-> "save", egress |-> d]
    BY <1>4 DEF Starting
<1>5. \A d \in Egresses : egress'[d] \in Running => egress[d] \in Running
    BY <1>1
<1> QED
    BY <1>3, <1>4, <1>5 DEF HandInv, CaptureIsKnown

LEMMA WebhookKeepsHand ==
    ASSUME HandInv, NEW m \in Messages, Webhook(m)
    PROVE  StartsAreFree' /\ CaptureIsKnown'
<1>1. UNCHANGED <<egress, task, faults>> /\ (reordered => reordered')
    BY DEF Webhook
<1>2. m.egress \in Egresses /\ recording'.egress = recording.egress
    BY DEF Webhook, Handled, mapEgressToRecordingUpdate, Messages
<1>3. recording.egress # m.egress => recording' = recording
    BY DEF Webhook, Handled
<1>4. recording = NoRecording => recording' = recording
    BY <1>2, <1>3 DEF NoRecording
<1>5. ~reordered /\ MayStart => recording' = recording
    BY <1>3, <1>4 DEF MayStart, HandInv, EndInv, EndsAreLast, Over, Webhook
<1>6. RowIsOver => RowIsOver'
    BY <1>1, <1>2, <1>4 DEF RowIsOver
<1>7. StartsAreFree'
    BY <1>1, <1>5, <1>6 DEF HandInv, StartsAreFree, MayStart
<1>8. CaptureIsKnown'
    BY <1>1, <1>2 DEF HandInv, CaptureIsKnown
<1> QED
    BY <1>7, <1>8

LEMMA HandInvInductive ==
    ASSUME OneRequest
    PROVE  HandInv /\ [Next]_vars => HandInv'
<1> SUFFICES ASSUME HandInv, [Next]_vars PROVE HandInv'
    OBVIOUS
<1>1. EndInv'
    BY EndInvInductive DEF HandInv
<1>2. ASSUME NEW r \in Requests, ArriveStart(r) \/ ArriveStop(r) \/ HandlerStep(r) \/ Crash(r)
      PROVE  StartsAreFree' /\ CaptureIsKnown'
    <2>1. CASE StopEgress(r)
        <3>1. ~Starting(task[r]) /\ task[r].egress \in Egresses
            BY <2>1 DEF StopEgress, Starting, At, Tasks, HandInv, EndInv, EgressInv, TypeOK
        <3>2. Become(r, Idle) /\ ~Starting(Idle)
            BY <2>1 DEF StopEgress, Starting, Idle
        <3>3. \A q \in Requests : ~Starting(task[q]) /\ ~Starting(task'[q])
            BY <3>1, <3>2 DEF OneRequest, Become, HandInv, EndInv, EgressInv, TypeOK
        <3>4. CASE UNCHANGED livekit
            BY <2>1, <3>1, <3>2, <3>4, TaskType, TurnKeepsHand DEF StopEgress, livekit, Starting, At
        <3>5. CASE egress[task[r].egress] \in {"STARTING", "ACTIVE"} /\ Moves(task[r].egress, "ENDING")
            BY <2>1, <3>1, <3>3, <3>5, MovesKeepHand DEF StopEgress, Running, Over
        <3> QED
            BY <2>1, <3>4, <3>5 DEF StopEgress
    <2> QED
        BY <1>2, <2>1, ReadsKeepHand, StartEgressKeepsHand, SaveRecordingKeepsHand DEF HandlerStep
<1>3. ASSUME NEW m \in Messages, LoseWebhook(m)
      PROVE  StartsAreFree' /\ CaptureIsKnown'
    <2>1. faults' # 0 /\ UNCHANGED <<recording, egress, reordered, task>>
        BY <1>3 DEF LoseWebhook, Fault, HandInv, EndInv, EgressInv, TypeOK
    <2> QED
        BY <2>1 DEF HandInv, StartsAreFree, RowIsOver, MayStart, CaptureIsKnown
<1>4. ASSUME NEW e \in Egresses, Capture(e) \/ Finish(e) \/ Abort(e) \/ RoomCloses(e)
      PROVE  StartsAreFree' /\ CaptureIsKnown'
    BY <1>4, LiveKitMoves, MovesKeepHand DEF HandInv
<1>5. ASSUME SessionEnds \/ UNCHANGED vars
      PROVE  StartsAreFree' /\ CaptureIsKnown'
    <2>1. UNCHANGED <<recording, egress, reordered, task, faults>>
        BY <1>5 DEF SessionEnds, vars, livekit
    <2> QED
        BY <2>1 DEF HandInv, StartsAreFree, RowIsOver, MayStart, CaptureIsKnown
<1>6. StartsAreFree' /\ CaptureIsKnown'
    BY <1>2, <1>3, <1>4, <1>5, WebhookKeepsHand DEF Next
<1> QED
    BY <1>1, <1>6 DEF HandInv

LEMMA HandInvInitial == Init => HandInv
<1> SUFFICES ASSUME Init PROVE HandInv
    OBVIOUS
<1>1. StartsAreFree /\ CaptureIsKnown
    BY DEF Init, StartsAreFree, Starting, Idle, CaptureIsKnown, Running
<1> QED
    BY <1>1, EndInvInitial DEF HandInv

\* Starts and stops that do not overlap keep the capture in hand: one runs at a
\* time, and the row names it or is about to (LiveService.startRecording and
\* stopRecording), however late or often webhooks come, until something fails.
THEOREM CaptureIsHeld ==
    ASSUME OneRequest
    PROVE  Spec => [](SingleCapture /\ CaptureIsKnown)
<1>1. HandInv => SingleCapture /\ CaptureIsKnown
    <2> SUFFICES ASSUME HandInv, faults = 0, NEW d \in Egresses, NEW e \in Egresses,
                        egress[d] \in Running, egress[e] \in Running
                 PROVE  d = e
        BY DEF SingleCapture, HandInv
    <2>1. CASE \E r \in Requests : Starting(task[r])
        <3>1. PICK r \in Requests : Starting(task[r])
            BY <2>1
        <3>2. /\ task[r] = [pc |-> "save", egress |-> d]
              /\ task[r] = [pc |-> "save", egress |-> e]
            BY <3>1, NoneIsRunning
        <3> QED
            BY <3>2
    <2>2. CASE \A r \in Requests : ~Starting(task[r])
        <3>1. \A r \in Requests : task[r].pc # "save"
            BY <2>2 DEF Starting
        <3>2. \A r \in Requests, c \in Egresses : task[r] # [pc |-> "save", egress |-> c]
            BY <3>1
        <3> QED
            BY <3>2 DEF HandInv, CaptureIsKnown
    <2> QED
        BY <2>1, <2>2
<1> QED
    BY HandInvInitial, HandInvInductive, <1>1, PTL DEF Spec

\* A recording that is complete stays so, with its file (LiveService.startRecording
\* and handleEgressUpdate), if starts do not overlap and webhooks come in order.
THEOREM CompleteIsKept ==
    ASSUME OneRequest
    PROVE  Spec => RecordingIsKept
<1>1. ASSUME HandInv, [Next]_vars, recording.status = "COMPLETE", ~reordered'
      PROVE  recording' = recording
    <2> USE <1>1
    <2>1. ~reordered
        BY DEF Next, vars, ArriveStart, ArriveStop, HandlerStep, RequireLive, ReadBeforeStart,
           StartEgress, SaveRecording, ReadBeforeStop, StopEgress, Crash, Webhook, LoseWebhook,
           Capture, Finish, Abort, RoomCloses, SessionEnds, Moves, livekit
    <2>2. ASSUME NEW r \in Requests PROVE ~SaveRecording(r)
        BY <2>1, <2>2 DEF SaveRecording, HandInv, StartsAreFree, Starting, At, MayStart, NoRecording
    <2>3. ASSUME NEW m \in Messages, Webhook(m) PROVE recording' = recording
        BY <2>1, <2>3 DEF Webhook, Handled, HandInv, EndInv, EndsAreLast, Over
    <2> QED
        BY <2>2, <2>3 DEF Next, vars, ArriveStart, ArriveStop, HandlerStep, RequireLive,
           ReadBeforeStart, StartEgress, ReadBeforeStop, StopEgress, Crash, LoseWebhook,
           Capture, Finish, Abort, RoomCloses, SessionEnds
<1>2. HandInv /\ [Next]_vars
      => (recording.status = "COMPLETE" /\ ~reordered' => recording' = recording)
    BY <1>1
<1> QED
    BY HandInvInitial, HandInvInductive, <1>2, PTL DEF Spec, RecordingIsKept

====
