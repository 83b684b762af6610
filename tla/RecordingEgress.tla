---- MODULE RecordingEgress ----
(***************************************************************************)
(* Capturing one live session (apps/api/src/live/live.service.ts).         *)
(* LiveKit runs the egress, the capture itself, and reports on it by       *)
(* webhook; the Recording row is what the program knows of it.  A session  *)
(* has at most one row, so one session is modelled.  Handlers interleave   *)
(* at every await; a webhook is a single updateMany.                       *)
(***************************************************************************)
EXTENDS Naturals, FiniteSets

CONSTANTS
    Requests,   \* HTTP requests of the host: start and stop
    Egresses,   \* ids LiveKit may hand out; when none is left it refuses
    Faults,     \* which kinds of failure happen, see FaultKinds
    MaxFaults,  \* bound on how many of them happen in a behaviour
    Null        \* no value

(* crash         a request dies before its next statement                   *)
(* lostResponse  the egress was started, the response never arrived         *)
(* lostWebhook   LiveKit gives up delivering a webhook                      *)
FaultKinds == {"crash", "lostResponse", "lostWebhook"}

ASSUME EgressAssumption ==
    /\ Faults \subseteq FaultKinds
    /\ MaxFaults \in Nat
    /\ Null \notin Egresses

VARIABLES
    session,    \* the status of the session
    recording,  \* its Recording row
    egress,     \* LiveKit's own state of each egress
    sent,       \* webhooks under way
    reordered,  \* history: a webhook overtook an earlier one of its egress, or came again
    task,       \* what each request is doing
    faults      \* failures so far

vars == <<session, recording, egress, sent, reordered, task, faults>>

livekit == <<egress, sent, reordered>>

\* LiveKit's states of an egress, in their order; ABORTED and LIMIT_REACHED
\* count as FAILED.
Running == {"STARTING", "ACTIVE", "ENDING"}

Over == {"COMPLETE", "FAILED"}

Rank == [STARTING |-> 1, ACTIVE |-> 2, ENDING |-> 3, COMPLETE |-> 4, FAILED |-> 4]

Messages == [egress : Egresses, status : Running \cup Over, file : BOOLEAN]

NoRecording == [egress |-> Null, status |-> "NONE", file |-> FALSE]

\* file: storageKey and the other details of the file are set
Recordings == [egress : Egresses, status : {"STARTING", "ACTIVE"} \cup Over, file : BOOLEAN]

\* What a request is about to do, and the egress it holds from an earlier step.
Tasks == [pc : {"idle", "startSession", "startRow", "startEgress", "stopSession", "stopRow"},
          egress : {Null}]
         \cup [pc : {"save", "stopEgress"}, egress : Egresses]

Idle == [pc |-> "idle", egress |-> Null]

TypeOK ==
    /\ session \in {"LIVE", "ENDED"}
    /\ recording \in Recordings \cup {NoRecording}
    /\ egress \in [Egresses -> {"NONE"} \cup Running \cup Over]
    /\ sent \in SUBSET Messages
    /\ reordered \in BOOLEAN
    /\ task \in [Requests -> Tasks]
    /\ faults \in 0..MaxFaults

Init ==
    /\ session = "LIVE"
    /\ recording = NoRecording
    /\ egress = [e \in Egresses |-> "NONE"]
    /\ sent = {}
    /\ reordered = FALSE
    /\ task = [r \in Requests |-> Idle]
    /\ faults = 0

-----------------------------------------------------------------------------
(* Helpers *)

At(r, pc) == task[r].pc = pc

Become(r, t) == task' = [task EXCEPT ![r] = t]

GoTo(r, pc) == Become(r, [pc |-> pc, egress |-> Null])

Fault(kind) ==
    /\ kind \in Faults
    /\ faults < MaxFaults
    /\ faults' = faults + 1

\* LiveKit moves an egress on and posts a webhook.  A file is there once the
\* capture completed, and perhaps when it failed.
Moves(e, status) ==
    /\ egress' = [egress EXCEPT ![e] = status]
    /\ \E file \in BOOLEAN :
           /\ status = "COMPLETE" => file
           /\ status \in Running => ~file
           /\ sent' = sent \cup {[egress |-> e, status |-> status, file |-> file]}
    /\ UNCHANGED reordered

-----------------------------------------------------------------------------
(* startRecording *)

ArriveStart(r) == At(r, "idle") /\ GoTo(r, "startSession")
                  /\ UNCHANGED <<session, recording, livekit, faults>>

\* requireLiveSessionForHost, for both operations.
RequireLive(r) ==
    /\ \/ At(r, "startSession") /\ GoTo(r, IF session = "LIVE" THEN "startRow" ELSE "idle")
       \/ At(r, "stopSession") /\ GoTo(r, IF session = "LIVE" THEN "stopRow" ELSE "idle")
    /\ UNCHANGED <<session, recording, livekit, faults>>

\* Mutant of MayStart: a capture in progress does not refuse another.
MayStartUnlessComplete == recording.status # "COMPLETE"

\* A session is captured once; only a failed capture may be tried again.
MayStart == recording = NoRecording \/ recording.status = "FAILED"

ReadBeforeStart(r) ==
    /\ At(r, "startRow")
    /\ GoTo(r, IF MayStart THEN "startEgress" ELSE "idle")
    /\ UNCHANGED <<session, recording, livekit, faults>>

\* startRoomCompositeEgress: started, refused, or started without a response.
StartEgress(r) ==
    /\ At(r, "startEgress")
    /\ \/ \E e \in Egresses :
              /\ egress[e] = "NONE"
              /\ Moves(e, "STARTING")
              /\ \/ Become(r, [pc |-> "save", egress |-> e]) /\ UNCHANGED faults
                 \/ Become(r, Idle) /\ Fault("lostResponse")
       \/ Become(r, Idle) /\ UNCHANGED <<livekit, faults>>
    /\ UNCHANGED <<session, recording>>

\* The upsert: an earlier attempt's row is taken over, its file details stay.
Saved(e) == [egress |-> e, status |-> "STARTING", file |-> recording.file]

SaveRecording(r) ==
    /\ At(r, "save")
    /\ recording' = Saved(task[r].egress)
    /\ Become(r, Idle)
    /\ UNCHANGED <<session, livekit, faults>>

-----------------------------------------------------------------------------
(* stopRecording *)

ArriveStop(r) == At(r, "idle") /\ GoTo(r, "stopSession")
                 /\ UNCHANGED <<session, recording, livekit, faults>>

ReadBeforeStop(r) ==
    /\ At(r, "stopRow")
    /\ Become(r, IF recording.status \in {"STARTING", "ACTIVE"}
                 THEN [pc |-> "stopEgress", egress |-> recording.egress] ELSE Idle)
    /\ UNCHANGED <<session, recording, livekit, faults>>

\* stopEgress; LiveKit refuses to stop what is stopping or over.
StopEgress(r) ==
    LET e == task[r].egress IN
    /\ At(r, "stopEgress")
    /\ IF egress[e] \in {"STARTING", "ACTIVE"} THEN Moves(e, "ENDING") ELSE UNCHANGED livekit
    /\ Become(r, Idle)
    /\ UNCHANGED <<session, recording, faults>>

\* A request dies, or its statement fails.
Crash(r) ==
    /\ ~At(r, "idle")
    /\ Fault("crash")
    /\ Become(r, Idle)
    /\ UNCHANGED <<session, recording, livekit>>

-----------------------------------------------------------------------------
(* Webhooks: handleEgressUpdate *)

\* Mutant of mapEgressStatus: LiveKit's word is stored as it is.
mapEgressStatusVerbatim(status) == status

mapEgressStatus(status) == IF status = "ENDING" THEN "ACTIVE" ELSE status

\* mapEgressToRecordingUpdate: while the capture runs every detail is null.
mapEgressToRecordingUpdate(m) ==
    [egress |-> m.egress, status |-> mapEgressStatus(m.status),
     file |-> m.status \in Over /\ m.file]

\* Mutant of Handled: the row is found by the session, whatever egress it names.
HandledAnyEgress(m) ==
    IF recording # NoRecording
    THEN [mapEgressToRecordingUpdate(m) EXCEPT !.egress = recording.egress] ELSE recording

\* Mutant of Handled: only a capture known to run is updated.
HandledWhileActive(m) ==
    IF recording.egress = m.egress /\ recording.status = "ACTIVE"
    THEN mapEgressToRecordingUpdate(m) ELSE recording

\* updateMany where egressId matches: an egress no row names is ignored.
Handled(m) ==
    IF recording.egress = m.egress THEN mapEgressToRecordingUpdate(m) ELSE recording

Overtakes(m) ==
    \E n \in sent : n.egress = m.egress /\ Rank[n.status] < Rank[m.status]

\* A webhook is handled, late perhaps, and perhaps not for the last time.
Webhook(m) ==
    /\ m \in sent
    /\ recording' = Handled(m)
    /\ \/ sent' = sent \ {m} /\ reordered' = (reordered \/ Overtakes(m))
       \/ sent' = sent /\ reordered' = TRUE
    /\ UNCHANGED <<session, egress, task, faults>>

LoseWebhook(m) ==
    /\ m \in sent
    /\ Fault("lostWebhook")
    /\ sent' = sent \ {m}
    /\ UNCHANGED <<session, recording, egress, reordered, task>>

-----------------------------------------------------------------------------
(* LiveKit, and the session around the recording *)

\* The capture takes its first frame.
Capture(e) ==
    /\ egress[e] = "STARTING"
    /\ Moves(e, "ACTIVE")
    /\ UNCHANGED <<session, recording, task, faults>>

\* The file is uploaded, or the upload fails.
Finish(e) ==
    /\ egress[e] = "ENDING"
    /\ \E status \in Over : Moves(e, status)
    /\ UNCHANGED <<session, recording, task, faults>>

\* A capture dies by itself.
Abort(e) ==
    /\ egress[e] \in {"STARTING", "ACTIVE"}
    /\ Moves(e, "FAILED")
    /\ UNCHANGED <<session, recording, task, faults>>

\* The room closes under a capture, which then ends.
RoomCloses(e) ==
    /\ egress[e] \in {"STARTING", "ACTIVE"}
    /\ Moves(e, "ENDING")
    /\ UNCHANGED <<session, recording, task, faults>>

\* The session ends (module LiveSession).
SessionEnds ==
    /\ session = "LIVE"
    /\ session' = "ENDED"
    /\ UNCHANGED <<recording, livekit, task, faults>>

-----------------------------------------------------------------------------
HandlerStep(r) ==
    \/ RequireLive(r)
    \/ ReadBeforeStart(r)
    \/ StartEgress(r)
    \/ SaveRecording(r)
    \/ ReadBeforeStop(r)
    \/ StopEgress(r)

Next ==
    \/ \E r \in Requests : ArriveStart(r) \/ ArriveStop(r) \/ HandlerStep(r) \/ Crash(r)
    \/ \E m \in Messages : Webhook(m) \/ LoseWebhook(m)
    \/ \E e \in Egresses : Capture(e) \/ Finish(e) \/ Abort(e) \/ RoomCloses(e)
    \/ SessionEnds

Spec == Init /\ [][Next]_vars

\* Handlers that have started go on, LiveKit completes what it was told to end
\* and delivers its webhooks.  Nothing is assumed of the host.
Fairness ==
    /\ \A r \in Requests : WF_vars(HandlerStep(r))
    /\ \A e \in Egresses : WF_vars(Finish(e))
    /\ \A e \in Egresses : WF_vars(\E m \in Messages : m.egress = e /\ Webhook(m))

FairSpec == Spec /\ Fairness

-----------------------------------------------------------------------------
(* Properties *)

\* At most one capture of a session runs at a time: a second start is refused
\* (live.service.ts:318-321).  A request that died may leave a capture behind.
SingleCapture ==
    faults = 0 => \A d, e \in Egresses :
        egress[d] \in Running /\ egress[e] \in Running => d = e

\* Every capture that runs can be stopped: the row names it, or the request
\* that started it is about to say so, unless that request died
\* (live.service.ts:362-372).
CaptureIsKnown ==
    faults = 0 => \A e \in Egresses : egress[e] \in Running =>
        recording.egress = e \/ \E r \in Requests : task[r] = [pc |-> "save", egress |-> e]

\* A recording is offered in the library, which asks for COMPLETE, only when
\* LiveKit completed it and its file is known; it may be tried again, which asks
\* for FAILED, only when it failed.  However late or often webhooks come.
OfferedIsPlayable ==
    recording.status \in Over =>
        /\ egress[recording.egress] = recording.status
        /\ recording.status = "COMPLETE" => recording.file

\* A recording that is complete stays so, with its file, as long as webhooks
\* come in order (live.service.ts:319-322 and live.service.test.ts:319).
RecordingIsKept ==
    [][recording.status = "COMPLETE" /\ ~reordered' => recording' = recording]_vars

\* A capture that was stopped, by the host or by the end of the room, ends in
\* the row too, unless webhooks are lost or out of order (live.service.ts:377).
StopIsFollowed ==
    (recording # NoRecording /\ egress[recording.egress] = "ENDING")
        ~> (recording.status \in Over \/ reordered \/ faults > 0)

\* Requests that do not overlap keep the capture in hand: there is one, it can be
\* stopped, and its end is written down.
CaptureIsInHand == [](SingleCapture /\ CaptureIsKnown) /\ StopIsFollowed

\* The status that egress_ended brings is final (live.service.ts:377): a recording
\* that is complete stays so, in whatever order webhooks come.
CompleteIsFinal == [][recording.status = "COMPLETE" => recording' = recording]_vars

\* Webhooks keep the row "in step with what LiveKit is actually doing, from the
\* moment capture starts" (live.service.ts:415-417): once a capture is over, its
\* webhooks came in order and nothing is under way any more, its row says so.
RecordingInStep ==
    /\ recording # NoRecording /\ egress[recording.egress] \in Over
    /\ ~reordered /\ sent = {} /\ \A r \in Requests : At(r, "idle")
    => recording.status = egress[recording.egress]

====
