---- MODULE LiveRoomPage ----
(***************************************************************************)
(* The live room's page (features/live-room/live-room.page.ts) in the tabs *)
(* of the host and the students: joining and leaving, raised hands, the    *)
(* recording badge.  LiveKit carries messages between those who are in the *)
(* room, in order; of the server only what the page asks is here, module   *)
(* LiveSession has the rest.                                               *)
(***************************************************************************)
EXTENDS Naturals, Sequences

CONSTANTS
    Host,
    Students,
    MaxJoins,   \* bound on how often each participant opens the page
    MaxWire      \* bound on the messages on their way to one participant

People == Students \cup {Host}

ASSUME RoomAssumption ==
    /\ Host \notin Students
    /\ MaxJoins \in [People -> Nat \ {0}]
    /\ MaxWire \in Nat

VARIABLES
    session,     \* the server: is the session over, captured; who may speak
    tabs,        \* the page of each participant
    wire,        \* messages on their way to each participant
    recording,   \* the host's request to start or stop a recording
    ending,      \* and to end the session
    untold       \* history: who could not hear of a change, of "badge" or "hand"

roomVars == <<session, tabs, wire, recording, ending, untold>>

\* join: what it waits for; room: the Room object.  gone: the page is destroyed;
\* ghost: and was before there was a room.
Tabs == [join : {"token", "connect", "media", "live", "error"},
         room : {"none", "made", "in", "out"},
         gone : BOOLEAN, ghost : BOOLEAN, visits : Nat,
         canPublish : BOOLEAN, badge : BOOLEAN, hand : BOOLEAN, hands : SUBSET Students]

Messages == [kind : {"hand"}, from : Students, on : BOOLEAN]
       \cup [kind : {"recording"}, from : {Host}, on : BOOLEAN]

RoomTypeOK ==
    /\ session \in [over : BOOLEAN, captured : BOOLEAN, speakers : SUBSET Students]
    /\ tabs \in [People -> Tabs]
    /\ \A p \in People : tabs[p].visits \in 1..MaxJoins[p]
    /\ wire \in [People -> Seq(Messages)]
    /\ \A p \in People : Len(wire[p]) <= MaxWire
    /\ recording \in [want : BOOLEAN, answer : {"none", "ok", "refused"}] \cup {[want |-> "idle"]}
    /\ ending \in {"no", "asked", "ended", "refused"}
    /\ untold \subseteq People \X {"badge", "hand"}

Idle == [want |-> "idle"]

NewTab(visits) ==
    [join |-> "token", room |-> "none", gone |-> FALSE, ghost |-> FALSE, visits |-> visits,
     canPublish |-> FALSE, badge |-> FALSE, hand |-> FALSE, hands |-> {}]

RoomInit ==
    /\ session = [over |-> FALSE, captured |-> FALSE, speakers |-> {}]
    /\ tabs = [p \in People |-> NewTab(1)]
    /\ wire = [p \in People |-> <<>>]
    /\ recording = Idle
    /\ ending = "no"
    /\ untold = {}

-----------------------------------------------------------------------------
(* Helpers *)

In == {p \in People : tabs[p].room = "in"}

Live(p) == tabs[p].join = "live" /\ ~tabs[p].gone

\* publishData: to those who are in the room now; on a room that is not
\* connected nothing is sent.
Sent(p, message) ==
    [q \in People |-> IF p \in In /\ q \in In \ {p} THEN Append(wire[q], message) ELSE wire[q]]

HasSpace(p) == \A q \in In \ {p} : Len(wire[q]) < MaxWire

\* Everyone may be wrong about the recording.
Everyone == People \X {"badge"}

\* A participant is out of the room: what was on its way to it is lost, and the
\* others keep the hand they saw.
Out(p, tab) ==
    /\ tabs' = [tabs EXCEPT ![p] = tab]
    /\ wire' = [wire EXCEPT ![p] = <<>>]
    /\ untold' = untold \cup {<<p, "hand">>}

-----------------------------------------------------------------------------
(* join *)

\* The token is granted, and a Room made, whether or not the page still is.
TokenGranted(p) ==
    /\ tabs[p].join = "token"
    /\ ~session.over
    /\ tabs' = [tabs EXCEPT ![p].join = "connect", ![p].room = "made",
                            ![p].ghost = tabs[p].gone,
                            ![p].canPublish = p = Host \/ p \in session.speakers,
                            ![p].badge = session.captured]
    /\ untold' = untold \ {<<p, "badge">>}
    /\ UNCHANGED <<session, wire, recording, ending>>

TokenRefused(p) ==
    /\ tabs[p].join = "token"
    /\ tabs' = [tabs EXCEPT ![p].join = "error"]
    /\ UNCHANGED <<session, wire, recording, ending, untold>>

\* Who was not in the room when a hand went up does not hear of it.
Connects(p) ==
    /\ tabs[p].join = "connect"
    /\ tabs[p].room = "made"
    /\ tabs' = [tabs EXCEPT ![p].room = "in",
                            ![p].join = IF tabs[p].canPublish THEN "media" ELSE "live"]
    /\ untold' = IF p = Host THEN untold \cup (Students \X {"hand"}) ELSE untold
    /\ UNCHANGED <<session, wire, recording, ending>>

\* Camera and microphone are on, if the room is still there.
MediaStarts(p) ==
    /\ tabs[p].join = "media"
    /\ tabs[p].room = "in"
    /\ tabs' = [tabs EXCEPT ![p].join = "live"]
    /\ UNCHANGED <<session, wire, recording, ending, untold>>

\* No connection, or no permission for the camera: the room stays as it is.
JoinFails(p) ==
    /\ tabs[p].join \in {"connect", "media"}
    /\ tabs' = [tabs EXCEPT ![p].join = "error"]
    /\ UNCHANGED <<session, wire, recording, ending, untold>>

-----------------------------------------------------------------------------
(* Leaving *)

\* disconnect, of a room that there is.
Disconnected(tab) == IF tab.room = "none" THEN "none" ELSE "out"

\* leave: from the room, or from the message that it could not be joined.
LeaveRoom(p) ==
    /\ ~tabs[p].gone
    /\ tabs[p].join \in {"live", "error"}
    /\ p = Host => tabs[p].join = "error" \/ ending = "ended"
    /\ Out(p, [tabs[p] EXCEPT !.room = Disconnected(tabs[p]), !.gone = TRUE])
    /\ ending' = IF p = Host THEN "no" ELSE ending
    /\ UNCHANGED <<session, recording>>

\* Mutant of OnDestroy: the connection outlives the page.
OnDestroyKept(tab) == tab.room

OnDestroy(tab) == Disconnected(tab)

\* The page is left by the browser, at any moment.
Destroyed(p) ==
    /\ ~tabs[p].gone
    /\ Out(p, [tabs[p] EXCEPT !.room = OnDestroy(tabs[p]), !.gone = TRUE])
    /\ UNCHANGED <<session, recording, ending>>

\* RoomEvent.Disconnected: only a live page goes away.
Dropped(p) ==
    /\ tabs[p].room = "in"
    /\ Out(p, [tabs[p] EXCEPT !.room = "out", !.gone = @ \/ tabs[p].join = "live"])
    /\ UNCHANGED <<session, recording, ending>>

\* A new page, when nothing of the old one is left.
Rejoin(p) ==
    /\ tabs[p].gone
    /\ tabs[p].join \in {"live", "error"}
    /\ tabs[p].room # "in"
    /\ tabs[p].visits < MaxJoins[p]
    /\ tabs' = [tabs EXCEPT ![p] = NewTab(tabs[p].visits + 1)]
    /\ UNCHANGED <<session, wire, recording, ending, untold>>

-----------------------------------------------------------------------------
(* Hands *)

\* Mutant of HasHandButton: everyone has it.
HasHandButtonAlways(p) == Live(p)

\* Only those without a microphone have the button.
HasHandButton(p) == Live(p) /\ ~tabs[p].canPublish

\* The host hears of it if in the room.
ToggleHand(p) ==
    /\ HasHandButton(p)
    /\ HasSpace(p)
    /\ LET raised == ~tabs[p].hand IN
       /\ tabs' = [tabs EXCEPT ![p].hand = raised]
       /\ wire' = Sent(p, [kind |-> "hand", from |-> p, on |-> raised])
    /\ untold' = IF Host \in In THEN untold \ {<<p, "hand">>} ELSE untold \cup {<<p, "hand">>}
    /\ UNCHANGED <<session, recording, ending>>

\* onData: what others sent is taken as it comes.
OnData(p) ==
    /\ wire[p] # <<>>
    /\ LET message == Head(wire[p]) IN
       tabs' = [tabs EXCEPT
           ![p].hands = IF message.kind # "hand" THEN @
                        ELSE IF message.on THEN @ \cup {message.from} ELSE @ \ {message.from},
           ![p].badge = IF message.kind = "recording" THEN message.on ELSE @]
    /\ wire' = [wire EXCEPT ![p] = Tail(@)]
    /\ UNCHANGED <<session, recording, ending, untold>>

\* The page of the one who may speak now does not change until it joins again.
TogglePublish(s) ==
    /\ Live(Host)
    /\ s \in Students \cap In
    /\ session' = [session EXCEPT !.speakers =
                      IF s \in @ THEN @ \ {s} ELSE @ \cup {s}]
    /\ UNCHANGED <<tabs, wire, recording, ending, untold>>

-----------------------------------------------------------------------------
(* Recording *)

ToggleRecording ==
    /\ Live(Host)
    /\ recording = Idle
    /\ recording' = [want |-> ~tabs[Host].badge, answer |-> "none"]
    /\ UNCHANGED <<session, tabs, wire, ending, untold>>

\* Until it is announced, nobody but the server knows.
HandleRecording ==
    /\ recording # Idle
    /\ recording.answer = "none"
    /\ \/ /\ ~session.over
          /\ session' = [session EXCEPT !.captured = recording.want]
          /\ recording' = [recording EXCEPT !.answer = "ok"]
          /\ untold' = untold \cup Everyone
       \/ /\ recording' = [recording EXCEPT !.answer = "refused"]
          /\ UNCHANGED <<session, untold>>
    /\ UNCHANGED <<tabs, wire, ending>>

\* Mutant of Announced: only the host's own badge changes.
AnnouncedToNobody(want) == wire

Announced(want) == Sent(Host, [kind |-> "recording", from |-> Host, on |-> want])

\* The badge flips and the room is told, even if the page is gone by now and the
\* capture over; who has a token but no connection yet does not hear of it.
RecordingAnswered ==
    /\ recording # Idle
    /\ recording.answer = "ok"
    /\ HasSpace(Host)
    /\ tabs' = [tabs EXCEPT ![Host].badge = recording.want]
    /\ wire' = Announced(recording.want)
    /\ untold' = IF session.captured = recording.want
                 THEN untold \ ((IF Host \in In THEN In ELSE {Host}) \X {"badge"})
                 ELSE untold \cup Everyone
    /\ recording' = Idle
    /\ UNCHANGED <<session, ending>>

RecordingFails ==
    /\ recording # Idle
    /\ recording' = Idle
    /\ UNCHANGED <<session, tabs, wire, ending, untold>>

\* The capture ends without anybody asking.
CaptureEnds ==
    /\ session.captured
    /\ session' = [session EXCEPT !.captured = FALSE]
    /\ untold' = untold \cup Everyone
    /\ UNCHANGED <<tabs, wire, recording, ending>>

-----------------------------------------------------------------------------
(* End session *)

EndSession ==
    /\ Live(Host)
    /\ ending = "no"
    /\ ending' = "asked"
    /\ UNCHANGED <<session, tabs, wire, recording, untold>>

HandleEnd ==
    /\ ending = "asked"
    /\ \/ /\ session' = [session EXCEPT !.over = TRUE, !.captured = FALSE]
          /\ untold' = untold \cup Everyone
          /\ ending' = "ended"
       \/ ending' = "refused" /\ UNCHANGED <<session, untold>>
    /\ UNCHANGED <<tabs, wire, recording>>

\* The host's page leaves on the answer (LeaveRoom); otherwise it says that it could
\* not end the session.
EndFails ==
    /\ ending \in {"asked", "ended", "refused"}
    /\ ending' = "no"
    /\ UNCHANGED <<session, tabs, wire, recording, untold>>

RoomNext ==
    \/ \E p \in People :
           \/ TokenGranted(p) \/ TokenRefused(p) \/ Connects(p) \/ MediaStarts(p) \/ JoinFails(p)
           \/ LeaveRoom(p) \/ Destroyed(p) \/ Dropped(p) \/ Rejoin(p)
           \/ ToggleHand(p) \/ OnData(p)
    \/ \E s \in Students : TogglePublish(s)
    \/ ToggleRecording \/ HandleRecording \/ RecordingAnswered \/ RecordingFails \/ CaptureEnds
    \/ EndSession \/ HandleEnd \/ EndFails

RoomSpec == RoomInit /\ [][RoomNext]_roomVars

-----------------------------------------------------------------------------
(* Properties *)

\* Nobody stays in the room whose page is gone, with the camera on or not,
\* unless the page went before there was a room to leave
\* (live-room.page.ts:529, 837-841).
GoneIsDisconnected ==
    \A p \in People : tabs[p].gone /\ ~tabs[p].ghost => tabs[p].room # "in"

\* Everyone in the room knows whether it is recorded, and the host sees who has
\* a hand up, once messages are through: unless they joined between the change
\* and the telling, or nobody could tell them (live-room.page.ts:833-838).
RoomIsTold ==
    \A p \in In :
        /\ wire[p] = <<>> /\ <<p, "badge">> \notin untold => tabs[p].badge = session.captured
        /\ (/\ Host \in In /\ wire[Host] = <<>>
            /\ p # Host /\ <<p, "hand">> \notin untold) =>
               (tabs[p].hand <=> p \in tabs[Host].hands)

====
