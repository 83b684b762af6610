---- MODULE LiveStage ----
(***************************************************************************)
(* The stage of the live room (features/live-room/live-room.page.ts): the  *)
(* large video and the inset, rebuilt from what LiveKit holds of everybody *)
(* in the room whenever a track comes or goes, while Angular makes and     *)
(* drops the video elements in its own time and a screen share is being    *)
(* asked for.                                                              *)
(***************************************************************************)
EXTENDS Naturals, Sequences

CONSTANTS
    Tracks,      \* video tracks
    NoTrack,     \* none
    Local,       \* whose page it is
    Others,      \* who else may be in the room
    Teacher      \* the host, if the page is not the host's own

ASSUME StageAssumption == Local \notin Others /\ Teacher \in Others

VARIABLES
    teaching,    \* the page is the host's
    media,       \* the participants and tracks LiveKit holds on this client
    stage        \* the page

stageVars == <<teaching, media, stage>>

Persons == {Local} \cup Others

\* others: those in the room, as they came; the screen is the host's.
Media == [others : Seq(Others), camera : [Persons -> Tracks \cup {NoTrack}],
          muted : [Persons -> BOOLEAN], screen : Tracks \cup {NoTrack}, blank : BOOLEAN]

\* hasMain, hasPip: the elements exist; main, inset: what they carry; sharing:
\* the screen share asked for, and whether LiveKit has done its part.
Stages == [live : BOOLEAN, hasMain : BOOLEAN, hasPip : BOOLEAN,
           main : Tracks \cup {NoTrack}, inset : Tracks \cup {NoTrack},
           screenLive : BOOLEAN, cameraLive : BOOLEAN, swapped : BOOLEAN,
           screenOn : BOOLEAN, sharing : {"no", "start", "stop", "started", "stopped"}]

StageTypeOK ==
    /\ teaching \in BOOLEAN
    /\ media \in Media
    /\ stage \in Stages

StageInit ==
    /\ teaching \in BOOLEAN
    /\ media = [others |-> <<>>, camera |-> [p \in Persons |-> NoTrack],
                muted |-> [p \in Persons |-> FALSE], screen |-> NoTrack, blank |-> FALSE]
    /\ stage = [live |-> FALSE, hasMain |-> FALSE, hasPip |-> FALSE, main |-> NoTrack,
                inset |-> NoTrack, screenLive |-> FALSE, cameraLive |-> FALSE,
                swapped |-> FALSE, screenOn |-> FALSE, sharing |-> "no"]

-----------------------------------------------------------------------------
(* refreshStage *)

\* Which track is large, and which is the inset.
pickStageTracks(screen, camera, swapped) ==
    CASE screen = NoTrack -> <<camera, NoTrack>>
      [] camera = NoTrack -> <<screen, NoTrack>>
      [] OTHER -> IF swapped THEN <<camera, screen>> ELSE <<screen, camera>>

\* We come first, the others as they joined.
Participants(m) == <<Local>> \o m.others

\* The places of those whose camera is on: one that is muted gives up the stage.
Showing(m) == {i \in 1..Len(Participants(m)) :
                  LET p == Participants(m)[i] IN m.camera[p] # NoTrack /\ ~m.muted[p]}

\* Mutant of CameraOf: whoever is found last has the stage.
CameraOfLast(m) ==
    IF Showing(m) = {} THEN NoTrack
    ELSE m.camera[Participants(m)[CHOOSE i \in Showing(m) : \A j \in Showing(m) : i >= j]]

\* The first camera that is on.
CameraOf(m) ==
    IF Showing(m) = {} THEN NoTrack
    ELSE m.camera[Participants(m)[CHOOSE i \in Showing(m) : \A j \in Showing(m) : i <= j]]

\* The screen, of the only one who may share one, unless it is muted.
ScreenOf(m) == IF m.blank THEN NoTrack ELSE m.screen

\* syncShareState: what LiveKit holds of our own.
Sharing(m) == teaching /\ ScreenOf(m) # NoTrack

\* An element that is not there carries nothing.
Refreshed(s, m) ==
    LET both == ScreenOf(m) # NoTrack /\ CameraOf(m) # NoTrack
        swapped == s.swapped /\ both
        picked == pickStageTracks(ScreenOf(m), CameraOf(m), swapped)
    IN [s EXCEPT !.screenLive = ScreenOf(m) # NoTrack,
                 !.cameraLive = CameraOf(m) # NoTrack,
                 !.swapped = swapped,
                 !.screenOn = Sharing(m),
                 !.main = IF s.hasMain THEN picked[1] ELSE NoTrack,
                 !.inset = IF s.hasPip THEN picked[2] ELSE NoTrack]

\* A track came, went, was muted or unmuted: the event rebuilds the stage.
Changes(m) ==
    /\ media' = m
    /\ stage' = Refreshed(stage, m)
    /\ UNCHANGED teaching

-----------------------------------------------------------------------------
(* LiveKit *)

NewTracks ==
    Tracks \ ({media.screen, stage.main, stage.inset} \cup {media.camera[p] : p \in Persons})

Here == {Local} \cup {media.others[i] : i \in 1..Len(media.others)}

Sharer == IF teaching THEN Local ELSE Teacher

\* Who joins has no tracks yet, and the roster alone is told.
Comes(p) ==
    /\ p \notin Here
    /\ media' = [media EXCEPT !.others = Append(@, p), !.camera[p] = NoTrack, !.muted[p] = FALSE]
    /\ UNCHANGED <<teaching, stage>>

\* Who leaves takes their tracks along; the others stay in their order.
Leaves(i) ==
    LET p == media.others[i]
        stay == SubSeq(media.others, 1, i - 1) \o SubSeq(media.others, i + 1, Len(media.others))
    IN Changes([media EXCEPT !.others = stay, !.camera[p] = NoTrack, !.muted[p] = FALSE,
                             !.screen = IF p = Sharer THEN NoTrack ELSE @,
                             !.blank = @ /\ p # Sharer])

\* The host and who was promoted, on this page or another.
CameraStarts(p) ==
    /\ p \in Here
    /\ media.camera[p] = NoTrack
    /\ \E t \in NewTracks : Changes([media EXCEPT !.camera[p] = t, !.muted[p] = FALSE])

CameraStops(p) ==
    /\ media.camera[p] # NoTrack
    /\ Changes([media EXCEPT !.camera[p] = NoTrack, !.muted[p] = FALSE])

CameraMutes(p) ==
    /\ media.camera[p] # NoTrack
    /\ Changes([media EXCEPT !.muted[p] = ~@])

\* Someone else's screen.
ScreenStarts ==
    /\ ~teaching
    /\ Teacher \in Here
    /\ media.screen = NoTrack
    /\ \E t \in NewTracks : Changes([media EXCEPT !.screen = t])

\* Someone else's, or our own from the browser's bar.
ScreenStops ==
    /\ media.screen # NoTrack
    /\ Changes([media EXCEPT !.screen = NoTrack, !.blank = FALSE])

ScreenMutes ==
    /\ media.screen # NoTrack
    /\ Changes([media EXCEPT !.blank = ~@])

-----------------------------------------------------------------------------
(* toggleScreenShare *)

ToggleScreenShare ==
    /\ teaching
    /\ stage.live
    /\ stage.sharing = "no"
    /\ stage' = [stage EXCEPT !.sharing = IF stage.screenOn THEN "stop" ELSE "start"]
    /\ UNCHANGED <<teaching, media>>

\* LiveKit publishes what the picker chose, or unmutes what is published, or unpublishes
\* it; the event comes before the promise resolves.
ShareHappens ==
    /\ stage.sharing \in {"start", "stop"}
    /\ \/ /\ stage.sharing = "start"
          /\ \E t \in IF media.screen = NoTrack THEN NewTracks ELSE {media.screen} :
                 LET m == [media EXCEPT !.screen = t, !.blank = FALSE] IN
                 /\ media' = m
                 /\ stage' = Refreshed([stage EXCEPT !.sharing = "started"], m)
       \/ /\ stage.sharing = "stop"
          /\ LET m == [media EXCEPT !.screen = NoTrack, !.blank = FALSE] IN
             /\ media' = m
             /\ stage' = Refreshed([stage EXCEPT !.sharing = "stopped"], m)
    /\ UNCHANGED teaching

\* The promise resolves; what was pressed is believed until the rescan.
ShareResolves ==
    /\ stage.sharing \in {"started", "stopped"}
    /\ stage' = Refreshed([stage EXCEPT !.screenOn = stage.sharing = "started",
                                        !.sharing = "no"], media)
    /\ UNCHANGED <<teaching, media>>

\* The picker is dismissed, or sharing fails.
ShareRejected ==
    /\ stage.sharing \in {"start", "stop"}
    /\ stage' = Refreshed([stage EXCEPT !.sharing = "no"], media)
    /\ UNCHANGED <<teaching, media>>

-----------------------------------------------------------------------------
(* The page *)

ShowPip == stage.screenLive /\ stage.cameraLive

\* join has connected.
GoLive ==
    /\ ~stage.live
    /\ stage' = [stage EXCEPT !.live = TRUE]
    /\ UNCHANGED <<teaching, media>>

SwapViews ==
    /\ stage.hasPip
    /\ stage' = Refreshed([stage EXCEPT !.swapped = ~@], media)
    /\ UNCHANGED <<teaching, media>>

\* The elements the template calls for are there.
Rendered ==
    /\ stage.hasMain = stage.live
    /\ stage.hasPip = (stage.live /\ ShowPip)

\* Mutant of ElementsChanged: the inset is not looked at.
ElementsChangedMain(s) == s.hasMain # stage.hasMain

ElementsChanged(s) == s.hasMain # stage.hasMain \/ s.hasPip # stage.hasPip

\* A render pass makes and drops elements; a new one is empty, and the effect on
\* the elements rebuilds the stage.
Render ==
    /\ ~Rendered
    /\ LET s == [stage EXCEPT !.hasMain = stage.live,
                              !.hasPip = stage.live /\ ShowPip,
                              !.inset = IF stage.live /\ ShowPip /\ stage.hasPip
                                        THEN @ ELSE NoTrack]
       IN stage' = IF ElementsChanged(s) THEN Refreshed(s, media) ELSE s
    /\ UNCHANGED <<teaching, media>>

StageNext ==
    \/ \E p \in Others : Comes(p)
    \/ \E i \in 1..Len(media.others) : Leaves(i)
    \/ \E p \in Persons : CameraStarts(p) \/ CameraStops(p) \/ CameraMutes(p)
    \/ ScreenStarts \/ ScreenStops \/ ScreenMutes
    \/ ToggleScreenShare \/ ShareHappens \/ ShareResolves \/ ShareRejected
    \/ GoLive \/ SwapViews \/ Render

StageSpec == StageInit /\ [][StageNext]_stageVars

-----------------------------------------------------------------------------
(* Properties *)

\* Whatever order people, tracks and elements come and go in, a page that is rendered
\* shows the screen if there is one and, of those whose camera is on, the first; nothing
\* that is gone or muted is left; the screen is large unless the viewer swapped it; and
\* the button tells whether our screen is shared (live-room.page.ts:44-55 and 597-605).
StageIsCurrent ==
    stage.live /\ Rendered =>
        LET all == Participants(media)
            on == {i \in 1..Len(all) : media.camera[all[i]] # NoTrack /\ ~media.muted[all[i]]}
            first == {i \in on : \A j \in on : i <= j}
            screens == IF media.screen = NoTrack \/ media.blank THEN {} ELSE {media.screen}
            shown == {stage.main, stage.inset} \ {NoTrack}
        IN /\ shown = screens \cup {media.camera[all[i]] : i \in first}
           /\ stage.main = NoTrack => stage.inset = NoTrack
           /\ screens # {} /\ ~stage.swapped => stage.main = media.screen
           /\ stage.screenOn <=> teaching /\ screens # {}

====
