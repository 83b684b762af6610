---- MODULE WebProofs ----
(***************************************************************************)
(* Proofs about the live room, the host's pages for a class, and the pages *)
(* of the application taken together, for every set of students, tracks    *)
(* and things, and every bound on joins, messages, requests and edits.     *)
(***************************************************************************)
EXTENDS BuyerProofs, MCWeb, SequenceTheorems

-----------------------------------------------------------------------------
(* LiveStage *)

Picked == pickStageTracks(ScreenOf(media), CameraOf(media), stage.swapped)

\* What the page believes and what its elements carry is what the last event said.
StageTruth ==
    /\ stage.screenLive = (ScreenOf(media) # NoTrack)
    /\ stage.cameraLive = (CameraOf(media) # NoTrack)
    /\ stage.swapped => stage.screenLive /\ stage.cameraLive
    /\ stage.screenOn = Sharing(media)
    /\ stage.main = IF stage.hasMain THEN Picked[1] ELSE NoTrack
    /\ stage.inset = IF stage.hasPip THEN Picked[2] ELSE NoTrack

StageInv == StageTypeOK /\ StageTruth

\* Of some places there is a first.
LEMMA FirstPlace ==
    ASSUME NEW S, S \subseteq Nat, S # {}
    PROVE  \E i \in S : \A j \in S : i <= j
<1>1. PICK i \in S : \A j \in S : <<j, i>> \notin OpToRel(<, Nat)
    BY WFMin, NatLessThanWellFounded
<1>2. \A j \in S : ~(j < i)
    BY <1>1 DEF OpToRel
<1> QED
    BY <1>2

LEMMA EveryoneThere ==
    ASSUME NEW m \in Media
    PROVE  /\ Participants(m) \in Seq(Persons) /\ Len(Participants(m)) \in Nat
           /\ Showing(m) \subseteq Nat
           /\ \A i \in Showing(m) : /\ i \in 1..Len(Participants(m))
                                   /\ Participants(m)[i] \in Persons
<1>1. m.others \in Seq(Persons) /\ <<Local>> \in Seq(Persons)
    BY DEF Media, Persons
<1>2. Participants(m) \in Seq(Persons)
    BY <1>1, ConcatProperties DEF Participants
<1> QED
    BY <1>2, LenProperties, ElementOfSeq DEF Showing

First(m) == {i \in Showing(m) : \A j \in Showing(m) : i <= j}

\* The camera is that of the first who shows one, and none if nobody does.
LEMMA TheCamera ==
    ASSUME NEW m \in Media
    PROVE  /\ CameraOf(m) \in Tracks \cup {NoTrack}
           /\ {m.camera[Participants(m)[i]] : i \in First(m)} =
                  IF CameraOf(m) = NoTrack THEN {} ELSE {CameraOf(m)}
<1>1. CASE Showing(m) = {}
    BY <1>1 DEF CameraOf, First
<1>2. CASE Showing(m) # {}
    <2> DEFINE IsFirst(i) == \A j \in Showing(m) : i <= j
               k == CHOOSE i \in Showing(m) : IsFirst(i)
    <2>1. \E i \in Showing(m) : IsFirst(i)
        BY <1>2, EveryoneThere, FirstPlace
    <2>2. k \in Showing(m) /\ IsFirst(k)
        BY <2>1
    <2>3. CameraOf(m) = m.camera[Participants(m)[k]]
        BY <1>2 DEF CameraOf
    <2> HIDE DEF k
    <2>4. \A i \in First(m) : i = k
        BY <2>2, EveryoneThere DEF First
    <2>5. First(m) = {k}
        BY <2>2, <2>4 DEF First
    <2>6. CameraOf(m) # NoTrack
        BY <2>2, <2>3 DEF Showing
    <2>7. CameraOf(m) \in Tracks
        BY <2>2, <2>3, <2>6, EveryoneThere DEF Media
    <2> QED
        BY <2>3, <2>5, <2>6, <2>7
<1> QED
    BY <1>1, <1>2

\* The pick is one of the two tracks, or none.
LEMMA PickedTracks ==
    ASSUME NEW m \in Media, NEW b \in BOOLEAN
    PROVE  LET p == pickStageTracks(ScreenOf(m), CameraOf(m), b)
           IN  p[1] \in Tracks \cup {NoTrack} /\ p[2] \in Tracks \cup {NoTrack}
<1>1. ScreenOf(m) \in Tracks \cup {NoTrack} /\ CameraOf(m) \in Tracks \cup {NoTrack}
    BY TheCamera DEF Media, ScreenOf
<1> QED
    BY <1>1 DEF pickStageTracks

\* Whatever the page was, rebuilding its stage makes it true of the tracks.
LEMMA RefreshStep ==
    ASSUME NEW s \in Stages, NEW m \in Media, teaching \in BOOLEAN, UNCHANGED teaching,
           media' = m, stage' = Refreshed(s, m)
    PROVE  StageInv'
<1> DEFINE both == ScreenOf(m) # NoTrack /\ CameraOf(m) # NoTrack
           swapped == s.swapped /\ both
           picked == pickStageTracks(ScreenOf(m), CameraOf(m), swapped)
<1>1. /\ s.hasMain \in BOOLEAN /\ s.hasPip \in BOOLEAN /\ s.swapped \in BOOLEAN
      /\ Sharing(m) \in BOOLEAN /\ swapped \in BOOLEAN
    BY DEF Stages, Sharing
<1>2. picked[1] \in Tracks \cup {NoTrack} /\ picked[2] \in Tracks \cup {NoTrack}
    BY <1>1, PickedTracks
<1>3. stage' = [s EXCEPT !.screenLive = ScreenOf(m) # NoTrack,
                         !.cameraLive = CameraOf(m) # NoTrack,
                         !.swapped = swapped,
                         !.screenOn = Sharing(m),
                         !.main = IF s.hasMain THEN picked[1] ELSE NoTrack,
                         !.inset = IF s.hasPip THEN picked[2] ELSE NoTrack]
    BY DEF Refreshed
<1> HIDE DEF picked, swapped
<1>4. /\ stage' \in Stages
      /\ stage'.screenLive = (ScreenOf(m) # NoTrack)
      /\ stage'.cameraLive = (CameraOf(m) # NoTrack)
      /\ stage'.swapped = swapped
      /\ stage'.screenOn = Sharing(m)
      /\ stage'.hasMain = s.hasMain /\ stage'.hasPip = s.hasPip
      /\ stage'.main = IF s.hasMain THEN picked[1] ELSE NoTrack
      /\ stage'.inset = IF s.hasPip THEN picked[2] ELSE NoTrack
    BY <1>1, <1>2, <1>3 DEF Stages
<1>5. Picked' = picked
    BY <1>4 DEF Picked, picked
<1>6. StageTruth'
    BY <1>4, <1>5 DEF StageTruth, swapped, Sharing
<1> QED
    BY <1>4, <1>6 DEF StageInv, StageTypeOK

LEMMA StageInitial == StageInit => StageInv
<1> SUFFICES ASSUME StageInit PROVE StageInv
    OBVIOUS
<1>1. StageTypeOK
    <2>1. media \in Media
        BY EmptySeq DEF StageInit, Media
    <2>2. stage \in Stages
        BY DEF StageInit, Stages
    <2> QED
        BY <2>1, <2>2 DEF StageInit, StageTypeOK
<1>2. Showing(media) = {}
    <2>1. \A i \in Showing(media) : Participants(media)[i] \in Persons
        BY <1>1, EveryoneThere DEF StageTypeOK
    <2> QED
        BY <2>1 DEF StageInit, Showing
<1>3. CameraOf(media) = NoTrack /\ ScreenOf(media) = NoTrack
    BY <1>2 DEF CameraOf, StageInit, ScreenOf
<1>4. StageTruth
    BY <1>3 DEF StageInit, StageTruth, Sharing
<1> QED
    BY <1>1, <1>4 DEF StageInv

\* Who joins shows nothing, and stands behind those who do.
LEMMA ComingShowsNothing ==
    ASSUME NEW m \in Media, NEW p \in Others, NEW n,
           \A i \in 1..Len(m.others) : m.others[i] # p,
           n = [m EXCEPT !.others = Append(@, p), !.camera[p] = NoTrack, !.muted[p] = FALSE]
    PROVE  n \in Media /\ CameraOf(n) = CameraOf(m) /\ ScreenOf(n) = ScreenOf(m)
<1> DEFINE P == Participants(m)
           Q == Participants(n)
<1>1. /\ m.others \in Seq(Others) /\ n.others = Append(m.others, p)
      /\ \A q \in Persons : q # p => n.camera[q] = m.camera[q] /\ n.muted[q] = m.muted[q]
      /\ n.camera[p] = NoTrack /\ n.screen = m.screen /\ n.blank = m.blank
    BY DEF Media, Persons
<1>2. n \in Media
    <2>1. Append(m.others, p) \in Seq(Others)
        BY <1>1, AppendProperties
    <2> QED
        BY <2>1 DEF Media, Persons
<1>3. /\ P \in Seq(Persons) /\ Q \in Seq(Persons)
      /\ Len(P) = Len(m.others) + 1 /\ Len(Q) = Len(m.others) + 2
      /\ Len(m.others) \in Nat
    <2>1. /\ n.others \in Seq(Others) /\ Len(m.others) \in Nat
          /\ Len(n.others) = Len(m.others) + 1
        BY <1>1, AppendProperties, LenProperties
    <2>2. Len(P) = 1 + Len(m.others) /\ Len(Q) = 1 + Len(n.others)
        BY <1>1, <2>1 DEF Participants
    <2> HIDE DEF P, Q
    <2>3. P \in Seq(Persons) /\ Q \in Seq(Persons)
        BY <1>2, EveryoneThere DEF P, Q
    <2> QED
        BY <2>1, <2>2, <2>3
<1>4. \A i \in 1..Len(P) : Q[i] = P[i]
    BY <1>1, <1>3 DEF Participants
<1>5. Q[Len(Q)] = p
    BY <1>1, <1>3 DEF Participants
<1>6. \A i \in 1..Len(P) : P[i] \in Persons /\ P[i] # p
    BY <1>1, <1>3, StageAssumption DEF Participants, Persons
<1> HIDE DEF P, Q
<1>7. Showing(n) = {i \in 1..Len(Q) : n.camera[Q[i]] # NoTrack /\ ~n.muted[Q[i]]}
    BY DEF Showing, Q
<1>8. Showing(m) = {i \in 1..Len(P) : m.camera[P[i]] # NoTrack /\ ~m.muted[P[i]]}
    BY DEF Showing, P
<1>9. \A i : i \in 1..Len(Q) <=> i \in 1..Len(P) \/ i = Len(Q)
    BY <1>3
<1>10. \A i \in 1..Len(P) : n.camera[Q[i]] = m.camera[P[i]] /\ n.muted[Q[i]] = m.muted[P[i]]
    BY <1>1, <1>4, <1>6
<1>11. Showing(n) = Showing(m)
    <2>1. n.camera[Q[Len(Q)]] = NoTrack
        BY <1>1, <1>5
    <2>2. \A i \in 1..Len(Q) : n.camera[Q[i]] # NoTrack => i \in 1..Len(P)
        BY <1>9, <2>1
    <2>3. \A i \in 1..Len(P) : i \in 1..Len(Q)
        BY <1>9
    <2> HIDE DEF Q
    <2> QED
        BY <1>7, <1>8, <1>10, <2>2, <2>3
<1>12. CameraOf(n) = CameraOf(m)
    <2>1. CASE Showing(m) = {}
        BY <1>11, <2>1 DEF CameraOf
    <2>2. CASE Showing(m) # {}
        <3> DEFINE k == CHOOSE i \in Showing(m) : \A j \in Showing(m) : i <= j
        <3>1. k \in Showing(m)
            BY <2>2, EveryoneThere, FirstPlace
        <3>2. CameraOf(m) = m.camera[P[k]] /\ CameraOf(n) = n.camera[Q[k]]
            BY <1>11, <2>2 DEF CameraOf, P, Q
        <3> HIDE DEF k
        <3> QED
            BY <1>8, <1>10, <3>1, <3>2
    <2> QED
        BY <2>1, <2>2
<1> QED
    BY <1>1, <1>2, <1>12 DEF ScreenOf

LEMMA StageInductive == StageInv /\ [StageNext]_stageVars => StageInv'
<1> SUFFICES ASSUME StageInv, [StageNext]_stageVars PROVE StageInv'
    OBVIOUS
<1>0. teaching \in BOOLEAN /\ media \in Media /\ stage \in Stages
    BY DEF StageInv, StageTypeOK
<1>1. ASSUME NEW m \in Media, Changes(m) PROVE StageInv'
    BY <1>0, <1>1, RefreshStep DEF Changes
<1>2. ASSUME NEW p \in Persons, CameraStarts(p) PROVE StageInv'
    <2>1. PICK t \in Tracks : Changes([media EXCEPT !.camera[p] = t, !.muted[p] = FALSE])
        BY <1>2 DEF CameraStarts, NewTracks
    <2>2. [media EXCEPT !.camera[p] = t, !.muted[p] = FALSE] \in Media
        BY <1>0 DEF Media
    <2> QED
        BY <1>1, <2>1, <2>2
<1>3. ASSUME NEW p \in Persons, CameraStops(p) \/ CameraMutes(p) PROVE StageInv'
    <2>1. /\ [media EXCEPT !.camera[p] = NoTrack, !.muted[p] = FALSE] \in Media
          /\ [media EXCEPT !.muted[p] = ~@] \in Media
        BY <1>0 DEF Media
    <2> QED
        BY <1>1, <1>3, <2>1 DEF CameraStops, CameraMutes
<1>4. CASE ScreenStarts
    BY <1>0, <1>1, <1>4 DEF ScreenStarts, NewTracks, Media
<1>5. CASE ScreenStops \/ ScreenMutes
    BY <1>0, <1>1, <1>5 DEF ScreenStops, ScreenMutes, Media
<1>6. ASSUME NEW p \in Others, Comes(p) PROVE StageInv'
    <2>1. \A i \in 1..Len(media.others) : media.others[i] # p
        BY <1>6 DEF Comes, Here
    <2>2. /\ media' \in Media /\ CameraOf(media') = CameraOf(media)
          /\ ScreenOf(media') = ScreenOf(media) /\ UNCHANGED <<teaching, stage>>
        BY <1>0, <1>6, <2>1, ComingShowsNothing DEF Comes
    <2>3. StageTypeOK'
        BY <1>0, <2>2 DEF StageTypeOK
    <2>4. StageTruth'
        BY <2>2 DEF StageInv, StageTruth, Picked, Sharing
    <2> QED
        BY <2>3, <2>4 DEF StageInv
<1>7. ASSUME NEW i \in 1..Len(media.others), Leaves(i) PROVE StageInv'
    <2> DEFINE p == media.others[i]
               stay == SubSeq(media.others, 1, i - 1)
                           \o SubSeq(media.others, i + 1, Len(media.others))
               m == [media EXCEPT !.others = stay, !.camera[p] = NoTrack, !.muted[p] = FALSE,
                                  !.screen = IF p = Sharer THEN NoTrack ELSE @,
                                  !.blank = @ /\ p # Sharer]
    <2>1. media.others \in Seq(Others) /\ Len(media.others) \in Nat
        BY <1>0, LenProperties DEF Media
    <2>2. /\ SubSeq(media.others, 1, i - 1) \in Seq(Others)
          /\ SubSeq(media.others, i + 1, Len(media.others)) \in Seq(Others)
        BY <2>1, SubSeqProperties
    <2>3. stay \in Seq(Others)
        BY <2>2, ConcatProperties
    <2>4. Changes(m)
        BY <1>7 DEF Leaves
    <2> HIDE DEF stay
    <2>5. m \in Media
        BY <1>0, <2>3 DEF Media
    <2> HIDE DEF m
    <2> QED
        BY <1>1, <2>4, <2>5
<1>8. CASE ToggleScreenShare
    BY <1>0, <1>8
    DEF ToggleScreenShare, Stages, StageInv, StageTypeOK, StageTruth, Picked, Sharing
<1>9. CASE ShareHappens
    <2>1. CASE stage.sharing = "start"
        <3>1. PICK t \in Tracks :
                  LET m == [media EXCEPT !.screen = t, !.blank = FALSE] IN
                  /\ media' = m
                  /\ stage' = Refreshed([stage EXCEPT !.sharing = "started"], m)
            BY <1>0, <1>9, <2>1 DEF ShareHappens, NewTracks, Media
        <3>2. /\ [media EXCEPT !.screen = t, !.blank = FALSE] \in Media
              /\ [stage EXCEPT !.sharing = "started"] \in Stages
            BY <1>0 DEF Media, Stages
        <3> QED
            BY <1>0, <1>9, <3>1, <3>2, RefreshStep DEF ShareHappens
    <2>2. CASE stage.sharing # "start"
        <3>1. /\ [media EXCEPT !.screen = NoTrack, !.blank = FALSE] \in Media
              /\ [stage EXCEPT !.sharing = "stopped"] \in Stages
            BY <1>0 DEF Media, Stages
        <3> QED
            BY <1>0, <1>9, <2>2, <3>1, RefreshStep DEF ShareHappens
    <2> QED
        BY <2>1, <2>2
<1>10. CASE ShareResolves
    <2>1. [stage EXCEPT !.screenOn = stage.sharing = "started", !.sharing = "no"] \in Stages
        BY <1>0 DEF Stages
    <2> QED
        BY <1>0, <1>10, <2>1, RefreshStep DEF ShareResolves
<1>11. CASE ShareRejected
    <2>1. [stage EXCEPT !.sharing = "no"] \in Stages
        BY <1>0 DEF Stages
    <2> QED
        BY <1>0, <1>11, <2>1, RefreshStep DEF ShareRejected
<1>12. CASE GoLive
    BY <1>0, <1>12
    DEF GoLive, Stages, StageInv, StageTypeOK, StageTruth, Picked, Sharing
<1>13. CASE SwapViews
    <2>1. [stage EXCEPT !.swapped = ~@] \in Stages
        BY <1>0 DEF Stages
    <2> QED
        BY <1>0, <1>13, <2>1, RefreshStep DEF SwapViews
<1>14. CASE Render
    <2> DEFINE s == [stage EXCEPT !.hasMain = stage.live,
                                  !.hasPip = stage.live /\ ShowPip,
                                  !.inset = IF stage.live /\ ShowPip /\ stage.hasPip
                                            THEN @ ELSE NoTrack]
    <2>1. s \in Stages /\ s.hasMain = stage.live /\ s.hasPip = (stage.live /\ ShowPip)
        BY <1>0 DEF Stages, ShowPip
    <2>2. ElementsChanged(s)
        BY <1>14, <2>1 DEF Render, Rendered, ElementsChanged
    <2> QED
        BY <1>0, <1>14, <2>1, <2>2, RefreshStep DEF Render
<1>15. CASE UNCHANGED stageVars
    BY <1>15 DEF stageVars, StageInv, StageTypeOK, StageTruth, Picked, Sharing
<1> QED
    BY <1>2, <1>3, <1>4, <1>5, <1>6, <1>7, <1>8, <1>9, <1>10, <1>11, <1>12, <1>13, <1>14, <1>15
    DEF StageNext

\* Whatever order people, tracks and elements come and go in, a page that is rendered
\* shows the screen if there is one and, of those whose camera is on, the first; nothing
\* that is gone or muted is left; the screen is large unless the viewer swapped it; and
\* the button tells whether our screen is shared (live-room.page.ts:44-55 and 597-605).
THEOREM StageShowsTracks == StageSpec => []StageIsCurrent
<1>1. StageInv => StageIsCurrent
    <2> SUFFICES ASSUME StageInv, stage.live, Rendered PROVE StageIsCurrent
        BY DEF StageIsCurrent
    <2> DEFINE screen == ScreenOf(media)
               camera == CameraOf(media)
               cameras == {media.camera[Participants(media)[i]] : i \in First(media)}
               screens == IF media.screen = NoTrack \/ media.blank THEN {} ELSE {media.screen}
               shown == {stage.main, stage.inset} \ {NoTrack}
    <2>1. stage.hasMain /\ stage.hasPip = (screen # NoTrack /\ camera # NoTrack)
        BY DEF StageInv, StageTruth, Rendered, ShowPip
    <2>2. cameras = IF camera = NoTrack THEN {} ELSE {camera}
        BY TheCamera DEF StageInv, StageTypeOK
    <2>3. /\ screens = IF screen = NoTrack THEN {} ELSE {screen}
          /\ screen # NoTrack => screen = media.screen
        BY DEF ScreenOf
    <2>4. /\ stage.main = Picked[1]
          /\ stage.inset = IF screen # NoTrack /\ camera # NoTrack THEN Picked[2] ELSE NoTrack
          /\ Picked = pickStageTracks(screen, camera, stage.swapped)
          /\ stage.screenOn = (teaching /\ screen # NoTrack)
        BY <2>1 DEF StageInv, StageTruth, Picked, Sharing
    <2> HIDE DEF screen, camera, cameras, screens
    <2>5. /\ shown = screens \cup cameras
          /\ stage.main = NoTrack => stage.inset = NoTrack
          /\ screens # {} /\ ~stage.swapped => stage.main = media.screen
          /\ stage.screenOn <=> teaching /\ screens # {}
        BY <2>2, <2>3, <2>4 DEF pickStageTracks
    <2> QED
        BY <2>5 DEF StageIsCurrent, screens, cameras, First, Showing
<1> QED
    BY StageInitial, StageInductive, <1>1, PTL DEF StageSpec

\* The tracks, elements and buttons of the live page have their types.
THEOREM StageTypeCorrect == StageSpec => []StageTypeOK
<1>1. StageInv => StageTypeOK
    BY DEF StageInv
<1> QED
    BY StageInitial, StageInductive, <1>1, PTL DEF StageSpec

-----------------------------------------------------------------------------
(* LiveRoomPage *)

USE RoomAssumption

\* Who believes old, and hears what is on its way from q, then knows new.
Tells(w, q, old, new) ==
    /\ \A i \in 1..Len(w) :
           w[i].from = q /\ (\A j \in 1..Len(w) : j > i => w[j].from # q) => w[i].on = new
    /\ (\A i \in 1..Len(w) : w[i].from # q) => old = new

\* No connection without a token; a page that is gone has left its room, and its
\* hand is forgotten.
Joining ==
    \A p \in People :
        /\ tabs[p].room # "in" => wire[p] = <<>>
        /\ tabs[p].join = "token" => tabs[p].room = "none"
        /\ Live(p) => tabs[p].room = "in"
        /\ tabs[p].gone => <<p, "hand">> \in untold
        /\ tabs[p].gone /\ ~tabs[p].ghost => tabs[p].room \notin {"made", "in"}

\* The host speaks from the start, and does not hear itself.
HostTab ==
    /\ tabs[Host].join \in {"connect", "media", "live"} => tabs[Host].canPublish
    /\ \A i \in 1..Len(wire[Host]) : wire[Host][i].from # Host

\* Whose badge is wrong has it coming, or could not hear of it.
BadgeTold ==
    \A p \in People :
        tabs[p].room \in {"made", "in"} /\ <<p, "badge">> \notin untold =>
            Tells(wire[p], Host, tabs[p].badge, session.captured)

\* The same of what the host sees of a student's hand.
HandTold ==
    \A s \in Students :
        tabs[Host].room = "in" /\ <<s, "hand">> \notin untold =>
            Tells(wire[Host], s, s \in tabs[Host].hands, tabs[s].hand)

RoomInv == RoomTypeOK /\ Joining /\ HostTab /\ BadgeTold /\ HandTold

LEMMA TellsNothing ==
    ASSUME NEW q, NEW old, NEW new
    PROVE  Tells(<<>>, q, old, new) <=> old = new
BY DEF Tells

LEMMA TellsMore ==
    ASSUME NEW S, NEW w \in Seq(S), NEW m \in S, NEW q, NEW old, NEW new,
           m.from = q \/ Tells(w, q, old, new), m.from = q => m.on = new
    PROVE  Tells(Append(w, m), q, old, new)
<1> DEFINE v == Append(w, m)
<1>1. /\ v \in Seq(S) /\ Len(w) \in Nat /\ Len(v) = Len(w) + 1
      /\ \A i \in 1..Len(w) : v[i] = w[i]
      /\ v[Len(v)] = m
    BY AppendProperties, LenProperties
<1> HIDE DEF v
<1>2. ASSUME NEW i \in 1..Len(v), v[i].from = q,
             \A j \in 1..Len(v) : j > i => v[j].from # q
      PROVE  v[i].on = new
    <2>1. CASE i = Len(v)
        BY <1>1, <1>2, <2>1
    <2>2. CASE i # Len(v)
        <3>1. i \in 1..Len(w) /\ Len(v) \in 1..Len(v) /\ Len(v) > i
            BY <1>1, <2>2
        <3>2. m.from # q
            BY <1>1, <1>2, <3>1
        <3>3. Tells(w, q, old, new)
            BY <3>2
        <3>4. \A j \in 1..Len(w) : j \in 1..Len(v) /\ v[j] = w[j]
            BY <1>1
        <3>5. \A j \in 1..Len(w) : j > i => w[j].from # q
            BY <1>2, <3>4
        <3> QED
            BY <1>2, <3>1, <3>3, <3>4, <3>5 DEF Tells
    <2> QED
        BY <2>1, <2>2
<1>3. ASSUME \A i \in 1..Len(v) : v[i].from # q PROVE old = new
    <2>1. Len(v) \in 1..Len(v) /\ (\A j \in 1..Len(w) : j \in 1..Len(v) /\ v[j] = w[j])
        BY <1>1
    <2>2. m.from # q /\ (\A j \in 1..Len(w) : w[j].from # q)
        BY <1>1, <1>3, <2>1
    <2> QED
        BY <2>2 DEF Tells
<1>4. Tells(v, q, old, new)
    BY <1>2, <1>3 DEF Tells
<1> QED
    BY <1>4 DEF v

LEMMA TellsLess ==
    ASSUME NEW S, NEW w \in Seq(S), w # <<>>, NEW q, NEW old, NEW new, Tells(w, q, old, new)
    PROVE  Tells(Tail(w), q, IF Head(w).from = q THEN Head(w).on ELSE old, new)
<1> DEFINE v == Tail(w)
           now == IF Head(w).from = q THEN Head(w).on ELSE old
<1>1. /\ Len(w) \in Nat \ {0} /\ Len(v) = Len(w) - 1 /\ Head(w) = w[1]
      /\ \A i \in 1..Len(v) : v[i] = w[i + 1]
    BY HeadTailProperties, LenProperties, EmptySeq
<1> HIDE DEF v
<1>2. ASSUME NEW i \in 1..Len(v), v[i].from = q,
             \A j \in 1..Len(v) : j > i => v[j].from # q
      PROVE  v[i].on = new
    <2>1. i + 1 \in 1..Len(w) /\ w[i + 1] = v[i]
        BY <1>1
    <2>2. ASSUME NEW j \in 1..Len(w), j > i + 1 PROVE w[j].from # q
        <3>1. j - 1 \in 1..Len(v) /\ j - 1 > i /\ (j - 1) + 1 = j
            BY <1>1, <2>2
        <3>2. v[j - 1] = w[j]
            BY <1>1, <3>1
        <3> QED
            BY <1>2, <3>1, <3>2
    <2> QED
        BY <1>2, <2>1, <2>2 DEF Tells
<1>3. ASSUME \A i \in 1..Len(v) : v[i].from # q PROVE now = new
    <2>1. ASSUME NEW j \in 1..Len(w), j > 1 PROVE w[j].from # q
        <3>1. j - 1 \in 1..Len(v) /\ (j - 1) + 1 = j
            BY <1>1, <2>1
        <3>2. v[j - 1] = w[j]
            BY <1>1, <3>1
        <3> QED
            BY <1>3, <3>1, <3>2
    <2>2. 1 \in 1..Len(w)
        BY <1>1
    <2>3. CASE w[1].from = q
        BY <1>1, <2>1, <2>2, <2>3 DEF Tells
    <2>4. CASE w[1].from # q
        <3>1. \A j \in 1..Len(w) : w[j].from # q
            BY <1>1, <2>1, <2>4
        <3> QED
            BY <1>1, <2>4, <3>1 DEF Tells
    <2> QED
        BY <2>3, <2>4
<1>4. Tells(v, q, now, new)
    BY <1>2, <1>3 DEF Tells
<1> QED
    BY <1>4 DEF v


-----------------------------------------------------------------------------
(* The type *)

LEMMA SentType ==
    ASSUME RoomTypeOK, NEW p \in People, NEW m \in Messages, HasSpace(p)
    PROVE  /\ Sent(p, m) \in [People -> Seq(Messages)]
           /\ \A q \in People : Len(Sent(p, m)[q]) <= MaxWire
<1>1. ASSUME NEW q \in People
      PROVE  Sent(p, m)[q] \in Seq(Messages) /\ Len(Sent(p, m)[q]) <= MaxWire
    <2>1. CASE p \in In /\ q \in In \ {p}
        <3>1. Sent(p, m)[q] = Append(wire[q], m) /\ wire[q] \in Seq(Messages)
            BY <2>1 DEF Sent, RoomTypeOK
        <3>2. Len(wire[q]) < MaxWire
            BY <2>1 DEF HasSpace
        <3>3. Len(wire[q]) \in Nat
            BY <3>1, LenProperties
        <3>4. /\ Append(wire[q], m) \in Seq(Messages)
              /\ Len(Append(wire[q], m)) = Len(wire[q]) + 1
            BY <3>1, AppendProperties
        <3> QED
            BY <3>1, <3>2, <3>3, <3>4
    <2>2. CASE ~(p \in In /\ q \in In \ {p})
        BY <2>2 DEF Sent, RoomTypeOK
    <2> QED
        BY <2>1, <2>2
<1> QED
    BY <1>1 DEF Sent

\* One tab has changed, and what is on its way to it is as it was or lost.
LEMMA OutType ==
    ASSUME RoomTypeOK, NEW p \in People, NEW tab \in Tabs, tab.visits = tabs[p].visits, Out(p, tab)
    PROVE  /\ tabs' \in [People -> Tabs]
           /\ \A q \in People : tabs'[q].visits \in 1..MaxJoins[q]
           /\ wire' \in [People -> Seq(Messages)]
           /\ \A q \in People : Len(wire'[q]) <= MaxWire
           /\ untold' \subseteq People \X {"badge", "hand"}
<1>1. tabs' \in [People -> Tabs] /\ \A q \in People : tabs'[q].visits \in 1..MaxJoins[q]
    BY DEF Out, RoomTypeOK
<1>2. /\ wire' \in [People -> Seq(Messages)]
      /\ \A q \in People : Len(wire'[q]) <= MaxWire
    <2>1. <<>> \in Seq(Messages) /\ Len(<<>>) = 0
        BY EmptySeq
    <2> QED
        BY <2>1 DEF Out, RoomTypeOK
<1> QED
    BY <1>1, <1>2 DEF Out, RoomTypeOK

\* One tab changes: what it may become.
LEMMA TabHas ==
    ASSUME NEW t \in Tabs
    PROVE  /\ t.badge \in BOOLEAN /\ t.hand \in BOOLEAN /\ t.gone \in BOOLEAN
           /\ t.room \in {"none", "made", "in", "out"} /\ t.hands \subseteq Students
BY DEF Tabs

LEMMA TabAdmitted ==
    ASSUME NEW t \in Tabs, NEW g \in BOOLEAN, NEW c \in BOOLEAN, NEW b \in BOOLEAN
    PROVE  LET u == [t EXCEPT !.join = "connect", !.room = "made", !.ghost = g,
                              !.canPublish = c, !.badge = b]
           IN u \in Tabs /\ u.visits = t.visits
BY DEF Tabs

LEMMA TabConnected ==
    ASSUME NEW t \in Tabs, NEW j \in {"media", "live"}
    PROVE  LET u == [t EXCEPT !.room = "in", !.join = j] IN u \in Tabs /\ u.visits = t.visits
BY DEF Tabs

LEMMA TabLeft ==
    ASSUME NEW t \in Tabs, NEW r \in {"none", "made", "in", "out"}, NEW g \in BOOLEAN
    PROVE  LET u == [t EXCEPT !.room = r, !.gone = g] IN u \in Tabs /\ u.visits = t.visits
BY DEF Tabs

LEMMA TabHeard ==
    ASSUME NEW t \in Tabs, NEW h \in SUBSET Students, NEW b \in BOOLEAN
    PROVE  LET u == [t EXCEPT !.hands = h, !.badge = b] IN u \in Tabs /\ u.visits = t.visits
BY DEF Tabs

LEMMA TabTold ==
    ASSUME NEW t \in Tabs, NEW b \in BOOLEAN
    PROVE  LET u == [t EXCEPT !.badge = b] IN u \in Tabs /\ u.visits = t.visits
BY DEF Tabs

LEMMA TabRaised ==
    ASSUME NEW t \in Tabs, NEW b \in BOOLEAN
    PROVE  LET u == [t EXCEPT !.hand = b] IN u \in Tabs /\ u.visits = t.visits
BY DEF Tabs

LEMMA TabsType ==
    ASSUME RoomTypeOK, NEW p \in People, NEW tab \in Tabs, tab.visits = tabs[p].visits,
           tabs' = [tabs EXCEPT ![p] = tab]
    PROVE  /\ tabs' \in [People -> Tabs]
           /\ \A q \in People : tabs'[q].visits \in 1..MaxJoins[q]
BY DEF RoomTypeOK

\* What leaving does to a tab, however it happens.
LEMMA Leaving ==
    ASSUME RoomTypeOK, NEW p \in People, LeaveRoom(p) \/ Destroyed(p) \/ Dropped(p)
    PROVE  /\ \A q \in People \ {p} : tabs'[q] = tabs[q] /\ wire'[q] = wire[q]
           /\ tabs'[p].room \in {"none", "out"}
           /\ tabs'[p].join = tabs[p].join /\ tabs'[p].canPublish = tabs[p].canPublish
           /\ wire'[p] = <<>> /\ session' = session /\ untold' = untold \cup {<<p, "hand">>}
<1>0. tabs[p] \in Tabs /\ tabs \in [People -> Tabs] /\ wire \in [People -> Seq(Messages)]
    BY DEF RoomTypeOK
<1>1. ASSUME NEW r \in {"none", "out"}, NEW g,
             Out(p, [tabs[p] EXCEPT !.room = r, !.gone = g]), session' = session
      PROVE  /\ \A q \in People \ {p} : tabs'[q] = tabs[q] /\ wire'[q] = wire[q]
             /\ tabs'[p].room \in {"none", "out"}
             /\ tabs'[p].join = tabs[p].join /\ tabs'[p].canPublish = tabs[p].canPublish
             /\ wire'[p] = <<>> /\ session' = session
             /\ untold' = untold \cup {<<p, "hand">>}
    BY <1>0, <1>1 DEF Out, Tabs
<1>2. Disconnected(tabs[p]) \in {"none", "out"}
    BY DEF Disconnected
<1>3. CASE LeaveRoom(p)
    <2>1. Out(p, [tabs[p] EXCEPT !.room = Disconnected(tabs[p]), !.gone = TRUE])
        BY <1>3 DEF LeaveRoom
    <2> QED
        BY <1>1, <1>2, <1>3, <2>1 DEF LeaveRoom
<1>4. CASE Destroyed(p)
    <2>1. Out(p, [tabs[p] EXCEPT !.room = Disconnected(tabs[p]), !.gone = TRUE])
        BY <1>4 DEF Destroyed, OnDestroy
    <2> QED
        BY <1>1, <1>2, <1>4, <2>1 DEF Destroyed
<1>5. CASE Dropped(p)
    <2> DEFINE g == tabs[p].gone \/ tabs[p].join = "live"
    <2>1. Out(p, [tabs[p] EXCEPT !.room = "out", !.gone = g])
        BY <1>5 DEF Dropped
    <2> HIDE DEF g
    <2> QED
        BY <1>1, <1>5, <2>1 DEF Dropped
<1> QED
    BY <1>3, <1>4, <1>5

LEMMA HandsAreStudents ==
    ASSUME RoomInv, NEW p \in People, HasHandButton(p)
    PROVE  p \in Students /\ p # Host /\ tabs[p].room = "in"
BY DEF RoomInv, HostTab, Joining, HasHandButton, Live, People

LEMMA RoomTypeStep ==
    ASSUME RoomInv, RoomNext
    PROVE  RoomTypeOK'
<1>0. RoomTypeOK /\ Host \in People
    BY DEF RoomInv, People
<1> USE <1>0
<1>1. ASSUME NEW p \in People, TokenGranted(p) PROVE RoomTypeOK'
    <2> DEFINE speaks == p = Host \/ p \in session.speakers
           tab == [tabs[p] EXCEPT !.join = "connect", !.room = "made", !.ghost = tabs[p].gone,
                                  !.canPublish = speaks, !.badge = session.captured]
    <2>1. /\ tabs' \in [People -> Tabs]
          /\ \A q \in People : tabs'[q].visits \in 1..MaxJoins[q]
        <3>1. tabs[p] \in Tabs /\ tabs[p].gone \in BOOLEAN /\ speaks \in BOOLEAN
              /\ session.captured \in BOOLEAN
            BY TabHas DEF RoomTypeOK
        <3>2. tabs' = [tabs EXCEPT ![p] = tab]
            BY <1>1 DEF TokenGranted, RoomTypeOK
        <3>3. tab \in Tabs /\ tab.visits = tabs[p].visits
            <4> HIDE DEF speaks
            <4> QED
                BY <3>1, TabAdmitted
        <3> QED
            BY <3>2, <3>3, TabsType
    <2> QED
        BY <1>1, <2>1 DEF TokenGranted, RoomTypeOK
<1>2. ASSUME NEW p \in People, TokenRefused(p) PROVE RoomTypeOK'
    <2>1. /\ tabs' \in [People -> Tabs]
          /\ \A q \in People : tabs'[q].visits = tabs[q].visits
        BY <1>2 DEF TokenRefused, RoomTypeOK, Tabs
    <2> QED
        BY <1>2, <2>1 DEF TokenRefused, RoomTypeOK
<1>3. ASSUME NEW p \in People, Connects(p) PROVE RoomTypeOK'
    <2> DEFINE join == IF tabs[p].canPublish THEN "media" ELSE "live"
           tab == [tabs[p] EXCEPT !.room = "in", !.join = join]
    <2>1. /\ tabs' \in [People -> Tabs]
          /\ \A q \in People : tabs'[q].visits \in 1..MaxJoins[q]
        <3>1. tabs[p] \in Tabs /\ join \in {"media", "live"}
            BY DEF RoomTypeOK
        <3>2. tabs' = [tabs EXCEPT ![p] = tab]
            BY <1>3 DEF Connects, RoomTypeOK
        <3>3. tab \in Tabs /\ tab.visits = tabs[p].visits
            <4> HIDE DEF join
            <4> QED
                BY <3>1, TabConnected
        <3> QED
            BY <3>2, <3>3, TabsType
    <2>2. untold' \subseteq People \X {"badge", "hand"}
        BY <1>3 DEF Connects, RoomTypeOK, People
    <2> QED
        BY <1>3, <2>1, <2>2 DEF Connects, RoomTypeOK
<1>4. ASSUME NEW p \in People, MediaStarts(p) PROVE RoomTypeOK'
    <2>1. /\ tabs' \in [People -> Tabs]
          /\ \A q \in People : tabs'[q].visits = tabs[q].visits
        BY <1>4 DEF MediaStarts, RoomTypeOK, Tabs
    <2> QED
        BY <1>4, <2>1 DEF MediaStarts, RoomTypeOK
<1>5. ASSUME NEW p \in People, JoinFails(p) PROVE RoomTypeOK'
    <2>1. /\ tabs' \in [People -> Tabs]
          /\ \A q \in People : tabs'[q].visits = tabs[q].visits
        BY <1>5 DEF JoinFails, RoomTypeOK, Tabs
    <2> QED
        BY <1>5, <2>1 DEF JoinFails, RoomTypeOK
<1>6. ASSUME NEW p \in People, LeaveRoom(p) PROVE RoomTypeOK'
    <2> DEFINE tab == [tabs[p] EXCEPT !.room = Disconnected(tabs[p]), !.gone = TRUE]
    <2>1. tab \in Tabs /\ tab.visits = tabs[p].visits
        <3>1. tabs[p] \in Tabs /\ Disconnected(tabs[p]) \in {"none", "out"}
            BY DEF RoomTypeOK, Disconnected
        <3> QED
            BY <3>1, TabLeft
    <2>2. Out(p, tab) /\ UNCHANGED <<session, recording>> /\ ending' \in {"no", ending}
        BY <1>6 DEF LeaveRoom
    <2> QED
        BY <2>1, <2>2, OutType DEF RoomTypeOK
<1>7. ASSUME NEW p \in People, Destroyed(p) PROVE RoomTypeOK'
    <2> DEFINE tab == [tabs[p] EXCEPT !.room = OnDestroy(tabs[p]), !.gone = TRUE]
    <2>1. tab \in Tabs /\ tab.visits = tabs[p].visits
        <3>1. tabs[p] \in Tabs /\ OnDestroy(tabs[p]) \in {"none", "out"}
            BY DEF RoomTypeOK, OnDestroy, Disconnected
        <3> QED
            BY <3>1, TabLeft
    <2>2. Out(p, tab) /\ UNCHANGED <<session, recording, ending>>
        BY <1>7 DEF Destroyed
    <2> QED
        BY <2>1, <2>2, OutType DEF RoomTypeOK
<1>8. ASSUME NEW p \in People, Dropped(p) PROVE RoomTypeOK'
    <2> DEFINE gone == tabs[p].gone \/ tabs[p].join = "live"
           tab == [tabs[p] EXCEPT !.room = "out", !.gone = gone]
    <2>1. tab \in Tabs /\ tab.visits = tabs[p].visits
        <3>1. tabs[p] \in Tabs /\ gone \in BOOLEAN
            BY DEF RoomTypeOK
        <3> QED
            <4> HIDE DEF gone
            <4> QED
                BY <3>1, TabLeft
    <2>2. Out(p, tab) /\ UNCHANGED <<session, recording, ending>>
        BY <1>8 DEF Dropped
    <2> QED
        BY <2>1, <2>2, OutType DEF RoomTypeOK
<1>9. ASSUME NEW p \in People, Rejoin(p) PROVE RoomTypeOK'
    <2>1. tabs[p].visits \in Nat /\ tabs[p].visits + 1 \in 1..MaxJoins[p]
        BY <1>9 DEF Rejoin, RoomTypeOK
    <2>2. NewTab(tabs[p].visits + 1) \in Tabs
        BY <2>1 DEF NewTab, Tabs
    <2>3. NewTab(tabs[p].visits + 1).visits = tabs[p].visits + 1
        BY DEF NewTab
    <2>4. tabs' \in [People -> Tabs] /\ \A q \in People : tabs'[q].visits \in 1..MaxJoins[q]
        BY <1>9, <2>1, <2>2, <2>3 DEF Rejoin, RoomTypeOK
    <2> QED
        BY <1>9, <2>4 DEF Rejoin, RoomTypeOK
<1>10. ASSUME NEW p \in People, ToggleHand(p) PROVE RoomTypeOK'
    <2> DEFINE m == [kind |-> "hand", from |-> p, on |-> ~tabs[p].hand]
    <2>1. p \in Students
        BY <1>10, HandsAreStudents DEF ToggleHand
    <2>2. m \in Messages /\ HasSpace(p) /\ wire' = Sent(p, m)
        BY <1>10, <2>1 DEF ToggleHand, Messages, RoomTypeOK, Tabs
    <2>3. wire' \in [People -> Seq(Messages)] /\ \A q \in People : Len(wire'[q]) <= MaxWire
        BY <2>2, SentType
    <2>4. /\ tabs' \in [People -> Tabs]
          /\ \A q \in People : tabs'[q].visits \in 1..MaxJoins[q]
        <3> DEFINE raised == ~tabs[p].hand
                   tab == [tabs[p] EXCEPT !.hand = raised]
        <3>1. tabs[p] \in Tabs /\ raised \in BOOLEAN
            BY DEF RoomTypeOK
        <3>2. tabs' = [tabs EXCEPT ![p] = tab]
            BY <1>10 DEF ToggleHand, RoomTypeOK
        <3>3. tab \in Tabs /\ tab.visits = tabs[p].visits
            <4> HIDE DEF raised
            <4> QED
                BY <3>1, TabRaised
        <3> QED
            BY <3>2, <3>3, TabsType
    <2>5. untold' \subseteq People \X {"badge", "hand"}
        BY <1>10 DEF ToggleHand, RoomTypeOK
    <2> QED
        BY <1>10, <2>3, <2>4, <2>5 DEF ToggleHand, RoomTypeOK
<1>11. ASSUME NEW p \in People, OnData(p) PROVE RoomTypeOK'
    <2>1. wire[p] \in Seq(Messages) /\ wire[p] # <<>>
        BY <1>11 DEF OnData, RoomTypeOK
    <2>2. /\ Head(wire[p]) \in Messages
          /\ Tail(wire[p]) \in Seq(Messages)
          /\ Len(Tail(wire[p])) <= MaxWire
        BY <2>1, HeadTailProperties, LenProperties DEF RoomTypeOK
    <2>3. wire' \in [People -> Seq(Messages)] /\ \A q \in People : Len(wire'[q]) <= MaxWire
        BY <1>11, <2>2 DEF OnData, RoomTypeOK
    <2>4. /\ tabs' \in [People -> Tabs]
          /\ \A q \in People : tabs'[q].visits \in 1..MaxJoins[q]
        <3> DEFINE m == Head(wire[p])
                   hands == IF m.kind # "hand" THEN tabs[p].hands
                            ELSE IF m.on THEN tabs[p].hands \cup {m.from}
                            ELSE tabs[p].hands \ {m.from}
                   badge == IF m.kind = "recording" THEN m.on ELSE tabs[p].badge
        <3>1. m.kind \in {"hand", "recording"} /\ (m.kind = "hand" => m.from \in Students)
              /\ m.on \in BOOLEAN
            BY <2>2 DEF Messages
        <3>2. tabs[p] \in Tabs /\ tabs[p].hands \subseteq Students /\ tabs[p].badge \in BOOLEAN
            BY TabHas DEF RoomTypeOK
        <3> DEFINE tab == [tabs[p] EXCEPT !.hands = hands, !.badge = badge]
        <3>3. hands \subseteq Students
            <4>1. CASE m.kind # "hand"
                BY <3>2, <4>1
            <4>2. CASE m.kind = "hand" /\ m.on
                BY <3>1, <3>2, <4>2
            <4>3. CASE m.kind = "hand" /\ ~m.on
                BY <3>2, <4>3
            <4> QED
                BY <3>1, <4>1, <4>2, <4>3
        <3>4. badge \in BOOLEAN
            BY <3>1, <3>2
        <3>5. tabs' = [tabs EXCEPT ![p] = tab]
            BY <1>11 DEF OnData, RoomTypeOK
        <3>6. tab \in Tabs /\ tab.visits = tabs[p].visits
            <4> HIDE DEF hands, badge
            <4> QED
                BY <3>2, <3>3, <3>4, TabHeard
        <3> QED
            BY <3>5, <3>6, TabsType
    <2> QED
        BY <1>11, <2>3, <2>4 DEF OnData, RoomTypeOK
<1>12. ASSUME NEW s \in Students, TogglePublish(s) PROVE RoomTypeOK'
    <2>1. session' \in [over : BOOLEAN, captured : BOOLEAN, speakers : SUBSET Students]
        BY <1>12 DEF TogglePublish, RoomTypeOK
    <2> QED
        BY <1>12, <2>1 DEF TogglePublish, RoomTypeOK
<1>13. CASE ToggleRecording
    <2>1. recording' \in [want : BOOLEAN, answer : {"none", "ok", "refused"}]
        BY <1>13 DEF ToggleRecording, RoomTypeOK, Tabs
    <2> QED
        BY <1>13, <2>1 DEF ToggleRecording, RoomTypeOK
<1>14. CASE HandleRecording
    <2>1. recording \in [want : BOOLEAN, answer : {"none", "ok", "refused"}]
        BY <1>14 DEF HandleRecording, RoomTypeOK, Idle
    <2>2. /\ session' \in [over : BOOLEAN, captured : BOOLEAN, speakers : SUBSET Students]
          /\ recording' \in [want : BOOLEAN, answer : {"none", "ok", "refused"}]
        BY <1>14, <2>1 DEF HandleRecording, RoomTypeOK
    <2>3. untold' \subseteq People \X {"badge", "hand"}
        BY <1>14 DEF HandleRecording, RoomTypeOK, Everyone
    <2> QED
        BY <1>14, <2>2, <2>3 DEF HandleRecording, RoomTypeOK
<1>15. CASE RecordingAnswered
    <2> DEFINE m == [kind |-> "recording", from |-> Host, on |-> recording.want]
    <2>1. recording \in [want : BOOLEAN, answer : {"none", "ok", "refused"}]
        BY <1>15 DEF RecordingAnswered, RoomTypeOK, Idle
    <2>2. m \in Messages /\ HasSpace(Host) /\ wire' = Sent(Host, m)
        BY <1>15, <2>1 DEF RecordingAnswered, Announced, Messages
    <2>3. wire' \in [People -> Seq(Messages)] /\ \A q \in People : Len(wire'[q]) <= MaxWire
        BY <2>2, SentType
    <2>4. /\ tabs' \in [People -> Tabs]
          /\ \A q \in People : tabs'[q].visits \in 1..MaxJoins[q]
        <3> DEFINE tab == [tabs[Host] EXCEPT !.badge = recording.want]
        <3>1. tabs[Host] \in Tabs /\ recording.want \in BOOLEAN
            BY <2>1 DEF RoomTypeOK
        <3>2. tabs' = [tabs EXCEPT ![Host] = tab]
            BY <1>15 DEF RecordingAnswered, RoomTypeOK
        <3>3. tab \in Tabs /\ tab.visits = tabs[Host].visits
            BY <3>1, TabTold
        <3> QED
            BY <3>2, <3>3, TabsType
    <2>5. untold' \subseteq People \X {"badge", "hand"}
        BY <1>15 DEF RecordingAnswered, RoomTypeOK, Everyone
    <2> QED
        BY <1>15, <2>3, <2>4, <2>5 DEF RecordingAnswered, RoomTypeOK, Idle
<1>16. CASE RecordingFails
    BY <1>16 DEF RecordingFails, RoomTypeOK, Idle
<1>17. CASE CaptureEnds
    <2>1. session' \in [over : BOOLEAN, captured : BOOLEAN, speakers : SUBSET Students]
        BY <1>17 DEF CaptureEnds, RoomTypeOK
    <2>2. untold' \subseteq People \X {"badge", "hand"}
        BY <1>17 DEF CaptureEnds, RoomTypeOK, Everyone
    <2> QED
        BY <1>17, <2>1, <2>2 DEF CaptureEnds, RoomTypeOK
<1>18. CASE EndSession \/ EndFails
    BY <1>18 DEF EndSession, EndFails, RoomTypeOK
<1>19. CASE HandleEnd
    <2>1. session' \in [over : BOOLEAN, captured : BOOLEAN, speakers : SUBSET Students]
        BY <1>19 DEF HandleEnd, RoomTypeOK
    <2>2. untold' \subseteq People \X {"badge", "hand"} /\ ending' \in {"ended", "refused"}
        BY <1>19 DEF HandleEnd, RoomTypeOK, Everyone
    <2> QED
        BY <1>19, <2>1, <2>2 DEF HandleEnd, RoomTypeOK
<1> QED
    BY <1>1, <1>2, <1>3, <1>4, <1>5, <1>6, <1>7, <1>8, <1>9, <1>10, <1>11, <1>12, <1>13,
       <1>14, <1>15, <1>16, <1>17, <1>18, <1>19 DEF RoomNext

LEMMA JoiningStep ==
    ASSUME RoomInv, RoomNext
    PROVE  Joining'
<1>0. /\ RoomTypeOK /\ Joining /\ Host \in People
      /\ tabs \in [People -> Tabs] /\ wire \in [People -> Seq(Messages)]
    BY DEF RoomInv, RoomTypeOK, People
<1> USE <1>0
<1>1. ASSUME NEW p \in People, TokenGranted(p) PROVE Joining'
    <2>1. /\ \A q \in People \ {p} : tabs'[q] = tabs[q]
          /\ tabs'[p].join = "connect" /\ tabs'[p].room = "made"
          /\ tabs'[p].gone = tabs[p].gone /\ tabs'[p].ghost = tabs[p].gone
        BY <1>1 DEF TokenGranted, Tabs
    <2>2. wire' = wire /\ untold' = untold \ {<<p, "badge">>} /\ tabs[p].room = "none"
        BY <1>1 DEF TokenGranted, Joining
    <2> QED
        BY <2>1, <2>2 DEF Joining, Live
<1>2. ASSUME NEW p \in People, TokenRefused(p) PROVE Joining'
    BY <1>2 DEF TokenRefused, Joining, Live, Tabs
<1>3. ASSUME NEW p \in People, Connects(p) PROVE Joining'
    <2>1. /\ \A q \in People \ {p} : tabs'[q] = tabs[q]
          /\ tabs'[p].join \in {"media", "live"} /\ tabs'[p].room = "in"
          /\ tabs'[p].gone = tabs[p].gone /\ tabs'[p].ghost = tabs[p].ghost
        BY <1>3 DEF Connects, Tabs
    <2>2. wire' = wire /\ untold \subseteq untold' /\ tabs[p].room = "made"
        BY <1>3 DEF Connects
    <2> QED
        BY <2>1, <2>2 DEF Joining, Live
<1>4. ASSUME NEW p \in People, MediaStarts(p) PROVE Joining'
    BY <1>4 DEF MediaStarts, Joining, Live, Tabs
<1>5. ASSUME NEW p \in People, JoinFails(p) PROVE Joining'
    BY <1>5 DEF JoinFails, Joining, Live, Tabs
<1>6. ASSUME NEW p \in People, LeaveRoom(p) PROVE Joining'
    BY <1>6 DEF LeaveRoom, Joining, Live, Tabs, Out, Disconnected
<1>7. ASSUME NEW p \in People, Destroyed(p) PROVE Joining'
    BY <1>7 DEF Destroyed, Joining, Live, Tabs, Out, OnDestroy, Disconnected
<1>8. ASSUME NEW p \in People, Dropped(p) PROVE Joining'
    BY <1>8 DEF Dropped, Joining, Live, Tabs, Out
<1>9. ASSUME NEW p \in People, Rejoin(p) PROVE Joining'
    BY <1>9 DEF Rejoin, Joining, Live, Tabs, NewTab
<1>10. ASSUME NEW p \in People, ToggleHand(p) PROVE Joining'
    <2>1. \A q \in People : /\ tabs'[q].join = tabs[q].join /\ tabs'[q].room = tabs[q].room
                            /\ tabs'[q].gone = tabs[q].gone /\ tabs'[q].ghost = tabs[q].ghost
        BY <1>10 DEF ToggleHand, Tabs
    <2>2. \A q \in People : tabs[q].room # "in" => wire'[q] = wire[q]
        BY <1>10 DEF ToggleHand, Sent, In
    <2>3. \A q \in People : <<q, "hand">> \in untold /\ q # p => <<q, "hand">> \in untold'
        BY <1>10 DEF ToggleHand
    <2>4. ~tabs[p].gone
        BY <1>10 DEF ToggleHand, HasHandButton, Live
    <2> QED
        BY <2>1, <2>2, <2>3, <2>4 DEF Joining, Live
<1>11. ASSUME NEW p \in People, OnData(p) PROVE Joining'
    <2>1. \A q \in People : /\ tabs'[q].join = tabs[q].join /\ tabs'[q].room = tabs[q].room
                            /\ tabs'[q].gone = tabs[q].gone /\ tabs'[q].ghost = tabs[q].ghost
        BY <1>11 DEF OnData, Tabs
    <2>2. \A q \in People : tabs[q].room # "in" => wire'[q] = wire[q]
        BY <1>11 DEF OnData, Joining
    <2>3. untold' = untold
        BY <1>11 DEF OnData
    <2> QED
        BY <2>1, <2>2, <2>3 DEF Joining, Live
<1>12. ASSUME NEW s \in Students, TogglePublish(s) PROVE Joining'
    BY <1>12 DEF TogglePublish, Joining, Live
<1>13. CASE RecordingAnswered
    BY <1>13 DEF RecordingAnswered, Announced, Sent, In, Joining, Live, Tabs
<1>14. CASE \/ ToggleRecording \/ HandleRecording \/ RecordingFails \/ CaptureEnds
            \/ EndSession \/ HandleEnd \/ EndFails
    BY <1>14 DEF ToggleRecording, HandleRecording, RecordingFails, CaptureEnds, EndSession,
       HandleEnd, EndFails, Joining, Live
<1> QED
    BY <1>1, <1>2, <1>3, <1>4, <1>5, <1>6, <1>7, <1>8, <1>9, <1>10, <1>11, <1>12, <1>13,
       <1>14 DEF RoomNext

LEMMA HostTabStep ==
    ASSUME RoomInv, RoomNext
    PROVE  HostTab'
<1>0. /\ RoomTypeOK /\ Joining /\ HostTab /\ Host \in People
      /\ tabs \in [People -> Tabs] /\ wire \in [People -> Seq(Messages)]
    BY DEF RoomInv, RoomTypeOK, People
<1> USE <1>0
<1>1. ASSUME NEW p \in People,
             TokenGranted(p) \/ TokenRefused(p) \/ Connects(p) \/ MediaStarts(p) \/ JoinFails(p)
      PROVE  HostTab'
    <2>1. wire' = wire
        BY <1>1 DEF TokenGranted, TokenRefused, Connects, MediaStarts, JoinFails
    <2>2. CASE TokenGranted(p)
        BY <2>1, <2>2 DEF TokenGranted, HostTab, Tabs
    <2>3. CASE TokenRefused(p) \/ JoinFails(p)
        BY <2>1, <2>3 DEF TokenRefused, JoinFails, HostTab, Tabs
    <2>4. CASE Connects(p)
        BY <2>1, <2>4 DEF Connects, HostTab, Tabs
    <2>5. CASE MediaStarts(p)
        BY <2>1, <2>5 DEF MediaStarts, HostTab, Tabs
    <2> QED
        BY <1>1, <2>2, <2>3, <2>4, <2>5
<1>2. ASSUME NEW p \in People, LeaveRoom(p) \/ Destroyed(p) \/ Dropped(p)
      PROVE  HostTab'
    <2>1. /\ tabs'[Host].join = tabs[Host].join
          /\ tabs'[Host].canPublish = tabs[Host].canPublish
        BY <1>2, Leaving
    <2>2. wire'[Host] \in {wire[Host], <<>>}
        BY <1>2, Leaving
    <2>3. Len(<<>>) = 0
        BY EmptySeq
    <2> QED
        BY <2>1, <2>2, <2>3 DEF HostTab
<1>3. ASSUME NEW p \in People, Rejoin(p) PROVE HostTab'
    BY <1>3 DEF Rejoin, NewTab, HostTab, Tabs
<1>4. ASSUME NEW p \in People, ToggleHand(p) PROVE HostTab'
    <2> DEFINE m == [kind |-> "hand", from |-> p, on |-> ~tabs[p].hand]
    <2>1. p # Host /\ wire' = Sent(p, m) /\ m.from = p
        BY <1>4, HandsAreStudents DEF ToggleHand
    <2>2. /\ tabs'[Host].join = tabs[Host].join
          /\ tabs'[Host].canPublish = tabs[Host].canPublish
        BY <1>4 DEF ToggleHand, Tabs
    <2>3. m \in Messages
        BY <1>4, HandsAreStudents, TabHas DEF ToggleHand, Messages
    <2>4. wire'[Host] \in {wire[Host], Append(wire[Host], m)}
        BY <2>1 DEF Sent
    <2> HIDE DEF m
    <2>5. \A i \in 1..Len(Append(wire[Host], m)) : Append(wire[Host], m)[i].from # Host
        BY <2>1, <2>3, AppendProperties, LenProperties DEF HostTab
    <2> QED
        BY <2>2, <2>4, <2>5 DEF HostTab
<1>5. ASSUME NEW p \in People, OnData(p) PROVE HostTab'
    <2>1. /\ tabs'[Host].join = tabs[Host].join
          /\ tabs'[Host].canPublish = tabs[Host].canPublish
        BY <1>5 DEF OnData, Tabs
    <2>2. CASE p = Host
        <3>1. wire'[Host] = Tail(wire[Host]) /\ wire[Host] \in Seq(Messages) /\ wire[Host] # <<>>
            BY <1>5, <2>2 DEF OnData
        <3>2. /\ Len(wire[Host]) \in Nat \ {0} /\ Len(Tail(wire[Host])) = Len(wire[Host]) - 1
              /\ \A i \in 1..Len(Tail(wire[Host])) : Tail(wire[Host])[i] = wire[Host][i + 1]
            BY <3>1, HeadTailProperties, LenProperties, EmptySeq
        <3>3. \A i \in 1..Len(Tail(wire[Host])) : i + 1 \in 1..Len(wire[Host])
            BY <3>2
        <3> QED
            BY <2>1, <3>1, <3>2, <3>3 DEF HostTab
    <2>3. CASE p # Host
        BY <1>5, <2>1, <2>3 DEF OnData, HostTab
    <2> QED
        BY <2>2, <2>3
<1>6. CASE RecordingAnswered
    <2>1. /\ tabs'[Host].join = tabs[Host].join
          /\ tabs'[Host].canPublish = tabs[Host].canPublish
        BY <1>6 DEF RecordingAnswered, Tabs
    <2>2. wire'[Host] = wire[Host]
        BY <1>6 DEF RecordingAnswered, Announced, Sent
    <2> QED
        BY <2>1, <2>2 DEF HostTab
<1>7. ASSUME UNCHANGED <<tabs, wire>> PROVE HostTab'
    BY <1>7 DEF HostTab
<1> QED
    BY <1>1, <1>2, <1>3, <1>4, <1>5, <1>6, <1>7 DEF RoomNext, TogglePublish, ToggleRecording,
       HandleRecording, RecordingFails, CaptureEnds, EndSession, HandleEnd, EndFails

\* A step that leaves a badge, what is on its way to it and the capture alone, or
\* after which everyone may be wrong.
LEMMA BadgeStep ==
    ASSUME RoomInv, RoomNext
    PROVE  BadgeTold'
<1>0. /\ RoomTypeOK /\ Joining /\ HostTab /\ BadgeTold /\ Host \in People
      /\ tabs \in [People -> Tabs] /\ wire \in [People -> Seq(Messages)]
    BY DEF RoomInv, RoomTypeOK, People
<1> USE <1>0
<1>1. ASSUME NEW p \in People, TokenGranted(p) PROVE BadgeTold'
    <2>1. /\ \A q \in People \ {p} : tabs'[q] = tabs[q]
          /\ tabs'[p].badge = session.captured
        BY <1>1 DEF TokenGranted, Tabs
    <2>2. /\ session' = session /\ wire' = wire /\ untold' = untold \ {<<p, "badge">>}
          /\ wire[p] = <<>>
        BY <1>1 DEF TokenGranted, Joining
    <2>3. Tells(wire'[p], Host, tabs'[p].badge, session'.captured)
        BY <2>1, <2>2, TellsNothing
    <2> QED
        BY <2>1, <2>2, <2>3 DEF BadgeTold
<1>2. ASSUME NEW p \in People,
             TokenRefused(p) \/ Connects(p) \/ MediaStarts(p) \/ JoinFails(p)
      PROVE  BadgeTold'
    <2>1. \A q \in People : /\ tabs'[q].badge = tabs[q].badge
                            /\ tabs'[q].room = "in" => tabs[q].room \in {"made", "in"}
                            /\ tabs'[q].room = "made" => tabs[q].room = "made"
        <3>1. CASE TokenRefused(p) \/ JoinFails(p)
            BY <3>1 DEF TokenRefused, JoinFails, Tabs
        <3>2. CASE Connects(p)
            BY <3>2 DEF Connects, Tabs
        <3>3. CASE MediaStarts(p)
            BY <3>3 DEF MediaStarts, Tabs
        <3> QED
            BY <1>2, <3>1, <3>2, <3>3
    <2>2. session' = session /\ wire' = wire
        BY <1>2 DEF TokenRefused, Connects, MediaStarts, JoinFails
    <2>3. untold \subseteq untold'
        BY <1>2 DEF TokenRefused, Connects, MediaStarts, JoinFails
    <2> QED
        BY <2>1, <2>2, <2>3 DEF BadgeTold
<1>3. ASSUME NEW p \in People, LeaveRoom(p) \/ Destroyed(p) \/ Dropped(p)
      PROVE  BadgeTold'
    <2>1. /\ \A q \in People \ {p} : tabs'[q] = tabs[q] /\ wire'[q] = wire[q]
          /\ tabs'[p].room \in {"none", "out"}
        BY <1>3, Leaving
    <2>2. session' = session /\ untold \subseteq untold'
        BY <1>3, Leaving
    <2> QED
        BY <2>1, <2>2 DEF BadgeTold
<1>4. ASSUME NEW p \in People, Rejoin(p) PROVE BadgeTold'
    <2>1. /\ \A q \in People \ {p} : tabs'[q] = tabs[q]
          /\ tabs'[p].room = "none"
        BY <1>4 DEF Rejoin, NewTab, Tabs
    <2> QED
        BY <1>4, <2>1 DEF Rejoin, BadgeTold
<1>5. ASSUME NEW p \in People, ToggleHand(p) PROVE BadgeTold'
    <2> DEFINE m == [kind |-> "hand", from |-> p, on |-> ~tabs[p].hand]
    <2>1. p # Host /\ wire' = Sent(p, m) /\ m.from = p
        BY <1>5, HandsAreStudents DEF ToggleHand
    <2>2. m \in Messages
        BY <1>5, HandsAreStudents, TabHas DEF ToggleHand, Messages
    <2>3. \A q \in People : wire'[q] \in {wire[q], Append(wire[q], m)}
        BY <2>1 DEF Sent
    <2>4. \A q \in People : tabs'[q].badge = tabs[q].badge /\ tabs'[q].room = tabs[q].room
        BY <1>5 DEF ToggleHand, Tabs
    <2>5. /\ session' = session
          /\ \A q \in People : <<q, "badge">> \in untold => <<q, "badge">> \in untold'
        BY <1>5 DEF ToggleHand
    <2> HIDE DEF m
    <2>6. ASSUME NEW q \in People, tabs'[q].room \in {"made", "in"}, <<q, "badge">> \notin untold'
          PROVE  Tells(wire'[q], Host, tabs'[q].badge, session'.captured)
        <3>1. Tells(wire[q], Host, tabs[q].badge, session.captured)
            BY <2>4, <2>5, <2>6 DEF BadgeTold
        <3>2. Tells(Append(wire[q], m), Host, tabs[q].badge, session.captured)
            BY <2>1, <2>2, <3>1, TellsMore
        <3> QED
            BY <2>3, <2>4, <2>5, <3>1, <3>2
    <2> QED
        BY <2>6 DEF BadgeTold
<1>6. ASSUME NEW p \in People, OnData(p) PROVE BadgeTold'
    <2> DEFINE m == Head(wire[p])
               new == session.captured
    <2>1. wire[p] \in Seq(Messages) /\ wire[p] # <<>>
        BY <1>6 DEF OnData
    <2>2. m \in Messages
        BY <2>1, HeadTailProperties, LenProperties
    <2>3. m.kind = "recording" <=> m.from = Host
        BY <2>2 DEF Messages
    <2>4. /\ \A q \in People \ {p} : tabs'[q] = tabs[q] /\ wire'[q] = wire[q]
          /\ tabs'[p].room = tabs[p].room
          /\ wire'[p] = Tail(wire[p])
        BY <1>6 DEF OnData, Tabs
    <2>5. tabs'[p].badge = IF m.kind = "recording" THEN m.on ELSE tabs[p].badge
        BY <1>6 DEF OnData, Tabs
    <2>6. session' = session /\ untold' = untold
        BY <1>6 DEF OnData
    <2>7. ASSUME tabs[p].room \in {"made", "in"}, <<p, "badge">> \notin untold
          PROVE  Tells(wire'[p], Host, tabs'[p].badge, new)
        <3>1. Tells(wire[p], Host, tabs[p].badge, new)
            BY <2>7 DEF BadgeTold
        <3>2. Tells(Tail(wire[p]), Host, IF m.from = Host THEN m.on ELSE tabs[p].badge, new)
            BY <2>1, <3>1, TellsLess
        <3>3. (IF m.from = Host THEN m.on ELSE tabs[p].badge) = tabs'[p].badge
            BY <2>3, <2>5
        <3> QED
            BY <2>4, <3>2, <3>3
    <2> QED
        BY <2>4, <2>6, <2>7 DEF BadgeTold
<1>7. ASSUME NEW s \in Students, TogglePublish(s) PROVE BadgeTold'
    <2>1. session'.captured = session.captured
        BY <1>7 DEF TogglePublish, RoomTypeOK
    <2> QED
        BY <1>7, <2>1 DEF TogglePublish, BadgeTold
<1>8. CASE RecordingAnswered
    <2> DEFINE want == recording.want
               m == [kind |-> "recording", from |-> Host, on |-> want]
    <2>1. recording \in [want : BOOLEAN, answer : {"none", "ok", "refused"}]
        BY <1>8 DEF RecordingAnswered, RoomTypeOK, Idle
    <2>2. m \in Messages /\ m.from = Host /\ m.on = want
        BY <2>1 DEF Messages
    <2>3. session' = session
        BY <1>8 DEF RecordingAnswered
    <2>4. /\ \A q \in People \ {Host} : tabs'[q] = tabs[q]
          /\ tabs'[Host].badge = want /\ tabs'[Host].room = tabs[Host].room
        BY <1>8 DEF RecordingAnswered, Tabs
    <2>5. CASE session.captured # want
        BY <1>8, <2>5 DEF RecordingAnswered, Everyone, BadgeTold
    <2>6. CASE session.captured = want
        <3>1. untold' = untold \ ((IF Host \in In THEN In ELSE {Host}) \X {"badge"})
            BY <1>8, <2>6 DEF RecordingAnswered
        <3>2. wire' = Sent(Host, m)
            BY <1>8 DEF RecordingAnswered, Announced
        <3> HIDE DEF m, want
        <3>3. Tells(wire'[Host], Host, tabs'[Host].badge, session'.captured)
            <4>1. wire'[Host] = wire[Host]
                BY <3>2 DEF Sent
            <4>2. tabs'[Host].badge = session'.captured
                BY <2>3, <2>4, <2>6
            <4> QED
                BY <4>1, <4>2 DEF Tells, HostTab
        <3>4. ASSUME NEW q \in People \ {Host}, tabs'[q].room \in {"made", "in"},
                     <<q, "badge">> \notin untold'
              PROVE  Tells(wire'[q], Host, tabs'[q].badge, session'.captured)
            <4>1. CASE Host \in In /\ q \in In
                <5>1. wire'[q] = Append(wire[q], m)
                    BY <3>2, <4>1 DEF Sent
                <5>2. Tells(Append(wire[q], m), Host, tabs[q].badge, session.captured)
                    BY <2>2, <2>6, TellsMore
                <5> QED
                    BY <2>3, <2>4, <5>1, <5>2
            <4>2. CASE ~(Host \in In /\ q \in In)
                <5>1. wire'[q] = wire[q]
                    BY <3>2, <4>2 DEF Sent
                <5>2. <<q, "badge">> \notin untold
                    BY <3>1, <3>4, <4>2
                <5> QED
                    BY <2>3, <2>4, <3>4, <5>1, <5>2 DEF BadgeTold
            <4> QED
                BY <4>1, <4>2
        <3> QED
            BY <3>3, <3>4 DEF BadgeTold
    <2> QED
        BY <2>5, <2>6
<1>9. ASSUME UNCHANGED <<tabs, wire>>,
             untold' = untold \cup Everyone \/ (session' = session /\ untold' = untold)
      PROVE  BadgeTold'
    BY <1>9 DEF BadgeTold, Everyone
<1>10. CASE HandleRecording \/ CaptureEnds \/ HandleEnd
    BY <1>9, <1>10 DEF HandleRecording, CaptureEnds, HandleEnd
<1>11. CASE ToggleRecording \/ RecordingFails \/ EndSession \/ EndFails
    BY <1>9, <1>11 DEF ToggleRecording, RecordingFails, EndSession, EndFails
<1> QED
    BY <1>1, <1>2, <1>3, <1>4, <1>5, <1>6, <1>7, <1>8, <1>10, <1>11 DEF RoomNext

LEMMA HandStep ==
    ASSUME RoomInv, RoomNext
    PROVE  HandTold'
<1>0. /\ RoomTypeOK /\ Joining /\ HostTab /\ HandTold /\ Host \in People
      /\ tabs \in [People -> Tabs] /\ wire \in [People -> Seq(Messages)]
      /\ \A s \in Students : s \in People /\ s # Host
    BY DEF RoomInv, RoomTypeOK, People
<1> USE <1>0
<1>1. ASSUME NEW p \in People,
             TokenGranted(p) \/ TokenRefused(p) \/ MediaStarts(p) \/ JoinFails(p)
      PROVE  HandTold'
    <2>1. \A q \in People : /\ tabs'[q].hand = tabs[q].hand /\ tabs'[q].hands = tabs[q].hands
                            /\ tabs'[q].room = "in" => tabs[q].room = "in"
        <3>1. CASE TokenGranted(p)
            <4>1. \A q \in People \ {p} : tabs'[q] = tabs[q]
                BY <3>1 DEF TokenGranted
            <4>2. tabs'[p].hand = tabs[p].hand /\ tabs'[p].hands = tabs[p].hands
                BY <3>1 DEF TokenGranted, Tabs
            <4>3. tabs'[p].room = "made"
                BY <3>1 DEF TokenGranted, Tabs
            <4> QED
                BY <4>1, <4>2, <4>3
        <3>2. CASE TokenRefused(p)
            BY <3>2 DEF TokenRefused, Tabs
        <3>3. CASE JoinFails(p)
            BY <3>3 DEF JoinFails, Tabs
        <3>4. CASE MediaStarts(p)
            BY <3>4 DEF MediaStarts, Tabs
        <3> QED
            BY <1>1, <3>1, <3>2, <3>3, <3>4
    <2>2. wire' = wire /\ \A q \in People : <<q, "hand">> \in untold => <<q, "hand">> \in untold'
        BY <1>1 DEF TokenGranted, TokenRefused, MediaStarts, JoinFails
    <2> QED
        BY <2>1, <2>2 DEF HandTold
<1>2. ASSUME NEW p \in People, Connects(p) PROVE HandTold'
    <2>1. CASE p = Host
        BY <1>2, <2>1 DEF Connects, HandTold
    <2>2. CASE p # Host
        <3>1. /\ tabs'[Host] = tabs[Host] /\ \A q \in People : tabs'[q].hand = tabs[q].hand
              /\ wire' = wire /\ untold' = untold
            BY <1>2, <2>2 DEF Connects, Tabs
        <3> QED
            BY <3>1 DEF HandTold
    <2> QED
        BY <2>1, <2>2
<1>3. ASSUME NEW p \in People, LeaveRoom(p) \/ Destroyed(p) \/ Dropped(p)
      PROVE  HandTold'
    <2>1. CASE p = Host
        <3>1. tabs'[Host].room # "in"
            BY <1>3, <2>1, Leaving
        <3> QED
            BY <3>1 DEF HandTold
    <2>2. CASE p # Host
        <3>1. /\ \A q \in People \ {p} : tabs'[q] = tabs[q] /\ wire'[q] = wire[q]
              /\ untold' = untold \cup {<<p, "hand">>}
            BY <1>3, Leaving
        <3> QED
            BY <2>2, <3>1 DEF HandTold
    <2> QED
        BY <2>1, <2>2
<1>4. ASSUME NEW p \in People, Rejoin(p) PROVE HandTold'
    <2>1. CASE p = Host
        BY <1>4, <2>1 DEF Rejoin, NewTab, HandTold
    <2>2. CASE p # Host
        <3>1. /\ \A q \in People \ {p} : tabs'[q] = tabs[q]
              /\ <<p, "hand">> \in untold /\ wire' = wire /\ untold' = untold
            BY <1>4 DEF Rejoin, Joining
        <3> QED
            BY <2>2, <3>1 DEF HandTold
    <2> QED
        BY <2>1, <2>2
<1>5. ASSUME NEW p \in People, ToggleHand(p) PROVE HandTold'
    <2> DEFINE raised == ~tabs[p].hand
               m == [kind |-> "hand", from |-> p, on |-> raised]
    <2>1. p \in Students /\ p # Host /\ p \in In
        BY <1>5, HandsAreStudents DEF ToggleHand, In
    <2>2. wire' = Sent(p, m) /\ m.from = p /\ m.on = raised
        BY <1>5 DEF ToggleHand
    <2>3. m \in Messages
        BY <2>1, TabHas DEF Messages
    <2>4. /\ \A q \in People \ {p} : tabs'[q] = tabs[q]
          /\ tabs'[p].hand = raised
        BY <1>5 DEF ToggleHand, Tabs
    <2>5. CASE Host \notin In
        <3>1. tabs'[Host].room # "in"
            BY <2>1, <2>4, <2>5 DEF In
        <3> QED
            BY <3>1 DEF HandTold
    <2>6. CASE Host \in In
        <3>1. wire'[Host] = Append(wire[Host], m)
            BY <2>1, <2>2, <2>6 DEF Sent
        <3>2. untold' = untold \ {<<p, "hand">>}
            BY <1>5, <2>6 DEF ToggleHand
        <3> HIDE DEF m, raised
        <3>3. ASSUME NEW s \in Students, <<s, "hand">> \notin untold'
              PROVE  Tells(wire'[Host], s, s \in tabs'[Host].hands, tabs'[s].hand)
            <4>1. tabs'[Host] = tabs[Host] /\ tabs[Host].room = "in"
                BY <2>1, <2>4, <2>6 DEF In
            <4>2. CASE s = p
                <5>1. Tells(Append(wire[Host], m), s, s \in tabs[Host].hands, raised)
                    BY <2>2, <2>3, <4>2, TellsMore
                <5> QED
                    BY <2>4, <3>1, <4>1, <4>2, <5>1
            <4>3. CASE s # p
                <5>1. Tells(wire[Host], s, s \in tabs[Host].hands, tabs[s].hand)
                    BY <3>2, <3>3, <4>1, <4>3 DEF HandTold
                <5>2. Tells(Append(wire[Host], m), s, s \in tabs[Host].hands, tabs[s].hand)
                    BY <2>2, <2>3, <4>3, <5>1, TellsMore
                <5> QED
                    BY <2>4, <3>1, <4>1, <4>3, <5>2
            <4> QED
                BY <4>2, <4>3
        <3> QED
            BY <3>3 DEF HandTold
    <2> QED
        BY <2>5, <2>6
<1>6. ASSUME NEW p \in People, OnData(p) PROVE HandTold'
    <2> DEFINE m == Head(wire[p])
    <2>1. wire[p] \in Seq(Messages) /\ wire[p] # <<>>
        BY <1>6 DEF OnData
    <2>2. m \in Messages
        BY <2>1, HeadTailProperties, LenProperties
    <2>3. /\ \A q \in People \ {p} : tabs'[q] = tabs[q] /\ wire'[q] = wire[q]
          /\ \A q \in People : tabs'[q].hand = tabs[q].hand /\ tabs'[q].room = tabs[q].room
          /\ wire'[p] = Tail(wire[p])
        BY <1>6 DEF OnData, Tabs
    <2>4. untold' = untold
        BY <1>6 DEF OnData
    <2>5. CASE p # Host
        BY <2>3, <2>4, <2>5 DEF HandTold
    <2>6. CASE p = Host
        <3>1. m.kind = "hand" /\ m.from \in Students
            <4>1. Len(wire[Host]) \in Nat \ {0} /\ Head(wire[Host]) = wire[Host][1]
                BY <2>1, <2>6, HeadTailProperties, LenProperties, EmptySeq
            <4>2. m.from # Host
                BY <2>6, <4>1 DEF HostTab
            <4> QED
                BY <2>2, <4>2 DEF Messages
        <3>2. tabs'[Host].hands = IF m.on THEN tabs[Host].hands \cup {m.from}
                                  ELSE tabs[Host].hands \ {m.from}
            BY <1>6, <2>6, <3>1 DEF OnData, Tabs
        <3>3. m.on \in BOOLEAN
            BY <2>2 DEF Messages
        <3> HIDE DEF m
        <3>4. ASSUME NEW s \in Students, tabs[Host].room = "in", <<s, "hand">> \notin untold
              PROVE  Tells(wire'[Host], s, s \in tabs'[Host].hands, tabs'[s].hand)
            <4>1. Tells(wire[Host], s, s \in tabs[Host].hands, tabs[s].hand)
                BY <3>4 DEF HandTold
            <4>2. Tells(Tail(wire[Host]), s,
                        IF m.from = s THEN m.on ELSE s \in tabs[Host].hands, tabs[s].hand)
                BY <2>1, <2>6, <4>1, TellsLess DEF m
            <4>3. (IF m.from = s THEN m.on ELSE s \in tabs[Host].hands)
                      = (s \in tabs'[Host].hands)
                <5>1. CASE m.from # s
                    BY <3>2, <5>1
                <5>2. CASE m.from = s /\ m.on = TRUE
                    BY <3>2, <5>2
                <5>3. CASE m.from = s /\ m.on = FALSE
                    <6>1. s \notin tabs'[Host].hands
                        BY <3>2, <5>3
                    <6>2. (s \in tabs'[Host].hands) = FALSE
                        BY <6>1
                    <6>3. (IF m.from = s THEN m.on ELSE s \in tabs[Host].hands) = FALSE
                        BY <5>3
                    <6> QED
                        BY <6>2, <6>3
                <5> QED
                    BY <3>3, <5>1, <5>2, <5>3
            <4> QED
                BY <2>3, <2>6, <4>2, <4>3
        <3> QED
            BY <2>3, <2>4, <3>4 DEF HandTold
    <2> QED
        BY <2>5, <2>6
<1>7. CASE RecordingAnswered
    <2>1. \A q \in People : /\ tabs'[q].hand = tabs[q].hand /\ tabs'[q].hands = tabs[q].hands
                            /\ tabs'[q].room = tabs[q].room
        BY <1>7 DEF RecordingAnswered, Tabs
    <2>2. wire'[Host] = wire[Host]
        BY <1>7 DEF RecordingAnswered, Announced, Sent
    <2>3. \A q \in People : <<q, "hand">> \in untold => <<q, "hand">> \in untold'
        BY <1>7 DEF RecordingAnswered, Everyone
    <2> QED
        BY <2>1, <2>2, <2>3 DEF HandTold
<1>8. ASSUME UNCHANGED <<tabs, wire>>, untold \subseteq untold' PROVE HandTold'
    BY <1>8 DEF HandTold
<1>9. ASSUME NEW s \in Students, TogglePublish(s) PROVE HandTold'
    BY <1>8, <1>9 DEF TogglePublish
<1>10. CASE \/ ToggleRecording \/ HandleRecording \/ RecordingFails \/ CaptureEnds
            \/ EndSession \/ HandleEnd \/ EndFails
    BY <1>8, <1>10 DEF ToggleRecording, HandleRecording, RecordingFails, CaptureEnds,
       EndSession, HandleEnd, EndFails
<1> QED
    BY <1>1, <1>2, <1>3, <1>4, <1>5, <1>6, <1>7, <1>9, <1>10 DEF RoomNext

LEMMA RoomStarts == RoomInit => RoomInv
<1> SUFFICES ASSUME RoomInit PROVE RoomInv
    OBVIOUS
<1>1. /\ \A p \in People : tabs[p] = NewTab(1) /\ wire[p] = <<>>
      /\ Host \in People /\ <<>> \in Seq(Messages) /\ Len(<<>>) = 0
    BY EmptySeq DEF RoomInit, People
<1>2. NewTab(1) \in Tabs
    BY DEF NewTab, Tabs
<1>3. RoomTypeOK
    <2>1. tabs \in [People -> Tabs] /\ wire \in [People -> Seq(Messages)]
        BY <1>1, <1>2 DEF RoomInit
    <2>2. \A p \in People : tabs[p].visits \in 1..MaxJoins[p] /\ Len(wire[p]) <= MaxWire
        BY <1>1 DEF NewTab
    <2> QED
        BY <2>1, <2>2 DEF RoomInit, RoomTypeOK, Idle
<1>4. Joining /\ HostTab
    BY <1>1 DEF Joining, HostTab, NewTab, Live
<1>5. BadgeTold /\ HandTold
    BY <1>1 DEF BadgeTold, HandTold, NewTab
<1> QED
    BY <1>3, <1>4, <1>5 DEF RoomInv

LEMMA RoomSteps == RoomInv /\ [RoomNext]_roomVars => RoomInv'
<1>1. ASSUME RoomInv, RoomNext PROVE RoomInv'
    BY <1>1, RoomTypeStep, JoiningStep, HostTabStep, BadgeStep, HandStep DEF RoomInv
<1>2. ASSUME RoomInv, UNCHANGED roomVars PROVE RoomInv'
    BY <1>2 DEF roomVars, RoomInv, RoomTypeOK, Joining, HostTab, BadgeTold, HandTold, Live
<1> QED
    BY <1>1, <1>2

\* The pages, messages and requests of a room have their types.
THEOREM RoomTypeCorrect == RoomSpec => []RoomTypeOK
<1>1. RoomInv => RoomTypeOK
    BY DEF RoomInv
<1> QED
    BY <1>1, RoomStarts, RoomSteps, PTL DEF RoomSpec

\* Nobody stays in the room whose page is gone (live-room.page.ts:529, 837-841).
THEOREM GoneAreDisconnected == RoomSpec => []GoneIsDisconnected
<1>1. RoomInv => GoneIsDisconnected
    BY DEF RoomInv, Joining, GoneIsDisconnected
<1> QED
    BY <1>1, RoomStarts, RoomSteps, PTL DEF RoomSpec

\* Once messages are through, everyone in the room knows whether it is recorded and
\* the host who has a hand up (live-room.page.ts:833-838).
THEOREM TheRoomIsTold == RoomSpec => []RoomIsTold
<1>1. ASSUME RoomInv PROVE RoomIsTold
    <2>1. \A p \in In : p \in People /\ tabs[p].room = "in"
        BY DEF In
    <2>2. ASSUME NEW p \in In, wire[p] = <<>>, <<p, "badge">> \notin untold
          PROVE  tabs[p].badge = session.captured
        BY <1>1, <2>1, <2>2, TellsNothing DEF RoomInv, BadgeTold
    <2>3. ASSUME NEW p \in In, Host \in In, wire[Host] = <<>>, p # Host, <<p, "hand">> \notin untold
          PROVE  tabs[p].hand <=> p \in tabs[Host].hands
        <3>1. p \in Students
            BY <2>1, <2>3 DEF People
        <3>2. Tells(wire[Host], p, p \in tabs[Host].hands, tabs[p].hand)
            BY <1>1, <2>1, <2>3, <3>1 DEF RoomInv, HandTold
        <3>3. (p \in tabs[Host].hands) = tabs[p].hand
            BY <2>3, <3>2, TellsNothing
        <3> QED
            BY <3>3
    <2> QED
        BY <2>2, <2>3 DEF RoomIsTold
<1> QED
    BY <1>1, RoomStarts, RoomSteps, PTL DEF RoomSpec

-----------------------------------------------------------------------------
(* HostDesk *)

HIDE RoomAssumption
USE DeskAssumption

\* The server has moved on from old to new: a class, a row.
MovesOn(old, new) ==
    /\ old.edits <= new.edits
    /\ new.status = "DRAFT" => old.status = "DRAFT"
    /\ old.status = "CANCELLED" => new.status = "CANCELLED"

RowMovesOn(old, new) ==
    old # new => old = "absent" \/ new = "off"

\* An answer is of the kind that was asked for, and no newer than the server;
\* what is revoked stays so.
AnswersFit ==
    \A a \in asks :
        /\ a.said = "class" =>
               /\ a.kind \in OfHeader \cup {"update"}
               /\ a.class \in Courses
               /\ MovesOn(a.class, course)
        /\ a.said = "rows" =>
               /\ a.kind \in OfTab \ {"update"}
               /\ a.rows \in Listings
               /\ \A t \in Things : RowMovesOn(a.rows[t], listed[a.of][t])
               /\ a.kind = "revoke" => listed[a.of][a.thing] = "off"

\* A request whose tab is open was asked by that tab.
TabsFit ==
    /\ \A a \in asks : a.ear = "tab" =>
           /\ a.kind \in OfTab
           /\ a.kind \in {"list", "schedule", "drop", "revoke"} => a.of = desk.place
           /\ a.kind = "update" => desk.place = "details"
           /\ a.kind = "invite" => desk.place = "compose"
           /\ a.kind = "revoke" => desk.rows # NoAnswer
    /\ desk.form # "empty" => desk.place = "details"

\* The header has the class as it is, or the newest answer is still to come.
HeaderTruth ==
    /\ "class" \notin misled
    /\ desk.shown # NoAnswer \/ (\E a \in asks : a.said = "class" /\ a.ear # "none")
    => \/ desk.shown = course
       \/ \E a \in asks : /\ a.said = "class" /\ a.class = course
                          /\ a.ear = "none" => a.kind # "load"

\* A request after which the row t of the open list is right, or asked for again,
\* or shows an error.
RowIsComing(a, t) ==
    /\ a.of = desk.place
    /\ \/ /\ a.kind = "list" /\ a.ear = "tab"
          /\ a.said = "nothing" \/ (a.said = "rows" /\ AsListed(a.rows[t], t))
       \/ a.kind \in {"schedule", "drop", "invite"} /\ a.said = "rows"
       \/ a.kind = "revoke" /\ a.said = "rows" /\ a.thing = t
       \/ a.kind = "schedule" /\ a.ear = "tab"

RowTruth ==
    "rows" \notin misled /\ desk.place \in Lists /\ ~desk.failed =>
        \A t \in Things :
            \/ desk.rows # NoAnswer /\ AsListed(desk.rows[t], t)
            \/ \E a \in asks : RowIsComing(a, t)

DeskInv == DeskTypeOK /\ AnswersFit /\ TabsFit /\ HeaderTruth /\ RowTruth

-----------------------------------------------------------------------------
(* The type *)

LEMMA SomethingIsThere == Something \in Things
BY DEF Something

LEMMA DeskHas ==
    ASSUME NEW d \in Desks
    PROVE  /\ d.place \in Lists \cup {"details", "compose"}
           /\ d.shown \in Courses \cup {NoAnswer} /\ d.rows \in Listings \cup {NoAnswer}
           /\ d.working \in BOOLEAN /\ d.saving \in BOOLEAN /\ d.failed \in BOOLEAN
           /\ d.form \in {"empty", "early", "filled", "replaced", "typed"}
BY DEF Desks

LEMMA AskHas ==
    ASSUME NEW a \in Requests
    PROVE  /\ a.n \in 1..MaxAsks /\ a.kind \in OfHeader \cup OfTab
           /\ a.of \in Lists /\ a.thing \in Things
           /\ a.ear \in {"tab", "store", "none"} /\ a.said \in {"nothing", "class", "rows"}
           /\ a.class \in Courses \cup {NoAnswer} /\ a.rows \in Listings \cup {NoAnswer}
BY DEF Requests

LEMMA AskType ==
    ASSUME NEW n \in 1..MaxAsks, NEW kind \in OfHeader \cup OfTab, NEW of \in Lists,
           NEW thing \in Things, NEW ear \in {"tab", "store", "none"}
    PROVE  LET a == Ask(n, kind, of, thing, ear)
           IN /\ a \in Requests
              /\ a.n = n /\ a.kind = kind /\ a.of = of /\ a.thing = thing /\ a.ear = ear
              /\ a.said = "nothing"
BY DEF Ask, Requests

LEMMA ListingType ==
    ASSUME NEW n \in 1..MaxAsks, NEW of \in Lists
    PROVE  LET a == Listing(n, of)
           IN /\ a \in Requests
              /\ a.kind = "list" /\ a.of = of /\ a.ear = "tab" /\ a.said = "nothing"
<1>1. Something \in Things /\ "list" \in OfTab
    BY SomethingIsThere DEF OfTab
<1> QED
    BY <1>1, AskType DEF Listing

\* An ear is lost; the rest of the request stays.
LEMMA EarType ==
    ASSUME NEW a \in Requests, NEW ear \in {"tab", "store", "none"}
    PROVE  LET b == [a EXCEPT !.ear = ear]
           IN /\ b \in Requests /\ b.n = a.n /\ b.kind = a.kind /\ b.of = a.of
              /\ b.thing = a.thing /\ b.said = a.said /\ b.class = a.class /\ b.rows = a.rows
              /\ b.ear = ear
BY DEF Requests

LEMMA ClassReply ==
    ASSUME NEW a \in Requests, NEW class \in Courses
    PROVE  LET b == [a EXCEPT !.said = "class", !.class = class]
           IN /\ b \in Requests /\ b.n = a.n /\ b.kind = a.kind /\ b.of = a.of
              /\ b.thing = a.thing /\ b.ear = a.ear
              /\ b.said = "class" /\ b.class = class
BY DEF Requests

LEMMA RowsReply ==
    ASSUME NEW a \in Requests, NEW rows \in Listings
    PROVE  LET b == [a EXCEPT !.said = "rows", !.rows = rows]
           IN /\ b \in Requests /\ b.n = a.n /\ b.kind = a.kind /\ b.of = a.of
              /\ b.thing = a.thing /\ b.ear = a.ear
              /\ b.said = "rows" /\ b.rows = rows
BY DEF Requests

\* What closes keeps everything of a request but the ear; only one that has the
\* header's or the details' answer coming is still heard, by the store.
LEMMA TabClosedHas ==
    ASSUME NEW set \in SUBSET Requests
    PROVE  /\ TabClosed(set) \subseteq Requests
           /\ \A b \in TabClosed(set) :
                  /\ b.ear # "tab"
                  /\ \E a \in set : /\ b.kind = a.kind /\ b.of = a.of /\ b.thing = a.thing
                                    /\ b.said = a.said /\ b.class = a.class /\ b.rows = a.rows
                                    /\ a.ear = "none" => b.ear = "none"
           /\ \A a \in set : \E b \in TabClosed(set) :
                  /\ b.kind = a.kind /\ b.of = a.of /\ b.thing = a.thing
                  /\ b.said = a.said /\ b.class = a.class /\ b.rows = a.rows
                  /\ a.kind \in OfHeader \cup {"update"} /\ a.ear # "none" => b.ear # "none"
<1> DEFINE Ear(a) == IF a.kind \in OfHeader \cup {"update"} /\ a.ear # "none"
                     THEN "store" ELSE "none"
<1>1. \A a \in set : Ear(a) \in {"tab", "store", "none"} /\ Ear(a) # "tab"
                     /\ (a.ear = "none" => Ear(a) = "none")
                     /\ (a.kind \in OfHeader \cup {"update"} /\ a.ear # "none" => Ear(a) # "none")
    OBVIOUS
<1>2. TabClosed(set) = {[a EXCEPT !.ear = Ear(a)] : a \in set}
    BY DEF TabClosed
<1> HIDE DEF Ear
<1>3. ASSUME NEW a \in set
      PROVE  /\ [a EXCEPT !.ear = Ear(a)] \in Requests
             /\ [a EXCEPT !.ear = Ear(a)].kind = a.kind /\ [a EXCEPT !.ear = Ear(a)].of = a.of
             /\ [a EXCEPT !.ear = Ear(a)].thing = a.thing
             /\ [a EXCEPT !.ear = Ear(a)].said = a.said
             /\ [a EXCEPT !.ear = Ear(a)].class = a.class
             /\ [a EXCEPT !.ear = Ear(a)].rows = a.rows
             /\ [a EXCEPT !.ear = Ear(a)].ear = Ear(a)
    <2> DEFINE e == Ear(a)
    <2>1. a \in Requests /\ e \in {"tab", "store", "none"}
        BY <1>1
    <2> HIDE DEF e
    <2>2. LET b == [a EXCEPT !.ear = e]
          IN /\ b \in Requests /\ b.n = a.n /\ b.kind = a.kind /\ b.of = a.of
             /\ b.thing = a.thing /\ b.said = a.said /\ b.class = a.class /\ b.rows = a.rows
             /\ b.ear = e
        BY <2>1, EarType
    <2> QED
        BY <2>2 DEF e
<1>4. ASSUME NEW a \in set
      PROVE  \E b \in TabClosed(set) : b = [a EXCEPT !.ear = Ear(a)]
    BY <1>2
<1>5. ASSUME NEW b \in TabClosed(set)
      PROVE  \E a \in set : b = [a EXCEPT !.ear = Ear(a)]
    BY <1>2
<1>6. TabClosed(set) \subseteq Requests
    BY <1>3, <1>5
<1>7. ASSUME NEW b \in TabClosed(set)
      PROVE  /\ b.ear # "tab"
             /\ \E a \in set : /\ b.kind = a.kind /\ b.of = a.of /\ b.thing = a.thing
                               /\ b.said = a.said /\ b.class = a.class /\ b.rows = a.rows
                               /\ a.ear = "none" => b.ear = "none"
    <2>1. PICK a \in set : b = [a EXCEPT !.ear = Ear(a)]
        BY <1>5
    <2> QED
        BY <1>1, <1>3, <2>1
<1>8. ASSUME NEW a \in set
      PROVE  \E b \in TabClosed(set) :
                 /\ b.kind = a.kind /\ b.of = a.of /\ b.thing = a.thing
                 /\ b.said = a.said /\ b.class = a.class /\ b.rows = a.rows
                 /\ a.kind \in OfHeader \cup {"update"} /\ a.ear # "none" => b.ear # "none"
                 /\ a.ear = "none" => b.ear = "none"
    <2>1. PICK b \in TabClosed(set) : b = [a EXCEPT !.ear = Ear(a)]
        BY <1>4
    <2> QED
        BY <1>1, <1>3, <2>1
<1> QED
    BY <1>6, <1>7, <1>8

LEMMA AllClosedHas ==
    ASSUME NEW set \in SUBSET Requests
    PROVE  AllClosed(set) \subseteq Requests /\ \A b \in AllClosed(set) : b.ear = "none"
<1>1. \A a \in set : /\ [a EXCEPT !.ear = "none"] \in Requests
                     /\ [a EXCEPT !.ear = "none"].ear = "none"
    BY EarType
<1> QED
    BY <1>1 DEF AllClosed

\* What each change of what is open does to it.
LEMMA FilledHas ==
    ASSUME NEW d \in Desks
    PROVE  LET e == FormFilled(d)
           IN /\ e \in Desks
              /\ e.place = d.place /\ e.shown = d.shown /\ e.working = d.working
              /\ e.saving = d.saving /\ e.rows = d.rows /\ e.failed = d.failed
              /\ e.form # d.form => d.form \in {"empty", "early"} /\ d.place = "details"
BY DEF FormFilled, Desks

LEMMA NewTabHas ==
    ASSUME NEW d \in Desks, NEW place \in Lists \cup {"details"}
    PROVE  LET e == NewTabOf(d, place)
           IN /\ e \in Desks
              /\ e.place = place /\ e.shown = d.shown /\ e.rows = NoAnswer /\ ~e.failed
              /\ e.form # "empty" => place = "details"
<1> DEFINE c == [d EXCEPT !.place = place, !.form = "empty", !.saving = FALSE,
                          !.rows = NoAnswer, !.failed = FALSE]
<1>1. /\ c \in Desks /\ c.place = place /\ c.shown = d.shown /\ c.rows = NoAnswer
      /\ c.failed = FALSE /\ c.form = "empty"
    BY DEF Desks
<1>2. NewTabOf(d, place) = FormFilled(c)
    BY DEF NewTabOf
<1> HIDE DEF c
<1> QED
    BY <1>1, <1>2, FilledHas

LEMMA NewDeskHas ==
    ASSUME NEW place \in Lists \cup {"details", "compose"}
    PROVE  LET e == [NewDesk EXCEPT !.place = place]
           IN /\ e \in Desks
              /\ e.place = place /\ e.shown = NoAnswer /\ e.rows = NoAnswer /\ e.failed = FALSE
              /\ e.form = "empty"
BY DEF NewDesk, Desks

LEMMA SendsOne ==
    ASSUME NEW kind \in OfHeader \cup OfTab, NEW of \in Lists,
           NEW thing \in Things, NEW ear \in {"tab", "store", "none"},
           Sends(kind, of, thing, ear)
    PROVE  \E r \in Requests :
               /\ asks' = asks \cup {r}
               /\ r.kind = kind /\ r.of = of /\ r.thing = thing /\ r.ear = ear
               /\ r.said = "nothing"
<1>1. PICK n \in Unused : asks' = asks \cup {Ask(n, kind, of, thing, ear)}
    BY DEF Sends
<1>2. n \in 1..MaxAsks
    BY DEF Unused
<1>3. LET a == Ask(n, kind, of, thing, ear)
      IN /\ a \in Requests
         /\ a.n = n /\ a.kind = kind /\ a.of = of /\ a.thing = thing /\ a.ear = ear
         /\ a.said = "nothing"
    BY <1>2, AskType
<1> QED
    BY <1>1, <1>3

LEMMA ManageSends ==
    ASSUME NEW d, NEW place \in Lists, NEW set, Manage(d, place, set)
    PROVE  /\ desk' = d
           /\ \E l, r \in Requests :
                  /\ asks' = set \cup {l, r}
                  /\ l.said = "nothing" /\ l.kind = "load" /\ l.ear = "store"
                  /\ r.said = "nothing" /\ r.kind = "list" /\ r.ear = "tab" /\ r.of = place
<1>1. PICK n, m \in 1..MaxAsks :
          asks' = set \cup {Ask(n, "load", "sessions", Something, "store"), Listing(m, place)}
    BY DEF Manage
<1>2. LET a == Ask(n, "load", "sessions", Something, "store")
      IN a \in Requests /\ a.kind = "load" /\ a.ear = "store" /\ a.said = "nothing"
    <2>1. "load" \in OfHeader \cup OfTab /\ "sessions" \in Lists /\ Something \in Things
        BY SomethingIsThere DEF OfHeader, Lists
    <2> QED
        BY <2>1, AskType
<1>3. LET a == Listing(m, place)
      IN a \in Requests /\ a.kind = "list" /\ a.of = place /\ a.ear = "tab" /\ a.said = "nothing"
    BY ListingType
<1> QED
    BY <1>1, <1>2, <1>3 DEF Manage

\* What an answer about the class does to what is open.
LEMMA CourseTaken ==
    ASSUME DeskTypeOK, NEW ask \in asks, CourseAnswered(ask)
    PROVE  /\ desk' \in Desks
           /\ desk'.place = desk.place /\ desk'.rows = desk.rows /\ desk'.failed = desk.failed
           /\ desk'.shown = IF ask.ear = "none" THEN desk.shown ELSE ask.class
           /\ desk'.form # desk.form =>
                  \/ ask.ear = "tab" /\ ask.kind = "update"
                  \/ desk.form \in {"empty", "early"} /\ desk.place = "details"
<1> DEFINE d == IF ask.ear = "none" THEN desk ELSE [desk EXCEPT !.shown = ask.class]
           e == IF ask.ear # "none" /\ ask.kind \in {"publish", "cancel"}
                THEN [d EXCEPT !.working = FALSE] ELSE d
           f == IF ask.ear = "tab" /\ ask.kind = "update"
                THEN [e EXCEPT !.saving = FALSE, !.form = "filled"] ELSE e
<1>1. desk \in Desks /\ ask.class \in Courses \cup {NoAnswer}
    BY AskHas DEF DeskTypeOK
<1>2. /\ d \in Desks /\ d.place = desk.place /\ d.form = desk.form /\ d.rows = desk.rows
      /\ d.failed = desk.failed
      /\ d.shown = IF ask.ear = "none" THEN desk.shown ELSE ask.class
    BY <1>1 DEF Desks
<1> HIDE DEF d
<1>3. /\ e \in Desks /\ e.place = d.place /\ e.form = d.form /\ e.rows = d.rows
      /\ e.failed = d.failed /\ e.shown = d.shown
    BY <1>2 DEF Desks
<1> HIDE DEF e
<1>4. /\ f \in Desks /\ f.place = e.place /\ f.rows = e.rows
      /\ f.failed = e.failed /\ f.shown = e.shown
      /\ ~(ask.ear = "tab" /\ ask.kind = "update") => f.form = e.form
    BY <1>3 DEF Desks
<1>5. desk' = FormFilled(f)
    BY DEF CourseAnswered, d, e
<1> HIDE DEF f
<1>6. /\ desk' \in Desks /\ desk'.place = f.place /\ desk'.rows = f.rows
      /\ desk'.failed = f.failed /\ desk'.shown = f.shown
      /\ desk'.form # f.form =>
             f.form \in {"empty", "early"} /\ f.place = "details"
    BY <1>4, <1>5, FilledHas
<1> QED
    BY <1>2, <1>3, <1>4, <1>6

\* b is a with its ear closed, or untouched.
Same(b, a) ==
    /\ b.kind = a.kind /\ b.of = a.of /\ b.thing = a.thing
    /\ b.said = a.said /\ b.class = a.class /\ b.rows = a.rows

\* A step of the pages asks something new, closes ears, or drops requests.
FromAsks == \A b \in asks' : b \in Requests /\ (b.said = "nothing" \/ \E a \in asks : Same(b, a))

LEMMA AllClosedSame ==
    ASSUME NEW set \in SUBSET Requests, NEW b \in AllClosed(set)
    PROVE  \E a \in set : Same(b, a)
<1>1. PICK a \in set : b = [a EXCEPT !.ear = "none"]
    BY DEF AllClosed
<1> QED
    BY <1>1, EarType DEF Same

LEMMA PagesAsk ==
    ASSUME DeskTypeOK, TabsFit, DeskNext,
           \A ask \in asks : ~HandleCourse(ask) /\ ~HandleRow(ask)
    PROVE  /\ UNCHANGED <<course, listed>>
           /\ FromAsks
           /\ desk' \in Desks
           /\ misled' \subseteq {"class", "rows"}
<1>0. /\ desk \in Desks /\ asks \in SUBSET Requests /\ misled \subseteq {"class", "rows"}
      /\ Something \in Things /\ "sessions" \in Lists /\ "invitations" \in Lists
      /\ \A a \in asks : Same(a, a)
    BY SomethingIsThere DEF DeskTypeOK, Lists, Same
<1> USE <1>0
<1>1. ASSUME NEW place \in Lists \cup {"details"}, OpenTab(place)
      PROVE  UNCHANGED <<course, listed>> /\ FromAsks /\ desk' \in Desks /\ misled' \subseteq {"class", "rows"}
    <2>1. desk' \in Desks
        BY <1>1, NewTabHas DEF OpenTab
    <2>2. \A b \in TabClosed(asks) : b \in Requests /\ \E a \in asks : Same(b, a)
        BY TabClosedHas DEF Same
    <2>3. FromAsks
        <3>1. CASE place \in Lists
            <4>1. PICK n \in Unused : asks' = TabClosed(asks) \cup {Listing(n, place)}
                BY <1>1, <3>1 DEF OpenTab
            <4>2. Listing(n, place) \in Requests /\ Listing(n, place).said = "nothing"
                BY <3>1, ListingType DEF Unused
            <4> QED
                BY <2>2, <4>1, <4>2 DEF FromAsks
        <3>2. CASE place \notin Lists
            BY <1>1, <2>2, <3>2 DEF OpenTab, FromAsks
        <3> QED
            BY <3>1, <3>2
    <2> QED
        BY <1>1, <2>1, <2>3 DEF OpenTab
<1>2. CASE Compose
    <2>1. \A b \in AllClosed(asks) : b \in Requests /\ \E a \in asks : Same(b, a)
        BY AllClosedHas, AllClosedSame
    <2>2. desk' \in Desks
        BY <1>2, NewDeskHas DEF Compose
    <2> QED
        BY <1>2, <2>1, <2>2 DEF Compose, FromAsks
<1>3. CASE Back
    <2> DEFINE d == [NewDesk EXCEPT !.place = "invitations"]
    <2>1. d \in Desks
        BY NewDeskHas
    <2> HIDE DEF d
    <2>2. Manage(d, "invitations", AllClosed(asks))
        BY <1>3 DEF Back, d
    <2>3. \A b \in AllClosed(asks) : b \in Requests /\ \E a \in asks : Same(b, a)
        BY AllClosedHas, AllClosedSame
    <2>4. PICK l, r \in Requests : /\ asks' = AllClosed(asks) \cup {l, r}
                                   /\ l.said = "nothing" /\ r.said = "nothing"
        BY <2>2, ManageSends
    <2>5. FromAsks
        BY <2>3, <2>4 DEF FromAsks
    <2>6. desk' = d
        BY <2>2, ManageSends
    <2> QED
        BY <1>3, <2>1, <2>5, <2>6 DEF Back
<1>4. ASSUME NEW kind \in OfHeader \cup OfTab, NEW of \in Lists, NEW thing \in Things,
             NEW ear \in {"tab", "store", "none"}, Sends(kind, of, thing, ear)
      PROVE  FromAsks
    <2>1. PICK r \in Requests : asks' = asks \cup {r} /\ r.said = "nothing"
        BY <1>4, SendsOne
    <2> QED
        BY <2>1 DEF FromAsks
<1>5. CASE Publish
    <2>1. [desk EXCEPT !.working = TRUE] \in Desks
        BY DEF Desks
    <2>2. PICK kind \in {"publish", "cancel"} : Sends(kind, "sessions", Something, "store")
        BY <1>5 DEF Publish
    <2>3. kind \in OfHeader \cup OfTab
        BY DEF OfHeader
    <2> QED
        BY <1>4, <1>5, <2>1, <2>2, <2>3 DEF Publish
<1>6. CASE Edit
    <2> DEFINE form == IF desk.form \in {"empty", "early"} THEN "early" ELSE "typed"
    <2>1. [desk EXCEPT !.form = form] \in Desks
        BY DEF Desks
    <2> QED
        BY <1>6, <2>1 DEF Edit, FromAsks
<1>7. [desk EXCEPT !.saving = TRUE, !.failed = FALSE] \in Desks
    BY DEF Desks
<1>8. CASE SaveDetails
    <2>1. "update" \in OfHeader \cup OfTab
        BY DEF OfTab
    <2>2. FromAsks
        <3>1. CASE Sends("update", "sessions", Something, "tab")
            BY <1>4, <2>1, <3>1
        <3>2. CASE UNCHANGED asks
            BY <3>2 DEF FromAsks
        <3> QED
            BY <1>8, <3>1, <3>2 DEF SaveDetails
    <2> QED
        BY <1>7, <1>8, <2>2 DEF SaveDetails
<1>9. ASSUME NEW t \in Things, Schedule(t) \/ Invite(t)
      PROVE  UNCHANGED <<course, listed>> /\ FromAsks /\ desk' \in Desks /\ misled' \subseteq {"class", "rows"}
    <2>1. "schedule" \in OfHeader \cup OfTab /\ "invite" \in OfHeader \cup OfTab
        BY DEF OfTab
    <2> QED
        BY <1>4, <1>7, <1>9, <2>1 DEF Schedule, Invite
<1>10. ASSUME NEW t \in Things, Press(t)
       PROVE  UNCHANGED <<course, listed>> /\ FromAsks /\ desk' \in Desks /\ misled' \subseteq {"class", "rows"}
    <2> DEFINE kind == IF desk.place = "sessions" THEN "drop" ELSE "revoke"
    <2>1. kind \in OfHeader \cup OfTab /\ desk.place \in Lists
        BY <1>10 DEF Press, OfTab
    <2>2. Sends(kind, desk.place, t, "tab")
        BY <1>10 DEF Press
    <2> HIDE DEF kind
    <2>3. FromAsks
        BY <1>4, <2>1, <2>2
    <2> QED
        BY <1>10, <2>3 DEF Press
<1>11. ASSUME NEW ask \in asks, CourseAnswered(ask)
       PROVE  UNCHANGED <<course, listed>> /\ FromAsks /\ desk' \in Desks /\ misled' \subseteq {"class", "rows"}
    <2>1. desk' \in Desks
        BY <1>11, CourseTaken
    <2> QED
        BY <1>11, <2>1 DEF CourseAnswered, FromAsks
<1>12. ASSUME NEW ask \in asks, ListAnswered(ask)
       PROVE  UNCHANGED <<course, listed>> /\ FromAsks /\ desk' \in Desks /\ misled' \subseteq {"class", "rows"}
    <2>1. ask.rows \in Listings \cup {NoAnswer}
        BY AskHas
    <2>2. [desk EXCEPT !.rows = ask.rows] \in Desks
        BY <2>1 DEF Desks
    <2> QED
        BY <1>12, <2>2 DEF ListAnswered, FromAsks
<1>13. ASSUME NEW ask \in asks, RowAnswered(ask)
       PROVE  UNCHANGED <<course, listed>> /\ FromAsks /\ desk' \in Desks /\ misled' \subseteq {"class", "rows"}
    <2> DEFINE saving == IF ask.kind = "schedule" THEN FALSE ELSE desk.saving
               rows == IF ask.kind = "revoke" /\ desk.rows # NoAnswer
                       THEN [desk.rows EXCEPT ![ask.thing] = "off"] ELSE desk.rows
    <2>1. saving \in BOOLEAN /\ rows \in Listings \cup {NoAnswer}
        BY DeskHas, AskHas DEF Listings
    <2>2. desk' \in {desk, [desk EXCEPT !.saving = saving, !.rows = rows]}
        BY <1>13 DEF RowAnswered
    <2> HIDE DEF saving, rows
    <2>3. desk' \in Desks
        BY <2>1, <2>2 DEF Desks
    <2>4. FromAsks
        <3>1. CASE ask.ear = "tab" /\ Refreshes(ask.kind)
            <4>1. ask.n \in 1..MaxAsks /\ desk.place \in Lists
                BY <1>13, <3>1, AskHas DEF TabsFit, RowAnswered
            <4>2. Listing(ask.n, desk.place) \in Requests
                  /\ Listing(ask.n, desk.place).said = "nothing"
                BY <4>1, ListingType
            <4>3. asks' = (asks \ {ask}) \cup {Listing(ask.n, desk.place)}
                BY <1>13, <3>1 DEF RowAnswered
            <4> QED
                BY <4>2, <4>3 DEF FromAsks
        <3>2. CASE ~(ask.ear = "tab" /\ Refreshes(ask.kind))
            BY <1>13, <3>2 DEF RowAnswered, FromAsks
        <3> QED
            BY <3>1, <3>2
    <2> QED
        BY <1>13, <2>3, <2>4 DEF RowAnswered
<1>14. ASSUME NEW ask \in asks, InviteAnswered(ask)
       PROVE  UNCHANGED <<course, listed>> /\ FromAsks /\ desk' \in Desks /\ misled' \subseteq {"class", "rows"}
    <2> DEFINE set == asks \ {ask}
    <2>0. set \in SUBSET Requests /\ set \subseteq asks
        OBVIOUS
    <2>1. CASE desk.place = "compose"
        <3> DEFINE d == [NewDesk EXCEPT !.place = "invitations"]
        <3>1. d \in Desks
            BY NewDeskHas
        <3> HIDE DEF d
        <3>2. Manage(d, "invitations", AllClosed(set))
            BY <1>14, <2>1 DEF InviteAnswered, d
        <3> HIDE DEF set
        <3>3. \A b \in AllClosed(set) : b \in Requests /\ \E a \in asks : Same(b, a)
            BY <2>0, AllClosedHas, AllClosedSame
        <3>4. PICK l, r \in Requests : /\ asks' = AllClosed(set) \cup {l, r}
                                       /\ l.said = "nothing" /\ r.said = "nothing"
            BY <3>2, ManageSends
        <3>5. FromAsks
            BY <3>3, <3>4 DEF FromAsks
        <3>6. desk' = d
            BY <3>2, ManageSends
        <3> QED
            BY <1>14, <3>1, <3>5, <3>6 DEF InviteAnswered
    <2>2. CASE desk.place = "invitations"
        BY <1>14, <2>2 DEF InviteAnswered, FromAsks
    <2>3. CASE desk.place \notin {"compose", "invitations"}
        <3>1. desk' \in Desks
            BY <1>14, <2>3, NewTabHas DEF InviteAnswered
        <3>2. asks' = TabClosed(set) \cup {Listing(ask.n, "invitations")}
            BY <1>14, <2>3 DEF InviteAnswered
        <3> HIDE DEF set
        <3>3. \A b \in TabClosed(set) : b \in Requests /\ \E a \in asks : Same(b, a)
            BY <2>0, TabClosedHas DEF Same
        <3>4. /\ Listing(ask.n, "invitations") \in Requests
              /\ Listing(ask.n, "invitations").said = "nothing"
            BY AskHas, ListingType
        <3>5. FromAsks
            BY <3>2, <3>3, <3>4 DEF FromAsks
        <3> QED
            BY <1>14, <3>1, <3>5 DEF InviteAnswered
    <2> QED
        BY <2>1, <2>2, <2>3
<1>15. ASSUME NEW ask \in asks, AskFails(ask)
       PROVE  UNCHANGED <<course, listed>> /\ FromAsks /\ desk' \in Desks /\ misled' \subseteq {"class", "rows"}
    <2> DEFINE w == desk.working /\ ~(ask.ear # "none" /\ ask.kind \in {"publish", "cancel"})
               s == desk.saving /\ ~(ask.ear = "tab" /\ ask.kind \in {"update", "schedule", "invite"})
               f == desk.failed \/ ask.ear = "tab"
    <2>1. w \in BOOLEAN /\ s \in BOOLEAN /\ f \in BOOLEAN
        OBVIOUS
    <2>2. desk' = [desk EXCEPT !.working = w, !.saving = s, !.failed = f]
        BY <1>15 DEF AskFails
    <2> HIDE DEF w, s, f
    <2>3. desk' \in Desks
        BY <2>1, <2>2 DEF Desks
    <2>4. misled' \subseteq {"class", "rows"}
        BY <1>15, AskHas DEF AskFails
    <2> QED
        BY <1>15, <2>3, <2>4 DEF AskFails, FromAsks
<1> QED
    BY <1>1, <1>2, <1>3, <1>5, <1>6, <1>8, <1>9, <1>10, <1>11, <1>12, <1>13, <1>14, <1>15
    DEF DeskNext

-----------------------------------------------------------------------------
(* The server *)

LEMMA CourseHandled ==
    ASSUME DeskTypeOK, NEW ask \in asks, HandleCourse(ask)
    PROVE  /\ ask.said = "nothing" /\ ask.kind \in OfHeader \cup {"update"}
           /\ course' \in Courses /\ MovesOn(course, course')
           /\ ask.kind = "load" => course' = course
           /\ listed' \in [Lists -> Listings]
           /\ \A l \in Lists, t \in Things :
                  /\ RowMovesOn(listed[l][t], listed'[l][t])
                  /\ listed'[l][t] # listed[l][t] =>
                         /\ l = "sessions" /\ listed[l][t] = "on" /\ listed'[l][t] = "off"
                         /\ course'.status = "CANCELLED"
           /\ UNCHANGED <<desk, misled>>
           /\ \E r \in Requests :
                  /\ asks' = (asks \ {ask}) \cup {r}
                  /\ r.kind = ask.kind /\ r.of = ask.of /\ r.thing = ask.thing /\ r.ear = ask.ear
                  /\ r.said = "class" /\ r.class = course'
<1>1. course \in Courses /\ ask \in Requests /\ listed \in [Lists -> Listings]
    BY DEF DeskTypeOK
<1>2. ask.said = "nothing" /\ UNCHANGED <<desk, misled>>
    BY DEF HandleCourse
<1>3. /\ course' \in Courses /\ MovesOn(course, course')
      /\ ask.kind \in OfHeader \cup {"update"} /\ (ask.kind = "load" => course' = course)
    <2>1. CASE ask.kind = "load"
        BY <1>1, <2>1 DEF HandleCourse, MovesOn, OfHeader, Courses
    <2>2. CASE ask.kind = "publish"
        BY <1>1, <2>2 DEF HandleCourse, MovesOn, OfHeader, Courses
    <2>3. CASE ask.kind = "cancel"
        BY <1>1, <2>3 DEF HandleCourse, MovesOn, OfHeader, Courses
    <2>4. CASE ask.kind = "update"
        BY <1>1, <2>4 DEF HandleCourse, MovesOn, Courses
    <2> QED
        BY <2>1, <2>2, <2>3, <2>4 DEF HandleCourse
<1>4. asks' = (asks \ {ask}) \cup {[ask EXCEPT !.said = "class", !.class = course']}
    BY DEF HandleCourse, Answers
<1>5. /\ listed' \in [Lists -> Listings]
      /\ \A l \in Lists, t \in Things :
             listed'[l][t] = IF ask.kind = "cancel" /\ l = "sessions" /\ listed[l][t] = "on"
                             THEN "off" ELSE listed[l][t]
    BY <1>1 DEF HandleCourse, ListsAfter, Listings
<1>6. ask.kind = "cancel" => course'.status = "CANCELLED"
    BY <1>1 DEF HandleCourse, Courses
<1>7. \A l \in Lists, t \in Things :
          /\ RowMovesOn(listed[l][t], listed'[l][t])
          /\ listed'[l][t] # listed[l][t] =>
                 /\ l = "sessions" /\ listed[l][t] = "on" /\ listed'[l][t] = "off"
                 /\ course'.status = "CANCELLED"
    BY <1>5, <1>6 DEF RowMovesOn
<1>8. \E r \in Requests :
          /\ asks' = (asks \ {ask}) \cup {r}
          /\ r.kind = ask.kind /\ r.of = ask.of /\ r.thing = ask.thing /\ r.ear = ask.ear
          /\ r.said = "class" /\ r.class = course'
    BY <1>1, <1>3, <1>4, ClassReply
<1> QED
    BY <1>2, <1>3, <1>5, <1>7, <1>8

LEMMA RowHandled ==
    ASSUME DeskTypeOK, NEW ask \in asks, HandleRow(ask)
    PROVE  /\ ask.said = "nothing" /\ ask.kind \in OfTab \ {"update"}
           /\ listed' \in [Lists -> Listings]
           /\ \A l \in Lists, t \in Things :
                  /\ RowMovesOn(listed[l][t], listed'[l][t])
                  /\ listed'[l][t] # listed[l][t] => l = ask.of /\ t = ask.thing /\ ask.kind # "list"
           /\ ask.kind = "revoke" => listed'[ask.of][ask.thing] = "off"
           /\ UNCHANGED <<course, desk, misled>>
           /\ \E r \in Requests :
                  /\ asks' = (asks \ {ask}) \cup {r}
                  /\ r.kind = ask.kind /\ r.of = ask.of /\ r.thing = ask.thing /\ r.ear = ask.ear
                  /\ r.said = "rows" /\ r.rows = listed'[ask.of]
<1>1. listed \in [Lists -> Listings] /\ ask \in Requests /\ ask.of \in Lists /\ ask.thing \in Things
    BY AskHas DEF DeskTypeOK
<1>2. ask.said = "nothing" /\ UNCHANGED <<course, desk, misled>>
    BY DEF HandleRow
<1>3. /\ listed' \in [Lists -> Listings]
      /\ \A l \in Lists, t \in Things :
             /\ RowMovesOn(listed[l][t], listed'[l][t])
             /\ listed'[l][t] # listed[l][t] => l = ask.of /\ t = ask.thing /\ ask.kind # "list"
      /\ ask.kind \in OfTab \ {"update"}
      /\ ask.kind = "revoke" => listed'[ask.of][ask.thing] = "off"
    <2>1. CASE ask.kind = "list"
        BY <1>1, <2>1 DEF HandleRow, RowMovesOn, OfTab
    <2>2. CASE ask.kind \in {"schedule", "invite"}
        BY <1>1, <2>2 DEF HandleRow, RowMovesOn, OfTab, Listings
    <2>3. CASE ask.kind \in {"drop", "revoke"}
        BY <1>1, <2>3 DEF HandleRow, RowMovesOn, OfTab, Listings
    <2> QED
        BY <2>1, <2>2, <2>3 DEF HandleRow
<1>4. asks' = (asks \ {ask}) \cup {[ask EXCEPT !.said = "rows", !.rows = listed'[ask.of]]}
    BY DEF HandleRow, Answers
<1>5. \E r \in Requests :
          /\ asks' = (asks \ {ask}) \cup {r}
          /\ r.kind = ask.kind /\ r.of = ask.of /\ r.thing = ask.thing /\ r.ear = ask.ear
          /\ r.said = "rows" /\ r.rows = listed'[ask.of]
    <2> DEFINE rows == listed'[ask.of]
    <2>1. rows \in Listings
        BY <1>1, <1>3
    <2> HIDE DEF rows
    <2>2. asks' = (asks \ {ask}) \cup {[ask EXCEPT !.said = "rows", !.rows = rows]}
        BY <1>4 DEF rows
    <2>3. LET b == [ask EXCEPT !.said = "rows", !.rows = rows]
          IN /\ b \in Requests /\ b.n = ask.n /\ b.kind = ask.kind /\ b.of = ask.of
             /\ b.thing = ask.thing /\ b.ear = ask.ear
             /\ b.said = "rows" /\ b.rows = rows
        BY <1>1, <2>1, RowsReply
    <2> QED
        BY <2>2, <2>3 DEF rows
<1> QED
    BY <1>2, <1>3, <1>5

LEMMA DeskTypeStep ==
    ASSUME DeskTypeOK, TabsFit, DeskNext
    PROVE  DeskTypeOK'
<1>1. CASE \A ask \in asks : ~HandleCourse(ask) /\ ~HandleRow(ask)
    <2>1. /\ UNCHANGED <<course, listed>> /\ FromAsks /\ desk' \in Desks
          /\ misled' \subseteq {"class", "rows"}
        BY <1>1, PagesAsk
    <2>2. asks' \subseteq Requests
        BY <2>1 DEF FromAsks
    <2> QED
        BY <2>1, <2>2 DEF DeskTypeOK
<1>2. ASSUME NEW ask \in asks, HandleCourse(ask) PROVE DeskTypeOK'
    <2>1. /\ course' \in Courses /\ listed' \in [Lists -> Listings] /\ UNCHANGED <<desk, misled>>
          /\ \E r \in Requests : asks' = (asks \ {ask}) \cup {r}
        BY <1>2, CourseHandled
    <2> QED
        BY <2>1 DEF DeskTypeOK
<1>3. ASSUME NEW ask \in asks, HandleRow(ask) PROVE DeskTypeOK'
    <2>1. /\ listed' \in [Lists -> Listings] /\ UNCHANGED <<course, desk, misled>>
          /\ \E r \in Requests : asks' = (asks \ {ask}) \cup {r}
        BY <1>3, RowHandled
    <2> QED
        BY <2>1 DEF DeskTypeOK
<1> QED
    BY <1>1, <1>2, <1>3

LEMMA AnswersStep ==
    ASSUME DeskTypeOK, AnswersFit, TabsFit, DeskNext
    PROVE  AnswersFit'
<1>0. /\ asks \subseteq Requests /\ course \in Courses /\ listed \in [Lists -> Listings]
      /\ \A a \in asks : a.of \in Lists /\ a.thing \in Things
    BY AskHas DEF DeskTypeOK
<1>1. CASE \A ask \in asks : ~HandleCourse(ask) /\ ~HandleRow(ask)
    <2>1. UNCHANGED <<course, listed>> /\ FromAsks
        BY <1>1, PagesAsk
    <2> QED
        BY <2>1 DEF AnswersFit, FromAsks, Same
<1>2. ASSUME NEW ask \in asks, HandleCourse(ask) PROVE AnswersFit'
    <2>1. PICK r \in Requests :
              /\ asks' = (asks \ {ask}) \cup {r}
              /\ r.kind = ask.kind /\ r.said = "class" /\ r.class = course'
        BY <1>2, CourseHandled
    <2>2. /\ course' \in Courses /\ MovesOn(course, course')
          /\ \A l \in Lists, t \in Things : RowMovesOn(listed[l][t], listed'[l][t])
          /\ ask.kind \in OfHeader \cup {"update"}
        BY <1>2, CourseHandled
    <2>3. MovesOn(course', course')
        BY <2>2 DEF MovesOn, Courses
    <2>4. ASSUME NEW a \in asks, a.said = "class" PROVE MovesOn(a.class, course')
        <3>1. MovesOn(a.class, course) /\ a.class \in Courses
            BY <2>4 DEF AnswersFit
        <3> QED
            BY <1>0, <2>2, <3>1 DEF MovesOn, Courses
    <2>5. ASSUME NEW a \in asks, a.said = "rows"
          PROVE  /\ \A t \in Things : RowMovesOn(a.rows[t], listed'[a.of][t])
                 /\ a.kind = "revoke" => listed'[a.of][a.thing] = "off"
        BY <1>0, <2>2, <2>5 DEF AnswersFit, RowMovesOn
    <2> QED
        BY <2>1, <2>2, <2>3, <2>4, <2>5 DEF AnswersFit
<1>3. ASSUME NEW ask \in asks, HandleRow(ask) PROVE AnswersFit'
    <2>1. PICK r \in Requests :
              /\ asks' = (asks \ {ask}) \cup {r}
              /\ r.kind = ask.kind /\ r.of = ask.of /\ r.thing = ask.thing
              /\ r.said = "rows" /\ r.rows = listed'[ask.of]
        BY <1>3, RowHandled
    <2>2. /\ course' = course /\ listed' \in [Lists -> Listings]
          /\ \A l \in Lists, t \in Things : RowMovesOn(listed[l][t], listed'[l][t])
          /\ ask.kind \in OfTab \ {"update"}
          /\ ask.kind = "revoke" => listed'[ask.of][ask.thing] = "off"
        BY <1>3, RowHandled
    <2>3. ASSUME NEW a \in asks, a.said = "rows"
          PROVE  /\ \A t \in Things : RowMovesOn(a.rows[t], listed'[a.of][t])
                 /\ a.kind = "revoke" => listed'[a.of][a.thing] = "off"
        BY <1>0, <2>2, <2>3 DEF AnswersFit, RowMovesOn
    <2>4. ASSUME NEW a \in asks', a.said = "class"
          PROVE  a.kind \in OfHeader \cup {"update"} /\ a.class \in Courses /\ MovesOn(a.class, course')
        BY <2>1, <2>2, <2>4 DEF AnswersFit
    <2>5. ASSUME NEW a \in asks \ {ask}, a.said = "rows"
          PROVE  /\ a.kind \in OfTab \ {"update"} /\ a.rows \in Listings
                 /\ \A t \in Things : RowMovesOn(a.rows[t], listed'[a.of][t])
                 /\ a.kind = "revoke" => listed'[a.of][a.thing] = "off"
        BY <2>3, <2>5 DEF AnswersFit
    <2>6. /\ r.kind \in OfTab \ {"update"} /\ r.rows \in Listings
          /\ \A t \in Things : RowMovesOn(r.rows[t], listed'[r.of][t])
          /\ r.kind = "revoke" => listed'[r.of][r.thing] = "off"
        BY <1>0, <2>1, <2>2 DEF RowMovesOn
    <2> QED
        BY <2>1, <2>4, <2>5, <2>6 DEF AnswersFit
<1> QED
    BY <1>1, <1>2, <1>3

-----------------------------------------------------------------------------
(* Tabs *)

LEMMA TabsStep ==
    ASSUME DeskTypeOK, AnswersFit, TabsFit, DeskNext
    PROVE  TabsFit'
<1>0. /\ desk \in Desks /\ asks \in SUBSET Requests
      /\ Something \in Things /\ "sessions" \in Lists /\ "invitations" \in Lists
      /\ \A a \in asks : a.kind \in OfHeader \cup OfTab
    BY SomethingIsThere, AskHas DEF DeskTypeOK, Lists
<1> USE <1>0
\* A new page: of what was asked before, nothing is left of its tab.
<1>1. ASSUME NEW set \in SUBSET Requests, \A b \in set : b.ear # "tab",
             desk'.form # "empty" => desk'.place = "details",
             \A b \in asks' : b \in set \/ b.ear # "tab" \/ (b.kind = "list" /\ b.of = desk'.place)
      PROVE  TabsFit'
    BY <1>1 DEF TabsFit, OfTab
\* The same page: of the requests, none is heard that was not before.
<1>2. ASSUME desk'.place = desk.place, desk'.form # "empty" => desk.place = "details",
             desk.rows # NoAnswer => desk'.rows # NoAnswer,
             \A b \in asks' : \/ b \in asks
                              \/ b.ear # "tab"
                              \/ b.kind = "list" /\ b.of = desk.place
                              \/ \E a \in asks : b.kind = a.kind /\ b.of = a.of /\ b.ear = a.ear
      PROVE  TabsFit'
    <2>1. ASSUME NEW b \in asks', b.ear = "tab"
          PROVE  /\ b.kind \in OfTab
                 /\ b.kind \in {"list", "schedule", "drop", "revoke"} => b.of = desk'.place
                 /\ b.kind = "update" => desk'.place = "details"
                 /\ b.kind = "invite" => desk'.place = "compose"
                 /\ b.kind = "revoke" => desk'.rows # NoAnswer
        <3>1. CASE b.kind = "list" /\ b.of = desk.place
            BY <1>2, <3>1 DEF OfTab
        <3>2. CASE \E a \in asks : b.kind = a.kind /\ b.of = a.of /\ b.ear = a.ear
            BY <1>2, <2>1, <3>2 DEF TabsFit
        <3> QED
            BY <1>2, <2>1, <3>1, <3>2
    <2> QED
        BY <1>2, <2>1 DEF TabsFit
<1>3. ASSUME NEW place \in Lists \cup {"details"}, OpenTab(place) PROVE TabsFit'
    <2>1. /\ desk'.place = place /\ (desk'.form # "empty" => place = "details")
        BY <1>3, NewTabHas DEF OpenTab
    <2>2. TabClosed(asks) \in SUBSET Requests /\ \A b \in TabClosed(asks) : b.ear # "tab"
        BY TabClosedHas
    <2>3. \A b \in asks' : \/ b \in TabClosed(asks)
                           \/ b.kind = "list" /\ b.of = place
        <3>1. CASE place \in Lists
            <4>1. PICK n \in Unused : asks' = TabClosed(asks) \cup {Listing(n, place)}
                BY <1>3, <3>1 DEF OpenTab
            <4>2. Listing(n, place).kind = "list" /\ Listing(n, place).of = place
                BY <3>1, ListingType DEF Unused
            <4> QED
                BY <4>1, <4>2
        <3>2. CASE place \notin Lists
            BY <1>3, <3>2 DEF OpenTab
        <3> QED
            BY <3>1, <3>2
    <2> QED
        BY <1>1, <2>1, <2>2, <2>3
<1>4. CASE Compose
    <2>1. AllClosed(asks) \in SUBSET Requests /\ \A b \in AllClosed(asks) : b.ear # "tab"
        BY AllClosedHas
    <2>2. desk'.form = "empty" /\ asks' = AllClosed(asks)
        BY <1>4, NewDeskHas DEF Compose
    <2> QED
        BY <1>1, <2>1, <2>2
<1>5. ASSUME NEW set \in SUBSET Requests,
             Manage([NewDesk EXCEPT !.place = "invitations"], "invitations", AllClosed(set))
      PROVE  TabsFit'
    <2> DEFINE d == [NewDesk EXCEPT !.place = "invitations"]
    <2>1. d.form = "empty" /\ d.place = "invitations"
        BY NewDeskHas
    <2> HIDE DEF d
    <2>2. Manage(d, "invitations", AllClosed(set))
        BY <1>5 DEF d
    <2>3. AllClosed(set) \in SUBSET Requests /\ \A b \in AllClosed(set) : b.ear # "tab"
        BY AllClosedHas
    <2>4. PICK l, r \in Requests : /\ asks' = AllClosed(set) \cup {l, r} /\ l.ear = "store"
                                   /\ r.kind = "list" /\ r.of = "invitations"
        BY <2>2, ManageSends
    <2>5. desk' = d
        BY <2>2, ManageSends
    <2> QED
        BY <1>1, <2>1, <2>3, <2>4, <2>5
<1>6. CASE Back
    BY <1>5, <1>6 DEF Back
<1>7. CASE Publish
    <2>1. PICK kind \in {"publish", "cancel"} : Sends(kind, "sessions", Something, "store")
        BY <1>7 DEF Publish
    <2>2. PICK r \in Requests : asks' = asks \cup {r} /\ r.ear = "store"
        BY <2>1, SendsOne DEF OfHeader
    <2>3. desk'.place = desk.place /\ desk'.form = desk.form /\ desk'.rows = desk.rows
        BY <1>7 DEF Publish, Desks
    <2> QED
        BY <1>2, <2>2, <2>3 DEF TabsFit
<1>8. CASE Edit
    <2>1. desk'.place = desk.place /\ desk.place = "details" /\ desk'.rows = desk.rows /\ asks' = asks
        BY <1>8 DEF Edit, Desks
    <2> QED
        BY <1>2, <2>1
<1>9. ASSUME NEW kind \in OfTab, NEW of \in Lists, NEW thing \in Things,
             Sends(kind, of, thing, "tab"),
             desk'.place = desk.place, desk'.form = desk.form, desk'.rows = desk.rows,
             /\ kind \in {"list", "schedule", "drop", "revoke"} => of = desk.place
             /\ kind = "update" => desk.place = "details"
             /\ kind = "invite" => desk.place = "compose"
             /\ kind = "revoke" => desk.rows # NoAnswer
      PROVE  TabsFit'
    <2>1. PICK r \in Requests : asks' = asks \cup {r} /\ r.kind = kind /\ r.of = of
        BY <1>9, SendsOne
    <2> QED
        BY <1>9, <2>1 DEF TabsFit
<1>10. CASE SaveDetails
    <2>1. desk'.place = desk.place /\ desk'.form = desk.form /\ desk'.rows = desk.rows
        BY <1>10 DEF SaveDetails, Desks
    <2>2. desk.place = "details"
        BY <1>10 DEF SaveDetails, TabsFit
    <2>3. CASE Sends("update", "sessions", Something, "tab")
        BY <1>9, <2>1, <2>2, <2>3 DEF OfTab
    <2>4. CASE UNCHANGED asks
        BY <1>2, <2>1, <2>2, <2>4
    <2> QED
        BY <1>10, <2>3, <2>4 DEF SaveDetails
<1>11. ASSUME NEW t \in Things, Schedule(t) PROVE TabsFit'
    <2>1. desk'.place = desk.place /\ desk'.form = desk.form /\ desk'.rows = desk.rows
        BY <1>11 DEF Schedule, Desks
    <2> QED
        BY <1>9, <1>11, <2>1 DEF Schedule, OfTab
<1>12. ASSUME NEW t \in Things, Invite(t) PROVE TabsFit'
    <2>1. desk'.place = desk.place /\ desk'.form = desk.form /\ desk'.rows = desk.rows
        BY <1>12 DEF Invite, Desks
    <2> QED
        BY <1>9, <1>12, <2>1 DEF Invite, OfTab
<1>13. ASSUME NEW t \in Things, Press(t) PROVE TabsFit'
    <2> DEFINE kind == IF desk.place = "sessions" THEN "drop" ELSE "revoke"
    <2>1. kind \in OfTab /\ kind \in {"drop", "revoke"}
        BY DEF OfTab
    <2>2. Sends(kind, desk.place, t, "tab")
        BY <1>13 DEF Press
    <2> HIDE DEF kind
    <2>3. desk' = desk /\ desk.place \in Lists /\ desk.rows # NoAnswer
        BY <1>13 DEF Press
    <2> QED
        BY <1>9, <2>1, <2>2, <2>3
<1>14. ASSUME NEW ask \in asks, HandleCourse(ask) \/ HandleRow(ask) PROVE TabsFit'
    <2>1. PICK r \in Requests : /\ asks' = (asks \ {ask}) \cup {r}
                                /\ r.kind = ask.kind /\ r.of = ask.of /\ r.ear = ask.ear
        BY <1>14, CourseHandled, RowHandled
    <2>2. desk' = desk
        BY <1>14 DEF HandleCourse, HandleRow
    <2> QED
        BY <1>2, <2>1, <2>2 DEF TabsFit
<1>15. ASSUME NEW ask \in asks, CourseAnswered(ask) PROVE TabsFit'
    <2>1. /\ desk'.place = desk.place /\ desk'.rows = desk.rows
          /\ desk'.form # desk.form => desk.place = "details"
        BY <1>15, CourseTaken DEF TabsFit
    <2>2. asks' = asks \ {ask}
        BY <1>15 DEF CourseAnswered
    <2> QED
        BY <1>2, <2>1, <2>2 DEF TabsFit
<1>16. ASSUME NEW ask \in asks, ListAnswered(ask) PROVE TabsFit'
    <2>1. asks' = asks \ {ask} /\ ask.rows # NoAnswer
        BY <1>16 DEF ListAnswered, AnswersFit
    <2>2. /\ desk'.place = desk.place /\ desk'.form = desk.form
          /\ desk.rows # NoAnswer => desk'.rows # NoAnswer
        BY <1>16, <2>1 DEF ListAnswered, Desks
    <2> QED
        BY <1>2, <2>1, <2>2 DEF TabsFit
<1>17. ASSUME NEW ask \in asks, RowAnswered(ask) PROVE TabsFit'
    <2> DEFINE saving == IF ask.kind = "schedule" THEN FALSE ELSE desk.saving
               rows == IF ask.kind = "revoke" /\ desk.rows # NoAnswer
                       THEN [desk.rows EXCEPT ![ask.thing] = "off"] ELSE desk.rows
    <2>1. desk.rows # NoAnswer => rows # NoAnswer
        <3>1. desk.rows \in Listings => [desk.rows EXCEPT ![ask.thing] = "off"] \in Listings
            BY DEF Listings
        <3> QED
            BY <3>1, DeskHas
    <2>2. desk' \in {desk, [desk EXCEPT !.saving = saving, !.rows = rows]}
        BY <1>17 DEF RowAnswered
    <2> HIDE DEF saving, rows
    <2>3. /\ desk'.place = desk.place /\ desk'.form = desk.form
          /\ desk.rows # NoAnswer => desk'.rows # NoAnswer
        BY <2>1, <2>2 DEF Desks
    <2>4. \A b \in asks' : b \in asks \/ (b.kind = "list" /\ b.of = desk.place)
        <3>1. CASE ask.ear = "tab" /\ Refreshes(ask.kind)
            <4>1. ask.n \in 1..MaxAsks /\ desk.place \in Lists
                BY <1>17, <3>1, AskHas DEF TabsFit, RowAnswered
            <4>2. Listing(ask.n, desk.place).kind = "list" /\ Listing(ask.n, desk.place).of = desk.place
                BY <4>1, ListingType
            <4>3. asks' = (asks \ {ask}) \cup {Listing(ask.n, desk.place)}
                BY <1>17, <3>1 DEF RowAnswered
            <4> QED
                BY <4>2, <4>3
        <3>2. CASE ~(ask.ear = "tab" /\ Refreshes(ask.kind))
            BY <1>17, <3>2 DEF RowAnswered
        <3> QED
            BY <3>1, <3>2
    <2> QED
        BY <1>2, <2>3, <2>4 DEF TabsFit
<1>18. ASSUME NEW ask \in asks, InviteAnswered(ask) PROVE TabsFit'
    <2> DEFINE set == asks \ {ask}
    <2>0. set \in SUBSET Requests
        OBVIOUS
    <2>1. CASE desk.place = "compose"
        BY <1>5, <1>18, <2>0, <2>1 DEF InviteAnswered
    <2>2. CASE desk.place = "invitations"
        BY <1>2, <1>18, <2>2 DEF InviteAnswered, TabsFit
    <2>3. CASE desk.place \notin {"compose", "invitations"}
        <3>1. desk'.place = "invitations" /\ desk'.form = "empty"
            BY <1>18, <2>3, NewTabHas DEF InviteAnswered
        <3>2. asks' = TabClosed(set) \cup {Listing(ask.n, "invitations")}
            BY <1>18, <2>3 DEF InviteAnswered
        <3>3. Listing(ask.n, "invitations").kind = "list" /\ Listing(ask.n, "invitations").of = "invitations"
            BY AskHas, ListingType
        <3> HIDE DEF set
        <3>4. TabClosed(set) \in SUBSET Requests /\ \A b \in TabClosed(set) : b.ear # "tab"
            BY <2>0, TabClosedHas
        <3> QED
            BY <1>1, <3>1, <3>2, <3>3, <3>4
    <2> QED
        BY <2>1, <2>2, <2>3
<1>19. ASSUME NEW ask \in asks, AskFails(ask) PROVE TabsFit'
    <2>1. desk'.place = desk.place /\ desk'.form = desk.form /\ desk'.rows = desk.rows
        BY <1>19 DEF AskFails, Desks
    <2>2. asks' = asks \ {ask}
        BY <1>19 DEF AskFails
    <2> QED
        BY <1>2, <2>1, <2>2 DEF TabsFit
<1> QED
    BY <1>3, <1>4, <1>6, <1>7, <1>8, <1>10, <1>11, <1>12, <1>13, <1>14, <1>15, <1>16, <1>17,
       <1>18, <1>19 DEF DeskNext

-----------------------------------------------------------------------------
(* The header *)

LEMMA HeaderStep ==
    ASSUME DeskTypeOK, AnswersFit, HeaderTruth, DeskNext
    PROVE  HeaderTruth'
<1>0. /\ desk \in Desks /\ asks \in SUBSET Requests /\ course \in Courses
      /\ Something \in Things /\ "sessions" \in Lists /\ "invitations" \in Lists
    BY SomethingIsThere DEF DeskTypeOK, Lists
<1> USE <1>0
\* Answers of the class that are on their way stay so, and are heard as before.
<1>1. ASSUME course' = course, desk'.shown = desk.shown, "class" \in misled => "class" \in misled',
             \A b \in asks' : b.said = "class" =>
                 \E a \in asks : a.said = "class" /\ (a.ear = "none" => b.ear = "none"),
             \A a \in asks : a.said = "class" =>
                 \E b \in asks' : /\ b.said = "class" /\ b.class = a.class /\ b.kind = a.kind
                                  /\ a.ear # "none" => b.ear # "none"
      PROVE  HeaderTruth'
    BY <1>1 DEF HeaderTruth
\* A new page, that has heard of none.
<1>2. ASSUME desk'.shown = NoAnswer, \A b \in asks' : b.said = "class" => b.ear = "none"
      PROVE  HeaderTruth'
    BY <1>2 DEF HeaderTruth
<1>3. ASSUME NEW set \in SUBSET asks, course' = course, desk'.shown = desk.shown,
             "class" \in misled => "class" \in misled', \A a \in asks : a.said = "class" => a \in set,
             \A b \in asks' : b.said = "class" => b \in TabClosed(set),
             TabClosed(set) \subseteq asks'
      PROVE  HeaderTruth'
    <2>1. /\ \A b \in TabClosed(set) :
                  \E a \in set : /\ b.said = a.said /\ (a.ear = "none" => b.ear = "none")
          /\ \A a \in set : \E b \in TabClosed(set) :
                  /\ b.kind = a.kind /\ b.said = a.said /\ b.class = a.class
                  /\ a.kind \in OfHeader \cup {"update"} /\ a.ear # "none" => b.ear # "none"
        BY TabClosedHas
    <2>2. \A a \in set : a.said = "class" => a.kind \in OfHeader \cup {"update"}
        BY DEF AnswersFit
    <2> QED
        BY <1>1, <1>3, <2>1, <2>2
<1>4. ASSUME NEW place \in Lists \cup {"details"}, OpenTab(place) PROVE HeaderTruth'
    <2>1. desk'.shown = desk.shown
        BY <1>4, NewTabHas DEF OpenTab
    <2>2. /\ TabClosed(asks) \subseteq asks'
          /\ \A b \in asks' : b.said = "class" => b \in TabClosed(asks)
        <3>1. CASE place \in Lists
            <4>1. PICK n \in Unused : asks' = TabClosed(asks) \cup {Listing(n, place)}
                BY <1>4, <3>1 DEF OpenTab
            <4>2. Listing(n, place).said = "nothing"
                BY <3>1, ListingType DEF Unused
            <4> QED
                BY <4>1, <4>2
        <3>2. CASE place \notin Lists
            BY <1>4, <3>2 DEF OpenTab
        <3> QED
            BY <3>1, <3>2
    <2> QED
        BY <1>3, <1>4, <2>1, <2>2 DEF OpenTab
<1>5. ASSUME NEW set \in SUBSET Requests,
             Manage([NewDesk EXCEPT !.place = "invitations"], "invitations", AllClosed(set))
      PROVE  HeaderTruth'
    <2> DEFINE d == [NewDesk EXCEPT !.place = "invitations"]
    <2>1. d.shown = NoAnswer
        BY NewDeskHas
    <2> HIDE DEF d
    <2>2. Manage(d, "invitations", AllClosed(set))
        BY <1>5 DEF d
    <2>3. PICK l, r \in Requests : /\ asks' = AllClosed(set) \cup {l, r}
                                   /\ l.said = "nothing" /\ r.said = "nothing"
        BY <2>2, ManageSends
    <2>4. desk' = d
        BY <2>2, ManageSends
    <2> QED
        BY <1>2, <2>1, <2>3, <2>4, AllClosedHas
<1>6. CASE Compose
    BY <1>2, <1>6, AllClosedHas, NewDeskHas DEF Compose
<1>7. CASE Back
    BY <1>5, <1>7 DEF Back
\* What is asked in addition, or done to requests that are not of the class.
<1>8. ASSUME course' = course, desk'.shown = desk.shown, "class" \in misled => "class" \in misled',
             \A b \in asks' : b.said = "class" => b \in asks,
             \A a \in asks : a.said = "class" => a \in asks'
      PROVE  HeaderTruth'
    BY <1>1, <1>8
<1>9. CASE Publish
    <2>1. PICK kind \in {"publish", "cancel"} : Sends(kind, "sessions", Something, "store")
        BY <1>9 DEF Publish
    <2>2. PICK r \in Requests : asks' = asks \cup {r} /\ r.said = "nothing"
        BY <2>1, SendsOne DEF OfHeader
    <2>3. desk'.shown = desk.shown
        BY <1>9 DEF Publish, Desks
    <2> QED
        BY <1>8, <1>9, <2>2, <2>3 DEF Publish
<1>10. CASE Edit
    <2>1. desk'.shown = desk.shown
        BY <1>10 DEF Edit, Desks
    <2> QED
        BY <1>8, <1>10, <2>1 DEF Edit
<1>11. [desk EXCEPT !.saving = TRUE, !.failed = FALSE].shown = desk.shown
    BY DEF Desks
<1>12. CASE SaveDetails
    <2>1. CASE Sends("update", "sessions", Something, "tab")
        <3>1. PICK r \in Requests : asks' = asks \cup {r} /\ r.said = "nothing"
            BY <2>1, SendsOne DEF OfTab
        <3> QED
            BY <1>8, <1>11, <1>12, <3>1 DEF SaveDetails
    <2>2. CASE UNCHANGED asks
        BY <1>8, <1>11, <1>12, <2>2 DEF SaveDetails
    <2> QED
        BY <1>12, <2>1, <2>2 DEF SaveDetails
<1>13. ASSUME NEW t \in Things, Schedule(t) \/ Invite(t) PROVE HeaderTruth'
    <2>1. PICK kind \in {"schedule", "invite"}, of \in Lists : Sends(kind, of, t, "tab")
        BY <1>13 DEF Schedule, Invite
    <2>2. kind \in OfHeader \cup OfTab
        BY <2>1 DEF OfTab
    <2>3. PICK r \in Requests : asks' = asks \cup {r} /\ r.said = "nothing"
        BY <2>1, <2>2, SendsOne
    <2> QED
        BY <1>8, <1>11, <1>13, <2>3 DEF Schedule, Invite
<1>14. ASSUME NEW t \in Things, Press(t) PROVE HeaderTruth'
    <2>1. PICK kind \in {"drop", "revoke"} : Sends(kind, desk.place, t, "tab")
        BY <1>14 DEF Press
    <2>2. desk.place \in Lists /\ desk' = desk
        BY <1>14 DEF Press
    <2>3. PICK r \in Requests : asks' = asks \cup {r} /\ r.said = "nothing"
        <3>1. kind \in OfHeader \cup OfTab
            BY <2>1 DEF OfTab
        <3> QED
            BY <2>1, <2>2, <3>1, SendsOne
    <2> QED
        BY <1>8, <1>14, <2>2, <2>3 DEF Press
<1>15. ASSUME NEW ask \in asks, HandleCourse(ask) PROVE HeaderTruth'
    <2>1. /\ ask.said = "nothing" /\ (ask.kind = "load" => course' = course)
          /\ UNCHANGED <<desk, misled>>
        BY <1>15, CourseHandled
    <2>2. PICK r \in Requests :
              /\ asks' = (asks \ {ask}) \cup {r}
              /\ r.kind = ask.kind /\ r.ear = ask.ear /\ r.said = "class" /\ r.class = course'
        BY <1>15, CourseHandled
    <2>3. CASE r.ear = "none" => r.kind # "load"
        BY <2>2, <2>3 DEF HeaderTruth
    <2>4. CASE r.ear = "none" /\ r.kind = "load"
        BY <2>1, <2>2, <2>4 DEF HeaderTruth
    <2> QED
        BY <2>3, <2>4
<1>16. ASSUME NEW ask \in asks, HandleRow(ask) PROVE HeaderTruth'
    <2>1. ask.said = "nothing" /\ UNCHANGED <<course, desk, misled>>
        BY <1>16, RowHandled
    <2>2. PICK r \in Requests : asks' = (asks \ {ask}) \cup {r} /\ r.said = "rows"
        BY <1>16, RowHandled
    <2> QED
        BY <1>8, <2>1, <2>2
<1>17. ASSUME NEW ask \in asks, CourseAnswered(ask) PROVE HeaderTruth'
    <2>1. ask.said = "class" /\ ask.class \in Courses /\ MovesOn(ask.class, course)
        BY <1>17 DEF CourseAnswered, AnswersFit
    <2>2. desk'.shown = IF ask.ear = "none" THEN desk.shown ELSE ask.class
        BY <1>17, CourseTaken
    <2>3. /\ course' = course /\ asks' = asks \ {ask}
          /\ misled' = misled \cup (IF ClassMisleads(ask) THEN {"class"} ELSE {})
        BY <1>17 DEF CourseAnswered
    <2>4. CASE ask.ear = "none"
        <3>1. "class" \notin misled' => "class" \notin misled /\ ask.kind = "load"
            BY <2>3, <2>4 DEF ClassMisleads
        <3> QED
            BY <2>2, <2>3, <2>4, <3>1 DEF HeaderTruth
    <2>5. CASE ask.ear # "none"
        <3>1. SUFFICES ASSUME "class" \notin misled'
                       PROVE  \/ desk'.shown = course'
                              \/ \E a \in asks' : /\ a.said = "class" /\ a.class = course'
                                                  /\ a.ear = "none" => a.kind # "load"
            BY DEF HeaderTruth
        <3>2. "class" \notin misled /\ ~ClassMisleads(ask)
            BY <2>3, <3>1
        <3>3. \/ desk.shown = course
              \/ \E a \in asks : /\ a.said = "class" /\ a.class = course
                                 /\ a.ear = "none" => a.kind # "load"
            BY <2>1, <2>5, <3>2 DEF HeaderTruth
        <3>4. CASE desk.shown = course
            <4>1. desk.shown # NoAnswer
                BY <3>4
            <4>2. /\ ~(ask.class.edits < course.edits)
                  /\ ~(ask.class.status = "DRAFT" /\ course.status # "DRAFT")
                  /\ ~(ask.class.status # "CANCELLED" /\ course.status = "CANCELLED")
                BY <2>5, <3>2, <3>4, <4>1 DEF ClassMisleads
            <4>3. ask.class.edits = course.edits /\ ask.class.status = course.status
                BY <2>1, <4>2 DEF MovesOn, Courses
            <4>4. ask.class = course
                BY <2>1, <4>3 DEF Courses
            <4> QED
                BY <2>2, <2>3, <2>5, <4>4
        <3>5. ASSUME NEW a \in asks, a.said = "class", a.class = course,
                     a.ear = "none" => a.kind # "load"
              PROVE  \/ desk'.shown = course'
                     \/ \E b \in asks' : /\ b.said = "class" /\ b.class = course'
                                         /\ b.ear = "none" => b.kind # "load"
            BY <2>2, <2>3, <2>5, <3>5
        <3> QED
            BY <3>3, <3>4, <3>5
    <2> QED
        BY <2>4, <2>5
<1>18. ASSUME NEW ask \in asks, ListAnswered(ask) PROVE HeaderTruth'
    <2>1. desk'.shown = desk.shown
        BY <1>18 DEF ListAnswered, Desks
    <2> QED
        BY <1>8, <1>18, <2>1 DEF ListAnswered
<1>19. ASSUME NEW ask \in asks, RowAnswered(ask) PROVE HeaderTruth'
    <2>1. desk'.shown = desk.shown
        BY <1>19 DEF RowAnswered, Desks
    <2>2. Listing(ask.n, desk.place).said = "nothing"
        BY DEF Listing, Ask
    <2>3. asks' \in {asks \ {ask}, (asks \ {ask}) \cup {Listing(ask.n, desk.place)}}
        BY <1>19 DEF RowAnswered
    <2> QED
        BY <1>8, <1>19, <2>1, <2>2, <2>3 DEF RowAnswered
<1>20. ASSUME NEW ask \in asks, InviteAnswered(ask) PROVE HeaderTruth'
    <2> DEFINE set == asks \ {ask}
    <2>0. set \in SUBSET Requests /\ set \in SUBSET asks
          /\ \A a \in asks : a.said = "class" => a \in set
        BY <1>20 DEF InviteAnswered
    <2>1. CASE desk.place = "compose"
        BY <1>5, <1>20, <2>0, <2>1 DEF InviteAnswered
    <2>2. CASE desk.place = "invitations"
        BY <1>8, <1>20, <2>2 DEF InviteAnswered
    <2>3. CASE desk.place \notin {"compose", "invitations"}
        <3>1. desk'.shown = desk.shown
            BY <1>20, <2>3, NewTabHas DEF InviteAnswered
        <3>2. asks' = TabClosed(set) \cup {Listing(ask.n, "invitations")}
            BY <1>20, <2>3 DEF InviteAnswered
        <3>3. Listing(ask.n, "invitations").said = "nothing"
            BY DEF Listing, Ask
        <3>4. course' = course /\ ("class" \in misled => "class" \in misled')
            BY <1>20, <2>3 DEF InviteAnswered
        <3> HIDE DEF set
        <3> QED
            BY <1>3, <2>0, <3>1, <3>2, <3>3, <3>4
    <2> QED
        BY <2>1, <2>2, <2>3
<1>21. ASSUME NEW ask \in asks, AskFails(ask) PROVE HeaderTruth'
    <2>1. desk'.shown = desk.shown
        BY <1>21 DEF AskFails, Desks
    <2>2. CASE ask.said = "class"
        BY <1>21, <2>2 DEF AskFails, HeaderTruth
    <2>3. CASE ask.said # "class"
        BY <1>8, <1>21, <2>1, <2>3 DEF AskFails
    <2> QED
        BY <2>2, <2>3
<1> QED
    BY <1>4, <1>6, <1>7, <1>9, <1>10, <1>12, <1>13, <1>14, <1>15, <1>16, <1>17, <1>18, <1>19,
       <1>20, <1>21 DEF DeskNext

-----------------------------------------------------------------------------
(* The rows *)

\* What a row shows, or what will bring it.
RowShown(t) ==
    \/ desk.rows # NoAnswer /\ AsListed(desk.rows[t], t)
    \/ \E a \in asks : RowIsComing(a, t)

LEMMA RowStep ==
    ASSUME DeskTypeOK, AnswersFit, TabsFit, RowTruth, DeskNext
    PROVE  RowTruth'
<1>0. /\ desk \in Desks /\ asks \in SUBSET Requests
      /\ listed \in [Lists -> Listings]
      /\ Something \in Things /\ "sessions" \in Lists /\ "invitations" \in Lists
    BY SomethingIsThere DEF DeskTypeOK, Lists
<1> USE <1>0
<1>1. ASSUME "rows" \notin misled' /\ desk'.place \in Lists /\ ~desk'.failed => \A t \in Things : RowShown(t)'
      PROVE  RowTruth'
    BY <1>1 DEF RowTruth, RowShown
<1>2. ASSUME desk'.place \notin Lists PROVE RowTruth'
    BY <1>2 DEF RowTruth
\* The list has just been asked for.
<1>3. ASSUME NEW b \in asks', b.kind = "list", b.ear = "tab", b.of = desk'.place,
             b.said = "nothing"
      PROVE  RowTruth'
    BY <1>3 DEF RowTruth, RowIsComing
\* The rows that show are the same, and what was coming still is.
<1>4. ASSUME listed' = listed, desk'.place = desk.place, desk'.rows = desk.rows,
             course' = course,
             "rows" \in misled => "rows" \in misled', desk.failed => desk'.failed,
             "rows" \notin misled' /\ ~desk'.failed =>
                 \A a \in asks, t \in Things : RowIsComing(a, t) => a \in asks'
      PROVE  RowTruth'
    BY <1>4 DEF RowTruth, RowIsComing, AsListed
<1>5. ASSUME NEW place \in Lists \cup {"details"}, OpenTab(place) PROVE RowTruth'
    <2>1. desk'.place = place
        <3>1. desk' = NewTabOf(desk, place)
            BY <1>5 DEF OpenTab
        <3> QED
            BY <3>1, NewTabHas
    <2>2. CASE place \in Lists
        <3>1. PICK n \in Unused : asks' = TabClosed(asks) \cup {Listing(n, place)}
            BY <1>5, <2>2 DEF OpenTab
        <3>2. /\ Listing(n, place).kind = "list" /\ Listing(n, place).of = place
              /\ Listing(n, place).ear = "tab" /\ Listing(n, place).said = "nothing"
            BY <2>2, ListingType DEF Unused
        <3> QED
            BY <1>3, <2>1, <3>1, <3>2
    <2>3. CASE place \notin Lists
        BY <1>2, <2>1, <2>3
    <2> QED
        BY <2>2, <2>3
<1>6. ASSUME NEW set,
             Manage([NewDesk EXCEPT !.place = "invitations"], "invitations", AllClosed(set))
      PROVE  RowTruth'
    <2> DEFINE d == [NewDesk EXCEPT !.place = "invitations"]
    <2>1. d.place = "invitations"
        BY NewDeskHas
    <2> HIDE DEF d
    <2>2. Manage(d, "invitations", AllClosed(set))
        BY <1>6 DEF d
    <2>3. PICK r \in asks' : /\ r.said = "nothing" /\ r.kind = "list" /\ r.ear = "tab"
                             /\ r.of = "invitations"
        BY <2>2, ManageSends
    <2>4. desk' = d
        BY <2>2, ManageSends
    <2> QED
        BY <1>3, <2>1, <2>3, <2>4
<1>7. CASE Compose
    BY <1>2, <1>7, NewDeskHas DEF Compose, Lists
<1>8. CASE Back
    BY <1>6, <1>8 DEF Back
<1>9. CASE Publish
    <2>1. /\ desk'.place = desk.place /\ desk'.rows = desk.rows /\ desk'.failed = desk.failed
          /\ asks \subseteq asks'
        BY <1>9 DEF Publish, Desks, Sends
    <2> QED
        BY <1>4, <1>9, <2>1 DEF Publish
<1>10. CASE Edit \/ SaveDetails
    <2>1. desk'.place = "details"
        BY <1>10 DEF Edit, SaveDetails, TabsFit, Desks
    <2> QED
        BY <1>2, <2>1 DEF Lists
<1>11. ASSUME NEW t \in Things, Schedule(t) PROVE RowTruth'
    <2>1. desk'.place = "sessions" /\ Sends("schedule", "sessions", t, "tab")
        BY <1>11 DEF Schedule, Desks
    <2>2. PICK r \in asks' : r.kind = "schedule" /\ r.of = "sessions" /\ r.ear = "tab"
        <3>1. "schedule" \in OfHeader \cup OfTab
            BY DEF OfTab
        <3>2. \E r \in Requests : /\ asks' = asks \cup {r} /\ r.kind = "schedule"
                                  /\ r.of = "sessions" /\ r.ear = "tab"
            BY <2>1, <3>1, SendsOne
        <3> QED
            BY <3>2
    <2>3. \A u \in Things : RowIsComing(r, u)'
        BY <2>1, <2>2 DEF RowIsComing
    <2> QED
        BY <1>1, <2>3 DEF RowShown
<1>12. ASSUME NEW t \in Things, Invite(t) PROVE RowTruth'
    <2>1. desk'.place = "compose"
        BY <1>12 DEF Invite, Desks
    <2> QED
        BY <1>2, <2>1 DEF Lists
<1>13. ASSUME NEW t \in Things, Press(t) PROVE RowTruth'
    BY <1>4, <1>13 DEF Press, Sends
<1>14. ASSUME NEW ask \in asks, HandleCourse(ask) PROVE RowTruth'
    <2>1. /\ UNCHANGED <<desk, misled>> /\ ask.kind \in OfHeader \cup {"update"}
          /\ course.status = "CANCELLED" => course'.status = "CANCELLED"
          /\ \A l \in Lists, t \in Things :
                 listed'[l][t] # listed[l][t] =>
                     /\ l = "sessions" /\ listed[l][t] = "on" /\ listed'[l][t] = "off"
                     /\ course'.status = "CANCELLED"
        BY <1>14, CourseHandled DEF MovesOn
    <2>2. \A t \in Things : ~RowIsComing(ask, t)
        BY <2>1 DEF RowIsComing, OfHeader
    <2>3. \A a \in asks \ {ask} : a \in asks'
        BY <1>14, CourseHandled
    <2>4. SUFFICES ASSUME "rows" \notin misled, desk.place \in Lists, ~desk.failed, NEW t \in Things
                   PROVE  RowShown(t)'
        BY <1>1, <2>1
    <2>5. CASE desk.rows # NoAnswer /\ AsListed(desk.rows[t], t)
        <3>1. AsListed(desk.rows[t], t)'
            BY <2>1, <2>4, <2>5 DEF AsListed
        <3> QED
            BY <2>1, <2>5, <3>1 DEF RowShown
    <2>6. ASSUME NEW a \in asks, RowIsComing(a, t) PROVE RowShown(t)'
        <3>1. a.said = "rows" /\ AsListed(a.rows[t], t) => AsListed(a.rows[t], t)'
            BY <2>1, <2>4 DEF AsListed
        <3>2. RowIsComing(a, t)'
            BY <2>1, <2>6, <3>1 DEF RowIsComing
        <3>3. a \in asks'
            BY <2>2, <2>3, <2>6
        <3> QED
            BY <3>2, <3>3 DEF RowShown
    <2> QED
        BY <2>4, <2>5, <2>6 DEF RowTruth
<1>15. ASSUME NEW ask \in asks, HandleRow(ask) PROVE RowTruth'
    <2>1. /\ UNCHANGED <<course, desk, misled>> /\ ask.said = "nothing"
          /\ ask.kind \in OfTab \ {"update"}
          /\ \A l \in Lists, t \in Things :
                 listed'[l][t] # listed[l][t] => l = ask.of /\ t = ask.thing /\ ask.kind # "list"
        BY <1>15, RowHandled
    <2>2. PICK r \in Requests :
              /\ asks' = (asks \ {ask}) \cup {r}
              /\ r.kind = ask.kind /\ r.of = ask.of /\ r.thing = ask.thing /\ r.ear = ask.ear
              /\ r.said = "rows" /\ r.rows = listed'[ask.of]
        BY <1>15, RowHandled
    <2>3. SUFFICES ASSUME "rows" \notin misled, desk.place \in Lists, ~desk.failed, NEW t \in Things
                   PROVE  RowShown(t)'
        BY <1>1, <2>1
    <2>4. CASE listed'[desk.place][t] # listed[desk.place][t]
        <3>1. r.of = desk.place /\ r.thing = t /\ r.kind \in OfTab \ {"update", "list"}
            BY <2>1, <2>2, <2>3, <2>4
        <3>2. RowIsComing(r, t)'
            BY <2>1, <2>2, <3>1 DEF RowIsComing, OfTab
        <3> QED
            BY <2>2, <3>2 DEF RowShown
    <2>5. CASE listed'[desk.place][t] = listed[desk.place][t]
        <3>1. CASE desk.rows # NoAnswer /\ AsListed(desk.rows[t], t)
            <4>1. AsListed(desk.rows[t], t)'
                BY <2>1, <2>5, <3>1 DEF AsListed
            <4> QED
                BY <2>1, <3>1, <4>1 DEF RowShown
        <3>2. ASSUME NEW a \in asks, RowIsComing(a, t) PROVE RowShown(t)'
            <4>1. CASE a = ask
                <5>1. RowIsComing(r, t)'
                    BY <2>1, <2>2, <3>2, <4>1 DEF RowIsComing, AsListed
                <5> QED
                    BY <2>2, <5>1 DEF RowShown
            <4>2. CASE a # ask
                <5>1. RowIsComing(a, t)'
                    BY <2>1, <2>5, <3>2 DEF RowIsComing, AsListed
                <5> QED
                    BY <2>2, <4>2, <5>1 DEF RowShown
            <4> QED
                BY <4>1, <4>2
        <3> QED
            BY <2>3, <3>1, <3>2 DEF RowTruth
    <2> QED
        BY <2>4, <2>5
<1>16. ASSUME NEW ask \in asks, CourseAnswered(ask) PROVE RowTruth'
    <2>1. ask.said = "class" /\ ask.class \in Courses /\ ask.kind \in OfHeader \cup {"update"}
        BY <1>16 DEF CourseAnswered, AnswersFit
    <2>2. desk'.place = desk.place /\ desk'.rows = desk.rows /\ desk'.failed = desk.failed
        BY <1>16, CourseTaken
    <2>3. \A t \in Things : ~RowIsComing(ask, t)
        BY <2>1 DEF RowIsComing, OfHeader
    <2>4. UNCHANGED <<course, listed>> /\ asks' = asks \ {ask} /\ ("rows" \in misled => "rows" \in misled')
        BY <1>16 DEF CourseAnswered
    <2> QED
        BY <1>4, <2>2, <2>3, <2>4
<1>17. ASSUME NEW ask \in asks, ListAnswered(ask) PROVE RowTruth'
    <2>1. /\ ask.kind = "list" /\ ask.said = "rows" /\ asks' = asks \ {ask}
          /\ UNCHANGED <<course, listed>>
          /\ "rows" \in misled => "rows" \in misled'
        BY <1>17 DEF ListAnswered
    <2>2. CASE ask.ear # "tab"
        BY <1>4, <1>17, <2>1, <2>2 DEF ListAnswered, RowIsComing
    <2>3. CASE ask.ear = "tab"
        <3>1. /\ desk'.place = desk.place /\ desk'.failed = desk.failed /\ desk'.rows = ask.rows
            BY <1>17, <2>3 DEF ListAnswered, Desks
        <3>2. /\ ask.rows \in Listings /\ ask.of = desk.place
              /\ \A t \in Things : RowMovesOn(ask.rows[t], listed[ask.of][t])
            BY <2>1, <2>3 DEF AnswersFit, TabsFit
        <3>3. SUFFICES ASSUME "rows" \notin misled', desk.place \in Lists, ~desk.failed, NEW t \in Things
                       PROVE  RowShown(t)'
            BY <1>1, <3>1
        <3>4. CASE desk.rows # NoAnswer /\ AsListed(desk.rows[t], t)
            <4>1. ~Older(ask.rows, desk.rows)
                BY <1>17, <2>3, <3>3, <3>4 DEF ListAnswered
            <4>2. ~(/\ ask.rows[t] # desk.rows[t]
                    /\ ask.rows[t] = "absent" \/ desk.rows[t] = "off")
                BY <4>1 DEF Older
            <4>3. AsListed(ask.rows[t], t)
                <5>1. /\ ask.rows[t] # listed[desk.place][t] =>
                             ask.rows[t] = "absent" \/ listed[desk.place][t] = "off"
                      /\ ask.rows[t] \in {"absent", "on", "off"}
                    BY <3>2 DEF RowMovesOn, Listings
                <5> QED
                    BY <3>4, <4>2, <5>1 DEF AsListed
            <4>4. AsListed(ask.rows[t], t)'
                BY <2>1, <3>1, <4>3 DEF AsListed
            <4> QED
                BY <3>1, <3>2, <4>4 DEF RowShown
        <3>5. ASSUME NEW a \in asks, RowIsComing(a, t) PROVE RowShown(t)'
            <4>1. CASE a = ask
                <5>1. AsListed(ask.rows[t], t)
                    BY <2>1, <3>2, <3>5, <4>1 DEF RowIsComing
                <5>2. AsListed(ask.rows[t], t)'
                    BY <2>1, <3>1, <5>1 DEF AsListed
                <5> QED
                    BY <3>1, <3>2, <5>2 DEF RowShown
            <4>2. CASE a # ask
                <5>1. RowIsComing(a, t)'
                    BY <2>1, <3>1, <3>5 DEF RowIsComing, AsListed
                <5> QED
                    BY <2>1, <4>2, <5>1 DEF RowShown
            <4> QED
                BY <4>1, <4>2
        <3> QED
            BY <2>1, <3>3, <3>4, <3>5 DEF RowTruth
    <2> QED
        BY <2>2, <2>3
<1>18. ASSUME NEW ask \in asks, RowAnswered(ask) PROVE RowTruth'
    <2>1. /\ ask.kind \in {"schedule", "drop", "revoke"} /\ ask.said = "rows"
          /\ UNCHANGED <<course, listed>>
          /\ misled' = misled \cup (IF ask.ear # "tab" /\ ask.of = desk.place THEN {"rows"} ELSE {})
          /\ asks \ {ask} \subseteq asks'
        BY <1>18 DEF RowAnswered
    <2>2. CASE ask.ear # "tab"
        <3>1. CASE ask.of = desk.place
            BY <2>1, <2>2, <3>1 DEF RowTruth
        <3>2. CASE ask.of # desk.place
            <4>1. \A t \in Things : ~RowIsComing(ask, t)
                BY <3>2 DEF RowIsComing
            <4>2. desk' = desk
                BY <1>18, <2>2 DEF RowAnswered
            <4> QED
                BY <1>4, <2>1, <4>1, <4>2
        <3> QED
            BY <3>1, <3>2
    <2>3. CASE ask.ear = "tab" /\ ask.kind # "revoke"
        <3>1. desk'.place = desk.place
            BY <1>18, <2>3 DEF RowAnswered, Desks
        <3>2. ask.n \in 1..MaxAsks /\ desk.place \in Lists
            BY <2>1, <2>3, AskHas DEF TabsFit
        <3>3. LET r == Listing(ask.n, desk.place)
              IN r.kind = "list" /\ r.of = desk.place /\ r.ear = "tab" /\ r.said = "nothing"
            BY <3>2, ListingType
        <3>4. Listing(ask.n, desk.place) \in asks'
            BY <1>18, <2>1, <2>3 DEF RowAnswered, Refreshes
        <3> QED
            BY <1>3, <3>1, <3>3, <3>4
    <2>4. CASE ask.ear = "tab" /\ ask.kind = "revoke"
        <3> DEFINE rows == [desk.rows EXCEPT ![ask.thing] = "off"]
        <3>1. /\ desk.rows \in Listings /\ desk.rows # NoAnswer /\ ask.of = desk.place
              /\ listed[ask.of][ask.thing] = "off" /\ ask.thing \in Things
            BY <2>1, <2>4, DeskHas, AskHas DEF TabsFit, AnswersFit
        <3>2. /\ rows \in Listings
              /\ \A t \in Things : rows[t] = IF t = ask.thing THEN "off" ELSE desk.rows[t]
            BY <3>1 DEF Listings
        <3>3. desk' = [desk EXCEPT !.saving = desk.saving, !.rows = rows]
            BY <1>18, <2>4, <3>1 DEF RowAnswered
        <3> HIDE DEF rows
        <3>4. desk'.place = desk.place /\ desk'.failed = desk.failed /\ desk'.rows = rows
            BY <3>3 DEF Desks
        <3>5. SUFFICES ASSUME "rows" \notin misled, desk.place \in Lists, ~desk.failed, NEW t \in Things
                       PROVE  RowShown(t)'
            BY <1>1, <2>1, <3>4
        <3>6. CASE t = ask.thing
            BY <2>1, <3>1, <3>2, <3>4, <3>6 DEF RowShown, AsListed
        <3>7. CASE t # ask.thing
            <4>1. CASE AsListed(desk.rows[t], t)
                BY <2>1, <3>2, <3>4, <3>7, <4>1 DEF RowShown, AsListed
            <4>2. ASSUME NEW a \in asks, RowIsComing(a, t) PROVE RowShown(t)'
                <5>1. a # ask
                    BY <2>4, <3>7, <4>2 DEF RowIsComing
                <5>2. RowIsComing(a, t)'
                    BY <2>1, <3>4, <4>2 DEF RowIsComing, AsListed
                <5> QED
                    BY <2>1, <5>1, <5>2 DEF RowShown
            <4> QED
                BY <3>5, <4>1, <4>2 DEF RowTruth
        <3> QED
            BY <3>6, <3>7
    <2> QED
        BY <2>2, <2>3, <2>4
<1>19. ASSUME NEW ask \in asks, InviteAnswered(ask) PROVE RowTruth'
    <2> DEFINE set == asks \ {ask}
    <2>1. CASE desk.place = "compose"
        BY <1>6, <1>19, <2>1 DEF InviteAnswered
    <2>2. CASE desk.place = "invitations"
        BY <1>19, <2>2 DEF InviteAnswered, RowTruth
    <2>3. CASE desk.place \notin {"compose", "invitations"}
        <3>1. desk'.place = "invitations"
            BY <1>19, <2>3, NewTabHas DEF InviteAnswered
        <3>2. Listing(ask.n, "invitations") \in asks'
            BY <1>19, <2>3 DEF InviteAnswered
        <3>3. LET r == Listing(ask.n, "invitations")
              IN r.kind = "list" /\ r.of = "invitations" /\ r.ear = "tab" /\ r.said = "nothing"
            BY AskHas, ListingType
        <3> QED
            BY <1>3, <3>1, <3>2, <3>3
    <2> QED
        BY <2>1, <2>2, <2>3
<1>20. ASSUME NEW ask \in asks, AskFails(ask) PROVE RowTruth'
    <2>1. /\ desk'.place = desk.place /\ desk'.rows = desk.rows
          /\ desk'.failed = (desk.failed \/ ask.ear = "tab")
        BY <1>20 DEF AskFails, Desks
    <2>2. /\ UNCHANGED <<course, listed>> /\ asks' = asks \ {ask}
          /\ misled' = misled \cup ({ask.said} \ {"nothing"})
        BY <1>20 DEF AskFails
    <2>3. ASSUME "rows" \notin misled', ~desk'.failed, NEW t \in Things PROVE ~RowIsComing(ask, t)
        BY <2>1, <2>2, <2>3 DEF RowIsComing
    <2>4. desk.failed => desk'.failed
        BY <2>1
    <2> QED
        BY <1>4, <2>1, <2>2, <2>3, <2>4
<1> QED
    BY <1>5, <1>7, <1>8, <1>9, <1>10, <1>11, <1>12, <1>13, <1>14, <1>15, <1>16, <1>17, <1>18,
       <1>19, <1>20 DEF DeskNext

LEMMA DeskStarts == DeskInit => DeskInv
<1> SUFFICES ASSUME DeskInit PROVE DeskInv
    OBVIOUS
<1>1. LET a == Ask(1, "load", "sessions", Something, "store")
      IN a \in Requests /\ a.kind = "load" /\ a.ear = "store" /\ a.said = "nothing"
    <2>1. /\ 1 \in 1..MaxAsks /\ "load" \in OfHeader \cup OfTab /\ "sessions" \in Lists
          /\ Something \in Things
        BY SomethingIsThere DEF OfHeader, Lists
    <2> QED
        BY <2>1, AskType
<1>2. desk \in Desks /\ desk.place = "details" /\ desk.shown = NoAnswer /\ desk.form = "empty"
    BY DEF DeskInit, NewDesk, Desks
<1>3. course \in Courses /\ listed \in [Lists -> Listings] /\ misled \subseteq {"class", "rows"}
    <2>1. 0 \in 0..MaxEdits
        OBVIOUS
    <2>2. course \in Courses
        BY <2>1 DEF DeskInit, Courses
    <2>3. [t \in Things |-> "absent"] \in Listings
        BY DEF Listings
    <2> QED
        BY <2>2, <2>3 DEF DeskInit
<1> QED
    BY <1>1, <1>2, <1>3 DEF DeskInit, DeskInv, DeskTypeOK, AnswersFit, TabsFit, HeaderTruth,
       RowTruth, Lists

LEMMA DeskSteps == DeskInv /\ [DeskNext]_deskVars => DeskInv'
<1>1. ASSUME DeskInv, DeskNext PROVE DeskInv'
    BY <1>1, DeskTypeStep, AnswersStep, TabsStep, HeaderStep, RowStep DEF DeskInv
<1>2. ASSUME DeskInv, UNCHANGED deskVars PROVE DeskInv'
    BY <1>2 DEF deskVars, DeskInv, DeskTypeOK, AnswersFit, TabsFit, HeaderTruth, RowTruth,
       RowIsComing, AsListed
<1> QED
    BY <1>1, <1>2

\* The pages and requests of the host's desk have their types.
THEOREM DeskTypeCorrect == DeskSpec => []DeskTypeOK
<1>1. DeskInv => DeskTypeOK
    BY DEF DeskInv
<1> QED
    BY <1>1, DeskStarts, DeskSteps, PTL DEF DeskSpec

\* With nothing under way the header has the class as it is and the open list its
\* rows, but for the sessions that went with the class, unless an answer was lost,
\* overtaken or came to a page that is gone since they were opened
\* (manage-store.ts:5-11, classrooms.service.ts:196-199).
THEOREM TheDeskIsCurrent == DeskSpec => []DeskIsCurrent
<1>1. ASSUME DeskInv PROVE DeskIsCurrent
    <2>1. SUFFICES ASSUME asks = {}
                   PROVE  /\ "class" \notin misled /\ desk.shown # NoAnswer => desk.shown = course
                          /\ "rows" \notin misled /\ desk.place \in Lists /\ ~desk.failed =>
                                 /\ desk.rows # NoAnswer
                                 /\ \A t \in Things : AsListed(desk.rows[t], t)
        BY DEF DeskIsCurrent
    <2>2. "class" \notin misled /\ desk.shown # NoAnswer => desk.shown = course
        BY <1>1, <2>1 DEF DeskInv, HeaderTruth
    <2>3. ASSUME "rows" \notin misled, desk.place \in Lists, ~desk.failed
          PROVE  desk.rows # NoAnswer /\ \A t \in Things : AsListed(desk.rows[t], t)
        <3>1. \A t \in Things : desk.rows # NoAnswer /\ AsListed(desk.rows[t], t)
            BY <1>1, <2>1, <2>3 DEF DeskInv, RowTruth
        <3>2. Something \in Things
            BY SomethingIsThere
        <3> QED
            BY <3>1, <3>2
    <2> QED
        BY <2>2, <2>3
<1> QED
    BY <1>1, DeskStarts, DeskSteps, PTL DEF DeskSpec

LEMMA DeskKeepsDetails ==
    ASSUME DeskInv, [DeskNext]_deskVars
    PROVE  DetailsAreKept
<1>0. DeskTypeOK /\ desk \in Desks /\ asks \in SUBSET Requests /\ TabsFit
    BY DEF DeskInv, DeskTypeOK
<1> SUFFICES ASSUME desk.form = "typed", desk'.form \in {"early", "filled", "replaced"}
             PROVE  \E ask \in asks \ asks' : ask.kind = "update" /\ ask.ear = "tab"
    BY DEF DetailsAreKept
<1>1. desk.place = "details"
    BY <1>0 DEF TabsFit
<1>2. ASSUME NEW place \in Lists \cup {"details"}, OpenTab(place) PROVE FALSE
    <2>1. desk'.form # "empty" => place = "details"
        BY <1>0, <1>2, NewTabHas DEF OpenTab
    <2> QED
        BY <1>1, <1>2, <2>1 DEF OpenTab
<1>3. ASSUME NEW ask \in asks, CourseAnswered(ask)
      PROVE  ask \in asks \ asks' /\ ask.kind = "update" /\ ask.ear = "tab"
    <2>1. desk'.form # desk.form => ask.ear = "tab" /\ ask.kind = "update"
        BY <1>0, <1>3, CourseTaken
    <2> QED
        BY <1>3, <2>1 DEF CourseAnswered
<1>4. CASE Compose \/ Back \/ (\E ask \in asks : InviteAnswered(ask))
    <2>1. CASE Compose
        BY <1>1, <2>1 DEF Compose
    <2>2. CASE Back
        BY <1>1, <2>2 DEF Back
    <2>3. ASSUME NEW ask \in asks, InviteAnswered(ask) PROVE FALSE
        <3>1. desk' = NewTabOf(desk, "invitations")
            BY <1>1, <2>3 DEF InviteAnswered
        <3>2. desk'.form # "empty" => "invitations" = "details"
            BY <1>0, <3>1, NewTabHas DEF Lists
        <3> QED
            BY <3>2
    <2> QED
        BY <1>4, <2>1, <2>2, <2>3
<1>5. ASSUME desk' = desk \/ desk'.form \in {desk.form, "typed"} PROVE FALSE
    BY <1>5
<1>6. CASE \/ Publish \/ Edit \/ SaveDetails
           \/ \E t \in Things : Schedule(t) \/ Press(t) \/ Invite(t)
    BY <1>0, <1>5, <1>6 DEF Publish, Edit, SaveDetails, Schedule, Press, Invite, Desks
<1>7. ASSUME NEW ask \in asks, HandleCourse(ask) \/ HandleRow(ask) PROVE FALSE
    BY <1>5, <1>7 DEF HandleCourse, HandleRow
<1>8. ASSUME NEW ask \in asks, ListAnswered(ask) \/ RowAnswered(ask) \/ AskFails(ask)
      PROVE  FALSE
    BY <1>0, <1>5, <1>8 DEF ListAnswered, RowAnswered, AskFails, Desks
<1>9. CASE UNCHANGED deskVars
    BY <1>5, <1>9 DEF deskVars
<1> QED
    BY <1>2, <1>3, <1>4, <1>6, <1>7, <1>8, <1>9 DEF DeskNext

\* No answer but that of its own save overwrites what the host types into the details
\* (manage-details.tab.ts:117-119).
THEOREM DetailsStay == DeskSpec => [][DetailsAreKept]_deskVars
<1>1. DeskInv /\ [DeskNext]_deskVars => [DetailsAreKept]_deskVars
    BY DeskKeepsDetails
<1> QED
    BY <1>1, DeskStarts, DeskSteps, PTL DEF DeskSpec

-----------------------------------------------------------------------------
(* The pages together *)

\* The page that is open takes its own steps; the others stay as they are.
LEMMA WebSteps ==
    ASSUME [WebNext]_webVars
    PROVE  /\ [IdentityNext]_identityVars
           /\ [CheckoutNext]_checkoutVars
           /\ [BuyerNext]_buyerVars
           /\ [StageNext]_stageVars
           /\ [RoomNext]_roomVars
           /\ [DeskNext]_deskVars
BY DEF WebNext, webVars, BuyerNext

LEMMA WebImplementsPages ==
    WebSpec => /\ IdentitySpec /\ CheckoutSpec /\ BuyerSpec
               /\ StageSpec /\ RoomSpec /\ DeskSpec
<1>1. WebInit => /\ IdentityInit /\ CheckoutInit /\ BuyerInit
                 /\ StageInit /\ RoomInit /\ DeskInit
    BY DEF WebInit
<1> QED
    BY <1>1, WebSteps, PTL
    DEF WebSpec, IdentitySpec, CheckoutSpec, BuyerSpec, StageSpec, RoomSpec, DeskSpec

\* Every page keeps its types, whichever is open.
THEOREM WebTypeCorrect == WebSpec => []WebTypeOK
<1>1. /\ IdentityTypeOK /\ CheckoutTypeOK /\ BuyerTypeOK /\ StageTypeOK /\ RoomTypeOK /\ DeskTypeOK
      => WebTypeOK
    BY DEF WebTypeOK
<1> QED
    BY <1>1, WebImplementsPages, IdentityTypeCorrect, CheckoutTypeCorrect, BuyerTypeCorrect,
       StageTypeCorrect, RoomTypeCorrect, DeskTypeCorrect, PTL

\* A request that is answered leaves the form alone, and so does the page.
LEMMA AccountKeepsTyped ==
    ASSUME IdentityTypeOK, [IdentityNext]_identityVars
    PROVE  TypedIsKept
<1>0. account \in Pages
    BY DEF IdentityTypeOK
<1> SUFFICES ASSUME account.form = "typed", account' # NewPage PROVE account'.form = "typed"
    BY DEF TypedIsKept
<1>1. ASSUME NEW c, NEW reply, Ends(c, reply) PROVE account'.form = "typed"
    BY <1>0, <1>1 DEF Ends, Pages
<1>2. ASSUME account' = account PROVE account'.form = "typed"
    BY <1>2
<1>3. ASSUME NEW c \in Calls, FindByEmail(c) PROVE account'.form = "typed"
    BY <1>1, <1>2, <1>3 DEF FindByEmail
<1>4. ASSUME NEW c \in Calls, NEW sub \in Subs, NEW email \in Emails, NEW verified \in BOOLEAN,
             SyncElsewhere(c, sub, email, verified)
      PROVE  account'.form = "typed"
    BY <1>2, <1>4 DEF SyncElsewhere
<1>5. ASSUME NEW c \in Calls, FindBySub(c) PROVE account'.form = "typed"
    BY <1>1, <1>2, <1>5 DEF FindBySub
<1>6. ASSUME NEW c \in Calls, Refresh(c) PROVE account'.form = "typed"
    <2>1. Ends(c, "synced") \/ Ends(c, "failed")
        BY <1>6 DEF Refresh, Write
    <2> QED
        BY <1>1, <2>1
<1>7. ASSUME NEW c \in Calls, Link(c) PROVE account'.form = "typed"
    <2>1. Ends(c, "synced") \/ Ends(c, "failed")
        BY <1>7 DEF Link, Write
    <2> QED
        BY <1>1, <2>1
<1>8. ASSUME NEW c \in Calls, Create(c) PROVE account'.form = "typed"
    BY <1>1, <1>2, <1>8 DEF Create
<1>9. ASSUME NEW c \in Calls, FindProfile(c) PROVE account'.form = "typed"
    BY <1>1, <1>2, <1>9 DEF FindProfile
<1>10. ASSUME NEW c \in Calls, SaveProfile(c) \/ Fails(c) PROVE account'.form = "typed"
    BY <1>1, <1>2, <1>10 DEF SaveProfile, Fails
<1>11. Filled = "typed"
    BY DEF Filled
<1>12. CASE SignedIn \/ Type \/ Save \/ Failed \/ LoseReply
    BY <1>0, <1>12 DEF SignedIn, Type, Save, Failed, LoseReply, Pages
<1>13. CASE ProfileArrives \/ Saved
    BY <1>0, <1>11, <1>13 DEF ProfileArrives, Saved, Pages
<1>14. CASE Reload
    BY <1>14 DEF Reload
<1>15. CASE UNCHANGED identityVars
    BY <1>2, <1>15 DEF identityVars
<1> QED
    BY <1>3, <1>4, <1>5, <1>6, <1>7, <1>8, <1>9, <1>10, <1>12, <1>13, <1>14, <1>15
    DEF IdentityNext

\* What is typed into the account, or into the details of a class once the class is in
\* them, is not overwritten by an answer that arrives late (account.page.ts:336-345,
\* manage-details.tab.ts:125-129).
THEOREM EditsStay == WebSpec => EditsAreKept
<1>1. IdentityTypeOK /\ DeskInv /\ [WebNext]_webVars => [TypedIsKept /\ DetailsAreKept]_webVars
    BY WebSteps, AccountKeepsTyped, DeskKeepsDetails
<1>2. DeskSpec => []DeskInv
    BY DeskStarts, DeskSteps, PTL DEF DeskSpec
<1> QED
    BY <1>1, <1>2, WebImplementsPages, IdentityTypeCorrect, PTL DEF WebSpec, EditsAreKept

\* What each page promises of its own it keeps among the others: payments, what is
\* shown, invitations, tracks, messages of the room, the host's lists, and whose
\* account it is (checkout.page.ts:264-268, catalog.page.ts:173-175,
\* invitation-landing.page.ts:111-124, live-room.page.ts:44-55 and 833-841,
\* manage-store.ts:5-11, auth.service.ts:31-35).
THEOREM PagesKeepTheirPromises ==
    WebSpec =>
        /\ [](/\ PaysOncePerVisit /\ LatestIsShown /\ InvitationIsNotWasted
              /\ StageIsCurrent /\ RoomIsTold /\ GoneIsDisconnected /\ DeskIsCurrent)
        /\ IdentityIsKept
BY WebImplementsPages, OnePaymentPerVisit, PagesShowTheLatest, InvitationsAreNotWasted,
   StageShowsTracks, TheRoomIsTold, GoneAreDisconnected, TheDeskIsCurrent, LinkedRowsAreKept, PTL

====
