---- MODULE HostDesk ----
(***************************************************************************)
(* The host's pages for one class (apps/web/src/app/features/host): the    *)
(* header and its store, the tabs below it, and the page that invites.     *)
(* Requests and answers travel apart and are not ordered; a tab that is    *)
(* left is destroyed, its requests are not.                                *)
(***************************************************************************)
EXTENDS Naturals, FiniteSets

CONSTANTS
    Things,      \* sessions, and invitations
    MaxAsks,     \* bound on the requests under way at once
    MaxEdits,    \* bound on the edits of the details
    NoAnswer     \* none yet

VARIABLES
    course,      \* the server: the class
    listed,      \* and its sessions and invitations
    desk,        \* what the host has open
    asks,        \* requests under way
    misled       \* history: what of the page an answer that was lost, overtaken by a
                 \* newer one, or came to a page that is gone has left out of date

deskVars == <<course, listed, desk, asks, misled>>

\* edits: how often the details were changed
Courses == [status : {"DRAFT", "PUBLISHED", "CANCELLED"}, edits : 0..MaxEdits]

Lists == {"sessions", "invitations"}

Listings == [Things -> {"absent", "on", "off"}]

ASSUME DeskAssumption ==
    /\ Things # {}
    /\ MaxAsks \in Nat \ {0}
    /\ MaxEdits \in Nat
    /\ NoAnswer \notin Courses \cup Listings

\* working, saving: a button of the header, of the tab, waits for its answer;
\* failed: the tab shows an error.  The form of the details: early, what was typed
\* before the class was there; replaced, what the class then overwrote.
Desks == [place : Lists \cup {"details", "compose"},
          shown : Courses \cup {NoAnswer}, working : BOOLEAN,
          form : {"empty", "early", "filled", "replaced", "typed"}, saving : BOOLEAN,
          rows : Listings \cup {NoAnswer}, failed : BOOLEAN]

OfHeader == {"load", "publish", "cancel"}

OfTab == {"update", "list", "schedule", "drop", "revoke", "invite"}

\* ear: what is left of the page that asked, the tab, the store alone or nothing
Requests == [n : 1..MaxAsks, kind : OfHeader \cup OfTab, of : Lists, thing : Things,
          ear : {"tab", "store", "none"},
          said : {"nothing", "class", "rows"},
          class : Courses \cup {NoAnswer}, rows : Listings \cup {NoAnswer}]

DeskTypeOK ==
    /\ course \in Courses
    /\ listed \in [Lists -> Listings]
    /\ desk \in Desks
    /\ asks \subseteq Requests
    /\ misled \subseteq {"class", "rows"}

Something == CHOOSE t \in Things : TRUE

Ask(n, kind, of, thing, ear) ==
    [n |-> n, kind |-> kind, of |-> of, thing |-> thing, ear |-> ear,
     said |-> "nothing", class |-> NoAnswer, rows |-> NoAnswer]

\* ClassroomManagePage, on its details.
NewDesk ==
    [place |-> "details", shown |-> NoAnswer, working |-> FALSE, form |-> "empty",
     saving |-> FALSE, rows |-> NoAnswer, failed |-> FALSE]

DeskInit ==
    /\ course = [status |-> "DRAFT", edits |-> 0]
    /\ listed = [l \in Lists |-> [t \in Things |-> "absent"]]
    /\ desk = NewDesk
    /\ asks = {Ask(1, "load", "sessions", Something, "store")}
    /\ misled = {}

-----------------------------------------------------------------------------
(* Helpers *)

Unused == (1..MaxAsks) \ {ask.n : ask \in asks}

Sends(kind, of, thing, ear) ==
    \E n \in Unused :
        /\ \A m \in Unused : n <= m
        /\ asks' = asks \cup {Ask(n, kind, of, thing, ear)}

\* Mutant of FormFilled: the form follows the class.
FormFilledAgain(d) ==
    IF d.place = "details" /\ d.shown # NoAnswer THEN [d EXCEPT !.form = "filled"] ELSE d

\* The form takes the class when it first sees one, over what was typed by then,
\* and never again.
FormFilled(d) ==
    IF d.place = "details" /\ d.shown # NoAnswer /\ d.form \in {"empty", "early"}
    THEN [d EXCEPT !.form = IF @ = "early" THEN "replaced" ELSE "filled"] ELSE d

\* A tab is created; a list asks for its rows as it opens.
NewTabOf(d, place) ==
    FormFilled([d EXCEPT !.place = place, !.form = "empty", !.saving = FALSE,
                     !.rows = NoAnswer, !.failed = FALSE])

\* What is left of each request's page when a tab closes, when all of it does.
TabClosed(set) ==
    {[ask EXCEPT !.ear = IF ask.kind \in OfHeader \cup {"update"} /\ @ # "none"
                         THEN "store" ELSE "none"] : ask \in set}

AllClosed(set) == {[ask EXCEPT !.ear = "none"] : ask \in set}

Listing(n, place) == Ask(n, "list", place, Something, "tab")

-----------------------------------------------------------------------------
(* Going from page to page *)

OpenTab(place) ==
    /\ desk.place \in Lists \cup {"details"}
    /\ place # desk.place
    /\ desk' = NewTabOf(desk, place)
    /\ IF place \in Lists
       THEN \E n \in Unused :
                /\ \A m \in Unused : n <= m
                /\ asks' = TabClosed(asks) \cup {Listing(n, place)}
       ELSE asks' = TabClosed(asks)
    /\ misled' = misled \ {"rows"}
    /\ UNCHANGED <<course, listed>>

\* The page that invites has no store: the one there was is gone.
Compose ==
    /\ desk.place = "invitations"
    /\ desk' = [NewDesk EXCEPT !.place = "compose"]
    /\ asks' = AllClosed(asks)
    /\ misled' = {}
    /\ UNCHANGED <<course, listed>>

\* The class is managed again, from a tab of it.
Manage(d, place, set) ==
    /\ Cardinality(set) + 2 <= MaxAsks
    /\ \E n, m \in (1..MaxAsks) \ {ask.n : ask \in set} :
           /\ n < m
           /\ asks' = set \cup {Ask(n, "load", "sessions", Something, "store"), Listing(m, place)}
    /\ desk' = d

Back ==
    /\ desk.place = "compose"
    /\ Manage([NewDesk EXCEPT !.place = "invitations"], "invitations", AllClosed(asks))
    /\ misled' = {}
    /\ UNCHANGED <<course, listed>>

-----------------------------------------------------------------------------
(* What the host presses *)

Publish ==
    /\ desk.shown # NoAnswer
    /\ ~desk.working
    /\ \E kind \in {"publish", "cancel"} :
           /\ kind = "publish" => desk.shown.status = "DRAFT"
           /\ kind = "cancel" => desk.shown.status # "CANCELLED"
           /\ Sends(kind, "sessions", Something, "store")
    /\ desk' = [desk EXCEPT !.working = TRUE]
    /\ UNCHANGED <<course, listed, misled>>

Edit ==
    /\ desk.place = "details"
    /\ desk' = [desk EXCEPT !.form = IF @ \in {"empty", "early"} THEN "early" ELSE "typed"]
    /\ UNCHANGED <<course, listed, asks, misled>>

\* What was changed is sent, though the class may not be there yet, or have been
\* put over it.  A price that is none throws after the button was disabled: it
\* stays so.
SaveDetails ==
    /\ desk.form \in {"early", "replaced", "typed"}
    /\ ~desk.saving
    /\ desk' = [desk EXCEPT !.saving = TRUE, !.failed = FALSE]
    /\ Sends("update", "sessions", Something, "tab") \/ UNCHANGED asks
    /\ UNCHANGED <<course, listed, misled>>

Schedule(t) ==
    /\ desk.place = "sessions"
    /\ ~desk.saving
    /\ listed["sessions"][t] = "absent"
    /\ desk' = [desk EXCEPT !.saving = TRUE, !.failed = FALSE]
    /\ Sends("schedule", "sessions", t, "tab")
    /\ UNCHANGED <<course, listed, misled>>

\* The row's button: cancel a session, revoke an invitation.
Press(t) ==
    /\ desk.place \in Lists
    /\ desk.rows # NoAnswer
    /\ desk.rows[t] = "on"
    /\ Sends(IF desk.place = "sessions" THEN "drop" ELSE "revoke", desk.place, t, "tab")
    /\ UNCHANGED <<course, listed, desk, misled>>

Invite(t) ==
    /\ desk.place = "compose"
    /\ ~desk.saving
    /\ listed["invitations"][t] = "absent"
    /\ desk' = [desk EXCEPT !.saving = TRUE, !.failed = FALSE]
    /\ Sends("invite", "invitations", t, "tab")
    /\ UNCHANGED <<course, listed, misled>>

-----------------------------------------------------------------------------
(* The server *)

Answers(ask, answer) == asks' = (asks \ {ask}) \cup {answer}

\* A class that is cancelled takes its sessions with it.
ListsAfter(kind) ==
    [l \in Lists |-> [t \in Things |->
        IF kind = "cancel" /\ l = "sessions" /\ listed[l][t] = "on" THEN "off"
        ELSE listed[l][t]]]

\* Of the class: it is read, published, cancelled or edited.
HandleCourse(ask) ==
    /\ ask \in asks
    /\ ask.said = "nothing"
    /\ CASE ask.kind = "load" -> UNCHANGED course
         [] ask.kind = "publish" -> /\ course.status # "CANCELLED"
                                    /\ \E t \in Things : listed["sessions"][t] = "on"
                                    /\ course' = [course EXCEPT !.status = "PUBLISHED"]
         [] ask.kind = "cancel" -> course' = [course EXCEPT !.status = "CANCELLED"]
         [] ask.kind = "update" -> /\ course.edits < MaxEdits
                                   /\ course' = [course EXCEPT !.edits = @ + 1]
         [] OTHER -> FALSE
    /\ listed' = ListsAfter(ask.kind)
    /\ Answers(ask, [ask EXCEPT !.said = "class", !.class = course'])
    /\ UNCHANGED <<desk, misled>>

\* Of a list: it is read, or one of its rows written.
HandleRow(ask) ==
    /\ ask \in asks
    /\ ask.said = "nothing"
    /\ CASE ask.kind = "list" -> UNCHANGED listed
         [] ask.kind \in {"schedule", "invite"} ->
                /\ listed[ask.of][ask.thing] = "absent"
                /\ listed' = [listed EXCEPT ![ask.of][ask.thing] = "on"]
         [] ask.kind \in {"drop", "revoke"} ->
                /\ listed[ask.of][ask.thing] # "absent"
                /\ listed' = [listed EXCEPT ![ask.of][ask.thing] = "off"]
         [] OTHER -> FALSE
    /\ Answers(ask, [ask EXCEPT !.said = "rows", !.rows = listed'[ask.of]])
    /\ UNCHANGED <<course, desk, misled>>

-----------------------------------------------------------------------------
(* Answers *)

\* The row has moved on since: absent, on, off.
Older(old, new) ==
    \E t \in Things : old[t] # new[t] /\ (old[t] = "absent" \/ new[t] = "off")

\* It came to a page that is gone, or tells of a class that has moved on.
ClassMisleads(ask) ==
    IF ask.ear = "none" THEN ask.kind # "load"
    ELSE /\ desk.shown # NoAnswer
         /\ \/ ask.class.edits < desk.shown.edits
            \/ ask.class.status = "DRAFT" /\ desk.shown.status # "DRAFT"
            \/ ask.class.status # "CANCELLED" /\ desk.shown.status = "CANCELLED"

\* store.set: whatever was asked for last.
CourseAnswered(ask) ==
    /\ ask \in asks
    /\ ask.said = "class"
    /\ LET d == IF ask.ear = "none" THEN desk ELSE [desk EXCEPT !.shown = ask.class]
           e == IF ask.ear # "none" /\ ask.kind \in {"publish", "cancel"}
                THEN [d EXCEPT !.working = FALSE] ELSE d
           f == IF ask.ear = "tab" /\ ask.kind = "update"
                THEN [e EXCEPT !.saving = FALSE, !.form = "filled"] ELSE e
       IN desk' = FormFilled(f)
    /\ misled' = misled \cup (IF ClassMisleads(ask) THEN {"class"} ELSE {})
    /\ asks' = asks \ {ask}
    /\ UNCHANGED <<course, listed>>

ListAnswered(ask) ==
    /\ ask \in asks
    /\ ask.kind = "list"
    /\ ask.said = "rows"
    /\ desk' = IF ask.ear = "tab" THEN [desk EXCEPT !.rows = ask.rows] ELSE desk
    /\ misled' = misled \cup
                     (IF /\ ask.ear = "tab" /\ desk.rows # NoAnswer
                         /\ Older(ask.rows, desk.rows)
                      THEN {"rows"} ELSE {})
    /\ asks' = asks \ {ask}
    /\ UNCHANGED <<course, listed>>

\* Mutant of Refreshes: a session that was cancelled stays in the list.
RefreshesNew(kind) == kind = "schedule"

\* A list of sessions is asked for again.
Refreshes(kind) == kind \in {"schedule", "drop"}

\* An invitation that was revoked replaces its row.
RowAnswered(ask) ==
    /\ ask \in asks
    /\ ask.kind \in {"schedule", "drop", "revoke"}
    /\ ask.said = "rows"
    /\ desk' = IF ask.ear # "tab" THEN desk
               ELSE [desk EXCEPT
                   !.saving = IF ask.kind = "schedule" THEN FALSE ELSE @,
                   !.rows = IF ask.kind = "revoke" /\ @ # NoAnswer
                            THEN [@ EXCEPT ![ask.thing] = "off"] ELSE @]
    /\ asks' = (asks \ {ask}) \cup
                   (IF ask.ear = "tab" /\ Refreshes(ask.kind)
                    THEN {Listing(ask.n, desk.place)} ELSE {})
    /\ misled' = misled \cup
                     (IF ask.ear # "tab" /\ ask.of = desk.place THEN {"rows"} ELSE {})
    /\ UNCHANGED <<course, listed>>

\* The host is taken to the invitations, wherever the host is by now.
InviteAnswered(ask) ==
    /\ ask \in asks
    /\ ask.kind = "invite"
    /\ ask.said = "rows"
    /\ IF desk.place = "compose"
       THEN Manage([NewDesk EXCEPT !.place = "invitations"], "invitations",
                   AllClosed(asks \ {ask}))
       ELSE IF desk.place = "invitations" THEN asks' = asks \ {ask} /\ UNCHANGED desk
       ELSE /\ desk' = NewTabOf(desk, "invitations")
            /\ asks' = TabClosed(asks \ {ask}) \cup {Listing(ask.n, "invitations")}
    /\ misled' = IF desk.place = "compose" THEN {}
                 ELSE IF desk.place = "invitations" THEN misled \cup {"rows"}
                 ELSE misled \ {"rows"}
    /\ UNCHANGED <<course, listed>>

\* A refusal, if the server has not done it; otherwise its answer is lost.
AskFails(ask) ==
    /\ ask \in asks
    /\ asks' = asks \ {ask}
    /\ desk' = [desk EXCEPT
           !.working = @ /\ ~(ask.ear # "none" /\ ask.kind \in {"publish", "cancel"}),
           !.saving = @ /\ ~(ask.ear = "tab" /\ ask.kind \in {"update", "schedule", "invite"}),
           !.failed = @ \/ ask.ear = "tab"]
    /\ misled' = misled \cup ({ask.said} \ {"nothing"})
    /\ UNCHANGED <<course, listed>>

DeskNext ==
    \/ \E place \in Lists \cup {"details"} : OpenTab(place)
    \/ Compose \/ Back \/ Publish \/ Edit \/ SaveDetails
    \/ \E t \in Things : Schedule(t) \/ Press(t) \/ Invite(t)
    \/ \E ask \in asks :
           \/ HandleCourse(ask) \/ HandleRow(ask)
           \/ CourseAnswered(ask) \/ ListAnswered(ask) \/ RowAnswered(ask)
           \/ InviteAnswered(ask) \/ AskFails(ask)

DeskSpec == DeskInit /\ [][DeskNext]_deskVars

-----------------------------------------------------------------------------
(* Properties *)

\* The row is as the server has it; or reads scheduled of a session that went with
\* its class, which the open list is not told (classrooms.service.ts:196-199).
AsListed(row, t) ==
    \/ row = listed[desk.place][t]
    \/ /\ desk.place = "sessions" /\ course.status = "CANCELLED"
       /\ row = "on" /\ listed[desk.place][t] = "off"

\* What the host did shows, whichever tab did it: with nothing under way the
\* header has the class as it is (manage-store.ts:5-11), unless an answer about the
\* class was lost, overtaken by a newer one or came to a page that is gone since
\* the page was opened; and a list has its rows, unless this happened to one of
\* its own answers since its tab was opened, or the tab shows an error.  What is
\* not promised: the sessions that go when the class is cancelled
\* (classroom-manage.page.ts:149-151,159).
DeskIsCurrent ==
    asks = {} =>
        /\ "class" \notin misled /\ desk.shown # NoAnswer => desk.shown = course
        /\ "rows" \notin misled /\ desk.place \in Lists /\ ~desk.failed =>
               desk.rows # NoAnswer /\ \A t \in Things : AsListed(desk.rows[t], t)

\* What the host types into the details once the class is in them stays until it
\* is saved, or the tab is left: no answer to another button of the page, and no
\* late or second load, overwrites it (manage-details.tab.ts:125-129).
DetailsAreKept ==
    desk.form = "typed" /\ desk'.form \in {"early", "filled", "replaced"} =>
        \E ask \in asks \ asks' : ask.kind = "update" /\ ask.ear = "tab"

====
