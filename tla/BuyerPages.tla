---- MODULE BuyerPages ----
(***************************************************************************)
(* The pages a buyer reads (apps/web/src/app/features): the catalogue, one *)
(* class, one replay, and the page an invitation lands on.  Auth0 and the  *)
(* sync of the local user resolve while a page is open; a question and its *)
(* answer travel apart, and answers need not come in the order asked.      *)
(***************************************************************************)
EXTENDS Naturals, FiniteSets

CONSTANTS
    Queries,     \* what may be typed into the search
    Items,       \* classes, or replays
    MaxLoads,    \* bound on how often one page asks for its item
    Nothing      \* no value

VARIABLES
    visitor,     \* what the AuthStore knows
    member,      \* the server has a row for the visitor
    catalog,     \* the catalogue
    searches,    \* searches under way: the answer to each is still wanted
    view,        \* the page of one item
    loads,       \* its questions under way
    enrolling,   \* POST /enroll under way
    seats,       \* items the visitor may watch or attend
    landing,     \* the page of an invitation
    token        \* what the server thinks of it

buyerVars == <<visitor, member, catalog, searches, view, loads, enrolling, seats, landing, token>>

\* checking: not ready; in: signed in, currentUser not there yet
Visitors == {"checking", "out", "in", "known"}

IsAuthenticated == visitor \in {"in", "known"}

Catalogs == [typed : Queries, searched : Queries \cup {Nothing}, shown : Queries \cup {Nothing},
             loading : BOOLEAN, error : BOOLEAN, dead : BOOLEAN]

\* What a page offers: to watch or attend; to enrol for free; something else
\* (to pay, to manage the class) or nothing.
Offers == {"seat", "free", "other"}

\* sure: the question whether the viewer has a seat was asked, and answered
Said == [id : Items, offer : Offers, sure : BOOLEAN]

\* failed: an error is shown; last: the newest question answered; overtaken:
\* what is shown is an older answer that came after a newer one.
Views == [kind : {"class", "replay"}, id : Items, asked : 0..MaxLoads,
          shown : Said \cup {Nothing},
          loading : BOOLEAN, failed : BOOLEAN, working : BOOLEAN, actionError : BOOLEAN,
          last : 0..MaxLoads, overtaken : BOOLEAN]

Loads == [n : 1..MaxLoads, id : Items, mine : BOOLEAN,
          answer : Said \cup {Nothing}]

\* POST /enroll, until its answer is taken up.
Enrolments == [id : Items, answer : {"asked", "enrolled", "refused"}]

ASSUME BuyerAssumption ==
    /\ MaxLoads \in Nat \ {0}
    /\ Nothing \notin Said \cup Enrolments

Landings == [attempted : BOOLEAN, working : BOOLEAN, asked : {"no", "asked", "accepted", "refused"},
             result : {"none", "accepted", "error"}, lost : BOOLEAN]

BuyerTypeOK ==
    /\ visitor \in Visitors
    /\ member \in BOOLEAN
    /\ catalog \in Catalogs
    /\ searches \subseteq Queries
    /\ view \in Views
    /\ loads \subseteq Loads
    /\ enrolling \in Enrolments \cup {Nothing}
    /\ seats \subseteq Items
    /\ landing \in Landings
    /\ token \in {"valid", "spent", "bad"}

\* The first question of a page is asked as it opens.
NewView(kind, i) ==
    [kind |-> kind, id |-> i, asked |-> 1, shown |-> Nothing, loading |-> TRUE,
     failed |-> FALSE, working |-> FALSE, actionError |-> FALSE, last |-> 0, overtaken |-> FALSE]

FirstLoad(i, mine) == [n |-> 1, id |-> i, mine |-> mine, answer |-> Nothing]

\* A replay is behind the guard, which waits for the visitor to be signed in.
BuyerInit ==
    /\ visitor \in Visitors
    /\ member \in BOOLEAN
    /\ visitor = "known" => member
    /\ \E q \in Queries :
           catalog = [typed |-> q, searched |-> Nothing, shown |-> Nothing,
                      loading |-> TRUE, error |-> FALSE, dead |-> FALSE]
    /\ searches = {}
    /\ \E kind \in {"class", "replay"}, i \in Items :
           /\ kind = "replay" => IsAuthenticated
           /\ view = NewView(kind, i)
           /\ loads = {FirstLoad(i, IsAuthenticated)}
    /\ enrolling = Nothing
    /\ seats \in SUBSET Items
    /\ landing = [attempted |-> FALSE, working |-> FALSE, asked |-> "no", result |-> "none",
                  lost |-> FALSE]
    /\ token \in {"valid", "bad"}

catalogVars == <<catalog, searches>>
viewVars == <<view, loads, enrolling, seats>>
landingVars == <<landing, token>>

-----------------------------------------------------------------------------
(* The catalogue *)

Search(q) ==
    /\ catalog.typed # q
    /\ catalog' = [catalog EXCEPT !.typed = q]
    /\ UNCHANGED <<visitor, member, searches, viewVars, landingVars>>

\* Mutant of Wanted: every search is answered.
WantedAll == searches

\* switchMap: of the searches under way before, none is wanted any more.
Wanted == {}

\* A pause in the typing: a new query is searched for, unless a search failed
\* before, which has ended the stream.
Pause ==
    /\ ~catalog.dead
    /\ catalog.typed # catalog.searched
    /\ catalog' = [catalog EXCEPT !.searched = catalog.typed, !.loading = TRUE, !.error = FALSE]
    /\ UNCHANGED <<visitor, member, viewVars, landingVars>>
    /\ searches' = Wanted \cup {catalog.typed}

Found(q) ==
    /\ q \in searches
    /\ searches' = searches \ {q}
    /\ catalog' = [catalog EXCEPT !.shown = q, !.loading = FALSE]
    /\ UNCHANGED <<visitor, member, viewVars, landingVars>>

SearchFails(q) ==
    /\ q \in searches
    /\ searches' = {}
    /\ catalog' = [catalog EXCEPT !.error = TRUE, !.loading = FALSE, !.dead = TRUE]
    /\ UNCHANGED <<visitor, member, viewVars, landingVars>>

-----------------------------------------------------------------------------
(* One class, or one replay *)

\* load: the page asks for an item, and of a class also for the viewer's seat
\* if the viewer is signed in.
Asks(page, i, mine) ==
    /\ page.asked < MaxLoads
    /\ view' = [page EXCEPT !.id = i, !.asked = @ + 1, !.loading = TRUE]
    /\ loads' = loads \cup {[n |-> page.asked + 1, id |-> i, mine |-> mine, answer |-> Nothing]}

\* The route gives another id to the page that is open.
Turn(i) ==
    /\ i # view.id
    /\ Asks(view, i, IsAuthenticated)
    /\ UNCHANGED <<visitor, member, enrolling, seats, catalogVars, landingVars>>

\* What the server says; whether the seats of a class are gone, what it costs
\* and who hosts it is left open.
Truths(load) ==
    {said \in Said :
        /\ said.id = load.id
        /\ said.offer = "seat" <=> load.id \in seats /\ load.mine /\ said.sure
        /\ said.sure => load.mine
        /\ view.kind = "replay" => said.sure}

HandleLoad(load) ==
    /\ load \in loads
    /\ load.answer = Nothing
    /\ \E said \in Truths(load) :
           loads' = (loads \ {load}) \cup {[load EXCEPT !.answer = said]}
    /\ UNCHANGED <<visitor, member, view, enrolling, seats, catalogVars, landingVars>>

\* An answer is taken whichever question it is the answer to.
Loaded(load) ==
    /\ load \in loads
    /\ load.answer # Nothing
    /\ loads' = loads \ {load}
    /\ view' = [view EXCEPT !.shown = load.answer, !.loading = FALSE,
                            !.last = IF load.n > @ THEN load.n ELSE @,
                            !.overtaken = load.n < view.last]
    /\ UNCHANGED <<visitor, member, enrolling, seats, catalogVars, landingVars>>

\* No such item, or no connection: the message stays for as long as the page.
LoadFails(load) ==
    /\ load \in loads
    /\ loads' = loads \ {load}
    /\ view' = [view EXCEPT !.failed = TRUE, !.loading = FALSE]
    /\ UNCHANGED <<visitor, member, enrolling, seats, catalogVars, landingVars>>

\* What the page shows: a spinner before an error before the item.
Offered ==
    IF view.loading \/ view.failed \/ view.shown = Nothing THEN "other" ELSE view.shown.offer

Enroll ==
    /\ Offered = "free"
    /\ view.kind = "class"
    /\ ~view.working
    /\ IsAuthenticated
    /\ view' = [view EXCEPT !.working = TRUE, !.actionError = FALSE]
    /\ enrolling' = [id |-> view.id, answer |-> "asked"]
    /\ UNCHANGED <<visitor, member, loads, seats, catalogVars, landingVars>>

HandleEnroll ==
    /\ enrolling # Nothing
    /\ enrolling.answer = "asked"
    /\ \/ /\ member
          /\ seats' = seats \cup {enrolling.id}
          /\ enrolling' = [enrolling EXCEPT !.answer = "enrolled"]
       \/ enrolling' = [enrolling EXCEPT !.answer = "refused"] /\ UNCHANGED seats
    /\ UNCHANGED <<visitor, member, view, loads, catalogVars, landingVars>>

\* The page asks again, for the class it is about now.
Enrolled == Asks([view EXCEPT !.working = FALSE], view.id, IsAuthenticated)

EnrollAnswered ==
    /\ enrolling # Nothing
    /\ enrolling.answer = "enrolled"
    /\ Enrolled
    /\ enrolling' = Nothing
    /\ UNCHANGED <<visitor, member, seats, catalogVars, landingVars>>

\* A refusal, or an answer that is lost.
EnrollFails ==
    /\ enrolling # Nothing
    /\ view' = [view EXCEPT !.working = FALSE, !.actionError = TRUE]
    /\ enrolling' = Nothing
    /\ UNCHANGED <<visitor, member, loads, seats, catalogVars, landingVars>>

-----------------------------------------------------------------------------
(* The page of an invitation *)

\* Mutant of MayRedeem: to be signed in is enough.
MayRedeemAtOnce == IsAuthenticated /\ ~landing.attempted

\* Once the local user is there, and once only.
MayRedeem == visitor = "known" /\ ~landing.attempted

Redeem ==
    /\ MayRedeem
    /\ landing' = [landing EXCEPT !.attempted = TRUE, !.working = TRUE, !.asked = "asked"]
    /\ UNCHANGED <<visitor, member, token, catalogVars, viewVars>>

HandleRedeem ==
    /\ landing.asked = "asked"
    /\ IF member /\ token = "valid"
       THEN token' = "spent" /\ landing' = [landing EXCEPT !.asked = "accepted"]
       ELSE landing' = [landing EXCEPT !.asked = "refused"] /\ UNCHANGED token
    /\ UNCHANGED <<visitor, member, catalogVars, viewVars>>

Redeemed ==
    /\ landing.asked \in {"accepted", "refused"}
    /\ landing' = [landing EXCEPT !.working = FALSE, !.asked = "no",
                      !.result = IF landing.asked = "accepted" THEN "accepted" ELSE "error"]
    /\ UNCHANGED <<visitor, member, token, catalogVars, viewVars>>

RedeemFails ==
    /\ landing.asked # "no"
    /\ landing' = [landing EXCEPT !.working = FALSE, !.asked = "no", !.result = "error",
                                  !.lost = TRUE]
    /\ UNCHANGED <<visitor, member, token, catalogVars, viewVars>>

-----------------------------------------------------------------------------
(* The visitor *)

\* Auth0 says there is no session.
IsOut ==
    /\ visitor = "checking"
    /\ visitor' = "out"
    /\ UNCHANGED <<member, catalogVars, viewVars, landingVars>>

\* Auth0 says who the visitor is; the page of a class asks again.
IsIn ==
    /\ visitor = "checking"
    /\ visitor' = "in"
    /\ Asks(view, view.id, TRUE)
    /\ UNCHANGED <<member, enrolling, seats, catalogVars, landingVars>>

\* The visitor goes to sign in, and comes back to the same page, loaded anew.
SignIn ==
    /\ visitor = "out"
    /\ visitor' = "checking"
    /\ view' = NewView(view.kind, view.id)
    /\ loads' = {FirstLoad(view.id, FALSE)}
    /\ UNCHANGED <<member, enrolling, seats, catalogVars, landingVars>>

\* POST /auth/sync makes the row; then its answer comes, or never does.
HandleSync ==
    /\ visitor = "in"
    /\ ~member
    /\ member' = TRUE
    /\ UNCHANGED <<visitor, catalogVars, viewVars, landingVars>>

Synced ==
    /\ visitor = "in"
    /\ member
    /\ visitor' = "known"
    /\ UNCHANGED <<member, catalogVars, viewVars, landingVars>>

CatalogNext ==
    \/ \E q \in Queries : Search(q) \/ Found(q) \/ SearchFails(q)
    \/ Pause

ViewNext ==
    \/ \E i \in Items : Turn(i)
    \/ \E load \in loads : HandleLoad(load) \/ Loaded(load) \/ LoadFails(load)
    \/ Enroll \/ HandleEnroll \/ EnrollAnswered \/ EnrollFails

LandingNext == Redeem \/ HandleRedeem \/ Redeemed \/ RedeemFails

VisitorNext == IsOut \/ IsIn \/ SignIn \/ HandleSync \/ Synced

BuyerNext == CatalogNext \/ ViewNext \/ LandingNext \/ VisitorNext

BuyerSpec == BuyerInit /\ [][BuyerNext]_buyerVars

-----------------------------------------------------------------------------
(* Properties *)

\* When nothing is asked any more, the newest answer came last and no error is
\* shown, a page shows what it is about, not what it was about: the classes last
\* searched for; the item of the route, with the seat its viewer has if the server
\* could be asked for it, so that nobody is offered to pay for what they hold
\* (catalog.page.ts:173-175, classroom-detail.page.ts:16-20).
LatestIsShown ==
    /\ ~catalog.loading /\ ~catalog.error => catalog.shown = catalog.searched
    /\ (/\ loads = {} /\ enrolling = Nothing /\ ~view.overtaken
        /\ ~view.failed /\ ~view.actionError) =>
           /\ view.shown.id = view.id
           /\ view.shown.offer = "seat" => view.id \in seats
           /\ IsAuthenticated /\ view.shown.sure /\ view.id \in seats => Offered = "seat"

\* An invitation that is good is not answered with an error, unless its answer
\* is lost: it is not redeemed before the server knows the visitor, nor twice
\* (invitation-landing.page.ts:111-124).
InvitationIsNotWasted ==
    landing.result = "error" /\ ~landing.lost => token = "bad"

====
