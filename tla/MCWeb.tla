---- MODULE MCWeb ----
(***************************************************************************)
(* The pages of the web application, one of which is open.  What a page    *)
(* keeps goes with it (only the AuthStore outlives it, and is part of the  *)
(* modules that read it), so the pages are checked side by side: the other *)
(* ones stay as they were.                                                 *)
(***************************************************************************)
EXTENDS Identity, CheckoutPage, BuyerPages, LiveStage, LiveRoomPage, HostDesk, TLC

CONSTANTS row1, email1, key1, q1, item1, host, student

MCSeeded == row1 :> email1

MCJoins == host :> 1 @@ student :> 2

VARIABLE open    \* the page

webVars == <<open, identityVars, checkoutVars, buyerVars, stageVars, roomVars, deskVars>>

PagesOf == {"account", "checkout", "catalogue", "item", "invitation", "stage", "room", "desk"}

\* Of a page that is closed one initial state is enough.
WebInit ==
    /\ open \in PagesOf
    /\ IdentityInit
    /\ CheckoutInit
    /\ open # "checkout" => checkout.key = key1
    /\ BuyerInit
    /\ open # "catalogue" => catalog.typed = q1
    /\ open # "item" => view.id = item1 /\ view.kind = "class" /\ seats = {}
    /\ open # "invitation" => token = "valid"
    /\ open \notin {"catalogue", "item", "invitation"} => visitor = "out" /\ ~member
    /\ StageInit
    /\ open # "stage" => teaching
    /\ RoomInit
    /\ DeskInit

WebNext ==
    \/ /\ open = "account" /\ IdentityNext
       /\ UNCHANGED <<open, checkoutVars, buyerVars, stageVars, roomVars, deskVars>>
    \/ /\ open = "checkout" /\ CheckoutNext
       /\ UNCHANGED <<open, identityVars, buyerVars, stageVars, roomVars, deskVars>>
    \/ /\ \/ open \in {"catalogue", "item", "invitation"} /\ VisitorNext
          \/ open = "catalogue" /\ CatalogNext
          \/ open = "item" /\ ViewNext
          \/ open = "invitation" /\ LandingNext
       /\ UNCHANGED <<open, identityVars, checkoutVars, stageVars, roomVars, deskVars>>
    \/ /\ open = "stage" /\ StageNext
       /\ UNCHANGED <<open, identityVars, checkoutVars, buyerVars, roomVars, deskVars>>
    \/ /\ open = "room" /\ RoomNext
       /\ UNCHANGED <<open, identityVars, checkoutVars, buyerVars, stageVars, deskVars>>
    \/ /\ open = "desk" /\ DeskNext
       /\ UNCHANGED <<open, identityVars, checkoutVars, buyerVars, stageVars, roomVars>>

WebSpec == WebInit /\ [][WebNext]_webVars /\ CheckoutFairness

\* The variables of every page have their types.
WebTypeOK ==
    /\ IdentityTypeOK
    /\ CheckoutTypeOK
    /\ BuyerTypeOK
    /\ StageTypeOK
    /\ RoomTypeOK
    /\ DeskTypeOK

\* What is typed into the account, or into the details of a class once the class is
\* in them, is not overwritten by an answer that arrives late
\* (account.page.ts:336-345, manage-details.tab.ts:125-129).
EditsAreKept == [][TypedIsKept /\ DetailsAreKept]_webVars

====
