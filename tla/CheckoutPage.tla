---- MODULE CheckoutPage ----
(***************************************************************************)
(* The checkout page (features/checkout/checkout.page.ts) before a server  *)
(* that holds one payment per idempotency key and settles it in its own    *)
(* time; module Payments has the server's steps.  A request and its answer *)
(* travel apart and either may be lost.  A page that is left and opened    *)
(* again is a new one: it has a new key and knows nothing of the old.      *)
(***************************************************************************)
EXTENDS Naturals, FiniteSets

CONSTANTS
    Keys,        \* idempotency keys
    MaxVisits,   \* bound on how often the page is opened
    None         \* no value

VARIABLES
    checkout,    \* the page
    post,        \* the POST /payments/checkout under way
    poll,        \* the GET /payments/:id under way
    payments,    \* the server: the status of the payment made under each key
    visits       \* how often the page was opened

checkoutVars == <<checkout, post, poll, payments, visits>>

Status == {"INITIATED", "PENDING", "SUCCESSFUL", "FAILED", "TIMEOUT"}

Settled == {"SUCCESSFUL", "FAILED", "TIMEOUT"}

\* What the page knows of a payment: whose key it was made under, its status.
Known == [key : Keys, status : Status]

\* key: of the attempt; drawn: keys used before; shown: the payment signal;
\* polled: the payment that is asked for at intervals; error: a message shows.
Checkouts == [key : Keys, drawn : SUBSET Keys, shown : Known \cup {None},
              polled : Keys \cup {None}, submitting : BOOLEAN, error : BOOLEAN, open : BOOLEAN]

\* A request: answer is None until the server has handled it.
Asked == [key : Keys, answer : Status \cup {None, "refused"}]

ASSUME CheckoutAssumption ==
    /\ MaxVisits \in Nat \ {0}
    /\ None \notin Keys \cup Status \cup Known \cup Asked
    /\ MaxVisits <= Cardinality(Keys) /\ IsFiniteSet(Keys)

CheckoutTypeOK ==
    /\ checkout \in Checkouts
    /\ post \in Asked \cup {None}
    /\ poll \in Asked \cup {None}
    /\ payments \in [Keys -> Status \cup {None}]
    /\ visits \in 1..MaxVisits

Fresh(key, drawn) ==
    [key |-> key, drawn |-> drawn \cup {key}, shown |-> None, polled |-> None,
     submitting |-> FALSE, error |-> FALSE, open |-> TRUE]

CheckoutInit ==
    /\ \E k \in Keys : checkout = Fresh(k, {})
    /\ post = None
    /\ poll = None
    /\ payments = [k \in Keys |-> None]
    /\ visits = 1

-----------------------------------------------------------------------------
(* What the buyer sees *)

Phase ==
    IF checkout.shown = None THEN "form"
    ELSE IF checkout.shown.status = "SUCCESSFUL" THEN "done"
    ELSE IF checkout.shown.status \in {"FAILED", "TIMEOUT"} THEN "failed"
    ELSE "waiting"

-----------------------------------------------------------------------------
(* What the buyer does *)

\* The number is valid, or the button is disabled.
Pay ==
    /\ checkout.open
    /\ Phase = "form"
    /\ ~checkout.submitting
    /\ checkout' = [checkout EXCEPT !.submitting = TRUE, !.error = FALSE]
    /\ post' = [key |-> checkout.key, answer |-> None]
    /\ UNCHANGED <<poll, payments, visits>>

\* Mutant of MayTryAgain: also when contact was lost.
MayTryAgainWhenLost == Phase = "failed" \/ (Phase = "waiting" /\ checkout.error)

\* The button is there only once the attempt has failed.
MayTryAgain == Phase = "failed"

\* A new key; poll.unsubscribe also drops the request under way.
TryAgain ==
    /\ checkout.open
    /\ MayTryAgain
    /\ \E k \in Keys \ checkout.drawn : checkout' = Fresh(k, checkout.drawn)
    /\ poll' = None
    /\ UNCHANGED <<post, payments, visits>>

\* Nothing is unsubscribed when the page is left: it is the page that is gone.
Leave ==
    /\ checkout.open
    /\ checkout' = [checkout EXCEPT !.open = FALSE]
    /\ UNCHANGED <<post, poll, payments, visits>>

\* The buyer comes back to a new page; answers to the old one change nothing.
Return ==
    /\ ~checkout.open
    /\ visits < MaxVisits
    /\ visits' = visits + 1
    /\ \E k \in Keys \ checkout.drawn : checkout' = Fresh(k, checkout.drawn)
    /\ post' = None
    /\ poll' = None
    /\ UNCHANGED payments

-----------------------------------------------------------------------------
(* The server *)

\* The key is known and its payment returned; or a payment is made and the
\* operator asked, at once, in vain or not at all.
HandlePost ==
    /\ post # None
    /\ post.answer = None
    /\ IF payments[post.key] # None
       THEN post' = [post EXCEPT !.answer = payments[post.key]] /\ UNCHANGED payments
       ELSE \/ /\ \E s \in {"INITIATED", "PENDING", "FAILED"} :
                      /\ payments' = [payments EXCEPT ![post.key] = s]
                      /\ post' = [post EXCEPT !.answer = s]
            \/ post' = [post EXCEPT !.answer = "refused"] /\ UNCHANGED payments
    /\ UNCHANGED <<checkout, poll, visits>>

HandlePoll ==
    /\ poll # None
    /\ poll.answer = None
    /\ poll' = [poll EXCEPT !.answer = payments[poll.key]]
    /\ UNCHANGED <<checkout, post, payments, visits>>

\* The payment moves on; where it ends is final.
Moves(k) ==
    /\ \/ payments[k] = "INITIATED" /\ payments' = [payments EXCEPT ![k] = "PENDING"]
       \/ /\ payments[k] \in {"INITIATED", "PENDING"}
          /\ \E s \in Settled : payments' = [payments EXCEPT ![k] = s]
    /\ UNCHANGED <<checkout, post, poll, visits>>

-----------------------------------------------------------------------------
(* What the page hears *)

\* Whatever status comes back, the page starts to ask for it.
PostAnswered ==
    /\ post # None
    /\ post.answer \in Status
    /\ checkout' = [checkout EXCEPT !.submitting = FALSE, !.polled = post.key,
                                    !.shown = [key |-> post.key, status |-> post.answer]]
    /\ post' = None
    /\ poll' = None
    /\ UNCHANGED <<payments, visits>>

\* Refused, or the connection breaks: before the server heard of it, or after.
PostFails ==
    /\ post # None
    /\ checkout' = [checkout EXCEPT !.submitting = FALSE, !.error = TRUE]
    /\ post' = None
    /\ UNCHANGED <<poll, payments, visits>>

\* The next tick of the interval: switchMap drops what is still under way.
Tick ==
    /\ checkout.polled # None
    /\ poll' = [key |-> checkout.polled, answer |-> None]
    /\ UNCHANGED <<checkout, post, payments, visits>>

\* Mutant of AsksOn: the first answer ends the interval.
AsksOnNever(status) == status = "INITIATED"

AsksOn(status) == status \in {"PENDING", "INITIATED"}

PollAnswered ==
    /\ poll # None
    /\ poll.answer \in Status
    /\ checkout' = [checkout EXCEPT
           !.shown = [key |-> poll.key, status |-> poll.answer],
           !.polled = IF AsksOn(poll.answer) THEN @ ELSE None]
    /\ poll' = None
    /\ UNCHANGED <<post, payments, visits>>

\* Contact is lost: the page stops asking, and goes on waiting.
PollFails ==
    /\ poll # None
    /\ checkout' = [checkout EXCEPT !.polled = None, !.error = TRUE]
    /\ poll' = None
    /\ UNCHANGED <<post, payments, visits>>

CheckoutNext ==
    \/ Pay \/ TryAgain \/ Leave \/ Return
    \/ HandlePost \/ HandlePoll \/ \E k \in Keys : Moves(k)
    \/ PostAnswered \/ PostFails \/ Tick \/ PollAnswered \/ PollFails

\* The interval ticks, and now and then an answer is faster than the next tick.
\* That a payment settles is not assumed.
CheckoutFairness ==
    /\ WF_checkoutVars(poll = None /\ Tick)
    /\ SF_checkoutVars(HandlePoll)
    /\ SF_checkoutVars(PollAnswered)

CheckoutSpec == CheckoutInit /\ [][CheckoutNext]_checkoutVars /\ CheckoutFairness

-----------------------------------------------------------------------------
(* Properties *)

\* However often the buyer presses, answers are lost and attempts fail, no more
\* payments are under way or settled than the page was opened
\* (checkout.page.ts:264-268 and payments.service.ts:40-46).
PaysOncePerVisit ==
    Cardinality({k \in Keys : payments[k] \in {"INITIATED", "PENDING", "SUCCESSFUL"}}) <= visits

\* A page that waits for a payment that is settled finds out, unless it is left
\* or loses contact; when it has lost contact it says so (checkout.page.ts:316-341).
WaitingEnds ==
    (/\ checkout.open /\ Phase = "waiting"
     /\ payments[checkout.shown.key] \in Settled) ~>
        (Phase # "waiting" \/ checkout.error \/ ~checkout.open)

====
