---- MODULE Seats ----
(***************************************************************************)
(* The seats of one class and the ways into it: enrolling while it is      *)
(* free, paying, accepting an invitation; and the host who changes price   *)
(* and capacity and invites meanwhile (classrooms/enrollments.service.ts,  *)
(* classrooms.service.ts, invitations/invitations.service.ts, and what     *)
(* payments.service.ts writes to the Enrollment table).  A class has one   *)
(* invitation row per address; one address is modelled.  Handlers          *)
(* interleave at every await that reads or writes what another changes.    *)
(***************************************************************************)
EXTENDS Naturals, FiniteSets

CONSTANTS
    Users,       \* who may want a seat; the host may be one of them
    Host,        \* the user who owns the class
    Requests,    \* HTTP requests
    Tokens,      \* invitation tokens, each issued once
    Prices,
    Capacities,
    Null         \* no value

ASSUME SeatsAssumption ==
    /\ Prices \subseteq Nat
    /\ Capacities \subseteq Nat \ {0} /\ IsFiniteSet(Capacities)
    /\ IsFiniteSet(Users) /\ IsFiniteSet(Requests)
    /\ Null \notin Tokens \cup Prices

VARIABLES
    class,      \* the class: whether it is PUBLISHED, its price, its capacity
    seat,       \* the status of each user's Enrollment row
    quoted,     \* the amount of each user's latest payment for the class
    invite,     \* the invitation row
    issued,     \* tokens already sent
    task,       \* what each request is doing
    past        \* history, see Histories

vars == <<class, seat, quoted, invite, issued, task, past>>

Classes == [open : BOOLEAN, price : Prices, capacity : Capacities]

NoInvite == [token |-> Null, status |-> "NONE", comp |-> FALSE]

Invites == [token : Tokens, status : {"SENT", "ACCEPTED", "EXPIRED", "REVOKED"}, comp : BOOLEAN]

\* What a request remembers of the row.
Seen == [token |-> invite.token, status |-> invite.status]

SeenRows == [token : Tokens, status : {"SENT", "EXPIRED", "REVOKED"}]

\* A request, the user it acts for, and what it read before.
Idle == [pc |-> "idle"]

Tasks ==
    {Idle}
    \cup [pc : {"enrolSeat", "enrolWrite"}, user : Users, found : BOOLEAN]
    \cup [pc : {"checkoutSeat", "checkoutReserve"}, user : Users, price : Prices]
    \cup [pc : {"updateCount", "updateWrite"}, price : Prices, capacity : Capacities]
    \cup [pc : {"revoke", "expire"}, row : SeenRows]
    \cup [pc : {"accept"}, user : Users, row : SeenRows, comped : BOOLEAN]

\* free: the class was free at some time; comps: tokens that waive the price;
\* redeemed: who used each token; paid: who settled a payment; abreast: how many
\* free enrolments were ever under way at once.
Histories == [free : BOOLEAN, comps : SUBSET Tokens, redeemed : [Tokens -> SUBSET Users],
              paid : SUBSET Users, abreast : 0..Cardinality(Requests)]

TypeOK ==
    /\ class \in Classes
    /\ seat \in [Users -> {"NONE", "PENDING_PAYMENT", "ACTIVE"}]
    /\ quoted \in [Users -> Prices \cup {Null}]
    /\ invite \in Invites \cup {NoInvite}
    /\ issued \subseteq Tokens
    /\ task \in [Requests -> Tasks]
    /\ past \in Histories

\* create: a draft nobody has a seat in.
Init ==
    /\ class \in [open : {FALSE}, price : Prices, capacity : Capacities]
    /\ seat = [u \in Users |-> "NONE"]
    /\ quoted = [u \in Users |-> Null]
    /\ invite = NoInvite
    /\ issued = {}
    /\ task = [r \in Requests |-> Idle]
    /\ past = [free |-> class.price = 0, comps |-> {}, redeemed |-> [t \in Tokens |-> {}],
               paid |-> {}, abreast |-> 0]

-----------------------------------------------------------------------------
(* Helpers *)

Become(r, t) == task' = [task EXCEPT ![r] = t]

At(r, pc) == task[r].pc = pc

Activate(u) == seat' = [seat EXCEPT ![u] = "ACTIVE"]

Active == {u \in Users : seat[u] = "ACTIVE"}

Holders == {u \in Users : seat[u] # "NONE"}

\* Mutant of HasRoom: the last seat is sold twice.
HasRoomInclusive == Cardinality(Active) <= class.capacity

\* Only ACTIVE rows take a place.
HasRoom == Cardinality(Active) < class.capacity

-----------------------------------------------------------------------------
(* enrollFree *)

MayEnrol(u) == class.open /\ u # Host /\ class.price = 0 /\ HasRoom

Enrol(r, u) ==
    /\ At(r, "idle")
    /\ MayEnrol(u)
    /\ Become(r, [pc |-> "enrolSeat", user |-> u, found |-> FALSE])
    /\ LET now == Cardinality({q \in Requests : At(q, "enrolSeat") \/ At(q, "enrolWrite")}) + 1
       IN past' = [past EXCEPT !.abreast = IF now > @ THEN now ELSE @]
    /\ UNCHANGED <<class, seat, quoted, invite, issued>>

\* A seat that is ACTIVE already is returned as it is.
EnrolReadsSeat(r) ==
    /\ At(r, "enrolSeat")
    /\ Become(r, IF seat[task[r].user] = "ACTIVE" THEN Idle
                 ELSE [task[r] EXCEPT !.pc = "enrolWrite",
                                      !.found = seat[task[r].user] # "NONE"])
    /\ UNCHANGED <<class, seat, quoted, invite, issued, past>>

\* An update by id, or a create that the unique constraint may refuse.
EnrolWrites(r) ==
    LET u == task[r].user IN
    /\ At(r, "enrolWrite")
    /\ IF task[r].found \/ seat[u] = "NONE" THEN Activate(u) ELSE UNCHANGED seat
    /\ Become(r, Idle)
    /\ UNCHANGED <<class, quoted, invite, issued, past>>

-----------------------------------------------------------------------------
(* checkout and grantAccess, as far as they touch the class *)

MayBuy(u) == class.open /\ u # Host /\ class.price > 0 /\ HasRoom

Checkout(r, u) ==
    /\ At(r, "idle")
    /\ MayBuy(u)
    /\ Become(r, [pc |-> "checkoutSeat", user |-> u, price |-> class.price])
    /\ UNCHANGED <<class, seat, quoted, invite, issued, past>>

CheckoutReadsSeat(r) ==
    /\ At(r, "checkoutSeat")
    /\ Become(r, IF seat[task[r].user] = "ACTIVE" THEN Idle
                 ELSE [task[r] EXCEPT !.pc = "checkoutReserve"])
    /\ UNCHANGED <<class, seat, quoted, invite, issued, past>>

\* Mutant of Reserved: the upsert always writes PENDING_PAYMENT.
ReservedAfresh(u) == [seat EXCEPT ![u] = "PENDING_PAYMENT"]

\* The upsert: a row that is there is left alone.
Reserved(u) == [seat EXCEPT ![u] = IF @ = "NONE" THEN "PENDING_PAYMENT" ELSE @]

\* The payment is written at the price read before, and the seat reserved.
CheckoutReserves(r) ==
    LET u == task[r].user IN
    /\ At(r, "checkoutReserve")
    /\ quoted' = [quoted EXCEPT ![u] = task[r].price]
    /\ seat' = Reserved(u)
    /\ Become(r, Idle)
    /\ UNCHANGED <<class, invite, issued, past>>

\* The payment settles, late perhaps: the seat is granted whatever has happened.
Settle(u) ==
    /\ quoted[u] # Null
    /\ Activate(u)
    /\ past' = [past EXCEPT !.paid = @ \cup {u}]
    /\ UNCHANGED <<class, quoted, invite, issued, task>>

-----------------------------------------------------------------------------
(* The host: update, publish and cancel *)

\* publish and cancel; module Timetable has their steps, and who may take them.
OpenOrClose ==
    /\ class' = [class EXCEPT !.open = ~@]
    /\ UNCHANGED <<seat, quoted, invite, issued, task, past>>

\* The body names a price or leaves it; the schema fills in a missing capacity.
Update(r, price, capacity) ==
    /\ At(r, "idle")
    /\ Become(r, [pc |-> IF price = class.price THEN "updateWrite" ELSE "updateCount",
                  price |-> price, capacity |-> capacity])
    /\ UNCHANGED <<class, seat, quoted, invite, issued, past>>

\* Mutant of PriceIsOpen: only ACTIVE seats freeze the price.
PriceIsOpenUntilPaid == Active = {}

\* The price is frozen as soon as anyone has enrolled, or started to.
PriceIsOpen == Holders = {}

UpdateCounts(r) ==
    /\ At(r, "updateCount")
    /\ Become(r, IF PriceIsOpen THEN [task[r] EXCEPT !.pc = "updateWrite"] ELSE Idle)
    /\ UNCHANGED <<class, seat, quoted, invite, issued, past>>

UpdateWrites(r) ==
    LET price == task[r].price IN
    /\ At(r, "updateWrite")
    /\ class' = [class EXCEPT !.price = price, !.capacity = task[r].capacity]
    /\ past' = [past EXCEPT !.free = @ \/ price = 0]
    /\ Become(r, Idle)
    /\ UNCHANGED <<seat, quoted, invite, issued>>

-----------------------------------------------------------------------------
(* The host: create and revoke an invitation *)

\* Mutant of Reissued: inviting again keeps the status of the row.
ReissuedAsIs(t, comp) ==
    [token |-> t, status |-> invite.status, comp |-> comp]

\* The upsert: inviting an address again replaces its token and starts over.
Reissued(t, comp) == [token |-> t, status |-> "SENT", comp |-> comp]

Invite(t, comp) ==
    /\ t \notin issued
    /\ invite' = Reissued(t, comp)
    /\ issued' = issued \cup {t}
    /\ past' = [past EXCEPT !.comps = IF comp THEN @ \cup {t} ELSE @]
    /\ UNCHANGED <<class, seat, quoted, task>>

\* Mutant of MayRevoke: an invitation that was used can be withdrawn.
MayRevokeUsed == invite # NoInvite

MayRevoke == invite # NoInvite /\ invite.status # "ACCEPTED"

Revoke(r) ==
    /\ At(r, "idle")
    /\ MayRevoke
    /\ Become(r, [pc |-> "revoke", row |-> Seen])
    /\ UNCHANGED <<class, seat, quoted, invite, issued, past>>

\* The write goes by id, whatever the row holds by now.
WriteInvite(r, status) ==
    /\ invite' = [invite EXCEPT !.status = status]
    /\ Become(r, Idle)

RevokeWrites(r) ==
    /\ At(r, "revoke")
    /\ WriteInvite(r, "REVOKED")
    /\ UNCHANGED <<class, seat, quoted, issued, past>>

-----------------------------------------------------------------------------
(* accept *)

\* Mutant of Comped: every invitation is a free place.
CompedAlways == TRUE

Comped == invite.comp \/ class.price = 0

\* The status EXPIRED is not looked at, only the date.
Spent == invite.status \in {"REVOKED", "ACCEPTED"}

\* The row is found by its token: one that was replaced is unknown.  Whether
\* expiresAt has passed is left open.
Accept(r, u, t) ==
    /\ At(r, "idle")
    /\ invite.token = t
    /\ ~Spent
    /\ \/ Become(r, [pc |-> "expire", row |-> Seen])
       \/ class.open /\ Become(r, [pc |-> "accept", user |-> u, row |-> Seen, comped |-> Comped])
    /\ UNCHANGED <<class, seat, quoted, invite, issued, past>>

ExpireWrites(r) ==
    /\ At(r, "expire")
    /\ WriteInvite(r, "EXPIRED")
    /\ UNCHANGED <<class, seat, quoted, issued, past>>

\* One transaction: the row is used, and the seat granted when nothing is owed.
AcceptWrites(r) ==
    LET u == task[r].user IN
    /\ At(r, "accept")
    /\ IF task[r].comped THEN Activate(u) ELSE UNCHANGED seat
    /\ past' = [past EXCEPT !.redeemed[task[r].row.token] = @ \cup {u}]
    /\ WriteInvite(r, "ACCEPTED")
    /\ UNCHANGED <<class, quoted, issued>>

\* A request dies, or its statement fails, before its next step.
Crash(r) ==
    /\ ~At(r, "idle")
    /\ Become(r, Idle)
    /\ UNCHANGED <<class, seat, quoted, invite, issued, past>>

-----------------------------------------------------------------------------
Arrive(r) ==
    \/ \E u \in Users : Enrol(r, u) \/ Checkout(r, u)
    \/ \E p \in Prices, c \in Capacities : Update(r, p, c)
    \/ Revoke(r)
    \/ \E u \in Users, t \in Tokens : Accept(r, u, t)

HandlerStep(r) ==
    \/ EnrolReadsSeat(r)
    \/ EnrolWrites(r)
    \/ CheckoutReadsSeat(r)
    \/ CheckoutReserves(r)
    \/ UpdateCounts(r)
    \/ UpdateWrites(r)
    \/ RevokeWrites(r)
    \/ ExpireWrites(r)
    \/ AcceptWrites(r)

Next ==
    \/ \E r \in Requests : Arrive(r) \/ HandlerStep(r) \/ Crash(r)
    \/ \E u \in Users : Settle(u)
    \/ \E t \in Tokens, comp \in BOOLEAN : Invite(t, comp)
    \/ OpenOrClose

Spec == Init /\ [][Next]_vars

-----------------------------------------------------------------------------
(* Properties *)

\* Whoever holds an ACTIVE seat paid for it, was given it by an invitation that
\* waives the price, or took it while the class was free, in whatever order
\* requests, price changes and settlements come (enrollments.service.ts:16-20).
SeatIsEarned ==
    \A u \in Active :
        \/ u \in past.paid
        \/ past.free
        \/ \E t \in past.comps : u \in past.redeemed[t]

\* A seat once ACTIVE is never taken back, not by a checkout that began before
\* it was granted either (payments.service.ts:90-97).
SeatIsKept == [][\A u \in Active : seat'[u] = "ACTIVE"]_vars

\* The invitation row says ACCEPTED exactly when its token was used, by one user.
RowIsTrue ==
    LET used == past.redeemed[invite.token] IN
    invite # NoInvite =>
        /\ Cardinality(used) <= 1
        /\ invite.status = "ACCEPTED" <=> used # {}

\* A request goes on with the row, which is no longer as it read it.
Overlooks ==
    \E r \in Requests : /\ task[r].pc \in {"revoke", "expire", "accept"}
                        /\ task[r].row # Seen
                        /\ task'[r] # task[r]

\* Used, withdrawn or replaced, and no request that found it open is left.
IsSpent(t) ==
    /\ past.redeemed[t] # {}
    /\ ~\E r \in Requests : At(r, "accept") /\ task[r].row.token = t
    /\ invite.token = t => Spent /\ ~\E r \in Requests : At(r, "expire")

\* No step makes the row of an invitation lie but one that overlooks a change of it, and
\* a token that is spent is never used again, whatever comes and overlaps from then on
\* (invitations.service.ts:117-124).
InvitationTellsTruth ==
    [][/\ RowIsTrue => RowIsTrue' \/ Overlooks
       /\ \A t \in Tokens :
              IsSpent(t) => IsSpent(t)' /\ past'.redeemed[t] = past.redeemed[t]]_vars

\* Somebody has a seat, or one reserved, and no update is about to write another price.
IsFrozen ==
    /\ Holders # {}
    /\ \A r \in Requests : At(r, "updateWrite") => task[r].price = class.price

\* A user who is charged the price of the class, or not charged yet, and has no
\* checkout under way for another price.
IsAgreed(u) ==
    /\ quoted[u] \in {Null, class.price}
    /\ \A r \in Requests :
           task[r].pc \in {"checkoutSeat", "checkoutReserve"} /\ task[r].user = u =>
               task[r].price = class.price

\* The price does not change under anyone in the middle of a checkout: once it is
\* frozen it stays, and whoever is charged from then on is charged it
\* (classrooms.service.ts:118-129).
PriceIsAgreed ==
    [][IsFrozen =>
          /\ IsFrozen' /\ class'.price = class.price
          /\ \A u \in Users : IsAgreed(u) => IsAgreed(u)']_vars

\* Seats taken without paying or being invited exceed the largest capacity by
\* less than the free enrolments that were ever under way at once: one at a time
\* they never do (enrollments.service.ts:43-45).
OverbookingIsBounded ==
    LET free == {u \in Active : u \notin past.paid /\ \A t \in Tokens : u \notin past.redeemed[t]}
    IN free # {} => \E c \in Capacities : Cardinality(free) < c + past.abreast

\* The price is "frozen as soon as the class has any enrollment at all", reserved
\* seats included (classrooms.service.ts:118-120), whatever overlaps.
PriceIsFrozen == [][class'.price # class.price => Holders = {}]_vars

\* An invitation "is single-use" (invitations.service.ts:122-123), whatever overlaps.
TokenIsUsedOnce == \A t \in Tokens : Cardinality(past.redeemed[t]) <= 1

====
