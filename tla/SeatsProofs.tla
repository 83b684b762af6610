---- MODULE SeatsProofs ----
(***************************************************************************)
(* Proofs about Seats, for every set of users, requests, tokens, prices    *)
(* and capacities: it keeps its types, a seat is earned and never taken    *)
(* back, a frozen price stays and is what buyers are charged, a spent      *)
(* token admits nobody, and overbooking has a bound.                       *)
(***************************************************************************)
EXTENDS Seats, FiniteSetTheorems, TLAPS

USE SeatsAssumption

\* A request about the invitation row found one, and rows stay.
RowIsThere ==
    \A r \in Requests : task[r].pc \in {"revoke", "expire", "accept"} => invite # NoInvite

TypeInv == TypeOK /\ RowIsThere

-----------------------------------------------------------------------------
(* Types *)

LEMMA InviteFields ==
    ASSUME NEW row \in Invites
    PROVE  /\ row.token \in Tokens /\ row.comp \in BOOLEAN
           /\ row.status \in {"SENT", "ACCEPTED", "EXPIRED", "REVOKED"}
           /\ row # NoInvite
BY DEF Invites, NoInvite

LEMMA IdleTask == Idle \in Tasks /\ Idle.pc = "idle"
BY DEF Idle, Tasks

\* The tasks by their program counters.
LEMMA TaskFields ==
    ASSUME NEW t \in Tasks
    PROVE  /\ t.pc \in {"enrolSeat", "enrolWrite"} => t.user \in Users /\ t.found \in BOOLEAN
           /\ t.pc \in {"checkoutSeat", "checkoutReserve"} => t.user \in Users /\ t.price \in Prices
           /\ t.pc \in {"updateCount", "updateWrite"} =>
                  t.price \in Prices /\ t.capacity \in Capacities
           /\ t.pc \in {"revoke", "expire", "accept"} => t.row \in SeenRows
           /\ t.pc = "accept" => t.user \in Users /\ t.comped \in BOOLEAN
BY DEF Tasks, Idle

\* What enrolling, paying and updating go on with.
LEMMA EnrolGoesOn ==
    ASSUME NEW t \in Tasks, t.pc = "enrolSeat", NEW b \in BOOLEAN
    PROVE  LET n == [t EXCEPT !.pc = "enrolWrite", !.found = b]
           IN  n \in Tasks /\ n.pc = "enrolWrite"
<1>1. t \in [pc : {"enrolSeat", "enrolWrite"}, user : Users, found : BOOLEAN]
    BY DEF Tasks, Idle
<1>2. [t EXCEPT !.pc = "enrolWrite", !.found = b]
          \in [pc : {"enrolSeat", "enrolWrite"}, user : Users, found : BOOLEAN]
    BY <1>1
<1> QED
    BY <1>1, <1>2 DEF Tasks

LEMMA CheckoutGoesOn ==
    ASSUME NEW t \in Tasks, t.pc = "checkoutSeat"
    PROVE  LET n == [t EXCEPT !.pc = "checkoutReserve"]
           IN  /\ n \in Tasks /\ n.pc = "checkoutReserve"
               /\ n.user = t.user /\ n.price = t.price
<1>1. t \in [pc : {"checkoutSeat", "checkoutReserve"}, user : Users, price : Prices]
    BY DEF Tasks, Idle
<1> QED
    BY <1>1 DEF Tasks

LEMMA UpdateGoesOn ==
    ASSUME NEW t \in Tasks, t.pc = "updateCount"
    PROVE  LET n == [t EXCEPT !.pc = "updateWrite"]
           IN  n \in Tasks /\ n.pc = "updateWrite" /\ n.price = t.price
<1>1. t \in [pc : {"updateCount", "updateWrite"}, price : Prices, capacity : Capacities]
    BY DEF Tasks, Idle
<1> QED
    BY <1>1 DEF Tasks

\* A request that arrives makes its count one larger at most than there are requests.
LEMMA Abreast ==
    ASSUME TypeOK, NEW r \in Requests, task[r].pc = "idle"
    PROVE  Cardinality({q \in Requests : At(q, "enrolSeat") \/ At(q, "enrolWrite")}) + 1
               \in 0..Cardinality(Requests)
<1> DEFINE S == {q \in Requests : At(q, "enrolSeat") \/ At(q, "enrolWrite")}
<1>1. S \subseteq Requests \ {r}
    BY DEF At
<1>2. IsFiniteSet(Requests \ {r}) /\ Cardinality(Requests \ {r}) = Cardinality(Requests) - 1
    BY FS_RemoveElement
<1>3. IsFiniteSet(S) /\ Cardinality(S) <= Cardinality(Requests) - 1
    BY <1>1, <1>2, FS_Subset
<1>4. Cardinality(S) \in Nat /\ Cardinality(Requests) \in Nat
    BY <1>3, FS_CardinalityType
<1> QED
    BY <1>3, <1>4

LEMMA TypeInitial == Init => TypeInv
<1> SUFFICES ASSUME Init PROVE TypeInv
    OBVIOUS
<1>1. 0 \in 0..Cardinality(Requests)
    BY FS_CardinalityType
<1>2. class \in Classes /\ past \in Histories
    BY <1>1 DEF Init, Classes, Histories
<1> QED
    BY <1>2, IdleTask DEF Init, TypeInv, TypeOK, RowIsThere

\* A request that takes a step has a task of its type afterwards.
LEMMA TaskStep ==
    ASSUME TypeInv, NEW r \in Requests, NEW t \in Tasks, Become(r, t),
           t.pc \in {"revoke", "expire", "accept"} => invite # NoInvite,
           invite # NoInvite => invite' # NoInvite
    PROVE  task' \in [Requests -> Tasks] /\ RowIsThere'
BY DEF TypeInv, TypeOK, RowIsThere, Become

LEMMA TypeInductive == TypeInv /\ [Next]_vars => TypeInv'
<1> SUFFICES ASSUME TypeInv, [Next]_vars PROVE TypeInv'
    OBVIOUS
<1> USE DEF TypeInv
<1>1. ASSUME NEW r \in Requests, NEW u \in Users, Enrol(r, u) PROVE TypeInv'
    <2> DEFINE t == [pc |-> "enrolSeat", user |-> u, found |-> FALSE]
    <2>1. t \in Tasks
        BY DEF Tasks
    <2>2. past' \in Histories
        BY <1>1, Abreast DEF Enrol, At, TypeOK, Histories
    <2>3. task' \in [Requests -> Tasks] /\ RowIsThere'
        BY <1>1, <2>1, TaskStep DEF Enrol
    <2> QED
        BY <1>1, <2>2, <2>3 DEF Enrol, TypeOK
<1>2. ASSUME NEW r \in Requests, EnrolReadsSeat(r) PROVE TypeInv'
    <2> DEFINE t == IF seat[task[r].user] = "ACTIVE" THEN Idle
                    ELSE [task[r] EXCEPT !.pc = "enrolWrite", !.found = seat[task[r].user] # "NONE"]
    <2>1. t \in Tasks /\ t.pc \in {"idle", "enrolWrite"}
        BY <1>2, IdleTask, EnrolGoesOn DEF EnrolReadsSeat, At, TypeOK
    <2>2. task' \in [Requests -> Tasks] /\ RowIsThere'
        BY <1>2, <2>1, TaskStep DEF EnrolReadsSeat
    <2> QED
        BY <1>2, <2>2 DEF EnrolReadsSeat, TypeOK
<1>3. ASSUME NEW r \in Requests, EnrolWrites(r) PROVE TypeInv'
    <2>1. task' \in [Requests -> Tasks] /\ RowIsThere'
        BY <1>3, IdleTask, TaskStep DEF EnrolWrites
    <2> QED
        BY <1>3, <2>1 DEF EnrolWrites, Activate, TypeOK
<1>4. ASSUME NEW r \in Requests, NEW u \in Users, Checkout(r, u) PROVE TypeInv'
    <2> DEFINE t == [pc |-> "checkoutSeat", user |-> u, price |-> class.price]
    <2>1. t \in Tasks
        BY DEF Tasks, TypeOK, Classes
    <2>2. task' \in [Requests -> Tasks] /\ RowIsThere'
        BY <1>4, <2>1, TaskStep DEF Checkout
    <2> QED
        BY <1>4, <2>2 DEF Checkout, TypeOK
<1>5. ASSUME NEW r \in Requests, CheckoutReadsSeat(r) PROVE TypeInv'
    <2> DEFINE t == IF seat[task[r].user] = "ACTIVE" THEN Idle
                    ELSE [task[r] EXCEPT !.pc = "checkoutReserve"]
    <2>1. t \in Tasks /\ t.pc \in {"idle", "checkoutReserve"}
        BY <1>5, IdleTask, CheckoutGoesOn DEF CheckoutReadsSeat, At, TypeOK
    <2>2. task' \in [Requests -> Tasks] /\ RowIsThere'
        BY <1>5, <2>1, TaskStep DEF CheckoutReadsSeat
    <2> QED
        BY <1>5, <2>2 DEF CheckoutReadsSeat, TypeOK
<1>6. ASSUME NEW r \in Requests, CheckoutReserves(r) PROVE TypeInv'
    <2>1. task[r].user \in Users /\ task[r].price \in Prices
        BY <1>6, TaskFields DEF CheckoutReserves, At, TypeOK
    <2>2. task' \in [Requests -> Tasks] /\ RowIsThere'
        BY <1>6, IdleTask, TaskStep DEF CheckoutReserves
    <2> QED
        BY <1>6, <2>1, <2>2 DEF CheckoutReserves, Reserved, TypeOK
<1>7. ASSUME NEW r \in Requests, NEW p \in Prices, NEW c \in Capacities, Update(r, p, c)
      PROVE  TypeInv'
    <2> DEFINE t == [pc |-> IF p = class.price THEN "updateWrite" ELSE "updateCount",
                     price |-> p, capacity |-> c]
    <2>1. t \in Tasks /\ t.pc \in {"updateWrite", "updateCount"}
        BY DEF Tasks
    <2>2. task' \in [Requests -> Tasks] /\ RowIsThere'
        BY <1>7, <2>1, TaskStep DEF Update
    <2> QED
        BY <1>7, <2>2 DEF Update, TypeOK
<1>8. ASSUME NEW r \in Requests, UpdateCounts(r) PROVE TypeInv'
    <2> DEFINE t == IF PriceIsOpen THEN [task[r] EXCEPT !.pc = "updateWrite"] ELSE Idle
    <2>1. t \in Tasks /\ t.pc \in {"idle", "updateWrite"}
        BY <1>8, IdleTask, UpdateGoesOn DEF UpdateCounts, At, TypeOK
    <2>2. task' \in [Requests -> Tasks] /\ RowIsThere'
        BY <1>8, <2>1, TaskStep DEF UpdateCounts
    <2> QED
        BY <1>8, <2>2 DEF UpdateCounts, TypeOK
<1>9. ASSUME NEW r \in Requests, UpdateWrites(r) PROVE TypeInv'
    <2>1. task[r].price \in Prices /\ task[r].capacity \in Capacities
        BY <1>9, TaskFields DEF UpdateWrites, At, TypeOK
    <2>2. task' \in [Requests -> Tasks] /\ RowIsThere'
        BY <1>9, IdleTask, TaskStep DEF UpdateWrites
    <2>3. class' \in Classes /\ past' \in Histories
        BY <1>9, <2>1 DEF UpdateWrites, TypeOK, Classes, Histories
    <2> QED
        BY <1>9, <2>2, <2>3 DEF UpdateWrites, TypeOK
<1>10. ASSUME NEW r \in Requests, Revoke(r) PROVE TypeInv'
    <2>1. [pc |-> "revoke", row |-> Seen] \in Tasks /\ invite # NoInvite
        BY <1>10, InviteFields DEF Revoke, MayRevoke, Seen, SeenRows, Tasks, TypeOK
    <2>2. task' \in [Requests -> Tasks] /\ RowIsThere'
        BY <1>10, <2>1, TaskStep DEF Revoke
    <2> QED
        BY <1>10, <2>2 DEF Revoke, TypeOK
<1>11. ASSUME NEW r \in Requests, NEW u \in Users, NEW t \in Tokens, Accept(r, u, t)
       PROVE  TypeInv'
    <2>1. invite # NoInvite /\ Seen \in SeenRows /\ Comped \in BOOLEAN
        BY <1>11, InviteFields DEF Accept, Spent, Seen, SeenRows, TypeOK, NoInvite, Comped
    <2>2. /\ [pc |-> "expire", row |-> Seen] \in Tasks
          /\ [pc |-> "accept", user |-> u, row |-> Seen, comped |-> Comped] \in Tasks
        BY <2>1 DEF Tasks
    <2>3. task' \in [Requests -> Tasks] /\ RowIsThere'
        BY <1>11, <2>1, <2>2, TaskStep DEF Accept
    <2> QED
        BY <1>11, <2>3 DEF Accept, TypeOK
<1>12. ASSUME NEW r \in Requests, RevokeWrites(r) \/ ExpireWrites(r) PROVE TypeInv'
    <2>1. invite \in Invites
        BY <1>12 DEF RevokeWrites, ExpireWrites, At, TypeOK, RowIsThere
    <2>2. invite' \in Invites
        BY <1>12, <2>1 DEF RevokeWrites, ExpireWrites, WriteInvite, Invites, TypeOK
    <2>3. task' \in [Requests -> Tasks] /\ RowIsThere'
        BY <1>12, <2>2, IdleTask, InviteFields, TaskStep DEF RevokeWrites, ExpireWrites, WriteInvite
    <2> QED
        BY <1>12, <2>2, <2>3 DEF RevokeWrites, ExpireWrites, TypeOK
<1>13. ASSUME NEW r \in Requests, AcceptWrites(r) PROVE TypeInv'
    <2>1. invite \in Invites
        BY <1>13 DEF AcceptWrites, At, TypeOK, RowIsThere
    <2>2. invite' \in Invites
        BY <1>13, <2>1 DEF AcceptWrites, WriteInvite, Invites, TypeOK
    <2>3. task' \in [Requests -> Tasks] /\ RowIsThere'
        BY <1>13, <2>2, IdleTask, InviteFields, TaskStep DEF AcceptWrites, WriteInvite
    <2>4. task[r].user \in Users
        BY <1>13, TaskFields DEF AcceptWrites, At, TypeOK
    <2>5. past' \in Histories
        BY <1>13, <2>4 DEF AcceptWrites, TypeOK, Histories
    <2> QED
        BY <1>13, <2>2, <2>3, <2>4, <2>5 DEF AcceptWrites, Activate, TypeOK
<1>14. ASSUME NEW r \in Requests, Crash(r) PROVE TypeInv'
    <2>1. task' \in [Requests -> Tasks] /\ RowIsThere'
        BY <1>14, IdleTask, TaskStep DEF Crash
    <2> QED
        BY <1>14, <2>1 DEF Crash, TypeOK
<1>15. ASSUME NEW u \in Users, Settle(u) PROVE TypeInv'
    <2>1. past' \in Histories
        BY <1>15 DEF Settle, TypeOK, Histories
    <2> QED
        BY <1>15, <2>1 DEF Settle, Activate, TypeOK, RowIsThere
<1>16. ASSUME NEW t \in Tokens, NEW comp \in BOOLEAN, Invite(t, comp) PROVE TypeInv'
    <2>1. invite' \in Invites
        BY <1>16 DEF Invite, Reissued, Invites
    <2>2. past' \in Histories
        BY <1>16 DEF Invite, TypeOK, Histories
    <2>3. invite' # NoInvite
        BY <2>1, InviteFields
    <2> QED
        BY <1>16, <2>1, <2>2, <2>3 DEF Invite, TypeOK, RowIsThere
<1>17. CASE OpenOrClose
    BY <1>17 DEF OpenOrClose, TypeOK, Classes, RowIsThere
<1>18. CASE UNCHANGED vars
    BY <1>18 DEF vars, TypeOK, RowIsThere
<1> QED
    BY <1>1, <1>2, <1>3, <1>4, <1>5, <1>6, <1>7, <1>8, <1>9, <1>10, <1>11, <1>12, <1>13, <1>14,
       <1>15, <1>16, <1>17, <1>18 DEF Next, Arrive, HandlerStep

\* Every variable stays in its set, whatever order requests come in.
THEOREM SeatsTypeCorrect == Spec => []TypeOK
<1>1. TypeInv => TypeOK
    BY DEF TypeInv
<1> QED
    BY TypeInitial, TypeInductive, <1>1, PTL DEF Spec

-----------------------------------------------------------------------------
(* Seats *)

\* No step of the program takes a seat that is ACTIVE, or reserved, away.
LEMMA SeatsStay ==
    ASSUME TypeInv, [Next]_vars, NEW u \in Users
    PROVE  /\ seat[u] = "ACTIVE" => seat'[u] = "ACTIVE"
           /\ seat[u] # "NONE" => seat'[u] # "NONE"
<1>1. ASSUME NEW r \in Requests, EnrolWrites(r) PROVE seat'[u] = seat[u] \/ seat'[u] = "ACTIVE"
    BY <1>1 DEF EnrolWrites, Activate, TypeInv, TypeOK
<1>2. ASSUME NEW r \in Requests, CheckoutReserves(r)
      PROVE  seat'[u] = seat[u] \/ (seat[u] = "NONE" /\ seat'[u] = "PENDING_PAYMENT")
    BY <1>2 DEF CheckoutReserves, Reserved, TypeInv, TypeOK
<1>3. ASSUME NEW r \in Requests, AcceptWrites(r) PROVE seat'[u] = seat[u] \/ seat'[u] = "ACTIVE"
    BY <1>3 DEF AcceptWrites, Activate, TypeInv, TypeOK
<1>4. ASSUME NEW v \in Users, Settle(v) PROVE seat'[u] = seat[u] \/ seat'[u] = "ACTIVE"
    BY <1>4 DEF Settle, Activate, TypeInv, TypeOK
<1>5. CASE UNCHANGED seat
    BY <1>5
<1> QED
    BY <1>1, <1>2, <1>3, <1>4, <1>5
    DEF Next, Arrive, HandlerStep, vars, Enrol, EnrolReadsSeat, Checkout, CheckoutReadsSeat,
        Update, UpdateCounts, UpdateWrites, Revoke, RevokeWrites, Accept, ExpireWrites, Crash,
        Invite, OpenOrClose

\* A seat that is ACTIVE is never taken back: not by the reservation of a
\* checkout that began before it was granted (payments.service.ts:90-97).
THEOREM SeatsAreKept == Spec => SeatIsKept
<1>1. TypeInv /\ [Next]_vars => [\A u \in Active : seat'[u] = "ACTIVE"]_vars
    BY SeatsStay DEF Active
<1> QED
    BY TypeInitial, TypeInductive, <1>1, PTL DEF Spec, SeatIsKept

-----------------------------------------------------------------------------
(* On what grounds *)

Grounded(u) ==
    \/ u \in past.paid
    \/ past.free
    \/ \E t \in past.comps : u \in past.redeemed[t]

\* Whoever is on the way to a seat without paying has grounds for it already,
\* even if the price has gone up since, or the invitation was replaced.
GroundsOfTasks ==
    \A r \in Requests :
        /\ task[r].pc \in {"enrolSeat", "enrolWrite"} => past.free
        /\ task[r].pc = "accept" /\ task[r].comped =>
               past.free \/ task[r].row.token \in past.comps

GroundInv ==
    /\ TypeInv
    /\ class.price = 0 => past.free
    /\ invite.comp => invite.token \in past.comps
    /\ GroundsOfTasks
    /\ \A u \in Active : Grounded(u)

PastGrows ==
    /\ past.free => past'.free
    /\ past.paid \subseteq past'.paid
    /\ past.comps \subseteq past'.comps
    /\ \A t \in Tokens : past.redeemed[t] \subseteq past'.redeemed[t]

LEMMA PastIsKept == TypeInv /\ [Next]_vars => PastGrows
<1> SUFFICES ASSUME TypeInv, [Next]_vars PROVE PastGrows
    OBVIOUS
<1> USE DEF PastGrows
<1>1. past \in Histories
    BY DEF TypeInv, TypeOK
<1>2. ASSUME NEW r \in Requests, NEW u \in Users, Enrol(r, u) PROVE PastGrows
    BY <1>1, <1>2 DEF Enrol, Histories
<1>3. ASSUME NEW r \in Requests, UpdateWrites(r) PROVE PastGrows
    BY <1>1, <1>3 DEF UpdateWrites, Histories
<1>4. ASSUME NEW r \in Requests, AcceptWrites(r) PROVE PastGrows
    BY <1>1, <1>4 DEF AcceptWrites, Histories
<1>5. ASSUME NEW u \in Users, Settle(u) PROVE PastGrows
    BY <1>1, <1>5 DEF Settle, Histories
<1>6. ASSUME NEW t \in Tokens, NEW comp \in BOOLEAN, Invite(t, comp) PROVE PastGrows
    BY <1>1, <1>6 DEF Invite, Histories
<1>7. CASE UNCHANGED past
    BY <1>7
<1> QED
    BY <1>2, <1>3, <1>4, <1>5, <1>6, <1>7
    DEF Next, Arrive, HandlerStep, vars, EnrolReadsSeat, EnrolWrites, Checkout,
        CheckoutReadsSeat, CheckoutReserves, Update, UpdateCounts, Revoke, RevokeWrites, Accept,
        ExpireWrites, Crash, OpenOrClose

\* A request that is given something grounded to do, or nothing, spoils nothing.
LEMMA GroundsStep ==
    ASSUME GroundInv, [Next]_vars, NEW r \in Requests, NEW t \in Tasks, Become(r, t),
           t.pc \in {"enrolSeat", "enrolWrite"} => past.free,
           t.pc = "accept" /\ t.comped => past.free \/ t.row.token \in past.comps
    PROVE  GroundsOfTasks'
<1>1. PastGrows
    BY PastIsKept DEF GroundInv
<1>2. ASSUME NEW q \in Requests PROVE task'[q] = IF q = r THEN t ELSE task[q]
    BY DEF Become, GroundInv, TypeInv, TypeOK
<1> QED
    BY <1>1, <1>2 DEF GroundInv, GroundsOfTasks, PastGrows

LEMMA GroundsStay ==
    ASSUME GroundInv, [Next]_vars, UNCHANGED task
    PROVE  GroundsOfTasks'
BY PastIsKept DEF GroundInv, GroundsOfTasks, PastGrows

\* Seats that were earned stay earned; it is enough to look at the new one.
LEMMA EarnedStep ==
    ASSUME GroundInv, [Next]_vars, NEW u \in Users, Grounded(u)',
           seat' = seat \/ Activate(u)
    PROVE  \A v \in Active' : Grounded(v)'
<1>1. PastGrows /\ past \in Histories
    BY PastIsKept DEF GroundInv, TypeInv, TypeOK
<1>2. \A v \in Active : Grounded(v)'
    BY <1>1 DEF GroundInv, Grounded, PastGrows, Histories
<1>3. Active' \subseteq Active \cup {u}
    BY DEF Active, Activate, GroundInv, TypeInv, TypeOK
<1> QED
    BY <1>2, <1>3

LEMMA EarnedStay ==
    ASSUME GroundInv, [Next]_vars, Active' \subseteq Active
    PROVE  \A v \in Active' : Grounded(v)'
<1>1. PastGrows /\ past \in Histories
    BY PastIsKept DEF GroundInv, TypeInv, TypeOK
<1>2. \A v \in Active : Grounded(v)'
    BY <1>1 DEF GroundInv, Grounded, PastGrows, Histories
<1> QED
    BY <1>2

LEMMA GroundInitial == Init => GroundInv
<1> SUFFICES ASSUME Init PROVE GroundInv
    OBVIOUS
<1>1. GroundsOfTasks
    BY IdleTask DEF Init, GroundsOfTasks
<1>2. Active = {}
    BY DEF Init, Active
<1>3. (class.price = 0 => past.free) /\ ~invite.comp
    BY DEF Init, NoInvite
<1> QED
    BY TypeInitial, <1>1, <1>2, <1>3 DEF GroundInv

LEMMA GroundInductive == GroundInv /\ [Next]_vars => GroundInv'
<1> SUFFICES ASSUME GroundInv, [Next]_vars PROVE GroundInv'
    OBVIOUS
<1>0. TypeInv /\ TypeInv' /\ PastGrows /\ past \in Histories
    BY TypeInductive, PastIsKept DEF GroundInv, TypeInv, TypeOK
<1>a. ASSUME UNCHANGED <<class, invite>>
      PROVE  /\ class'.price = 0 => past'.free
             /\ invite'.comp => invite'.token \in past'.comps
    BY <1>a, <1>0 DEF GroundInv, PastGrows
<1>1. ASSUME NEW r \in Requests, NEW u \in Users, Enrol(r, u) PROVE GroundInv'
    <2> DEFINE t == [pc |-> "enrolSeat", user |-> u, found |-> FALSE]
    <2>1. t \in Tasks /\ past.free
        BY <1>1 DEF Tasks, Enrol, MayEnrol, GroundInv
    <2>2. GroundsOfTasks'
        BY <1>1, <2>1, GroundsStep DEF Enrol
    <2>3. Active' \subseteq Active
        BY <1>1 DEF Enrol, Active
    <2> QED
        BY <1>0, <1>1, <1>a, <2>2, <2>3, EarnedStay DEF Enrol, GroundInv
<1>2. ASSUME NEW r \in Requests, EnrolReadsSeat(r) PROVE GroundInv'
    <2> DEFINE t == IF seat[task[r].user] = "ACTIVE" THEN Idle
                    ELSE [task[r] EXCEPT !.pc = "enrolWrite", !.found = seat[task[r].user] # "NONE"]
    <2>1. t \in Tasks /\ t.pc \in {"idle", "enrolWrite"}
        BY <1>0, <1>2, IdleTask, EnrolGoesOn DEF EnrolReadsSeat, At, TypeInv, TypeOK
    <2>2. past.free
        BY <1>2 DEF EnrolReadsSeat, At, GroundInv, GroundsOfTasks
    <2>3. GroundsOfTasks'
        BY <1>2, <2>1, <2>2, GroundsStep DEF EnrolReadsSeat
    <2>4. Active' \subseteq Active
        BY <1>2 DEF EnrolReadsSeat, Active
    <2> QED
        BY <1>0, <1>2, <1>a, <2>3, <2>4, EarnedStay DEF EnrolReadsSeat, GroundInv
<1>3. ASSUME NEW r \in Requests, EnrolWrites(r) PROVE GroundInv'
    <2>1. past.free /\ past'.free
        BY <1>0, <1>3 DEF EnrolWrites, At, GroundInv, GroundsOfTasks, PastGrows
    <2>2. GroundsOfTasks'
        BY <1>3, IdleTask, GroundsStep DEF EnrolWrites
    <2>3. \A v \in Active' : Grounded(v)'
        BY <2>1 DEF Grounded
    <2> QED
        BY <1>0, <1>3, <1>a, <2>2, <2>3 DEF EnrolWrites, GroundInv
<1>4. ASSUME NEW r \in Requests, NEW u \in Users, Checkout(r, u) PROVE GroundInv'
    <2> DEFINE t == [pc |-> "checkoutSeat", user |-> u, price |-> class.price]
    <2>1. t \in Tasks
        BY <1>0 DEF Tasks, TypeInv, TypeOK, Classes
    <2>2. GroundsOfTasks'
        BY <1>4, <2>1, GroundsStep DEF Checkout
    <2>3. Active' \subseteq Active
        BY <1>4 DEF Checkout, Active
    <2> QED
        BY <1>0, <1>4, <1>a, <2>2, <2>3, EarnedStay DEF Checkout, GroundInv
<1>5. ASSUME NEW r \in Requests, CheckoutReadsSeat(r) PROVE GroundInv'
    <2> DEFINE t == IF seat[task[r].user] = "ACTIVE" THEN Idle
                    ELSE [task[r] EXCEPT !.pc = "checkoutReserve"]
    <2>1. t \in Tasks /\ t.pc \in {"idle", "checkoutReserve"}
        BY <1>0, <1>5, IdleTask, CheckoutGoesOn DEF CheckoutReadsSeat, At, TypeInv, TypeOK
    <2>2. GroundsOfTasks'
        BY <1>5, <2>1, GroundsStep DEF CheckoutReadsSeat
    <2>3. Active' \subseteq Active
        BY <1>5 DEF CheckoutReadsSeat, Active
    <2> QED
        BY <1>0, <1>5, <1>a, <2>2, <2>3, EarnedStay DEF CheckoutReadsSeat, GroundInv
<1>6. ASSUME NEW r \in Requests, CheckoutReserves(r) PROVE GroundInv'
    <2>1. GroundsOfTasks'
        BY <1>6, IdleTask, GroundsStep DEF CheckoutReserves
    <2>2. task[r].user \in Users
        BY <1>0, <1>6, TaskFields DEF CheckoutReserves, At, TypeInv, TypeOK
    <2>3. Active' \subseteq Active
        BY <1>0, <1>6, <2>2 DEF CheckoutReserves, Reserved, Active, TypeInv, TypeOK
    <2> QED
        BY <1>0, <1>6, <1>a, <2>1, <2>3, EarnedStay DEF CheckoutReserves, GroundInv
<1>7. ASSUME NEW r \in Requests, NEW p \in Prices, NEW c \in Capacities, Update(r, p, c)
      PROVE  GroundInv'
    <2> DEFINE t == [pc |-> IF p = class.price THEN "updateWrite" ELSE "updateCount",
                     price |-> p, capacity |-> c]
    <2>1. t \in Tasks /\ t.pc \in {"updateWrite", "updateCount"}
        BY DEF Tasks
    <2>2. GroundsOfTasks'
        BY <1>7, <2>1, GroundsStep DEF Update
    <2>3. Active' \subseteq Active
        BY <1>7 DEF Update, Active
    <2> QED
        BY <1>0, <1>7, <1>a, <2>2, <2>3, EarnedStay DEF Update, GroundInv
<1>8. ASSUME NEW r \in Requests, UpdateCounts(r) PROVE GroundInv'
    <2> DEFINE t == IF PriceIsOpen THEN [task[r] EXCEPT !.pc = "updateWrite"] ELSE Idle
    <2>1. t \in Tasks /\ t.pc \in {"idle", "updateWrite"}
        BY <1>0, <1>8, IdleTask, UpdateGoesOn DEF UpdateCounts, At, TypeInv, TypeOK
    <2>2. GroundsOfTasks'
        BY <1>8, <2>1, GroundsStep DEF UpdateCounts
    <2>3. Active' \subseteq Active
        BY <1>8 DEF UpdateCounts, Active
    <2> QED
        BY <1>0, <1>8, <1>a, <2>2, <2>3, EarnedStay DEF UpdateCounts, GroundInv
<1>9. ASSUME NEW r \in Requests, UpdateWrites(r) PROVE GroundInv'
    <2>1. GroundsOfTasks'
        BY <1>9, IdleTask, GroundsStep DEF UpdateWrites
    <2>2. Active' \subseteq Active
        BY <1>9 DEF UpdateWrites, Active
    <2>3. class'.price = 0 => past'.free
        BY <1>0, <1>9 DEF UpdateWrites, Histories, TypeInv, TypeOK, Classes
    <2>4. invite'.comp => invite'.token \in past'.comps
        BY <1>0, <1>9 DEF UpdateWrites, GroundInv, PastGrows
    <2> QED
        BY <1>0, <2>1, <2>2, <2>3, <2>4, EarnedStay DEF GroundInv
<1>10. ASSUME NEW r \in Requests, Revoke(r) PROVE GroundInv'
    <2>1. [pc |-> "revoke", row |-> Seen] \in Tasks
        BY <1>0, <1>10, InviteFields DEF Revoke, MayRevoke, Seen, SeenRows, Tasks, TypeInv, TypeOK
    <2>2. GroundsOfTasks'
        BY <1>10, <2>1, GroundsStep DEF Revoke
    <2>3. Active' \subseteq Active
        BY <1>10 DEF Revoke, Active
    <2> QED
        BY <1>0, <1>10, <1>a, <2>2, <2>3, EarnedStay DEF Revoke, GroundInv
<1>11. ASSUME NEW r \in Requests, NEW u \in Users, NEW t \in Tokens, Accept(r, u, t)
       PROVE  GroundInv'
    <2>1. Seen \in SeenRows /\ Comped \in BOOLEAN
        BY <1>0, <1>11, InviteFields
        DEF Accept, Spent, Seen, SeenRows, TypeInv, TypeOK, NoInvite, Comped
    <2>2. /\ [pc |-> "expire", row |-> Seen] \in Tasks
          /\ [pc |-> "accept", user |-> u, row |-> Seen, comped |-> Comped] \in Tasks
        BY <2>1 DEF Tasks
    <2>3. Comped => past.free \/ Seen.token \in past.comps
        BY DEF Comped, Seen, GroundInv
    <2>4. GroundsOfTasks'
        BY <1>11, <2>2, <2>3, GroundsStep DEF Accept
    <2>5. Active' \subseteq Active
        BY <1>11 DEF Accept, Active
    <2> QED
        BY <1>0, <1>11, <1>a, <2>4, <2>5, EarnedStay DEF Accept, GroundInv
<1>12. ASSUME NEW r \in Requests, RevokeWrites(r) \/ ExpireWrites(r) PROVE GroundInv'
    <2>1. GroundsOfTasks'
        BY <1>12, IdleTask, GroundsStep DEF RevokeWrites, ExpireWrites, WriteInvite
    <2>2. Active' \subseteq Active
        BY <1>12 DEF RevokeWrites, ExpireWrites, Active
    <2>3. invite \in Invites
        BY <1>0, <1>12 DEF RevokeWrites, ExpireWrites, At, TypeInv, TypeOK, RowIsThere
    <2>4. invite'.comp = invite.comp /\ invite'.token = invite.token
        BY <1>12, <2>3 DEF RevokeWrites, ExpireWrites, WriteInvite, Invites
    <2> QED
        BY <1>0, <1>12, <2>1, <2>2, <2>4, EarnedStay
        DEF RevokeWrites, ExpireWrites, GroundInv, PastGrows
<1>13. ASSUME NEW r \in Requests, AcceptWrites(r) PROVE GroundInv'
    <2> DEFINE token == task[r].row.token
    <2>0. task[r].user \in Users /\ token \in Tokens
        BY <1>0, <1>13, TaskFields DEF AcceptWrites, At, TypeInv, TypeOK, SeenRows
    <2>1. PICK u \in Users : u = task[r].user
        BY <2>0
    <2>2. GroundsOfTasks'
        BY <1>13, IdleTask, GroundsStep DEF AcceptWrites, WriteInvite
    <2>3. invite \in Invites
        BY <1>0, <1>13 DEF AcceptWrites, At, TypeInv, TypeOK, RowIsThere
    <2>4. invite'.comp = invite.comp /\ invite'.token = invite.token
        BY <1>13, <2>3 DEF AcceptWrites, WriteInvite, Invites
    <2>5. CASE task[r].comped
        <3>1. past.free \/ token \in past.comps
            BY <1>13, <2>5 DEF AcceptWrites, At, GroundInv, GroundsOfTasks
        <3>2. u \in past'.redeemed[token]
            BY <1>0, <1>13, <2>0, <2>1 DEF AcceptWrites, Histories
        <3>3. Grounded(u)'
            <4>1. past'.free \/ token \in past'.comps
                BY <1>0, <3>1 DEF PastGrows
            <4> QED
                BY <3>2, <4>1 DEF Grounded
        <3>4. Activate(u)
            BY <1>13, <2>1, <2>5 DEF AcceptWrites
        <3>5. \A v \in Active' : Grounded(v)'
            BY <3>3, <3>4, EarnedStep
        <3> QED
            BY <1>0, <1>13, <2>2, <2>4, <3>5 DEF AcceptWrites, GroundInv, PastGrows
    <2>6. CASE ~task[r].comped
        <3>1. Active' \subseteq Active
            BY <1>13, <2>6 DEF AcceptWrites, Active
        <3> QED
            BY <1>0, <1>13, <2>2, <2>4, <3>1, EarnedStay DEF AcceptWrites, GroundInv, PastGrows
    <2> QED
        BY <2>5, <2>6
<1>14. ASSUME NEW r \in Requests, Crash(r) PROVE GroundInv'
    <2>1. GroundsOfTasks'
        BY <1>14, IdleTask, GroundsStep DEF Crash
    <2>2. Active' \subseteq Active
        BY <1>14 DEF Crash, Active
    <2> QED
        BY <1>0, <1>14, <1>a, <2>1, <2>2, EarnedStay DEF Crash, GroundInv
<1>15. ASSUME NEW u \in Users, Settle(u) PROVE GroundInv'
    <2>1. Grounded(u)'
        BY <1>0, <1>15 DEF Settle, Grounded, Histories
    <2>2. GroundsOfTasks'
        BY <1>15, GroundsStay DEF Settle
    <2> QED
        BY <1>0, <1>15, <1>a, <2>1, <2>2, EarnedStep DEF Settle, GroundInv
<1>16. ASSUME NEW t \in Tokens, NEW comp \in BOOLEAN, Invite(t, comp) PROVE GroundInv'
    <2>1. GroundsOfTasks'
        BY <1>16, GroundsStay DEF Invite
    <2>2. Active' \subseteq Active
        BY <1>16 DEF Invite, Active
    <2>3. invite'.comp => invite'.token \in past'.comps
        BY <1>0, <1>16 DEF Invite, Reissued, Histories
    <2>4. class'.price = 0 => past'.free
        BY <1>0, <1>16 DEF Invite, GroundInv, PastGrows
    <2> QED
        BY <1>0, <2>1, <2>2, <2>3, <2>4, EarnedStay DEF GroundInv
<1>17. CASE OpenOrClose
    <2>1. class'.price = class.price
        BY <1>0, <1>17 DEF OpenOrClose, TypeInv, TypeOK, Classes
    <2>2. GroundsOfTasks'
        BY <1>17, GroundsStay DEF OpenOrClose
    <2>3. Active' \subseteq Active
        BY <1>17 DEF OpenOrClose, Active
    <2> QED
        BY <1>0, <1>17, <2>1, <2>2, <2>3, EarnedStay DEF OpenOrClose, GroundInv
<1>18. CASE UNCHANGED vars
    <2>1. GroundsOfTasks' /\ Active' \subseteq Active
        BY <1>18, GroundsStay DEF vars, Active
    <2> QED
        BY <1>0, <1>18, <1>a, <2>1, EarnedStay DEF vars, GroundInv
<1> QED
    BY <1>1, <1>2, <1>3, <1>4, <1>5, <1>6, <1>7, <1>8, <1>9, <1>10, <1>11, <1>12, <1>13, <1>14,
       <1>15, <1>16, <1>17, <1>18 DEF Next, Arrive, HandlerStep

\* Whoever holds an ACTIVE seat paid, was invited without a price, or came while
\* the class was free, however requests and price changes interleave
\* (enrollments.service.ts:16-20).
THEOREM SeatsAreEarned == Spec => []SeatIsEarned
<1>1. GroundInv => SeatIsEarned
    BY DEF GroundInv, SeatIsEarned, Grounded
<1> QED
    BY GroundInitial, GroundInductive, <1>1, PTL DEF Spec

-----------------------------------------------------------------------------
(* At what price *)

LEMMA HoldersStay == TypeInv /\ [Next]_vars => Holders \subseteq Holders'
BY SeatsStay DEF Holders

\* What PriceIsAgreed says of a step.
PriceStays ==
    /\ IsFrozen' /\ class'.price = class.price
    /\ \A u \in Users : IsAgreed(u) => IsAgreed(u)'

\* A checkout that charges the class's price, or goes on with the one it had.
GoesOnBuying(r, t) ==
    t.pc \in {"checkoutSeat", "checkoutReserve"} =>
        \/ t.price = class.price
        \/ /\ task[r].pc \in {"checkoutSeat", "checkoutReserve"}
           /\ t.user = task[r].user /\ t.price = task[r].price

\* A step that leaves the price alone and charges nobody.
LEMMA PriceStep ==
    ASSUME TypeInv, [Next]_vars, IsFrozen, NEW r \in Requests, NEW t \in Tasks, Become(r, t),
           class'.price = class.price, quoted' = quoted,
           t.pc = "updateWrite" => t.price = class.price,
           GoesOnBuying(r, t)
    PROVE  PriceStays
<1>1. Holders' # {}
    BY HoldersStay DEF IsFrozen
<1>2. ASSUME NEW q \in Requests PROVE task'[q] = IF q = r THEN t ELSE task[q]
    BY DEF Become, TypeInv, TypeOK
<1>3. IsFrozen'
    BY <1>1, <1>2 DEF IsFrozen, At
<1>4. ASSUME NEW u \in Users, IsAgreed(u) PROVE IsAgreed(u)'
    BY <1>2, <1>4 DEF IsAgreed, GoesOnBuying
<1> QED
    BY <1>3, <1>4 DEF PriceStays

LEMMA PriceUntouched ==
    ASSUME TypeInv, [Next]_vars, IsFrozen, UNCHANGED <<task, quoted>>, class'.price = class.price
    PROVE  PriceStays
<1>1. Holders' # {}
    BY HoldersStay DEF IsFrozen
<1> QED
    BY <1>1 DEF PriceStays, IsFrozen, IsAgreed, At

LEMMA FrozenPriceStays == TypeInv /\ [Next]_vars /\ IsFrozen => PriceStays
<1> SUFFICES ASSUME TypeInv, [Next]_vars, IsFrozen PROVE PriceStays
    OBVIOUS
<1>0. \A r \in Requests : task[r] \in Tasks
    BY DEF TypeInv, TypeOK
<1>1. ASSUME NEW r \in Requests, NEW t \in Tasks, Become(r, t),
             t.pc \notin {"updateWrite", "checkoutSeat", "checkoutReserve"},
             UNCHANGED <<class, quoted>>
      PROVE  PriceStays
    BY <1>1, PriceStep DEF GoesOnBuying
<1>2. ASSUME NEW r \in Requests, NEW u \in Users, Enrol(r, u) PROVE PriceStays
    <2>1. [pc |-> "enrolSeat", user |-> u, found |-> FALSE] \in Tasks
        BY DEF Tasks
    <2> QED
        BY <1>1, <1>2, <2>1 DEF Enrol
<1>3. ASSUME NEW r \in Requests, NEW u \in Users, Checkout(r, u) PROVE PriceStays
    <2> DEFINE t == [pc |-> "checkoutSeat", user |-> u, price |-> class.price]
    <2>1. t \in Tasks /\ t.pc = "checkoutSeat" /\ t.price = class.price
        BY DEF Tasks, TypeInv, TypeOK, Classes
    <2>2. Become(r, t) /\ UNCHANGED <<class, quoted>>
        BY <1>3 DEF Checkout
    <2> HIDE DEF t
    <2> QED
        BY <2>1, <2>2, PriceStep DEF GoesOnBuying
<1>4. ASSUME NEW r \in Requests, EnrolReadsSeat(r) PROVE PriceStays
    <2> DEFINE t == IF seat[task[r].user] = "ACTIVE" THEN Idle
                    ELSE [task[r] EXCEPT !.pc = "enrolWrite", !.found = seat[task[r].user] # "NONE"]
    <2>1. t \in Tasks /\ t.pc \in {"idle", "enrolWrite"}
        BY <1>0, <1>4, IdleTask, EnrolGoesOn DEF EnrolReadsSeat, At
    <2> QED
        BY <1>1, <1>4, <2>1 DEF EnrolReadsSeat
<1>5. ASSUME NEW r \in Requests, EnrolWrites(r) PROVE PriceStays
    BY <1>1, <1>5, IdleTask DEF EnrolWrites
<1>6. ASSUME NEW r \in Requests, CheckoutReadsSeat(r) PROVE PriceStays
    <2> DEFINE n == [task[r] EXCEPT !.pc = "checkoutReserve"]
               t == IF seat[task[r].user] = "ACTIVE" THEN Idle ELSE n
    <2>1. /\ n \in Tasks /\ n.pc = "checkoutReserve" /\ task[r].pc = "checkoutSeat"
          /\ n.user = task[r].user /\ n.price = task[r].price
        BY <1>0, <1>6, CheckoutGoesOn DEF CheckoutReadsSeat, At
    <2>2. Become(r, t) /\ UNCHANGED <<class, quoted>>
        BY <1>6 DEF CheckoutReadsSeat
    <2> HIDE DEF n
    <2>3. t \in Tasks /\ t.pc # "updateWrite" /\ GoesOnBuying(r, t)
        BY <2>1, IdleTask DEF GoesOnBuying
    <2> HIDE DEF t
    <2> QED
        BY <2>2, <2>3, PriceStep
<1>7. ASSUME NEW r \in Requests, CheckoutReserves(r) PROVE PriceStays
    <2>1. PICK v \in Users : v = task[r].user
        BY <1>0, <1>7, TaskFields DEF CheckoutReserves, At
    <2>2. /\ quoted' = [quoted EXCEPT ![v] = task[r].price]
          /\ task' = [task EXCEPT ![r] = Idle]
          /\ class' = class /\ task[r].pc = "checkoutReserve"
        BY <1>7, <2>1 DEF CheckoutReserves, Become, At
    <2>3. ASSUME NEW q \in Requests PROVE task'[q] = IF q = r THEN Idle ELSE task[q]
        BY <2>2 DEF TypeInv, TypeOK
    <2>4. IsFrozen'
        <3>1. Holders' # {}
            BY HoldersStay DEF IsFrozen
        <3> QED
            BY <2>2, <2>3, <3>1, IdleTask DEF IsFrozen, At
    <2>5. ASSUME NEW u \in Users, IsAgreed(u) PROVE IsAgreed(u)'
        <3>1. quoted'[u] = IF u = v THEN task[r].price ELSE quoted[u]
            BY <2>2 DEF TypeInv, TypeOK
        <3>2. u = v => task[r].price = class.price
            BY <2>1, <2>2, <2>5 DEF IsAgreed
        <3> QED
            BY <2>2, <2>3, <2>5, <3>1, <3>2, IdleTask DEF IsAgreed
    <2> QED
        BY <2>2, <2>4, <2>5 DEF PriceStays
<1>8. ASSUME NEW r \in Requests, NEW p \in Prices, NEW c \in Capacities, Update(r, p, c)
      PROVE  PriceStays
    <2> DEFINE t == [pc |-> IF p = class.price THEN "updateWrite" ELSE "updateCount",
                     price |-> p, capacity |-> c]
    <2>1. /\ t \in Tasks /\ t.pc \in {"updateWrite", "updateCount"}
          /\ t.pc = "updateWrite" => t.price = class.price
        BY DEF Tasks
    <2>2. Become(r, t) /\ UNCHANGED <<class, quoted>>
        BY <1>8 DEF Update
    <2> HIDE DEF t
    <2> QED
        BY <2>1, <2>2, PriceStep DEF GoesOnBuying
<1>9. ASSUME NEW r \in Requests, UpdateCounts(r) PROVE PriceStays
    BY <1>1, <1>9, IdleTask DEF UpdateCounts, PriceIsOpen, IsFrozen
<1>10. ASSUME NEW r \in Requests, UpdateWrites(r) PROVE PriceStays
    <2>1. class'.price = class.price /\ UNCHANGED quoted /\ Become(r, Idle)
        BY <1>10 DEF UpdateWrites, IsFrozen, TypeInv, TypeOK, Classes
    <2> QED
        BY <2>1, IdleTask, PriceStep DEF GoesOnBuying
<1>11. ASSUME NEW r \in Requests, Revoke(r) PROVE PriceStays
    <2>1. [pc |-> "revoke", row |-> Seen] \in Tasks
        BY <1>11, InviteFields DEF Revoke, MayRevoke, Seen, SeenRows, Tasks, TypeInv, TypeOK
    <2> QED
        BY <1>1, <1>11, <2>1 DEF Revoke
<1>12. ASSUME NEW r \in Requests, NEW u \in Users, NEW t \in Tokens, Accept(r, u, t)
       PROVE  PriceStays
    <2>1. Seen \in SeenRows /\ Comped \in BOOLEAN
        BY <1>12, InviteFields
        DEF Accept, Spent, Seen, SeenRows, TypeInv, TypeOK, NoInvite, Comped
    <2>2. /\ [pc |-> "expire", row |-> Seen] \in Tasks
          /\ [pc |-> "accept", user |-> u, row |-> Seen, comped |-> Comped] \in Tasks
        BY <2>1 DEF Tasks
    <2> QED
        BY <1>1, <1>12, <2>2 DEF Accept
<1>13. ASSUME NEW r \in Requests,
              RevokeWrites(r) \/ ExpireWrites(r) \/ AcceptWrites(r) \/ Crash(r)
       PROVE  PriceStays
    BY <1>1, <1>13, IdleTask DEF RevokeWrites, ExpireWrites, AcceptWrites, WriteInvite, Crash
<1>14. ASSUME UNCHANGED <<task, quoted>>, class'.price = class.price PROVE PriceStays
    BY <1>14, PriceUntouched
<1>15. CASE OpenOrClose
    <2>1. class'.price = class.price
        BY <1>15 DEF OpenOrClose, TypeInv, TypeOK, Classes
    <2> QED
        BY <1>14, <1>15, <2>1 DEF OpenOrClose
<1> QED
    BY <1>2, <1>3, <1>4, <1>5, <1>6, <1>7, <1>8, <1>9, <1>10, <1>11, <1>12, <1>13, <1>14, <1>15
    DEF Next, Arrive, HandlerStep, vars, Settle, Invite

\* Once somebody has a seat or is about to, and no update is about to write another
\* price, the price stays, and who is charged from then on is charged it, whatever
\* checkouts and updates overlap (classrooms.service.ts:118-129).
THEOREM PricesAreAgreed == Spec => PriceIsAgreed
<1>1. TypeInv /\ [Next]_vars =>
          [IsFrozen => /\ IsFrozen' /\ class'.price = class.price
                       /\ \A u \in Users : IsAgreed(u) => IsAgreed(u)']_vars
    BY FrozenPriceStays DEF PriceStays
<1> QED
    BY TypeInitial, TypeInductive, <1>1, PTL DEF Spec, PriceIsAgreed

-----------------------------------------------------------------------------
(* By which token *)

\* A token that was not sent is nobody's, and the row has one that was.
TokensAreIssued ==
    /\ invite # NoInvite => invite.token \in issued
    /\ \A t \in Tokens \ issued : past.redeemed[t] = {}

\* Nor is it being used.
TokensOfTasks == \A r \in Requests : task[r].pc = "accept" => task[r].row.token \in issued

TokenInv == TypeInv /\ TokensOfTasks /\ TokensAreIssued

LEMMA TokenInitial == Init => TokenInv
<1> SUFFICES ASSUME Init PROVE TokenInv
    OBVIOUS
<1>1. TokensOfTasks
    BY IdleTask DEF Init, TokensOfTasks
<1>2. TokensAreIssued
    BY DEF Init, TokensAreIssued
<1> QED
    BY TypeInitial, <1>1, <1>2 DEF TokenInv

\* A request that does not begin to accept, or does so with a token that was sent.
LEMMA TokensStep ==
    ASSUME TokenInv, NEW r \in Requests, NEW t \in Tasks, Become(r, t), issued \subseteq issued',
           t.pc = "accept" => t.row.token \in issued
    PROVE  TokensOfTasks'
BY DEF TokenInv, TypeInv, TypeOK, TokensOfTasks, Become

LEMMA TokensOfTasksKept == TokenInv /\ [Next]_vars => TokensOfTasks'
<1> SUFFICES ASSUME TokenInv, [Next]_vars PROVE TokensOfTasks'
    OBVIOUS
<1>0. TypeInv /\ (\A r \in Requests : task[r] \in Tasks)
    BY DEF TokenInv, TypeInv, TypeOK
<1>1. ASSUME NEW r \in Requests, NEW u \in Users, Enrol(r, u) \/ Checkout(r, u)
      PROVE  TokensOfTasks'
    <2>1. /\ [pc |-> "enrolSeat", user |-> u, found |-> FALSE] \in Tasks
          /\ [pc |-> "checkoutSeat", user |-> u, price |-> class.price] \in Tasks
        BY <1>0 DEF Tasks, TypeInv, TypeOK, Classes
    <2> QED
        BY <1>1, <2>1, TokensStep DEF Enrol, Checkout
<1>2. ASSUME NEW r \in Requests, EnrolReadsSeat(r) PROVE TokensOfTasks'
    BY <1>0, <1>2, IdleTask, EnrolGoesOn, TokensStep DEF EnrolReadsSeat, At
<1>3. ASSUME NEW r \in Requests, CheckoutReadsSeat(r) PROVE TokensOfTasks'
    BY <1>0, <1>3, IdleTask, CheckoutGoesOn, TokensStep DEF CheckoutReadsSeat, At
<1>4. ASSUME NEW r \in Requests, UpdateCounts(r) PROVE TokensOfTasks'
    BY <1>0, <1>4, IdleTask, UpdateGoesOn, TokensStep DEF UpdateCounts, At
<1>5. ASSUME NEW r \in Requests, NEW p \in Prices, NEW c \in Capacities, Update(r, p, c)
      PROVE  TokensOfTasks'
    <2> DEFINE t == [pc |-> IF p = class.price THEN "updateWrite" ELSE "updateCount",
                     price |-> p, capacity |-> c]
    <2>1. t \in Tasks /\ t.pc # "accept"
        BY DEF Tasks
    <2> QED
        BY <1>5, <2>1, TokensStep DEF Update
<1>6. ASSUME NEW r \in Requests, Revoke(r) PROVE TokensOfTasks'
    <2>1. [pc |-> "revoke", row |-> Seen] \in Tasks
        BY <1>0, <1>6, InviteFields DEF Revoke, MayRevoke, Seen, SeenRows, Tasks, TypeInv, TypeOK
    <2> QED
        BY <1>6, <2>1, TokensStep DEF Revoke
<1>7. ASSUME NEW r \in Requests, NEW u \in Users, NEW t \in Tokens, Accept(r, u, t)
      PROVE  TokensOfTasks'
    <2>1. invite # NoInvite /\ Seen \in SeenRows /\ Comped \in BOOLEAN
        BY <1>0, <1>7, InviteFields
        DEF Accept, Spent, Seen, SeenRows, TypeInv, TypeOK, NoInvite, Comped
    <2>2. /\ [pc |-> "expire", row |-> Seen] \in Tasks
          /\ [pc |-> "accept", user |-> u, row |-> Seen, comped |-> Comped] \in Tasks
        BY <2>1 DEF Tasks
    <2>3. Seen.token \in issued
        BY <2>1 DEF Seen, TokenInv, TokensAreIssued
    <2> QED
        BY <1>7, <2>2, <2>3, TokensStep DEF Accept
<1>8. ASSUME NEW r \in Requests,
             \/ EnrolWrites(r) \/ CheckoutReserves(r) \/ UpdateWrites(r)
             \/ RevokeWrites(r) \/ ExpireWrites(r) \/ AcceptWrites(r) \/ Crash(r)
      PROVE  TokensOfTasks'
    BY <1>8, IdleTask, TokensStep
    DEF EnrolWrites, CheckoutReserves, UpdateWrites, RevokeWrites, ExpireWrites, AcceptWrites,
        WriteInvite, Crash
<1>9. ASSUME UNCHANGED task, issued \subseteq issued' PROVE TokensOfTasks'
    BY <1>9 DEF TokenInv, TokensOfTasks
<1> QED
    BY <1>1, <1>2, <1>3, <1>4, <1>5, <1>6, <1>7, <1>8, <1>9
    DEF Next, Arrive, HandlerStep, vars, Settle, Invite, OpenOrClose

\* Every step either leaves the row and what was redeemed alone, or writes to them.
RowUntouched == UNCHANGED <<invite, issued>> /\ past'.redeemed = past.redeemed

RowWritten ==
    \/ \E r \in Requests : RevokeWrites(r) \/ ExpireWrites(r) \/ AcceptWrites(r)
    \/ \E t \in Tokens, comp \in BOOLEAN : Invite(t, comp)

LEMMA RowSteps == TypeInv /\ [Next]_vars => RowUntouched \/ RowWritten
<1> SUFFICES ASSUME TypeInv, [Next]_vars, ~RowWritten PROVE RowUntouched
    OBVIOUS
<1>0. past \in Histories
    BY DEF TypeInv, TypeOK
<1>1. ASSUME NEW r \in Requests, NEW u \in Users, Enrol(r, u) PROVE RowUntouched
    BY <1>0, <1>1 DEF Enrol, Histories, RowUntouched
<1>2. ASSUME NEW r \in Requests, UpdateWrites(r) PROVE RowUntouched
    BY <1>0, <1>2 DEF UpdateWrites, Histories, RowUntouched
<1>3. ASSUME NEW u \in Users, Settle(u) PROVE RowUntouched
    BY <1>0, <1>3 DEF Settle, Histories, RowUntouched
<1>4. ASSUME UNCHANGED <<invite, issued, past>> PROVE RowUntouched
    BY <1>4 DEF RowUntouched
<1> QED
    BY <1>1, <1>2, <1>3, <1>4
    DEF RowWritten, Next, Arrive, HandlerStep, vars, EnrolReadsSeat, EnrolWrites, Checkout,
        CheckoutReadsSeat, CheckoutReserves, Update, UpdateCounts, Revoke, Accept, Crash,
        OpenOrClose

\* What the writes do to the row.
LEMMA WrittenRow ==
    ASSUME TypeInv, NEW r \in Requests, RevokeWrites(r) \/ ExpireWrites(r) \/ AcceptWrites(r)
    PROVE  /\ invite # NoInvite /\ invite' # NoInvite /\ invite'.token = invite.token
           /\ invite'.status = IF RevokeWrites(r) THEN "REVOKED"
                               ELSE IF ExpireWrites(r) THEN "EXPIRED" ELSE "ACCEPTED"
           /\ task[r].pc \in {"revoke", "expire", "accept"} /\ task[r].row \in SeenRows
           /\ issued' = issued /\ task' = [task EXCEPT ![r] = Idle]
<1>1. task[r].pc \in {"revoke", "expire", "accept"} /\ task[r] \in Tasks
    BY DEF RevokeWrites, ExpireWrites, AcceptWrites, At, TypeInv, TypeOK
<1>2. invite # NoInvite /\ invite \in Invites
    BY <1>1 DEF TypeInv, TypeOK, RowIsThere
<1>3. task[r].row \in SeenRows
    BY <1>1, TaskFields
<1>4. PICK status \in {"REVOKED", "EXPIRED", "ACCEPTED"} :
          /\ WriteInvite(r, status) /\ issued' = issued
          /\ status = IF RevokeWrites(r) THEN "REVOKED"
                      ELSE IF ExpireWrites(r) THEN "EXPIRED" ELSE "ACCEPTED"
    BY DEF RevokeWrites, ExpireWrites, AcceptWrites, At
<1>5. invite' \in Invites /\ invite'.token = invite.token /\ invite'.status = status
    BY <1>2, <1>4 DEF WriteInvite, Invites
<1> QED
    BY <1>1, <1>2, <1>3, <1>4, <1>5, InviteFields DEF WriteInvite, Become

\* Accepting adds its user to those who used its token.
LEMMA WrittenUse ==
    ASSUME TypeInv, NEW r \in Requests, AcceptWrites(r)
    PROVE  /\ task[r].user \in Users /\ task[r].row.token \in Tokens
           /\ \A t \in Tokens : past'.redeemed[t] = IF t = task[r].row.token
                                                   THEN past.redeemed[t] \cup {task[r].user}
                                                   ELSE past.redeemed[t]
<1>1. task[r].user \in Users /\ task[r].row \in SeenRows
    BY TaskFields DEF AcceptWrites, At, TypeInv, TypeOK
<1> QED
    BY <1>1 DEF AcceptWrites, SeenRows, Histories, TypeInv, TypeOK

LEMMA TokenInductive == TokenInv /\ [Next]_vars => TokenInv'
<1> SUFFICES ASSUME TokenInv, [Next]_vars PROVE TokenInv'
    OBVIOUS
<1>0. TypeInv /\ TypeInv' /\ TokensOfTasks' /\ past \in Histories
    BY TypeInductive, TokensOfTasksKept DEF TokenInv, TypeInv, TypeOK
<1>1. CASE RowUntouched
    BY <1>0, <1>1 DEF RowUntouched, TokenInv, TokensAreIssued
<1>2. ASSUME NEW r \in Requests, RevokeWrites(r) \/ ExpireWrites(r) PROVE TokenInv'
    <2>1. past' = past
        BY <1>2 DEF RevokeWrites, ExpireWrites
    <2> QED
        BY <1>0, <1>2, <2>1, WrittenRow DEF TokenInv, TokensAreIssued
<1>3. ASSUME NEW r \in Requests, AcceptWrites(r) PROVE TokenInv'
    <2>1. task[r].row.token \in issued
        BY <1>3 DEF AcceptWrites, At, TokenInv, TokensOfTasks
    <2>2. issued' = issued /\ invite'.token = invite.token /\ invite # NoInvite
        BY <1>0, <1>3, WrittenRow
    <2>3. \A t \in Tokens \ issued : past'.redeemed[t] = past.redeemed[t]
        BY <1>0, <1>3, <2>1, WrittenUse
    <2> QED
        BY <1>0, <2>2, <2>3 DEF TokenInv, TokensAreIssued
<1>4. ASSUME NEW t \in Tokens, NEW comp \in BOOLEAN, Invite(t, comp) PROVE TokenInv'
    <2>1. /\ invite'.token = t /\ issued' = issued \cup {t}
          /\ past'.redeemed = past.redeemed
        BY <1>0, <1>4 DEF Invite, Reissued, Histories
    <2> QED
        BY <1>0, <2>1 DEF TokenInv, TokensAreIssued
<1> QED
    BY <1>0, <1>1, <1>2, <1>3, <1>4, RowSteps DEF RowWritten

\* The row goes on telling the truth, or a request wrote to it that had not looked again.
LEMMA RowStaysTrue == TokenInv /\ [Next]_vars /\ RowIsTrue => RowIsTrue' \/ Overlooks
<1> SUFFICES ASSUME TokenInv, [Next]_vars, RowIsTrue, ~Overlooks PROVE RowIsTrue'
    OBVIOUS
<1>0. TypeInv /\ past \in Histories
    BY DEF TokenInv, TypeInv, TypeOK
<1>1. CASE RowUntouched
    BY <1>1 DEF RowUntouched, RowIsTrue
<1>2. ASSUME NEW r \in Requests, RevokeWrites(r) \/ ExpireWrites(r) \/ AcceptWrites(r)
      PROVE  /\ task[r].row.token = invite.token /\ past.redeemed[invite.token] = {}
    <2>1. task' = [task EXCEPT ![r] = Idle] /\ task[r].pc \in {"revoke", "expire", "accept"}
        BY <1>0, <1>2, WrittenRow
    <2>2. task'[r] # task[r]
        BY <1>0, <2>1, IdleTask DEF TypeInv, TypeOK
    <2>3. task[r].row = Seen
        BY <2>1, <2>2 DEF Overlooks
    <2>4. task[r].row.token = invite.token /\ invite.status # "ACCEPTED" /\ invite # NoInvite
        BY <1>0, <1>2, <2>3, WrittenRow DEF Seen, SeenRows
    <2> QED
        BY <2>4 DEF RowIsTrue
<1>3. ASSUME NEW r \in Requests, RevokeWrites(r) \/ ExpireWrites(r) PROVE RowIsTrue'
    <2>1. past' = past /\ invite'.status # "ACCEPTED" /\ invite'.token = invite.token
        BY <1>0, <1>3, WrittenRow DEF RevokeWrites, ExpireWrites
    <2>2. past'.redeemed[invite'.token] = {}
        BY <1>2, <1>3, <2>1
    <2> QED
        BY <2>1, <2>2, FS_EmptySet DEF RowIsTrue
<1>4. ASSUME NEW r \in Requests, AcceptWrites(r) PROVE RowIsTrue'
    <2>1. invite'.status = "ACCEPTED" /\ invite'.token = invite.token
        BY <1>0, <1>4, WrittenRow DEF AcceptWrites, RevokeWrites, ExpireWrites, At
    <2>2. past'.redeemed[invite'.token] = {task[r].user}
        BY <1>0, <1>2, <1>4, <2>1, WrittenUse
    <2>3. Cardinality({task[r].user}) = 1
        BY FS_Singleton
    <2> QED
        BY <2>1, <2>2, <2>3 DEF RowIsTrue
<1>5. ASSUME NEW t \in Tokens, NEW comp \in BOOLEAN, Invite(t, comp) PROVE RowIsTrue'
    <2>1. /\ invite'.token = t /\ invite'.status = "SENT" /\ t \notin issued
          /\ past'.redeemed = past.redeemed
        BY <1>0, <1>5 DEF Invite, Reissued, Histories
    <2>2. past'.redeemed[invite'.token] = {}
        BY <2>1 DEF TokenInv, TokensAreIssued
    <2> QED
        BY <2>1, <2>2, FS_EmptySet DEF RowIsTrue
<1> QED
    BY <1>0, <1>1, <1>3, <1>4, <1>5, RowSteps DEF RowWritten

\* What InvitationTellsTruth says of a spent token and a step.
SpentStays(t) == IsSpent(t)' /\ past'.redeemed[t] = past.redeemed[t]

\* A request is given nothing to do with the token, and the row goes on not to offer it.
LEMMA SpentStep ==
    ASSUME TypeInv, NEW t \in Tokens, IsSpent(t), NEW r \in Requests, NEW n \in Tasks,
           Become(r, n), past'.redeemed[t] = past.redeemed[t], invite'.token = invite.token,
           invite.token = t => Spent', n.pc = "accept" => n.row.token # t,
           n.pc = "expire" => invite.token # t
    PROVE  SpentStays(t)
<1>1. ASSUME NEW q \in Requests PROVE task'[q] = IF q = r THEN n ELSE task[q]
    BY DEF Become, TypeInv, TypeOK
<1>2. ~\E q \in Requests : task'[q].pc = "accept" /\ task'[q].row.token = t
    BY <1>1 DEF IsSpent, At
<1>3. invite'.token = t => Spent' /\ ~\E q \in Requests : task'[q].pc = "expire"
    BY <1>1 DEF IsSpent, At
<1> QED
    BY <1>2, <1>3 DEF SpentStays, IsSpent, At

LEMMA SpentTokensStay ==
    ASSUME TokenInv, [Next]_vars, NEW t \in Tokens, IsSpent(t)
    PROVE  SpentStays(t)
<1>0. /\ TypeInv /\ past \in Histories
      /\ \A r \in Requests : task[r] \in Tasks
    BY DEF TokenInv, TypeInv, TypeOK
<1>1. ASSUME NEW r \in Requests, NEW n \in Tasks, Become(r, n), RowUntouched,
             n.pc \notin {"accept", "expire"}
      PROVE  SpentStays(t)
    <2>1. invite.token = t => Spent'
        BY <1>1 DEF IsSpent, Spent, RowUntouched
    <2> QED
        BY <1>0, <1>1, <2>1, SpentStep DEF RowUntouched
<1>2. ASSUME NEW r \in Requests, NEW u \in Users, Enrol(r, u) \/ Checkout(r, u)
      PROVE  SpentStays(t)
    <2>1. /\ [pc |-> "enrolSeat", user |-> u, found |-> FALSE] \in Tasks
          /\ [pc |-> "checkoutSeat", user |-> u, price |-> class.price] \in Tasks
        BY <1>0 DEF Tasks, TypeInv, TypeOK, Classes
    <2>2. RowUntouched
        BY <1>0, <1>2 DEF Enrol, Checkout, Histories, RowUntouched
    <2> QED
        BY <1>1, <1>2, <2>1, <2>2 DEF Enrol, Checkout
<1>3. ASSUME NEW r \in Requests, EnrolReadsSeat(r) PROVE SpentStays(t)
    <2> DEFINE n == IF seat[task[r].user] = "ACTIVE" THEN Idle
                    ELSE [task[r] EXCEPT !.pc = "enrolWrite", !.found = seat[task[r].user] # "NONE"]
    <2>1. n \in Tasks /\ n.pc \in {"idle", "enrolWrite"}
        BY <1>0, <1>3, IdleTask, EnrolGoesOn DEF EnrolReadsSeat, At
    <2> QED
        BY <1>1, <1>3, <2>1 DEF EnrolReadsSeat, RowUntouched
<1>4. ASSUME NEW r \in Requests, CheckoutReadsSeat(r) PROVE SpentStays(t)
    <2> DEFINE n == IF seat[task[r].user] = "ACTIVE" THEN Idle
                    ELSE [task[r] EXCEPT !.pc = "checkoutReserve"]
    <2>1. n \in Tasks /\ n.pc \in {"idle", "checkoutReserve"}
        BY <1>0, <1>4, IdleTask, CheckoutGoesOn DEF CheckoutReadsSeat, At
    <2> QED
        BY <1>1, <1>4, <2>1 DEF CheckoutReadsSeat, RowUntouched
<1>5. ASSUME NEW r \in Requests, EnrolWrites(r) \/ CheckoutReserves(r) \/ Crash(r)
      PROVE  SpentStays(t)
    BY <1>1, <1>5, IdleTask DEF EnrolWrites, CheckoutReserves, Crash, RowUntouched
<1>6. ASSUME NEW r \in Requests, NEW p \in Prices, NEW c \in Capacities, Update(r, p, c)
      PROVE  SpentStays(t)
    <2> DEFINE n == [pc |-> IF p = class.price THEN "updateWrite" ELSE "updateCount",
                     price |-> p, capacity |-> c]
    <2>1. n \in Tasks /\ n.pc \notin {"accept", "expire"}
        BY DEF Tasks
    <2> QED
        BY <1>1, <1>6, <2>1 DEF Update, RowUntouched
<1>7. ASSUME NEW r \in Requests, UpdateCounts(r) PROVE SpentStays(t)
    <2> DEFINE n == IF PriceIsOpen THEN [task[r] EXCEPT !.pc = "updateWrite"] ELSE Idle
    <2>1. n \in Tasks /\ n.pc \in {"idle", "updateWrite"}
        BY <1>0, <1>7, IdleTask, UpdateGoesOn DEF UpdateCounts, At
    <2> QED
        BY <1>1, <1>7, <2>1 DEF UpdateCounts, RowUntouched
<1>8. ASSUME NEW r \in Requests, UpdateWrites(r) PROVE SpentStays(t)
    <2>1. RowUntouched
        BY <1>0, <1>8 DEF UpdateWrites, Histories, RowUntouched
    <2> QED
        BY <1>1, <1>8, <2>1, IdleTask DEF UpdateWrites
<1>9. ASSUME NEW r \in Requests, Revoke(r) PROVE SpentStays(t)
    <2>1. [pc |-> "revoke", row |-> Seen] \in Tasks
        BY <1>0, <1>9, InviteFields DEF Revoke, MayRevoke, Seen, SeenRows, Tasks, TypeInv, TypeOK
    <2> QED
        BY <1>1, <1>9, <2>1 DEF Revoke, RowUntouched
<1>10. ASSUME NEW r \in Requests, NEW u \in Users, NEW s \in Tokens, Accept(r, u, s)
       PROVE  SpentStays(t)
    <2>1. Seen \in SeenRows /\ Comped \in BOOLEAN
        BY <1>0, <1>10, InviteFields
        DEF Accept, Spent, Seen, SeenRows, TypeInv, TypeOK, NoInvite, Comped
    <2>2. /\ [pc |-> "expire", row |-> Seen] \in Tasks
          /\ [pc |-> "accept", user |-> u, row |-> Seen, comped |-> Comped] \in Tasks
        BY <2>1 DEF Tasks
    <2>3. invite.token # t
        BY <1>10 DEF Accept, IsSpent
    <2>4. PICK n \in Tasks : /\ Become(r, n) /\ n.row = Seen
                             /\ n.pc \in {"accept", "expire"}
        BY <1>10, <2>2 DEF Accept
    <2>5. n.row.token # t
        BY <2>3, <2>4 DEF Seen
    <2>6. invite' = invite /\ past' = past
        BY <1>10 DEF Accept
    <2> QED
        BY <1>0, <2>3, <2>4, <2>5, <2>6, SpentStep
<1>11. ASSUME NEW r \in Requests, RevokeWrites(r) \/ ExpireWrites(r) \/ AcceptWrites(r)
       PROVE  SpentStays(t)
    <2>1. /\ invite'.token = invite.token /\ task' = [task EXCEPT ![r] = Idle]
          /\ invite'.status = IF RevokeWrites(r) THEN "REVOKED"
                              ELSE IF ExpireWrites(r) THEN "EXPIRED" ELSE "ACCEPTED"
        BY <1>0, <1>11, WrittenRow
    <2>2. ExpireWrites(r) => invite.token # t
        BY DEF ExpireWrites, IsSpent
    <2>3. invite.token = t => Spent'
        BY <1>11, <2>1, <2>2 DEF Spent
    <2>4. past'.redeemed[t] = past.redeemed[t]
        <3>1. CASE AcceptWrites(r)
            <4>1. task[r].row.token # t
                BY <3>1 DEF AcceptWrites, IsSpent
            <4> QED
                BY <1>0, <3>1, <4>1, WrittenUse
        <3>2. CASE RevokeWrites(r) \/ ExpireWrites(r)
            BY <3>2 DEF RevokeWrites, ExpireWrites
        <3> QED
            BY <1>11, <3>1, <3>2
    <2> QED
        BY <1>0, <2>1, <2>3, <2>4, IdleTask, SpentStep DEF Become
<1>12. ASSUME NEW s \in Tokens, NEW comp \in BOOLEAN, Invite(s, comp) PROVE SpentStays(t)
    <2>1. /\ invite'.token = s /\ s \notin issued /\ UNCHANGED task
          /\ past'.redeemed = past.redeemed
        BY <1>0, <1>12 DEF Invite, Reissued, Histories
    <2>2. t # s
        BY <2>1 DEF IsSpent, TokenInv, TokensAreIssued
    <2> QED
        BY <2>1, <2>2 DEF SpentStays, IsSpent, At
<1>13. ASSUME RowUntouched, UNCHANGED task PROVE SpentStays(t)
    BY <1>13 DEF RowUntouched, SpentStays, IsSpent, Spent, At
<1>14. ASSUME NEW u \in Users, Settle(u) PROVE SpentStays(t)
    <2>1. RowUntouched /\ UNCHANGED task
        BY <1>0, <1>14 DEF Settle, Histories, RowUntouched
    <2> QED
        BY <1>13, <2>1
<1>15. CASE OpenOrClose \/ UNCHANGED vars
    BY <1>13, <1>15 DEF OpenOrClose, vars, RowUntouched
<1> QED
    BY <1>2, <1>3, <1>4, <1>5, <1>6, <1>7, <1>8, <1>9, <1>10, <1>11, <1>12, <1>14, <1>15
    DEF Next, Arrive, HandlerStep

\* The row of an invitation says who used it but for a request that goes on with a row
\* that has changed since it looked, and a spent token admits nobody any more, in
\* whatever order requests come (invitations.service.ts:117-124).
THEOREM InvitationsTellTruth == Spec => InvitationTellsTruth
<1>1. TokenInv /\ [Next]_vars =>
          [/\ RowIsTrue => RowIsTrue' \/ Overlooks
           /\ \A t \in Tokens :
                  IsSpent(t) => IsSpent(t)' /\ past'.redeemed[t] = past.redeemed[t]]_vars
    BY RowStaysTrue, SpentTokensStay DEF SpentStays
<1> QED
    BY TokenInitial, TokenInductive, <1>1, PTL DEF Spec, InvitationTellsTruth

-----------------------------------------------------------------------------
(* Overbooking *)

\* Users with a seat that was neither paid for nor come by with an invitation.
Taken ==
    {u \in Active : u \notin past.paid /\ \A t \in Tokens : u \notin past.redeemed[t]}

\* Free enrolments that found room and have not written yet.
Enrolling == {q \in Requests : At(q, "enrolSeat") \/ At(q, "enrolWrite")}

\* The seats taken and those about to be are within a capacity that was seen when
\* the last of them came in, but for those who came in beside it.
BookInv ==
    /\ TypeInv
    /\ Cardinality(Enrolling) <= past.abreast
    /\ Taken # {} \/ Enrolling # {} =>
           \E c \in Capacities : Cardinality(Taken) + Cardinality(Enrolling) < c + past.abreast

LEMMA BookFinite ==
    ASSUME TypeInv
    PROVE  /\ IsFiniteSet(Taken) /\ IsFiniteSet(Enrolling) /\ IsFiniteSet(Active)
           /\ Cardinality(Taken) \in Nat /\ Cardinality(Enrolling) \in Nat
           /\ Cardinality(Taken) <= Cardinality(Active) /\ Cardinality(Active) \in Nat
           /\ past.abreast \in Nat
<1>1. IsFiniteSet(Active) /\ IsFiniteSet(Enrolling)
    <2>1. Active \subseteq Users /\ Enrolling \subseteq Requests
        BY DEF Active, Enrolling
    <2> QED
        BY <2>1, FS_Subset
<1>2. IsFiniteSet(Taken) /\ Cardinality(Taken) <= Cardinality(Active)
    <2>1. Taken \subseteq Active
        BY DEF Taken
    <2> QED
        BY <1>1, <2>1, FS_Subset
<1>3. past.abreast \in Nat
    <2>1. Cardinality(Requests) \in Nat
        BY FS_CardinalityType
    <2> QED
        BY <2>1 DEF TypeInv, TypeOK, Histories
<1> QED
    BY <1>1, <1>2, <1>3, FS_CardinalityType

\* A step after which no more seats are taken, or about to be.
LEMMA BookShrinks ==
    ASSUME BookInv, TypeInv', Taken' \subseteq Taken, Enrolling' \subseteq Enrolling,
           past.abreast <= past'.abreast
    PROVE  BookInv'
<1>0. TypeInv /\ TypeInv'
    BY DEF BookInv
<1>1. /\ Cardinality(Taken) \in Nat /\ Cardinality(Enrolling) \in Nat
      /\ past.abreast \in Nat /\ IsFiniteSet(Taken) /\ IsFiniteSet(Enrolling)
    BY <1>0, BookFinite
<1>2. /\ Cardinality(Taken') \in Nat /\ Cardinality(Taken') <= Cardinality(Taken)
      /\ Cardinality(Enrolling') \in Nat /\ Cardinality(Enrolling') <= Cardinality(Enrolling)
    <2>1. /\ IsFiniteSet(Taken') /\ Cardinality(Taken') <= Cardinality(Taken)
          /\ IsFiniteSet(Enrolling') /\ Cardinality(Enrolling') <= Cardinality(Enrolling)
        BY <1>1, FS_Subset
    <2> QED
        BY <2>1, FS_CardinalityType
<1>3. past'.abreast \in Nat
    <2>1. Cardinality(Requests) \in Nat
        BY FS_CardinalityType
    <2> QED
        BY <1>0, <2>1 DEF TypeInv, TypeOK, Histories
<1> HIDE DEF Taken, Enrolling
<1>4. Cardinality(Enrolling') <= past'.abreast
    BY <1>1, <1>2, <1>3 DEF BookInv
<1>5. ASSUME Taken' # {} \/ Enrolling' # {}
      PROVE  \E c \in Capacities : Cardinality(Taken') + Cardinality(Enrolling') < c + past'.abreast
    <2>1. PICK c \in Capacities : Cardinality(Taken) + Cardinality(Enrolling) < c + past.abreast
        BY <1>5 DEF BookInv
    <2>2. c \in Nat
        OBVIOUS
    <2>3. Cardinality(Taken') + Cardinality(Enrolling') < c + past'.abreast
        BY <1>1, <1>2, <1>3, <2>1, <2>2
    <2> QED
        BY <2>3
<1> QED
    BY <1>0, <1>4, <1>5 DEF BookInv

LEMMA BookInitial == Init => BookInv
<1> SUFFICES ASSUME Init PROVE BookInv
    OBVIOUS
<1>1. Taken = {} /\ Enrolling = {}
    BY DEF Init, Taken, Active, Enrolling, At, Idle
<1>2. Cardinality(Enrolling) = 0
    BY <1>1, FS_EmptySet
<1> QED
    BY <1>1, <1>2, TypeInitial DEF BookInv, Init

\* A set that gained one element at most.
LEMMA AtMostOneMore ==
    ASSUME NEW S, IsFiniteSet(S), NEW x, NEW T, T \subseteq S \cup {x}
    PROVE  Cardinality(T) \in Nat /\ Cardinality(T) <= Cardinality(S) + 1
<1>1. Cardinality(S) \in Nat
    BY FS_CardinalityType
<1>2. /\ IsFiniteSet(S \cup {x})
      /\ Cardinality(S \cup {x}) = IF x \in S THEN Cardinality(S) ELSE Cardinality(S) + 1
    BY FS_AddElement
<1>3. IsFiniteSet(T) /\ Cardinality(T) <= Cardinality(S \cup {x})
    BY <1>2, FS_Subset
<1>4. Cardinality(T) \in Nat
    BY <1>3, FS_CardinalityType
<1>5. CASE x \in S
    BY <1>1, <1>2, <1>3, <1>4, <1>5
<1>6. CASE x \notin S
    BY <1>1, <1>2, <1>3, <1>4, <1>6
<1> QED
    BY <1>5, <1>6

\* Who enrols found room for one: that is what limits those who have and will.
LEMMA BookEnrol ==
    ASSUME BookInv, TypeInv', NEW r \in Requests, NEW u \in Users, Enrol(r, u)
    PROVE  BookInv'
<1> DEFINE now == Cardinality(Enrolling) + 1
<1>0. TypeInv /\ TypeInv' /\ task[r].pc = "idle"
    BY DEF BookInv, Enrol, At
<1>1. /\ Cardinality(Taken) \in Nat /\ Cardinality(Enrolling) \in Nat
      /\ past.abreast \in Nat /\ Cardinality(Taken) <= Cardinality(Active)
      /\ Cardinality(Active) \in Nat /\ IsFiniteSet(Enrolling)
    BY <1>0, BookFinite
<1>2. Cardinality(Active) < class.capacity /\ class.capacity \in Capacities
    BY <1>0 DEF Enrol, MayEnrol, HasRoom, TypeInv, TypeOK, Classes
<1>3. past' = [past EXCEPT !.abreast = IF now > past.abreast THEN now ELSE past.abreast]
    BY DEF Enrol, Enrolling
<1>4. past'.abreast \in Nat /\ now <= past'.abreast
    BY <1>0, <1>1, <1>3 DEF TypeInv, TypeOK, Histories
<1>5. Enrolling' = Enrolling \cup {r} /\ r \notin Enrolling
    BY <1>0 DEF Enrol, Become, Enrolling, At, TypeInv, TypeOK
<1>6. Cardinality(Enrolling') = now
    BY <1>1, <1>5, FS_AddElement
<1>7. Taken' = Taken
    BY <1>0, <1>3 DEF Enrol, Taken, Active, TypeInv, TypeOK, Histories
<1>8. Cardinality(Taken') = Cardinality(Taken)
    BY <1>7
<1>9. now \in Nat /\ class.capacity \in Nat
    <2>1. now \in Nat
        BY <1>1
    <2>2. class.capacity \in Nat
        BY <1>2
    <2> QED
        BY <2>1, <2>2
<1>10. Cardinality(Taken) < class.capacity
    BY <1>1, <1>2, <1>9
<1> HIDE DEF now, Taken, Enrolling
<1>11. Cardinality(Taken') + Cardinality(Enrolling') < class.capacity + past'.abreast
    BY <1>1, <1>4, <1>6, <1>8, <1>9, <1>10
<1>12. Cardinality(Enrolling') <= past'.abreast
    BY <1>4, <1>6
<1> QED
    BY <1>0, <1>2, <1>11, <1>12 DEF BookInv

\* An enrolment that writes makes at most one seat of one enrolment.
LEMMA BookWrite ==
    ASSUME BookInv, TypeInv', NEW r \in Requests, EnrolWrites(r)
    PROVE  BookInv'
<1> DEFINE u == task[r].user
<1>0. TypeInv /\ TypeInv' /\ task[r].pc = "enrolWrite" /\ u \in Users
    BY TaskFields DEF BookInv, EnrolWrites, At, TypeInv, TypeOK
<1>1. /\ Cardinality(Taken) \in Nat /\ Cardinality(Enrolling) \in Nat
      /\ past.abreast \in Nat /\ IsFiniteSet(Enrolling) /\ IsFiniteSet(Taken)
    BY <1>0, BookFinite
<1>2. Enrolling' = Enrolling \ {r} /\ r \in Enrolling
    BY <1>0 DEF EnrolWrites, Become, Enrolling, At, Idle, TypeInv, TypeOK
<1>3. Cardinality(Enrolling') = Cardinality(Enrolling) - 1
    BY <1>1, <1>2, FS_RemoveElement
<1>4. Taken' \subseteq Taken \cup {u} /\ UNCHANGED past
    BY <1>0 DEF EnrolWrites, Activate, Taken, Active, TypeInv, TypeOK
<1>5. Cardinality(Taken') \in Nat /\ Cardinality(Taken') <= Cardinality(Taken) + 1
    BY <1>1, <1>4, AtMostOneMore
<1>6. PICK c \in Capacities : Cardinality(Taken) + Cardinality(Enrolling) < c + past.abreast
    BY <1>2 DEF BookInv
<1>7. Cardinality(Taken') + Cardinality(Enrolling') < c + past'.abreast
    <2>1. c \in Nat
        OBVIOUS
    <2> QED
        BY <1>1, <1>3, <1>4, <1>5, <1>6, <2>1
<1>8. Cardinality(Enrolling') <= past'.abreast
    BY <1>1, <1>3, <1>4 DEF BookInv
<1> QED
    BY <1>0, <1>7, <1>8 DEF BookInv

LEMMA BookInductive == BookInv /\ [Next]_vars => BookInv'
<1> SUFFICES ASSUME BookInv, [Next]_vars PROVE BookInv'
    OBVIOUS
<1>0. /\ TypeInv /\ TypeInv' /\ past.abreast \in Nat
      /\ \A r \in Requests : task[r] \in Tasks
    BY TypeInductive, BookFinite DEF BookInv, TypeInv, TypeOK
<1>1. ASSUME NEW r \in Requests, NEW u \in Users, Enrol(r, u) PROVE BookInv'
    BY <1>0, <1>1, BookEnrol
<1>2. ASSUME NEW r \in Requests, EnrolWrites(r) PROVE BookInv'
    BY <1>0, <1>2, BookWrite
<1>3. ASSUME NEW r \in Requests, NEW t, Become(r, t), t.pc # "enrolSeat",
             t.pc = "enrolWrite" => At(r, "enrolSeat"),
             Taken' \subseteq Taken, past.abreast <= past'.abreast
      PROVE  BookInv'
    <2>1. Enrolling' \subseteq Enrolling
        BY <1>0, <1>3 DEF Become, Enrolling, At, TypeInv, TypeOK
    <2> QED
        BY <1>0, <1>3, <2>1, BookShrinks
<1>4. ASSUME UNCHANGED <<seat, past>>
      PROVE  Taken' \subseteq Taken /\ past.abreast <= past'.abreast
    BY <1>0, <1>4 DEF Taken, Active
<1>5. ASSUME NEW r \in Requests, NEW u \in Users, Checkout(r, u) PROVE BookInv'
    BY <1>3, <1>4, <1>5 DEF Checkout
<1>6. ASSUME NEW r \in Requests, EnrolReadsSeat(r) PROVE BookInv'
    <2> DEFINE t == IF seat[task[r].user] = "ACTIVE" THEN Idle
                    ELSE [task[r] EXCEPT !.pc = "enrolWrite",
                                         !.found = seat[task[r].user] # "NONE"]
    <2>1. t.pc \in {"idle", "enrolWrite"} /\ At(r, "enrolSeat") /\ Become(r, t)
        BY <1>0, <1>6, IdleTask, EnrolGoesOn DEF EnrolReadsSeat, At
    <2>2. Taken' \subseteq Taken /\ past.abreast <= past'.abreast
        BY <1>4, <1>6 DEF EnrolReadsSeat
    <2> HIDE DEF t
    <2> QED
        BY <1>3, <2>1, <2>2
<1>7. ASSUME NEW r \in Requests, CheckoutReadsSeat(r) PROVE BookInv'
    <2> DEFINE t == IF seat[task[r].user] = "ACTIVE" THEN Idle
                    ELSE [task[r] EXCEPT !.pc = "checkoutReserve"]
    <2>1. t.pc \in {"idle", "checkoutReserve"} /\ Become(r, t)
        BY <1>0, <1>7, IdleTask, CheckoutGoesOn DEF CheckoutReadsSeat, At
    <2>2. Taken' \subseteq Taken /\ past.abreast <= past'.abreast
        BY <1>4, <1>7 DEF CheckoutReadsSeat
    <2> HIDE DEF t
    <2> QED
        BY <1>3, <2>1, <2>2
<1>8. ASSUME NEW r \in Requests, CheckoutReserves(r) PROVE BookInv'
    <2>1. UNCHANGED past /\ (\A v \in Users : seat'[v] = "ACTIVE" => seat[v] = "ACTIVE")
        BY <1>0, <1>8 DEF CheckoutReserves, Reserved, TypeInv, TypeOK
    <2>2. Taken' \subseteq Taken
        BY <2>1 DEF Taken, Active
    <2> QED
        BY <1>0, <1>3, <1>8, <2>1, <2>2, IdleTask DEF CheckoutReserves
<1>9. ASSUME NEW r \in Requests, NEW p \in Prices, NEW c \in Capacities, Update(r, p, c)
      PROVE  BookInv'
    <2> DEFINE t == [pc |-> IF p = class.price THEN "updateWrite" ELSE "updateCount",
                     price |-> p, capacity |-> c]
    <2>1. t.pc \in {"updateWrite", "updateCount"} /\ Become(r, t)
        BY <1>9 DEF Update
    <2>2. Taken' \subseteq Taken /\ past.abreast <= past'.abreast
        BY <1>4, <1>9 DEF Update
    <2> HIDE DEF t
    <2> QED
        BY <1>3, <2>1, <2>2
<1>10. ASSUME NEW r \in Requests, UpdateCounts(r) PROVE BookInv'
    <2> DEFINE t == IF PriceIsOpen THEN [task[r] EXCEPT !.pc = "updateWrite"] ELSE Idle
    <2>1. t.pc \in {"idle", "updateWrite"} /\ Become(r, t)
        BY <1>0, <1>10, IdleTask, UpdateGoesOn DEF UpdateCounts, At
    <2>2. Taken' \subseteq Taken /\ past.abreast <= past'.abreast
        BY <1>4, <1>10 DEF UpdateCounts
    <2> HIDE DEF t
    <2> QED
        BY <1>3, <2>1, <2>2
<1>11. ASSUME NEW r \in Requests, UpdateWrites(r) PROVE BookInv'
    <2>1. /\ past'.abreast = past.abreast /\ past'.paid = past.paid
          /\ past'.redeemed = past.redeemed /\ UNCHANGED seat
        BY <1>0, <1>11 DEF UpdateWrites, TypeInv, TypeOK, Histories
    <2>2. Taken' \subseteq Taken
        BY <2>1 DEF Taken, Active
    <2> QED
        BY <1>0, <1>3, <1>11, <2>1, <2>2, IdleTask DEF UpdateWrites
<1>12. ASSUME NEW r \in Requests, Revoke(r) PROVE BookInv'
    BY <1>3, <1>4, <1>12 DEF Revoke
<1>13. ASSUME NEW r \in Requests, NEW u \in Users, NEW t \in Tokens, Accept(r, u, t)
       PROVE  BookInv'
    BY <1>3, <1>4, <1>13 DEF Accept
<1>14. ASSUME NEW r \in Requests, RevokeWrites(r) \/ ExpireWrites(r) \/ Crash(r) PROVE BookInv'
    BY <1>3, <1>4, <1>14, IdleTask DEF RevokeWrites, ExpireWrites, WriteInvite, Crash
<1>15. ASSUME NEW r \in Requests, AcceptWrites(r) PROVE BookInv'
    <2>1. PICK v \in Users, t \in Tokens : v = task[r].user /\ t = task[r].row.token
        BY <1>0, <1>15, TaskFields DEF AcceptWrites, At, TypeInv, TypeOK, SeenRows
    <2>2. /\ past'.redeemed = [past.redeemed EXCEPT ![t] = @ \cup {v}]
          /\ past'.paid = past.paid /\ past'.abreast = past.abreast
          /\ \A w \in Users : seat'[w] = "ACTIVE" => seat[w] = "ACTIVE" \/ w = v
        BY <1>0, <1>15, <2>1 DEF AcceptWrites, Activate, TypeInv, TypeOK, Histories
    <2>3. /\ v \in past'.redeemed[t]
          /\ \A s \in Tokens : past.redeemed[s] \subseteq past'.redeemed[s]
        BY <1>0, <2>1, <2>2 DEF TypeInv, TypeOK, Histories
    <2>4. Taken' \subseteq Taken
        BY <2>1, <2>2, <2>3 DEF Taken, Active
    <2> QED
        BY <1>0, <1>3, <1>15, <2>2, <2>4, IdleTask DEF AcceptWrites, WriteInvite
<1>16. ASSUME NEW v \in Users, Settle(v) PROVE BookInv'
    <2>1. /\ past'.paid = past.paid \cup {v} /\ past'.redeemed = past.redeemed
          /\ past'.abreast = past.abreast
        BY <1>0, <1>16 DEF Settle, TypeInv, TypeOK, Histories
    <2>2. Taken' \subseteq Taken
        BY <1>0, <1>16, <2>1 DEF Settle, Activate, Taken, Active, TypeInv, TypeOK
    <2>3. Enrolling' \subseteq Enrolling
        BY <1>16 DEF Settle, Enrolling, At
    <2> QED
        BY <1>0, <2>1, <2>2, <2>3, BookShrinks
<1>17. ASSUME NEW t \in Tokens, NEW comp \in BOOLEAN, Invite(t, comp) PROVE BookInv'
    <2>1. /\ past'.abreast = past.abreast /\ past'.paid = past.paid
          /\ past'.redeemed = past.redeemed /\ UNCHANGED <<seat, task>>
        BY <1>0, <1>17 DEF Invite, TypeInv, TypeOK, Histories
    <2>2. Taken' \subseteq Taken /\ Enrolling' \subseteq Enrolling
        BY <2>1 DEF Taken, Active, Enrolling, At
    <2> QED
        BY <1>0, <2>1, <2>2, BookShrinks
<1>18. CASE UNCHANGED <<seat, task, past>>
    <2>1. Enrolling' \subseteq Enrolling
        BY <1>18 DEF Enrolling, At
    <2> QED
        BY <1>0, <1>4, <1>18, <2>1, BookShrinks
<1> QED
    BY <1>1, <1>2, <1>5, <1>6, <1>7, <1>8, <1>9, <1>10, <1>11, <1>12, <1>13, <1>14, <1>15, <1>16,
       <1>17, <1>18 DEF Next, Arrive, HandlerStep, vars, OpenOrClose

\* Seats that were neither paid for nor given exceed the largest capacity by less
\* than the free enrolments ever under way at once, whoever else takes a seat, leaves
\* or changes the capacity meanwhile (enrollments.service.ts:43-45).
THEOREM OverbookingIsLimited == Spec => []OverbookingIsBounded
<1>1. BookInv => OverbookingIsBounded
    <2> SUFFICES ASSUME BookInv, Taken # {}
                 PROVE  \E c \in Capacities : Cardinality(Taken) < c + past.abreast
        BY DEF OverbookingIsBounded, Taken
    <2>1. /\ Cardinality(Taken) \in Nat /\ Cardinality(Enrolling) \in Nat
          /\ past.abreast \in Nat
        BY BookFinite DEF BookInv
    <2>2. PICK c \in Capacities : Cardinality(Taken) + Cardinality(Enrolling) < c + past.abreast
        BY DEF BookInv
    <2> HIDE DEF Taken, Enrolling
    <2>3. c \in Nat
        OBVIOUS
    <2>4. Cardinality(Taken) < c + past.abreast
        BY <2>1, <2>2, <2>3
    <2> QED
        BY <2>4
<1> QED
    BY BookInitial, BookInductive, <1>1, PTL DEF Spec

====
