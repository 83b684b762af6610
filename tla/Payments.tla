---- MODULE Payments ----
(***************************************************************************)
(* Checkout, provider callbacks and reconciliation                         *)
(* (apps/api/src/payments).  Request handlers and the queue workers are    *)
(* processes that interleave at every await: each action below is the code *)
(* between two awaits, around exactly one statement sent to Postgres,      *)
(* Redis or the mobile money operator.  No handler runs in a transaction   *)
(* and no update is guarded by the status it was computed from, so what a  *)
(* process read may be stale by the time it writes.                        *)
(*                                                                         *)
(* A payment row is identified by its idempotency key, which is UNIQUE.    *)
(* Amounts, phone numbers, message texts and the counter pollAttempts      *)
(* (written by reconcile, read by nobody) are left out.                    *)
(***************************************************************************)
EXTENDS PaymentState, Naturals, FiniteSets

CONSTANTS
    Users,          \* buyers
    Classes,        \* priced, published classes
    Recordings,     \* replays sold separately
    Keys,           \* idempotency keys the clients use
    Requests,       \* HTTP requests, checkouts and callbacks
    Instances,      \* API processes; each runs one queue worker
    Capacity,       \* seats in a class
    MaxAttempts,    \* MAX_ATTEMPTS of the reconciliation processor
    Answers,        \* what the operator may finally report of a prompt
    Mishaps,        \* which kinds of failure happen, see MishapKinds
    MaxMishaps,     \* bound on how many of them happen in a behaviour
    Null            \* no value

Items == Classes \cup Recordings

Procs == Requests \cup Instances

(* crash        an API process dies and is restarted                       *)
(* dbError      one statement to Postgres or Redis fails                   *)
(* refused      the operator refuses a collection (any status but 202)     *)
(* unsent       the collection could not be sent (token request failed)    *)
(* lost         the collection was accepted, the response never arrived    *)
(* unreachable  a status poll throws                                       *)
(* unreadable   a status poll is answered with an HTTP error               *)
MishapKinds == {"crash", "dbError", "refused", "unsent", "lost",
                "unreachable", "unreadable"}

ASSUME PaymentsAssumption ==
    /\ Classes \cap Recordings = {}
    /\ Requests \cap Instances = {}
    /\ Capacity \in Nat \ {0}
    /\ MaxAttempts \in Nat \ {0}
    /\ MaxMishaps \in Nat
    /\ Answers \subseteq Terminal
    /\ Mishaps \subseteq MishapKinds
    /\ Null \notin Users \cup Items \cup Keys \cup Instances \cup PaymentStatuses

VARIABLES
    payment,    \* the Payment table, by idempotency key
    events,     \* the PaymentEvent table
    access,     \* access[u][i]: the Enrollment or RecordingAccess row
    queue,      \* queue[j]: how many copies of job j wait in Redis
    task,       \* what each request handler and each worker is doing
    collection, \* the operator's own record of a collection
    prompts,    \* how many prompts a payment put on the buyer's handset
    mishaps     \* failures so far

vars == <<payment, events, access, queue, task, collection, prompts, mishaps>>

stored == <<payment, events, access>>

operator == <<collection, prompts>>

\* Attempts beyond MaxAttempts behave alike: they are counted up to here.
AttemptCap == MaxAttempts + 1

\* A job is retried once after its worker died: BullMQ's maxStalledCount is 1.
Jobs == [pay : Keys, attempt : 1..AttemptCap, stalls : 0..1]

NoPayment == [user |-> Null, item |-> Null, status |-> Null,
              providerRef |-> FALSE, settledAt |-> FALSE]

PaymentRows == [user : Users, item : Items, status : PaymentStatuses,
                providerRef : BOOLEAN, settledAt : BOOLEAN]

Sources == {"CALLBACK", "POLL", "MANUAL"}

EventRows == [pay : Keys, source : Sources, outcome : Outcomes,
              from : PaymentStatuses \cup {Null}, to : PaymentStatuses \cup {Null}]

AccessStates == {"NONE", "PENDING_PAYMENT", "ACTIVE"}

RequestSteps == {"lookup", "target", "seat", "create", "reserve", "collect",
                 "saveRef", "note", "enqueue"}

WorkerSteps == {"find", "poll", "reschedule", "complete"}

EventSteps == {"read", "log", "write", "grant"}

Steps == RequestSteps \cup WorkerSteps \cup EventSteps \cup {"idle", "answered", "failed"}

(* pc      the statement to be sent next                                   *)
(* key     the payment concerned; user, item: the buyer and the target     *)
(* host    the API process a request runs in                               *)
(* attempt, stalls: the job a worker holds                                 *)
(* proposed, seen: recordEvent's proposed status and the status it read    *)
(* giveUp  recordEvent was called to record the timeout                    *)
Idle == [pc |-> "idle", key |-> Null, user |-> Null, item |-> Null, host |-> Null,
         attempt |-> 0, stalls |-> 0, proposed |-> Null, seen |-> Null, giveUp |-> FALSE]

Tasks == [pc : Steps, key : Keys \cup {Null}, user : Users \cup {Null},
          item : Items \cup {Null}, host : Instances \cup {Null},
          attempt : 0..AttemptCap, stalls : 0..1,
          proposed : PaymentStatuses \cup {Null}, seen : PaymentStatuses \cup {Null},
          giveUp : BOOLEAN]

TypeOK ==
    /\ payment \in [Keys -> PaymentRows \cup {NoPayment}]
    /\ events \in SUBSET EventRows
    /\ access \in [Users -> [Items -> AccessStates]]
    /\ queue \in [Jobs -> Nat]
    /\ task \in [Procs -> Tasks]
    /\ collection \in [Keys -> {"NONE", "PENDING"} \cup Terminal]
    /\ prompts \in [Keys -> Nat]
    /\ mishaps \in 0..MaxMishaps

Init ==
    /\ payment = [k \in Keys |-> NoPayment]
    /\ events = {}
    /\ access = [u \in Users |-> [i \in Items |-> "NONE"]]
    /\ queue = [j \in Jobs |-> 0]
    /\ task = [p \in Procs |-> Idle]
    /\ collection = [k \in Keys |-> "NONE"]
    /\ prompts = [k \in Keys |-> 0]
    /\ mishaps = 0

-----------------------------------------------------------------------------
(* Helpers *)

At(p, pc) == task[p].pc = pc

Exists(k) == payment[k] # NoPayment

GoTo(p, pc) == task' = [task EXCEPT ![p].pc = pc]

Mishap(kind) ==
    /\ kind \in Mishaps
    /\ mishaps < MaxMishaps
    /\ mishaps' = mishaps + 1

Job(k, n, s) == [pay |-> k, attempt |-> n, stalls |-> s]

Add(j) == queue' = [queue EXCEPT ![j] = @ + 1]

\* A request is over; a client sees its reply or its failure.
Ended(outcome) == [Idle EXCEPT !.pc = outcome]

\* Mutant of Thrown: no try around reconcile.
ThrownUncaught(p) == IF p \in Requests THEN Ended("failed") ELSE Idle

\* Where an exception takes a process.  A checkout answers 500 and the
\* controller never reaches queue.add.  A worker catches what reconcile threw
\* and reschedules; what it throws outside that try fails the job for good.
Thrown(p) ==
    IF p \in Requests THEN Ended("failed")
    ELSE IF task[p].giveUp \/ task[p].pc = "reschedule" THEN Idle
    ELSE [task[p] EXCEPT !.pc = "reschedule"]

\* What the worker does with the status reconcile returned.
Decided(w, status) ==
    IF isTerminal(status) THEN [task[w] EXCEPT !.pc = "complete"]
    ELSE IF task[w].attempt >= MaxAttempts
         THEN [task[w] EXCEPT !.pc = "read", !.proposed = "TIMEOUT", !.giveUp = TRUE]
    ELSE [task[w] EXCEPT !.pc = "reschedule"]

\* Where a process goes when its call of recordEvent returned `status`.
Returned(p, status) ==
    IF p \in Requests THEN [task[p] EXCEPT !.pc = "enqueue"]
    ELSE IF task[p].giveUp THEN [task[p] EXCEPT !.pc = "complete"]
    ELSE Decided(p, status)

\* Payment_settled_at_matches_status, evaluated by Postgres on every write.
SettledAtMatches(row) == row.settledAt <=> isTerminal(row.status)

-----------------------------------------------------------------------------
(* Checkout: PaymentsController.checkout and PaymentsService.checkout *)

\* A client sends POST /checkout.
ArriveCheckout(r, k, u, i, h) ==
    /\ At(r, "idle")
    /\ task' = [task EXCEPT ![r] = [Idle EXCEPT !.pc = "lookup", !.key = k,
                                        !.user = u, !.item = i, !.host = h]]
    /\ UNCHANGED <<stored, queue, operator, mishaps>>

MayReplay(u, k) == payment[k].user = u

\* A key seen before returns its payment, to its owner only.
LookupKey(r) ==
    LET k == task[r].key IN
    /\ At(r, "lookup")
    /\ task' = [task EXCEPT ![r] =
                    IF ~Exists(k) THEN [@ EXCEPT !.pc = "target"]
                    ELSE IF ~MayReplay(@.user, k) THEN Ended("answered")
                    ELSE [@ EXCEPT !.pc = "enqueue"]]
    /\ UNCHANGED <<stored, queue, operator, mishaps>>

ActiveSeats(c) == Cardinality({u \in Users : access[u][c] = "ACTIVE"})

\* resolveTarget's first read: the class with its number of active seats, or
\* the recording.  A number or a target that is not acceptable for a reason
\* outside this module (phone, operator, class state, host, price) is refused.
ResolveTarget(r) ==
    LET i == task[r].item IN
    /\ At(r, "target")
    /\ \/ task' = [task EXCEPT ![r] = Ended("answered")]
       \/ /\ i \in Classes => ActiveSeats(i) < Capacity
          /\ GoTo(r, "seat")
    /\ UNCHANGED <<stored, queue, operator, mishaps>>

\* resolveTarget's second read: whether the buyer already has what it sells.
CheckSeat(r) ==
    /\ At(r, "seat")
    /\ task' = [task EXCEPT ![r] =
                    IF access[@.user][@.item] = "ACTIVE" THEN Ended("answered")
                    ELSE [@ EXCEPT !.pc = "create"]]
    /\ UNCHANGED <<stored, queue, operator, mishaps>>

\* Mutant of KeyIsFree: the key has no UNIQUE index.
KeyIsFreeUnchecked(k) == TRUE

\* The UNIQUE index on idempotencyKey.
KeyIsFree(k) == ~Exists(k)

\* The row is written before the operator is called.  A key taken since the
\* lookup violates its UNIQUE index, which checkout does not catch.
CreatePayment(r) ==
    LET k == task[r].key IN
    /\ At(r, "create")
    /\ \/ /\ ~KeyIsFree(k)
          /\ task' = [task EXCEPT ![r] = Thrown(r)]
          /\ UNCHANGED payment
       \/ /\ KeyIsFree(k)
          /\ payment' = [payment EXCEPT ![k] =
                 [user |-> task[r].user, item |-> task[r].item, status |-> "INITIATED",
                  providerRef |-> FALSE, settledAt |-> FALSE]]
          /\ GoTo(r, IF task[r].item \in Classes THEN "reserve" ELSE "collect")
    /\ UNCHANGED <<events, access, queue, operator, mishaps>>

\* Mutant of Reserved: the seat is given before it is paid for.
ReservedActive(seat) == "ACTIVE"

\* What the upsert of checkout leaves: an existing row is not touched.
Reserved(seat) == IF seat = "NONE" THEN "PENDING_PAYMENT" ELSE seat

ReserveSeat(r) ==
    LET u == task[r].user
        i == task[r].item
    IN
    /\ At(r, "reserve")
    /\ access' = [access EXCEPT ![u][i] = Reserved(@)]
    /\ GoTo(r, "collect")
    /\ UNCHANGED <<payment, events, queue, operator, mishaps>>

\* Mutant of Accepted: 202 Accepted is taken for a completed payment.
AcceptedAsPaid == "SUCCESSFUL"

\* What collect returns for 202: the prompt is out, nothing is paid yet.
Accepted == "PENDING"

\* adapter.collect: the operator puts a prompt on the handset and the response
\* says PENDING, or refuses; an exception is recorded as FAILED, with no
\* providerRef, whether or not the operator has the request.
Collect(r) ==
    LET k == task[r].key
        Proposes(pc, s) == task' = [task EXCEPT ![r].pc = pc, ![r].proposed = s]
        Prompted == /\ collection' = [collection EXCEPT ![k] = "PENDING"]
                    /\ prompts' = [prompts EXCEPT ![k] = @ + 1]
    IN
    /\ At(r, "collect")
    /\ \/ Prompted /\ Proposes("saveRef", Accepted) /\ UNCHANGED mishaps
       \/ Prompted /\ Proposes("read", "FAILED") /\ Mishap("lost")
       \/ Proposes("read", "FAILED") /\ Mishap("unsent") /\ UNCHANGED operator
       \/ Proposes("saveRef", "FAILED") /\ Mishap("refused") /\ UNCHANGED operator
    /\ UNCHANGED <<stored, queue>>

SaveProviderRef(r) ==
    /\ At(r, "saveRef")
    /\ payment' = [payment EXCEPT ![task[r].key].providerRef = TRUE]
    /\ GoTo(r, "read")
    /\ UNCHANGED <<events, access, queue, operator, mishaps>>

\* Mutant of Enqueue: the reply is sent without queueing a poll.
EnqueueNothing(r) ==
    /\ At(r, "enqueue")
    /\ task' = [task EXCEPT ![r] = Ended("answered")]
    /\ UNCHANGED <<stored, queue, operator, mishaps>>

\* queue.add with attempt 1, by a checkout that returned or by a callback.
Enqueue(r) ==
    /\ At(r, "enqueue")
    /\ Add(Job(task[r].key, 1, 0))
    /\ task' = [task EXCEPT ![r] = Ended("answered")]
    /\ UNCHANGED <<stored, operator, mishaps>>

-----------------------------------------------------------------------------
(* PaymentsService.recordEvent, called by a checkout (MANUAL) and by the      *)
(* worker (POLL): read the row, log the proposal, write the row, grant.       *)

Source(p) == IF p \in Requests THEN "MANUAL" ELSE "POLL"

ReadStatus(p) ==
    /\ At(p, "read")
    /\ task' = [task EXCEPT ![p].pc = "log", ![p].seen = payment[task[p].key].status]
    /\ UNCHANGED <<stored, queue, operator, mishaps>>

\* The PaymentEvent row of a proposal.
EventOf(p, outcome) ==
    [pay |-> task[p].key, source |-> Source(p), outcome |-> outcome,
     from |-> task[p].seen, to |-> task[p].proposed]

\* The outcome is computed from the status read a step ago and logged before
\* anything else changes; only an APPLY goes on to write the row.
LogEvent(p) ==
    LET t == task[p]
        outcome == transition(t.seen, t.proposed)
    IN
    /\ At(p, "log")
    /\ events' = events \cup {EventOf(p, outcome)}
    /\ task' = [task EXCEPT ![p] =
                    IF outcome = "APPLY" THEN [t EXCEPT !.pc = "write"] ELSE Returned(p, t.seen)]
    /\ UNCHANGED <<payment, access, queue, operator, mishaps>>

\* The row that the update of recordEvent would leave: settledAt is only ever
\* set, and only for the status that grants access.
Updated(row, status) ==
    [row EXCEPT !.status = status, !.settledAt = @ \/ grantsAccess(status)]

\* The update does not look at the status it overwrites; Postgres rejects a row
\* whose settledAt does not match its status, and the caller sees the exception.
WriteStatus(p) ==
    LET t == task[p]
        row == Updated(payment[t.key], t.proposed)
    IN
    /\ At(p, "write")
    /\ \/ /\ SettledAtMatches(row)
          /\ payment' = [payment EXCEPT ![t.key] = row]
          /\ task' = [task EXCEPT ![p] =
                 IF grantsAccess(t.proposed) THEN [t EXCEPT !.pc = "grant"]
                 ELSE Returned(p, t.proposed)]
       \/ /\ ~SettledAtMatches(row)
          /\ task' = [task EXCEPT ![p] = Thrown(p)]
          /\ UNCHANGED payment
    /\ UNCHANGED <<events, access, queue, operator, mishaps>>

\* Mutants of Granted: an existing seat is not updated; a status that the
\* Enrollment table does not know.
GrantedIfNew(old) == IF old = "NONE" THEN "ACTIVE" ELSE old
GrantedMisspelt(old) == "SUCCESSFUL"

\* grantAccess's upsert: the seat becomes ACTIVE, or the replay is granted.
Granted(old) == "ACTIVE"

GrantAccess(p) ==
    LET row == payment[task[p].key] IN
    /\ At(p, "grant")
    /\ access' = [access EXCEPT ![row.user][row.item] = Granted(@)]
    /\ task' = [task EXCEPT ![p] = Returned(p, task[p].proposed)]
    /\ UNCHANGED <<payment, events, queue, operator, mishaps>>

-----------------------------------------------------------------------------
(* The callback: PaymentsController.mtnCallback and noteCallback *)

\* The operator, which has a collection for k, calls back: any number of
\* times, at any time.  A reference not yet stored is ignored.
ArriveCallback(r, k, h) ==
    /\ At(r, "idle")
    /\ collection[k] # "NONE"
    /\ task' = [task EXCEPT ![r] =
                    IF payment[k].providerRef
                    THEN [Idle EXCEPT !.pc = "note", !.key = k, !.host = h]
                    ELSE Ended("answered")]
    /\ UNCHANGED <<stored, queue, operator, mishaps>>

\* The callback is recorded as it came and proposes nothing.
NoteCallback(r) ==
    /\ At(r, "note")
    /\ events' = events \cup {[pay |-> task[r].key, source |-> "CALLBACK",
                               outcome |-> "NOOP", from |-> Null, to |-> Null]}
    /\ GoTo(r, "enqueue")
    /\ UNCHANGED <<payment, access, queue, operator, mishaps>>

-----------------------------------------------------------------------------
(* The worker: ReconciliationProcessor.process and PaymentsService.reconcile *)

\* A worker runs one job at a time and takes any whose delay is over.
Take(w, j) ==
    /\ At(w, "idle")
    /\ queue[j] > 0
    /\ queue' = [queue EXCEPT ![j] = @ - 1]
    /\ task' = [task EXCEPT ![w] = [Idle EXCEPT !.pc = "find", !.key = j.pay,
                                        !.attempt = j.attempt, !.stalls = j.stalls]]
    /\ UNCHANGED <<stored, operator, mishaps>>

\* Nothing to ask about a settled payment, or one without a reference.
FindPayment(w) ==
    LET row == payment[task[w].key] IN
    /\ At(w, "find")
    /\ task' = [task EXCEPT ![w] =
                    IF needsReconciliation(row.status) /\ row.providerRef
                    THEN [@ EXCEPT !.pc = "poll"] ELSE Decided(w, row.status)]
    /\ UNCHANGED <<stored, queue, operator, mishaps>>

\* adapter.status: the operator's answer, PENDING when it cannot be read or
\* the operator does not know the collection, or an exception.
Poll(w) ==
    LET answer == collection[task[w].key]
        Proposes(s) == task' = [task EXCEPT ![w].pc = "read", ![w].proposed = s]
    IN
    /\ At(w, "poll")
    /\ \/ /\ Proposes(IF answer = "NONE" THEN "PENDING" ELSE answer)
          /\ UNCHANGED mishaps
       \/ Proposes("PENDING") /\ Mishap("unreadable")
       \/ task' = [task EXCEPT ![w] = Thrown(w)] /\ Mishap("unreachable")
    /\ UNCHANGED <<stored, queue, operator>>

\* scheduleNext: a new job with the next attempt, without looking at MaxAttempts.
ScheduleNext(w) ==
    LET t == task[w]
        next == IF t.attempt < AttemptCap THEN t.attempt + 1 ELSE AttemptCap
    IN
    /\ At(w, "reschedule")
    /\ Add(Job(t.key, next, 0))
    /\ GoTo(w, "complete")
    /\ UNCHANGED <<stored, operator, mishaps>>

\* process returned: the job is removed.
Complete(w) ==
    /\ At(w, "complete")
    /\ task' = [task EXCEPT ![w] = Idle]
    /\ UNCHANGED <<stored, queue, operator, mishaps>>

-----------------------------------------------------------------------------
(* The operator and the failures *)

\* The buyer approves or declines on the handset, or the prompt expires.
Answer(k) ==
    /\ collection[k] = "PENDING"
    /\ \E a \in Answers : collection' = [collection EXCEPT ![k] = a]
    /\ UNCHANGED <<stored, queue, task, prompts, mishaps>>

\* An API process dies with its handlers and its worker.  The job the worker
\* held has stalled: it is queued again the first time, failed the second.
Crash(h) ==
    LET t == task[h] IN
    /\ Mishap("crash")
    /\ \E p \in Procs : (p = h \/ task[p].host = h) /\ task[p].pc # "idle"
    /\ task' = [p \in Procs |-> IF p = h THEN Idle
                                ELSE IF task[p].host = h THEN Ended("failed")
                                ELSE task[p]]
    /\ IF t.pc # "idle" /\ t.stalls = 0
       THEN Add(Job(t.key, t.attempt, 1)) ELSE UNCHANGED queue
    /\ UNCHANGED <<stored, operator>>

DatabaseSteps == {"lookup", "target", "seat", "create", "reserve", "saveRef", "note",
                  "enqueue", "find", "read", "log", "write", "grant", "reschedule"}

\* The statement a process was to send fails.
DbError(p) ==
    /\ task[p].pc \in DatabaseSteps
    /\ Mishap("dbError")
    /\ task' = [task EXCEPT ![p] = Thrown(p)]
    /\ UNCHANGED <<stored, queue, operator>>

-----------------------------------------------------------------------------
CheckoutStep(r) ==
    \/ LookupKey(r)
    \/ ResolveTarget(r)
    \/ CheckSeat(r)
    \/ CreatePayment(r)
    \/ ReserveSeat(r)
    \/ Collect(r)
    \/ SaveProviderRef(r)
    \/ NoteCallback(r)
    \/ Enqueue(r)

EventStep(p) == ReadStatus(p) \/ LogEvent(p) \/ WriteStatus(p) \/ GrantAccess(p)

WorkerStep(w) == FindPayment(w) \/ Poll(w) \/ ScheduleNext(w) \/ Complete(w)

Next ==
    \/ \E r \in Requests, h \in Instances, k \in Keys :
           \/ ArriveCallback(r, k, h)
           \/ \E u \in Users, i \in Items : ArriveCheckout(r, k, u, i, h)
    \/ \E r \in Requests : CheckoutStep(r)
    \/ \E p \in Procs : EventStep(p) \/ DbError(p)
    \/ \E w \in Instances : WorkerStep(w) \/ Crash(w) \/ \E j \in Jobs : Take(w, j)
    \/ \E k \in Keys : Answer(k)

Spec == Init /\ [][Next]_vars

\* Handlers and workers that have started go on; a job of every payment that
\* always has one is taken in the end, since BullMQ serves ready jobs in order.
\* Nothing is assumed of clients, of the buyer's answer, or of callbacks.
Fairness ==
    /\ \A r \in Requests : WF_vars(CheckoutStep(r) \/ EventStep(r))
    /\ \A w \in Instances : WF_vars(WorkerStep(w) \/ EventStep(w))
    /\ \A k \in Keys : SF_vars(\E w \in Instances, j \in Jobs : j.pay = k /\ Take(w, j))

FairSpec == Spec /\ Fairness

-----------------------------------------------------------------------------
(* Safety *)

\* A key reaches the operator at most once, however many requests carry it and
\* wherever they interleave or die (payments.service.ts:42-44).
OnePromptPerKey == \A k \in Keys : prompts[k] <= 1

\* A payment is SUCCESSFUL only if the operator has its money: no callback, no
\* unreadable answer and no replayed request settles it
\* (payments.service.ts:141-146).
SettledByOperator ==
    \A k \in Keys : payment[k].status = "SUCCESSFUL" => collection[k] = "SUCCESSFUL"

\* Whoever has an ACTIVE seat or a replay has paid for it, although the grant is
\* a separate step that works from a row read earlier (payments.service.ts:89).
AccessIsPaid ==
    \A u \in Users, i \in Items : access[u][i] = "ACTIVE" =>
        \E k \in Keys : /\ payment[k].user = u /\ payment[k].item = i
                        /\ payment[k].settledAt /\ collection[k] = "SUCCESSFUL"

\* A collection that the operator has is known by its reference once nobody handles
\* its checkout, so that a request that times out mid-flight is "still traceable
\* rather than orphaned" (mtn.provider.ts:30-33).
CollectionIsTraceable ==
    \A k \in Keys : collection[k] # "NONE" =>
        payment[k].providerRef \/ \E r \in Requests : task[r].key = k

-----------------------------------------------------------------------------
(* Liveness, under FairSpec *)

Settled(k) == payment[k].status = "SUCCESSFUL"

Scheduled(k) == \E j \in Jobs : j.pay = k /\ queue[j] > 0

\* Every payment row is found by reconciliation: a worker takes a job for it, over
\* failures of the operator, of the worker and of its statements, as long as no
\* request died or was answered with an error (payments.service.ts:70-71).
ReachesReconciliation ==
    \A k \in Keys : <>Exists(k) => <>(\/ \E w \in Instances : task[w].key = k
                                     \/ \E r \in Requests : At(r, "failed"))

\* The same of a request that dies as well: "a request that dies mid-flight still
\* leaves something for reconciliation to find" (payments.service.ts:70-71).
DyingRequestIsFound ==
    \A k \in Keys : <>Exists(k) => <>(\E w \in Instances : task[w].key = k)

Admitted(k) == access[payment[k].user][payment[k].item] = "ACTIVE"

\* A payment admits its buyer when it settles, over whatever has failed before: only
\* what fails while it settles, or later, may keep the buyer out
\* (payment-state.ts:96-97).
SettledIsGranted ==
    \A k \in Keys, n \in 0..MaxMishaps :
        [](~Settled(k) /\ [](mishaps = n) => [](Settled(k) => <>(Settled(k) /\ Admitted(k))))

\* The same whatever fails: "true when the payment has settled and the buyer should be
\* granted access" (payment-state.ts:96).
SettledIsAdmitted == \A k \in Keys : Settled(k) ~> Settled(k) /\ Admitted(k)

\* A payment whose reference is stored and whose buyer approved while a poll of
\* it was scheduled is settled, over crashes, failed statements and an operator
\* that is briefly out of reach (reconciliation.processor.ts:43).
ApprovedIsSettled ==
    \A k \in Keys :
        (collection[k] = "SUCCESSFUL" /\ payment[k].providerRef /\ Scheduled(k)) ~> Settled(k)

\* Polling stops: every payment is in the end out of the queue
\* (payment-state.ts:101-104).
ScheduleIsFinite ==
    \A k \in Keys : <>[](~Scheduled(k) /\ \A w \in Instances : task[w].key # k)

\* "Terminal states are final" (payment-state.ts:14-15): a settled payment stays so, with
\* any number of API processes.
SettledIsFinal == [][\A k \in Keys : Settled(k) => Settled(k)']_vars

====
