---- MODULE PaymentsProofs ----
(***************************************************************************)
(* What holds of Payments for all buyers, keys, requests, API processes,   *)
(* attempts and failures.                                                  *)
(*                                                                         *)
(* TypeInv says what a process may rely on in the middle of a handler: the *)
(* row it works on exists, and what it is about to write is a status.  It  *)
(* is what makes TypeOK inductive; the safety invariants build on it.      *)
(***************************************************************************)
EXTENDS Payments, TLAPS

-----------------------------------------------------------------------------
(* The inductive strengthening of TypeOK *)

Opening == {"lookup", "target", "seat", "create"}

Working == (RequestSteps \ Opening) \cup WorkerSteps \cup EventSteps

\* What a task may rely on, given the Payment table.
TaskOK(t, rows) ==
    /\ t.pc \in Opening => t.key \in Keys /\ t.user \in Users /\ t.item \in Items
    /\ t.pc \in Working => t.key \in Keys /\ rows[t.key] \in PaymentRows
    /\ t.pc \in EventSteps \cup {"saveRef"} => t.proposed \in PaymentStatuses
    /\ t.pc \in {"log", "write", "grant"} => t.seen \in PaymentStatuses
    /\ t.pc \in {"answered", "failed"} => t.attempt = 0

QueueOK == \A j \in Jobs : queue[j] > 0 => payment[j.pay] \in PaymentRows

TypeInv ==
    /\ TypeOK
    /\ \A p \in Procs : TaskOK(task[p], payment)
    /\ \A p \in Procs : task[p].pc \in Opening => p \in Requests
    /\ QueueOK

\* TypeOK of all but the payments, the queue and the tasks.
RestTyped ==
    /\ events \in SUBSET EventRows
    /\ access \in [Users -> [Items -> AccessStates]]
    /\ collection \in [Keys -> {"NONE", "PENDING"} \cup Terminal]
    /\ prompts \in [Keys -> Nat]
    /\ mishaps \in 0..MaxMishaps

\* Rows are never deleted.
Grows(old, new) ==
    /\ new \in [Keys -> PaymentRows \cup {NoPayment}]
    /\ \A k \in Keys : old[k] \in PaymentRows => new[k] \in PaymentRows

-----------------------------------------------------------------------------
(* Facts about the data *)

LEMMA RowExists ==
  ASSUME NEW row \in PaymentRows \cup {NoPayment}
  PROVE  row # NoPayment <=> row \in PaymentRows
  <1>1. NoPayment \notin PaymentRows
    BY PaymentsAssumption DEF NoPayment, PaymentRows
  <1> QED
    BY <1>1

\* A task with only its program counter changed is a task.
LEMMA StepIsTask ==
  ASSUME NEW t \in Tasks, NEW pc \in Steps
  PROVE  [t EXCEPT !.pc = pc] \in Tasks
  BY DEF Tasks

LEMMA IdleIsTask == Idle \in Tasks /\ \A rows : TaskOK(Idle, rows)
  <1>1. Idle \in Tasks
    BY PaymentsAssumption DEF Idle, Tasks, Steps, AttemptCap
  <1>2. \A rows : TaskOK(Idle, rows)
    BY DEF Idle, TaskOK, Opening, Working, RequestSteps, WorkerSteps, EventSteps
  <1> QED
    BY <1>1, <1>2

LEMMA EndedIsTask ==
  ASSUME NEW outcome \in {"answered", "failed"}, NEW rows
  PROVE  Ended(outcome) \in Tasks /\ TaskOK(Ended(outcome), rows)
  <1>1. Ended(outcome) \in Tasks
    BY IdleIsTask, StepIsTask DEF Ended, Steps
  <1>2. Ended(outcome).pc = outcome /\ Ended(outcome).attempt = 0
    BY DEF Ended, Idle
  <1> QED
    BY <1>1, <1>2 DEF TaskOK, Opening, Working, RequestSteps, WorkerSteps, EventSteps

\* A task on an existing payment may go on with any step that needs no status.
LEMMA StepIsOK ==
  ASSUME NEW t \in Tasks, NEW rows, NEW pc \in {"reserve", "collect", "note", "enqueue"} \cup WorkerSteps,
         t.key \in Keys, rows[t.key] \in PaymentRows
  PROVE  /\ [t EXCEPT !.pc = pc] \in Tasks
         /\ TaskOK([t EXCEPT !.pc = pc], rows)
  <1> DEFINE u == [t EXCEPT !.pc = pc]
  <1>1. u \in Tasks
    BY StepIsTask DEF Steps, RequestSteps
  <1>2. u.pc = pc /\ u.key = t.key
    BY DEF Tasks
  <1> QED
    BY <1>1, <1>2 DEF TaskOK, Opening, EventSteps, WorkerSteps

LEMMA ThrownIsTask ==
  ASSUME TypeInv, NEW p \in Procs, task[p].pc \in Working \cup Opening
  PROVE  Thrown(p) \in Tasks /\ TaskOK(Thrown(p), payment)
  <1>1. CASE p \in Requests
    BY <1>1, EndedIsTask DEF Thrown
  <1>2. CASE p \notin Requests /\ (task[p].giveUp \/ task[p].pc = "reschedule")
    BY <1>2, IdleIsTask DEF Thrown
  <1>3. CASE p \notin Requests /\ ~(task[p].giveUp \/ task[p].pc = "reschedule")
    <2>1. task[p] \in Tasks /\ task[p].key \in Keys /\ payment[task[p].key] \in PaymentRows
      BY <1>3 DEF TypeInv, TypeOK, TaskOK
    <2> QED
      BY <1>3, <2>1, StepIsOK DEF Thrown, WorkerSteps
  <1> QED
    BY <1>1, <1>2, <1>3

LEMMA DecidedIsTask ==
  ASSUME NEW w \in Procs, NEW rows, NEW status, task[w] \in Tasks,
         task[w].key \in Keys, rows[task[w].key] \in PaymentRows
  PROVE  Decided(w, status) \in Tasks /\ TaskOK(Decided(w, status), rows)
  <1>1. CASE ~isTerminal(status) /\ task[w].attempt >= MaxAttempts
    <2> DEFINE u == [task[w] EXCEPT !.pc = "read", !.proposed = "TIMEOUT", !.giveUp = TRUE]
    <2>1. u \in Tasks
      BY DEF Tasks, Steps, EventSteps, PaymentStatuses
    <2>2. u.pc = "read" /\ u.key = task[w].key /\ u.proposed = "TIMEOUT"
      BY DEF Tasks
    <2>3. TaskOK(u, rows)
      BY <2>2 DEF TaskOK, Opening, PaymentStatuses
    <2> QED
      BY <1>1, <2>1, <2>3 DEF Decided
  <1>2. CASE isTerminal(status) \/ ~(task[w].attempt >= MaxAttempts)
    BY <1>2, StepIsOK DEF Decided, WorkerSteps
  <1> QED
    BY <1>1, <1>2

LEMMA ReturnedIsTask ==
  ASSUME NEW p \in Procs, NEW rows, NEW status, task[p] \in Tasks,
         task[p].key \in Keys, rows[task[p].key] \in PaymentRows
  PROVE  Returned(p, status) \in Tasks /\ TaskOK(Returned(p, status), rows)
  BY DecidedIsTask, StepIsOK DEF Returned, WorkerSteps

LEMMA ReturnedNotOpening ==
  ASSUME NEW p \in Procs, NEW status, task[p] \in Tasks
  PROVE  Returned(p, status).pc \notin Opening
  BY DEF Returned, Decided, Tasks, Opening

LEMMA ThrownNotOpening ==
  ASSUME NEW p \in Procs, task[p] \in Tasks
  PROVE  Thrown(p).pc \notin Opening
  BY DEF Thrown, Ended, Idle, Tasks, Opening

-----------------------------------------------------------------------------
(* Steps that change one task, and steps that change none *)

LEMMA TaskStep ==
  ASSUME TypeInv, NEW p \in Procs, NEW t \in Tasks, TaskOK(t, payment'),
         t.pc \in Opening => p \in Requests,
         task' = [task EXCEPT ![p] = t], Grows(payment, payment')
  PROVE  /\ task' \in [Procs -> Tasks]
         /\ \A q \in Procs : TaskOK(task'[q], payment')
         /\ \A q \in Procs : task'[q].pc \in Opening => q \in Requests
  <1>1. task \in [Procs -> Tasks] /\ payment \in [Keys -> PaymentRows \cup {NoPayment}]
    BY DEF TypeInv, TypeOK
  <1>2. ASSUME NEW q \in Procs
        PROVE  TaskOK(task[q], payment')
    BY <1>1, <1>2 DEF TypeInv, TaskOK, Grows
  <1> QED
    BY <1>1, <1>2 DEF TypeInv

LEMMA SamePaymentGrows ==
  ASSUME TypeInv, UNCHANGED payment
  PROVE  Grows(payment, payment')
  BY DEF TypeInv, TypeOK, Grows

LEMMA QueueSame ==
  ASSUME TypeInv, UNCHANGED queue, Grows(payment, payment')
  PROVE  queue' \in [Jobs -> Nat] /\ QueueOK'
  <1>1. \A i \in Jobs : i.pay \in Keys
    BY DEF Jobs
  <1> QED
    BY <1>1 DEF TypeInv, TypeOK, QueueOK, Grows

LEMMA QueueGrows ==
  ASSUME TypeInv, NEW j, j \in Jobs => payment[j.pay] \in PaymentRows,
         Add(j), Grows(payment, payment')
  PROVE  queue' \in [Jobs -> Nat] /\ QueueOK'
  <1>1. queue \in [Jobs -> Nat] /\ QueueOK
    BY DEF TypeInv, TypeOK
  <1>2. \A i \in Jobs : i.pay \in Keys
    BY DEF Jobs
  <1>3. queue' = [i \in Jobs |-> IF i = j THEN queue[i] + 1 ELSE queue[i]]
    BY <1>1 DEF Add
  <1>4. queue' \in [Jobs -> Nat]
    BY <1>1, <1>3
  <1>5. ASSUME NEW i \in Jobs, queue'[i] > 0
        PROVE  payment'[i.pay] \in PaymentRows
    BY <1>1, <1>2, <1>3, <1>5 DEF QueueOK, Grows
  <1> QED
    BY <1>4, <1>5 DEF QueueOK

-----------------------------------------------------------------------------
(* Type correctness *)

LEMMA TypeInit == Init => TypeInv
  <1> SUFFICES ASSUME Init PROVE TypeInv
    OBVIOUS
  <1>1. task \in [Procs -> Tasks] /\ \A p \in Procs : TaskOK(task[p], payment)
    BY IdleIsTask DEF Init
  <1>2. \A p \in Procs : task[p].pc = "idle"
    BY DEF Init, Idle
  <1>3. TypeOK
    BY <1>1, PaymentsAssumption DEF Init, TypeOK, AccessStates
  <1>4. QueueOK
    BY DEF Init, QueueOK
  <1> QED
    BY <1>1, <1>2, <1>3, <1>4 DEF TypeInv, Opening

\* A step of one process that leaves the tables and the queue alone.
LEMMA TypeTaskOnly ==
  ASSUME TypeInv, NEW p \in Procs, NEW t \in Tasks, TaskOK(t, payment),
         t.pc \in Opening => p \in Requests,
         task' = [task EXCEPT ![p] = t], UNCHANGED <<stored, queue, operator>>,
         mishaps' \in 0..MaxMishaps
  PROVE  TypeInv'
  <1> USE DEF stored, operator
  <1>1. Grows(payment, payment')
    BY SamePaymentGrows
  <1>2. TaskOK(t, payment')
    OBVIOUS
  <1>3. /\ task' \in [Procs -> Tasks]
        /\ \A q \in Procs : TaskOK(task'[q], payment')
        /\ \A q \in Procs : task'[q].pc \in Opening => q \in Requests
    BY <1>1, <1>2, TaskStep
  <1>4. QueueOK'
    BY DEF TypeInv, QueueOK
  <1>5. TypeOK'
    BY <1>3 DEF TypeInv, TypeOK
  <1> QED
    BY <1>3, <1>4, <1>5 DEF TypeInv

\* A step of one process that may write the tables and queue one job.
LEMMA TypeRows ==
  ASSUME TypeInv, NEW p \in Procs, NEW t \in Tasks, TaskOK(t, payment'),
         t.pc \in Opening => p \in Requests,
         task' = [task EXCEPT ![p] = t], Grows(payment, payment'),
         UNCHANGED queue \/ \E j : Add(j) /\ (j \in Jobs => payment[j.pay] \in PaymentRows),
         RestTyped'
  PROVE  TypeInv'
  <1>1. /\ task' \in [Procs -> Tasks]
        /\ \A q \in Procs : TaskOK(task'[q], payment')
        /\ \A q \in Procs : task'[q].pc \in Opening => q \in Requests
    BY TaskStep
  <1>2. queue' \in [Jobs -> Nat] /\ QueueOK'
    <2>1. CASE UNCHANGED queue
      BY <2>1, QueueSame
    <2>2. CASE \E j : Add(j) /\ (j \in Jobs => payment[j.pay] \in PaymentRows)
      BY <2>2, QueueGrows
    <2> QED
      BY <2>1, <2>2
  <1>3. TypeOK'
    BY <1>1, <1>2 DEF TypeOK, RestTyped, Grows
  <1> QED
    BY <1>1, <1>2, <1>3 DEF TypeInv

LEMMA MishapIsTyped ==
  ASSUME TypeInv, NEW kind, Mishap(kind)
  PROVE  mishaps' \in 0..MaxMishaps
  BY PaymentsAssumption DEF TypeInv, TypeOK, Mishap

LEMMA TypeArrive ==
  ASSUME TypeInv, NEW r \in Requests, NEW h \in Instances, NEW k \in Keys,
         \/ ArriveCallback(r, k, h)
         \/ \E u \in Users, i \in Items : ArriveCheckout(r, k, u, i, h)
  PROVE  TypeInv'
  <1>0. r \in Procs /\ mishaps' = mishaps /\ mishaps \in 0..MaxMishaps
    BY DEF Procs, ArriveCallback, ArriveCheckout, TypeInv, TypeOK
  <1>1. CASE ArriveCallback(r, k, h)
    <2> DEFINE t == IF payment[k].providerRef
                    THEN [Idle EXCEPT !.pc = "note", !.key = k, !.host = h]
                    ELSE Ended("answered")
    <2>1. ASSUME payment[k].providerRef
          PROVE  payment[k] \in PaymentRows
      <3>1. payment[k] \in PaymentRows \cup {NoPayment}
        BY DEF TypeInv, TypeOK
      <3>2. NoPayment.providerRef = FALSE
        BY DEF NoPayment
      <3> QED
        BY <2>1, <3>1, <3>2
    <2>2. ASSUME payment[k].providerRef
          PROVE  t \in Tasks /\ TaskOK(t, payment) /\ t.pc \notin Opening
      <3> DEFINE u == [Idle EXCEPT !.pc = "note", !.key = k, !.host = h]
      <3>1. u \in Tasks
        BY IdleIsTask DEF Tasks, Steps, RequestSteps
      <3>2. u.pc = "note" /\ u.key = k
        BY DEF Idle
      <3>3. TaskOK(u, payment)
        BY <3>2, <2>1, <2>2 DEF TaskOK, Opening, EventSteps
      <3> QED
        BY <2>2, <3>1, <3>2, <3>3 DEF Opening
    <2>3. ASSUME ~payment[k].providerRef
          PROVE  t \in Tasks /\ TaskOK(t, payment) /\ t.pc \notin Opening
      BY <2>3, EndedIsTask DEF Ended, Idle, Opening
    <2>4. task' = [task EXCEPT ![r] = t]
      BY <1>1 DEF ArriveCallback
    <2> HIDE DEF t
    <2> QED
      BY <1>0, <1>1, <2>2, <2>3, <2>4, TypeTaskOnly DEF ArriveCallback
  <1>2. ASSUME NEW u \in Users, NEW i \in Items, ArriveCheckout(r, k, u, i, h)
        PROVE  TypeInv'
    <2> DEFINE t == [Idle EXCEPT !.pc = "lookup", !.key = k, !.user = u, !.item = i, !.host = h]
    <2>1. t \in Tasks
      BY IdleIsTask DEF Tasks, Steps, RequestSteps
    <2>2. t.pc = "lookup" /\ t.key = k /\ t.user = u /\ t.item = i
      BY DEF Idle
    <2>3. TaskOK(t, payment)
      BY <2>2 DEF TaskOK, Opening, Working, RequestSteps, WorkerSteps, EventSteps
    <2>4. task' = [task EXCEPT ![r] = t]
      BY <1>2 DEF ArriveCheckout
    <2> HIDE DEF t
    <2> QED
      BY <1>0, <1>2, <2>1, <2>3, <2>4, TypeTaskOnly DEF ArriveCheckout
  <1> QED
    BY <1>1, <1>2

LEMMA TypeCheckout ==
  ASSUME TypeInv, NEW r \in Requests, CheckoutStep(r)
  PROVE  TypeInv'
  <1> DEFINE t == task[r]
             k == t.key
  <1>0. /\ r \in Procs /\ t \in Tasks /\ TaskOK(t, payment)
        /\ mishaps \in 0..MaxMishaps
    BY DEF TypeInv, TypeOK, Procs
  <1>1. CASE LookupKey(r)
    <2>1. k \in Keys /\ t.user \in Users /\ t.item \in Items
      BY <1>0, <1>1 DEF LookupKey, At, TaskOK, Opening
    <2>2. payment[k] \in PaymentRows \cup {NoPayment}
      BY <2>1 DEF TypeInv, TypeOK
    <2>3. CASE ~Exists(k)
      <3> DEFINE u == [t EXCEPT !.pc = "target"]
      <3>1. u \in Tasks /\ TaskOK(u, payment)
        <4>1. u \in Tasks
          BY <1>0, StepIsTask DEF Steps, RequestSteps
        <4>2. u.pc = "target" /\ u.key = k /\ u.user = t.user /\ u.item = t.item
          BY <1>0 DEF Tasks
        <4> QED
          BY <2>1, <4>1, <4>2
          DEF TaskOK, Opening, Working, RequestSteps, WorkerSteps, EventSteps
      <3>2. task' = [task EXCEPT ![r] = u]
        BY <1>1, <2>3 DEF LookupKey
      <3> QED
        BY <1>0, <1>1, <3>1, <3>2, TypeTaskOnly DEF LookupKey
    <2>4. CASE Exists(k) /\ ~MayReplay(t.user, k)
      <3>1. task' = [task EXCEPT ![r] = Ended("answered")]
        BY <1>1, <2>4 DEF LookupKey
      <3> QED
        BY <1>0, <1>1, <3>1, EndedIsTask, TypeTaskOnly DEF LookupKey
    <2>5. CASE Exists(k) /\ MayReplay(t.user, k)
      <3>1. payment[k] \in PaymentRows
        BY <2>2, <2>5, RowExists DEF Exists
      <3>2. task' = [task EXCEPT ![r] = [t EXCEPT !.pc = "enqueue"]]
        BY <1>1, <2>5 DEF LookupKey
      <3>3. [t EXCEPT !.pc = "enqueue"] \in Tasks /\ TaskOK([t EXCEPT !.pc = "enqueue"], payment)
        BY <1>0, <2>1, <3>1, StepIsOK
      <3> QED
        BY <1>0, <1>1, <3>2, <3>3, TypeTaskOnly DEF LookupKey
    <2> QED
      BY <2>3, <2>4, <2>5
  <1>2. CASE ResolveTarget(r) \/ CheckSeat(r)
    <2>1. k \in Keys /\ t.user \in Users /\ t.item \in Items
      BY <1>0, <1>2 DEF ResolveTarget, CheckSeat, At, TaskOK, Opening
    <2>2. ASSUME NEW pc \in {"seat", "create"}
          PROVE  [t EXCEPT !.pc = pc] \in Tasks /\ TaskOK([t EXCEPT !.pc = pc], payment)
      <3> DEFINE u == [t EXCEPT !.pc = pc]
      <3>1. u \in Tasks
        BY <1>0, <2>2, StepIsTask DEF Steps, RequestSteps
      <3>2. u.pc = pc /\ u.key = k /\ u.user = t.user /\ u.item = t.item
        BY <1>0 DEF Tasks
      <3> QED
        BY <2>1, <3>1, <3>2
        DEF TaskOK, Opening, Working, RequestSteps, WorkerSteps, EventSteps
    <2>3. \/ task' = [task EXCEPT ![r] = Ended("answered")]
          \/ task' = [task EXCEPT ![r] = [t EXCEPT !.pc = "seat"]]
          \/ task' = [task EXCEPT ![r] = [t EXCEPT !.pc = "create"]]
      BY <1>0, <1>2 DEF ResolveTarget, CheckSeat, GoTo, TypeInv, TypeOK
    <2>4. UNCHANGED <<stored, queue, operator>> /\ mishaps' \in 0..MaxMishaps
      BY <1>0, <1>2 DEF ResolveTarget, CheckSeat
    <2>5. PICK u \in Tasks : TaskOK(u, payment) /\ task' = [task EXCEPT ![r] = u]
      BY <2>2, <2>3, EndedIsTask
    <2> QED
      BY <1>0, <2>4, <2>5, TypeTaskOnly
  <1>3. CASE CreatePayment(r)
    <2>1. k \in Keys /\ t.user \in Users /\ t.item \in Items
      BY <1>0, <1>3 DEF CreatePayment, At, TaskOK, Opening
    <2>2. CASE ~KeyIsFree(k)
      <3>1. Thrown(r) \in Tasks /\ TaskOK(Thrown(r), payment) /\ Thrown(r).pc \notin Opening
        BY EndedIsTask DEF Thrown, Ended, Idle, Opening
      <3>2. /\ task' = [task EXCEPT ![r] = Thrown(r)]
            /\ UNCHANGED <<stored, queue, operator>> /\ mishaps' = mishaps
        BY <1>3, <2>2 DEF CreatePayment, stored, operator
      <3> QED
        BY <1>0, <3>1, <3>2, TypeTaskOnly
    <2>3. CASE KeyIsFree(k)
      <3> DEFINE row == [user |-> t.user, item |-> t.item, status |-> "INITIATED",
                         providerRef |-> FALSE, settledAt |-> FALSE]
                 pc == IF t.item \in Classes THEN "reserve" ELSE "collect"
      <3>1. row \in PaymentRows
        BY <2>1 DEF PaymentRows, PaymentStatuses
      <3>2. /\ payment' = [payment EXCEPT ![k] = row]
            /\ task' = [task EXCEPT ![r].pc = pc]
            /\ UNCHANGED <<events, access, queue, operator, mishaps>>
        BY <1>3, <2>3 DEF CreatePayment, GoTo
      <3>3. /\ payment \in [Keys -> PaymentRows \cup {NoPayment}]
            /\ task \in [Procs -> Tasks]
        BY DEF TypeInv, TypeOK
      <3>4. Grows(payment, payment') /\ payment'[k] \in PaymentRows
        BY <2>1, <3>1, <3>2, <3>3 DEF Grows
      <3>5. [t EXCEPT !.pc = pc] \in Tasks /\ TaskOK([t EXCEPT !.pc = pc], payment')
        BY <1>0, <2>1, <3>4, StepIsOK
      <3>6. [t EXCEPT !.pc = pc].pc \notin Opening
        BY <1>0 DEF Tasks, Opening
      <3>7. task' = [task EXCEPT ![r] = [t EXCEPT !.pc = pc]]
        BY <1>0, <3>2, <3>3
      <3>8. RestTyped'
        BY <3>2 DEF operator, RestTyped, TypeInv, TypeOK
      <3> QED
        BY <1>0, <3>2, <3>4, <3>5, <3>6, <3>7, <3>8, TypeRows
    <2> QED
      BY <2>2, <2>3
  <1>4. ASSUME At(r, "reserve") \/ At(r, "collect") \/ At(r, "saveRef")
               \/ At(r, "note") \/ At(r, "enqueue")
        PROVE  k \in Keys /\ payment[k] \in PaymentRows
    BY <1>0, <1>4 DEF At, TaskOK, Working, RequestSteps, Opening
  <1>5. CASE ReserveSeat(r)
    <2>1. /\ k \in Keys /\ payment[k] \in PaymentRows
          /\ task' = [task EXCEPT ![r] = [t EXCEPT !.pc = "collect"]]
          /\ access' = [access EXCEPT ![t.user][t.item] = Reserved(@)]
          /\ UNCHANGED <<payment, events, queue, operator, mishaps>>
      BY <1>0, <1>4, <1>5 DEF ReserveSeat, GoTo, TypeInv, TypeOK
    <2>2. /\ [t EXCEPT !.pc = "collect"] \in Tasks
          /\ TaskOK([t EXCEPT !.pc = "collect"], payment')
          /\ [t EXCEPT !.pc = "collect"].pc \notin Opening
      BY <1>0, <2>1, StepIsOK DEF Tasks, Opening
    <2>3. access' \in [Users -> [Items -> AccessStates]]
      BY <2>1 DEF TypeInv, TypeOK, Reserved, AccessStates
    <2>4. RestTyped'
      BY <2>1, <2>3 DEF operator, RestTyped, TypeInv, TypeOK
    <2> QED
      BY <1>0, <2>1, <2>2, <2>4, SamePaymentGrows, TypeRows
  <1>6. CASE Collect(r)
    <2>1. k \in Keys /\ payment[k] \in PaymentRows
      BY <1>4, <1>6 DEF Collect
    <2>2. PICK pc \in {"saveRef", "read"}, s \in {"PENDING", "FAILED"} :
             task' = [task EXCEPT ![r] = [t EXCEPT !.pc = pc, !.proposed = s]]
      BY <1>0, <1>6 DEF Collect, Accepted, TypeInv, TypeOK
    <2> DEFINE u == [t EXCEPT !.pc = pc, !.proposed = s]
    <2>3. u \in Tasks
      BY <1>0 DEF Tasks, Steps, RequestSteps, EventSteps, PaymentStatuses
    <2>4. u.pc = pc /\ u.key = k /\ u.proposed = s
      BY <1>0 DEF Tasks
    <2>5. UNCHANGED <<payment, events, access, queue>>
      BY <1>6 DEF Collect, stored
    <2>6. TaskOK(u, payment') /\ u.pc \notin Opening
      BY <2>1, <2>4, <2>5 DEF TaskOK, Opening, PaymentStatuses
    <2>7. /\ collection' \in [Keys -> {"NONE", "PENDING"} \cup Terminal]
          /\ prompts' \in [Keys -> Nat]
      BY <1>6, <2>1 DEF Collect, operator, TypeInv, TypeOK
    <2>8. mishaps' \in 0..MaxMishaps
      BY <1>0, <1>6, MishapIsTyped DEF Collect
    <2>9. RestTyped'
      BY <2>5, <2>7, <2>8 DEF RestTyped, TypeInv, TypeOK
    <2> HIDE DEF u
    <2> QED
      BY <1>0, <2>2, <2>3, <2>5, <2>6, <2>9, SamePaymentGrows, TypeRows DEF u
  <1>7. CASE SaveProviderRef(r)
    <2>1. /\ k \in Keys /\ payment[k] \in PaymentRows /\ t.proposed \in PaymentStatuses
          /\ task' = [task EXCEPT ![r] = [t EXCEPT !.pc = "read"]]
          /\ payment' = [payment EXCEPT ![k].providerRef = TRUE]
          /\ UNCHANGED <<events, access, queue, operator, mishaps>>
      BY <1>0, <1>4, <1>7 DEF SaveProviderRef, GoTo, At, TaskOK, TypeInv, TypeOK
    <2>2. [payment[k] EXCEPT !.providerRef = TRUE] \in PaymentRows
      BY <2>1 DEF PaymentRows
    <2>3. Grows(payment, payment') /\ payment'[k] \in PaymentRows
      BY <2>1, <2>2 DEF Grows, TypeInv, TypeOK
    <2>4. [t EXCEPT !.pc = "read"] \in Tasks
      BY <1>0, StepIsTask DEF Steps, EventSteps
    <2>5. [t EXCEPT !.pc = "read"].pc = "read" /\ [t EXCEPT !.pc = "read"].key = k
            /\ [t EXCEPT !.pc = "read"].proposed = t.proposed
      BY <1>0 DEF Tasks
    <2>6. TaskOK([t EXCEPT !.pc = "read"], payment')
      BY <2>1, <2>3, <2>5 DEF TaskOK, Opening
    <2>7. RestTyped'
      BY <2>1 DEF operator, RestTyped, TypeInv, TypeOK
    <2> QED
      BY <1>0, <2>1, <2>3, <2>4, <2>5, <2>6, <2>7, TypeRows DEF Opening
  <1>8. CASE NoteCallback(r)
    <2>1. /\ k \in Keys /\ payment[k] \in PaymentRows
          /\ task' = [task EXCEPT ![r] = [t EXCEPT !.pc = "enqueue"]]
          /\ events' = events \cup {[pay |-> k, source |-> "CALLBACK", outcome |-> "NOOP",
                                     from |-> Null, to |-> Null]}
          /\ UNCHANGED <<payment, access, queue, operator, mishaps>>
      BY <1>0, <1>4, <1>8 DEF NoteCallback, GoTo, TypeInv, TypeOK
    <2>2. /\ [t EXCEPT !.pc = "enqueue"] \in Tasks
          /\ TaskOK([t EXCEPT !.pc = "enqueue"], payment')
          /\ [t EXCEPT !.pc = "enqueue"].pc \notin Opening
      BY <1>0, <2>1, StepIsOK DEF Tasks, Opening
    <2>3. events' \in SUBSET EventRows
      BY <2>1 DEF TypeInv, TypeOK, EventRows, Sources, Outcomes
    <2>4. RestTyped'
      BY <2>1, <2>3 DEF operator, RestTyped, TypeInv, TypeOK
    <2> QED
      BY <1>0, <2>1, <2>2, <2>4, SamePaymentGrows, TypeRows
  <1>9. CASE Enqueue(r)
    <2>1. /\ k \in Keys /\ payment[k] \in PaymentRows
          /\ task' = [task EXCEPT ![r] = Ended("answered")]
          /\ Add(Job(k, 1, 0))
          /\ UNCHANGED <<stored, operator, mishaps>>
      BY <1>4, <1>9 DEF Enqueue
    <2>2. Job(k, 1, 0).pay = k
      BY DEF Job
    <2>3. /\ Ended("answered") \in Tasks /\ TaskOK(Ended("answered"), payment')
          /\ Ended("answered").pc \notin Opening
      BY EndedIsTask DEF Ended, Idle, Opening
    <2>4. RestTyped' /\ UNCHANGED payment
      BY <2>1 DEF stored, operator, RestTyped, TypeInv, TypeOK
    <2> QED
      BY <1>0, <2>1, <2>2, <2>3, <2>4, SamePaymentGrows, TypeRows
  <1> QED
    BY <1>1, <1>2, <1>3, <1>5, <1>6, <1>7, <1>8, <1>9 DEF CheckoutStep
LEMMA TypeEvent ==
  ASSUME TypeInv, NEW p \in Procs, EventStep(p)
  PROVE  TypeInv'
  <1> DEFINE t == task[p]
             k == t.key
             row == Updated(payment[k], t.proposed)
  <1>0. /\ t \in Tasks /\ TaskOK(t, payment) /\ t.pc \in EventSteps
        /\ mishaps \in 0..MaxMishaps
    BY DEF TypeInv, TypeOK, EventStep, ReadStatus, LogEvent, WriteStatus, GrantAccess, At, EventSteps
  <1>1. k \in Keys /\ payment[k] \in PaymentRows /\ t.proposed \in PaymentStatuses
    BY <1>0 DEF TaskOK, Working
  <1>2. payment[k].status \in PaymentStatuses
    BY <1>1 DEF PaymentRows
  <1>3. CASE ReadStatus(p)
    <2> DEFINE u == [t EXCEPT !.pc = "log", !.seen = payment[k].status]
    <2>1. u \in Tasks
      BY <1>0, <1>2 DEF Tasks, Steps, EventSteps
    <2>2. u.pc = "log" /\ u.key = k /\ u.proposed = t.proposed /\ u.seen = payment[k].status
      BY <1>0 DEF Tasks
    <2>3. TaskOK(u, payment) /\ u.pc \notin Opening
      BY <1>1, <1>2, <2>2 DEF TaskOK, Opening
    <2>4. task' = [task EXCEPT ![p] = u] /\ UNCHANGED <<stored, queue, operator>>
            /\ mishaps' = mishaps
      BY <1>0, <1>3 DEF ReadStatus, TypeInv, TypeOK
    <2> HIDE DEF u
    <2> QED
      BY <1>0, <2>1, <2>3, <2>4, TypeTaskOnly
  <1>4. CASE LogEvent(p)
    <2>1. t.seen \in PaymentStatuses /\ t.pc = "log"
      BY <1>0, <1>4 DEF LogEvent, At, TaskOK
    <2> DEFINE u == IF transition(t.seen, t.proposed) = "APPLY"
                    THEN [t EXCEPT !.pc = "write"] ELSE Returned(p, t.seen)
    <2>2. task' = [task EXCEPT ![p] = u] /\ UNCHANGED <<payment, access, queue, operator, mishaps>>
      BY <1>4 DEF LogEvent
    <2>3. [t EXCEPT !.pc = "write"] \in Tasks /\ TaskOK([t EXCEPT !.pc = "write"], payment)
      <3>1. [t EXCEPT !.pc = "write"] \in Tasks
        BY <1>0, StepIsTask DEF Steps, EventSteps
      <3>2. /\ [t EXCEPT !.pc = "write"].pc = "write" /\ [t EXCEPT !.pc = "write"].key = k
            /\ [t EXCEPT !.pc = "write"].proposed = t.proposed
            /\ [t EXCEPT !.pc = "write"].seen = t.seen
        BY <1>0 DEF Tasks
      <3> QED
        BY <1>1, <2>1, <3>1, <3>2 DEF TaskOK, Opening
    <2>4. u \in Tasks /\ TaskOK(u, payment)
      BY <1>0, <1>1, <2>3, ReturnedIsTask
    <2>5. u.pc \notin Opening
      BY <1>0, ReturnedNotOpening DEF Tasks, Opening
    <2>6. EventOf(p, transition(t.seen, t.proposed)) \in EventRows
      BY <1>1, <2>1 DEF EventOf, EventRows, Source, Sources, Outcomes, transition
    <2>7. RestTyped'
      BY <1>4, <2>2, <2>6 DEF LogEvent, operator, RestTyped, TypeInv, TypeOK
    <2> HIDE DEF u
    <2> QED
      BY <2>2, <2>4, <2>5, <2>7, SamePaymentGrows, TypeRows
  <1>5. CASE WriteStatus(p) /\ SettledAtMatches(row)
    <2> DEFINE u == IF grantsAccess(t.proposed) THEN [t EXCEPT !.pc = "grant"]
                    ELSE Returned(p, t.proposed)
    <2>1. /\ payment' = [payment EXCEPT ![k] = row]
          /\ task' = [task EXCEPT ![p] = u]
          /\ UNCHANGED <<events, access, queue, operator, mishaps>>
          /\ t.seen \in PaymentStatuses
      BY <1>0, <1>5 DEF WriteStatus, At, TaskOK
    <2>2. row \in PaymentRows
      BY <1>1 DEF Updated, PaymentRows, grantsAccess
    <2>3. Grows(payment, payment') /\ payment'[k] \in PaymentRows
      BY <1>1, <2>1, <2>2 DEF Grows, TypeInv, TypeOK
    <2>4. [t EXCEPT !.pc = "grant"] \in Tasks /\ TaskOK([t EXCEPT !.pc = "grant"], payment')
      <3>1. [t EXCEPT !.pc = "grant"] \in Tasks
        BY <1>0, StepIsTask DEF Steps, EventSteps
      <3>2. /\ [t EXCEPT !.pc = "grant"].pc = "grant" /\ [t EXCEPT !.pc = "grant"].key = k
            /\ [t EXCEPT !.pc = "grant"].proposed = t.proposed
            /\ [t EXCEPT !.pc = "grant"].seen = t.seen
        BY <1>0 DEF Tasks
      <3> QED
        BY <1>1, <2>1, <2>3, <3>1, <3>2 DEF TaskOK, Opening
    <2>5. u \in Tasks /\ TaskOK(u, payment')
      BY <1>0, <1>1, <2>3, <2>4, ReturnedIsTask
    <2>6. u.pc \notin Opening
      BY <1>0, ReturnedNotOpening DEF Tasks, Opening
    <2>7. RestTyped'
      BY <2>1 DEF operator, RestTyped, TypeInv, TypeOK
    <2> HIDE DEF u, row
    <2> QED
      BY <2>1, <2>3, <2>5, <2>6, <2>7, TypeRows
  <1>6. CASE WriteStatus(p) /\ ~SettledAtMatches(row)
    <2>1. /\ task' = [task EXCEPT ![p] = Thrown(p)]
          /\ UNCHANGED <<stored, queue, operator>> /\ mishaps' = mishaps
      BY <1>6 DEF WriteStatus, stored
    <2>2. Thrown(p) \in Tasks /\ TaskOK(Thrown(p), payment)
      BY <1>0, ThrownIsTask DEF Working
    <2>3. Thrown(p).pc \notin Opening
      BY <1>0, ThrownNotOpening
    <2> QED
      BY <1>0, <2>1, <2>2, <2>3, TypeTaskOnly
  <1>7. CASE GrantAccess(p)
    <2>1. /\ access' = [access EXCEPT ![payment[k].user][payment[k].item] = Granted(@)]
          /\ task' = [task EXCEPT ![p] = Returned(p, t.proposed)]
          /\ UNCHANGED <<payment, events, queue, operator, mishaps>>
      BY <1>7 DEF GrantAccess
    <2>2. Returned(p, t.proposed) \in Tasks /\ TaskOK(Returned(p, t.proposed), payment)
      BY <1>0, <1>1, ReturnedIsTask
    <2>3. Returned(p, t.proposed).pc \notin Opening
      BY <1>0, ReturnedNotOpening
    <2>4. access' \in [Users -> [Items -> AccessStates]]
      BY <2>1 DEF TypeInv, TypeOK, Granted, AccessStates
    <2>5. RestTyped'
      BY <2>1, <2>4 DEF operator, RestTyped, TypeInv, TypeOK
    <2> QED
      BY <2>1, <2>2, <2>3, <2>5, SamePaymentGrows, TypeRows
  <1> QED
    BY <1>3, <1>4, <1>5, <1>6, <1>7 DEF EventStep

LEMMA TypeWorker ==
  ASSUME TypeInv, NEW w \in Instances, WorkerStep(w)
  PROVE  TypeInv'
  <1> DEFINE t == task[w]
             k == t.key
  <1>0. /\ w \in Procs /\ t \in Tasks /\ TaskOK(t, payment)
        /\ t.pc \in {"find", "poll", "reschedule", "complete"}
        /\ mishaps \in 0..MaxMishaps /\ task \in [Procs -> Tasks]
    BY DEF TypeInv, TypeOK, Procs, WorkerStep, FindPayment, Poll, ScheduleNext, Complete, At
  <1>1. k \in Keys /\ payment[k] \in PaymentRows
    BY <1>0 DEF TaskOK, Working, WorkerSteps
  <1>2. CASE FindPayment(w)
    <2> DEFINE status == payment[k].status
               u == IF needsReconciliation(status) /\ payment[k].providerRef
                    THEN [t EXCEPT !.pc = "poll"] ELSE Decided(w, status)
    <2>1. /\ task' = [task EXCEPT ![w] = u]
          /\ UNCHANGED <<stored, queue, operator>> /\ mishaps' = mishaps
      BY <1>2 DEF FindPayment
    <2>2. u \in Tasks /\ TaskOK(u, payment)
      BY <1>0, <1>1, StepIsOK, DecidedIsTask DEF WorkerSteps
    <2>3. u.pc \notin Opening
      BY <1>0 DEF Decided, Tasks, Opening
    <2> HIDE DEF u
    <2> QED
      BY <1>0, <2>1, <2>2, <2>3, TypeTaskOnly
  <1>3. CASE Poll(w)
    <2>1. UNCHANGED <<stored, queue, operator>>
      BY <1>3 DEF Poll
    <2>2. mishaps' \in 0..MaxMishaps
      BY <1>0, <1>3, MishapIsTyped DEF Poll
    <2>3. collection[k] \in {"NONE", "PENDING"} \cup Terminal
      BY <1>1 DEF TypeInv, TypeOK
    <2>4. CASE task' = [task EXCEPT ![w] = Thrown(w)]
      <3>1. Thrown(w) \in Tasks /\ TaskOK(Thrown(w), payment)
        BY <1>0, ThrownIsTask DEF Working, WorkerSteps
      <3>2. Thrown(w).pc \notin Opening
        BY <1>0, ThrownNotOpening
      <3> QED
        BY <1>0, <2>1, <2>2, <2>4, <3>1, <3>2, TypeTaskOnly
    <2>5. ASSUME NEW s \in PaymentStatuses,
                 task' = [task EXCEPT ![w].pc = "read", ![w].proposed = s]
          PROVE  TypeInv'
      <3> DEFINE u == [t EXCEPT !.pc = "read", !.proposed = s]
      <3>1. u \in Tasks
        BY <1>0 DEF Tasks, Steps, EventSteps
      <3>2. u.pc = "read" /\ u.key = k /\ u.proposed = s
        BY <1>0 DEF Tasks
      <3>3. TaskOK(u, payment) /\ u.pc \notin Opening
        BY <1>1, <3>2 DEF TaskOK, Opening
      <3>4. task' = [task EXCEPT ![w] = u]
        BY <1>0, <2>5
      <3> HIDE DEF u
      <3> QED
        BY <1>0, <2>1, <2>2, <3>1, <3>3, <3>4, TypeTaskOnly
    <2> QED
      BY <1>3, <2>3, <2>4, <2>5 DEF Poll, PaymentStatuses, Terminal
  <1>4. CASE ScheduleNext(w)
    <2>1. PICK n : Add(Job(k, n, 0))
      BY <1>4 DEF ScheduleNext
    <2>2. /\ task' = [task EXCEPT ![w] = [t EXCEPT !.pc = "complete"]]
          /\ UNCHANGED <<stored, operator, mishaps>>
      BY <1>0, <1>4 DEF ScheduleNext, GoTo
    <2>3. Job(k, n, 0).pay = k
      BY DEF Job
    <2>4. /\ [t EXCEPT !.pc = "complete"] \in Tasks
          /\ TaskOK([t EXCEPT !.pc = "complete"], payment)
          /\ [t EXCEPT !.pc = "complete"].pc \notin Opening
      BY <1>0, <1>1, StepIsOK DEF WorkerSteps, Tasks, Opening
    <2>5. RestTyped' /\ UNCHANGED payment
      BY <2>2 DEF stored, operator, RestTyped, TypeInv, TypeOK
    <2> QED
      BY <1>0, <1>1, <2>1, <2>2, <2>3, <2>4, <2>5, SamePaymentGrows, TypeRows
  <1>5. CASE Complete(w)
    BY <1>0, <1>5, IdleIsTask, TypeTaskOnly DEF Complete, Idle, Opening
  <1> QED
    BY <1>2, <1>3, <1>4, <1>5 DEF WorkerStep

LEMMA TypeTake ==
  ASSUME TypeInv, NEW w \in Instances, NEW j \in Jobs, Take(w, j)
  PROVE  TypeInv'
  <1> DEFINE t == [Idle EXCEPT !.pc = "find", !.key = j.pay,
                               !.attempt = j.attempt, !.stalls = j.stalls]
  <1>0. w \in Procs /\ queue \in [Jobs -> Nat] /\ QueueOK
    BY DEF Procs, TypeInv, TypeOK
  <1>1. /\ queue[j] > 0 /\ queue' = [queue EXCEPT ![j] = queue[j] - 1]
        /\ task' = [task EXCEPT ![w] = t]
        /\ UNCHANGED <<stored, operator, mishaps>>
    BY DEF Take
  <1>2. j.pay \in Keys /\ j.attempt \in 1..AttemptCap /\ j.stalls \in 0..1
    BY DEF Jobs
  <1>3. payment[j.pay] \in PaymentRows
    BY <1>0, <1>1 DEF QueueOK
  <1>4. t \in Tasks
    <2>1. j.attempt \in 0..AttemptCap
      BY <1>2, PaymentsAssumption DEF AttemptCap
    <2> QED
      BY <1>2, <2>1, IdleIsTask DEF Tasks, Steps, WorkerSteps
  <1>5. t.pc = "find" /\ t.key = j.pay
    BY DEF Idle
  <1>6. TaskOK(t, payment) /\ t.pc \notin Opening
    BY <1>2, <1>3, <1>5 DEF TaskOK, Opening, EventSteps
  <1>7. UNCHANGED payment
    BY <1>1 DEF stored
  <1>8. /\ task' \in [Procs -> Tasks]
        /\ \A q \in Procs : TaskOK(task'[q], payment')
        /\ \A q \in Procs : task'[q].pc \in Opening => q \in Requests
    <2> HIDE DEF t
    <2> QED
      BY <1>0, <1>1, <1>4, <1>6, <1>7, SamePaymentGrows, TaskStep
  <1>9. queue' \in [Jobs -> Nat] /\ QueueOK'
    <2>1. queue' = [i \in Jobs |-> IF i = j THEN queue[i] - 1 ELSE queue[i]]
      BY <1>0, <1>1
    <2>2. queue' \in [Jobs -> Nat]
      BY <1>0, <1>1, <2>1
    <2>3. \A i \in Jobs : queue'[i] > 0 => queue[i] > 0
      BY <1>0, <1>1, <2>1
    <2> QED
      BY <1>0, <1>7, <2>2, <2>3 DEF QueueOK
  <1>10. TypeOK'
    BY <1>1, <1>8, <1>9 DEF stored, operator, TypeInv, TypeOK
  <1> QED
    BY <1>8, <1>9, <1>10 DEF TypeInv

LEMMA TypeAnswer ==
  ASSUME TypeInv, NEW k \in Keys, Answer(k)
  PROVE  TypeInv'
  <1>1. UNCHANGED <<payment, queue, task, events, access, prompts, mishaps>>
    BY DEF Answer, stored
  <1>2. collection' \in [Keys -> {"NONE", "PENDING"} \cup Terminal]
    BY PaymentsAssumption DEF Answer, TypeInv, TypeOK
  <1> QED
    BY <1>1, <1>2 DEF TypeInv, TypeOK, QueueOK

LEMMA TypeFailure ==
  ASSUME TypeInv,
         \/ \E p \in Procs : DbError(p)
         \/ \E h \in Instances : Crash(h)
  PROVE  TypeInv'
  <1>1. ASSUME NEW p \in Procs, DbError(p)
        PROVE  TypeInv'
    <2>1. /\ task' = [task EXCEPT ![p] = Thrown(p)]
          /\ UNCHANGED <<stored, queue, operator>>
          /\ task[p].pc \in DatabaseSteps /\ task[p] \in Tasks
      BY <1>1 DEF DbError, TypeInv, TypeOK
    <2>2. mishaps' \in 0..MaxMishaps
      BY <1>1, MishapIsTyped DEF DbError
    <2>3. Thrown(p) \in Tasks /\ TaskOK(Thrown(p), payment)
      BY <2>1, ThrownIsTask
      DEF DatabaseSteps, Working, Opening, RequestSteps, WorkerSteps, EventSteps
    <2>4. Thrown(p).pc \notin Opening
      BY <2>1, ThrownNotOpening
    <2> QED
      BY <2>1, <2>2, <2>3, <2>4, TypeTaskOnly
  <1>2. ASSUME NEW h \in Instances, Crash(h)
        PROVE  TypeInv'
    <2> DEFINE t == task[h]
    <2>0. h \in Procs /\ t \in Tasks /\ TaskOK(t, payment)
            /\ (t.pc \in Opening => h \in Requests)
      BY DEF Procs, TypeInv, TypeOK
    <2>1. /\ task' = [p \in Procs |-> IF p = h THEN Idle
                                      ELSE IF task[p].host = h THEN Ended("failed")
                                      ELSE task[p]]
          /\ UNCHANGED <<stored, operator>>
          /\ UNCHANGED queue \/ (t.pc # "idle" /\ Add(Job(t.key, t.attempt, 1)))
      BY <1>2 DEF Crash
    <2>2. mishaps' \in 0..MaxMishaps
      BY <1>2, MishapIsTyped DEF Crash
    <2>3. /\ task' \in [Procs -> Tasks]
          /\ \A q \in Procs : TaskOK(task'[q], payment)
          /\ \A q \in Procs : task'[q].pc \in Opening => q \in Requests
      <3>1. Idle.pc \notin Opening /\ Ended("failed").pc \notin Opening
        BY DEF Idle, Ended, Opening
      <3> QED
        BY <2>1, <3>1, IdleIsTask, EndedIsTask DEF TypeInv, TypeOK
    <2>4. UNCHANGED payment
      BY <2>1 DEF stored
    <2>5. queue' \in [Jobs -> Nat] /\ QueueOK'
      <3>1. CASE UNCHANGED queue
        BY <2>4, <3>1, SamePaymentGrows, QueueSame
      <3>2. CASE t.pc # "idle" /\ Add(Job(t.key, t.attempt, 1))
        <4>1. Job(t.key, t.attempt, 1).pay = t.key
          BY DEF Job
        <4>2. Job(t.key, t.attempt, 1) \in Jobs => payment[t.key] \in PaymentRows
          <5>1. CASE t.pc \in Working
            BY <2>0, <5>1 DEF TaskOK
          <5>2. CASE t.pc \notin Working
            <6>1. t.pc \in {"answered", "failed"}
              BY <2>0, <3>2, <5>2, PaymentsAssumption DEF Procs, Tasks, Steps, Working
            <6>2. t.attempt = 0
              BY <2>0, <6>1 DEF TaskOK
            <6> QED
              BY <6>2 DEF Job, Jobs
          <5> QED
            BY <5>1, <5>2
        <4> QED
          BY <2>4, <3>2, <4>1, <4>2, SamePaymentGrows, QueueGrows
      <3> QED
        BY <2>1, <3>1, <3>2
    <2>6. TypeOK'
      BY <2>1, <2>2, <2>3, <2>5 DEF stored, operator, TypeInv, TypeOK
    <2> QED
      BY <2>3, <2>4, <2>5, <2>6 DEF TypeInv
  <1> QED
    BY <1>1, <1>2

LEMMA TypeNext == TypeInv /\ [Next]_vars => TypeInv'
  <1> SUFFICES ASSUME TypeInv, [Next]_vars PROVE TypeInv'
    OBVIOUS
  <1>1. CASE UNCHANGED vars
    BY <1>1 DEF vars, TypeInv, TypeOK, QueueOK
  <1>2. CASE Next
    BY <1>2, TypeArrive, TypeCheckout, TypeEvent, TypeWorker, TypeTake, TypeAnswer, TypeFailure
    DEF Next
  <1> QED
    BY <1>1, <1>2

LEMMA TypeInvariant == Spec => []TypeInv
  BY TypeInit, TypeNext, PTL DEF Spec

\* The tables, the queue and every handler hold values of their types in every
\* reachable state, whatever fails.
THEOREM TypeCorrect == Spec => []TypeOK
  <1>1. TypeInv => TypeOK
    BY DEF TypeInv
  <1> QED
    BY <1>1, TypeInvariant, PTL

====
