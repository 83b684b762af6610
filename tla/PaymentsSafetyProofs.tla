---- MODULE PaymentsSafetyProofs ----
(***************************************************************************)
(* The safety of payments, for all values of the constants.  PromptInv     *)
(* gives each key a single collection; with it, SettleInv ties what is     *)
(* settled and granted to what the operator has; and with both, LedgerInv  *)
(* shows that one API process implements the PaymentLedger.                *)
(***************************************************************************)
EXTENDS PaymentsProofs, PaymentsImplementLedger

-----------------------------------------------------------------------------
(* One prompt for each key *)

Collecting == {"reserve", "collect"}

\* A process on its way to the operator is the only one with its key, and the
\* operator does not have the key yet.
PromptInv ==
    /\ \A k \in Keys : ~Exists(k) => prompts[k] = 0 /\ collection[k] = "NONE"
    /\ \A p \in Procs : task[p].pc \in Collecting =>
           prompts[task[p].key] = 0 /\ collection[task[p].key] = "NONE"
    /\ \A p, q \in Procs :
           task[p].pc \in Collecting /\ task[q].pc \in Collecting /\ p # q
               => task[p].key # task[q].key
    /\ OnePromptPerKey

\* A step after which nobody is on the way to the operator who was not before.
LEMMA PromptQuiet ==
  ASSUME TypeInv, PromptInv, UNCHANGED operator,
         \A k \in Keys : Exists(k) => Exists(k)',
         \A q \in Procs : task'[q].pc \in Collecting =>
             task[q].pc \in Collecting /\ task'[q].key = task[q].key
  PROVE  PromptInv'
  BY DEF PromptInv, OnePromptPerKey, operator

LEMMA PromptTaskOnly ==
  ASSUME TypeInv, PromptInv, UNCHANGED operator, UNCHANGED payment,
         NEW p \in Procs, NEW t, task' = [task EXCEPT ![p] = t],
         t.pc \in Collecting => task[p].pc \in Collecting /\ t.key = task[p].key
  PROVE  PromptInv'
  BY PromptQuiet DEF TypeInv, TypeOK, Exists

LEMMA PromptInit == Init => PromptInv
  BY DEF Init, PromptInv, OnePromptPerKey, Idle, Collecting


\* Where recordEvent and an exception take a process is past the operator.
LEMMA PastCollecting ==
  ASSUME NEW p \in Procs, task[p] \in Tasks, NEW status
  PROVE  /\ Returned(p, status).pc \notin Collecting
         /\ Decided(p, status).pc \notin Collecting
         /\ Thrown(p).pc \notin Collecting
         /\ Ended("answered").pc \notin Collecting
         /\ Ended("failed").pc \notin Collecting
         /\ Idle.pc \notin Collecting
  BY DEF Returned, Decided, Thrown, Ended, Idle, Tasks, Collecting

LEMMA PromptCheckout ==
  ASSUME TypeInv, PromptInv, NEW r \in Requests, CheckoutStep(r)
  PROVE  PromptInv'
  <1> DEFINE t == task[r]
             k == t.key
  <1>0. r \in Procs /\ t \in Tasks /\ TaskOK(t, payment) /\ task \in [Procs -> Tasks]
    BY DEF TypeInv, TypeOK, Procs
  <1>1. CASE LookupKey(r) \/ ResolveTarget(r) \/ CheckSeat(r) \/ SaveProviderRef(r)
             \/ NoteCallback(r) \/ Enqueue(r)
    <2>1. \A q \in Procs : task'[q].pc \in Collecting => task'[q] = task[q]
      BY <1>0, <1>1 DEF LookupKey, ResolveTarget, CheckSeat, SaveProviderRef, NoteCallback,
         Enqueue, GoTo, Ended, Idle, Tasks, Collecting
    <2>2. \A i \in Keys : Exists(i) => Exists(i)'
      <3>1. CASE UNCHANGED payment
        BY <3>1 DEF Exists
      <3>2. CASE SaveProviderRef(r)
        BY <1>0, <3>2 DEF Exists, SaveProviderRef, TypeInv, TypeOK, NoPayment
      <3> QED
        BY <1>1, <3>1, <3>2 DEF LookupKey, ResolveTarget, CheckSeat, NoteCallback, Enqueue, stored
    <2>3. UNCHANGED operator
      BY <1>1 DEF LookupKey, ResolveTarget, CheckSeat, SaveProviderRef, NoteCallback, Enqueue
    <2> QED
      BY <2>1, <2>2, <2>3, PromptQuiet
  <1>2. CASE CreatePayment(r)
    <2>1. t.pc = "create" /\ k \in Keys
      BY <1>0, <1>2 DEF CreatePayment, At, TaskOK, Opening
    <2>2. UNCHANGED operator
      BY <1>2 DEF CreatePayment
    <2>3. CASE task' = [task EXCEPT ![r] = Thrown(r)] /\ UNCHANGED payment
      BY <1>0, <2>2, <2>3, PastCollecting, PromptTaskOnly
    <2>4. CASE KeyIsFree(k) /\ ~(task' = [task EXCEPT ![r] = Thrown(r)] /\ UNCHANGED payment)
      <3>1. PICK pc \in Collecting : task' = [task EXCEPT ![r] = [t EXCEPT !.pc = pc]]
        BY <1>0, <1>2, <2>4 DEF CreatePayment, GoTo, Collecting
      <3>2. /\ \A i \in Keys : Exists(i) => Exists(i)'
            /\ payment'[k] # NoPayment
        <4> DEFINE row == [user |-> t.user, item |-> t.item, status |-> "INITIATED",
                           providerRef |-> FALSE, settledAt |-> FALSE]
        <4>1. payment' = [payment EXCEPT ![k] = row]
          BY <1>2, <2>4 DEF CreatePayment
        <4>2. row \in PaymentRows
          BY <1>0, <2>1 DEF TaskOK, Opening, PaymentRows, PaymentStatuses
        <4>3. row # NoPayment
          BY <4>2, RowExists
        <4>4. payment'[k] = row /\ \A i \in Keys : i # k => payment'[i] = payment[i]
          BY <2>1, <4>1 DEF TypeInv, TypeOK
        <4> HIDE DEF row
        <4> QED
          BY <2>1, <4>3, <4>4 DEF Exists
      <3>3. prompts[k] = 0 /\ collection[k] = "NONE"
        BY <2>1, <2>4 DEF KeyIsFree, PromptInv
      <3>4. ASSUME NEW q \in Procs, task[q].pc \in Collecting
            PROVE  task[q].key # k
        <4>1. TaskOK(task[q], payment)
          BY DEF TypeInv
        <4>2. task[q].key \in Keys /\ payment[task[q].key] \in PaymentRows
          BY <3>4, <4>1 DEF TaskOK, Working, Collecting, RequestSteps, Opening
        <4> QED
          BY <2>4, <4>2, RowExists DEF KeyIsFree, Exists
      <3>5. task'[r].key = k /\ \A q \in Procs : q # r => task'[q] = task[q]
        BY <1>0, <3>1 DEF Tasks
      <3> QED
        BY <1>0, <2>1, <2>2, <3>2, <3>3, <3>4, <3>5 DEF PromptInv, OnePromptPerKey, operator
    <2> QED
      BY <1>2, <2>3, <2>4 DEF CreatePayment
  <1>3. CASE ReserveSeat(r)
    <2>1. UNCHANGED operator /\ UNCHANGED payment
      BY <1>3 DEF ReserveSeat
    <2>2. task' = [task EXCEPT ![r] = [t EXCEPT !.pc = "collect"]] /\ t.pc = "reserve"
      BY <1>0, <1>3 DEF ReserveSeat, GoTo, At
    <2>3. [t EXCEPT !.pc = "collect"].key = k
      BY <1>0 DEF Tasks
    <2> QED
      BY <1>0, <2>1, <2>2, <2>3, PromptTaskOnly DEF Collecting
  <1>4. CASE Collect(r)
    <2>1. t.pc = "collect" /\ k \in Keys /\ payment[k] \in PaymentRows
      BY <1>0, <1>4 DEF Collect, At, TaskOK, Working, RequestSteps, Opening
    <2>2. /\ \A q \in Procs : q # r => task'[q] = task[q]
          /\ task'[r].pc \notin Collecting
          /\ UNCHANGED payment
      BY <1>0, <1>4 DEF Collect, Tasks, Collecting, stored
    <2>3. /\ prompts[k] = 0 /\ Exists(k)
          /\ \A q \in Procs : q # r /\ task[q].pc \in Collecting => task[q].key # k
      BY <1>0, <2>1, RowExists DEF PromptInv, Collecting, Exists
    <2>4. CASE UNCHANGED operator
      BY <1>0, <2>2, <2>4 DEF PromptInv, OnePromptPerKey, operator, Exists
    <2>5. CASE /\ collection' = [collection EXCEPT ![k] = "PENDING"]
               /\ prompts' = [prompts EXCEPT ![k] = prompts[k] + 1]
      <3>1. prompts'[k] = 1 /\ \A i \in Keys : i # k => prompts'[i] = prompts[i] /\ collection'[i] = collection[i]
        BY <2>1, <2>3, <2>5 DEF TypeInv, TypeOK
      <3>2. \A q \in Procs : task[q].pc \in Collecting => task[q].key \in Keys
        BY DEF TypeInv, TaskOK, Working, RequestSteps, Opening, Collecting
      <3> QED
        BY <1>0, <2>1, <2>2, <2>3, <3>1, <3>2 DEF PromptInv, OnePromptPerKey, Exists
    <2> QED
      BY <1>4, <2>4, <2>5 DEF Collect
  <1> QED
    BY <1>1, <1>2, <1>3, <1>4 DEF CheckoutStep

\* Everything else is a step past the operator.
LEMMA PromptRest ==
  ASSUME TypeInv, PromptInv,
         \/ \E r \in Requests, h \in Instances, k \in Keys :
                \/ ArriveCallback(r, k, h)
                \/ \E u \in Users, i \in Items : ArriveCheckout(r, k, u, i, h)
         \/ \E p \in Procs : EventStep(p) \/ DbError(p)
         \/ \E w \in Instances : WorkerStep(w) \/ Crash(w) \/ \E j \in Jobs : Take(w, j)
  PROVE  PromptInv'
  <1>0. task \in [Procs -> Tasks] /\ Requests \subseteq Procs /\ Instances \subseteq Procs
    BY DEF TypeInv, TypeOK, Procs
  <1>1. ASSUME NEW r \in Requests, NEW h \in Instances, NEW k \in Keys,
               \/ ArriveCallback(r, k, h)
               \/ \E u \in Users, i \in Items : ArriveCheckout(r, k, u, i, h)
        PROVE  PromptInv'
    <2>1. \A q \in Procs : task'[q].pc \in Collecting => task'[q] = task[q]
      BY <1>0, <1>1 DEF ArriveCallback, ArriveCheckout, Ended, Idle, Collecting
    <2>2. UNCHANGED operator /\ UNCHANGED payment
      BY <1>1 DEF ArriveCallback, ArriveCheckout, stored
    <2> QED
      BY <2>1, <2>2, PromptQuiet DEF Exists
  <1>2. ASSUME NEW p \in Procs, EventStep(p)
        PROVE  PromptInv'
    <2>1. UNCHANGED operator
      BY <1>2 DEF EventStep, ReadStatus, LogEvent, WriteStatus, GrantAccess
    <2>2. \A q \in Procs : task'[q].pc \in Collecting => task'[q] = task[q]
      BY <1>0, <1>2, PastCollecting
      DEF EventStep, ReadStatus, LogEvent, WriteStatus, GrantAccess, Tasks, Collecting
    <2>3. ASSUME NEW k \in Keys, Exists(k)
          PROVE  Exists(k)'
      <3>1. CASE UNCHANGED payment
        BY <2>3, <3>1 DEF Exists
      <3>2. CASE WriteStatus(p) /\ ~UNCHANGED payment
        <4>1. task[p].key \in Keys /\ payment[task[p].key] \in PaymentRows
              /\ task[p].proposed \in PaymentStatuses
          BY <1>0, <3>2 DEF TypeInv, WriteStatus, At, TaskOK, Working, EventSteps
        <4>2. payment' = [payment EXCEPT ![task[p].key] =
                              Updated(payment[task[p].key], task[p].proposed)]
          BY <3>2 DEF WriteStatus
        <4>3. Updated(payment[task[p].key], task[p].proposed) \in PaymentRows
          BY <4>1 DEF Updated, PaymentRows, grantsAccess
        <4> QED
          BY <2>3, <4>1, <4>2, <4>3, RowExists DEF Exists, TypeInv, TypeOK
      <3> QED
        BY <1>2, <3>1, <3>2 DEF EventStep, ReadStatus, LogEvent, GrantAccess, stored
    <2> QED
      BY <2>1, <2>2, <2>3, PromptQuiet
  <1>3. ASSUME NEW p \in Procs, DbError(p)
        PROVE  PromptInv'
    <2>1. /\ task' = [task EXCEPT ![p] = Thrown(p)] /\ Thrown(p).pc \notin Collecting
          /\ UNCHANGED operator /\ UNCHANGED payment
      BY <1>0, <1>3, PastCollecting DEF DbError, stored
    <2> QED
      BY <2>1, PromptTaskOnly
  <1>4. ASSUME NEW w \in Instances, WorkerStep(w)
        PROVE  PromptInv'
    <2>1. UNCHANGED operator /\ UNCHANGED payment
      BY <1>4 DEF WorkerStep, FindPayment, Poll, ScheduleNext, Complete, stored
    <2>2. \A q \in Procs : task'[q].pc \in Collecting => task'[q] = task[q]
      <3>1. CASE FindPayment(w)
        BY <1>0, <3>1, PastCollecting DEF FindPayment, Tasks, Collecting
      <3>2. CASE Poll(w)
        BY <1>0, <3>2, PastCollecting DEF Poll, Tasks, Collecting
      <3>3. CASE ScheduleNext(w)
        BY <1>0, <3>3 DEF ScheduleNext, GoTo, Tasks, Collecting
      <3>4. CASE Complete(w)
        BY <1>0, <3>4 DEF Complete, Idle, Collecting
      <3> QED
        BY <1>4, <3>1, <3>2, <3>3, <3>4 DEF WorkerStep
    <2> QED
      BY <2>1, <2>2, PromptQuiet DEF Exists
  <1>5. ASSUME NEW w \in Instances, Crash(w) \/ \E j \in Jobs : Take(w, j)
        PROVE  PromptInv'
    <2>1. UNCHANGED operator /\ UNCHANGED payment
      BY <1>5 DEF Crash, Take, stored
    <2>2. \A q \in Procs : task'[q].pc \in Collecting => task'[q] = task[q]
      <3>1. CASE Crash(w)
        BY <3>1, PastCollecting, <1>0 DEF Crash
      <3>2. CASE \E j \in Jobs : Take(w, j)
        <4>1. PICK j \in Jobs : Take(w, j)
          BY <3>2
        <4>2. task' = [task EXCEPT ![w] = [Idle EXCEPT !.pc = "find", !.key = j.pay,
                                               !.attempt = j.attempt, !.stalls = j.stalls]]
          BY <4>1 DEF Take
        <4>3. task'[w].pc = "find" /\ \A q \in Procs : q # w => task'[q] = task[q]
          BY <1>0, <4>2 DEF Idle
        <4> QED
          BY <4>3 DEF Collecting
      <3> QED
        BY <1>5, <3>1, <3>2
    <2> QED
      BY <2>1, <2>2, PromptQuiet DEF Exists
  <1> QED
    BY <1>1, <1>2, <1>3, <1>4, <1>5

LEMMA PromptAnswer ==
  ASSUME TypeInv, PromptInv, NEW k \in Keys, Answer(k)
  PROVE  PromptInv'
  <1>1. UNCHANGED <<payment, task, prompts>> /\ collection[k] = "PENDING"
    BY DEF Answer, stored
  <1>2. \A i \in Keys : collection[i] = "NONE" => collection'[i] = "NONE"
    BY <1>1 DEF Answer, TypeInv, TypeOK
  <1>3. \A q \in Procs : task[q].pc \in Collecting => task[q].key \in Keys
    BY DEF TypeInv, TaskOK, Working, RequestSteps, Opening, Collecting
  <1> QED
    BY <1>1, <1>2, <1>3 DEF PromptInv, OnePromptPerKey, Exists

LEMMA PromptNext == TypeInv /\ PromptInv /\ [Next]_vars => PromptInv'
  <1> SUFFICES ASSUME TypeInv, PromptInv, [Next]_vars PROVE PromptInv'
    OBVIOUS
  <1>1. CASE UNCHANGED vars
    BY <1>1, PromptQuiet DEF vars, operator, Exists
  <1>2. CASE Next
    BY <1>2, PromptCheckout, PromptRest, PromptAnswer DEF Next
  <1> QED
    BY <1>1, <1>2

LEMMA PromptInvariant == Spec => []PromptInv
  BY TypeInvariant, PromptInit, PromptNext, PTL DEF Spec

\* A key reaches the operator at most once, for any number of requests, clients
\* and failures: the UNIQUE index on the key is all it takes.
THEOREM OnePrompt == Spec => []OnePromptPerKey
  <1>1. PromptInv => OnePromptPerKey
    BY DEF PromptInv
  <1> QED
    BY <1>1, PromptInvariant, PTL

-----------------------------------------------------------------------------
(* What is settled and granted is paid *)

\* A process that is about to record, or is recording, that the money is there.
Claims(t) == t.pc \in EventSteps \cup {"saveRef"} /\ t.proposed = "SUCCESSFUL"

\* Buyer u has a settled payment for i.
Paid(u, i) ==
    \E k \in Keys : /\ payment[k].user = u /\ payment[k].item = i
                    /\ payment[k].settledAt /\ collection[k] = "SUCCESSFUL"

\* settledAt, which is never taken back, carries the argument: a status can be
\* overwritten, settledAt cannot.
SettleInv ==
    /\ \A k \in Keys : payment[k].settledAt => collection[k] = "SUCCESSFUL"
    /\ \A k \in Keys : SettledAtMatches(payment[k])
    /\ \A p \in Procs : Claims(task[p]) => collection[task[p].key] = "SUCCESSFUL"
    /\ \A p \in Procs : task[p].pc = "grant" => payment[task[p].key].settledAt
    /\ \A u \in Users, i \in Items : access[u][i] = "ACTIVE" => Paid(u, i)

\* Where recordEvent and an exception take a process claims nothing.
LEMMA PastClaims ==
  ASSUME NEW p \in Procs, task[p] \in Tasks, NEW status
  PROVE  /\ ~Claims(Returned(p, status)) /\ Returned(p, status).pc # "grant"
         /\ ~Claims(Decided(p, status)) /\ Decided(p, status).pc # "grant"
         /\ ~Claims(Thrown(p)) /\ Thrown(p).pc # "grant"
         /\ ~Claims(Ended("answered")) /\ Ended("answered").pc # "grant"
         /\ ~Claims(Ended("failed")) /\ Ended("failed").pc # "grant"
         /\ ~Claims(Idle) /\ Idle.pc # "grant"
  BY DEF Claims, Returned, Decided, Thrown, Ended, Idle, Tasks, EventSteps

\* A step that writes neither a payment nor a seat.
LEMMA SettleTaskOnly ==
  ASSUME TypeInv, SettleInv, NEW p \in Procs, NEW t, task' = [task EXCEPT ![p] = t],
         UNCHANGED <<payment, access>>,
         \A k \in Keys : collection[k] = "SUCCESSFUL" => collection'[k] = "SUCCESSFUL",
         Claims(t) => t.key \in Keys /\ collection'[t.key] = "SUCCESSFUL",
         t.pc = "grant" => payment[t.key].settledAt
  PROVE  SettleInv'
  <1>1. \A q \in Procs : Claims(task[q]) => task[q].key \in Keys
    BY DEF TypeInv, TaskOK, Claims, Working, RequestSteps, Opening
  <1>2. task'[p] = t /\ \A q \in Procs : q # p => task'[q] = task[q]
    BY DEF TypeInv, TypeOK
  <1>3. \A q \in Procs : Claims(task'[q]) => collection'[task'[q].key] = "SUCCESSFUL"
    BY <1>1, <1>2 DEF SettleInv
  <1>4. \A q \in Procs : task'[q].pc = "grant" => payment'[task'[q].key].settledAt
    BY <1>2 DEF SettleInv
  <1>5. \A u \in Users, i \in Items : access'[u][i] = "ACTIVE" => Paid(u, i)'
    BY DEF SettleInv, Paid
  <1>6. /\ \A k \in Keys : payment'[k].settledAt => collection'[k] = "SUCCESSFUL"
        /\ \A k \in Keys : SettledAtMatches(payment'[k])
    BY DEF SettleInv
  <1> QED
    BY <1>3, <1>4, <1>5, <1>6 DEF SettleInv, Claims

LEMMA SettleInit == Init => SettleInv
  <1> SUFFICES ASSUME Init PROVE SettleInv
    OBVIOUS
  <1>1. \A k \in Keys : ~payment[k].settledAt /\ SettledAtMatches(payment[k])
    BY PaymentsAssumption
    DEF Init, NoPayment, SettledAtMatches, isTerminal, Terminal, PaymentStatuses
  <1>2. \A p \in Procs : task[p].pc = "idle"
    BY DEF Init, Idle
  <1>3. \A u \in Users, i \in Items : access[u][i] # "ACTIVE"
    BY DEF Init
  <1> QED
    BY <1>1, <1>2, <1>3 DEF SettleInv, Claims, EventSteps

\* A write of a payment row that keeps its buyer, its item and its settledAt.
LEMMA SettleRow ==
  ASSUME TypeInv, SettleInv, UNCHANGED <<access, collection>>,
         NEW k \in Keys, NEW row, payment' = [payment EXCEPT ![k] = row],
         row.settledAt => collection[k] = "SUCCESSFUL", SettledAtMatches(row),
         payment[k].settledAt =>
             row.settledAt /\ row.user = payment[k].user /\ row.item = payment[k].item,
         NEW p \in Procs, NEW t, task' = [task EXCEPT ![p] = t],
         Claims(t) => collection[t.key] = "SUCCESSFUL",
         t.pc = "grant" => t.key = k /\ row.settledAt
  PROVE  SettleInv'
  <1>1. payment'[k] = row /\ \A i \in Keys : i # k => payment'[i] = payment[i]
    BY DEF TypeInv, TypeOK
  <1>2. task'[p] = t /\ \A q \in Procs : q # p => task'[q] = task[q]
    BY DEF TypeInv, TypeOK
  <1>3. /\ \A i \in Keys : payment'[i].settledAt => collection'[i] = "SUCCESSFUL"
        /\ \A i \in Keys : SettledAtMatches(payment'[i])
    BY <1>1 DEF SettleInv
  <1>4. \A q \in Procs : Claims(task'[q]) => collection'[task'[q].key] = "SUCCESSFUL"
    BY <1>2 DEF SettleInv
  <1>5. \A q \in Procs : task'[q].pc = "grant" => payment'[task'[q].key].settledAt
    <2>1. \A q \in Procs : task[q].pc = "grant" => task[q].key \in Keys
      BY DEF TypeInv, TaskOK, Working, EventSteps
    <2> QED
      BY <1>1, <1>2, <2>1 DEF SettleInv
  <1>6. ASSUME NEW u \in Users, NEW i \in Items, access'[u][i] = "ACTIVE"
        PROVE  Paid(u, i)'
    <2>1. PICK j \in Keys : /\ payment[j].user = u /\ payment[j].item = i
                            /\ payment[j].settledAt /\ collection[j] = "SUCCESSFUL"
      BY <1>6 DEF SettleInv, Paid
    <2>2. /\ payment'[j].user = u /\ payment'[j].item = i
          /\ payment'[j].settledAt /\ collection'[j] = "SUCCESSFUL"
      BY <1>1, <2>1
    <2> QED
      BY <2>2 DEF Paid
  <1> QED
    BY <1>3, <1>4, <1>5, <1>6 DEF SettleInv, Claims

LEMMA SettleCheckout ==
  ASSUME TypeInv, PromptInv, SettleInv, NEW r \in Requests, CheckoutStep(r)
  PROVE  SettleInv'
  <1> DEFINE t == task[r]
             k == t.key
  <1>0. /\ r \in Procs /\ t \in Tasks /\ TaskOK(t, payment) /\ task \in [Procs -> Tasks]
        /\ payment \in [Keys -> PaymentRows \cup {NoPayment}]
    BY DEF TypeInv, TypeOK, Procs
  <1>1. CASE LookupKey(r) \/ ResolveTarget(r) \/ CheckSeat(r) \/ NoteCallback(r) \/ Enqueue(r)
    <2>1. PICK u : /\ task' = [task EXCEPT ![r] = u]
                   /\ u = Ended("answered")
                      \/ \E pc \in {"target", "seat", "create", "enqueue"} : u = [t EXCEPT !.pc = pc]
      BY <1>1 DEF LookupKey, ResolveTarget, CheckSeat, NoteCallback, Enqueue, GoTo
    <2>2. ~Claims(u) /\ u.pc # "grant"
      BY <1>0, <2>1, PastClaims DEF Claims, EventSteps, Tasks
    <2>3. UNCHANGED <<payment, access, collection>>
      BY <1>1 DEF LookupKey, ResolveTarget, CheckSeat, NoteCallback, Enqueue, stored, operator
    <2> QED
      BY <1>0, <2>1, <2>2, <2>3, SettleTaskOnly
  <1>2. CASE CreatePayment(r)
    <2>1. k \in Keys /\ UNCHANGED <<access, collection>>
      BY <1>0, <1>2 DEF CreatePayment, At, TaskOK, Opening, operator
    <2>2. CASE task' = [task EXCEPT ![r] = Thrown(r)] /\ UNCHANGED payment
      BY <1>0, <2>1, <2>2, PastClaims, SettleTaskOnly
    <2>3. CASE KeyIsFree(k) /\ ~(task' = [task EXCEPT ![r] = Thrown(r)] /\ UNCHANGED payment)
      <3> DEFINE row == [user |-> t.user, item |-> t.item, status |-> "INITIATED",
                         providerRef |-> FALSE, settledAt |-> FALSE]
      <3>1. payment' = [payment EXCEPT ![k] = row]
        BY <1>2, <2>3 DEF CreatePayment
      <3>2. PICK pc \in Collecting : task' = [task EXCEPT ![r] = [t EXCEPT !.pc = pc]]
        BY <1>0, <1>2, <2>3 DEF CreatePayment, GoTo, Collecting
      <3>3. ~Claims([t EXCEPT !.pc = pc]) /\ [t EXCEPT !.pc = pc].pc # "grant"
        BY <1>0 DEF Tasks, Claims, Collecting, EventSteps
      <3>4. ~row.settledAt /\ SettledAtMatches(row)
        BY DEF SettledAtMatches, isTerminal, Terminal
      <3>5. ~payment[k].settledAt
        BY <2>3 DEF KeyIsFree, Exists, NoPayment
      <3> HIDE DEF row
      <3> QED
        BY <1>0, <2>1, <3>1, <3>2, <3>3, <3>4, <3>5, SettleRow
    <2> QED
      BY <1>2, <2>2, <2>3 DEF CreatePayment
  <1>3. CASE ReserveSeat(r)
    <2>1. /\ task' = [task EXCEPT ![r] = [t EXCEPT !.pc = "collect"]]
          /\ access' = [access EXCEPT ![t.user][t.item] = Reserved(@)]
          /\ UNCHANGED <<payment, collection>>
      BY <1>0, <1>3 DEF ReserveSeat, GoTo, operator
    <2>2. ~Claims([t EXCEPT !.pc = "collect"]) /\ [t EXCEPT !.pc = "collect"].pc # "grant"
      BY <1>0 DEF Tasks, Claims, EventSteps
    <2>3. \A u \in Users, i \in Items : access'[u][i] = "ACTIVE" => access[u][i] = "ACTIVE"
      BY <2>1 DEF Reserved, TypeInv, TypeOK
    <2>4. \A q \in Procs : Claims(task'[q]) \/ task'[q].pc = "grant" => task'[q] = task[q]
      BY <1>0, <2>1, <2>2
    <2> QED
      BY <2>1, <2>3, <2>4 DEF SettleInv, Paid
  <1>4. CASE Collect(r)
    <2>1. k \in Keys /\ collection[k] = "NONE"
      BY <1>0, <1>4 DEF Collect, At, TaskOK, Working, RequestSteps, Opening, PromptInv, Collecting
    <2>2. \A i \in Keys : collection[i] = "SUCCESSFUL" => collection'[i] = "SUCCESSFUL"
      BY <1>4, <2>1 DEF Collect, operator, TypeInv, TypeOK
    <2>3. PICK pc \in {"saveRef", "read"}, s \in {"PENDING", "FAILED"} :
              task' = [task EXCEPT ![r] = [t EXCEPT !.pc = pc, !.proposed = s]]
      BY <1>0, <1>4 DEF Collect, Accepted
    <2> DEFINE u == [t EXCEPT !.pc = pc, !.proposed = s]
    <2>4. ~Claims(u) /\ u.pc # "grant"
      BY <1>0 DEF Tasks, Claims
    <2>5. UNCHANGED <<payment, access>>
      BY <1>4 DEF Collect, stored
    <2> HIDE DEF u
    <2> QED
      BY <1>0, <2>2, <2>3, <2>4, <2>5, SettleTaskOnly DEF u
  <1>5. CASE SaveProviderRef(r)
    <2> DEFINE row == [payment[k] EXCEPT !.providerRef = TRUE]
               u == [t EXCEPT !.pc = "read"]
    <2>1. k \in Keys /\ payment[k] \in PaymentRows /\ t.pc = "saveRef"
      BY <1>0, <1>5 DEF SaveProviderRef, At, TaskOK, Working, RequestSteps, Opening
    <2>2. /\ payment' = [payment EXCEPT ![k] = row] /\ task' = [task EXCEPT ![r] = u]
          /\ UNCHANGED <<access, collection>>
      BY <1>0, <1>5 DEF SaveProviderRef, GoTo, operator
    <2>3. /\ row.settledAt = payment[k].settledAt /\ row.status = payment[k].status
          /\ row.user = payment[k].user /\ row.item = payment[k].item
      BY <2>1 DEF PaymentRows
    <2>4. u.key = k /\ u.proposed = t.proposed /\ u.pc = "read"
      BY <1>0 DEF Tasks
    <2>5. Claims(u) => collection[u.key] = "SUCCESSFUL"
      BY <1>0, <2>1, <2>4 DEF Claims, SettleInv
    <2>6. SettledAtMatches(row) /\ (row.settledAt => collection[k] = "SUCCESSFUL")
      BY <2>1, <2>3 DEF SettledAtMatches, SettleInv
    <2> HIDE DEF row, u
    <2> QED
      BY <1>0, <2>1, <2>2, <2>3, <2>4, <2>5, <2>6, SettleRow
  <1> QED
    BY <1>1, <1>2, <1>3, <1>4, <1>5 DEF CheckoutStep

LEMMA SettleEvent ==
  ASSUME TypeInv, SettleInv, NEW p \in Procs, EventStep(p)
  PROVE  SettleInv'
  <1> DEFINE t == task[p]
             k == t.key
  <1>0. /\ t \in Tasks /\ TaskOK(t, payment) /\ t.pc \in EventSteps
        /\ task \in [Procs -> Tasks]
    BY DEF TypeInv, TypeOK, EventStep, ReadStatus, LogEvent, WriteStatus, GrantAccess, At, EventSteps
  <1>1. k \in Keys /\ payment[k] \in PaymentRows /\ t.proposed \in PaymentStatuses
    BY <1>0 DEF TaskOK, Working
  <1>2. t.proposed = "SUCCESSFUL" => collection[k] = "SUCCESSFUL"
    BY <1>0 DEF Claims, SettleInv
  <1>3. CASE ReadStatus(p)
    <2> DEFINE u == [t EXCEPT !.pc = "log", !.seen = payment[k].status]
    <2>1. task' = [task EXCEPT ![p] = u] /\ UNCHANGED <<payment, access, collection>>
      BY <1>0, <1>3 DEF ReadStatus, stored, operator
    <2>2. u.pc = "log" /\ u.key = k /\ u.proposed = t.proposed
      BY <1>0 DEF Tasks
    <2> HIDE DEF u
    <2> QED
      BY <1>1, <1>2, <2>1, <2>2, SettleTaskOnly DEF Claims
  <1>4. CASE LogEvent(p)
    <2>1. PICK u : /\ task' = [task EXCEPT ![p] = u]
                   /\ u = [t EXCEPT !.pc = "write"] \/ u = Returned(p, t.seen)
      BY <1>4 DEF LogEvent
    <2>2. Claims(u) => u.key \in Keys /\ collection[u.key] = "SUCCESSFUL"
      BY <1>0, <1>1, <1>2, <2>1, PastClaims DEF Claims, Tasks
    <2>3. u.pc # "grant"
      BY <1>0, <2>1, PastClaims DEF Tasks
    <2>4. UNCHANGED <<payment, access, collection>>
      BY <1>4 DEF LogEvent, operator
    <2> QED
      BY <2>1, <2>2, <2>3, <2>4, SettleTaskOnly
  <1>5. CASE WriteStatus(p) /\ SettledAtMatches(Updated(payment[k], t.proposed))
    <2> DEFINE row == Updated(payment[k], t.proposed)
               u == IF grantsAccess(t.proposed) THEN [t EXCEPT !.pc = "grant"]
                    ELSE Returned(p, t.proposed)
    <2>1. /\ payment' = [payment EXCEPT ![k] = row] /\ task' = [task EXCEPT ![p] = u]
          /\ UNCHANGED <<access, collection>> /\ SettledAtMatches(row)
      BY <1>5 DEF WriteStatus, operator
    <2>2. /\ row.user = payment[k].user /\ row.item = payment[k].item
          /\ row.settledAt = (payment[k].settledAt \/ grantsAccess(t.proposed))
      BY <1>1 DEF Updated, PaymentRows
    <2>3. row.settledAt => collection[k] = "SUCCESSFUL"
      BY <1>1, <1>2, <2>2 DEF SettleInv, grantsAccess
    <2>4. /\ Claims(u) => collection[u.key] = "SUCCESSFUL"
          /\ u.pc = "grant" => u.key = k /\ row.settledAt
      <3>1. CASE grantsAccess(t.proposed)
        <4>1. u.key = k
          BY <1>0, <3>1 DEF Tasks
        <4> QED
          BY <1>2, <2>2, <3>1, <4>1 DEF grantsAccess
      <3>2. CASE ~grantsAccess(t.proposed)
        BY <1>0, <3>2, PastClaims
      <3> QED
        BY <3>1, <3>2
    <2> HIDE DEF row, u
    <2> QED
      BY <1>1, <2>1, <2>2, <2>3, <2>4, SettleRow
  <1>6. CASE WriteStatus(p) /\ ~SettledAtMatches(Updated(payment[k], t.proposed))
    <2>1. task' = [task EXCEPT ![p] = Thrown(p)] /\ UNCHANGED <<payment, access, collection>>
      BY <1>6 DEF WriteStatus, operator
    <2> QED
      BY <1>0, <2>1, PastClaims, SettleTaskOnly
  <1>7. CASE GrantAccess(p)
    <2>1. /\ access' = [access EXCEPT ![payment[k].user][payment[k].item] = "ACTIVE"]
          /\ task' = [task EXCEPT ![p] = Returned(p, t.proposed)]
          /\ UNCHANGED <<payment, collection>> /\ t.pc = "grant"
      BY <1>7 DEF GrantAccess, Granted, At, operator
    <2>2. payment[k].settledAt /\ collection[k] = "SUCCESSFUL"
      BY <1>1, <2>1 DEF SettleInv
    <2>3. \A q \in Procs : Claims(task'[q]) \/ task'[q].pc = "grant" => task'[q] = task[q]
      BY <1>0, <2>1, PastClaims
    <2>4. ASSUME NEW u \in Users, NEW i \in Items, access'[u][i] = "ACTIVE"
          PROVE  Paid(u, i)
      <3>1. CASE access[u][i] = "ACTIVE"
        BY <3>1 DEF SettleInv
      <3>2. CASE access[u][i] # "ACTIVE"
        <4>1. u = payment[k].user /\ i = payment[k].item
          BY <2>1, <2>4, <3>2 DEF TypeInv, TypeOK
        <4> QED
          BY <1>1, <2>2, <4>1 DEF Paid
      <3> QED
        BY <3>1, <3>2
    <2> QED
      BY <2>1, <2>3, <2>4 DEF SettleInv, Paid
  <1> QED
    BY <1>3, <1>4, <1>5, <1>6, <1>7 DEF EventStep

LEMMA SettleWorker ==
  ASSUME TypeInv, SettleInv, NEW w \in Instances,
         WorkerStep(w) \/ \E j \in Jobs : Take(w, j)
  PROVE  SettleInv'
  <1> DEFINE t == task[w]
  <1>0. w \in Procs /\ t \in Tasks /\ TaskOK(t, payment) /\ UNCHANGED <<payment, access, collection>>
    BY DEF TypeInv, TypeOK, Procs, WorkerStep, FindPayment, Poll, ScheduleNext, Complete, Take,
       stored, operator
  <1>1. SUFFICES ASSUME NEW u, task' = [task EXCEPT ![w] = u]
                 PROVE  /\ Claims(u) => u.key \in Keys /\ collection[u.key] = "SUCCESSFUL"
                        /\ u.pc # "grant"
    <2>1. \E u : task' = [task EXCEPT ![w] = u]
      BY <1>0 DEF WorkerStep, FindPayment, Poll, ScheduleNext, Complete, Take, GoTo
    <2> QED
      BY <1>0, <1>1, <2>1, SettleTaskOnly DEF TypeInv, TypeOK
  <1>2. task'[w] = u
    BY <1>0, <1>1 DEF TypeInv, TypeOK
  <1>3. CASE FindPayment(w)
    <2>1. u = [t EXCEPT !.pc = "poll"] \/ u = Decided(w, payment[t.key].status)
      BY <1>0, <1>2, <1>3 DEF FindPayment, TypeInv, TypeOK
    <2> QED
      BY <1>0, <2>1, PastClaims DEF Claims, EventSteps, Tasks
  <1>4. CASE Poll(w)
    <2>1. CASE u = Thrown(w)
      BY <1>0, <2>1, PastClaims
    <2>2. CASE u # Thrown(w)
      <3>1. PICK s : /\ u = [t EXCEPT !.pc = "read", !.proposed = s]
                     /\ s = "SUCCESSFUL" => collection[t.key] = "SUCCESSFUL"
        <4>1. PICK s : /\ task' = [task EXCEPT ![w].pc = "read", ![w].proposed = s]
                       /\ s = "SUCCESSFUL" => collection[t.key] = "SUCCESSFUL"
          <5>1. task' # [task EXCEPT ![w] = Thrown(w)]
            BY <1>0, <1>2, <2>2 DEF TypeInv, TypeOK
          <5> QED
            BY <1>4, <5>1 DEF Poll
        <4>2. task'[w] = [t EXCEPT !.pc = "read", !.proposed = s]
          BY <1>0, <4>1 DEF TypeInv, TypeOK
        <4> QED
          BY <1>2, <4>1, <4>2
      <3>2. u.pc = "read" /\ u.key = t.key /\ u.proposed = s
        BY <1>0, <3>1 DEF Tasks
      <3>3. t.key \in Keys
        BY <1>0, <1>4 DEF Poll, At, TaskOK, Working, WorkerSteps
      <3> QED
        BY <3>1, <3>2, <3>3 DEF Claims
    <2> QED
      BY <2>1, <2>2
  <1>5. CASE ScheduleNext(w) \/ Complete(w)
    BY <1>0, <1>2, <1>5 DEF ScheduleNext, Complete, GoTo, Claims, EventSteps, Tasks, Idle, TypeInv, TypeOK
  <1>6. CASE \E j \in Jobs : Take(w, j)
    <2>1. u.pc = "find"
      BY <1>0, <1>2, <1>6 DEF Take, Idle, TypeInv, TypeOK
    <2> QED
      BY <2>1 DEF Claims, EventSteps
  <1> QED
    BY <1>3, <1>4, <1>5, <1>6 DEF WorkerStep

\* A step that changes tasks only, to idle or ended ones or to a retry.
LEMMA SettleRest ==
  ASSUME TypeInv, SettleInv,
         \/ \E r \in Requests, h \in Instances, k \in Keys :
                \/ ArriveCallback(r, k, h)
                \/ \E u \in Users, i \in Items : ArriveCheckout(r, k, u, i, h)
         \/ \E p \in Procs : DbError(p)
         \/ \E h \in Instances : Crash(h)
  PROVE  SettleInv'
  <1>0. task \in [Procs -> Tasks] /\ Requests \subseteq Procs
    BY DEF TypeInv, TypeOK, Procs
  <1>1. UNCHANGED <<payment, access, collection>>
    BY DEF ArriveCallback, ArriveCheckout, DbError, Crash, stored, operator
  <1>2. \A q \in Procs : Claims(task'[q]) \/ task'[q].pc = "grant" => task'[q] = task[q]
    <2>1. CASE \E r \in Requests, h \in Instances, k \in Keys :
                   \/ ArriveCallback(r, k, h)
                   \/ \E u \in Users, i \in Items : ArriveCheckout(r, k, u, i, h)
      <3>1. PICK r \in Requests, h \in Instances, k \in Keys :
                   \/ ArriveCallback(r, k, h)
                   \/ \E u \in Users, i \in Items : ArriveCheckout(r, k, u, i, h)
        BY <2>1
      <3>2. task'[r].pc \in {"note", "lookup", "answered"}
        <4>1. CASE ArriveCallback(r, k, h)
          BY <1>0, <4>1 DEF ArriveCallback, Ended, Idle
        <4>2. CASE \E u \in Users, i \in Items : ArriveCheckout(r, k, u, i, h)
          BY <1>0, <4>2 DEF ArriveCheckout, Idle
        <4> QED
          BY <3>1, <4>1, <4>2
      <3>3. \A q \in Procs : q # r => task'[q] = task[q]
        BY <1>0, <3>1 DEF ArriveCallback, ArriveCheckout
      <3> QED
        BY <3>2, <3>3 DEF Claims, EventSteps
    <2>2. CASE \E p \in Procs : DbError(p)
      BY <1>0, <2>2, PastClaims DEF DbError
    <2>3. CASE \E h \in Instances : Crash(h)
      BY <1>0, <2>3, PastClaims DEF Crash
    <2> QED
      BY <2>1, <2>2, <2>3
  <1> QED
    BY <1>1, <1>2 DEF SettleInv, Paid

LEMMA SettleAnswer ==
  ASSUME TypeInv, SettleInv, NEW k \in Keys, Answer(k)
  PROVE  SettleInv'
  <1>1. UNCHANGED <<payment, access, task>>
    BY DEF Answer, stored
  <1>2. \A i \in Keys : collection[i] = "SUCCESSFUL" => collection'[i] = "SUCCESSFUL"
    BY DEF Answer, TypeInv, TypeOK
  <1>3. \A q \in Procs : Claims(task[q]) => task[q].key \in Keys
    BY DEF TypeInv, TaskOK, Claims, Working, RequestSteps, Opening
  <1> QED
    BY <1>1, <1>2, <1>3 DEF SettleInv, Paid

LEMMA SettleNext == TypeInv /\ PromptInv /\ SettleInv /\ [Next]_vars => SettleInv'
  <1> SUFFICES ASSUME TypeInv, PromptInv, SettleInv, [Next]_vars PROVE SettleInv'
    OBVIOUS
  <1>1. CASE UNCHANGED vars
    BY <1>1 DEF vars, SettleInv, Paid
  <1>2. CASE Next
    BY <1>2, SettleCheckout, SettleEvent, SettleWorker, SettleRest, SettleAnswer DEF Next
  <1> QED
    BY <1>1, <1>2

LEMMA SettleInvariant == Spec => []SettleInv
  BY TypeInvariant, PromptInvariant, SettleInit, SettleNext, PTL DEF Spec

\* A payment is SUCCESSFUL only if the operator has its money.
THEOREM SettledIsPaid == Spec => []SettledByOperator
  <1>1. SettleInv => SettledByOperator
    BY DEF SettleInv, SettledByOperator, SettledAtMatches, isTerminal, Terminal
  <1> QED
    BY <1>1, SettleInvariant, PTL

\* Whoever has an ACTIVE seat or a replay has a settled payment for it that the
\* operator was paid.
THEOREM PaidAccess == Spec => []AccessIsPaid
  <1>1. SettleInv => AccessIsPaid
    BY DEF SettleInv, AccessIsPaid, Paid
  <1> QED
    BY <1>1, SettleInvariant, PTL

-----------------------------------------------------------------------------
(* With one API process the handlers implement the ledger *)

\* The deployment the ledger is promised for: one process, so one worker.
OneInstance == \A v, w \in Instances : v = w

\* A checkout from the row it created to the end of its recordEvent.
Calling == EventSteps \cup {"saveRef"}
Owning == Collecting \cup Calling

\* What a process may rely on when it overwrites a status it read earlier: a
\* worker has its payment to itself and asks only about a stored reference; a
\* checkout proposes no payment, and what it reports as failed cannot be paid.
TaskTruth(p, t, rows, coll) ==
    /\ t.pc = "write" => t.proposed # "INITIATED"
    /\ p \in Instances =>
           /\ t.pc = "log" /\ ~isTerminal(t.seen) => rows[t.key].status # "SUCCESSFUL"
           /\ t.pc = "write" => rows[t.key].status # "SUCCESSFUL"
           /\ t.pc = "poll" \/ Claims(t) => rows[t.key].providerRef
    /\ p \in Requests /\ t.pc \in Collecting => ~rows[t.key].providerRef
    /\ p \in Requests /\ t.pc \in Calling =>
           /\ t.proposed \in {"PENDING", "FAILED"}
           /\ t.proposed = "FAILED" =>
                  coll[t.key] = "NONE" \/ (t.pc # "saveRef" /\ ~rows[t.key].providerRef)

RowTruth(row) ==
    /\ row.status \notin {"FAILED", "TIMEOUT"}
    /\ row.status = "SUCCESSFUL" => row.providerRef

LedgerInv ==
    /\ \A k \in Keys : RowTruth(payment[k])
    /\ \A p \in Procs : TaskTruth(p, task[p], payment, collection)
    /\ \A q, r \in Requests :
           q # r /\ task[q].pc \in Owning /\ task[r].pc \in Owning => task[q].key # task[r].key

\* A task that relies on nothing, whatever the tables hold.
Relies(t) == t.pc \in Owning \cup {"poll"}

LEMMA RestTruth ==
  ASSUME NEW p, NEW t, NEW rows, NEW coll, ~Relies(t)
  PROVE  TaskTruth(p, t, rows, coll)
  BY DEF Relies, Owning, TaskTruth, Calling, Claims, EventSteps

LEMMA PastTruth ==
  ASSUME NEW p \in Procs, task[p] \in Tasks, NEW status, NEW rows, NEW coll
  PROVE  /\ TaskTruth(p, Returned(p, status), rows, coll)
         /\ p \in Instances => TaskTruth(p, Decided(p, status), rows, coll)
         /\ TaskTruth(p, Thrown(p), rows, coll)
         /\ Returned(p, status).pc \in Owning => p \notin Requests
         /\ Decided(p, status).pc \in Owning => Decided(p, status).pc = "read"
         /\ Thrown(p).pc \notin Owning
  <1>1. p \in Instances => p \notin Requests
    BY PaymentsAssumption
  <1>2. ~Relies(Thrown(p)) /\ Thrown(p).pc \notin Owning
    BY DEF Thrown, Relies, Calling, Owning, Collecting, EventSteps, Ended, Idle, Tasks
  <1>3. \/ ~Relies(Decided(p, status)) /\ Decided(p, status).pc \notin Owning
        \/ Decided(p, status).pc = "read" /\ Decided(p, status).proposed = "TIMEOUT"
    BY DEF Decided, Relies, Calling, Owning, Collecting, EventSteps, Tasks
  <1>4. p \notin Requests => TaskTruth(p, Decided(p, status), rows, coll)
    BY <1>3, RestTruth DEF TaskTruth, Claims
  <1>5. CASE p \in Requests
    <2>1. Returned(p, status).pc = "enqueue"
      BY <1>5 DEF Returned, Tasks
    <2>2. ~Relies(Returned(p, status)) /\ Returned(p, status).pc \notin Owning
      BY <2>1 DEF Relies, Calling, Owning, Collecting, EventSteps
    <2> QED
      BY <1>1, <1>2, <1>3, <1>5, <2>2, RestTruth
  <1>6. CASE p \notin Requests
    <2>1. Returned(p, status) = Decided(p, status)
          \/ Returned(p, status) = [task[p] EXCEPT !.pc = "complete"]
      BY <1>6 DEF Returned
    <2>2. TaskTruth(p, [task[p] EXCEPT !.pc = "complete"], rows, coll)
      <3>1. [task[p] EXCEPT !.pc = "complete"].pc = "complete"
        BY DEF Tasks
      <3> QED
        BY <3>1, RestTruth DEF Relies, Owning, Collecting, Calling, EventSteps
    <2> QED
      BY <1>2, <1>3, <1>4, <1>6, <2>1, <2>2, RestTruth
  <1> QED
    BY <1>5, <1>6

LEMMA LedgerInvInit == Init => LedgerInv
  <1> SUFFICES ASSUME Init PROVE LedgerInv
    OBVIOUS
  <1>1. \A k \in Keys : RowTruth(payment[k])
    BY PaymentsAssumption DEF Init, NoPayment, RowTruth, PaymentStatuses
  <1>2. \A p \in Procs : task[p].pc = "idle"
    BY DEF Init, Idle
  <1>3. \A p \in Procs : ~Relies(task[p]) /\ task[p].pc \notin Owning
    BY <1>2 DEF Relies, Calling, Owning, Collecting, EventSteps
  <1>4. Requests \subseteq Procs
    BY DEF Procs
  <1> QED
    BY <1>1, <1>3, <1>4, RestTruth DEF LedgerInv

\* A step of one process that leaves the others what they rely on.
LEMMA TruthStep ==
  ASSUME TypeInv, LedgerInv, NEW p \in Procs, NEW t, task' = [task EXCEPT ![p] = t],
         \A k \in Keys : RowTruth(payment'[k]),
         TaskTruth(p, t, payment', collection'),
         \A q \in Procs : q # p => TaskTruth(q, task[q], payment', collection'),
         p \in Requests /\ t.pc \in Owning =>
             \A q \in Requests : q # p /\ task[q].pc \in Owning => task[q].key # t.key
  PROVE  LedgerInv'
  <1>1. task'[p] = t /\ \A q \in Procs : q # p => task'[q] = task[q]
    BY DEF TypeInv, TypeOK
  <1>2. Requests \subseteq Procs
    BY DEF Procs
  <1>3. \A q \in Procs : TaskTruth(q, task'[q], payment', collection')
    BY <1>1
  <1>4. ASSUME NEW q \in Requests, NEW r \in Requests, q # r,
               task'[q].pc \in Owning, task'[r].pc \in Owning
        PROVE  task'[q].key # task'[r].key
    <2>1. CASE q = p
      BY <1>1, <1>2, <1>4, <2>1
    <2>2. CASE r = p
      BY <1>1, <1>2, <1>4, <2>2
    <2>3. CASE q # p /\ r # p
      BY <1>1, <1>2, <1>4, <2>3 DEF LedgerInv
    <2> QED
      BY <2>1, <2>2, <2>3
  <1> QED
    BY <1>3, <1>4 DEF LedgerInv

\* A step of one process that writes no payment and starts no collection.
LEMMA TruthTaskOnly ==
  ASSUME TypeInv, LedgerInv, UNCHANGED <<payment, collection>>,
         NEW p \in Procs, NEW t, task' = [task EXCEPT ![p] = t],
         TaskTruth(p, t, payment, collection),
         p \in Requests /\ t.pc \in Owning => task[p].pc \in Owning /\ t.key = task[p].key
  PROVE  LedgerInv'
  <1>1. /\ \A k \in Keys : RowTruth(payment'[k])
        /\ TaskTruth(p, t, payment', collection')
        /\ \A q \in Procs : q # p => TaskTruth(q, task[q], payment', collection')
    BY DEF LedgerInv
  <1>2. p \in Requests /\ t.pc \in Owning =>
             \A q \in Requests : q # p /\ task[q].pc \in Owning => task[q].key # t.key
    BY DEF LedgerInv
  <1> QED
    BY <1>1, <1>2, TruthStep

\* Collect alone changes what the operator has, and SaveProviderRef what a worker
\* may ask about: no other checkout of the same key relies on either.
LEMMA TruthCheckout ==
  ASSUME TypeInv, PromptInv, SettleInv, LedgerInv, NEW r \in Requests, CheckoutStep(r)
  PROVE  LedgerInv'
  <1> DEFINE t == task[r]
             k == t.key
  <1>0. /\ r \in Procs /\ t \in Tasks /\ TaskOK(t, payment) /\ task \in [Procs -> Tasks]
        /\ payment \in [Keys -> PaymentRows \cup {NoPayment}] /\ r \notin Instances
        /\ collection \in [Keys -> {"NONE", "PENDING"} \cup Terminal]
    BY PaymentsAssumption DEF TypeInv, TypeOK, Procs
  <1>1. CASE LookupKey(r) \/ ResolveTarget(r) \/ CheckSeat(r) \/ NoteCallback(r) \/ Enqueue(r)
    <2>1. PICK u : /\ task' = [task EXCEPT ![r] = u]
                   /\ u = Ended("answered")
                      \/ \E pc \in {"target", "seat", "create", "enqueue"} : u = [t EXCEPT !.pc = pc]
      BY <1>1 DEF LookupKey, ResolveTarget, CheckSeat, NoteCallback, Enqueue, GoTo
    <2>2. u.pc \in {"answered", "target", "seat", "create", "enqueue"}
      BY <1>0, <2>1 DEF Ended, Idle, Tasks
    <2>3. ~Relies(u) /\ u.pc \notin Owning
      BY <2>2 DEF Relies, Calling, Owning, Collecting, EventSteps
    <2>4. UNCHANGED <<payment, collection>>
      BY <1>1 DEF LookupKey, ResolveTarget, CheckSeat, NoteCallback, Enqueue, stored, operator
    <2> QED
      BY <1>0, <2>1, <2>3, <2>4, RestTruth, TruthTaskOnly
  <1>2. CASE CreatePayment(r)
    <2>1. k \in Keys /\ UNCHANGED collection
      BY <1>0, <1>2 DEF CreatePayment, At, TaskOK, Opening, operator
    <2>2. CASE task' = [task EXCEPT ![r] = Thrown(r)] /\ UNCHANGED payment
      BY <1>0, <2>1, <2>2, PastTruth, TruthTaskOnly
    <2>3. CASE KeyIsFree(k) /\ ~(task' = [task EXCEPT ![r] = Thrown(r)] /\ UNCHANGED payment)
      <3> DEFINE row == [user |-> t.user, item |-> t.item, status |-> "INITIATED",
                         providerRef |-> FALSE, settledAt |-> FALSE]
      <3>1. payment' = [payment EXCEPT ![k] = row]
        BY <1>2, <2>3 DEF CreatePayment
      <3>2. PICK pc \in Collecting : task' = [task EXCEPT ![r] = [t EXCEPT !.pc = pc]]
        BY <1>0, <1>2, <2>3 DEF CreatePayment, GoTo, Collecting
      <3>3. RowTruth(row)
        BY DEF RowTruth
      <3>4. ASSUME NEW q \in Procs, Relies(task[q]) \/ task[q].pc \in Owning
            PROVE  task[q].key \in Keys /\ task[q].key # k
        <4>1. TaskOK(task[q], payment)
          BY DEF TypeInv
        <4>2. task[q].pc \in Working
          BY <3>4 DEF Relies, Owning, Calling, Collecting, EventSteps, Working, RequestSteps,
             WorkerSteps, Opening
        <4>3. task[q].key \in Keys /\ payment[task[q].key] \in PaymentRows
          BY <4>1, <4>2 DEF TaskOK
        <4> QED
          BY <2>3, <4>3, RowExists DEF KeyIsFree, Exists
      <3> DEFINE u == [t EXCEPT !.pc = pc]
      <3>5. u.key = k /\ u.pc \in Collecting
        BY <1>0 DEF Tasks
      <3>6. \A i \in Keys : RowTruth(payment'[i])
        BY <1>0, <2>1, <3>1, <3>3 DEF LedgerInv
      <3>7. ASSUME NEW q \in Procs, q # r
            PROVE  TaskTruth(q, task[q], payment', collection')
        <4>1. CASE Relies(task[q])
          <5>1. TaskTruth(q, task[q], payment, collection)
            BY DEF LedgerInv
          <5>2. payment'[task[q].key] = payment[task[q].key] /\ UNCHANGED collection
            BY <1>0, <2>1, <3>1, <3>4, <4>1
          <5> QED
            BY <5>1, <5>2 DEF TaskTruth
        <4>2. CASE ~Relies(task[q])
          BY <4>2, RestTruth
        <4> QED
          BY <4>1, <4>2
      <3>8. \A q \in Requests : q # r /\ task[q].pc \in Owning => task[q].key # u.key
        BY <3>4, <3>5 DEF Procs
      <3> HIDE DEF u, row
      <3>9. task' = [task EXCEPT ![r] = u]
        BY <3>2 DEF u
      <3>10. ~payment'[k].providerRef
        BY <1>0, <2>1, <3>1 DEF row
      <3>11. TaskTruth(r, u, payment', collection')
        BY <1>0, <3>5, <3>10 DEF TaskTruth, Collecting, Calling, Claims, EventSteps
      <3> QED
        BY <1>0, <3>6, <3>7, <3>8, <3>9, <3>11, TruthStep
    <2> QED
      BY <1>2, <2>2, <2>3 DEF CreatePayment
  <1>3. CASE ReserveSeat(r)
    <2> DEFINE u == [t EXCEPT !.pc = "collect"]
    <2>1. /\ task' = [task EXCEPT ![r] = u] /\ t.pc = "reserve"
          /\ UNCHANGED <<payment, collection>>
      BY <1>0, <1>3 DEF ReserveSeat, GoTo, operator, At
    <2>2. u.pc = "collect" /\ u.key = k
      BY <1>0 DEF Tasks
    <2>3. t.pc \in Collecting /\ t.pc \in Owning
      BY <2>1 DEF Owning, Collecting
    <2> HIDE DEF u
    <2>4. ~payment[k].providerRef
      BY <1>0, <2>3 DEF LedgerInv, TaskTruth
    <2>5. TaskTruth(r, u, payment, collection)
      BY <1>0, <2>2, <2>4 DEF TaskTruth, Collecting, Calling, Claims, EventSteps
    <2> QED
      BY <1>0, <2>1, <2>2, <2>3, <2>5, TruthTaskOnly
  <1>4. CASE Collect(r)
    <2>1. k \in Keys /\ collection[k] = "NONE" /\ t.pc = "collect" /\ UNCHANGED payment
      BY <1>0, <1>4 DEF Collect, At, TaskOK, Working, RequestSteps, Opening, PromptInv, Collecting,
         stored
    <2>2. \A i \in Keys : i # k => collection'[i] = collection[i]
      BY <1>0, <1>4, <2>1 DEF Collect, operator
    <2>3. ASSUME NEW q \in Procs, q # r
          PROVE  TaskTruth(q, task[q], payment', collection')
      <3>1. TaskTruth(q, task[q], payment, collection)
        BY DEF LedgerInv
      <3>2. CASE q \in Requests /\ task[q].pc \in Calling
        <4>1. task[q].key # k
          BY <2>1, <2>3, <3>2 DEF LedgerInv, Owning, Collecting
        <4>2. task[q].key \in Keys
          BY <3>2 DEF TypeInv, TaskOK, Calling, Working, RequestSteps, Opening
        <4> QED
          BY <2>1, <2>2, <3>1, <4>1, <4>2 DEF TaskTruth
      <3>3. CASE ~(q \in Requests /\ task[q].pc \in Calling)
        BY <2>1, <3>1, <3>3 DEF TaskTruth
      <3> QED
        BY <3>2, <3>3
    <2>4. ~payment[k].providerRef
      BY <1>0, <2>1 DEF LedgerInv, TaskTruth, Collecting
    <2>5. PICK pc \in {"saveRef", "read"}, s \in {"PENDING", "FAILED"} :
              /\ task' = [task EXCEPT ![r] = [t EXCEPT !.pc = pc, !.proposed = s]]
              /\ s = "FAILED" => pc = "read" \/ UNCHANGED collection
      BY <1>0, <1>4 DEF Collect, Accepted, operator
    <2> DEFINE u == [t EXCEPT !.pc = pc, !.proposed = s]
    <2>6. u.pc = pc /\ u.proposed = s /\ u.key = k
      BY <1>0 DEF Tasks
    <2> HIDE DEF u
    <2>7. TaskTruth(r, u, payment', collection')
      BY <1>0, <2>1, <2>4, <2>5, <2>6 DEF TaskTruth, Claims, Collecting
    <2>8. \A q \in Requests : q # r /\ task[q].pc \in Owning => task[q].key # u.key
      BY <1>0, <2>1, <2>6 DEF LedgerInv, Owning, Collecting
    <2>9. \A i \in Keys : RowTruth(payment'[i])
      BY <2>1 DEF LedgerInv
    <2>10. task' = [task EXCEPT ![r] = u]
      BY <2>5 DEF u
    <2> QED
      BY <1>0, <2>3, <2>7, <2>8, <2>9, <2>10, TruthStep
  <1>5. CASE SaveProviderRef(r)
    <2> DEFINE row == [payment[k] EXCEPT !.providerRef = TRUE]
               u == [t EXCEPT !.pc = "read"]
    <2>1. k \in Keys /\ payment[k] \in PaymentRows /\ t.pc = "saveRef"
      BY <1>0, <1>5 DEF SaveProviderRef, At, TaskOK, Working, RequestSteps, Opening
    <2>2. /\ payment' = [payment EXCEPT ![k] = row] /\ task' = [task EXCEPT ![r] = u]
          /\ UNCHANGED collection
      BY <1>0, <1>5 DEF SaveProviderRef, GoTo, operator
    <2>3. row.status = payment[k].status /\ row.providerRef
      BY <2>1 DEF PaymentRows
    <2>4. u.key = k /\ u.proposed = t.proposed /\ u.pc = "read"
      BY <1>0 DEF Tasks
    <2> HIDE DEF row, u
    <2>5. /\ payment'[k] = row
          /\ \A i \in Keys : i # k => payment'[i] = payment[i]
      BY <1>0, <2>1, <2>2
    <2>6. TaskTruth(r, u, payment', collection')
      BY <1>0, <2>1, <2>2, <2>4 DEF LedgerInv, TaskTruth, Calling, Claims, Collecting
    <2>7. ASSUME NEW q \in Procs, q # r
          PROVE  TaskTruth(q, task[q], payment', collection')
      <3>1. CASE Relies(task[q])
        <4>1. TaskTruth(q, task[q], payment, collection)
          BY DEF LedgerInv
        <4>2. task[q].key \in Keys
          BY <3>1 DEF TypeInv, TaskOK, Relies, Owning, Collecting, Calling, Working, RequestSteps,
             WorkerSteps, Opening
        <4>3. q \in Requests /\ task[q].pc \in Owning => task[q].key # k
          BY <2>1, <2>7 DEF LedgerInv, Owning, Calling
        <4> QED
          BY <2>2, <2>3, <2>5, <4>1, <4>2, <4>3 DEF TaskTruth, Owning
      <3>2. CASE ~Relies(task[q])
        BY <3>2, RestTruth
      <3> QED
        BY <3>1, <3>2
    <2>8. \A i \in Keys : RowTruth(payment'[i])
      BY <2>3, <2>5 DEF LedgerInv, RowTruth
    <2>9. \A q \in Requests : q # r /\ task[q].pc \in Owning => task[q].key # u.key
      BY <2>1, <2>4 DEF LedgerInv, Owning, Calling
    <2> QED
      BY <1>0, <2>2, <2>6, <2>7, <2>8, <2>9, TruthStep
  <1> QED
    BY <1>1, <1>2, <1>3, <1>4, <1>5 DEF CheckoutStep

\* What a write that Postgres accepts changes: a status computed as an APPLY is
\* written to a row that has not moved out of its reach since, or changes nothing.
LEMMA WriteIsAdvance ==
  ASSUME TypeInv, SettleInv, LedgerInv, NEW p \in Procs, task[p].pc = "write",
         SettledAtMatches(Updated(payment[task[p].key], task[p].proposed))
  PROVE  LET t == task[p]
             row == payment[t.key]
         IN  /\ t.key \in Keys /\ row \in PaymentRows
             /\ \/ t.proposed = "PENDING" /\ row.status \in {"INITIATED", "PENDING"}
                \/ t.proposed = "SUCCESSFUL" /\ row.status \in {"INITIATED", "PENDING"}
                   /\ p \in Instances /\ row.providerRef
  <1> DEFINE t == task[p]
             row == payment[t.key]
  <1>1. /\ t.key \in Keys /\ row \in PaymentRows /\ t.proposed \in PaymentStatuses
        /\ t.proposed # "INITIATED"
    BY DEF TypeInv, TaskOK, Working, EventSteps, LedgerInv, TaskTruth
  <1>2. /\ row.status \in {"INITIATED", "PENDING", "SUCCESSFUL"}
        /\ row.settledAt <=> row.status = "SUCCESSFUL"
        /\ collection[t.key] = "NONE" => row.status # "SUCCESSFUL"
        /\ ~row.providerRef => row.status # "SUCCESSFUL"
    <2>1. RowTruth(row) /\ SettledAtMatches(row) /\ row.status \in PaymentStatuses
      BY <1>1 DEF LedgerInv, SettleInv, PaymentRows
    <2>2. row.settledAt => collection[t.key] = "SUCCESSFUL"
      BY <1>1 DEF SettleInv
    <2> QED
      BY <2>1, <2>2 DEF RowTruth, SettledAtMatches, isTerminal, Terminal, PaymentStatuses
  <1>3. (row.settledAt \/ t.proposed = "SUCCESSFUL") <=> isTerminal(t.proposed)
    BY <1>1 DEF SettledAtMatches, Updated, grantsAccess, PaymentRows
  <1>4. p \in Requests => t.proposed \in {"PENDING", "FAILED"} /\
           (t.proposed = "FAILED" => row.status # "SUCCESSFUL")
    BY <1>2 DEF LedgerInv, TaskTruth, Calling, EventSteps
  <1>5. p \in Instances => row.status # "SUCCESSFUL" /\ (t.proposed = "SUCCESSFUL" => row.providerRef)
    BY DEF LedgerInv, TaskTruth, Claims, EventSteps
  <1>6. p \in Requests \/ p \in Instances
    BY DEF Procs
  <1> HIDE DEF t, row
  <1>7. \/ t.proposed = "PENDING" /\ row.status \in {"INITIATED", "PENDING"}
        \/ t.proposed = "SUCCESSFUL" /\ row.status \in {"INITIATED", "PENDING"}
           /\ p \in Instances /\ row.providerRef
    BY <1>1, <1>2, <1>3, <1>4, <1>5, <1>6 DEF isTerminal, Terminal, PaymentStatuses
  <1> QED
    BY <1>1, <1>7 DEF t, row

LEMMA TruthEvent ==
  ASSUME OneInstance, TypeInv, SettleInv, LedgerInv, NEW p \in Procs, EventStep(p)
  PROVE  LedgerInv'
  <1> DEFINE t == task[p]
             k == t.key
  <1>0. /\ t \in Tasks /\ TaskOK(t, payment) /\ t.pc \in EventSteps
        /\ task \in [Procs -> Tasks] /\ payment \in [Keys -> PaymentRows \cup {NoPayment}]
    BY DEF TypeInv, TypeOK, EventStep, ReadStatus, LogEvent, WriteStatus, GrantAccess, At, EventSteps
  <1>1. k \in Keys /\ payment[k] \in PaymentRows /\ t.pc \in Owning
    BY <1>0 DEF TaskOK, Working, Owning, Calling
  <1>2. TaskTruth(p, t, payment, collection)
    BY DEF LedgerInv
  <1>3. CASE ReadStatus(p)
    <2> DEFINE u == [t EXCEPT !.pc = "log", !.seen = payment[k].status]
    <2>1. task' = [task EXCEPT ![p] = u] /\ UNCHANGED <<payment, collection>> /\ t.pc = "read"
      BY <1>0, <1>3 DEF ReadStatus, stored, operator, At
    <2>2. u.pc = "log" /\ u.key = k /\ u.proposed = t.proposed /\ u.seen = payment[k].status
      BY <1>0 DEF Tasks
    <2> HIDE DEF u
    <2>3. TaskTruth(p, u, payment, collection)
      BY <1>0, <1>2, <2>1, <2>2 DEF TaskTruth, Claims, Calling, EventSteps, Collecting, isTerminal,
         Terminal
    <2> QED
      BY <1>1, <2>1, <2>2, <2>3, TruthTaskOnly
  <1>4. CASE LogEvent(p)
    <2>1. PICK u : /\ task' = [task EXCEPT ![p] = u]
                   /\ \/ u = [t EXCEPT !.pc = "write"] /\ transition(t.seen, t.proposed) = "APPLY"
                      \/ u = Returned(p, t.seen)
      BY <1>4 DEF LogEvent
    <2>2. UNCHANGED <<payment, collection>> /\ t.pc = "log"
      BY <1>4 DEF LogEvent, operator, At
    <2>3. CASE u = Returned(p, t.seen)
      BY <1>0, <2>1, <2>2, <2>3, PastTruth, TruthTaskOnly
    <2>4. CASE u = [t EXCEPT !.pc = "write"] /\ transition(t.seen, t.proposed) = "APPLY"
      <3>1. u.pc = "write" /\ u.key = k /\ u.proposed = t.proposed /\ u.seen = t.seen
        BY <1>0, <2>4 DEF Tasks
      <3>2. ~isTerminal(t.seen) /\ t.seen \in PaymentStatuses
        BY <1>0, <2>2, <2>4 DEF transition, TaskOK
      <3>3. t.proposed # "INITIATED"
        BY <2>4, <3>2 DEF transition, Allowed, PaymentStatuses, isTerminal, Terminal
      <3>4. TaskTruth(p, u, payment, collection)
        BY <1>2, <2>2, <3>1, <3>2, <3>3 DEF TaskTruth, Claims, Calling, EventSteps, Collecting
      <3> QED
        BY <1>1, <2>1, <2>2, <3>1, <3>4, TruthTaskOnly
    <2> QED
      BY <2>1, <2>3, <2>4
  <1>5. CASE WriteStatus(p) /\ SettledAtMatches(Updated(payment[k], t.proposed))
    <2> DEFINE row == Updated(payment[k], t.proposed)
               u == IF grantsAccess(t.proposed) THEN [t EXCEPT !.pc = "grant"]
                    ELSE Returned(p, t.proposed)
    <2>1. /\ payment' = [payment EXCEPT ![k] = row] /\ task' = [task EXCEPT ![p] = u]
          /\ UNCHANGED collection /\ t.pc = "write"
      BY <1>5 DEF WriteStatus, operator, At
    <2>2. row.status = t.proposed /\ row.providerRef = payment[k].providerRef
      BY <1>1 DEF Updated, PaymentRows
    <2>3. \/ t.proposed = "PENDING"
          \/ t.proposed = "SUCCESSFUL" /\ p \in Instances /\ payment[k].providerRef
      BY <1>5, <2>1, WriteIsAdvance
    <2>4. /\ TaskTruth(p, u, payment', collection')
          /\ p \in Requests => u.pc \notin Owning
      <3>1. CASE t.proposed = "PENDING"
        BY <1>0, <3>1, PastTruth DEF grantsAccess
      <3>2. CASE t.proposed = "SUCCESSFUL" /\ p \in Instances /\ payment[k].providerRef
        <4>1. u.pc = "grant" /\ u.key = k /\ p \notin Requests
          BY <1>0, <3>2, PaymentsAssumption DEF Tasks, grantsAccess
        <4>2. payment'[k].providerRef
          BY <1>0, <1>1, <2>1, <2>2, <3>2
        <4> HIDE DEF u
        <4> QED
          BY <4>1, <4>2 DEF TaskTruth
      <3> QED
        BY <2>3, <3>1, <3>2
    <2> HIDE DEF row, u
    <2>5. payment'[k] = row /\ \A i \in Keys : i # k => payment'[i] = payment[i]
      BY <1>0, <1>1, <2>1
    <2>6. ASSUME NEW q \in Procs, q # p
          PROVE  TaskTruth(q, task[q], payment', collection')
      <3>1. CASE Relies(task[q])
        <4>1. TaskTruth(q, task[q], payment, collection)
          BY DEF LedgerInv
        <4>2. task[q].key \in Keys
          BY <3>1 DEF TypeInv, TaskOK, Relies, Owning, Collecting, Calling, Working, RequestSteps,
             WorkerSteps, Opening
        <4>3. q \in Instances => t.proposed = "PENDING"
          BY <2>3, <2>6 DEF OneInstance
        <4> QED
          BY <2>1, <2>2, <2>5, <4>1, <4>2, <4>3 DEF TaskTruth
      <3>2. CASE ~Relies(task[q])
        BY <3>2, RestTruth
      <3> QED
        BY <3>1, <3>2
    <2>7. \A i \in Keys : RowTruth(payment'[i])
      BY <2>2, <2>3, <2>5 DEF LedgerInv, RowTruth
    <2> QED
      BY <2>1, <2>4, <2>6, <2>7, TruthStep
  <1>6. CASE WriteStatus(p) /\ ~SettledAtMatches(Updated(payment[k], t.proposed))
    <2>1. task' = [task EXCEPT ![p] = Thrown(p)] /\ UNCHANGED <<payment, collection>>
      BY <1>6 DEF WriteStatus, operator
    <2> QED
      BY <1>0, <2>1, PastTruth, TruthTaskOnly
  <1>7. CASE GrantAccess(p)
    <2>1. task' = [task EXCEPT ![p] = Returned(p, t.proposed)] /\ UNCHANGED <<payment, collection>>
      BY <1>7 DEF GrantAccess, operator
    <2> QED
      BY <1>0, <2>1, PastTruth, TruthTaskOnly
  <1> QED
    BY <1>3, <1>4, <1>5, <1>6, <1>7 DEF EventStep

LEMMA TruthWorker ==
  ASSUME TypeInv, LedgerInv, NEW w \in Instances,
         WorkerStep(w) \/ \E j \in Jobs : Take(w, j)
  PROVE  LedgerInv'
  <1> DEFINE t == task[w]
  <1>0. /\ w \in Procs /\ w \notin Requests /\ t \in Tasks /\ TaskOK(t, payment)
        /\ UNCHANGED <<payment, collection>>
    BY PaymentsAssumption DEF TypeInv, TypeOK, Procs, WorkerStep, FindPayment, Poll, ScheduleNext,
       Complete, Take, stored, operator
  <1>1. SUFFICES ASSUME NEW u, task' = [task EXCEPT ![w] = u]
                 PROVE  TaskTruth(w, u, payment, collection)
    <2>1. \E u : task' = [task EXCEPT ![w] = u]
      BY <1>0 DEF WorkerStep, FindPayment, Poll, ScheduleNext, Complete, Take, GoTo
    <2> QED
      BY <1>0, <1>1, <2>1, TruthTaskOnly
  <1>2. task'[w] = u
    BY <1>0, <1>1 DEF TypeInv, TypeOK
  <1>3. CASE FindPayment(w)
    <2>1. \/ u = [t EXCEPT !.pc = "poll"] /\ payment[t.key].providerRef
          \/ u = Decided(w, payment[t.key].status)
      BY <1>0, <1>2, <1>3 DEF FindPayment, TypeInv, TypeOK
    <2>2. CASE u = [t EXCEPT !.pc = "poll"] /\ payment[t.key].providerRef
      <3>1. u.pc = "poll" /\ u.key = t.key
        BY <1>0, <2>2 DEF Tasks
      <3> QED
        BY <1>0, <2>2, <3>1 DEF TaskTruth
    <2> QED
      BY <1>0, <2>1, <2>2, PastTruth
  <1>4. CASE Poll(w)
    <2>1. CASE u = Thrown(w)
      BY <1>0, <2>1, PastTruth
    <2>2. CASE u # Thrown(w)
      <3>1. PICK s : u = [t EXCEPT !.pc = "read", !.proposed = s]
        <4>1. PICK s : task' = [task EXCEPT ![w].pc = "read", ![w].proposed = s]
          <5>1. task' # [task EXCEPT ![w] = Thrown(w)]
            BY <1>0, <1>2, <2>2 DEF TypeInv, TypeOK
          <5> QED
            BY <1>4, <5>1 DEF Poll
        <4>2. task'[w] = [t EXCEPT !.pc = "read", !.proposed = s]
          BY <1>0, <4>1 DEF TypeInv, TypeOK
        <4> QED
          BY <1>2, <4>2
      <3>2. u.pc = "read" /\ u.key = t.key
        BY <1>0, <3>1 DEF Tasks
      <3>3. payment[t.key].providerRef
        BY <1>0, <1>4 DEF Poll, At, LedgerInv, TaskTruth
      <3> QED
        BY <1>0, <3>2, <3>3 DEF TaskTruth
    <2> QED
      BY <2>1, <2>2
  <1>5. CASE ScheduleNext(w) \/ Complete(w) \/ \E j \in Jobs : Take(w, j)
    <2>1. u.pc \in {"complete", "idle", "find"}
      <3>1. CASE ScheduleNext(w) \/ Complete(w)
        BY <1>0, <1>2, <3>1 DEF ScheduleNext, Complete, GoTo, Tasks, Idle, TypeInv, TypeOK
      <3>2. CASE \E j \in Jobs : Take(w, j)
        BY <1>0, <1>2, <3>2 DEF Take, Idle, TypeInv, TypeOK
      <3> QED
        BY <1>5, <3>1, <3>2
    <2> QED
      BY <2>1, RestTruth DEF Relies, Owning, Collecting, Calling, EventSteps
  <1> QED
    BY <1>3, <1>4, <1>5 DEF WorkerStep

LEMMA TruthRest ==
  ASSUME TypeInv, LedgerInv,
         \/ \E r \in Requests, h \in Instances, k \in Keys :
                \/ ArriveCallback(r, k, h)
                \/ \E u \in Users, i \in Items : ArriveCheckout(r, k, u, i, h)
         \/ \E p \in Procs : DbError(p)
         \/ \E h \in Instances : Crash(h)
  PROVE  LedgerInv'
  <1>0. task \in [Procs -> Tasks] /\ Requests \subseteq Procs
    BY DEF TypeInv, TypeOK, Procs
  <1>1. UNCHANGED <<payment, collection>>
    BY DEF ArriveCallback, ArriveCheckout, DbError, Crash, stored, operator
  <1>2. \A q \in Procs : \/ task'[q] = task[q]
                         \/ ~Relies(task'[q]) /\ task'[q].pc \notin Owning
    <2>1. CASE \E r \in Requests, h \in Instances, k \in Keys :
                   \/ ArriveCallback(r, k, h)
                   \/ \E u \in Users, i \in Items : ArriveCheckout(r, k, u, i, h)
      <3>1. PICK r \in Requests, h \in Instances, k \in Keys :
                   \/ ArriveCallback(r, k, h)
                   \/ \E u \in Users, i \in Items : ArriveCheckout(r, k, u, i, h)
        BY <2>1
      <3>2. task'[r].pc \in {"note", "lookup", "answered"}
        <4>1. CASE ArriveCallback(r, k, h)
          BY <1>0, <4>1 DEF ArriveCallback, Ended, Idle
        <4>2. CASE \E u \in Users, i \in Items : ArriveCheckout(r, k, u, i, h)
          BY <1>0, <4>2 DEF ArriveCheckout, Idle
        <4> QED
          BY <3>1, <4>1, <4>2
      <3>3. \A q \in Procs : q # r => task'[q] = task[q]
        BY <1>0, <3>1 DEF ArriveCallback, ArriveCheckout
      <3> QED
        BY <3>2, <3>3 DEF Relies, Owning, Collecting, Calling, EventSteps
    <2>2. CASE \E p \in Procs : DbError(p)
      <3>1. PICK p \in Procs : task' = [task EXCEPT ![p] = Thrown(p)]
        BY <2>2 DEF DbError
      <3>2. Thrown(p).pc \in {"failed", "idle", "reschedule"}
        BY <1>0 DEF Thrown, Ended, Idle, Tasks
      <3> QED
        BY <1>0, <3>1, <3>2 DEF Relies, Owning, Collecting, Calling, EventSteps
    <2>3. CASE \E h \in Instances : Crash(h)
      <3>1. Idle.pc = "idle" /\ Ended("failed").pc = "failed"
        BY DEF Idle, Ended
      <3> QED
        BY <2>3, <3>1 DEF Crash, Relies, Owning, Collecting, Calling, EventSteps
    <2> QED
      BY <2>1, <2>2, <2>3
  <1>3. \A q \in Procs : TaskTruth(q, task'[q], payment', collection')
    BY <1>1, <1>2, RestTruth DEF LedgerInv
  <1> QED
    BY <1>0, <1>1, <1>2, <1>3 DEF LedgerInv

LEMMA TruthAnswer ==
  ASSUME TypeInv, LedgerInv, NEW k \in Keys, Answer(k)
  PROVE  LedgerInv'
  <1>1. UNCHANGED <<payment, task>>
    BY DEF Answer, stored
  <1>2. \A i \in Keys : collection[i] = "NONE" => collection'[i] = "NONE"
    BY DEF Answer, TypeInv, TypeOK
  <1>3. ASSUME NEW q \in Procs
        PROVE  TaskTruth(q, task[q], payment, collection')
    <2>1. TaskTruth(q, task[q], payment, collection)
      BY DEF LedgerInv
    <2>2. task[q].pc \in Calling => task[q].key \in Keys
      BY DEF TypeInv, TaskOK, Calling, Working, RequestSteps, Opening
    <2> QED
      BY <1>2, <2>1, <2>2 DEF TaskTruth
  <1> QED
    BY <1>1, <1>3 DEF LedgerInv

LEMMA LedgerInvNext ==
  ASSUME OneInstance
  PROVE  TypeInv /\ PromptInv /\ SettleInv /\ LedgerInv /\ [Next]_vars => LedgerInv'
  <1> SUFFICES ASSUME TypeInv, PromptInv, SettleInv, LedgerInv, [Next]_vars PROVE LedgerInv'
    OBVIOUS
  <1>1. CASE UNCHANGED vars
    BY <1>1 DEF vars, LedgerInv
  <1>2. CASE Next
    BY <1>2, TruthCheckout, TruthEvent, TruthWorker, TruthRest, TruthAnswer DEF Next
  <1> QED
    BY <1>1, <1>2

LEMMA LedgerInvariant ==
  ASSUME OneInstance
  PROVE  Spec => []LedgerInv
  BY TypeInvariant, PromptInvariant, SettleInvariant, LedgerInvInit, LedgerInvNext, PTL DEF Spec

-----------------------------------------------------------------------------
(* The refinement *)

LEMMA LedgerInitial == Init => Ledger!LedgerInit
  BY DEF Init, Ledger!LedgerInit, LedgerStatus, LedgerBuys, LedgerAdmitted, Exists

\* A step that writes no payment row and makes no seat ACTIVE.
LEMMA LedgerStutter ==
  ASSUME UNCHANGED payment,
         \A u \in Users, i \in Items : access'[u][i] = "ACTIVE" <=> access[u][i] = "ACTIVE"
  PROVE  UNCHANGED Ledger!ledgerVars
  <1>1. UNCHANGED <<LedgerStatus, LedgerBuys>>
    BY DEF LedgerStatus, LedgerBuys, Exists
  <1>2. UNCHANGED LedgerAdmitted
    BY DEF LedgerAdmitted
  <1> QED
    BY <1>1, <1>2 DEF Ledger!ledgerVars

\* A write of one row, in the ledger's terms.
LEMMA LedgerRow ==
  ASSUME TypeInv, NEW k \in Keys, NEW row \in PaymentRows, payment' = [payment EXCEPT ![k] = row],
         UNCHANGED access
  PROVE  /\ LedgerStatus' = [LedgerStatus EXCEPT ![k] = row.status]
         /\ LedgerBuys' = [LedgerBuys EXCEPT ![k] = <<row.user, row.item>>]
         /\ UNCHANGED LedgerAdmitted
         /\ LedgerStatus[k] = IF Exists(k) THEN payment[k].status ELSE "ABSENT"
         /\ LedgerBuys[k] = IF Exists(k) THEN <<payment[k].user, payment[k].item>> ELSE << >>
  <1>1. /\ payment'[k] = row /\ row # NoPayment
        /\ \A i \in Keys : i # k => payment'[i] = payment[i]
    BY RowExists DEF TypeInv, TypeOK
  <1>2. UNCHANGED LedgerAdmitted
    BY DEF LedgerAdmitted
  <1>3. Exists(k)' /\ \A i \in Keys : i # k => Exists(i)' = Exists(i)
    BY <1>1 DEF Exists
  <1>4. LedgerStatus' = [LedgerStatus EXCEPT ![k] = row.status]
    <2>1. /\ LedgerStatus = [i \in Keys |-> LedgerStatus[i]]
          /\ LedgerStatus' = [i \in Keys |-> LedgerStatus'[i]]
      BY DEF LedgerStatus
    <2>2. \A i \in Keys : LedgerStatus'[i] = IF i = k THEN row.status ELSE LedgerStatus[i]
      BY <1>1, <1>3 DEF LedgerStatus
    <2> QED
      BY <2>1, <2>2
  <1>5. LedgerBuys' = [LedgerBuys EXCEPT ![k] = <<row.user, row.item>>]
    <2>1. /\ LedgerBuys = [i \in Keys |-> LedgerBuys[i]]
          /\ LedgerBuys' = [i \in Keys |-> LedgerBuys'[i]]
      BY DEF LedgerBuys
    <2>2. \A i \in Keys : LedgerBuys'[i] = IF i = k THEN <<row.user, row.item>> ELSE LedgerBuys[i]
      BY <1>1, <1>3 DEF LedgerBuys
    <2> QED
      BY <2>1, <2>2
  <1> QED
    BY <1>2, <1>4, <1>5 DEF LedgerStatus, LedgerBuys

\* A write that keeps buyer, item and status of an existing row is a stutter.
LEMMA LedgerSameRow ==
  ASSUME TypeInv, NEW k \in Keys, NEW row \in PaymentRows, payment' = [payment EXCEPT ![k] = row],
         UNCHANGED access, Exists(k), row.user = payment[k].user, row.item = payment[k].item,
         row.status = payment[k].status
  PROVE  UNCHANGED Ledger!ledgerVars
  <1>1. /\ LedgerStatus = [i \in Keys |-> LedgerStatus[i]]
        /\ LedgerBuys = [i \in Keys |-> LedgerBuys[i]]
    BY DEF LedgerStatus, LedgerBuys
  <1>2. LedgerStatus[k] = row.status /\ LedgerBuys[k] = <<row.user, row.item>>
    BY LedgerRow
  <1>3. /\ LedgerStatus' = [LedgerStatus EXCEPT ![k] = row.status]
        /\ LedgerBuys' = [LedgerBuys EXCEPT ![k] = <<row.user, row.item>>]
        /\ UNCHANGED LedgerAdmitted
    BY LedgerRow
  <1>4. UNCHANGED LedgerStatus /\ UNCHANGED LedgerBuys
    BY <1>1, <1>2, <1>3
  <1> QED
    BY <1>3, <1>4 DEF Ledger!ledgerVars

LEMMA LedgerCheckout ==
  ASSUME TypeInv, NEW r \in Requests, CheckoutStep(r)
  PROVE  [Ledger!LedgerNext]_(Ledger!ledgerVars)
  <1> DEFINE t == task[r]
             k == t.key
  <1>0. t \in Tasks /\ TaskOK(t, payment)
    BY DEF TypeInv, TypeOK, Procs
  <1>1. CASE \/ LookupKey(r) \/ ResolveTarget(r) \/ CheckSeat(r) \/ NoteCallback(r)
             \/ Enqueue(r) \/ Collect(r)
    BY <1>1, LedgerStutter DEF LookupKey, ResolveTarget, CheckSeat, NoteCallback, Enqueue, Collect,
       stored
  <1>2. CASE CreatePayment(r)
    <2>1. k \in Keys /\ t.user \in Users /\ t.item \in Items /\ UNCHANGED access
      BY <1>0, <1>2 DEF CreatePayment, At, TaskOK, Opening
    <2>2. CASE UNCHANGED payment
      BY <2>1, <2>2, LedgerStutter
    <2>3. CASE KeyIsFree(k) /\ ~UNCHANGED payment
      <3> DEFINE row == [user |-> t.user, item |-> t.item, status |-> "INITIATED",
                         providerRef |-> FALSE, settledAt |-> FALSE]
      <3>1. payment' = [payment EXCEPT ![k] = row]
        BY <1>2, <2>3 DEF CreatePayment
      <3>2. row \in PaymentRows
        BY <2>1 DEF PaymentRows, PaymentStatuses
      <3>3. row.status = "INITIATED" /\ row.user = t.user /\ row.item = t.item
        OBVIOUS
      <3> HIDE DEF row
      <3>4. /\ LedgerStatus' = [LedgerStatus EXCEPT ![k] = row.status]
            /\ LedgerBuys' = [LedgerBuys EXCEPT ![k] = <<row.user, row.item>>]
            /\ UNCHANGED LedgerAdmitted
        BY <2>1, <3>1, <3>2, LedgerRow
      <3>5. LedgerStatus[k] = "ABSENT"
        BY <2>1, <2>3 DEF LedgerStatus, KeyIsFree
      <3>6. Ledger!Open(k, t.user, t.item)
        BY <3>3, <3>4, <3>5 DEF Ledger!Open
      <3> QED
        BY <2>1, <3>6 DEF Ledger!LedgerNext
    <2> QED
      BY <1>2, <2>2, <2>3 DEF CreatePayment
  <1>3. CASE ReserveSeat(r)
    <2>1. \A u \in Users, i \in Items : access'[u][i] = "ACTIVE" <=> access[u][i] = "ACTIVE"
      BY <1>3 DEF ReserveSeat, Reserved, TypeInv, TypeOK
    <2> QED
      BY <1>3, <2>1, LedgerStutter DEF ReserveSeat
  <1>4. CASE SaveProviderRef(r)
    <2> DEFINE row == [payment[k] EXCEPT !.providerRef = TRUE]
    <2>1. k \in Keys /\ payment[k] \in PaymentRows
      BY <1>0, <1>4 DEF SaveProviderRef, At, TaskOK, Working, RequestSteps, Opening
    <2>2. payment' = [payment EXCEPT ![k] = row] /\ UNCHANGED access
      BY <1>4, <2>1 DEF SaveProviderRef, TypeInv, TypeOK
    <2>3. /\ row.status = payment[k].status /\ row \in PaymentRows
          /\ row.user = payment[k].user /\ row.item = payment[k].item
      BY <2>1 DEF PaymentRows
    <2>4. Exists(k)
      BY <2>1, RowExists DEF Exists
    <2> HIDE DEF row
    <2> QED
      BY <2>1, <2>2, <2>3, <2>4, LedgerSameRow
  <1> QED
    BY <1>1, <1>2, <1>3, <1>4 DEF CheckoutStep

LEMMA LedgerEvent ==
  ASSUME TypeInv, SettleInv, LedgerInv, NEW p \in Procs, EventStep(p)
  PROVE  [Ledger!LedgerNext]_(Ledger!ledgerVars)
  <1> DEFINE t == task[p]
             k == t.key
  <1>0. t \in Tasks /\ TaskOK(t, payment) /\ t.pc \in EventSteps
    BY DEF TypeInv, TypeOK, EventStep, ReadStatus, LogEvent, WriteStatus, GrantAccess, At, EventSteps
  <1>1. k \in Keys /\ payment[k] \in PaymentRows /\ Exists(k)
    BY <1>0, RowExists DEF TaskOK, Working, Exists
  <1>2. CASE UNCHANGED <<payment, access>>
    BY <1>2, LedgerStutter
  <1>3. CASE WriteStatus(p) /\ SettledAtMatches(Updated(payment[k], t.proposed))
    <2> DEFINE row == Updated(payment[k], t.proposed)
    <2>1. payment' = [payment EXCEPT ![k] = row] /\ UNCHANGED access /\ t.pc = "write"
      BY <1>3 DEF WriteStatus, At
    <2>2. /\ t.proposed \in {"PENDING", "SUCCESSFUL"}
          /\ payment[k].status \in {"INITIATED", "PENDING"}
      BY <1>3, <2>1, WriteIsAdvance
    <2>3. /\ row.status = t.proposed /\ row \in PaymentRows
          /\ row.user = payment[k].user /\ row.item = payment[k].item
      BY <1>1, <2>2 DEF Updated, PaymentRows, PaymentStatuses, grantsAccess
    <2> HIDE DEF row
    <2>4. CASE payment[k].status = t.proposed
      BY <1>1, <2>1, <2>3, <2>4, LedgerSameRow
    <2>5. CASE payment[k].status # t.proposed
      <3>1. Ledger!transition(payment[k].status, t.proposed) = "APPLY"
        BY <2>2, <2>5 DEF Ledger!transition, Ledger!Allowed, Ledger!isTerminal, Ledger!Terminal
      <3>2. /\ LedgerStatus' = [LedgerStatus EXCEPT ![k] = row.status]
            /\ LedgerBuys' = [LedgerBuys EXCEPT ![k] = <<row.user, row.item>>]
            /\ UNCHANGED LedgerAdmitted
        BY <1>1, <2>1, <2>3, LedgerRow
      <3>3. /\ LedgerBuys = [j \in Keys |-> LedgerBuys[j]]
            /\ LedgerBuys[k] = <<row.user, row.item>> /\ LedgerStatus[k] = payment[k].status
        BY <1>1, <2>3 DEF LedgerBuys, LedgerStatus
      <3>4. UNCHANGED LedgerBuys
        BY <3>2, <3>3
      <3>5. LedgerStatus[k] # "ABSENT"
        BY <2>2, <3>3
      <3>6. Ledger!Advance(k, t.proposed)
        BY <2>3, <3>1, <3>2, <3>3, <3>4, <3>5 DEF Ledger!Advance
      <3> QED
        BY <1>1, <2>2, <3>6 DEF Ledger!LedgerNext, Ledger!PaymentStatuses
    <2> QED
      BY <2>4, <2>5
  <1>4. CASE GrantAccess(p)
    <2> DEFINE u == payment[k].user
               i == payment[k].item
    <2>1. access' = [access EXCEPT ![u][i] = "ACTIVE"] /\ UNCHANGED payment /\ t.pc = "grant"
      BY <1>4 DEF GrantAccess, Granted, At
    <2>2. payment[k].status = "SUCCESSFUL"
      <3>1. payment[k].settledAt /\ SettledAtMatches(payment[k]) /\ RowTruth(payment[k])
        BY <1>1, <2>1 DEF SettleInv, LedgerInv
      <3> QED
        BY <3>1 DEF SettledAtMatches, RowTruth, isTerminal, Terminal
    <2>3. u \in Users /\ i \in Items
      BY <1>1 DEF PaymentRows
    <2>4. \A v \in Users, j \in Items :
              access'[v][j] = "ACTIVE" <=> access[v][j] = "ACTIVE" \/ (v = u /\ j = i)
      BY <2>1, <2>3 DEF TypeInv, TypeOK
    <2>5. UNCHANGED <<LedgerStatus, LedgerBuys>>
      BY <2>1 DEF LedgerStatus, LedgerBuys, Exists
    <2>6. LedgerStatus[k] = "SUCCESSFUL" /\ LedgerBuys[k] = <<u, i>>
      BY <1>1, <2>2 DEF LedgerStatus, LedgerBuys
    <2> HIDE DEF u, i
    <2>7. LedgerAdmitted' = LedgerAdmitted \cup {<<u, i>>}
      BY <2>3, <2>4 DEF LedgerAdmitted
    <2>8. Ledger!Admit(k)
      BY <2>5, <2>6, <2>7 DEF Ledger!Admit
    <2> QED
      BY <1>1, <2>8 DEF Ledger!LedgerNext
  <1> QED
    BY <1>2, <1>3, <1>4 DEF EventStep, ReadStatus, LogEvent, WriteStatus, stored

LEMMA LedgerStep ==
  ASSUME TypeInv, SettleInv, LedgerInv, [Next]_vars
  PROVE  [Ledger!LedgerNext]_(Ledger!ledgerVars)
  <1>1. CASE UNCHANGED <<payment, access>>
    BY <1>1, LedgerStutter
  <1>2. CASE Next /\ ~UNCHANGED <<payment, access>>
    <2>1. \/ \E r \in Requests : CheckoutStep(r)
          \/ \E p \in Procs : EventStep(p)
      BY <1>2 DEF Next, ArriveCallback, ArriveCheckout, DbError, WorkerStep, FindPayment, Poll,
         ScheduleNext, Complete, Crash, Take, Answer, stored
    <2> QED
      BY <2>1, LedgerCheckout, LedgerEvent
  <1> QED
    BY <1>1, <1>2 DEF vars

\* With one API process every behaviour of the handlers, the worker and the
\* failures is a behaviour of the ledger: although recordEvent overwrites a status
\* it read two awaits ago (payments.service.ts:191-226), a payment advances only
\* along the lifecycle, and a buyer is admitted by a payment that is SUCCESSFUL.
THEOREM LedgerIsImplemented ==
  ASSUME OneInstance
  PROVE  Spec => ImplementsLedger
  <1>1. Init => Ledger!LedgerInit
    BY LedgerInitial
  <1>2. TypeInv /\ SettleInv /\ LedgerInv /\ [Next]_vars => [Ledger!LedgerNext]_(Ledger!ledgerVars)
    BY LedgerStep
  <1>3. Spec => []LedgerInv
    BY LedgerInvariant
  <1> QED
    BY <1>1, <1>2, <1>3, TypeInvariant, SettleInvariant, PTL
    DEF Spec, ImplementsLedger, Ledger!LedgerSpec

====
