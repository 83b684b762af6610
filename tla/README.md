# FRNTDesk: verification

FRNTDesk sells live video classes for mobile money. This directory holds TLA+
models of the program, the TLC configurations that check them on small
instances, and theorems that TLAPS proves for instances of every size.

    tlc -workers 2 -config race.cfg MCPayments     # one run
    tlapm PaymentsSafetyProofs.tla                 # one proof module

## 1. The system

The API (`apps/api`, NestJS over Prisma, PostgreSQL, Redis) is a set of request
handlers and one queue worker in each API process. All shared state is in
PostgreSQL and, for jobs, in Redis; handlers interleave at every `await`. Only
three places use a database transaction (class cancellation, invitation
acceptance, the `room_finished` webhook), and no transaction reads what it
decides upon. LiveKit (rooms, recording egress), the mobile money operator and
Auth0 are external and call back over HTTP. The web client (`apps/web`, Angular)
keeps some state of its own: the checkout page, the live room, the auth store.

| Component | State | Operations | Hard behaviour | What makes it correct |
|---|---|---|---|---|
| Payment lifecycle (`packages/shared/src/payment-state.ts`) | none, a pure table | `transition`, `grantsAccess`, `needsReconciliation` | none by itself | terminal states have no successor; only SUCCESSFUL grants |
| Payments (`payments.service.ts`, `payments.controller.ts`) | `Payment`, `PaymentEvent`, `Enrollment`, `RecordingAccess` | `checkout`, `reconcile`, `recordEvent`, `noteCallback`, `grantAccess` | replayed checkouts, callbacks before the response, crashes between statements, a CHECK constraint that rejects writes | one prompt for a key, only the operator's word settles, access is paid for, the log explains the status |
| Reconciliation worker (`reconciliation.processor.ts`) | BullMQ jobs in Redis | `process`, `scheduleNext` | exceptions, retries, give-up, stalled jobs, several workers | the schedule ends, an approved payment is settled, a give-up is recorded |
| MTN adapter (`mtn.provider.ts`) | a token cache | `collect`, `status` | lost responses, unreadable answers | a collection is never orphaned, no answer is never success |
| Enrolments (`enrollments.service.ts`) | `Enrollment` | `enrollFree` | count, then insert | capacity, one row for a person and class |
| Classrooms (`classrooms.service.ts`) | `Classroom` | `create`, `update`, `publish`, `cancel` | read, then write | a cancelled class stays cancelled; the price is frozen by the first seat |
| Session scheduling (`sessions.service.ts`) | `ClassSession` | `schedule`, `update`, `cancel` | overlap test, then write | no two sessions of a class overlap |
| Invitations (`invitations.service.ts`) | `Invitation` | `create`, `revoke`, `accept` | token read outside the transaction, expiry, reissue | single use, revoked stays revoked |
| Live sessions (`live.service.ts`) | `ClassSession.status`, `ClassParticipant`, the LiveKit room | `joinToken`, `promote`, `end`, `room_finished` | webhooks racing handlers, stale reads | a session that is over stays over; who may publish is what the host decided |
| Recording egress (`live.service.ts`) | `Recording`, LiveKit's egresses | `startRecording`, `stopRecording`, egress webhooks | out-of-order webhooks, two starts | at most one egress records a room, a finished recording stays finished |
| Recordings (`recordings.service.ts`) | `Recording.priceMinor` | `library`, `detail`, `price` | none: reads, and one write | entitlement agrees between list and detail |
| Identity (`auth.service.ts`) | `User` | `syncUser`, `updateProfile` | two logins racing | a linked row is never re-linked |
| Web: checkout page (`checkout.page.ts`) | the attempt's key, the payment shown, an interval | pay, try again, poll, leave | lost requests and answers, a page opened again | one payment for one visit; waiting ends when the payment is settled |
| Web: catalogue, class, replay, invitation | what was asked, what is shown | search, turn to another item, enrol, redeem | answers out of order, a visitor who is not known yet | what is shown is what was asked last; a good invitation is redeemed once |
| Web: account page, `AuthStore` | `currentUser`, the form | sync, type, save | a profile that arrives late | typing is not overwritten |
| Web: live room (`live-room.page.ts`) | the `Room`, the stage, hands, the recording badge | join, leave, raise a hand, promote, record, end, share the screen | callbacks after navigation, elements made later than tracks | flags and videos agree with the room; a page that is gone has left |
| Web: the host's pages (`features/host`) | `ManageStore`, three tabs, the invitation composer | edit, publish, schedule, cancel, revoke, invite | answers for tabs that are gone | header and lists show what the host did |
| Organisations, mail, health, configuration, seed, other pages | none of their own | reads, rendering, I/O | none | not modelled |

They interact as follows. A checkout writes a `Payment`, a pending `Enrollment`
and a job; the worker polls the operator and, through `recordEvent`, settles the
payment and activates the `Enrollment` (or creates the `RecordingAccess`), which
is what `joinToken`, the recordings library and the session list test. A free
enrolment and a comped invitation write the same `Enrollment` rows without a
payment. Cancelling a class cancels its scheduled sessions, which `joinToken`
and `publish` read. Ending a session closes its LiveKit room, and that ends its
egress, whose webhook completes the `Recording` that can then be sold.

`PROJECT.json` lists the components, what each module covers of them, and every
hazard with its line and the properties that watch it.

## 2. The plan

In order of what matters to the business: money first, then who gets in, then
the live room, then what surrounds them.

1. `PaymentState`, `Payments`, `PaymentLedger`, `PaymentsImplementLedger`:
   done, with `PaymentsProofs` and `PaymentsSafetyProofs` (section 3).
2. `LiveSession` (join, promote, end, `room_finished`, cancellation) and
   `RecordingEgress` (start, stop, webhooks in any order): done, with
   `LiveSessionProofs` and `RecordingEgressProofs` (sections 4 and 5).
3. `Seats`: free enrolment, settled payments and invitations against each other
   and against changes of price and capacity: done, with `SeatsProofs` (section 6).
4. `Timetable`: class lifecycle and sessions together, because `publish`,
   `cancel` and `schedule` read each other's rows: done, with `TimetableProofs`
   (section 7).
5. `Identity`: provisioning, linking, and the account page: done, with
   `BuyerProofs` (section 8).
6. `CheckoutPage`, `BuyerPages`, `LiveStage`, `LiveRoomPage`, `HostDesk`: the
   pages that keep a state of their own, put side by side in `MCWeb`: done, with
   `BuyerProofs` for the pages of a buyer and `WebProofs` for the others and for all
   of them together (section 9).

Left: an abstract session (SCHEDULED, LIVE, over) that `LiveSession` and
`Timetable` both refine when requests do not overlap; the composition in which
`end` is what stops a capture; the checkout page against `Payments` itself rather
than against a server that is more liberal.

Every safety property that a run checks is stated by a theorem; the refinement of
`PaymentLedger` too. Theorems left: what the sessions of `LiveSession` and `Timetable`
have in common, once they refine one abstract session. What stays with TLC is
liveness (section 11).
Modules meant for proof use no RECURSIVE operator.

## 3. Payments

### 3.1 State and steps

| Module | What it is |
|---|---|
| `PaymentState` | `payment-state.ts` as operators |
| `Payments` | checkout, callback, worker, operator and failures |
| `PaymentLedger` | what the rest of the program may rely on: a payment opens once, advances along the lifecycle, and only a SUCCESSFUL one admits its buyer |
| `PaymentsImplementLedger` | the refinement mapping from `Payments` to `PaymentLedger` |
| `MCPayments` | the definitions that the configurations give to TLC |
| `PaymentsProofs`, `PaymentsSafetyProofs` | theorems |

`payment`, `events`, `access` are the tables (`access[u][i]` is the `Enrollment`
or `RecordingAccess` row of buyer `u` for item `i`), `queue` the delayed and
waiting jobs, `collection` and `prompts` what the operator knows. `task[p]` is
the program counter and the local variables of a process `p`: an HTTP request,
or the worker of an API process.

An action is the code between two awaits around one statement to PostgreSQL,
Redis or the operator. `checkout` is `LookupKey`, `ResolveTarget`, `CheckSeat`,
`CreatePayment`, `ReserveSeat`, `Collect`, `SaveProviderRef`, then `recordEvent`,
then `Enqueue`, which the controller does after `checkout` has returned.
`recordEvent` is `ReadStatus`, `LogEvent`, `WriteStatus`, `GrantAccess` for every
caller; `Returned` says where its caller goes on. A callback is `ArriveCallback`,
`NoteCallback`, `Enqueue`. The worker is `Take`, `FindPayment`, `Poll`,
`recordEvent`, `ScheduleNext`, `Complete`.

Failures are `Crash` (an API process dies with its handlers and its worker),
`DbError` (one statement fails), and the outcomes of `Collect` and `Poll` that
`MishapKinds` names. A crash loses the handlers; the job that the worker held is
queued once more, then failed, as BullMQ does by default. `Thrown` is the
program's own error handling: a failed checkout answers 500, and a worker that
caught an exception of `reconcile` reschedules.

The CHECK `Payment_settled_at_matches_status` of the migration is part of
`WriteStatus`: PostgreSQL evaluates it on every update, and `recordEvent` sets
`settledAt` for SUCCESSFUL only. FAILED and TIMEOUT updates are therefore
rejected, except on a row that already has `settledAt`.

### 3.2 Abstractions

- Amounts, phone numbers, operator names and texts are left out. A checkout that
  is refused for a reason outside this module (phone, operator, class state,
  own class, price) is the first disjunct of `ResolveTarget`.
- Delays of jobs: `Take` takes any job. BullMQ decides when a delay is over, and
  the code relies on no order between jobs.
- `pollAttempts` is written and never read.
- `PaymentEvent` rows are a set: identical ones collapse. No property counts them.
- The fake provider, which forgets its collections on restart, is development only.
- `findForUser` only reads.

### 3.3 Runs

All runs are of `MCPayments`. Deadlock is not checked: clients stop after
finitely many requests, and then nothing is left to do.

| Run | Instance | Shows |
|---|---|---|
| `race` | 2 users, 1 class, 2 keys, 2 requests, 1 process, 2 attempts, any answer, any one failure | all safety properties and the refinement while two handlers race the worker |
| `settle` | 1 class, 1 replay, 2 requests, fairness, any one failure but an unreadable answer | over a failure, an approved, scheduled payment is settled (`ApprovedIsSettled`), what settles afterwards admits its buyer (`SettledIsGranted`), and every payment whose request was not cut off is reconciled (`ReachesReconciliation`) |
| `bug_schedule` | 1 buyer, who declines; fairness | the disagreement of section 3.6 |

Bounds. Two buyers and two keys are what a conflict needs: the properties relate
one payment to another payment, buyer or process. Two handlers are enough for
every race between two writers.
`MaxAttempts` is 2 where the code has 20 (reconciliation.processor.ts:22): the
worker only compares the attempt with it, so 2 has a first, a middle and a last attempt, and attempts
beyond are counted up to `AttemptCap`, above which they are all treated alike.
`MaxMishaps` bounds the failures of a behaviour to one; the proofs do not need
the bound. `settle` leaves out the answer nobody can read: the last poll takes it
for an operator that does not know the payment, and the worker gives up on a buyer
who has approved, as the code intends. Capacity is 1, so that the last seat is contended at once.

### 3.4 Fairness

`Fairness` is weak for the handler of each request and for each worker (the
event loop runs what is ready, and the pool answers) and strong for taking a job
of each payment: BullMQ serves ready jobs in order, so a payment that always
comes back to the queue is served again and again, although between two of its
turns its job is not there. Nothing is assumed of clients, callbacks, the
buyer's answer or failures.

### 3.5 Proofs

`PaymentsProofs` proves `Spec => []TypeOK`. `TypeOK` alone is not inductive:
`WriteStatus` writes `payment[t.key]` and `GrantAccess` indexes by the buyer of
that row, so `TypeInv` adds, for each program counter, what a handler may rely
on (`TaskOK`: the row exists from `CreatePayment` on, the proposal is a status)
and that a queued job names an existing row (`QueueOK`).

`PaymentsSafetyProofs` adds two layers.

- `PromptInv`: a process between `CreatePayment` and `Collect` is the only one
  with its key, and the operator has no collection for it. The argument is that
  `CreatePayment` needs a free key, and the others in that stretch have a row
  already. It yields `OnePrompt: Spec => []OnePromptPerKey`.
- `SettleInv`: `settledAt` implies that the operator has the money; the status
  and `settledAt` agree; who is about to record SUCCESSFUL is backed by the
  operator; who is about to grant has a row with `settledAt`; every ACTIVE seat
  has a settled payment. The status itself would not do: with two workers
  SUCCESSFUL can be overwritten (section 3.6), while `settledAt` is never taken
  back. `PromptInv` is needed so that no second `Collect` resets a collection
  that has been paid. It yields `SettledIsPaid: Spec => []SettledByOperator`
  and `PaidAccess: Spec => []AccessIsPaid`.

- `LedgerInv`, for `LedgerIsImplemented: OneInstance => (Spec => ImplementsLedger)`.
  That an `Advance` of the ledger is what `WriteStatus` does is not obvious, because
  the status is written long after it was read, and the next one was computed from
  what was read. `LedgerInv` says what excludes a bad overwrite. A worker that is
  about to write has a payment that is not SUCCESSFUL: with one worker nobody else
  settles. A checkout that overwrites proposes PENDING or FAILED, and no second
  checkout has its key; what it reports as FAILED was refused by the operator, or has
  no reference under which a worker could find it paid. FAILED and TIMEOUT are never
  in the table (the CHECK of 3.1), so the only terminal status to protect is
  SUCCESSFUL. The proof has a lemma for each action: the writes of the status and of
  the seat are steps of the ledger, every other action is a stutter.

The theorems hold for all values of the constants that satisfy
`PaymentsAssumption`: any number of buyers, keys, requests, API processes,
attempts and failures. `LedgerIsImplemented` alone assumes one API process
(`OneInstance`), as the configuration of `race` has it; section 3.6 has what two do.

Only model-checked: the liveness properties of `settle`, since proofs under fairness
are beyond the prover.

### 3.6 Where the code and its documentation disagree

| Run | What happens |
|---|---|
| `bug_schedule` | FAILED violates the `settledAt` CHECK, `reconcile` throws, and the exception path reschedules without comparing the attempt: a declined payment is polled for ever |

Four more of its statements do not hold (section 10 has the configurations):

- With two API processes the give-up of one writes TIMEOUT over the SUCCESSFUL of
  the other, so that `ImplementsLedger` fails with two `Instances` (`bug_unsettled`).
  The theorems hold for any number of them: the buyer who was admitted had paid.
- A checkout that dies after `payment.create` leaves a row without a job, and nothing
  scans for such rows (`bug_unqueued`). `ReachesReconciliation` therefore speaks of
  requests that neither died nor were answered with an error.
- A process that dies between the status update and the grant leaves a buyer who has
  paid outside, because `reconcile` skips settled payments (`bug_ungranted`).
  `SettledIsGranted` therefore begins when nothing fails any more: a payment that
  settles from then on admits its buyer, whatever had failed before.
- The reference is stored after the request, not before it as mtn.provider.ts:31-33
  says: a lost response orphans the collection (`bug_orphan`).

A pending seat holds no place. `CheckSeat` counts ACTIVE seats, so two buyers can
both be asked to pay for the last one, and `GrantAccess` admits both. No document
promises that paid seats stay within the capacity, and no property asks for it.

And without any failure the same CHECK rejects the TIMEOUT of the last attempt,
outside the `try` of `process`: the job fails, the payment stays PENDING and
nothing polls it any more. `ApprovedIsSettled` therefore speaks of payments that
a job still names.

## 4. Live sessions

### 4.1 State and steps

`LiveSession` is one session, the `LiveKit` room behind it, and the requests
about it; sessions share nothing but the seats. `session`, `rows` and `seats` are
`ClassSession.status`, the `ClassParticipant` rows and the ACTIVE enrolments.
`token`, `room`, `roomOpen` and `finished` are outside the program: the join
token a client holds, who is connected and may publish what, whether the room
exists, and whether a `room_finished` webhook is under way. `granted` is a
history variable: whom the host ever gave the floor.

| Handler | Actions |
|---|---|
| `joinToken` | `ArriveJoin` (reads the session), `CheckSeat`, `ReadParticipant`, `UpsertParticipant`, `GoLive` |
| `promote` | `ArrivePromote`, `UpdateLiveKit`, `UpdateParticipant` |
| `end` | `EndSession`, `DeleteRoom` |
| `sessions.cancel`, `classrooms.cancel` | `ArriveCancel`, `CancelSession`; `CancelClassroom` |
| `handleRoomFinished` | `ReadFinished`, `FinishSession` |
| failures | `Crash` (a request dies), `FailFinish` (the webhook handler dies, LiveKit sends again), LiveKit out of reach in `UpdateLiveKit` and `DeleteRoom` |
| around it | `Enrol`, `Connect`, `DropToken`, `Leave`, `RoomCloses` |

The token is minted before the upsert and signed after it, from the same values:
it comes into being with the answer (`Answer`), after the last write. What
`joinToken` and `promote` read after that only shapes the answer. Rows are never
deleted and the owner of a class never changes, so those checks are part of the
arrival. Of a user's unused tokens the latest is kept. Hand raising travels
between clients and reaches no row. `joinToken` also reads `existing.role` and
does not use it: somebody the host promoted to CO_HOST is a STUDENT again after a
reconnect, with the floor kept.

### 4.2 Runs

Deadlock is checked in the runs of this section and the next: the host can always
send another request.

| Run | Instance | Shows |
|---|---|---|
| `room_race` | host and student, 2 requests, webhooks repeated | types, `SpeakersWereGranted`, `LiveThroughHost` while handlers race |
| `room_calm` | host, student, a user who may enrol, `Prompt`, one failure, fairness | `Admitted`; `FloorIsKept`, that is `FloorIsTheHosts` and `FloorIsHeard`; `OverIsFinal`; `FinishIsTrue`, that is `GoneAreGone` and `FinishedIsEnded` |
| `bug_revived` | host and student, 2 requests | the disagreement of section 4.4 |

`Prompt` says that nothing is under way when a request arrives or an empty room
closes: no other request, no unused token, no undelivered webhook. Under it the
code does what its comments say. Two requests are what a race takes, since every
step touches the rows of one user and the one session; a third user shows that
enrolment while a session runs admits, and that a user who is no member stays
out. One failure at a time is what the code is written to survive.

Fairness, for `room_calm`: handlers that have started go on,
the webhook handler runs, and LiveKit closes an empty room (`empty_timeout`).
Nothing is assumed of users, arrivals or failures.

### 4.3 Proofs

`LiveSessionProofs` proves for every set of users, requests, seats and failures, in
two parts. With `Prompt` or without: `LiveTypeCorrect`, `OnlyMembersAreIn` (`Admitted`),
`FloorIsGranted` (`SpeakersWereGranted`) and `HostTakesLive`
(`LiveThroughHost`). The inductive invariant is `LiveInv`: those four and
`TasksAreTrue`, which says that what a request carries from an earlier read is
still good enough when it writes. A seat that was seen is still there, because
no operation takes seats away; a floor that was read or given belongs to somebody
in `granted`, which only grows, however stale the read is; a row that was found
is still there; who carries `live` is the host. Stale reads, as in
`bug_revived`, thus cannot admit a stranger or give the floor to somebody who
never had it.

Assuming `Prompt`: `WhatIsOverStaysOver` (`OverIsFinal`), `TheFloorIsKept`
(`FloorIsKept`) and `WhoIsGoneHasLeft` (`GoneAreGone`, the safety half of
`FinishIsTrue`). The invariant `CalmInv` adds to `LiveInv`:

| Part | Says | Needed because |
|---|---|---|
| `OneAtATime` | one request works, or tokens wait, or the webhook is on its way | `Prompt` speaks of arrivals only; handlers go on afterwards |
| `NobodyIsIn` | while the webhook is on its way nobody is in the room, and no token is left to come in with | `FinishSession` writes everyone down as gone |
| `ReadsAreFresh` | the session of a join is not over, and what a join is about to write back is the student's row | both are read steps before they are used |
| `FloorsAgree` | until something fails, tokens and LiveKit have the floor that the row has, or that the promote under way is about to write there | LiveKit is told before the row is written |

`FinishedIsEnded` is a liveness property and stays with TLC.

### 4.4 Where the code and its documentation disagree

| Run | What happens |
|---|---|
| `bug_revived` | the host's join writes LIVE over ENDED or CANCELLED |

Without `Prompt` three more formulas of `room_calm` fail (section 10 has the
configurations):

- `FloorIsTheHosts`: a reconnecting student's upsert writes back the floor it
  read before a promote (`bug_floor`).
- `FloorIsHeard`: promoting somebody who holds a token and is not connected yet
  leaves them muted (`bug_muted`).
- `GoneAreGone`: a late `room_finished` ends a session whose room is in use again
  (`bug_gone`).

Three things the model has and no property asks for: a failing `deleteRoom` is
logged and leaves the room and its recording running; after `end` nobody's
`leftAt` is ever set, because the webhook that would do it skips ENDED sessions,
so attendance is known only of sessions that nobody ended; and a student who looks in
before the host and leaves ends the session, because `room_finished` ends a
SCHEDULED session too, which its host can then not open.

## 5. Recording egress

### 5.1 State and steps

`RecordingEgress` is the capture of one session. `recording` is its `Recording`
row, `egress` what LiveKit knows of each capture, `sent` the webhooks LiveKit has
posted. A start is `ArriveStart`, `RequireLive`, `ReadBeforeStart`, `StartEgress`,
`SaveRecording`; a stop is `ArriveStop`, `RequireLive`, `ReadBeforeStop`,
`StopEgress`. `Webhook` is `handleEgressUpdate`, one `updateMany`. LiveKit's own
steps are `Capture`, `Finish`, `Abort` and `RoomCloses`; `SessionEnds` stands for
`LiveSession`. Failures: a request dies (`Crash`), the answer of
`startRoomCompositeEgress` is lost, a webhook is never delivered.

LiveKit's seven states are five here, because the code treats ABORTED and
LIMIT_REACHED as FAILED. Storage key, duration and size are one flag, `file`,
which distinguishes a row with the details from one without. `reordered` is a
history variable: whether a webhook overtook an earlier one of its capture or
came again.

### 5.2 Runs

| Run | Instance | Shows |
|---|---|---|
| `egress` | 1 request at a time, 2 captures, webhooks late, repeated, reordered, any one failure, fairness | `OfferedIsPlayable`, `RecordingIsKept`, and `CaptureIsInHand`, that is `SingleCapture`, `CaptureIsKnown` and `StopIsFollowed` |
| `bug_two_captures` | 2 starts at once | the disagreement of section 5.4 |

A capture can follow a failed one only, so two captures give a first and a last
attempt with webhooks of the first still under way. Two starts that overlap are
the subject of `bug_two_captures`, and of the theorem, which allows any number.
`SingleCapture` and `CaptureIsKnown` end at the first failure: a request that dies
between `startRoomCompositeEgress` and the upsert leaves a capture no row names.
`RecordingIsKept` and `StopIsFollowed` end when webhooks do not come in order.

Fairness: handlers that have started go on, LiveKit completes a capture it was
told to end, and the webhooks of every capture are delivered. Nothing is assumed
of the host, nor that a capture ever starts.

### 5.3 Proofs

`RecordingEgressProofs` proves, for any number of requests, captures and failures:

- `EgressTypeCorrect` and `Playable` (`Spec => []OfferedIsPlayable`), with webhooks in
  any order. The invariant `EgressInv` adds `SentIsTrue`: a webhook under way that
  says COMPLETE or FAILED is true of its capture, whose state is then final. What a
  row names is overwritten by every start and every webhook, yet always together with
  the status that belongs to that capture, since `updateMany` matches on the egress id.
- `CompleteIsKept` (`RecordingIsKept`) and `CaptureIsHeld`
  (`Spec => [](SingleCapture /\ CaptureIsKnown)`, the safety half of
  `CaptureIsInHand`), assuming `OneRequest`, that there is one request at a time: two
  starts break both (section 5.4). `EndInv` says that the end of a capture is told
  once, and that nothing is on its way about a capture whose end the row has, unless
  webhooks came out of order. `HandInv` adds `StartsAreFree`: between the check of a
  start and its upsert the capture of the row is over. The status in the row is not
  enough for that, because a late webhook can turn FAILED back into ACTIVE in between;
  that LiveKit has finished the capture, nothing turns back.

`StopIsFollowed` is a liveness property and stays with TLC.

### 5.4 Where the code and its documentation disagree

| Run | What happens |
|---|---|
| `bug_two_captures` | two starts at once both capture; the second row hides the first egress |

Out of order, a late `egress_updated` turns COMPLETE into ACTIVE and erases the
file (`bug_undone`). A capture that fails before its row is written leaves the row
STARTING for ever, since its webhook found no row, and with it no second attempt
(`bug_instep`).

## 6. Seats

### 6.1 State and steps

`Seats` is one class: who holds a seat in it, on what grounds, and what the host
changes meanwhile. `seat` and `invite` are `Enrollment.status` and the
`Invitation` row of one address (a class has one row for each address, and rows of
different addresses never meet); `quoted` is the amount of a user's latest
`Payment`; `class` holds what `enrollFree`, `checkout` and `accept` ask of the
class.

| Handler | Actions |
|---|---|
| `enrollFree` | `Enrol` (class and count), `EnrolReadsSeat`, `EnrolWrites` |
| `checkout`, `grantAccess` | `Checkout`, `CheckoutReadsSeat`, `CheckoutReserves`; `Settle` |
| `classrooms.update` | `Update`, `UpdateCounts`, `UpdateWrites` |
| `invitations.create`, `revoke` | `Invite` (one upsert); `Revoke`, `RevokeWrites` |
| `invitations.accept` | `Accept`, then `ExpireWrites` or `AcceptWrites` (one transaction) |
| failures | `Crash`: a request dies, or its statement fails |

`OpenOrClose` stands for `publish` and `cancel`, more liberally than `Timetable`
has them: whatever holds here holds for the class life cycle there. `Settle` may
happen at any time after the checkout, more than once; `Payments` says when.
Whether an invitation has expired is left open at every `accept`. The
history variable `past` remembers on what grounds a seat can have been taken (`free`,
`comps`, `redeemed`, `paid`) and how many free enrolments were ever under way at once.

The handlers read first and write later without a guard, so that not every change can
be excluded. The properties say from when on nothing can go wrong any more, and which
step alone may:

- `PriceIsAgreed`: once somebody has a seat, or one reserved, and no update is about to
  write another price (`IsFrozen`), the price stays, and whoever is charged from then
  on is charged it. An update that was about to write when the seat was reserved is
  what it does not speak of (`bug_price`).
- `InvitationTellsTruth`: the row says who used the invitation until a request goes on
  with a row that has changed since it looked (`Overlooks`): a second accept
  (`bug_token`), a revoke over ACCEPTED, EXPIRED over an invitation that was sent
  again. And a token that is spent, with nobody left who found it open (`IsSpent`),
  admits nobody any more, whatever comes and overlaps from then on.

### 6.2 Runs

| Run | Instance | Shows |
|---|---|---|
| `seats` | 2 requests at once, 2 users beside the host, 1 place, a free price and one other, an invitation sent twice | `SeatIsEarned`, `SeatIsKept`, `PriceIsAgreed`, `InvitationTellsTruth` |
| `seats_full` | 2 requests at once, 3 users beside the host, 1 place, free | `OverbookingIsBounded`: two enrolments at once oversell by one, and never by two |

Two requests are what a race takes; two users compete for the place and for the
invitation; the second token is the reissue. That racing enrolments oversell by one
less than their number, never more, takes a third user to go wrong. `SeatIsEarned`,
`SeatIsKept` and `OverbookingIsBounded` hold in every order, races included.

`OverbookingIsBounded` is about free seats. Seats that are paid for or comped are not
held to the capacity when they are granted. An update that leaves out the capacity
sets it back to 100, because the schema fills in a default; in the model every update
names a capacity.

### 6.3 Proofs

`SeatsProofs` proves six theorems for any users, requests, tokens, prices and
capacities; the users, the requests and the capacities are finite sets, because
`TypeOK` and `OverbookingIsBounded` count them.

| Theorem | Strengthening | Why it is needed |
|---|---|---|
| `SeatsTypeCorrect` | `TypeInv`: a request about the invitation found a row, and rows stay | `revoke` and `accept` write to the row that they read |
| `SeatsAreKept` | `TypeInv` | no step but an upsert of a seat writes one |
| `SeatsAreEarned` | `GroundInv`: whoever is on the way to a seat has grounds for it already; `past` only grows | the price may go up, or the invitation be sent again, between the check and the write |
| `PricesAreAgreed` | `TypeInv` | `PriceStays`: while the price is frozen an update that counts finds a holder, so none comes to write another one; rows of holders are never deleted, so it stays frozen |
| `InvitationsTellTruth` | `TokenInv`: tokens that were redeemed, or are about to be, were issued | a token that is sent anew must not have admitted anyone yet, and a spent one is never sent again |
| `OverbookingIsLimited` (`OverbookingIsBounded`) | `BookInv`: the seats taken and those about to be taken are together fewer than some capacity plus `past.abreast`, and no more are about to be than `past.abreast` | when the last one counted there was room for one more, but those who counted beside it have not written; the sum stays as it is when they do |

## 7. Timetable

`Timetable` is the class with its sessions. A request is `Schedule`, `Move`
(`update`), `CancelSession`, `Publish` or `CancelClass`, each with the steps after
it; `CancelClassWrites` is one transaction. Instants are 0 to `MaxTime`, and
`Schedule` alone is held to `MaxLength` (the schema's eight hours), as in the code.
`Join` and `GoLive` are the host's `joinToken`, which reads that a session is SCHEDULED
and writes LIVE several awaits later, by id; `Ends` is `end` and `room_finished`, which
write ENDED over whatever is there. `LiveSession` has the other steps of these handlers.
The history variable `abreast` counts how many requests were ever placing a session, or
taking one live, at once.

| Run | Instance | Shows |
|---|---|---|
| `timetable` | 3 sessions, 2 requests, instants 0 to 2 | `SessionsMakeSense` (types, and every session ends after it starts), `ClashIsBounded`, `OverIsFinal` |

Three sessions make an overlap of three imaginable, which two requests at once
cannot bring about; instants 0 to 2 have intervals that touch, nest and overlap.

`ClashIsBounded` says that no two sessions overlap when requests come one by one,
and how many can when they do not: the overlap test and the insert are two
statements, and a session can be cancelled, its time given away, and then be taken live
by a join that had read it before.

`OverIsFinal` says it of the class and of each session by itself, for good: a cancelled
class stays cancelled once no publish of it is under way, a session that is over stays
over once no join is about to take it live, and one that has ended stays ENDED once no
cancel of it is under way. The requests that are under way at that moment do the damage:
`publish` writes PUBLISHED over a CANCELLED of since (`bug_relaunched`), the join of the
host LIVE over CANCELLED or ENDED (`bug_revived`, section 4). ENDED may be written over
CANCELLED at any time, which is over either way.

`update` only asks that a session ends after it starts, so a session can be moved, one
end at a time, to any length (`bug_long`); schemas/classroom.ts:80-84 says that both
checks of the schema are made again.

`TimetableProofs` proves, for any sessions and instants and any finite set of requests:

- `TimetableMakesSense` (`Spec => []SessionsMakeSense`) and `WhatIsOverIsFinal`
  (`Spec => OverIsFinal`). The invariant `TimetableInv` adds that what a request is
  about to write makes sense, and that the row it goes to exists: the check of the
  order of both ends is made against what the request read, yet it writes both ends.
- `ClashesAreBounded` (`Spec => []ClashIsBounded`). `ClashInv` counts, for each
  instant, the sessions that take place then, the requests about to write one that
  does, and the joins about to bring one back, a session that is about to be moved
  within the instant or taken live only once: there are no more than `abreast`. The
  step that matters is the overlap test: it passes when no session is there, so
  afterwards only the requests count, and these are no more than were ever at it
  together. A write turns a request into a session, one for one.

## 8. Identity

`Identity` is the `User` table and one browser tab. `syncUser` is `FindBySub`, then
`Refresh`, or `FindByEmail` and then `Link` or `Create`; `updateProfile` is
`FindProfile`, `SaveProfile`. The account page is `SignedIn`, `ProfileArrives`,
`Type`, `Save`, `Saved`, `Failed`, `LoseReply`, `Reload`. Rows that the seed made
have no identity yet and an address that counts as verified. `Calls` are the tab's
own request and one from elsewhere, of any identity that claims any address.

It is checked in run `web`, as page "account". `IdentityIsKept`: a row that is linked,
and that no other request has read as unlinked and is about to link (`IsOwned`), is never
given to another identity; one that is verified, and that nobody has read as unverified
and is about to write (`IsVerified`), stays so; both for good, whatever overlaps from then
on. The request that had read before does the damage: two identities that both read a row
without identity both link it (`bug_takeover`), and a refresh writes back the row as
unverified (`bug_unverified`). `TypedIsKept`: a profile that arrives late does not
overwrite what was typed. Two rows, two identities and two addresses are what it takes
for a row to be contended and for an address to be claimed by the wrong one.

`BuyerProofs` proves `IdentityTypeCorrect` and `LinkedRowsAreKept`
(`IdentitySpec => IdentityIsKept`) for any rows, identities, addresses and calls. The
invariant `IdentityInv` adds that a call which found a row goes on with one that
exists, and that what it read of a row it is about to link had no identity. A call that
finds a row which is owned already cannot come to link it, so `IsOwned` lasts; and one
that reads a verified row writes it verified, so `IsVerified` does. `MCIdentity` has the
table and the account page by themselves, for the configurations of section 10.

Not asked by a property, and so: every `syncUser` writes Auth0's name over a chosen
one; what is typed while a save is under way counts as saved; a sync that fails is
not tried again before the page is reloaded.

## 9. The pages

What a page of the web application keeps goes with it, and `AuthStore`, which
outlives the pages, is part of the modules that read it. So `MCWeb` opens one page
(`open`, chosen at the start) and leaves the others as they were. In all of them a
question and its answer travel apart, either may be lost, and the server does its
part in between, more liberally than the modules above.

| Module | What it is | Properties | Bounds |
|---|---|---|---|
| `CheckoutPage` | the attempt's key, `POST /payments/checkout`, the interval that polls | `PaysOncePerVisit`, `WaitingEnds` | 3 keys; the page is opened `MaxVisits` = 2 times |
| `BuyerPages` | the search of the catalogue; one class or replay; the invitation | `LatestIsShown`, `InvitationIsNotWasted` | 2 queries, 2 items, `MaxLoads` = 3 questions of a page |
| `LiveStage` | the large video and the inset, screen sharing, for whoever is in the room | `StageIsCurrent` | the viewer (host or not), a teacher and a pupil, 4 tracks |
| `LiveRoomPage` | the tabs of host and students, LiveKit's messages between them | `RoomIsTold`, `GoneIsDisconnected` | host and student; the host opens the page once, the student twice; `MaxWire` = 2 messages on their way |
| `HostDesk` | the header with its store, three tabs, the composer | `DeskIsCurrent`, `DetailsAreKept` | 1 session and 1 invitation, `MaxAsks` = 2 requests, `MaxEdits` = 1 |

`EditsAreKept` is `TypedIsKept` and `DetailsAreKept`. Two of everything is what it
takes for an answer to overtake another, for a second visit to know nothing of the
first, and for a message to be behind another; four tracks are a screen and three
cameras, or fewer of them and some to replace them. Deadlock is not checked in `web`, since a page whose bounds
are used up stops.

`LiveStage` has everybody in the room: the viewer first, the others as they joined,
each with a camera that can be muted, and the host's screen. `refreshStage` shows the
screen and the first camera that is on; the second promoted student is heard and not
seen, and `StageIsCurrent` says no more than that.

`HostDesk` has the form of the details as it is before the class arrives too: what is
typed then (`early`) is overwritten by the class (`replaced`). `DetailsAreKept` begins
once the class is in the form, as the comment of the page does
(manage-details.tab.ts:125-126). Cancelling the class takes its scheduled sessions with
it on the server (`ListsAfter`); an open Sessions tab is not told, and `DeskIsCurrent`
admits such a row as the page has it.

History variables excuse what the pages do not handle, and no document promises:
`overtaken` (what a class's page shows is an older answer that came after a newer one:
the page does not cancel the older question) and `lost` in `BuyerPages`; `untold` in
`LiveRoomPage` (for each person and subject: a capture ended without a message, or
somebody joined between the change and the telling) and `ghost` (the page was left
before there was a room to leave, and `join` goes on); `misled` in `HostDesk` (of the
header or of the rows: an answer was lost, overtaken by a newer one, or came to a page
that is gone). Each ends as soon as the page, or the part of it, is made anew;
`overtaken` also with the next newer answer, `untold` with the next message.

The proofs are in two modules: `BuyerProofs` for the pages of a buyer, each after its
own specification, and `WebProofs` for the live room, the host's pages and `MCWeb`.

| Theorem | Invariant | What it adds, and why |
|---|---|---|
| `OnePaymentPerVisit` (`PaysOncePerVisit`) | `CheckoutInv` | all that is under way is about the attempt shown, a failure that is shown, or on its way, has happened, and every other attempt failed or was left behind by a visit: a new key is drawn after a failure or on a new visit, so the others worth something are fewer than the visits |
| `PagesShowTheLatest` (`LatestIsShown`) | `BuyerInv` | `CatalogTruth`: only the search that is wanted is under way, since `switchMap` drops the others. `LoadsInOrder`, `NewestIsComing`, `NewestIsTrue`: questions are numbered, the newest is about the item of the page, is answered or will be, and what its answer says holds, but for an enrolment whose own reload is still to come |
| `InvitationsAreNotWasted` (`InvitationIsNotWasted`) | `BuyerInv` | `LandingTruth`: a token is spent by the page's own attempt only, of which there is one, made for a visitor the server knows |
| `StageShowsTracks` (`StageIsCurrent`) | `StageInv` | `StageTruth`: each element carries what the pick of the last event gave it, and nothing while it does not exist, although elements appear a rendering later than tracks; the pick is the first camera that is on, of any number of participants |
| `GoneAreDisconnected`, `TheRoomIsTold` (`GoneIsDisconnected`, `RoomIsTold`) | `RoomInv` | `Joining`: a page that is gone has left the room it had, and gets no messages. `BadgeTold`, `HandTold`: whoever believes something else than what holds has the last word on it in the queue (`Tells`), or is in `untold` |
| `TheDeskIsCurrent` (`DeskIsCurrent`) | `DeskInv` | `AnswersFit`: an answer is no newer than the server. `TabsFit`: it is for the tab that is open, or for nobody. `HeaderTruth`, `RowTruth`: a header or row that is out of date has an answer on its way that sets it right, or shows an error, or was misled; a row of a session that went with its class may stay |
| `DetailsStay` (`DetailsAreKept`) | `DeskInv` | a late answer reaches the form only as the answer of its own save |

`WebImplementsPages` composes them: each step of `WebSpec` is a step of the page that
is open and a stutter of every other, so `WebSpec` implies the specification of each
page, and `WebTypeCorrect`, `EditsStay` (`EditsAreKept`) and `PagesKeepTheirPromises`
follow for the whole. The theorems hold for any number of keys, visits, items, queries,
tracks, students, joins, messages, sessions, invitations and requests. Assumed of the
constants: bounds are numbers, at least one load, join and request is possible, there
are keys enough for the visits, the host is not a student, there is a session or
invitation to list, and `Nothing`, `NoAnswer` and `None` differ from what can be said.

Fairness, for `WaitingEnds`: the interval ticks (weak), and again and again a poll is
handled and its answer arrives before the next tick drops it (strong, because
`switchMap` takes a slow question away). That a payment settles is not assumed: the
property is about one that has.

Not asked by a property, and so: the catalogue's search is dead after one failed
request; a price that does not parse leaves the details' save button waiting; the
answer to an invitation that was sent takes the host to the list from wherever the
host is by then.

## 10. What the code does not keep, and known limits

Some statements of the repository do not hold when requests overlap, or when something
fails at the wrong place. Three of them are runs (`bug_schedule`, `bug_revived`,
`bug_two_captures`), because they take no more than a refusal or two requests that the
pages send in the ordinary course. The others are kept as configurations beside the
runs: `tlc -config <name>.cfg <module>` violates the formula in each. They show where
the properties of the runs draw their line, and are what to check again when the code
changes. Paths are below `apps/api/src` unless they begin otherwise.

| Configuration | Module | Formula | What is said | What happens |
|---|---|---|---|---|
| `bug_orphan` | `MCPayments` | `CollectionIsTraceable` | the reference "is stored as `providerRef` before the request is sent" (payments/providers/mtn.provider.ts:30-33) | it is saved from the response; if that is lost, the row has no reference |
| `bug_unqueued` | `MCPayments` | `DyingRequestIsFound` | a dying request "still leaves something for reconciliation to find" (payments/payments.service.ts:70-71) | it dies before `queue.add`: nothing looks for rows without a job |
| `bug_ungranted` | `MCPayments` | `SettledIsAdmitted` | settled is when "the buyer should be granted access" (packages/shared/src/payment-state.ts:96) | it dies between the status and the grant; a settled payment is not looked at again |
| `bug_unsettled` | `MCPayments` | `SettledIsFinal` | "Terminal states are final" (packages/shared/src/payment-state.ts:14-15) | two API processes: the give-up of one overwrites SUCCESSFUL |
| `bug_price` | `MCSeats` | `PriceIsFrozen` | "frozen as soon as the class has any enrollment at all" (classrooms/classrooms.service.ts:118-120) | a seat is reserved between the count and the write |
| `bug_token` | `MCSeats` | `TokenIsUsedOnce` | the token "is single-use" (invitations/invitations.service.ts:122-123) | two accepts both find it pending |
| `bug_undone` | `MCRecordingEgress` | `CompleteIsFinal` | "the final status and storage key land via the `egress_ended` webhook" (live/live.service.ts:377) | a late `egress_updated` writes over them |
| `bug_instep` | `MCRecordingEgress` | `RecordingInStep` | the row is kept "in step with what LiveKit is actually doing" (live/live.service.ts:415-417) | a capture that fails at once is reported before there is a row to find |
| `bug_floor` | `MCLiveSession` | `FloorSurvives` | who may speak "keeps that right across a reconnect" (live/live.service.ts:160-161) | a join that read the row before a promote writes it back |
| `bug_muted` | `MCLiveSession` | `FloorIsHeard` | LiveKit's view is updated "as well as ours" (live/live.service.ts:236-238) | a promote comes between a token and its use: LiveKit has nobody to unmute yet, and the token says muted |
| `bug_gone` | `MCLiveSession` | `GoneAreGone` | `room_finished` is "the authoritative \"everyone left\" signal" (live/live.service.ts:413) | it arrives when somebody is in the room again, and writes them down as gone |
| `bug_long` | `MCTimetable` | `NeverTooLong` | both checks are "re-applied server-side" (packages/shared/src/schemas/classroom.ts:80-84) | an update looks at the order only; moved one end at a time, a session gets longer than eight hours |
| `bug_relaunched` | `MCTimetable` | `CancelledStaysOff` | "A cancelled class cannot be published again." (classrooms/classrooms.service.ts:164) | a publish that read the class before it was cancelled |
| `bug_takeover` | `MCIdentity` | `LinkIsKept` | linking "only ever attaches an identity to a row whose `auth0Sub` is still null" (README.md:181-182 of the repository) | two syncs both read it as null |
| `bug_unverified` | `MCIdentity` | `VerificationIsKept` | a sync never "unsets a verification that already happened" (auth/auth.service.ts:140-143) | two syncs both read the row as unverified, and the one whose claim says no writes last |

Known limits, of which no document says that they ought to be otherwise, and which no
property asks about:

- Seats that are paid for or comped may exceed the capacity (payments/payments.service.ts:328).
- `leftAt` of whoever was in the room stays empty when `end` ends the session, since
  `room_finished` skips ENDED sessions; and a room that `end` fails to close stays open
  (live/live.service.ts:309).
- The page of a class shows what came last, be it the answer to an older question, until
  a newer one comes (classroom-detail.page.ts:290).
- A live-room page that is left before its room exists connects one that nothing
  disconnects (live-room.page.ts:529).
- Sessions that went with their class stay SCHEDULED in a tab that is open
  (classroom-manage.page.ts:149).
- What a host types into the details before the class arrives is overwritten by it
  (manage-details.tab.ts:130).

## 11. Not modelled

- Live room: the chat, the own microphone and camera buttons, the audio elements and
  the list of participants. They mirror LiveKit's own state on its events, without a
  decision of their own.
- Pages that only list, and forms without a state of their own (create a class, price
  a recording, the enrolments tab, the library): one load when the page opens, or one
  post and a redirect; what can go wrong there `BuyerPages` and `HostDesk` have.
- Phone numbers and money (`msisdn.ts`, `money.ts`): conversions of text on which no
  order of events depends.
- MTN's token cache and wire format, the fake operator, the registry of operators.
- The token guard, organisations, mail, configuration, health checks, the rest of the
  seed and the infrastructure files: no behaviour over time that a model would add to.
- In the API: texts, amounts beyond a price, filters of the listings. A `PaymentEvent`
  that was written before a rejected status stays behind; no property counts events.

Every safety property of the runs, invariant or action property, has a theorem. TLC
alone has the liveness properties, which rest on fairness and so are beyond the prover:
`ReachesReconciliation`, `SettledIsGranted` and `ApprovedIsSettled` (section 3),
`FinishedIsEnded` in `FinishIsTrue` (4), `StopIsFollowed` in `CaptureIsInHand` (5),
`WaitingEnds` (9); and the violations of section 10.
