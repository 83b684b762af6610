---- MODULE PaymentState ----
(***************************************************************************)
(* The payment lifecycle of packages/shared/src/payment-state.ts: a pure   *)
(* table that classifies every proposed change of a payment's status.      *)
(* Nothing here writes; the callers in Payments decide what to do with the *)
(* outcome.                                                                *)
(***************************************************************************)

PaymentStatuses == {"INITIATED", "PENDING", "SUCCESSFUL", "FAILED", "TIMEOUT"}

Terminal == {"SUCCESSFUL", "FAILED", "TIMEOUT"}

Outcomes == {"APPLY", "NOOP", "REJECT"}

\* Where each status may go next.
Allowed == [INITIATED  |-> {"PENDING", "SUCCESSFUL", "FAILED", "TIMEOUT"},
            PENDING    |-> {"SUCCESSFUL", "FAILED", "TIMEOUT"},
            SUCCESSFUL |-> {},
            FAILED     |-> {},
            TIMEOUT    |-> {}]

isTerminal(status) == status \in Terminal

\* The outcome of proposing status `to` to a payment whose status is `from`.
transition(from, to) ==
    IF from = to THEN "NOOP"
    ELSE IF isTerminal(from) \/ to \notin Allowed[from] THEN "REJECT"
    ELSE "APPLY"

\* Mutant of grantsAccess: every payment that ended is taken for a paid one.
grantsAccessWhenOver(status) == isTerminal(status)

grantsAccess(status) == status = "SUCCESSFUL"

needsReconciliation(status) == ~isTerminal(status)

====
