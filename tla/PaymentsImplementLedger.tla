---- MODULE PaymentsImplementLedger ----
(***************************************************************************)
(* The payment subsystem seen as the PaymentLedger it promises: the rows   *)
(* of the Payment table give status and target, the ACTIVE rows of         *)
(* Enrollment and RecordingAccess give who is admitted.                    *)
(***************************************************************************)
EXTENDS Payments

LedgerStatus == [k \in Keys |-> IF Exists(k) THEN payment[k].status ELSE "ABSENT"]

LedgerBuys ==
    [k \in Keys |-> IF Exists(k) THEN <<payment[k].user, payment[k].item>> ELSE << >>]

LedgerAdmitted ==
    {ui \in Users \X Items : access[ui[1]][ui[2]] = "ACTIVE"}

Ledger == INSTANCE PaymentLedger
          WITH status <- LedgerStatus, buys <- LedgerBuys, admitted <- LedgerAdmitted

\* Every behaviour of the handlers, the worker and the failures is one of the
\* ledger: a payment advances only along the lifecycle, and a buyer is admitted
\* only by a payment that is SUCCESSFUL when it happens.
ImplementsLedger == Ledger!LedgerSpec

====
