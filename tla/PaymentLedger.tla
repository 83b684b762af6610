---- MODULE PaymentLedger ----
(***************************************************************************)
(* What the payment subsystem promises to the rest of FRNTDesk, with no    *)
(* handlers, no queue and no failures: a payment is opened once, its       *)
(* status only ever advances along the lifecycle of PaymentState, and a    *)
(* buyer is admitted to an item only by a payment for that item that is    *)
(* SUCCESSFUL.  Payments implements this with one API process.             *)
(***************************************************************************)
EXTENDS PaymentState

CONSTANTS
    Keys,       \* payments
    Users,      \* buyers
    Items       \* what can be bought

VARIABLES
    status,     \* status[k]: "ABSENT", or the status of payment k
    buys,       \* buys[k]: <<user, item>> of payment k, <<>> while absent
    admitted    \* the <<user, item>> pairs somebody paid for

ledgerVars == <<status, buys, admitted>>

LedgerInit ==
    /\ status = [k \in Keys |-> "ABSENT"]
    /\ buys = [k \in Keys |-> << >>]
    /\ admitted = {}

Open(k, u, i) ==
    /\ status[k] = "ABSENT"
    /\ status' = [status EXCEPT ![k] = "INITIATED"]
    /\ buys' = [buys EXCEPT ![k] = <<u, i>>]
    /\ UNCHANGED admitted

Advance(k, s) ==
    /\ status[k] # "ABSENT"
    /\ transition(status[k], s) = "APPLY"
    /\ status' = [status EXCEPT ![k] = s]
    /\ UNCHANGED <<buys, admitted>>

Admit(k) ==
    /\ status[k] = "SUCCESSFUL"
    /\ admitted' = admitted \cup {buys[k]}
    /\ UNCHANGED <<status, buys>>

LedgerNext ==
    \E k \in Keys :
        \/ \E u \in Users, i \in Items : Open(k, u, i)
        \/ \E s \in PaymentStatuses : Advance(k, s)
        \/ Admit(k)

LedgerSpec == LedgerInit /\ [][LedgerNext]_ledgerVars

====
